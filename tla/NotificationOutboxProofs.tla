------------------------ MODULE NotificationOutboxProofs ------------------------
(***************************************************************************)
(* What the notification service never does, for any incidents, settings,  *)
(* batch size and bounds: a second row for a channel, a SENT that went     *)
(* nowhere, a duplicate without a failure, a settled row touched again.    *)
(***************************************************************************)
EXTENDS NotificationOutbox, SequenceTheorems, FiniteSetTheorems, WellFoundedInduction, TLAPS

\* What a pass has in hand is pending, and what it is about to mark as sent
\* went out.
InHand ==
    /\ pc \in {"send", "mark"} => todo \subseteq Pending(rows)
    /\ pc \in {"sendMail", "markMail"} => todo \subseteq Pending(mails)
    /\ (pc = "mark" /\ verdict = "SENT") => rows[First].delivered > 0
    /\ (pc = "markMail" /\ verdict = "SENT") => mails[First].delivered > 0

OInv ==
    /\ TypeOK
    /\ OncePerChannel
    /\ SentWentOut
    /\ DuplicatesNeedFailures
    /\ InHand

\* The row being handled is one of those in hand.
LEMMA FirstIsInHand ==
    ASSUME TypeOK, todo # {}
    PROVE  First \in todo
<1>1. todo \subseteq Nat
  <2>1. DOMAIN rows \subseteq Nat /\ DOMAIN mails \subseteq Nat
    BY LenProperties DEF TypeOK
  <2> QED BY <2>1 DEF TypeOK
<1>2. \E n \in todo : \A m \in todo : n <= m
  <2> DEFINE R == OpToRel(<, Nat)
  <2>1. IsWellFoundedOn(R, Nat)
    BY NatLessThanWellFounded
  <2>2. \A m, n \in Nat : <<m, n>> \in R <=> m < n
    BY DEF OpToRel
  <2> HIDE DEF R
  <2>3. \E n \in todo : \A m \in todo : <<m, n>> \notin R
    BY <1>1, <2>1, WFMin
  <2>4. PICK n \in todo : \A m \in todo : <<m, n>> \notin R
    BY <2>3
  <2>5. \A m \in todo : m \in Nat /\ n \in Nat /\ ~(m < n)
    BY <1>1, <2>2, <2>4
  <2> QED BY <2>5
<1> QED BY <1>2 DEF First

\* The channels still to be created for are the service's own.
LEMMA NextChannel ==
    ASSUME TypeOK, left # <<>>
    PROVE  /\ Head(left) \in {"CONSOLE", "EMAIL", "FCM"}
           /\ Tail(left) \in Seq({"CONSOLE", "EMAIL", "FCM"})
BY HeadTailProperties DEF TypeOK

\* The rows of one INSERT .. SELECT: one for each incident that lacks one.
LEMMA NewRows ==
    ASSUME NEW c \in {"CONSOLE", "EMAIL", "FCM"}, NEW s \in SetToSeqs(Missing(c))
    PROVE  /\ [k \in DOMAIN s |-> Row(s[k], c)] \in Seq(RowType)
           /\ Len([k \in DOMAIN s |-> Row(s[k], c)]) = Cardinality(Missing(c))
           /\ Cardinality(Missing(c)) \in Nat
           /\ DOMAIN s = 1..Cardinality(Missing(c))
           /\ \A k \in DOMAIN s : s[k] \in Missing(c)
           /\ \A j, k \in DOMAIN s : j # k => s[j] # s[k]
<1>1. Cardinality(Missing(c)) \in Nat
  BY OutboxAssumption, FS_Subset, FS_CardinalityType DEF Missing
<1>2. /\ DOMAIN s = 1..Cardinality(Missing(c))
      /\ \A k \in DOMAIN s : s[k] \in Missing(c)
      /\ \A j, k \in DOMAIN s : j # k => s[j] # s[k]
  BY DEF SetToSeqs
<1>3. \A k \in DOMAIN s : Row(s[k], c) \in RowType
  BY <1>2 DEF Missing, Row, RowType
<1> DEFINE new == [k \in 1..Cardinality(Missing(c)) |-> Row(s[k], c)]
<1>4. new \in [1..Cardinality(Missing(c)) -> RowType]
  BY <1>2, <1>3
<1>5. new \in Seq(RowType) /\ Len(new) = Cardinality(Missing(c))
  BY <1>1, <1>4
<1> QED BY <1>1, <1>2, <1>5

\* A row is replaced: the table keeps its length and its other rows.
LEMMA RowReplaced ==
    ASSUME TypeOK, NEW n \in DOMAIN rows, NEW r \in RowType,
           rows' = [rows EXCEPT ![n] = r]
    PROVE  /\ rows' \in Seq(RowType)
           /\ DOMAIN rows' = DOMAIN rows
           /\ rows'[n] = r
           /\ \A m \in DOMAIN rows : m # n => rows'[m] = rows[m]
<1>1. rows \in Seq(RowType) /\ n \in 1..Len(rows) /\ DOMAIN rows = 1..Len(rows)
  BY LenProperties DEF TypeOK
<1>2. rows' \in Seq(RowType)
  BY <1>1, ExceptSeq, Zenon
<1> QED BY <1>1, <1>2

LEMMA MailReplaced ==
    ASSUME TypeOK, NEW n \in DOMAIN mails, NEW r \in MailType,
           mails' = [mails EXCEPT ![n] = r]
    PROVE  /\ mails' \in Seq(MailType)
           /\ DOMAIN mails' = DOMAIN mails
           /\ mails'[n] = r
           /\ \A m \in DOMAIN mails : m # n => mails'[m] = mails[m]
<1>1. mails \in Seq(MailType) /\ n \in 1..Len(mails) /\ DOMAIN mails = 1..Len(mails)
  BY LenProperties DEF TypeOK
<1>2. mails' \in Seq(MailType)
  BY <1>1, ExceptSeq, Zenon
<1> QED BY <1>1, <1>2

\* Deliveries are counted from 0.
LEMMA CountsAreNat ==
    ASSUME TypeOK
    PROVE  /\ rows \in [DOMAIN rows -> RowType] /\ mails \in [DOMAIN mails -> MailType]
           /\ \A n \in DOMAIN rows : rows[n].delivered \in Nat
           /\ \A n \in DOMAIN mails : mails[n].delivered \in Nat
<1>1. rows \in [DOMAIN rows -> RowType] /\ mails \in [DOMAIN mails -> MailType]
  BY LenProperties DEF TypeOK
<1> QED BY <1>1 DEF RowType, MailType

\* Rows are appended: the old ones keep their places.
LEMMA RowsAppended ==
    ASSUME TypeOK, NEW new \in Seq(RowType), rows' = rows \o new
    PROVE  /\ rows' \in Seq(RowType)
           /\ DOMAIN rows = 1..Len(rows) /\ Len(rows) \in Nat /\ Len(new) \in Nat
           /\ DOMAIN rows' = 1..(Len(rows) + Len(new))
           /\ \A n \in DOMAIN rows : rows'[n] = rows[n]
           /\ \A n \in DOMAIN rows' :
                n \notin DOMAIN rows =>
                    n - Len(rows) \in 1..Len(new) /\ rows'[n] = new[n - Len(rows)]
<1>1. rows \in Seq(RowType)
  BY DEF TypeOK
<1>2. /\ rows' \in Seq(RowType)
      /\ Len(rows') = Len(rows) + Len(new)
      /\ \A n \in 1..(Len(rows) + Len(new)) :
           rows'[n] = IF n <= Len(rows) THEN rows[n] ELSE new[n - Len(rows)]
  BY <1>1, ConcatProperties, Zenon
<1>3. /\ Len(rows) \in Nat /\ DOMAIN rows = 1..Len(rows)
      /\ Len(new) \in Nat /\ DOMAIN rows' = 1..Len(rows')
  BY <1>1, <1>2, LenProperties
<1> QED BY <1>2, <1>3

\* What growth of the table cannot disturb.
LEMMA GrowthKeeps ==
    ASSUME OInv, NEW new \in Seq(RowType), rows' = rows \o new,
           \A k \in 1..Len(new) :
               new[k].status = "PENDING" /\ new[k].delivered = 0,
           mails' = mails, pc' = pc, todo' = todo, verdict' = verdict,
           failures' = failures
    PROVE  SentWentOut' /\ DuplicatesNeedFailures' /\ InHand'
<1>1. /\ DOMAIN rows \subseteq DOMAIN rows'
      /\ \A n \in DOMAIN rows : rows'[n] = rows[n]
      /\ \A n \in DOMAIN rows' : n \notin DOMAIN rows =>
            rows'[n].status = "PENDING" /\ rows'[n].delivered = 0
  BY RowsAppended DEF OInv
<1>2. First' = First
  BY DEF First
<1>3. failures \in Nat
  BY OutboxAssumption DEF OInv, TypeOK
<1>4. SentWentOut'
  BY <1>1 DEF OInv, SentWentOut
<1>5. DuplicatesNeedFailures'
  BY <1>1, <1>2, <1>3 DEF OInv, DuplicatesNeedFailures, Recorded
<1>6. InHand'
  <2>1. pc = "mark" => First \in DOMAIN rows
    BY FirstIsInHand DEF OInv, TypeOK, InHand, Pending
  <2> QED BY <1>1, <1>2, <2>1 DEF OInv, InHand, Pending
<1> QED BY <1>4, <1>5, <1>6

\* One row with an incident of its own, or with none.
LEMMA OneRowAppended ==
    ASSUME OInv, NEW i \in Incidents \cup {None},
           rows' = Append(rows, Row(i, "BROWSER")),
           incident' \in [Incidents -> {"NONE", "ACTIVE", "CLOSED"}],
           UNCHANGED <<mails, config, smtp, pc, left, todo, verdict, failures>>
    PROVE  OInv'
<1> DEFINE new == <<Row(i, "BROWSER")>>
<1>1. /\ new \in Seq(RowType) /\ Len(new) = 1
      /\ new[1] = Row(i, "BROWSER")
  BY DEF Row, RowType
<1>2. rows' = rows \o new
  BY DEF OInv, TypeOK
<1> HIDE DEF new
<1>3. \A k \in 1..Len(new) : new[k].status = "PENDING" /\ new[k].delivered = 0
  BY <1>1 DEF Row
<1>4. /\ rows' \in Seq(RowType) /\ DOMAIN rows \subseteq DOMAIN rows'
      /\ \A n \in DOMAIN rows : rows'[n] = rows[n]
      /\ \A n \in DOMAIN rows' : n \notin DOMAIN rows => rows'[n].channel = "BROWSER"
  <2>1. /\ rows' \in Seq(RowType)
        /\ DOMAIN rows = 1..Len(rows) /\ Len(rows) \in Nat
        /\ DOMAIN rows' = 1..(Len(rows) + Len(new))
        /\ \A n \in DOMAIN rows : rows'[n] = rows[n]
        /\ \A n \in DOMAIN rows' : n \notin DOMAIN rows =>
              n - Len(rows) \in 1..Len(new) /\ rows'[n] = new[n - Len(rows)]
    BY <1>1, <1>2, RowsAppended DEF OInv
  <2>2. \A n \in DOMAIN rows' : n \notin DOMAIN rows => n - Len(rows) = 1
    BY <2>1, <1>1
  <2>3. \A n \in DOMAIN rows' : n \notin DOMAIN rows => rows'[n] = Row(i, "BROWSER")
    BY <2>1, <2>2, <1>1
  <2>4. DOMAIN rows \subseteq DOMAIN rows'
    BY <2>1, <1>1
  <2> QED BY <2>1, <2>3, <2>4 DEF Row
<1>5. TypeOK'
  BY <1>4 DEF OInv, TypeOK
<1>6. OncePerChannel'
  BY <1>4 DEF OInv, OncePerChannel
<1>7. SentWentOut' /\ DuplicatesNeedFailures' /\ InHand'
  BY <1>1, <1>2, <1>3, GrowthKeeps
<1> QED BY <1>5, <1>6, <1>7 DEF OInv

LEMMA NewIncidentKeeps ==
    ASSUME OInv, NEW i \in Incidents, NewIncident(i) PROVE OInv'
<1>1. incident' \in [Incidents -> {"NONE", "ACTIVE", "CLOSED"}]
  BY DEF NewIncident, OInv, TypeOK
<1> QED BY <1>1, OneRowAppended DEF NewIncident

LEMMA SanctionNoticeKeeps ==
    ASSUME OInv, SanctionNotice PROVE OInv'
<1>1. incident' \in [Incidents -> {"NONE", "ACTIVE", "CLOSED"}]
  BY DEF SanctionNotice, OInv, TypeOK
<1> QED BY <1>1, OneRowAppended DEF SanctionNotice

\* The INSERT .. SELECT: its rows differ in their incident, and none of these
\* had a row of the channel.
LEMMA CreateNotificationsKeeps ==
    ASSUME OInv, CreateNotifications PROVE OInv'
<1> DEFINE c == Head(left)
<1>1. /\ c \in {"CONSOLE", "EMAIL", "FCM"}
      /\ left' \in Seq({"CONSOLE", "EMAIL", "FCM"})
  BY NextChannel DEF OInv, CreateNotifications
<1> HIDE DEF c
<1>2. PICK s \in SetToSeqs(Missing(c)) :
        rows' = rows \o [k \in DOMAIN s |-> Row(s[k], c)]
  BY DEF CreateNotifications, c
<1> DEFINE new == [k \in DOMAIN s |-> Row(s[k], c)]
<1>3. /\ new \in Seq(RowType) /\ DOMAIN s = 1..Len(new)
      /\ \A k \in DOMAIN s : s[k] \in Missing(c)
      /\ \A j, k \in DOMAIN s : j # k => s[j] # s[k]
  BY <1>1, NewRows
<1>4. /\ \A k \in 1..Len(new) : new[k].status = "PENDING" /\ new[k].delivered = 0
      /\ \A k \in 1..Len(new) : new[k].incident = s[k] /\ new[k].channel = c
  BY <1>3 DEF Row
<1>5. rows' = rows \o new
  BY <1>2
<1> HIDE DEF new
<1>6. /\ rows' \in Seq(RowType)
      /\ DOMAIN rows = 1..Len(rows) /\ Len(rows) \in Nat /\ Len(new) \in Nat
      /\ DOMAIN rows' = 1..(Len(rows) + Len(new))
      /\ \A n \in DOMAIN rows : rows'[n] = rows[n]
      /\ \A n \in DOMAIN rows' :
           n \notin DOMAIN rows =>
               n - Len(rows) \in 1..Len(new) /\ rows'[n] = new[n - Len(rows)]
  BY <1>3, <1>5, RowsAppended DEF OInv
<1>7. DOMAIN rows \subseteq DOMAIN rows'
  BY <1>6
<1>8. TypeOK'
  BY <1>1, <1>6, <1>7 DEF OInv, TypeOK, CreateNotifications, tables, world
<1>9. OncePerChannel'
  <2> SUFFICES ASSUME NEW m \in DOMAIN rows', NEW n \in DOMAIN rows',
                      rows'[m].incident = rows'[n].incident,
                      rows'[m].channel = rows'[n].channel,
                      rows'[m].channel # "BROWSER"
               PROVE  m = n
    BY DEF OncePerChannel
  <2>1. ASSUME NEW x \in DOMAIN rows, NEW y \in DOMAIN rows', y \notin DOMAIN rows,
               rows'[x].incident = rows'[y].incident,
               rows'[x].channel = rows'[y].channel
        PROVE  FALSE
    <3>1. rows'[y].incident \in Missing(c) /\ rows'[y].channel = c
      BY <2>1, <1>3, <1>4, <1>6
    <3> QED BY <2>1, <3>1, <1>6 DEF Missing
  <2>2. CASE m \in DOMAIN rows /\ n \in DOMAIN rows
    BY <2>2, <1>6 DEF OInv, OncePerChannel
  <2>3. CASE m \notin DOMAIN rows /\ n \notin DOMAIN rows
    <3>1. /\ m - Len(rows) \in 1..Len(new) /\ rows'[m].incident = s[m - Len(rows)]
          /\ n - Len(rows) \in 1..Len(new) /\ rows'[n].incident = s[n - Len(rows)]
      BY <2>3, <1>4, <1>6
    <3>2. m - Len(rows) = n - Len(rows)
      BY <3>1, <1>3
    <3> QED BY <3>2, <1>6
  <2> QED BY <2>1, <2>2, <2>3
<1>10. SentWentOut' /\ DuplicatesNeedFailures' /\ InHand'
  BY <1>3, <1>4, <1>5, GrowthKeeps DEF CreateNotifications, world
<1> QED BY <1>8, <1>9, <1>10 DEF OInv

\* Steps that leave both tables alone disturb an invariant only through the
\* row in hand.
LEMMA StillTablesKeep ==
    ASSUME OInv, TypeOK', rows' = rows, mails' = mails,
           pc' \in {"send", "mark"} => todo' \subseteq Pending(rows),
           pc' \in {"sendMail", "markMail"} => todo' \subseteq Pending(mails),
           \/ UNCHANGED <<pc, todo, verdict, failures>>
           \/ /\ {pc, pc'} \cap {"mark", "markMail"} = {}
              /\ failures' = failures
           \/ pc' = "rest" /\ failures' = failures + 1
    PROVE  OInv'
<1>1. failures \in Nat /\ failures' \in Nat
  BY OutboxAssumption DEF OInv, TypeOK
<1>2. todo' = todo => First' = First
  BY DEF First
<1>3. OncePerChannel'
  BY DEF OInv, OncePerChannel
<1>4. SentWentOut'
  BY DEF OInv, SentWentOut
<1>5. DuplicatesNeedFailures'
  <2>1. /\ \A n \in DOMAIN rows : rows[n].delivered \in Nat
        /\ \A n \in DOMAIN mails : mails[n].delivered \in Nat
    BY CountsAreNat DEF OInv
  <2>2. ASSUME NEW n \in DOMAIN rows
        PROVE  rows[n].delivered <= Recorded(rows, n, "mark")' + failures'
    <3>1. rows[n].delivered <= Recorded(rows, n, "mark") + failures
      BY DEF OInv, DuplicatesNeedFailures
    <3>2. Recorded(rows, n, "mark") \in {0, 1} /\ Recorded(rows, n, "mark")' \in {0, 1}
      BY DEF Recorded
    <3>3. CASE failures' = failures + 1
      BY <1>1, <2>1, <3>1, <3>2, <3>3
    <3>4. CASE failures' = failures
      <4>1. Recorded(rows, n, "mark")' = Recorded(rows, n, "mark")
        <5>1. CASE UNCHANGED <<pc, todo, verdict>>
          BY <1>2, <5>1 DEF Recorded
        <5>2. CASE {pc, pc'} \cap {"mark", "markMail"} = {}
          <6>1. pc \notin {"mark", "markMail"} /\ pc' \notin {"mark", "markMail"}
            BY <5>2
          <6> QED BY <6>1 DEF Recorded
        <5> QED BY <1>1, <3>4, <5>1, <5>2
      <4> QED BY <3>1, <3>4, <4>1
    <3> QED BY <3>3, <3>4
  <2>3. ASSUME NEW n \in DOMAIN mails
        PROVE  mails[n].delivered <= Recorded(mails, n, "markMail")' + failures'
    <3>1. mails[n].delivered <= Recorded(mails, n, "markMail") + failures
      BY DEF OInv, DuplicatesNeedFailures
    <3>2. Recorded(mails, n, "markMail") \in {0, 1} /\ Recorded(mails, n, "markMail")' \in {0, 1}
      BY DEF Recorded
    <3>3. CASE failures' = failures + 1
      BY <1>1, <2>1, <3>1, <3>2, <3>3
    <3>4. CASE failures' = failures
      <4>1. Recorded(mails, n, "markMail")' = Recorded(mails, n, "markMail")
        <5>1. CASE UNCHANGED <<pc, todo, verdict>>
          BY <1>2, <5>1 DEF Recorded
        <5>2. CASE {pc, pc'} \cap {"mark", "markMail"} = {}
          <6>1. pc \notin {"mark", "markMail"} /\ pc' \notin {"mark", "markMail"}
            BY <5>2
          <6> QED BY <6>1 DEF Recorded
        <5> QED BY <1>1, <3>4, <5>1, <5>2
      <4> QED BY <3>1, <3>4, <4>1
    <3> QED BY <3>3, <3>4
  <2> QED BY <2>2, <2>3 DEF DuplicatesNeedFailures
<1>6. InHand'
  <2>1. Pending(rows)' = Pending(rows) /\ Pending(mails)' = Pending(mails)
    BY DEF Pending
  <2> QED BY <1>2, <2>1 DEF OInv, TypeOK, InHand
<1> QED BY <1>3, <1>4, <1>5, <1>6 DEF OInv

\* Closing an incident, and the mail server going up or down.
LEMMA WorldKeeps ==
    ASSUME OInv, (\E i \in Incidents : CloseIncident(i)) \/ SmtpChanges PROVE OInv'
<1>1. TypeOK' /\ rows' = rows /\ mails' = mails /\ UNCHANGED <<pc, todo, verdict, failures>>
  BY DEF OInv, TypeOK, CloseIncident, SmtpChanges
<1> QED BY <1>1, StillTablesKeep DEF OInv, InHand

\* The steps of a pass that only read, or that end it.
LEMMA ReadersKeep ==
    ASSUME OInv,
           Poll \/ FetchPending \/ FetchPendingAccountEmails \/ Rest \/ Abort
    PROVE  OInv'
<1>1. Oldest(rows) \subseteq Pending(rows) /\ Oldest(mails) \subseteq Pending(mails)
  BY DEF Oldest
<1>2. Pending(rows) \subseteq DOMAIN rows /\ Pending(mails) \subseteq DOMAIN mails
  BY DEF Pending
<1>3. CASE Poll
  <2>1. ActiveChannels \in Seq({"CONSOLE", "EMAIL", "FCM"})
    BY DEF ActiveChannels
  <2>2. TypeOK'
    BY <1>3, <2>1 DEF OInv, TypeOK, Poll, tables, world
  <2> QED BY <1>3, <2>2, StillTablesKeep DEF Poll, tables
<1>4. CASE FetchPending
  <2>1. TypeOK'
    BY <1>1, <1>2, <1>4 DEF OInv, TypeOK, FetchPending, tables, world
  <2> QED BY <1>1, <1>4, <2>1, StillTablesKeep DEF FetchPending, tables
<1>5. CASE FetchPendingAccountEmails
  <2>1. TypeOK'
    BY <1>1, <1>2, <1>5 DEF OInv, TypeOK, FetchPendingAccountEmails, tables, world
  <2> QED BY <1>1, <1>5, <2>1, StillTablesKeep DEF FetchPendingAccountEmails, tables
<1>6. CASE Rest
  <2>1. TypeOK'
    BY <1>6 DEF OInv, TypeOK, Rest, tables, world
  <2> QED BY <1>6, <2>1, StillTablesKeep DEF Rest, tables
<1>7. CASE Abort
  <2>1. failures' \in 0..MaxFailures
    BY <1>7, OutboxAssumption DEF OInv, TypeOK, Abort
  <2>2. TypeOK'
    <3>1. left' \in Seq({"CONSOLE", "EMAIL", "FCM"})
      BY <1>7 DEF Abort
    <3> QED BY <1>7, <2>1, <3>1 DEF OInv, TypeOK, Abort, tables
  <2> QED BY <1>7, <2>2, StillTablesKeep DEF Abort, tables
<1> QED BY <1>3, <1>4, <1>5, <1>6, <1>7

\* One account email more: like a new row, for the other table.
LEMMA EnqueueAccountEmailKeeps ==
    ASSUME OInv, EnqueueAccountEmail PROVE OInv'
<1>1. PICK bad \in BOOLEAN : mails' = Append(mails, Mail(bad))
  BY DEF EnqueueAccountEmail
<1>2. Mail(bad) \in MailType /\ Mail(bad).status = "PENDING" /\ Mail(bad).delivered = 0
  BY DEF Mail, MailType
<1>3. mails \in Seq(MailType) /\ rows' = rows /\ First' = First /\ failures \in Nat
      /\ UNCHANGED <<pc, todo, verdict, failures>>
  BY OutboxAssumption DEF EnqueueAccountEmail, OInv, TypeOK, First
<1> DEFINE r == Mail(bad)
<1> HIDE DEF r
<1>4. /\ mails' \in Seq(MailType)
      /\ DOMAIN mails \subseteq DOMAIN mails'
      /\ \A n \in DOMAIN mails : mails'[n] = mails[n]
      /\ \A n \in DOMAIN mails' : n \notin DOMAIN mails => mails'[n] = r
  <2>1. r \in MailType /\ mails' = Append(mails, r)
    BY <1>1, <1>2 DEF r
  <2> QED BY <1>3, <2>1
<1>5. TypeOK'
  BY <1>3, <1>4 DEF OInv, TypeOK, EnqueueAccountEmail
<1>6. OncePerChannel'
  BY <1>3 DEF OInv, OncePerChannel
<1>7. SentWentOut'
  BY <1>2, <1>3, <1>4 DEF OInv, SentWentOut, r
<1>8. DuplicatesNeedFailures'
  BY <1>2, <1>3, <1>4 DEF OInv, DuplicatesNeedFailures, Recorded, r
<1>9. InHand'
  <2>1. pc = "markMail" => First \in DOMAIN mails
    BY FirstIsInHand DEF OInv, TypeOK
  <2> QED BY <1>3, <1>4, <2>1 DEF OInv, InHand, Pending
<1> QED BY <1>5, <1>6, <1>7, <1>8, <1>9 DEF OInv

\* An attempt on the row in hand. A delivery that is not reported as one costs a
\* failure.
LEMMA SentKeeps ==
    ASSUME OInv, pc = "send", todo # {}, NEW out \in BOOLEAN,
           NEW v \in {"SENT", "SKIPPED", "FAILED"}, Sent(First, out, v),
           v = "SENT" => out,
           failures' = failures + (IF out /\ v # "SENT" THEN 1 ELSE 0),
           failures' \in 0..MaxFailures,
           UNCHANGED <<incident, mails, world, left, todo>>
    PROVE  OInv'
<1>1. First \in todo /\ First \in DOMAIN rows /\ rows[First].status = "PENDING"
  BY FirstIsInHand DEF OInv, InHand, Pending
<1>2. First' = First
  BY DEF First
<1>3. /\ rows \in [DOMAIN rows -> RowType] /\ failures \in Nat /\ failures' \in Nat
      /\ failures <= failures'
  BY OutboxAssumption, LenProperties DEF OInv, TypeOK
<1> DEFINE r == [rows[First] EXCEPT !.delivered = @ + (IF out THEN 1 ELSE 0)]
<1>4. r \in RowType /\ rows' = [rows EXCEPT ![First] = r]
  BY <1>1, <1>3 DEF RowType, Sent
<1>5. /\ rows' \in Seq(RowType)
      /\ DOMAIN rows' = DOMAIN rows
      /\ rows'[First] = r
      /\ \A m \in DOMAIN rows : m # First => rows'[m] = rows[m]
  BY <1>1, <1>4, RowReplaced DEF OInv
<1>6. /\ \A m \in DOMAIN rows : rows'[m].incident = rows[m].incident
                               /\ rows'[m].channel = rows[m].channel
                               /\ rows'[m].status = rows[m].status
      /\ rows'[First].delivered = rows[First].delivered + (IF out THEN 1 ELSE 0)
      /\ pc' = "mark" /\ verdict' = v
  BY <1>5 DEF Sent
<1>7. rows[First].delivered \in Nat
  BY <1>1, <1>3 DEF RowType
<1>8. TypeOK'
  BY <1>1, <1>5, <1>6 DEF OInv, TypeOK, world
<1>9. OncePerChannel'
  BY <1>5, <1>6 DEF OInv, OncePerChannel
<1>10. SentWentOut'
  <2> SUFFICES ASSUME NEW n \in DOMAIN rows, rows'[n].status = "SENT"
               PROVE  rows'[n].delivered > 0
    BY <1>5 DEF OInv, SentWentOut
  <2> QED BY <1>1, <1>5, <1>6 DEF OInv, SentWentOut
<1>11. DuplicatesNeedFailures'
  <2>1. ASSUME NEW n \in DOMAIN rows, n # First
        PROVE  rows'[n].delivered <= Recorded(rows, n, "mark")' + failures'
    <3>1. rows[n].delivered \in Nat
      BY <1>3 DEF RowType
    <3>2. rows[n].delivered <= Recorded(rows, n, "mark") + failures
      BY DEF OInv, DuplicatesNeedFailures
    <3>3. Recorded(rows, n, "mark") \in {0, 1}
          /\ Recorded(rows, n, "mark")' = Recorded(rows, n, "mark")
      BY <1>2, <1>6, <2>1 DEF Recorded
    <3> QED BY <1>3, <1>5, <2>1, <3>1, <3>2, <3>3
  <2>2. rows'[First].delivered <= Recorded(rows, First, "mark")' + failures'
    <3>1. rows[First].delivered <= failures
      <4>1. Recorded(rows, First, "mark") = 0
        BY <1>1 DEF Recorded
      <4> QED BY <1>1, <1>3, <4>1 DEF OInv, DuplicatesNeedFailures
    <3>2. Recorded(rows, First, "mark")' = IF v = "SENT" THEN 1 ELSE 0
      BY <1>1, <1>2, <1>6 DEF Recorded
    <3> QED BY <1>3, <1>6, <1>7, <3>1, <3>2
  <2>3. ASSUME NEW n \in DOMAIN mails
        PROVE  mails[n].delivered <= Recorded(mails, n, "markMail")' + failures'
    <3>1. mails[n].delivered \in Nat
      BY CountsAreNat DEF OInv
    <3>2. Recorded(mails, n, "markMail") \in {0, 1}
          /\ Recorded(mails, n, "markMail")' = Recorded(mails, n, "markMail")
      BY <1>6 DEF Recorded
    <3> QED BY <1>3, <3>1, <3>2 DEF OInv, DuplicatesNeedFailures
  <2>4. \A n \in DOMAIN rows : rows'[n].delivered <= Recorded(rows, n, "mark")' + failures'
    BY <1>2, <2>1, <2>2
  <2> QED BY <1>5, <2>3, <2>4 DEF DuplicatesNeedFailures
<1>12. InHand'
  <2>1. todo' \subseteq Pending(rows)'
    BY <1>5, <1>6 DEF OInv, InHand, Pending
  <2>2. v = "SENT" => rows'[First].delivered > 0
    BY <1>6, <1>7
  <2> QED BY <1>2, <1>6, <2>1, <2>2 DEF InHand
<1> QED BY <1>8, <1>9, <1>10, <1>11, <1>12 DEF OInv

LEMMA SendersKeep ==
    ASSUME OInv, SendConsole \/ SendFcm \/ SendEmail PROVE OInv'
<1>1. failures \in 0..MaxFailures /\ MaxFailures \in Nat
      /\ failures + 0 = failures
  BY OutboxAssumption DEF OInv, TypeOK
<1>2. failures < MaxFailures => failures + 1 \in 0..MaxFailures
  BY <1>1
<1>3. CASE SendConsole
  BY <1>1, <1>3, SentKeeps DEF SendConsole
<1>4. CASE SendFcm
  BY <1>1, <1>4, SentKeeps DEF SendFcm
<1>5. CASE SendEmail
  <2>1. CASE Sent(First, TRUE, "SENT") /\ UNCHANGED failures
    BY <1>1, <1>5, <2>1, SentKeeps DEF SendEmail
  <2>2. CASE Sent(First, FALSE, "FAILED") /\ UNCHANGED failures
    BY <1>1, <1>5, <2>2, SentKeeps DEF SendEmail
  <2>3. CASE Sent(First, TRUE, "FAILED") /\ failures < MaxFailures
             /\ failures' = failures + 1
    BY <1>1, <1>2, <1>5, <2>3, SentKeeps DEF SendEmail
  <2>4. CASE Sent(First, FALSE, "SKIPPED") /\ UNCHANGED failures
    BY <1>1, <1>5, <2>4, SentKeeps DEF SendEmail
  <2> QED BY <1>5, <2>1, <2>2, <2>3, <2>4 DEF SendEmail
<1> QED BY <1>3, <1>4, <1>5

\* The verdict is written to the row it is about.
LEMMA MarkKeeps ==
    ASSUME OInv, Mark PROVE OInv'
<1>1. First \in todo /\ First \in DOMAIN rows /\ rows[First].status = "PENDING"
      /\ verdict \in {"SENT", "SKIPPED", "FAILED"}
  BY FirstIsInHand DEF Mark, OInv, TypeOK, InHand, Pending
<1> DEFINE r == [rows[First] EXCEPT !.status = IF verdict = "FAILED" THEN @ ELSE verdict]
<1>2. r \in RowType /\ r.incident = rows[First].incident /\ r.channel = rows[First].channel
      /\ r.delivered = rows[First].delivered
      /\ r.status = IF verdict = "FAILED" THEN "PENDING" ELSE verdict
  BY <1>1, CountsAreNat DEF OInv, RowType
<1>3. rows' = [rows EXCEPT ![First] = r]
  BY DEF Mark
<1> HIDE DEF r
<1>4. /\ rows' \in Seq(RowType) /\ DOMAIN rows' = DOMAIN rows
      /\ rows'[First] = r
      /\ \A m \in DOMAIN rows : m # First => rows'[m] = rows[m]
  BY <1>1, <1>2, <1>3, RowReplaced DEF OInv
<1>5. \A m \in DOMAIN rows : rows'[m].incident = rows[m].incident
        /\ rows'[m].channel = rows[m].channel /\ rows'[m].delivered = rows[m].delivered
  BY <1>2, <1>4
<1>6. todo' = todo \ {First} /\ verdict' = "NONE" /\ pc = "mark" /\ pc' = "send"
      /\ mails' = mails /\ failures' = failures /\ failures \in Nat
  BY OutboxAssumption DEF Mark, OInv, TypeOK
<1>7. TypeOK'
  BY <1>4, <1>6 DEF OInv, TypeOK, Mark, world
<1>8. OncePerChannel'
  BY <1>4, <1>5 DEF OInv, OncePerChannel
<1>9. SentWentOut'
  <2>1. verdict = "SENT" => rows[First].delivered > 0
    BY <1>6 DEF OInv, InHand
  <2>2. ASSUME NEW n \in DOMAIN rows, rows'[n].status = "SENT"
        PROVE  rows'[n].delivered > 0
    BY <1>1, <1>2, <1>4, <1>5, <2>1, <2>2 DEF OInv, SentWentOut
  <2> QED BY <1>4, <1>6, <2>2 DEF OInv, SentWentOut
<1>10. DuplicatesNeedFailures'
  <2>1. ASSUME NEW n \in DOMAIN rows
        PROVE  rows'[n].delivered <= Recorded(rows, n, "mark")' + failures'
    <3>1. rows[n].delivered <= Recorded(rows, n, "mark") + failures
      BY DEF OInv, DuplicatesNeedFailures
    <3>2. Recorded(rows, n, "mark") = Recorded(rows, n, "mark")'
      <4>1. CASE n = First
        BY <1>1, <1>2, <1>4, <1>6, <4>1 DEF Recorded
      <4>2. CASE n # First
        BY <1>4, <1>6, <4>2 DEF Recorded
      <4> QED BY <4>1, <4>2
    <3> QED BY <1>5, <1>6, <3>1, <3>2
  <2>2. ASSUME NEW n \in DOMAIN mails
        PROVE  mails[n].delivered <= Recorded(mails, n, "markMail")' + failures'
    <3>1. Recorded(mails, n, "markMail")' = Recorded(mails, n, "markMail")
      BY <1>6 DEF Recorded
    <3> QED BY <1>6, <3>1 DEF OInv, DuplicatesNeedFailures
  <2> QED BY <1>4, <1>6, <2>1, <2>2 DEF DuplicatesNeedFailures
<1>11. InHand'
  <2>1. todo' \subseteq Pending(rows)'
    BY <1>4, <1>6 DEF OInv, InHand, Pending
  <2> QED BY <1>6, <2>1 DEF InHand
<1> QED BY <1>7, <1>8, <1>9, <1>10, <1>11 DEF OInv

\* The same for the account emails.
LEMMA SendAccountEmailKeeps ==
    ASSUME OInv, SendAccountEmail PROVE OInv'
<1>1. PICK out \in BOOLEAN, v \in {"SENT", "FAILED"} :
        /\ MailSent(First, out, v) /\ (v = "SENT" => out)
        /\ failures' = failures + (IF out /\ v # "SENT" THEN 1 ELSE 0)
        /\ failures' \in 0..MaxFailures
  <2>1. failures \in 0..MaxFailures /\ MaxFailures \in Nat
        /\ failures + 0 = failures
        /\ (failures < MaxFailures => failures + 1 \in 0..MaxFailures)
    BY OutboxAssumption DEF OInv, TypeOK
  <2> QED BY <2>1 DEF SendAccountEmail
<1>2. First \in todo /\ First \in DOMAIN mails /\ mails[First].status = "PENDING"
      /\ pc = "sendMail" /\ rows' = rows /\ todo' = todo /\ First' = First
      /\ pc' = "markMail" /\ verdict' = v
  BY <1>1, FirstIsInHand DEF SendAccountEmail, MailSent, OInv, InHand, Pending, First
<1>3. failures \in Nat /\ failures' \in Nat /\ failures <= failures'
      /\ mails[First].delivered \in Nat /\ mails[First] \in MailType
  BY <1>1, <1>2, CountsAreNat, OutboxAssumption DEF OInv, TypeOK
<1> DEFINE r == [mails[First] EXCEPT !.delivered = @ + (IF out THEN 1 ELSE 0)]
<1>4. r \in MailType /\ r.status = "PENDING"
      /\ r.delivered = mails[First].delivered + (IF out THEN 1 ELSE 0)
  BY <1>2, <1>3 DEF MailType
<1>5. mails' = [mails EXCEPT ![First] = r]
  BY <1>1 DEF MailSent
<1> HIDE DEF r
<1>6. /\ mails' \in Seq(MailType) /\ DOMAIN mails' = DOMAIN mails
      /\ mails'[First] = r
      /\ \A m \in DOMAIN mails : m # First => mails'[m] = mails[m]
  BY <1>2, <1>4, <1>5, MailReplaced DEF OInv
<1>7. TypeOK'
  BY <1>1, <1>2, <1>6 DEF OInv, TypeOK, SendAccountEmail, world
<1>8. OncePerChannel'
  BY <1>2 DEF OInv, OncePerChannel
<1>9. SentWentOut'
  BY <1>2, <1>4, <1>6 DEF OInv, SentWentOut
<1>10. DuplicatesNeedFailures'
  <2>1. ASSUME NEW n \in DOMAIN mails, n # First
        PROVE  mails'[n].delivered <= Recorded(mails, n, "markMail")' + failures'
    <3>1. mails[n].delivered \in Nat
      BY CountsAreNat DEF OInv
    <3>2. mails[n].delivered <= Recorded(mails, n, "markMail") + failures
      BY DEF OInv, DuplicatesNeedFailures
    <3>3. Recorded(mails, n, "markMail") \in {0, 1}
          /\ Recorded(mails, n, "markMail")' = Recorded(mails, n, "markMail")
      BY <1>2, <1>6, <2>1 DEF Recorded
    <3> QED BY <1>3, <1>6, <2>1, <3>1, <3>2, <3>3
  <2>2. mails'[First].delivered <= Recorded(mails, First, "markMail")' + failures'
    <3>1. mails[First].delivered <= failures
      <4>1. Recorded(mails, First, "markMail") = 0
        BY <1>2 DEF Recorded
      <4> QED BY <1>2, <1>3, <4>1 DEF OInv, DuplicatesNeedFailures
    <3>2. Recorded(mails, First, "markMail")' = IF v = "SENT" THEN 1 ELSE 0
      BY <1>2, <1>4, <1>6 DEF Recorded
    <3> QED BY <1>1, <1>3, <1>4, <1>6, <3>1, <3>2
  <2>3. ASSUME NEW n \in DOMAIN rows
        PROVE  rows[n].delivered <= Recorded(rows, n, "mark")' + failures'
    <3>1. rows[n].delivered \in Nat
      BY CountsAreNat DEF OInv
    <3>2. Recorded(rows, n, "mark") \in {0, 1}
          /\ Recorded(rows, n, "mark")' = Recorded(rows, n, "mark")
      BY <1>2 DEF Recorded
    <3> QED BY <1>3, <3>1, <3>2 DEF OInv, DuplicatesNeedFailures
  <2>4. \A n \in DOMAIN mails : mails'[n].delivered <= Recorded(mails, n, "markMail")' + failures'
    BY <1>2, <2>1, <2>2
  <2> QED BY <1>2, <1>6, <2>3, <2>4 DEF DuplicatesNeedFailures
<1>11. InHand'
  <2>1. todo' \subseteq Pending(mails)'
    BY <1>2, <1>4, <1>6 DEF OInv, InHand, Pending
  <2>2. v = "SENT" => mails'[First].delivered > 0
    BY <1>1, <1>3, <1>4, <1>6
  <2> QED BY <1>2, <2>1, <2>2 DEF InHand
<1> QED BY <1>7, <1>8, <1>9, <1>10, <1>11 DEF OInv

LEMMA MarkAccountEmailKeeps ==
    ASSUME OInv, MarkAccountEmail PROVE OInv'
<1>1. First \in todo /\ First \in DOMAIN mails /\ mails[First].status = "PENDING"
  BY FirstIsInHand DEF MarkAccountEmail, OInv, TypeOK, InHand, Pending
<1> DEFINE r == [mails[First] EXCEPT !.status = IF verdict = "SENT" THEN "SENT" ELSE @]
<1>2. r \in MailType /\ r.delivered = mails[First].delivered
      /\ r.status = IF verdict = "SENT" THEN "SENT" ELSE "PENDING"
  BY <1>1, CountsAreNat DEF OInv, MailType
<1>3. mails' = [mails EXCEPT ![First] = r]
  BY DEF MarkAccountEmail
<1> HIDE DEF r
<1>4. /\ mails' \in Seq(MailType) /\ DOMAIN mails' = DOMAIN mails
      /\ mails'[First] = r
      /\ \A m \in DOMAIN mails : m # First => mails'[m] = mails[m]
  BY <1>1, <1>2, <1>3, MailReplaced DEF OInv
<1>5. \A m \in DOMAIN mails : mails'[m].delivered = mails[m].delivered
  BY <1>2, <1>4
<1>6. todo' = todo \ {First} /\ verdict' = "NONE" /\ pc = "markMail" /\ pc' = "sendMail"
      /\ rows' = rows /\ failures' = failures /\ failures \in Nat
  BY OutboxAssumption DEF MarkAccountEmail, OInv, TypeOK
<1>7. TypeOK'
  BY <1>4, <1>6 DEF OInv, TypeOK, MarkAccountEmail, world
<1>8. OncePerChannel'
  BY <1>6 DEF OInv, OncePerChannel
<1>9. SentWentOut'
  <2>1. verdict = "SENT" => mails[First].delivered > 0
    BY <1>6 DEF OInv, InHand
  <2>2. ASSUME NEW n \in DOMAIN mails, mails'[n].status = "SENT"
        PROVE  mails'[n].delivered > 0
    BY <1>1, <1>2, <1>4, <1>5, <2>1, <2>2 DEF OInv, SentWentOut
  <2> QED BY <1>4, <1>6, <2>2 DEF OInv, SentWentOut
<1>10. DuplicatesNeedFailures'
  <2>1. ASSUME NEW n \in DOMAIN mails
        PROVE  mails'[n].delivered <= Recorded(mails, n, "markMail")' + failures'
    <3>1. mails[n].delivered <= Recorded(mails, n, "markMail") + failures
      BY DEF OInv, DuplicatesNeedFailures
    <3>2. Recorded(mails, n, "markMail") = Recorded(mails, n, "markMail")'
      <4>1. CASE n = First
        BY <1>1, <1>2, <1>4, <1>6, <4>1 DEF Recorded
      <4>2. CASE n # First
        BY <1>4, <1>6, <4>2 DEF Recorded
      <4> QED BY <4>1, <4>2
    <3> QED BY <1>5, <1>6, <3>1, <3>2
  <2>2. ASSUME NEW n \in DOMAIN rows
        PROVE  rows[n].delivered <= Recorded(rows, n, "mark")' + failures'
    <3>1. Recorded(rows, n, "mark")' = Recorded(rows, n, "mark")
      BY <1>6 DEF Recorded
    <3> QED BY <1>6, <3>1 DEF OInv, DuplicatesNeedFailures
  <2> QED BY <1>4, <1>6, <2>1, <2>2 DEF DuplicatesNeedFailures
<1>11. InHand'
  <2>1. todo' \subseteq Pending(mails)'
    BY <1>4, <1>6 DEF OInv, InHand, Pending
  <2> QED BY <1>6, <2>1 DEF InHand
<1> QED BY <1>7, <1>8, <1>9, <1>10, <1>11 DEF OInv

LEMMA OInvInit == Init => OInv
<1> SUFFICES ASSUME Init PROVE OInv
  OBVIOUS
<1>1. rows \in Seq(RowType) /\ DOMAIN rows = {} /\ mails \in Seq(MailType) /\ DOMAIN mails = {}
      /\ left \in Seq({"CONSOLE", "EMAIL", "FCM"})
  BY DEF Init
<1>2. failures \in 0..MaxFailures
  BY OutboxAssumption DEF Init
<1>3. TypeOK
  BY <1>1, <1>2 DEF Init, TypeOK
<1> QED BY <1>1, <1>3 DEF Init, OInv, OncePerChannel, SentWentOut, DuplicatesNeedFailures, InHand

LEMMA OInvNext == OInv /\ [Next]_vars => OInv'
<1> SUFFICES ASSUME OInv, [Next]_vars PROVE OInv'
  OBVIOUS
<1>1. CASE \E i \in Incidents : NewIncident(i)
  BY <1>1, NewIncidentKeeps
<1>2. CASE (\E i \in Incidents : CloseIncident(i)) \/ SmtpChanges
  BY <1>2, WorldKeeps
<1>3. CASE SanctionNotice
  BY <1>3, SanctionNoticeKeeps
<1>4. CASE EnqueueAccountEmail
  BY <1>4, EnqueueAccountEmailKeeps
<1>5. CASE Pass \/ Abort
  <2>1. CASE Poll \/ FetchPending \/ FetchPendingAccountEmails \/ Rest \/ Abort
    BY <2>1, ReadersKeep
  <2>2. CASE CreateNotifications
    BY <2>2, CreateNotificationsKeeps
  <2>3. CASE SendConsole \/ SendFcm \/ SendEmail
    BY <2>3, SendersKeep
  <2>4. CASE Mark
    BY <2>4, MarkKeeps
  <2>5. CASE SendAccountEmail
    BY <2>5, SendAccountEmailKeeps
  <2>6. CASE MarkAccountEmail
    BY <2>6, MarkAccountEmailKeeps
  <2> QED BY <1>5, <2>1, <2>2, <2>3, <2>4, <2>5, <2>6 DEF Pass
<1>6. CASE UNCHANGED vars
  <2>1. TypeOK' /\ rows' = rows /\ mails' = mails /\ UNCHANGED <<pc, todo, verdict, failures>>
    BY <1>6 DEF vars, OInv, TypeOK
  <2> QED BY <2>1, StillTablesKeep DEF OInv, InHand
<1> QED BY <1>1, <1>2, <1>3, <1>4, <1>5, <1>6 DEF Next

\* A step leaves settled rows and emails alone: growth does not move them, and a
\* pass has only pending ones in hand.
LEMMA StepSettled == OInv /\ [Next]_vars => [SettledStays]_vars
<1> SUFFICES ASSUME OInv, Next PROVE SettledStays
  BY DEF vars
<1>1. ASSUME NEW new \in Seq(RowType), rows' = rows \o new, mails' = mails
      PROVE  SettledStays
  <2>1. \A n \in DOMAIN rows : rows'[n] = rows[n]
    BY <1>1, RowsAppended DEF OInv
  <2> QED BY <1>1, <2>1 DEF SettledStays
<1>2. ASSUME NEW i \in Incidents \cup {None}, rows' = Append(rows, Row(i, "BROWSER")),
             mails' = mails
      PROVE  SettledStays
  <2>1. <<Row(i, "BROWSER")>> \in Seq(RowType)
    BY DEF Row, RowType
  <2>2. rows' = rows \o <<Row(i, "BROWSER")>>
    BY <1>2 DEF OInv, TypeOK
  <2> QED BY <1>1, <1>2, <2>1, <2>2
<1>3. CASE (\E i \in Incidents : NewIncident(i)) \/ SanctionNotice
  BY <1>2, <1>3 DEF NewIncident, SanctionNotice
<1>4. CASE CreateNotifications
  <2>1. PICK s \in SetToSeqs(Missing(Head(left))) :
          rows' = rows \o [k \in DOMAIN s |-> Row(s[k], Head(left))]
    BY <1>4 DEF CreateNotifications
  <2>2. Head(left) \in {"CONSOLE", "EMAIL", "FCM"}
    BY <1>4, NextChannel DEF OInv, CreateNotifications
  <2>3. [k \in DOMAIN s |-> Row(s[k], Head(left))] \in Seq(RowType)
    BY <2>2, NewRows
  <2>4. mails' = mails
    BY <1>4 DEF CreateNotifications
  <2> QED BY <1>1, <2>1, <2>3, <2>4
<1>5. CASE EnqueueAccountEmail
  <2>1. PICK bad \in BOOLEAN : mails' = Append(mails, Mail(bad)) /\ rows' = rows
    BY <1>5 DEF EnqueueAccountEmail
  <2>2. \A n \in DOMAIN mails : mails'[n] = mails[n]
    BY <2>1 DEF OInv, TypeOK
  <2> QED BY <2>1, <2>2 DEF SettledStays
<1>6. CASE SendConsole \/ SendFcm \/ SendEmail \/ Mark
  <2>1. First \in DOMAIN rows /\ rows[First].status = "PENDING"
    BY <1>6, FirstIsInHand
       DEF OInv, TypeOK, InHand, Pending, SendConsole, SendFcm, SendEmail, Mark
  <2>2. mails' = mails /\ \E r : rows' = [rows EXCEPT ![First] = r]
    BY <1>6 DEF SendConsole, SendFcm, SendEmail, Mark, Sent
  <2>3. \A n \in DOMAIN rows : n # First => rows'[n] = rows[n]
    BY <2>1, <2>2
  <2> QED BY <2>1, <2>2, <2>3 DEF SettledStays
<1>7. CASE SendAccountEmail \/ MarkAccountEmail
  <2>1. First \in DOMAIN mails /\ mails[First].status = "PENDING"
    BY <1>7, FirstIsInHand
       DEF OInv, TypeOK, InHand, Pending, SendAccountEmail, MarkAccountEmail
  <2>2. rows' = rows /\ \E r : mails' = [mails EXCEPT ![First] = r]
    BY <1>7 DEF SendAccountEmail, MarkAccountEmail, MailSent
  <2>3. \A n \in DOMAIN mails : n # First => mails'[n] = mails[n]
    BY <2>1, <2>2
  <2> QED BY <2>1, <2>2, <2>3 DEF SettledStays
<1>8. CASE (\E i \in Incidents : CloseIncident(i)) \/ SmtpChanges
           \/ Poll \/ FetchPending \/ FetchPendingAccountEmails \/ Rest \/ Abort
  BY <1>8 DEF SettledStays, CloseIncident, SmtpChanges, Poll, FetchPending,
     FetchPendingAccountEmails, Rest, Abort, tables
<1> QED BY <1>3, <1>4, <1>5, <1>6, <1>7, <1>8 DEF Next, Pass

LEMMA Inductive == Spec => []OInv
BY OInvInit, OInvNext, PTL DEF Spec

\* Every value keeps its type.
THEOREM OutboxTypes == Spec => []TypeOK
<1>1. OInv => TypeOK
  BY DEF OInv
<1> QED BY <1>1, Inductive, PTL

\* Whatever is interrupted or reconfigured, there is at most one row for an
\* incident and a channel of the service.
THEOREM OneRowPerChannel == Spec => []OncePerChannel
<1>1. OInv => OncePerChannel
  BY DEF OInv
<1> QED BY <1>1, Inductive, PTL

\* SENT means that the message left the system.
THEOREM SentIsTrue == Spec => []SentWentOut
<1>1. OInv => SentWentOut
  BY DEF OInv
<1> QED BY <1>1, Inductive, PTL

\* Every delivery beyond the recorded one is paid for by a failure.
THEOREM DuplicatesAreFailures == Spec => []DuplicatesNeedFailures
<1>1. OInv => DuplicatesNeedFailures
  BY DEF OInv
<1> QED BY <1>1, Inductive, PTL

\* Settled rows and emails are final: not changed, not sent again.
THEOREM SettledForGood == Spec => SettledIsFinal
BY StepSettled, Inductive, PTL DEF Spec, SettledIsFinal
=============================================================================
