--------------------------- MODULE NotificationOutbox ---------------------------
(* The notification service (services/notification-service): every 15 seconds  *)
(* it creates the notification rows that active incidents lack, sends the      *)
(* oldest pending rows, and then the oldest pending account emails. It is one  *)
(* process and every statement it issues commits by itself. Other services     *)
(* insert rows of their own (the browser's, an SOS, a sanction) and change     *)
(* incidents between any two of its statements.                                *)
(*                                                                             *)
(* A row's position in its table is its place in ORDER BY created_at.          *)
EXTENDS Naturals, FiniteSets, SequencesExt

CONSTANTS
    Incidents,
    None,             \* no incident (a sanction's notification has none)
    Configs,          \* the environments the service is ever started with
    Batch,            \* LIMIT 20
    MaxArrivals,      \* bound: account emails, rows without an incident, and twice
                      \* the incidents
    MaxFailures       \* bound: failed statements, stops, answers lost

ASSUME OutboxAssumption ==
    /\ IsFiniteSet(Incidents) /\ None \notin Incidents
    /\ Configs \subseteq SUBSET {"SMTP_HOST", "EMAIL_TO", "FCM"}
    /\ Batch \in Nat \ {0}
    /\ {MaxArrivals, MaxFailures} \subseteq Nat

VARIABLES
    incident,   \* incidents.status, as far as the service tells it apart
    rows,       \* notifications
    mails,      \* account_email_outbox
    config,     \* the settings that are present in its environment
    smtp,       \* does the mail server answer
    pc, left, todo, verdict,   \* a pass: where it is, channels, ids, outcome
    failures

vars == <<incident, rows, mails, config, smtp, pc, left, todo, verdict, failures>>
tables == <<incident, rows, mails>>
world == <<config, smtp>>
----------------------------------------------------------------------------
\* A row to send. `delivered`, how often it went out, is history; `refused` is a
\* recipient that the mail server always rejects.
Row(i, c) == [incident |-> i, channel |-> c, status |-> "PENDING", delivered |-> 0]
Mail(bad) == [refused |-> bad, status |-> "PENDING", delivered |-> 0]

Pending(q) == {n \in DOMAIN q : q[n].status = "PENDING"}
OldestOfAll(q) == {n \in DOMAIN q : Cardinality({m \in DOMAIN q : m < n}) < Batch}
Newest(q) == {n \in Pending(q) : Cardinality({m \in Pending(q) : m > n}) < Batch}
Oldest(q) == {n \in Pending(q) :
                Cardinality({m \in Pending(q) : m < n}) < Batch}
First == CHOOSE n \in todo : \A m \in todo : n <= m

ActiveChannelsOne == IF {"SMTP_HOST", "EMAIL_TO"} \subseteq config THEN <<"EMAIL">> ELSE <<"CONSOLE">>
ActiveChannels ==
    <<"CONSOLE">>
    \o (IF {"SMTP_HOST", "EMAIL_TO"} \subseteq config THEN <<"EMAIL">> ELSE <<>>)
    \o (IF "FCM" \in config THEN <<"FCM">> ELSE <<>>)

MissingUnlessPending(c) == {i \in Incidents :
    /\ incident[i] = "ACTIVE"
    /\ ~ \E n \in Pending(rows) : rows[n].incident = i /\ rows[n].channel = c}

\* Active incidents without a row for the channel, whatever that row's status.
Missing(c) == {i \in Incidents :
    /\ incident[i] = "ACTIVE"
    /\ ~ \E n \in DOMAIN rows : rows[n].incident = i /\ rows[n].channel = c}

Init ==
    /\ incident = [i \in Incidents |-> "NONE"]
    /\ rows = <<>> /\ mails = <<>>
    /\ config \in Configs
    /\ smtp \in {"UP", "DOWN"}
    /\ pc = "rest" /\ left = <<>> /\ todo = {} /\ verdict = "NONE"
    /\ failures = 0
----------------------------------------------------------------------------
(* The other services.                                                         *)

Arrivals == Len(mails) + Cardinality({n \in DOMAIN rows : rows[n].incident = None})
                       + (2 * Cardinality({i \in Incidents : incident[i] # "NONE"}))

\* An incident appears together with its own row (BROWSER, IN_APP or
\* OPERATOR_DASHBOARD: the sender treats them alike).
NewIncident(i) ==
    /\ incident[i] = "NONE" /\ Arrivals + 2 <= MaxArrivals
    /\ incident' = [incident EXCEPT ![i] = "ACTIVE"]
    /\ rows' = Append(rows, Row(i, "BROWSER"))
    /\ UNCHANGED <<mails, config, smtp, pc, left, todo, verdict, failures>>

CloseIncident(i) ==
    /\ incident[i] = "ACTIVE"
    /\ incident' = [incident EXCEPT ![i] = "CLOSED"]
    /\ UNCHANGED <<rows, mails, config, smtp, pc, left, todo, verdict, failures>>

\* POST /sanctions.
SanctionNotice ==
    /\ Arrivals < MaxArrivals
    /\ rows' = Append(rows, Row(None, "BROWSER"))
    /\ UNCHANGED <<incident, mails, config, smtp, pc, left, todo, verdict, failures>>

EnqueueAccountEmail ==
    /\ Arrivals < MaxArrivals
    /\ \E bad \in BOOLEAN : mails' = Append(mails, Mail(bad))
    /\ UNCHANGED <<incident, rows, config, smtp, pc, left, todo, verdict, failures>>

SmtpChanges ==
    /\ "SMTP_HOST" \in config
    /\ smtp' \in {"UP", "DOWN"} \ {smtp}
    /\ UNCHANGED <<incident, rows, mails, config, pc, left, todo, verdict, failures>>
----------------------------------------------------------------------------
(* One pass of loop().                                                         *)

Poll ==
    /\ pc = "rest"
    /\ pc' = "create" /\ left' = ActiveChannels
    /\ UNCHANGED <<tables, world, todo, verdict, failures>>

\* One INSERT .. SELECT per channel; it orders its rows as it likes.
CreateNotifications ==
    /\ pc = "create" /\ left # <<>>
    /\ \E new \in SetToSeqs(Missing(Head(left))) :
         rows' = rows \o [k \in DOMAIN new |-> Row(new[k], Head(left))]
    /\ left' = Tail(left)
    /\ UNCHANGED <<incident, mails, world, pc, todo, verdict, failures>>

FetchPending ==
    /\ pc = "create" /\ left = <<>>
    /\ todo' = Oldest(rows)
    /\ pc' = "send"
    /\ UNCHANGED <<tables, world, left, verdict, failures>>

\* What became of one attempt: `out` says that the message left the system,
\* `v` is what the sender reports.
Sent(n, out, v) ==
    /\ rows' = [rows EXCEPT ![n].delivered = @ + (IF out THEN 1 ELSE 0)]
    /\ verdict' = v
    /\ pc' = "mark"

\* Any channel without a sender of its own goes to the console.
SendConsole ==
    /\ pc = "send" /\ todo # {}
    /\ rows[First].channel \notin {"EMAIL", "FCM"}
    /\ Sent(First, TRUE, "SENT")
    /\ UNCHANGED <<incident, mails, world, left, todo, failures>>

SendFcmPretending ==
    /\ pc = "send" /\ todo # {}
    /\ rows[First].channel = "FCM"
    /\ Sent(First, FALSE, "SENT")
    /\ UNCHANGED <<incident, mails, world, left, todo, failures>>
SendFcm ==
    /\ pc = "send" /\ todo # {}
    /\ rows[First].channel = "FCM"
    /\ Sent(First, FALSE, "SKIPPED")
    /\ UNCHANGED <<incident, mails, world, left, todo, failures>>

\* An unanswered message may or may not have been taken by the mail server.
SendEmail ==
    /\ pc = "send" /\ todo # {}
    /\ rows[First].channel = "EMAIL"
    /\ IF {"SMTP_HOST", "EMAIL_TO"} \subseteq config
         THEN \/ smtp = "UP" /\ Sent(First, TRUE, "SENT") /\ UNCHANGED failures
              \/ smtp = "DOWN" /\ Sent(First, FALSE, "FAILED") /\ UNCHANGED failures
              \/ /\ smtp = "UP" /\ failures < MaxFailures
                 /\ failures' = failures + 1
                 /\ Sent(First, TRUE, "FAILED")
         ELSE Sent(First, FALSE, "SKIPPED") /\ UNCHANGED failures
    /\ UNCHANGED <<incident, mails, world, left, todo>>

MarkAs(status, rest) ==
    /\ pc = "mark"
    /\ rows' = [rows EXCEPT ![First].status = status]
    /\ todo' = rest
    /\ verdict' = "NONE"
    /\ pc' = "send"
    /\ UNCHANGED <<incident, mails, world, left, failures>>
MarkAnyVerdict == MarkAs(verdict, todo \ {First})
MarkOnlySkipped == MarkAs(IF verdict = "SKIPPED" THEN verdict ELSE "PENDING", todo \ {First})
MarkBreaking == MarkAs(IF verdict = "FAILED" THEN "PENDING" ELSE verdict,
                       IF verdict = "FAILED" THEN {} ELSE todo \ {First})

\* markSent, markSkipped, or nothing: a failed row stays PENDING.
Mark ==
    /\ pc = "mark"
    /\ rows' = [rows EXCEPT ![First].status = IF verdict = "FAILED" THEN @ ELSE verdict]
    /\ todo' = todo \ {First}
    /\ verdict' = "NONE"
    /\ pc' = "send"
    /\ UNCHANGED <<incident, mails, world, left, failures>>

FetchPendingAccountEmails ==
    /\ pc = "send" /\ todo = {}
    /\ todo' = Oldest(mails)
    /\ pc' = "sendMail"
    /\ UNCHANGED <<tables, world, left, verdict, failures>>

MailSent(n, out, v) ==
    /\ mails' = [mails EXCEPT ![n].delivered = @ + (IF out THEN 1 ELSE 0)]
    /\ verdict' = v
    /\ pc' = "markMail"

\* Without a mail server every account email is "skipped", which its caller
\* treats like a failure.
SendAccountEmail ==
    /\ pc = "sendMail" /\ todo # {}
    /\ LET answers == "SMTP_HOST" \in config /\ smtp = "UP" /\ ~mails[First].refused
       IN \/ answers /\ MailSent(First, TRUE, "SENT") /\ UNCHANGED failures
          \/ ~answers /\ MailSent(First, FALSE, "FAILED") /\ UNCHANGED failures
          \/ /\ answers /\ failures < MaxFailures
             /\ failures' = failures + 1
             /\ MailSent(First, TRUE, "FAILED")
    /\ UNCHANGED <<incident, rows, world, left, todo>>

MarkAccountEmail ==
    /\ pc = "markMail"
    /\ mails' = [mails EXCEPT ![First].status = IF verdict = "SENT" THEN "SENT" ELSE @]
    /\ todo' = todo \ {First}
    /\ verdict' = "NONE"
    /\ pc' = "sendMail"
    /\ UNCHANGED <<incident, rows, world, left, failures>>

Rest ==
    /\ pc = "sendMail" /\ todo = {}
    /\ pc' = "rest"
    /\ UNCHANGED <<tables, world, left, todo, verdict, failures>>

\* A statement fails and the pass is abandoned, or the process stops and comes
\* back, maybe with other settings. The rows keep what was committed.
Abort ==
    /\ failures < MaxFailures
    /\ failures' = failures + 1
    /\ pc # "rest"
    /\ pc' = "rest" /\ left' = <<>> /\ todo' = {} /\ verdict' = "NONE"
    /\ config' \in Configs
    /\ UNCHANGED <<tables, smtp>>
----------------------------------------------------------------------------
Pass ==
    \/ Poll \/ CreateNotifications \/ FetchPending
    \/ SendConsole \/ SendFcm \/ SendEmail \/ Mark
    \/ FetchPendingAccountEmails \/ SendAccountEmail \/ MarkAccountEmail \/ Rest

Next ==
    \/ \E i \in Incidents : NewIncident(i) \/ CloseIncident(i)
    \/ SanctionNotice \/ EnqueueAccountEmail \/ SmtpChanges
    \/ Pass \/ Abort

Spec == Init /\ [][Next]_vars

\* The loop re-arms its timer in `finally`, and every await of it ends: the
\* database driver and nodemailer both give up after a timeout.
FairSpec == Spec /\ WF_vars(Pass)
----------------------------------------------------------------------------
RowType == [incident : Incidents \cup {None},
            channel : {"CONSOLE", "EMAIL", "FCM", "BROWSER"},
            status : {"PENDING", "SENT", "SKIPPED"},
            delivered : Nat]
MailType == [refused : BOOLEAN, status : {"PENDING", "SENT"}, delivered : Nat]

\* Types.
TypeOK ==
    /\ incident \in [Incidents -> {"NONE", "ACTIVE", "CLOSED"}]
    /\ rows \in Seq(RowType)
    /\ mails \in Seq(MailType)
    /\ config \in Configs
    /\ smtp \in {"UP", "DOWN"}
    /\ pc \in {"rest", "create", "send", "mark", "sendMail", "markMail"}
    /\ left \in Seq({"CONSOLE", "EMAIL", "FCM"})
    /\ todo \subseteq (IF pc \in {"sendMail", "markMail"} THEN DOMAIN mails ELSE DOMAIN rows)
    /\ pc \in {"mark", "markMail"} => todo # {}
    /\ (verdict # "NONE") <=> (pc \in {"mark", "markMail"})
    /\ verdict \in {"NONE", "SENT", "SKIPPED", "FAILED"}
    /\ failures \in 0..MaxFailures

\* However its passes are cut short, restarted or reconfigured, the service
\* never creates a second row for an incident and a channel
\* (createNotificationsForNewIncidents).
OncePerChannel ==
    \A m, n \in DOMAIN rows :
        /\ rows[m].incident = rows[n].incident
        /\ rows[m].channel = rows[n].channel
        /\ rows[m].channel # "BROWSER"
        => m = n

\* A row that says SENT went out: the FCM placeholder never claims a delivery,
\* and no verdict is written to another row than the one that was sent.
SentWentOut ==
    /\ \A n \in DOMAIN rows : rows[n].status = "SENT" => rows[n].delivered > 0
    /\ \A n \in DOMAIN mails : mails[n].status = "SENT" => mails[n].delivered > 0

\* A message goes out twice only after a failure between its delivery and the
\* UPDATE that records it: the deliveries of a row are accounted for by that
\* UPDATE, done or next, and by failures.
Recorded(q, n, marking) ==
    IF q[n].status = "SENT" \/ (pc = marking /\ First = n /\ verdict = "SENT") THEN 1 ELSE 0
DuplicatesNeedFailures ==
    /\ \A n \in DOMAIN rows : rows[n].delivered <= Recorded(rows, n, "mark") + failures
    /\ \A n \in DOMAIN mails : mails[n].delivered <= Recorded(mails, n, "markMail") + failures

\* Once a row is settled the service never touches it nor sends it again.
SettledStays ==
    /\ \A n \in DOMAIN rows : rows[n].status # "PENDING" => rows'[n] = rows[n]
    /\ \A n \in DOMAIN mails : mails[n].status # "PENDING" => mails'[n] = mails[n]
SettledIsFinal == [][SettledStays]_vars

\* While the mail server is down its rows stay PENDING at the head of the queue.
\* No other row stays pending for ever behind fewer of them than a batch
\* (fetchPending, LIMIT 20).
EmailsAhead(n) == {m \in Pending(rows) : m < n /\ rows[m].channel = "EMAIL"}
Stuck(n) == n \in Pending(rows) /\ rows[n].channel # "EMAIL"
\* An incident is two arrivals and brings four rows.
MaxRows == (2 * Cardinality(Incidents)) + MaxArrivals
HandledBehindFewEmails ==
    \A n \in 1..MaxRows :
        ~<>[](Stuck(n) /\ Cardinality(EmailsAhead(n)) < Batch)

\* No incident stays active for ever without its console row.
ActiveIsAnnounced ==
    \A i \in Incidents :
        ~<>[](/\ incident[i] = "ACTIVE"
              /\ ~ \E n \in DOMAIN rows : rows[n].incident = i /\ rows[n].channel = "CONSOLE")

\* If the mail server comes up for good, no account email to an address it takes
\* stays pending for ever, unless a whole batch of refused ones is ahead of it.
RefusedAhead(n) == {m \in 1..(n - 1) : mails[m].refused}
Waiting(n) == n \in Pending(mails) /\ ~mails[n].refused
MailArrives ==
    <>[](smtp = "UP" /\ "SMTP_HOST" \in config) =>
        \A n \in 1..MaxArrivals :
            ~<>[](Waiting(n) /\ Cardinality(RefusedAhead(n)) < Batch)
----------------------------------------------------------------------------
(* Expected of the service, and not so.                                        *)

\* The service processes the rows of incidents, whatever becomes of the mail
\* server: a row that is not an email does not stay pending for ever.
RowsAreProcessed ==
    \A n \in 1..MaxRows : ~<>[]Stuck(n)
=============================================================================
