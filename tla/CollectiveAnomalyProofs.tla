------------------------ MODULE CollectiveAnomalyProofs ------------------------
(***************************************************************************)
(* What the pass and the analysts, who meet between any two statements,    *)
(* never do to a collective anomaly: for any subjects, detectors, analysts *)
(* and bounds.                                                             *)
(***************************************************************************)
EXTENDS CollectiveAnomaly, SequenceTheorems, TLAPS

Kinds == {Detectors[k] : k \in DOMAIN Detectors}
AnyRow ==
    [kind : Kinds, subject : Subjects, status : {"OPEN", "ESCALATED", "RESOLVED"},
     incident : 0..MaxIncidents]
AnyIncident == [row : Nat, alone : BOOLEAN, linked : BOOLEAN, told : BOOLEAN]
AnyPass ==
    [pc : {"idle", "find", "existing", "apply"}, k : DOMAIN Detectors,
     found : SUBSET Subjects, todo : SUBSET Subjects, existing : SUBSET Nat]
AnyEscalation ==
    [row : Nat \ {0}, step : {"insert", "update", "action"}, incident : 0..MaxIncidents,
     alone : BOOLEAN]

Types ==
    /\ rows \in Seq(AnyRow)
    /\ incidents \in Seq(AnyIncident) /\ Len(incidents) <= MaxIncidents
    /\ pass \in AnyPass
    /\ escalations \in [Analysts -> {Nothing} \cup AnyEscalation]
    /\ failures \in Nat

\* Whoever names a row or an incident names one that is there.
NamesExist ==
    /\ pass.existing \subseteq DOMAIN rows
    /\ \A i \in DOMAIN incidents : incidents[i].row \in DOMAIN rows
    /\ \A a \in Analysts : escalations[a] # Nothing =>
         /\ escalations[a].row \in DOMAIN rows
         /\ escalations[a].step = "insert" => escalations[a].incident = 0
         /\ escalations[a].step # "insert" =>
              /\ escalations[a].incident \in DOMAIN incidents
              /\ incidents[escalations[a].incident].row = escalations[a].row
              /\ incidents[escalations[a].incident].alone = escalations[a].alone

\* What is open of a subject still to be looked at was read before the first one.
NothingOverlooked ==
    pass.pc = "apply" /\ Kind \notin Lasting =>
        \A r \in DOMAIN rows :
            rows[r].kind = Kind /\ rows[r].status = "OPEN" /\ rows[r].subject \in pass.todo
            => r \in pass.existing

\* An incident that its row has told is of a row that is never open again.
LinkedIsClosed ==
    \A i \in DOMAIN incidents : incidents[i].linked => rows[incidents[i].row].status # "OPEN"

\* One that its row has not told is in somebody's hands, or a request has failed.
UnlinkedIsHeld ==
    \A i \in DOMAIN incidents : ~incidents[i].linked =>
        \/ failures > 0
        \/ \E a \in Analysts : /\ escalations[a] # Nothing
                               /\ escalations[a].row = incidents[i].row
                               /\ escalations[a].incident = i /\ escalations[a].step = "update"

\* Of the analysts at one row one is the first.
OneAlone ==
    \A a, b \in Analysts :
        /\ a # b /\ escalations[a] # Nothing /\ escalations[b] # Nothing
        /\ escalations[a].row = escalations[b].row
        => ~(escalations[a].alone /\ escalations[b].alone)

\* An analyst alone at a row meets no incident but his own, or one whose request failed.
AloneMeetsUnlinked ==
    \A a \in Analysts, i \in DOMAIN incidents :
        /\ escalations[a] # Nothing /\ escalations[a].row = incidents[i].row
        /\ escalations[a].alone /\ incidents[i].alone /\ escalations[a].incident # i
        => failures > 0 /\ ~incidents[i].linked

Overlaps == LinkedIsClosed /\ UnlinkedIsHeld /\ OneAlone /\ AloneMeetsUnlinked
                /\ SecondIncidentNeedsOverlap

CInv ==
    /\ Types
    /\ NamesExist
    /\ NothingOverlooked
    /\ OneOpenPerSubject
    /\ Overlaps
-----------------------------------------------------------------------------
(* The tables.                                                             *)

\* The shape of the tables, of a row, of an incident and of a request.
LEMMA Shapes ==
    ASSUME Types
    PROVE  /\ Len(rows) \in Nat /\ DOMAIN rows = 1..Len(rows)
           /\ rows \in [1..Len(rows) -> AnyRow]
           /\ Len(incidents) \in Nat /\ DOMAIN incidents = 1..Len(incidents)
           /\ incidents \in [1..Len(incidents) -> AnyIncident]
           /\ \A a \in Analysts : escalations[a] # Nothing => escalations[a] \in AnyEscalation
           /\ \A a \in Analysts : escalations[a] = Nothing <=> escalations[a].row = 0
<1>1. /\ Len(rows) \in Nat /\ DOMAIN rows = 1..Len(rows)
      /\ rows \in [1..Len(rows) -> AnyRow]
  BY LenProperties DEF Types
<1>2. /\ Len(incidents) \in Nat /\ DOMAIN incidents = 1..Len(incidents)
      /\ incidents \in [1..Len(incidents) -> AnyIncident]
  BY LenProperties DEF Types
<1>3. \A a \in Analysts : escalations[a] = Nothing \/ escalations[a] \in AnyEscalation
  BY DEF Types
<1>4. Nothing.row = 0 /\ \A e \in AnyEscalation : e.row # 0
  BY DEF Nothing, AnyEscalation
<1> QED BY <1>1, <1>2, <1>3, <1>4

\* A row is updated by its id.
LEMMA RowUpdated ==
    ASSUME Types, NEW r \in DOMAIN rows, NEW e \in AnyRow,
           rows' = [rows EXCEPT ![r] = e]
    PROVE  /\ rows' \in Seq(AnyRow) /\ DOMAIN rows' = DOMAIN rows
           /\ rows'[r] = e
           /\ \A q \in DOMAIN rows : q # r => rows'[q] = rows[q]
<1>1. r \in 1..Len(rows) /\ rows \in Seq(AnyRow)
  BY Shapes DEF Types
<1>2. rows' \in Seq(AnyRow) /\ Len(rows') = Len(rows)
  BY <1>1, ExceptSeq, Zenon
<1> QED BY <1>1, <1>2, Shapes, LenProperties

\* A row is made.
LEMMA RowAdded ==
    ASSUME Types, NEW e \in AnyRow, rows' = Append(rows, e)
    PROVE  /\ rows' \in Seq(AnyRow)
           /\ DOMAIN rows' = DOMAIN rows \cup {Len(rows) + 1} /\ Len(rows) + 1 \notin DOMAIN rows
           /\ rows'[Len(rows) + 1] = e
           /\ \A r \in DOMAIN rows : rows'[r] = rows[r]
<1>1. rows \in Seq(AnyRow)
  BY DEF Types
<1>2. /\ rows' \in Seq(AnyRow) /\ Len(rows') = Len(rows) + 1
      /\ \A r \in 1..Len(rows) : rows'[r] = rows[r]
      /\ rows'[Len(rows) + 1] = e
  BY <1>1, AppendProperties
<1>3. DOMAIN rows' = 1..(Len(rows) + 1)
  BY <1>2, LenProperties
<1> QED BY <1>2, <1>3, Shapes

\* An incident is updated by its id.
LEMMA IncidentUpdated ==
    ASSUME Types, NEW i \in DOMAIN incidents, NEW e \in AnyIncident,
           incidents' = [incidents EXCEPT ![i] = e]
    PROVE  /\ incidents' \in Seq(AnyIncident) /\ Len(incidents') <= MaxIncidents
           /\ DOMAIN incidents' = DOMAIN incidents
           /\ incidents'[i] = e
           /\ \A j \in DOMAIN incidents : j # i => incidents'[j] = incidents[j]
<1>1. i \in 1..Len(incidents) /\ incidents \in Seq(AnyIncident)
  BY Shapes DEF Types
<1>2. incidents' \in Seq(AnyIncident) /\ Len(incidents') = Len(incidents)
  BY <1>1, ExceptSeq, Zenon
<1> QED BY <1>1, <1>2, Shapes, LenProperties DEF Types

\* An incident is made.
LEMMA IncidentAdded ==
    ASSUME CollectiveConstants, Types, Len(incidents) < MaxIncidents,
           NEW e \in AnyIncident, incidents' = Append(incidents, e)
    PROVE  /\ incidents' \in Seq(AnyIncident) /\ Len(incidents') <= MaxIncidents
           /\ DOMAIN incidents' = DOMAIN incidents \cup {Len(incidents) + 1}
           /\ Len(incidents) + 1 \notin DOMAIN incidents /\ Len(incidents) + 1 \in 0..MaxIncidents
           /\ \A i \in DOMAIN incidents : i < Len(incidents) + 1
           /\ incidents'[Len(incidents) + 1] = e
           /\ \A i \in DOMAIN incidents : incidents'[i] = incidents[i]
<1>1. incidents \in Seq(AnyIncident) /\ MaxIncidents \in Nat
  BY DEF Types, CollectiveConstants
<1>2. /\ incidents' \in Seq(AnyIncident) /\ Len(incidents') = Len(incidents) + 1
      /\ \A i \in 1..Len(incidents) : incidents'[i] = incidents[i]
      /\ incidents'[Len(incidents) + 1] = e
  BY <1>1, AppendProperties
<1>3. DOMAIN incidents' = 1..(Len(incidents) + 1)
  BY <1>2, LenProperties
<1> QED BY <1>1, <1>2, <1>3, Shapes
-----------------------------------------------------------------------------
(* The pass.                                                               *)

LEMMA CInvInit == ASSUME CollectiveConstants, Init PROVE CInv
<1>1. /\ rows \in Seq(AnyRow) /\ DOMAIN rows = {}
      /\ incidents \in Seq(AnyIncident) /\ Len(incidents) = 0 /\ DOMAIN incidents = {}
  BY EmptySeq, LenProperties DEF Init
<1>2. 1 \in DOMAIN Detectors
  BY LenProperties DEF CollectiveConstants
<1>3. Types
  BY <1>1, <1>2 DEF Types, Init, NoPass, AnyPass, CollectiveConstants
<1>4. pass.pc = "idle" /\ pass.existing = {} /\ \A a \in Analysts : escalations[a] = Nothing
  BY DEF Init, NoPass
<1> QED BY <1>1, <1>3, <1>4
        DEF CInv, NamesExist, NothingOverlooked, OneOpenPerSubject, Overlaps, LinkedIsClosed,
            UnlinkedIsHeld, OneAlone, AloneMeetsUnlinked, SecondIncidentNeedsOverlap

\* What opens no row that was closed is nothing to the analysts.
LEMMA AnalystsStand ==
    ASSUME CInv, Types', incidents' = incidents, escalations' = escalations,
           failures' >= failures,
           DOMAIN rows \subseteq DOMAIN rows',
           \A r \in DOMAIN rows : rows'[r].status = "OPEN" => rows[r].status = "OPEN",
           pass'.existing \subseteq DOMAIN rows'
    PROVE  NamesExist' /\ Overlaps'
<1> USE DEF CInv, NamesExist, Overlaps
<1>1. failures \in Nat /\ failures' \in Nat
  BY DEF Types
<1>2. NamesExist'
  OBVIOUS
<1>3. LinkedIsClosed'
  BY DEF LinkedIsClosed
<1>4. UnlinkedIsHeld'
  BY <1>1 DEF UnlinkedIsHeld
<1>5. OneAlone' /\ AloneMeetsUnlinked' /\ SecondIncidentNeedsOverlap'
  BY <1>1 DEF OneAlone, AloneMeetsUnlinked, SecondIncidentNeedsOverlap
<1> QED BY <1>2, <1>3, <1>4, <1>5

\* What touches no row.
LEMMA PassMoves ==
    ASSUME CollectiveConstants, CInv, StartDetection \/ Find \/ Existing \/ NextDetector \/ PassFails
    PROVE  CInv'
<1> USE DEF CInv
<1>1. rows' = rows /\ incidents' = incidents /\ escalations' = escalations
  BY DEF StartDetection, Find, Existing, NextDetector, PassFails
<1>2. failures' \in Nat /\ failures' >= failures
  <2>1. failures' = failures \/ failures' = failures + 1
    BY DEF StartDetection, Find, Existing, NextDetector, PassFails
  <2>2. failures \in Nat
    BY DEF Types
  <2> QED BY <2>1, <2>2
<1>3. 1 \in DOMAIN Detectors /\ pass.k \in DOMAIN Detectors
      /\ (pass.k < Len(Detectors) => pass.k + 1 \in DOMAIN Detectors)
  BY LenProperties DEF CollectiveConstants, Types, AnyPass
<1>4. pass' \in AnyPass /\ pass'.existing \subseteq DOMAIN rows
  <2>1. CASE StartDetection
    BY <1>3, <2>1 DEF StartDetection, NoPass, AnyPass
  <2>2. CASE Find
    BY <2>2 DEF Find, Types, AnyPass
  <2>3. CASE Existing
    <3>1. Open(Kind) \subseteq DOMAIN rows /\ Open(Kind) \subseteq Nat
      BY Shapes DEF Open
    <3>2. pass \in AnyPass /\ pass' = [pass EXCEPT !.existing = Open(Kind), !.pc = "apply"]
      BY <2>3 DEF Existing, ReadOpen, Types
    <3> HIDE DEF CInv
    <3> QED BY <3>1, <3>2 DEF AnyPass
  <2>4. ASSUME NextDetector PROVE pass' \in AnyPass /\ pass'.existing \subseteq DOMAIN rows
    <3>1. CASE pass.k < Len(Detectors)
      <4>1. pass' = [NoPass EXCEPT !.pc = "find", !.k = pass.k + 1]
        BY <2>4, <3>1 DEF NextDetector
      <4> QED BY <1>3, <3>1, <4>1 DEF NoPass, AnyPass
    <3>2. CASE ~(pass.k < Len(Detectors))
      <4>1. pass' = NoPass
        BY <2>4, <3>2 DEF NextDetector
      <4> QED BY <1>3, <4>1 DEF NoPass, AnyPass
    <3> QED BY <3>1, <3>2
  <2>5. CASE PassFails
    BY <1>3, <2>5 DEF PassFails, NoPass, AnyPass
  <2> QED BY <2>1, <2>2, <2>3, <2>4, <2>5
<1>5. Types'
  BY <1>1, <1>2, <1>4 DEF Types
<1>6. NothingOverlooked'
  <2>1. CASE Find
    BY <2>1 DEF Find, NothingOverlooked, Kind, Types, AnyPass
  <2>2. CASE Existing
    BY <2>2 DEF Existing, ReadOpen, Open, NothingOverlooked, Kind, Types, AnyPass
  <2>3. CASE StartDetection \/ NextDetector \/ PassFails
    <3>1. pass' = NoPass => pass'.pc # "apply"
      BY DEF NoPass
    <3>2. \A k : pass' = [NoPass EXCEPT !.pc = "find", !.k = k] => pass'.pc # "apply"
      BY DEF NoPass
    <3>3. pass' = [NoPass EXCEPT !.pc = "find"] => pass'.pc # "apply"
      BY DEF NoPass
    <3>4. \/ pass' = NoPass
          \/ pass' = [NoPass EXCEPT !.pc = "find"]
          \/ pass' = [NoPass EXCEPT !.pc = "find", !.k = pass.k + 1]
      BY <2>3 DEF StartDetection, NextDetector, PassFails
    <3>5. pass'.pc # "apply"
      BY <3>1, <3>2, <3>3, <3>4
    <3> QED BY <3>5 DEF NothingOverlooked
  <2> QED BY <2>1, <2>2, <2>3
<1>7. OneOpenPerSubject'
  BY <1>1 DEF OneOpenPerSubject
<1>8. NamesExist' /\ Overlaps'
  BY <1>1, <1>2, <1>4, <1>5, AnalystsStand
<1> QED BY <1>5, <1>6, <1>7, <1>8

\* A detector looks at a subject. If it knows of none, there is no open row of it.
LEMMA ApplyKeeps ==
    ASSUME CollectiveConstants, CInv, NEW s \in Subjects, Apply(s)
    PROVE  CInv'
<1> USE DEF CInv
<1> DEFINE new == [kind |-> Kind, subject |-> s, status |-> "OPEN", incident |-> 0]
<1>1. /\ incidents' = incidents /\ escalations' = escalations /\ failures' = failures
      /\ pass.pc = "apply" /\ s \in pass.todo /\ pass' = [pass EXCEPT !.todo = pass.todo \ {s}]
  BY DEF Apply
<1>2. /\ pass' \in AnyPass /\ pass'.existing = pass.existing /\ pass'.pc = "apply"
      /\ pass'.k = pass.k /\ pass'.todo = pass.todo \ {s}
  BY <1>1 DEF Types, AnyPass
<1>3. CASE rows' = rows
  <2>1. Types'
    BY <1>1, <1>2, <1>3 DEF Types
  <2>2. NamesExist' /\ Overlaps'
    BY <1>1, <1>2, <1>3, <2>1, AnalystsStand DEF NamesExist, Types
  <2>3. NothingOverlooked'
    BY <1>1, <1>2, <1>3 DEF NothingOverlooked, Kind
  <2>4. OneOpenPerSubject'
    BY <1>3 DEF OneOpenPerSubject
  <2> QED BY <2>1, <2>2, <2>3, <2>4
<1>4. CASE Known(Kind, s) = {} /\ rows' = Append(rows, new)
  <2>1. new \in AnyRow
    BY DEF AnyRow, Kinds, Kind, Types, AnyPass, CollectiveConstants
  <2> HIDE DEF new
  <2>2. /\ rows' \in Seq(AnyRow)
        /\ DOMAIN rows' = DOMAIN rows \cup {Len(rows) + 1} /\ Len(rows) + 1 \notin DOMAIN rows
        /\ rows'[Len(rows) + 1] = new
        /\ \A r \in DOMAIN rows : rows'[r] = rows[r]
    BY <1>4, <2>1, RowAdded
  <2>3. new.kind = Kind /\ new.subject = s /\ new.status = "OPEN"
    BY DEF new
  <2>4. Types'
    BY <1>1, <1>2, <2>2 DEF Types
  <2>5. NamesExist' /\ Overlaps'
    BY <1>1, <1>2, <2>2, <2>4, AnalystsStand DEF NamesExist, Types
  <2>6. NothingOverlooked'
    BY <1>1, <1>2, <2>2, <2>3 DEF NothingOverlooked, Kind
  <2>7. \A r \in DOMAIN rows :
          ~(rows[r].status = "OPEN" /\ rows[r].kind = Kind /\ rows[r].subject = s)
    <3>1. CASE Kind \in Lasting
      BY <1>4, <3>1 DEF Known, Open, Of
    <3>2. CASE Kind \notin Lasting
      BY <1>1, <1>4, <3>2 DEF Known, NothingOverlooked
    <3> QED BY <3>1, <3>2
  <2>8. OneOpenPerSubject'
    BY <2>2, <2>3, <2>7 DEF OneOpenPerSubject
  <2> QED BY <2>4, <2>5, <2>6, <2>8
<1> QED BY <1>3, <1>4 DEF Apply

\* What was read and is gone is resolved.
LEMMA ResolveKeeps ==
    ASSUME CInv, NEW r \in DOMAIN rows, Resolve(r)
    PROVE  CInv'
<1> USE DEF CInv
<1> DEFINE e == [rows[r] EXCEPT !.status = "RESOLVED"]
<1>1. /\ incidents' = incidents /\ escalations' = escalations /\ failures' = failures
      /\ rows' = [rows EXCEPT ![r] = e] /\ pass.todo = {}
      /\ pass' = [pass EXCEPT !.existing = pass.existing \ {r}]
  BY DEF Resolve
<1>2. /\ pass' \in AnyPass /\ pass'.existing = pass.existing \ {r} /\ pass'.todo = {}
  BY <1>1 DEF Types, AnyPass
<1>3. e \in AnyRow /\ e.status = "RESOLVED"
  BY Shapes DEF AnyRow
<1> HIDE DEF e
<1>4. /\ rows' \in Seq(AnyRow) /\ DOMAIN rows' = DOMAIN rows
      /\ rows'[r] = e
      /\ \A q \in DOMAIN rows : q # r => rows'[q] = rows[q]
  BY <1>1, <1>3, RowUpdated
<1>5. Types'
  BY <1>1, <1>2, <1>4 DEF Types
<1>6. NamesExist' /\ Overlaps'
  BY <1>1, <1>2, <1>3, <1>4, <1>5, AnalystsStand DEF NamesExist, Types
<1>7. NothingOverlooked'
  BY <1>2 DEF NothingOverlooked
<1>8. OneOpenPerSubject'
  BY <1>3, <1>4 DEF OneOpenPerSubject
<1> QED BY <1>5, <1>6, <1>7, <1>8
-----------------------------------------------------------------------------
(* The analysts.                                                           *)

\* What opens no row that was closed is nothing to the pass.
LEMMA PassStands ==
    ASSUME CInv, pass' = pass, DOMAIN rows' = DOMAIN rows,
           \A r \in DOMAIN rows :
               /\ rows'[r].kind = rows[r].kind /\ rows'[r].subject = rows[r].subject
               /\ rows'[r].status = "OPEN" => rows[r].status = "OPEN"
    PROVE  NothingOverlooked' /\ OneOpenPerSubject'
<1>1. NothingOverlooked'
  BY DEF CInv, NothingOverlooked, Kind
<1>2. OneOpenPerSubject'
  BY DEF CInv, OneOpenPerSubject
<1> QED BY <1>1, <1>2

\* An analyst who finds the row open and nobody at it finds no incident of it, or
\* one whose request failed.
LEMMA SelectKeeps ==
    ASSUME CollectiveConstants, CInv, NEW a \in Analysts, NEW r \in DOMAIN rows, Select(a, r)
    PROVE  CInv'
<1> USE DEF CInv
<1> DEFINE e == [row |-> r, step |-> "insert", incident |-> 0, alone |-> OnRow(r) = {}]
<1>1. /\ rows' = rows /\ incidents' = incidents /\ pass' = pass /\ failures' = failures
      /\ rows[r].status = "OPEN" /\ escalations[a] = Nothing
      /\ escalations' = [escalations EXCEPT ![a] = e]
  BY DEF Select
<1>2. e \in AnyEscalation
  <2>1. r \in Nat \ {0} /\ 0 \in 0..MaxIncidents /\ (OnRow(r) = {}) \in BOOLEAN
    <3>1. MaxIncidents \in Nat
      BY DEF CollectiveConstants
    <3> QED BY <3>1, Shapes
  <2> QED BY <2>1 DEF AnyEscalation
<1>3. /\ e.row = r /\ e.step = "insert" /\ e.incident = 0 /\ e # Nothing
      /\ e.alone <=> \A b \in Analysts : escalations[b].row # r
  BY DEF OnRow, Nothing
<1> HIDE DEF e
<1>4. escalations'[a] = e /\ \A b \in Analysts : b # a => escalations'[b] = escalations[b]
  BY <1>1 DEF Types
<1>5. Types'
  BY <1>1, <1>2 DEF Types
<1>6. NamesExist'
  BY <1>1, <1>3, <1>4 DEF NamesExist
<1>7. NothingOverlooked' /\ OneOpenPerSubject'
  BY <1>1, PassStands
<1>8. LinkedIsClosed' /\ SecondIncidentNeedsOverlap'
  BY <1>1 DEF Overlaps, LinkedIsClosed, SecondIncidentNeedsOverlap
<1>9. UnlinkedIsHeld'
  BY <1>1, <1>4 DEF Overlaps, UnlinkedIsHeld
<1>10. OneAlone'
  BY <1>3, <1>4 DEF Overlaps, OneAlone
<1>11. AloneMeetsUnlinked'
  <2> SUFFICES ASSUME NEW b \in Analysts, NEW i \in DOMAIN incidents,
                      escalations'[b] # Nothing, escalations'[b].row = incidents[i].row,
                      escalations'[b].alone, incidents[i].alone, escalations'[b].incident # i
               PROVE  failures > 0 /\ ~incidents[i].linked
    BY <1>1 DEF AloneMeetsUnlinked
  <2>1. CASE b # a
    BY <1>4, <2>1 DEF Overlaps, AloneMeetsUnlinked
  <2>2. CASE b = a
    <3>1. incidents[i].row = r /\ \A c \in Analysts : escalations[c].row # r
      BY <1>3, <1>4, <2>2
    <3>2. ~incidents[i].linked
      BY <1>1, <3>1 DEF Overlaps, LinkedIsClosed
    <3> QED BY <3>1, <3>2 DEF Overlaps, UnlinkedIsHeld
  <2> QED BY <2>1, <2>2
<1> QED BY <1>5, <1>6, <1>7, <1>8, <1>9, <1>10, <1>11 DEF Overlaps

LEMMA InsertIncidentKeeps ==
    ASSUME CollectiveConstants, CInv, NEW a \in Analysts, InsertIncident(a)
    PROVE  CInv'
<1> USE DEF CInv
<1> DEFINE e == escalations[a]
           n == Len(incidents) + 1
           new == [row |-> e.row, alone |-> e.alone, linked |-> FALSE, told |-> FALSE]
           f == [escalations[a] EXCEPT !.step = "update", !.incident = n]
<1>1. /\ rows' = rows /\ pass' = pass /\ failures' = failures
      /\ e # Nothing /\ e.step = "insert" /\ Len(incidents) < MaxIncidents
      /\ incidents' = Append(incidents, new)
      /\ escalations' = [escalations EXCEPT ![a] = f]
  BY DEF InsertIncident
<1>2. e \in AnyEscalation /\ e.row \in DOMAIN rows /\ e.incident = 0
  BY <1>1, Shapes DEF NamesExist
<1>3. new \in AnyIncident
  BY <1>2 DEF AnyIncident, AnyEscalation
<1>4. new.row = e.row /\ new.alone = e.alone /\ ~new.linked
  OBVIOUS
<1>5. /\ n \in 0..MaxIncidents
      /\ incidents' \in Seq(AnyIncident) /\ Len(incidents') <= MaxIncidents
      /\ DOMAIN incidents' = DOMAIN incidents \cup {n} /\ n \notin DOMAIN incidents
      /\ \A i \in DOMAIN incidents : i < n
      /\ incidents'[n] = new
      /\ \A i \in DOMAIN incidents : incidents'[i] = incidents[i]
  BY <1>1, <1>3, IncidentAdded
<1>6. /\ f \in AnyEscalation /\ f.row = e.row /\ f.alone = e.alone
      /\ f.step = "update" /\ f.incident = n
  BY <1>2, <1>5 DEF AnyEscalation
<1>7. f # Nothing
  BY <1>6 DEF AnyEscalation, Nothing
<1>8. \A i \in DOMAIN incidents : i \in Nat \ {0} /\ n \in Nat
  BY Shapes
<1> HIDE DEF e, n, new, f
<1>9. escalations'[a] = f /\ \A b \in Analysts : b # a => escalations'[b] = escalations[b]
  BY <1>1 DEF Types
<1>10. Types'
  BY <1>1, <1>5, <1>6 DEF Types
<1>11. NamesExist'
  BY <1>1, <1>2, <1>4, <1>5, <1>6, <1>9 DEF NamesExist
<1>12. NothingOverlooked' /\ OneOpenPerSubject'
  BY <1>1, PassStands
<1>13. LinkedIsClosed'
  BY <1>1, <1>4, <1>5 DEF Overlaps, LinkedIsClosed
<1>14. UnlinkedIsHeld'
  <2> SUFFICES ASSUME NEW i \in DOMAIN incidents', ~incidents'[i].linked, ~(failures > 0)
               PROVE  \E b \in Analysts : /\ escalations'[b] # Nothing
                                          /\ escalations'[b].row = incidents'[i].row
                                          /\ escalations'[b].incident = i
                                          /\ escalations'[b].step = "update"
    BY <1>1 DEF UnlinkedIsHeld
  <2>1. CASE i = n
    BY <1>4, <1>5, <1>6, <1>7, <1>9, <2>1
  <2>2. CASE i \in DOMAIN incidents
    <3>1. PICK b \in Analysts : /\ escalations[b] # Nothing
                                /\ escalations[b].row = incidents[i].row
                                /\ escalations[b].incident = i /\ escalations[b].step = "update"
      BY <1>5, <2>2 DEF Overlaps, UnlinkedIsHeld
    <3>2. b # a
      BY <1>1, <3>1 DEF e
    <3> QED BY <1>5, <1>9, <2>2, <3>1, <3>2
  <2> QED BY <1>5, <2>1, <2>2
<1>15. OneAlone'
  BY <1>1, <1>6, <1>9 DEF Overlaps, OneAlone, e
\* An alone analyst at the row of the new incident is its maker, who has no other.
<1>16. \A i \in DOMAIN incidents :
         incidents[i].row = new.row /\ incidents[i].alone /\ new.alone
         => failures > 0 /\ ~incidents[i].linked
  BY <1>1, <1>2, <1>4, <1>8 DEF Overlaps, AloneMeetsUnlinked, e
<1>17. AloneMeetsUnlinked'
  <2> SUFFICES ASSUME NEW b \in Analysts, NEW i \in DOMAIN incidents',
                      escalations'[b] # Nothing, escalations'[b].row = incidents'[i].row,
                      escalations'[b].alone, incidents'[i].alone, escalations'[b].incident # i
               PROVE  failures > 0 /\ ~incidents'[i].linked
    BY <1>1 DEF AloneMeetsUnlinked
  <2>1. CASE b = a
    <3>1. i \in DOMAIN incidents
      BY <1>5, <1>6, <1>9, <2>1
    <3> QED BY <1>4, <1>5, <1>6, <1>9, <1>16, <2>1, <3>1
  <2>2. CASE b # a /\ i = n
    BY <1>1, <1>4, <1>5, <1>9, <2>2 DEF Overlaps, OneAlone, e
  <2>3. CASE b # a /\ i \in DOMAIN incidents
    BY <1>5, <1>9, <2>3 DEF Overlaps, AloneMeetsUnlinked
  <2> QED BY <1>5, <2>1, <2>2, <2>3
<1>18. SecondIncidentNeedsOverlap'
  <2> SUFFICES ASSUME NEW i \in DOMAIN incidents', NEW j \in DOMAIN incidents',
                      i < j, incidents'[i].row = incidents'[j].row,
                      incidents'[i].alone, incidents'[j].alone
               PROVE  failures > 0 /\ ~(incidents'[i].linked /\ incidents'[j].linked)
    BY <1>1 DEF SecondIncidentNeedsOverlap
  <2>1. i \in DOMAIN incidents
    BY <1>5, <1>8, Shapes
  <2>2. CASE j = n
    BY <1>4, <1>5, <1>16, <2>1, <2>2
  <2>3. CASE j \in DOMAIN incidents
    BY <1>5, <2>1, <2>3 DEF Overlaps, SecondIncidentNeedsOverlap
  <2> QED BY <1>5, <2>2, <2>3
<1> QED BY <1>10, <1>11, <1>12, <1>13, <1>14, <1>15, <1>17, <1>18 DEF Overlaps

\* The row is taken back, whatever has become of it: no other analyst who was
\* alone at it has told it of an incident.
LEMMA UpdateRowKeeps ==
    ASSUME CInv, NEW a \in Analysts, UpdateRow(a)
    PROVE  CInv'
<1> USE DEF CInv
<1> DEFINE e == escalations[a]
           row == [rows[e.row] EXCEPT !.status = "ESCALATED", !.incident = e.incident]
           made == [incidents[e.incident] EXCEPT !.linked = TRUE]
           f == [escalations[a] EXCEPT !.step = "action"]
<1>1. /\ pass' = pass /\ failures' = failures
      /\ e # Nothing /\ e.step = "update"
      /\ rows' = [rows EXCEPT ![e.row] = row]
      /\ incidents' = [incidents EXCEPT ![e.incident] = made]
      /\ escalations' = [escalations EXCEPT ![a] = f]
  BY DEF UpdateRow
<1>2. /\ e \in AnyEscalation /\ e.row \in DOMAIN rows /\ e.incident \in DOMAIN incidents
      /\ incidents[e.incident].row = e.row /\ incidents[e.incident].alone = e.alone
  BY <1>1, Shapes DEF NamesExist
<1>3. /\ row \in AnyRow /\ row.status = "ESCALATED"
      /\ row.kind = rows[e.row].kind /\ row.subject = rows[e.row].subject
  <2>1. rows[e.row] \in AnyRow /\ e.incident \in 0..MaxIncidents
    <3> HIDE DEF e
    <3> QED BY <1>2, Shapes DEF AnyEscalation
  <2>2. \A q \in AnyRow, i \in 0..MaxIncidents :
          LET updated == [q EXCEPT !.status = "ESCALATED", !.incident = i]
          IN  /\ updated \in AnyRow /\ updated.status = "ESCALATED"
              /\ updated.kind = q.kind /\ updated.subject = q.subject
    BY DEF AnyRow
  <2> HIDE DEF e
  <2> QED BY <2>1, <2>2
<1>4. /\ made \in AnyIncident /\ made.linked
      /\ made.row = incidents[e.incident].row /\ made.alone = incidents[e.incident].alone
  BY <1>2, Shapes DEF AnyIncident
<1>5. /\ f \in AnyEscalation /\ f.row = e.row /\ f.alone = e.alone /\ f.incident = e.incident
      /\ f.step = "action"
  BY <1>2 DEF AnyEscalation
<1>6. f # Nothing
  BY <1>5 DEF AnyEscalation, Nothing
<1> HIDE DEF e, row, made, f
<1>7. /\ rows' \in Seq(AnyRow) /\ DOMAIN rows' = DOMAIN rows
      /\ rows'[e.row] = row /\ \A q \in DOMAIN rows : q # e.row => rows'[q] = rows[q]
  BY <1>1, <1>2, <1>3, RowUpdated
<1>8. /\ incidents' \in Seq(AnyIncident) /\ Len(incidents') <= MaxIncidents
      /\ DOMAIN incidents' = DOMAIN incidents
      /\ incidents'[e.incident] = made
      /\ \A j \in DOMAIN incidents : j # e.incident => incidents'[j] = incidents[j]
  BY <1>1, <1>2, <1>4, IncidentUpdated
<1>9. escalations'[a] = f /\ \A b \in Analysts : b # a => escalations'[b] = escalations[b]
  BY <1>1 DEF Types
<1>10. \A j \in DOMAIN incidents :
         incidents'[j].row = incidents[j].row /\ incidents'[j].alone = incidents[j].alone
  BY <1>4, <1>8
<1>11. Types'
  BY <1>1, <1>5, <1>7, <1>8 DEF Types
<1>12. NamesExist'
  BY <1>1, <1>2, <1>5, <1>7, <1>8, <1>9, <1>10 DEF NamesExist
<1>13. NothingOverlooked' /\ OneOpenPerSubject'
  <2>1. \A q \in DOMAIN rows :
          /\ rows'[q].kind = rows[q].kind /\ rows'[q].subject = rows[q].subject
          /\ rows'[q].status = "OPEN" => rows[q].status = "OPEN"
    BY <1>3, <1>7
  <2> QED BY <1>1, <1>7, <2>1, PassStands
<1>14. LinkedIsClosed'
  <2> SUFFICES ASSUME NEW i \in DOMAIN incidents, incidents'[i].linked
               PROVE  rows'[incidents[i].row].status # "OPEN"
    BY <1>8, <1>10 DEF LinkedIsClosed
  <2>1. CASE incidents[i].row = e.row
    BY <1>3, <1>7, <2>1
  <2>2. CASE incidents[i].row # e.row
    <3>1. incidents[i].linked
      BY <1>2, <1>8, <2>2
    <3>2. rows'[incidents[i].row] = rows[incidents[i].row]
      BY <1>7, <2>2 DEF NamesExist
    <3> QED BY <3>1, <3>2 DEF Overlaps, LinkedIsClosed
  <2> QED BY <2>1, <2>2
<1>15. UnlinkedIsHeld'
  <2> SUFFICES ASSUME NEW i \in DOMAIN incidents, ~incidents'[i].linked, ~(failures > 0)
               PROVE  \E b \in Analysts : /\ escalations'[b] # Nothing
                                          /\ escalations'[b].row = incidents'[i].row
                                          /\ escalations'[b].incident = i
                                          /\ escalations'[b].step = "update"
    BY <1>1, <1>8 DEF UnlinkedIsHeld
  <2>1. i # e.incident /\ ~incidents[i].linked
    BY <1>4, <1>8
  <2>2. PICK b \in Analysts : /\ escalations[b] # Nothing
                              /\ escalations[b].row = incidents[i].row
                              /\ escalations[b].incident = i /\ escalations[b].step = "update"
    BY <2>1 DEF Overlaps, UnlinkedIsHeld
  <2>3. b # a
    BY <2>1, <2>2 DEF e
  <2> QED BY <1>9, <1>10, <2>2, <2>3
<1>16. OneAlone'
  BY <1>1, <1>5, <1>9 DEF Overlaps, OneAlone, e
\* The other incidents of the row whose makers were alone are not linked.
<1>17. \A i \in DOMAIN incidents :
         incidents[i].row = e.row /\ incidents[i].alone /\ e.alone /\ i # e.incident
         => failures > 0 /\ ~incidents[i].linked
  BY <1>1 DEF Overlaps, AloneMeetsUnlinked, e
<1>18. AloneMeetsUnlinked'
  <2> SUFFICES ASSUME NEW b \in Analysts, NEW i \in DOMAIN incidents,
                      escalations'[b] # Nothing, escalations'[b].row = incidents[i].row,
                      escalations'[b].alone, incidents[i].alone, escalations'[b].incident # i
               PROVE  failures > 0 /\ ~incidents'[i].linked
    BY <1>1, <1>8, <1>10 DEF AloneMeetsUnlinked
  <2>1. CASE b = a
    BY <1>5, <1>8, <1>9, <1>17, <2>1
  <2>2. CASE b # a
    <3>1. i # e.incident
      BY <1>1, <1>2, <1>9, <2>2 DEF Overlaps, OneAlone, e
    <3> QED BY <1>8, <1>9, <2>2, <3>1 DEF Overlaps, AloneMeetsUnlinked
  <2> QED BY <2>1, <2>2
<1>19. SecondIncidentNeedsOverlap'
  <2> SUFFICES ASSUME NEW i \in DOMAIN incidents, NEW j \in DOMAIN incidents,
                      i < j, incidents[i].row = incidents[j].row,
                      incidents[i].alone, incidents[j].alone
               PROVE  failures > 0 /\ ~(incidents'[i].linked /\ incidents'[j].linked)
    BY <1>1, <1>8, <1>10 DEF SecondIncidentNeedsOverlap
  <2>1. i # j
    BY Shapes
  <2>2. CASE i # e.incident /\ j # e.incident
    BY <1>8, <2>2 DEF Overlaps, SecondIncidentNeedsOverlap
  <2>3. CASE i = e.incident
    BY <1>2, <1>8, <1>17, <2>1, <2>3
  <2>4. CASE j = e.incident
    BY <1>2, <1>8, <1>17, <2>1, <2>4
  <2> QED BY <2>2, <2>3, <2>4
<1> QED BY <1>11, <1>12, <1>13, <1>14, <1>15, <1>16, <1>18, <1>19 DEF Overlaps

\* The trail is written, or the request fails: the analyst has nothing any more.
LEMMA EscalationEnds ==
    ASSUME CInv, NEW a \in Analysts, InsertAction(a) \/ EscalationFails(a)
    PROVE  CInv'
<1> USE DEF CInv
<1>1. /\ rows' = rows /\ pass' = pass /\ escalations' = [escalations EXCEPT ![a] = Nothing]
      /\ escalations[a] # Nothing
  BY DEF InsertAction, EscalationFails
<1>2. /\ incidents' \in Seq(AnyIncident) /\ Len(incidents') <= MaxIncidents
      /\ DOMAIN incidents' = DOMAIN incidents
      /\ \A i \in DOMAIN incidents : /\ incidents'[i].row = incidents[i].row
                                     /\ incidents'[i].alone = incidents[i].alone
                                     /\ incidents'[i].linked = incidents[i].linked
  <2>1. CASE InsertAction(a)
    <3> DEFINE i == escalations[a].incident
               e == [incidents[i] EXCEPT !.told = TRUE]
    <3>1. i \in DOMAIN incidents
      BY <1>1, <2>1 DEF InsertAction, NamesExist
    <3>2. /\ e \in AnyIncident /\ e.row = incidents[i].row /\ e.alone = incidents[i].alone
          /\ e.linked = incidents[i].linked
      BY <3>1, Shapes DEF AnyIncident
    <3>3. incidents' = [incidents EXCEPT ![i] = e]
      BY <2>1 DEF InsertAction
    <3> HIDE DEF e, i
    <3> QED BY <3>1, <3>2, <3>3, IncidentUpdated
  <2>2. CASE EscalationFails(a)
    BY <2>2 DEF EscalationFails, Types
  <2> QED BY <2>1, <2>2
<1>3. /\ failures' \in Nat
      /\ failures' > 0 \/ (failures' = failures /\ escalations[a].step # "update")
      /\ failures > 0 => failures' > 0
  <2>1. failures \in Nat
    BY DEF Types
  <2>2. CASE InsertAction(a)
    BY <2>1, <2>2 DEF InsertAction
  <2>3. CASE EscalationFails(a)
    BY <2>1, <2>3 DEF EscalationFails
  <2> QED BY <2>2, <2>3
<1>4. escalations'[a] = Nothing /\ \A b \in Analysts : b # a => escalations'[b] = escalations[b]
  BY <1>1 DEF Types
<1>5. Types'
  BY <1>1, <1>2, <1>3 DEF Types
<1>6. NamesExist'
  BY <1>1, <1>2, <1>4 DEF NamesExist
<1>7. NothingOverlooked' /\ OneOpenPerSubject'
  BY <1>1, PassStands
<1>8. LinkedIsClosed'
  BY <1>1, <1>2 DEF Overlaps, LinkedIsClosed
<1>9. UnlinkedIsHeld'
  BY <1>2, <1>3, <1>4 DEF Overlaps, UnlinkedIsHeld
<1>10. OneAlone'
  BY <1>4 DEF Overlaps, OneAlone
<1>11. AloneMeetsUnlinked'
  BY <1>2, <1>3, <1>4 DEF Overlaps, AloneMeetsUnlinked
<1>12. SecondIncidentNeedsOverlap'
  BY <1>2, <1>3 DEF Overlaps, SecondIncidentNeedsOverlap
<1> QED BY <1>5, <1>6, <1>7, <1>8, <1>9, <1>10, <1>11, <1>12 DEF Overlaps
-----------------------------------------------------------------------------
(* The theorems.                                                           *)

LEMMA CInvNext == ASSUME CollectiveConstants, CInv, [Next]_vars PROVE CInv'
<1>1. CASE Detection
  BY <1>1, PassMoves, ApplyKeeps, ResolveKeeps DEF Detection
<1>2. ASSUME NEW a \in Analysts, Escalation(a) PROVE CInv'
  BY <1>2, SelectKeeps, InsertIncidentKeeps, UpdateRowKeeps, EscalationEnds DEF Escalation
<1>3. CASE UNCHANGED vars
  BY <1>3 DEF vars, CInv, Types, NamesExist, NothingOverlooked, Kind, OneOpenPerSubject, Overlaps,
              LinkedIsClosed, UnlinkedIsHeld, OneAlone, AloneMeetsUnlinked,
              SecondIncidentNeedsOverlap
<1> QED BY <1>1, <1>2, <1>3 DEF Next

LEMMA CInvHolds == ASSUME CollectiveConstants PROVE Spec => []CInv
<1>1. Init => CInv
  BY CInvInit
<1>2. CInv /\ [Next]_vars => CInv'
  BY CInvNext
<1> QED BY <1>1, <1>2, PTL DEF Spec

\* Types.
THEOREM CollectiveTypes == ASSUME CollectiveConstants PROVE Spec => []TypeOK
<1>1. CInv => TypeOK
  <2> SUFFICES ASSUME CInv
               PROVE  TypeOK
    OBVIOUS
  <2> USE DEF CInv
  <2>1. rows \in Seq([kind : {Detectors[k] : k \in DOMAIN Detectors}, subject : Subjects,
                      status : {"OPEN", "ESCALATED", "RESOLVED"}, incident : 0..MaxIncidents])
    BY DEF Types, AnyRow, Kinds
  <2>2. incidents \in Seq([row : DOMAIN rows, alone : BOOLEAN, linked : BOOLEAN, told : BOOLEAN])
    <3> DEFINE T == [row : DOMAIN rows, alone : BOOLEAN, linked : BOOLEAN, told : BOOLEAN]
    <3>1. \A i \in 1..Len(incidents) : incidents[i] \in T
      BY Shapes DEF NamesExist, AnyIncident
    <3> HIDE DEF T
    <3>2. incidents \in [1..Len(incidents) -> T]
      BY <3>1, Shapes
    <3>3. incidents \in Seq(T)
      BY <3>2, Shapes
    <3> QED BY <3>3 DEF T
  <2>3. /\ pass.pc \in {"idle", "find", "existing", "apply"} /\ pass.k \in DOMAIN Detectors
        /\ pass.existing \subseteq DOMAIN rows
    BY DEF NamesExist, Types, AnyPass
  <2>4. \A a \in Analysts : escalations[a].row \in {0} \cup DOMAIN rows
    BY Shapes DEF NamesExist
  <2> QED BY <2>1, <2>2, <2>3, <2>4 DEF TypeOK
<1> QED BY <1>1, CInvHolds, PTL

\* A subject never has two open anomalies of one type, though no index forbids it.
THEOREM OneOpen == ASSUME CollectiveConstants PROVE Spec => []OneOpenPerSubject
<1>1. CInv => OneOpenPerSubject
  BY DEF CInv
<1> QED BY <1>1, CInvHolds, PTL

\* A second incident of an anomaly takes two analysts at once or a failed request.
THEOREM SecondIncident == ASSUME CollectiveConstants PROVE Spec => []SecondIncidentNeedsOverlap
<1>1. CInv => SecondIncidentNeedsOverlap
  BY DEF CInv, Overlaps
<1> QED BY <1>1, CInvHolds, PTL

\* No pass and no analyst touches an escalated anomaly that nobody has in hand.
LEMMA KeptStep ==
    ASSUME CInv, NEW r \in DOMAIN rows, Kept(r), [Next]_vars
    PROVE  Kept(r)' /\ rows'[r] = rows[r]
<1> USE DEF CInv
<1>1. /\ rows[r].status = "ESCALATED" /\ r \notin pass.existing
      /\ \A a \in Analysts : escalations[a].row # r
  BY DEF Kept, OnRow
<1>2. SUFFICES /\ rows'[r] = rows[r] /\ r \notin pass'.existing
               /\ \A a \in Analysts : escalations'[a].row # r
  BY <1>1 DEF Kept, OnRow
<1>3. r # 0 /\ Nothing.row = 0
  BY Shapes DEF Nothing
<1>4. CASE StartDetection \/ NextDetector \/ PassFails
  <2>1. rows' = rows /\ escalations' = escalations
    BY <1>4 DEF StartDetection, NextDetector, PassFails
  <2>2. \/ pass' = NoPass
        \/ pass' = [NoPass EXCEPT !.pc = "find"]
        \/ pass' = [NoPass EXCEPT !.pc = "find", !.k = pass.k + 1]
    BY <1>4 DEF StartDetection, NextDetector, PassFails
  <2>3. pass' = NoPass => pass'.existing = {}
    BY DEF NoPass
  <2>4. pass' = [NoPass EXCEPT !.pc = "find"] => pass'.existing = {}
    BY DEF NoPass
  <2>5. \A k : pass' = [NoPass EXCEPT !.pc = "find", !.k = k] => pass'.existing = {}
    BY DEF NoPass
  <2> QED BY <1>1, <2>1, <2>2, <2>3, <2>4, <2>5
<1>5. CASE Find
  BY <1>1, <1>5 DEF Find, Types, AnyPass
<1>6. CASE Existing
  <2>1. r \notin Open(Kind)
    BY <1>1 DEF Open
  <2> QED BY <1>1, <1>6, <2>1 DEF Existing, ReadOpen, Types, AnyPass
<1>7. ASSUME NEW s \in Subjects, Apply(s)
      PROVE  /\ rows'[r] = rows[r] /\ r \notin pass'.existing
             /\ \A a \in Analysts : escalations'[a].row # r
  <2>1. pass'.existing = pass.existing /\ escalations' = escalations
    BY <1>7 DEF Apply, Types, AnyPass
  <2>2. rows'[r] = rows[r]
    <3>1. CASE rows' = rows
      BY <3>1
    <3>2. CASE \E e : rows' = Append(rows, e)
      BY <3>2, Shapes DEF Types
    <3> QED BY <1>7, <3>1, <3>2 DEF Apply
  <2> QED BY <1>1, <2>1, <2>2
<1>8. ASSUME NEW q \in DOMAIN rows, Resolve(q)
      PROVE  /\ rows'[r] = rows[r] /\ r \notin pass'.existing
             /\ \A a \in Analysts : escalations'[a].row # r
  <2>1. q \in pass.existing /\ escalations' = escalations
    BY <1>8 DEF Resolve, Gone
  <2>2. rows'[r] = rows[r]
    BY <1>1, <1>8, <2>1 DEF Resolve
  <2>3. pass'.existing = pass.existing \ {q}
    BY <1>8 DEF Resolve, Types, AnyPass
  <2> QED BY <1>1, <2>1, <2>2, <2>3
<1>9. ASSUME NEW a \in Analysts, NEW q \in DOMAIN rows, Select(a, q)
      PROVE  /\ rows'[r] = rows[r] /\ r \notin pass'.existing
             /\ \A b \in Analysts : escalations'[b].row # r
  <2>1. rows' = rows /\ pass' = pass /\ q # r
    BY <1>1, <1>9 DEF Select
  <2>2. escalations'[a].row = q /\ \A b \in Analysts : b # a => escalations'[b] = escalations[b]
    BY <1>9 DEF Select, Types
  <2> QED BY <1>1, <2>1, <2>2
<1>10. ASSUME NEW a \in Analysts, InsertIncident(a) \/ UpdateRow(a)
       PROVE  /\ rows'[r] = rows[r] /\ r \notin pass'.existing
              /\ \A b \in Analysts : escalations'[b].row # r
  <2>1. escalations[a] \in AnyEscalation
    BY <1>10, Shapes DEF InsertIncident, UpdateRow
  <2>2. pass' = pass /\ rows'[r] = rows[r]
    BY <1>1, <1>10 DEF InsertIncident, UpdateRow
  <2>3. \E k, i : escalations' = [escalations EXCEPT ![a] = [escalations[a] EXCEPT !.step = k, !.incident = i]]
    <3>1. CASE InsertIncident(a)
      BY <3>1 DEF InsertIncident
    <3>2. CASE UpdateRow(a)
      <4>1. escalations' = [escalations EXCEPT ![a] = [escalations[a] EXCEPT !.step = "action"]]
        BY <3>2 DEF UpdateRow
      <4>2. [escalations[a] EXCEPT !.step = "action"]
              = [escalations[a] EXCEPT !.step = "action", !.incident = escalations[a].incident]
        BY <2>1 DEF AnyEscalation
      <4> QED BY <4>1, <4>2
    <3> QED BY <1>10, <3>1, <3>2
  <2>4. escalations'[a].row = escalations[a].row
    BY <2>1, <2>3 DEF Types, AnyEscalation
  <2>5. \A b \in Analysts : b # a => escalations'[b] = escalations[b]
    BY <2>3 DEF Types
  <2> QED BY <1>1, <2>2, <2>4, <2>5
<1>11. ASSUME NEW a \in Analysts, InsertAction(a) \/ EscalationFails(a)
       PROVE  /\ rows'[r] = rows[r] /\ r \notin pass'.existing
              /\ \A b \in Analysts : escalations'[b].row # r
  <2>1. rows' = rows /\ pass' = pass /\ escalations' = [escalations EXCEPT ![a] = Nothing]
    BY <1>11 DEF InsertAction, EscalationFails
  <2> QED BY <1>1, <1>3, <2>1 DEF Types
<1>12. CASE UNCHANGED vars
  BY <1>1, <1>12 DEF vars
<1> QED BY <1>4, <1>5, <1>6, <1>7, <1>8, <1>9, <1>10, <1>11, <1>12
        DEF Next, Detection, Escalation

THEOREM EscalatedStays == ASSUME CollectiveConstants PROVE Spec => EscalatedIsKept
<1>1. CInv /\ [Next]_vars => [\A r \in DOMAIN rows : Kept(r) => Kept(r)' /\ rows'[r] = rows[r]]_vars
  BY KeptStep
<1> QED BY <1>1, CInvHolds, PTL DEF Spec, EscalatedIsKept
=============================================================================
