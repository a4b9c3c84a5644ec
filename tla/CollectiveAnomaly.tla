--------------------------- MODULE CollectiveAnomaly ---------------------------
(* Collective anomalies: the hourly pass of the rules engine                      *)
(* (collective-anomaly-detection.js) opens, updates and resolves them, analysts    *)
(* escalate them to incidents (services/api-gateway/src/server.js). Every          *)
(* statement is a transaction of its own, so the two meet between any two of them. *)
(* What a detector finds is any set of subjects: owners, routes, groups of the     *)
(* vehicles of a device. Evidence and severity are left out.                       *)
EXTENDS Naturals, FiniteSets, Sequences

CONSTANTS
    Subjects,
    Detectors,       \* the types of anomaly, in the order they are looked for
    Lasting,         \* those that are not resolved when they are no longer found
    Analysts,
    MaxRows, MaxIncidents, MaxFailures   \* bounds

CollectiveConstants ==
    /\ Detectors \in Seq(STRING) /\ Len(Detectors) > 0
    /\ \A k, l \in DOMAIN Detectors : Detectors[k] = Detectors[l] => k = l
    /\ {MaxRows, MaxIncidents, MaxFailures} \subseteq Nat

VARIABLES
    rows,        \* collective_anomalies
    incidents,   \* those that were made from them
    pass,        \* the engine's pass: the detector, what it found, what it read
    escalations, \* what each analyst has under way
    failures

vars == <<rows, incidents, pass, escalations, failures>>

Nothing == [row |-> 0]
NoPass == [pc |-> "idle", k |-> 1, found |-> {}, todo |-> {}, existing |-> {}]
Kind == Detectors[pass.k]

Init ==
    /\ rows = <<>> /\ incidents = <<>>
    /\ pass = NoPass
    /\ escalations = [a \in Analysts |-> Nothing]
    /\ failures = 0

Of(kind, s) == {r \in DOMAIN rows : rows[r].kind = kind /\ rows[r].subject = s}
Open(kind) == {r \in DOMAIN rows : rows[r].kind = kind /\ rows[r].status = "OPEN"}
NotResolved(kind) == {r \in DOMAIN rows : rows[r].kind = kind /\ rows[r].status # "RESOLVED"}
------------------------------------------------------------------------------
(* The pass. It never overlaps itself: the next is scheduled when it has ended.   *)

StartDetection ==
    /\ pass.pc = "idle"
    /\ pass' = [NoPass EXCEPT !.pc = "find"]
    /\ UNCHANGED <<rows, incidents, escalations, failures>>

\* The bound keeps room for a row of each.
Find ==
    /\ pass.pc = "find"
    /\ \E S \in SUBSET Subjects :
         /\ Len(rows) + Cardinality(S) <= MaxRows \/ S = {}
         /\ pass' = [pass EXCEPT !.found = S, !.todo = S, !.existing = {},
                              !.pc = IF Kind \in Lasting THEN "apply" ELSE "existing"]
    /\ UNCHANGED <<rows, incidents, escalations, failures>>

ReadAllUnresolved == pass' = [pass EXCEPT !.existing = NotResolved(Kind), !.pc = "apply"]
ReadOpen == pass' = [pass EXCEPT !.existing = Open(Kind), !.pc = "apply"]

Existing ==
    /\ pass.pc = "existing" /\ ReadOpen
    /\ UNCHANGED <<rows, incidents, escalations, failures>>

\* The row a subject is taken to have: read with all others before, or now.
KnownAlways(kind, s) == {r \in pass.existing : rows[r].subject = s}
Known(kind, s) ==
    IF kind \in Lasting THEN Open(kind) \cap Of(kind, s)
    ELSE {r \in pass.existing : rows[r].subject = s}

\* A known row gets its new evidence, whatever has become of it; or a row is made.
Apply(s) ==
    /\ pass.pc = "apply" /\ s \in pass.todo
    /\ IF Known(Kind, s) # {} THEN UNCHANGED rows
       ELSE rows' = Append(rows, [kind |-> Kind, subject |-> s, status |-> "OPEN", incident |-> 0])
    /\ pass' = [pass EXCEPT !.todo = @ \ {s}]
    /\ UNCHANGED <<incidents, escalations, failures>>

Gone == {r \in pass.existing : rows[r].subject \notin pass.found}

\* What was read and is not found any more is resolved by its id.
Resolve(r) ==
    /\ pass.pc = "apply" /\ pass.todo = {} /\ r \in Gone
    /\ rows' = [rows EXCEPT ![r].status = "RESOLVED"]
    /\ pass' = [pass EXCEPT !.existing = @ \ {r}]
    /\ UNCHANGED <<incidents, escalations, failures>>

\* Behind the last detector comes the propagation of RiskScore.
NextDetector ==
    /\ pass.pc = "apply" /\ pass.todo = {} /\ Gone = {}
    /\ pass' = IF pass.k < Len(Detectors) THEN [NoPass EXCEPT !.pc = "find", !.k = pass.k + 1]
               ELSE NoPass
    /\ UNCHANGED <<rows, incidents, escalations, failures>>

\* A statement fails, or the engine is restarted: the rest of the pass is skipped.
PassFails ==
    /\ pass.pc # "idle"
    /\ failures < MaxFailures /\ failures' = failures + 1
    /\ pass' = NoPass
    /\ UNCHANGED <<rows, incidents, escalations>>
------------------------------------------------------------------------------
(* POST /collective-anomalies/:id/escalate: four statements without a            *)
(* transaction.                                                                  *)

\* `alone` is history: no other analyst has this row under way.
OnRow(r) == {a \in Analysts : escalations[a].row = r}

SelectAny(a, r) ==
    /\ escalations[a] = Nothing
    /\ escalations' = [escalations EXCEPT ![a] =
           [row |-> r, step |-> "insert", incident |-> 0, alone |-> OnRow(r) = {}]]
    /\ UNCHANGED <<rows, incidents, pass, failures>>
Select(a, r) ==
    /\ escalations[a] = Nothing
    /\ rows[r].status = "OPEN"
    /\ escalations' = [escalations EXCEPT ![a] =
           [row |-> r, step |-> "insert", incident |-> 0, alone |-> OnRow(r) = {}]]
    /\ UNCHANGED <<rows, incidents, pass, failures>>

InsertIncident(a) ==
    LET e == escalations[a]
    IN /\ e # Nothing /\ e.step = "insert"
       /\ Len(incidents) < MaxIncidents
       /\ incidents' = Append(incidents,
              [row |-> e.row, alone |-> e.alone, linked |-> FALSE, told |-> FALSE])
       /\ escalations' = [escalations EXCEPT ![a].step = "update", ![a].incident = Len(incidents) + 1]
       /\ UNCHANGED <<rows, pass, failures>>

\* By id: an anomaly that was resolved or escalated meanwhile is taken back.
\* `linked` is history.
UpdateRow(a) ==
    LET e == escalations[a]
    IN /\ e # Nothing /\ e.step = "update"
       /\ rows' = [rows EXCEPT ![e.row].status = "ESCALATED", ![e.row].incident = e.incident]
       /\ incidents' = [incidents EXCEPT ![e.incident].linked = TRUE]
       /\ escalations' = [escalations EXCEPT ![a].step = "action"]
       /\ UNCHANGED <<pass, failures>>

InsertAction(a) ==
    LET e == escalations[a]
    IN /\ e # Nothing /\ e.step = "action"
       /\ incidents' = [incidents EXCEPT ![e.incident].told = TRUE]
       /\ escalations' = [escalations EXCEPT ![a] = Nothing]
       /\ UNCHANGED <<rows, pass, failures>>

EscalationFails(a) ==
    /\ escalations[a] # Nothing
    /\ failures < MaxFailures /\ failures' = failures + 1
    /\ escalations' = [escalations EXCEPT ![a] = Nothing]
    /\ UNCHANGED <<rows, incidents, pass>>
------------------------------------------------------------------------------
Detection ==
    \/ StartDetection \/ Find \/ Existing \/ NextDetector \/ PassFails
    \/ \E s \in Subjects : Apply(s)
    \/ \E r \in DOMAIN rows : Resolve(r)

Escalation(a) ==
    \/ InsertIncident(a) \/ UpdateRow(a) \/ InsertAction(a) \/ EscalationFails(a)
    \/ \E r \in DOMAIN rows : Select(a, r)

Next == Detection \/ \E a \in Analysts : Escalation(a)

Spec == Init /\ [][Next]_vars
------------------------------------------------------------------------------
(* Properties                                                                  *)

\* Types; the statuses are those of the CHECK in migration 014.
TypeOK ==
    /\ rows \in Seq([kind : {Detectors[k] : k \in DOMAIN Detectors}, subject : Subjects,
                     status : {"OPEN", "ESCALATED", "RESOLVED"}, incident : 0..MaxIncidents])
    /\ incidents \in Seq([row : DOMAIN rows, alone : BOOLEAN, linked : BOOLEAN, told : BOOLEAN])
    /\ pass.pc \in {"idle", "find", "existing", "apply"} /\ pass.k \in DOMAIN Detectors
    /\ pass.existing \subseteq DOMAIN rows
    /\ \A a \in Analysts : escalations[a].row \in {0} \cup DOMAIN rows

\* A subject never has two open anomalies of one type, though nothing in the
\* database forbids it (migration 014 has no unique index) and the detector
\* inserts long after it has looked.
OneOpenPerSubject ==
    \A r, q \in DOMAIN rows :
        /\ rows[r].status = "OPEN" /\ rows[q].status = "OPEN"
        /\ rows[r].kind = rows[q].kind /\ rows[r].subject = rows[q].subject
        => r = q

\* Of the incidents of an anomaly at most one was begun while no other analyst was
\* at it, unless a request failed between making its incident and saying so in
\* the row: without an overlap or a failure there is no second one.
SecondIncidentNeedsOverlap ==
    \A i, j \in DOMAIN incidents :
        /\ i < j /\ incidents[i].row = incidents[j].row
        /\ incidents[i].alone /\ incidents[j].alone
        => failures > 0 /\ ~(incidents[i].linked /\ incidents[j].linked)

\* An escalated anomaly that no pass has read as open and no analyst has under
\* way stays escalated to its incident: the passes after it let it be, even when
\* its subject is no longer found.
Kept(r) ==
    /\ rows[r].status = "ESCALATED"
    /\ r \notin pass.existing /\ OnRow(r) = {}

EscalatedIsKept ==
    [][\A r \in DOMAIN rows : Kept(r) => Kept(r)' /\ rows'[r] = rows[r]]_vars
================================================================================
