------------------------------ MODULE CaseFile ------------------------------
(***************************************************************************)
(* What the anomaly lifecycle promises, without tables, transactions or    *)
(* locks: a (vehicle, rule) case is quiet, alerted or escalated to one     *)
(* incident, and it is cleared together with that incident in one step.    *)
(* AnomalyLifecycle implements this module.                                *)
(***************************************************************************)
CONSTANTS Keys, IncidentIds, NoId

VARIABLES
    case,   \* for each key its phase and the incident it is escalated to
    desk    \* for each incident its status and the key it is about

vars == <<case, desk>>

Quiet       == [phase |-> "QUIET", incident |-> NoId]
NotOnDesk   == [status |-> "ABSENT", key |-> NoId]
Active      == {"OPEN", "IN_PROGRESS"}
Held(i)     == \E k \in Keys : case[k].incident = i

Init ==
    /\ case = [k \in Keys |-> Quiet]
    /\ desk = [i \in IncidentIds |-> NotOnDesk]

\* The rule fires: somebody is told.
Alert(k) ==
    /\ case[k].phase = "QUIET"
    /\ case' = [case EXCEPT ![k].phase = "ALERTED"]
    /\ UNCHANGED desk

\* The case goes to the operators: with an incident of its own, or with one that
\* already is about this key and belongs to no case.
Escalate(k, i) ==
    /\ case[k].phase # "ESCALATED"
    /\ case' = [case EXCEPT ![k] = [phase |-> "ESCALATED", incident |-> i]]
    /\ ~Held(i)
    /\ \/ /\ desk[i].status = "ABSENT"
          /\ desk' = [desk EXCEPT ![i] = [status |-> "OPEN", key |-> k]]
       \/ /\ desk[i].status # "ABSENT" /\ desk[i].key = k
          /\ UNCHANGED desk

\* The rule is quiet again: case and incident end together.
Clear(k) ==
    /\ case[k].phase # "QUIET"
    /\ case' = [case EXCEPT ![k] = Quiet]
    /\ desk' = [i \in IncidentIds |->
                   IF i = case[k].incident /\ desk[i].status \in Active
                   THEN [desk[i] EXCEPT !.status = "RESOLVED"]
                   ELSE desk[i]]

\* A citizen's report is put on the desk.
Report(k, i) ==
    /\ desk[i].status = "ABSENT"
    /\ desk' = [desk EXCEPT ![i] = [status |-> "OPEN", key |-> k]]
    /\ UNCHANGED case

\* An operator takes an incident up or gives the verdict.
Work(i, status) ==
    /\ desk[i].status \in Active
    /\ desk' = [desk EXCEPT ![i].status = status]
    /\ UNCHANGED case

Next ==
    \/ \E k \in Keys : Alert(k) \/ Clear(k)
    \/ \E k \in Keys, i \in IncidentIds : Escalate(k, i) \/ Report(k, i)
    \/ \E i \in IncidentIds, status \in {"IN_PROGRESS", "RESOLVED", "FALSE_ALARM"} :
          Work(i, status)

Spec == Init /\ [][Next]_vars
=============================================================================
