------------------------ MODULE AnomalyLifecycleInv ------------------------
(***************************************************************************)
(* The inductive invariant behind the safety properties of                 *)
(* AnomalyLifecycle.  The properties are not inductive by themselves: a    *)
(* commit keeps them only because of what its transaction still knows to   *)
(* be true when it commits (TxKnows), which in turn holds because nobody   *)
(* else works on its vehicle and its incidents are locked.                 *)
(***************************************************************************)
EXTENDS AnomalyLifecycle

\* The shape of a transaction at each of its steps.
TxShape ==
    \A w \in Workers :
        /\ tx[w].pc = "idle" => tx[w] = IdleTx
        /\ tx[w].pc # "idle" => tx[w].key \in Keys
        /\ tx[w].pc \in {"select", "link"} => tx[w].kind = "open" /\ tx[w].escalate
        /\ tx[w].pc = "link" => tx[w].found \in IncidentIds
        /\ tx[w].pc = "update" => tx[w].kind = "resolve"
        /\ tx[w].pc = "commit" => tx[w].kind \in {"open", "resolve"}

\* Two transactions never work on one vehicle.
Exclusive ==
    \A w, u \in Workers :
        w # u /\ tx[w].pc # "idle" /\ tx[u].pc # "idle" => tx[w].key[1] # tx[u].key[1]

\* An active alert belongs to an open anomaly of its key, which has no other; an
\* open anomaly has one; an alert not yet escalated names no incident.
AlertRows ==
    /\ \A l \in AlertIds : alerts[l].status \in ActiveAlert =>
           /\ alerts[l].anomaly \in AnomalyIds
           /\ anomalies[alerts[l].anomaly].status = "OPEN"
           /\ alerts[l].key = anomalies[alerts[l].anomaly].key
    /\ \A l \in AlertIds : alerts[l].status = "OPEN" => alerts[l].incident = NoId
    /\ \A l, m \in AlertIds :
           /\ alerts[l].status \in ActiveAlert /\ alerts[m].status \in ActiveAlert
           /\ alerts[l].anomaly = alerts[m].anomaly
           => l = m
    /\ \A a \in AnomalyIds : anomalies[a].status = "OPEN" =>
           \E l \in AlertIds : alerts[l].status \in ActiveAlert /\ alerts[l].anomaly = a

\* An incident's alert has been escalated; an incident not yet there has none.
IncidentRows ==
    \A i \in IncidentIds :
        /\ incidents[i].status = "ABSENT" => incidents[i].alert = NoId
        /\ incidents[i].alert # NoId =>
               alerts[incidents[i].alert].status \in {"ESCALATED", "RESOLVED"}

\* What a transaction read stays true until it commits: its key is not escalated
\* by anyone else, the incident it found is still there and unlinked, and the
\* incidents it locked are those its commit has to close.
TxKnows ==
    \A w \in Workers :
        /\ tx[w].kind = "open" =>
              /\ tx[w].escalate =>
                    \A l \in AlertIds :
                        alerts[l].key = tx[w].key => alerts[l].status # "ESCALATED"
              /\ tx[w].found # NoId =>
                    /\ incidents[tx[w].found].status # "ABSENT"
                    /\ incidents[tx[w].found].alert = NoId
                    /\ incidents[tx[w].found].key = tx[w].key
        /\ tx[w].kind = "resolve" /\ tx[w].pc = "commit" =>
              \A i \in IncidentIds :
                  i \in tx[w].locked <=>
                      /\ incidents[i].status \in ActiveIncident
                      /\ incidents[i].alert # NoId
                      /\ incidents[i].key = tx[w].key

\* The inductive invariant.
IInv ==
    /\ TypeOK
    /\ TxShape
    /\ Exclusive
    /\ OneOpenAnomalyPerKey
    /\ AlertRows
    /\ EscalationLinksBack
    /\ NoStaleIncident
    /\ IncidentRows
    /\ TxKnows
    /\ AnomaliesAreScored
    /\ OneVerdict
=============================================================================
