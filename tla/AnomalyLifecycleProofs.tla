----------------------- MODULE AnomalyLifecycleProofs -----------------------
(***************************************************************************)
(* Proofs about AnomalyLifecycle, for every value of its constants: the    *)
(* invariant IInv of AnomalyLifecycleInv is inductive, and the safety      *)
(* properties follow from it.  One lemma per action.                       *)
(***************************************************************************)
EXTENDS AnomalyLifecycleInv, TLAPS

USE DEF AnomalyIds, AlertIds, IncidentIds

\* Ids are numbers, so NULL is none of them.
LEMMA IdsAreNotNull == /\ NoId \notin AnomalyIds
                       /\ NoId \notin AlertIds
                       /\ NoId \notin IncidentIds
  BY TablesAssumption

\* The empty tables and idle workers satisfy the invariant.
LEMMA InitInv == Init => IInv
<1> SUFFICES ASSUME Init PROVE IInv
  OBVIOUS
<1> USE IdsAreNotNull DEF Init, NoAnomaly, NoAlert, NoIncident, IdleTx
<1>1. TypeOK
  BY DEF TypeOK, AnomalyRow, AlertRow, IncidentRow, TxState, AnomalyStatus, AlertStatus,
         IncidentStatus
<1>2. TxShape /\ Exclusive /\ TxKnows
  BY DEF TxShape, Exclusive, TxKnows
<1>3. OneOpenAnomalyPerKey /\ AlertRows /\ EscalationLinksBack /\ NoStaleIncident
  BY DEF OneOpenAnomalyPerKey, AlertRows, EscalationLinksBack, NoStaleIncident,
         ActiveAlert, ActiveIncident
<1>4. IncidentRows /\ AnomaliesAreScored /\ OneVerdict
  BY DEF IncidentRows, AnomaliesAreScored, OneVerdict, ClosedIncident
<1> QED BY <1>1, <1>2, <1>3, <1>4 DEF IInv

-----------------------------------------------------------------------------
(* What the engine's queries return, in terms of the rows' keys.           *)

\* The alerts the engine reaches through OPEN anomalies are the active ones of the key.
LEMMA ActiveAlertsByKey ==
  ASSUME AlertRows, TypeOK, NEW k \in Keys
  PROVE  ActiveAlertsFor(k) =
             {l \in AlertIds : alerts[l].status \in ActiveAlert /\ alerts[l].key = k}
  BY DEF AlertRows, TypeOK, ActiveAlertsFor, ActiveAlertsOf, OpenAnomalies

\* While a key is not escalated, ensureIncident finds unlinked incidents only.
LEMMA IncidentsForUnlinked ==
  ASSUME IInv, NEW k \in Keys, NEW i \in IncidentsFor(k),
         \A l \in AlertIds : alerts[l].key = k => alerts[l].status # "ESCALATED"
  PROVE  /\ i \in IncidentIds
         /\ incidents[i].status # "ABSENT"
         /\ incidents[i].alert = NoId
         /\ incidents[i].key = k
  BY ActiveAlertsByKey, IdsAreNotNull
  DEF IInv, TypeOK, IncidentsFor, IncidentRows, ActiveAlert, ActiveIncident

\* The incidents a resolve has to close are the linked active ones of its key.
LEMMA IncidentsToResolveByKey ==
  ASSUME IInv, NEW k \in Keys
  PROVE  \A i \in IncidentIds :
             i \in IncidentsToResolve(k) <=>
                 /\ incidents[i].status \in ActiveIncident
                 /\ incidents[i].alert # NoId
                 /\ incidents[i].key = k
  <1>1. ActiveAlertsFor(k) =
             {l \in AlertIds : alerts[l].status \in ActiveAlert /\ alerts[l].key = k}
    BY ActiveAlertsByKey DEF IInv
  <1> TAKE i \in IncidentIds
  <1>2. ASSUME i \in IncidentsToResolve(k)
        PROVE  incidents[i].status \in ActiveIncident
               /\ incidents[i].alert # NoId /\ incidents[i].key = k
    <2>1. PICK l \in AlertIds : /\ alerts[l].status \in ActiveAlert
                                /\ alerts[l].key = k
                                /\ alerts[l].incident = i
      BY <1>1, <1>2 DEF IncidentsToResolve
    <2> QED BY <2>1, <1>2, IdsAreNotNull
        DEF IInv, TypeOK, AlertRows, IncidentsToResolve, EscalationLinksBack, ActiveAlert
  <1>3. ASSUME incidents[i].status \in ActiveIncident,
               incidents[i].alert # NoId, incidents[i].key = k
        PROVE  i \in IncidentsToResolve(k)
    BY <1>1, <1>3
    DEF IInv, TypeOK, IncidentRow, IncidentsToResolve, EscalationLinksBack, NoStaleIncident,
        ActiveAlert
  <1> QED BY <1>2, <1>3

-----------------------------------------------------------------------------
(* Steps that move a transaction and leave the rows alone.                 *)

\* BeginOpen keeps the invariant: what it reads of the alerts is TxKnows.
LEMMA BeginOpenInv ==
  ASSUME IInv, NEW w \in Workers, NEW k \in Keys, NEW severity \in Severities,
         BeginOpen(w, k, severity)
  PROVE  IInv'
<1> DEFINE escalate == ~AlreadyEscalated(k) /\ ShouldEscalateAlert(k, severity)
           t == [kind |-> "open", pc |-> IF escalate THEN "select" ELSE "commit",
                 key |-> k, escalate |-> escalate, found |-> NoId, locked |-> {}]
<1>1. /\ tx' = [tx EXCEPT ![w] = t]
      /\ UNCHANGED <<anomalies, alerts, incidents, scored>>
      /\ tx[w].pc = "idle"
      /\ VehicleFree(w, k)
  BY DEF BeginOpen, tables
<1>2. escalate \in BOOLEAN
  BY Zenon DEF escalate, AlreadyEscalated, ShouldEscalateAlert
<1>3. t \in TxState
  <2> HIDE DEF escalate
  <2> QED BY <1>2 DEF TxState
<1>4. escalate => \A l \in AlertIds : alerts[l].key = k => alerts[l].status # "ESCALATED"
  BY ActiveAlertsByKey DEF IInv, AlreadyEscalated, ActiveAlert
<1> HIDE DEF escalate
<1>5. /\ t.kind = "open" /\ t.key = k /\ t.escalate = escalate /\ t.found = NoId
      /\ t.locked = {} /\ t.pc \in {"select", "commit"} /\ (t.pc = "select" => escalate)
  BY <1>2
<1> HIDE DEF t
<1>6. TypeOK'
  BY <1>1, <1>3 DEF IInv, TypeOK
<1>7. TxShape'
  BY <1>1, <1>3, <1>5 DEF IInv, TypeOK, TxShape
<1>8. Exclusive'
  BY <1>1, <1>5 DEF IInv, TypeOK, Exclusive, VehicleFree
<1>9. TxKnows'
  BY <1>1, <1>4, <1>5 DEF IInv, TypeOK, TxKnows
<1>10. /\ OneOpenAnomalyPerKey' /\ AlertRows' /\ EscalationLinksBack' /\ NoStaleIncident'
       /\ IncidentRows' /\ AnomaliesAreScored' /\ OneVerdict'
  BY <1>1 DEF IInv, OneOpenAnomalyPerKey, AlertRows, EscalationLinksBack, NoStaleIncident,
              IncidentRows, AnomaliesAreScored, OneVerdict
<1> QED BY <1>6, <1>7, <1>8, <1>9, <1>10 DEF IInv

\* SelectIncident keeps the invariant: what it finds is unlinked.
LEMMA SelectIncidentInv ==
  ASSUME IInv, NEW w \in Workers, SelectIncident(w)
  PROVE  IInv'
<1> DEFINE k == tx[w].key
<1>1. tx[w].pc = "select" /\ k \in Keys /\ tx[w].kind = "open" /\ tx[w].escalate
  BY DEF IInv, TxShape, SelectIncident
<1>2. UNCHANGED <<anomalies, alerts, incidents, scored>>
  BY DEF SelectIncident, tables
<1>3. \A l \in AlertIds : alerts[l].key = k => alerts[l].status # "ESCALATED"
  BY <1>1 DEF IInv, TxKnows
<1>4. CASE \E i \in IncidentsFor(k) : tx' = [tx EXCEPT ![w].pc = "link", ![w].found = i]
  <2>1. PICK i \in IncidentsFor(k) : tx' = [tx EXCEPT ![w].pc = "link", ![w].found = i]
    BY <1>4
  <2>2. /\ i \in IncidentIds
        /\ incidents[i].status # "ABSENT" /\ incidents[i].alert = NoId /\ incidents[i].key = k
    BY <1>1, <1>3, IncidentsForUnlinked
  <2> DEFINE t == [tx[w] EXCEPT !.pc = "link", !.found = i]
  <2>a. tx[w] \in TxState
    BY DEF IInv, TypeOK
  <2>b. /\ t \in TxState /\ tx' = [tx EXCEPT ![w] = t]
        /\ t.kind = "open" /\ t.pc = "link" /\ t.key = k /\ t.escalate /\ t.found = i
    BY <1>1, <2>1, <2>2, <2>a DEF TxState
  <2> HIDE DEF t
  <2>3. TypeOK'
    BY <1>2, <2>b DEF IInv, TypeOK
  <2>4. TxShape' /\ Exclusive'
    BY <1>1, <2>2, <2>b DEF IInv, TypeOK, TxShape, Exclusive
  <2>5. TxKnows'
    BY <1>1, <1>2, <1>3, <2>2, <2>b DEF IInv, TypeOK, TxKnows
  <2> QED
    BY <1>2, <2>3, <2>4, <2>5
    DEF IInv, OneOpenAnomalyPerKey, AlertRows, EscalationLinksBack, NoStaleIncident,
        IncidentRows, AnomaliesAreScored, OneVerdict
<1>5. CASE tx' = [tx EXCEPT ![w].pc = "commit"]
  <2> DEFINE t == [tx[w] EXCEPT !.pc = "commit"]
  <2>a. tx[w] \in TxState
    BY DEF IInv, TypeOK
  <2>b. /\ t \in TxState /\ tx' = [tx EXCEPT ![w] = t]
        /\ t.kind = "open" /\ t.pc = "commit" /\ t.key = k /\ t.escalate
        /\ t.found = tx[w].found
    BY <1>1, <1>5, <2>a DEF TxState
  <2> HIDE DEF t
  <2>1. TypeOK' /\ TxShape' /\ Exclusive'
    BY <1>1, <1>2, <2>b DEF IInv, TypeOK, TxShape, Exclusive
  <2>2. TxKnows'
    BY <1>1, <1>2, <2>b DEF IInv, TypeOK, TxKnows
  <2> QED
    BY <1>2, <2>1, <2>2
    DEF IInv, OneOpenAnomalyPerKey, AlertRows, EscalationLinksBack, NoStaleIncident,
        IncidentRows, AnomaliesAreScored, OneVerdict
<1> QED BY <1>4, <1>5 DEF SelectIncident

\* LinkIncident keeps the invariant: it only takes a lock.
LEMMA LinkIncidentInv ==
  ASSUME IInv, NEW w \in Workers, LinkIncident(w)
  PROVE  IInv'
<1>1. /\ tx[w].pc = "link" /\ tx[w].kind = "open" /\ tx[w].found \in IncidentIds
      /\ tx[w].key \in Keys
      /\ tx' = [tx EXCEPT ![w].pc = "commit", ![w].locked = {tx[w].found}]
      /\ UNCHANGED <<anomalies, alerts, incidents, scored>>
  BY DEF IInv, TxShape, LinkIncident, tables
<1> DEFINE t == [tx[w] EXCEPT !.pc = "commit", !.locked = {tx[w].found}]
<1>a. tx[w] \in TxState
  BY DEF IInv, TypeOK
<1>b. /\ t \in TxState /\ tx' = [tx EXCEPT ![w] = t]
      /\ t.kind = "open" /\ t.pc = "commit" /\ t.key = tx[w].key
      /\ t.escalate = tx[w].escalate /\ t.found = tx[w].found
  BY <1>1, <1>a DEF TxState
<1> HIDE DEF t
<1>2. TypeOK'
  BY <1>1, <1>b DEF IInv, TypeOK
<1>3. TxShape' /\ Exclusive' /\ TxKnows'
  BY <1>1, <1>b DEF IInv, TypeOK, TxShape, Exclusive, TxKnows
<1> QED
  BY <1>1, <1>2, <1>3
  DEF IInv, OneOpenAnomalyPerKey, AlertRows, EscalationLinksBack, NoStaleIncident,
      IncidentRows, AnomaliesAreScored, OneVerdict

\* BeginResolve keeps the invariant: the vehicle was nobody's.
LEMMA BeginResolveInv ==
  ASSUME IInv, NEW w \in Workers, NEW k \in Keys, BeginResolve(w, k)
  PROVE  IInv'
<1> DEFINE t == [IdleTx EXCEPT !.kind = "resolve", !.pc = "update", !.key = k]
<1>1. /\ tx' = [tx EXCEPT ![w] = t]
      /\ UNCHANGED <<anomalies, alerts, incidents, scored>>
      /\ tx[w].pc = "idle"
      /\ VehicleFree(w, k)
  BY DEF BeginResolve, tables
<1>2. t \in TxState /\ t.kind = "resolve" /\ t.pc = "update" /\ t.key = k
  BY DEF TxState, IdleTx
<1> HIDE DEF t
<1>3. TypeOK'
  BY <1>1, <1>2 DEF IInv, TypeOK
<1>4. TxShape' /\ Exclusive' /\ TxKnows'
  BY <1>1, <1>2 DEF IInv, TypeOK, TxShape, Exclusive, TxKnows, VehicleFree
<1> QED
  BY <1>1, <1>3, <1>4
  DEF IInv, OneOpenAnomalyPerKey, AlertRows, EscalationLinksBack, NoStaleIncident,
      IncidentRows, AnomaliesAreScored, OneVerdict

\* UpdateIncidents keeps the invariant: it locks what its commit has to close.
LEMMA UpdateIncidentsInv ==
  ASSUME IInv, NEW w \in Workers, UpdateIncidents(w)
  PROVE  IInv'
<1> DEFINE k == tx[w].key
           I == IncidentsToResolve(k)
<1>1. /\ tx[w].pc = "update" /\ tx[w].kind = "resolve" /\ k \in Keys
      /\ tx' = [tx EXCEPT ![w].pc = "commit", ![w].locked = I]
      /\ UNCHANGED <<anomalies, alerts, incidents, scored>>
  BY DEF IInv, TxShape, UpdateIncidents, tables
<1>2. I \subseteq IncidentIds
  BY DEF IncidentsToResolve
<1>3. \A i \in IncidentIds :
          i \in I <=> /\ incidents[i].status \in ActiveIncident
                      /\ incidents[i].alert # NoId
                      /\ incidents[i].key = k
  BY <1>1, IncidentsToResolveByKey
<1> HIDE DEF I
<1> DEFINE t == [tx[w] EXCEPT !.pc = "commit", !.locked = I]
<1>a. tx[w] \in TxState
  BY DEF IInv, TypeOK
<1>b. /\ t \in TxState /\ tx' = [tx EXCEPT ![w] = t]
      /\ t.kind = "resolve" /\ t.pc = "commit" /\ t.key = k /\ t.locked = I
  BY <1>1, <1>2, <1>a DEF TxState
<1> HIDE DEF t
<1>4. TypeOK'
  BY <1>1, <1>b DEF IInv, TypeOK
<1>5. TxShape' /\ Exclusive'
  BY <1>1, <1>b DEF IInv, TypeOK, TxShape, Exclusive
<1>6. TxKnows'
  BY <1>1, <1>3, <1>b DEF IInv, TypeOK, TxKnows
<1> QED
  BY <1>1, <1>4, <1>5, <1>6
  DEF IInv, OneOpenAnomalyPerKey, AlertRows, EscalationLinksBack, NoStaleIncident,
      IncidentRows, AnomaliesAreScored, OneVerdict

\* Rollback keeps the invariant: the rows were not touched yet.
LEMMA RollbackInv ==
  ASSUME IInv, NEW w \in Workers, Rollback(w)
  PROVE  IInv'
<1>1. /\ tx' = [tx EXCEPT ![w] = IdleTx]
      /\ UNCHANGED <<anomalies, alerts, incidents, scored>>
  BY DEF Rollback, tables
<1>2. IdleTx \in TxState /\ IdleTx.kind = "none" /\ IdleTx.pc = "idle"
  BY DEF IdleTx, TxState
<1>3. TypeOK'
  BY <1>1, <1>2 DEF IInv, TypeOK
<1>4. TxShape' /\ Exclusive' /\ TxKnows'
  BY <1>1, <1>2 DEF IInv, TypeOK, TxShape, Exclusive, TxKnows
<1> QED
  BY <1>1, <1>3, <1>4
  DEF IInv, OneOpenAnomalyPerKey, AlertRows, EscalationLinksBack, NoStaleIncident,
      IncidentRows, AnomaliesAreScored, OneVerdict

-----------------------------------------------------------------------------
(* Commits.                                                                *)

\* A transaction in flight knows its key, and nobody else has its vehicle.
LEMMA OthersHaveOtherKeys ==
  ASSUME IInv, NEW w \in Workers, NEW u \in Workers, w # u,
         tx[w].kind # "none", tx[u].kind # "none"
  PROVE  tx[w].key # tx[u].key
  BY DEF IInv, TxShape, Exclusive, IdleTx

\* The rows a commit of an opening case writes: existing ones of the key, or new
\* ones when the key has none.
LEMMA OpenedRows ==
  ASSUME IInv, NEW k \in Keys, NEW a \in AnomalyFor(k), NEW l \in AlertFor(a)
  PROVE  /\ a \in AnomalyIds /\ l \in AlertIds
         /\ \/ /\ anomalies[a].status = "OPEN" /\ anomalies[a].key = k
               /\ alerts[l].status \in ActiveAlert
               /\ alerts[l].anomaly = a /\ alerts[l].key = k
            \/ /\ anomalies[a].status = "ABSENT" /\ alerts[l].status = "ABSENT"
               /\ \A b \in AnomalyIds : anomalies[b].status = "OPEN" => anomalies[b].key # k
               /\ \A m \in AlertIds :
                      alerts[m].status \in ActiveAlert => alerts[m].anomaly # a
<1>1. CASE OpenAnomalies(k) # {}
  <2>1. a \in AnomalyIds /\ anomalies[a].status = "OPEN" /\ anomalies[a].key = k
    BY <1>1 DEF AnomalyFor, OpenAnomalies
  <2>2. ActiveAlertsOf(a) # {}
    BY <2>1 DEF IInv, AlertRows, ActiveAlertsOf
  <2>3. l \in AlertIds /\ alerts[l].status \in ActiveAlert /\ alerts[l].anomaly = a
    BY <2>2 DEF AlertFor, ActiveAlertsOf
  <2> QED BY <2>1, <2>3 DEF IInv, AlertRows
<1>2. CASE OpenAnomalies(k) = {}
  <2>1. a \in AnomalyIds /\ anomalies[a].status = "ABSENT"
    BY <1>2 DEF AnomalyFor, Fresh
  <2>2. \A m \in AlertIds : alerts[m].status \in ActiveAlert => alerts[m].anomaly # a
    BY <2>1 DEF IInv, AlertRows
  <2>3. l \in AlertIds /\ alerts[l].status = "ABSENT"
    BY <2>2 DEF AlertFor, ActiveAlertsOf, Fresh
  <2> QED BY <1>2, <2>1, <2>2, <2>3 DEF OpenAnomalies
<1> QED BY <1>1, <1>2

\* CommitOpen keeps the invariant: the rows are the key's own, and what the
\* transaction read (not escalated, incident unlinked) is still so.
LEMMA CommitOpenInv ==
  ASSUME IInv, NEW w \in Workers, CommitOpen(w)
  PROVE  IInv'
<1> DEFINE k == tx[w].key
           found == tx[w].found
<1>1. tx[w].kind = "open" /\ tx[w].pc = "commit" /\ k \in Keys /\ tx[w] \in TxState
  BY DEF IInv, TypeOK, TxShape, CommitOpen
<1>2. PICK a \in AnomalyFor(k) : \E l \in AlertFor(a) :
         /\ anomalies' = [anomalies EXCEPT ![a] = OpenedAnomaly(a, k)]
         /\ scored' = ScoredWith(a)
         /\ \/ /\ ~tx[w].escalate
               /\ alerts' = [alerts EXCEPT ![l] = RefreshedAlert(l, a, k)]
               /\ UNCHANGED incidents
            \/ /\ tx[w].escalate
               /\ \E i \in IncidentFor(found) :
                     /\ incidents' = EnsureIncident(i, found, k, l)
                     /\ alerts' = [alerts EXCEPT ![l] = EscalatedAlert(l, a, k, i)]
  BY DEF CommitOpen
<1>3. PICK l \in AlertFor(a) :
         /\ anomalies' = [anomalies EXCEPT ![a] = OpenedAnomaly(a, k)]
         /\ scored' = ScoredWith(a)
         /\ \/ /\ ~tx[w].escalate
               /\ alerts' = [alerts EXCEPT ![l] = RefreshedAlert(l, a, k)]
               /\ UNCHANGED incidents
            \/ /\ tx[w].escalate
               /\ \E i \in IncidentFor(found) :
                     /\ incidents' = EnsureIncident(i, found, k, l)
                     /\ alerts' = [alerts EXCEPT ![l] = EscalatedAlert(l, a, k, i)]
  BY <1>2
<1>4. tx' = [tx EXCEPT ![w] = IdleTx]
  BY DEF CommitOpen
<1>5. /\ a \in AnomalyIds /\ l \in AlertIds
      /\ \/ /\ anomalies[a].status = "OPEN" /\ anomalies[a].key = k
            /\ alerts[l].status \in ActiveAlert
            /\ alerts[l].anomaly = a /\ alerts[l].key = k
         \/ /\ anomalies[a].status = "ABSENT" /\ alerts[l].status = "ABSENT"
            /\ \A b \in AnomalyIds : anomalies[b].status = "OPEN" => anomalies[b].key # k
            /\ \A m \in AlertIds :
                   alerts[m].status \in ActiveAlert => alerts[m].anomaly # a
  BY <1>1, OpenedRows
<1> DEFINE na == OpenedAnomaly(a, k)
<1>6. /\ na \in AnomalyRow /\ na.status = "OPEN" /\ na.key = k
      /\ anomalies' = [anomalies EXCEPT ![a] = na]
      /\ anomalies[a].status = "OPEN" => na = anomalies[a]
  BY <1>1, <1>3, <1>5 DEF OpenedAnomaly, AnomalyRow, AnomalyStatus, IInv, TypeOK
<1> HIDE DEF na
<1>7. IdleTx \in TxState /\ IdleTx.kind = "none" /\ IdleTx.pc = "idle"
  BY DEF IdleTx, TxState
<1>8. TxShape' /\ Exclusive' /\ tx' \in [Workers -> TxState]
  BY <1>4, <1>7 DEF IInv, TypeOK, TxShape, Exclusive
<1>9. anomalies' \in [AnomalyIds -> AnomalyRow] /\ OneOpenAnomalyPerKey'
  BY <1>5, <1>6 DEF IInv, TypeOK, OneOpenAnomalyPerKey
<1>10. scored' \subseteq AnomalyIds /\ AnomaliesAreScored'
  <2>1. scored' = IF anomalies[a].status = "OPEN" THEN scored ELSE scored \cup {a}
    BY <1>3 DEF ScoredWith
  <2>2. scored = {b \in AnomalyIds : anomalies[b].status # "ABSENT"}
    BY DEF IInv, AnomaliesAreScored
  <2>3. \A b \in AnomalyIds :
           anomalies'[b].status # "ABSENT" <=> anomalies[b].status # "ABSENT" \/ b = a
    BY <1>5, <1>6 DEF IInv, TypeOK
  <2>4. scored' = {b \in AnomalyIds : anomalies'[b].status # "ABSENT"}
    BY <1>5, <2>1, <2>2, <2>3
  <2> QED BY <2>4 DEF AnomaliesAreScored
<1>11. \A u \in Workers : u # w /\ tx[u].kind # "none" => tx[u].key # k
  BY <1>1, OthersHaveOtherKeys
<1>12. CASE /\ ~tx[w].escalate
            /\ alerts' = [alerts EXCEPT ![l] = RefreshedAlert(l, a, k)]
            /\ UNCHANGED incidents
  <2> DEFINE nl == RefreshedAlert(l, a, k)
  <2>1. /\ nl \in AlertRow /\ nl.status \in ActiveAlert /\ nl.anomaly = a /\ nl.key = k
        /\ alerts[l].status \in ActiveAlert => nl = alerts[l]
        /\ alerts[l].status = "ABSENT" => nl.status = "OPEN"
        /\ nl.status = "OPEN" => nl.incident = NoId
    BY <1>1, <1>5 DEF RefreshedAlert, AlertRow, AlertStatus, ActiveAlert, IInv, TypeOK, AlertRows
  <2>2. alerts' = [alerts EXCEPT ![l] = nl] /\ incidents' = incidents
    BY <1>12
  <2> HIDE DEF nl
  <2>3. TypeOK'
    BY <1>5, <1>8, <1>9, <1>10, <2>1, <2>2 DEF IInv, TypeOK
  <2>4. AlertRows'
    BY <1>5, <1>6, <2>1, <2>2 DEF IInv, TypeOK, AlertRows
  <2>5. EscalationLinksBack' /\ NoStaleIncident' /\ IncidentRows'
    BY <1>5, <2>1, <2>2, IdsAreNotNull
    DEF IInv, TypeOK, IncidentRow, EscalationLinksBack, NoStaleIncident, IncidentRows, ActiveAlert
  <2>6. TxKnows'
    BY <1>4, <1>5, <1>7, <1>11, <2>1, <2>2 DEF IInv, TypeOK, TxKnows
  <2>7. OneVerdict'
    BY <2>2 DEF IInv, OneVerdict
  <2> QED BY <1>8, <1>9, <1>10, <2>3, <2>4, <2>5, <2>6, <2>7 DEF IInv
<1>13. CASE /\ tx[w].escalate
            /\ \E i \in IncidentFor(found) :
                  /\ incidents' = EnsureIncident(i, found, k, l)
                  /\ alerts' = [alerts EXCEPT ![l] = EscalatedAlert(l, a, k, i)]
  <2>1. PICK i \in IncidentFor(found) :
           /\ incidents' = EnsureIncident(i, found, k, l)
           /\ alerts' = [alerts EXCEPT ![l] = EscalatedAlert(l, a, k, i)]
    BY <1>13
  <2>2. /\ i \in IncidentIds /\ incidents[i].alert = NoId
        /\ IF found = NoId THEN incidents[i].status = "ABSENT"
           ELSE incidents[i].status # "ABSENT" /\ incidents[i].key = k
    BY <1>1, <2>1 DEF IInv, TxKnows, IncidentRows, IncidentFor, Fresh, TxState
  <2>3. \A m \in AlertIds : alerts[m].key = k => alerts[m].status # "ESCALATED"
    BY <1>1, <1>13 DEF IInv, TxKnows
  <2> DEFINE nl == EscalatedAlert(l, a, k, i)
             ni == IF found = NoId THEN AutoOpened(k, l) ELSE Adopted(i, l)
  <2>4. /\ alerts' = [alerts EXCEPT ![l] = nl]
        /\ incidents' = [incidents EXCEPT ![i] = ni]
    BY <2>1 DEF EnsureIncident
  <2>5. /\ nl \in AlertRow /\ nl.status = "ESCALATED" /\ nl.anomaly = a /\ nl.key = k
        /\ nl.incident = i
    BY <1>1, <1>5, <2>2
    DEF EscalatedAlert, RefreshedAlert, AlertRow, AlertStatus, ActiveAlert, IInv, TypeOK
  <2>6. /\ ni \in IncidentRow /\ ni.alert = l /\ ni.key = k /\ ni.browser = 1
        /\ ni.status # "ABSENT"
    <3>1. CASE found = NoId
      BY <1>1, <1>5, <3>1
      DEF AutoOpened, IncidentRow, IncidentStatus, ActionRows
    <3>2. CASE found # NoId
      <4>1. incidents[i] \in IncidentRow
        BY <2>2 DEF IInv, TypeOK
      <4> QED BY <1>5, <2>2, <3>2, <4>1 DEF Adopted, IncidentRow
    <3> QED BY <3>1, <3>2
  <2>7. /\ \A x, y \in ni.trail \cap Verdicts : x = y
        /\ ni.status \in ClosedIncident <=> ni.trail \cap Verdicts # {}
    <3>1. CASE found = NoId
      BY <3>1 DEF AutoOpened, ClosedIncident, Verdicts
    <3>2. CASE found # NoId
      BY <2>2, <3>2 DEF Adopted, IInv, TypeOK, IncidentRow, OneVerdict
    <3> QED BY <3>1, <3>2
  <2>8. alerts[l].status \in {"OPEN", "ABSENT"}
    BY <1>5, <2>3 DEF ActiveAlert
  <2> HIDE DEF nl, ni
  <2>9. TypeOK'
    BY <1>5, <1>8, <1>9, <1>10, <2>2, <2>4, <2>5, <2>6 DEF IInv, TypeOK
  <2>10. AlertRows'
    BY <1>5, <1>6, <2>4, <2>5 DEF IInv, TypeOK, AlertRows, ActiveAlert
  <2>11. EscalationLinksBack'
    BY <1>5, <2>2, <2>4, <2>5, <2>6, IdsAreNotNull
    DEF IInv, TypeOK, EscalationLinksBack
  <2>12. NoStaleIncident'
    BY <1>5, <2>2, <2>4, <2>5, <2>6, <2>8, IdsAreNotNull
    DEF IInv, TypeOK, IncidentRow, NoStaleIncident
  <2>13. IncidentRows'
    BY <1>5, <2>2, <2>4, <2>5, <2>6, <2>8 DEF IInv, TypeOK, IncidentRow, IncidentRows
  <2>14. TxKnows'
    <3> SUFFICES ASSUME NEW u \in Workers, u # w, tx[u].kind # "none"
        PROVE /\ tx[u].kind = "open" =>
                 /\ tx[u].escalate =>
                       \A m \in AlertIds :
                           alerts'[m].key = tx[u].key => alerts'[m].status # "ESCALATED"
                 /\ tx[u].found # NoId =>
                       /\ incidents'[tx[u].found].status # "ABSENT"
                       /\ incidents'[tx[u].found].alert = NoId
                       /\ incidents'[tx[u].found].key = tx[u].key
              /\ tx[u].kind = "resolve" /\ tx[u].pc = "commit" =>
                    \A j \in IncidentIds :
                        j \in tx[u].locked <=>
                            /\ incidents'[j].status \in ActiveIncident
                            /\ incidents'[j].alert # NoId
                            /\ incidents'[j].key = tx[u].key
      BY <1>4, <1>7 DEF IInv, TypeOK, TxKnows
    <3>1. tx[u].key # k
      BY <1>11
    <3>2. tx[u].kind = "open" /\ tx[u].found # NoId => tx[u].found # i
      BY <2>2, <3>1 DEF IInv, TxKnows
    <3> QED
      BY <1>5, <2>2, <2>4, <2>5, <2>6, <3>1, <3>2 DEF IInv, TypeOK, TxKnows, TxState
  <2>15. OneVerdict'
    BY <2>2, <2>4, <2>7 DEF IInv, TypeOK, OneVerdict
  <2> QED
    BY <1>8, <1>9, <1>10, <2>9, <2>10, <2>11, <2>12, <2>13, <2>14, <2>15 DEF IInv
<1> QED BY <1>3, <1>12, <1>13

\* CommitResolve keeps the invariant: the incidents it locked are all the active
\* ones of its alerts, so alerts and incidents end together.
LEMMA CommitResolveInv ==
  ASSUME IInv, NEW w \in Workers, CommitResolve(w)
  PROVE  IInv'
<1> DEFINE k == tx[w].key
           L == tx[w].locked
<1>1. /\ tx[w].kind = "resolve" /\ tx[w].pc = "commit" /\ k \in Keys
      /\ tx' = [tx EXCEPT ![w] = IdleTx] /\ scored' = scored
      /\ L \subseteq IncidentIds
  BY DEF IInv, TypeOK, TxState, TxShape, CommitResolve
<1>2. \A i \in IncidentIds :
          i \in L <=> /\ incidents[i].status \in ActiveIncident
                      /\ incidents[i].alert # NoId
                      /\ incidents[i].key = k
  BY <1>1 DEF IInv, TxKnows
<1>3. /\ anomalies' = [a \in AnomalyIds |->
                         IF anomalies[a].status = "OPEN" /\ anomalies[a].key = k
                         THEN [anomalies[a] EXCEPT !.status = "RESOLVED"] ELSE anomalies[a]]
      /\ alerts' = [l \in AlertIds |->
                      IF alerts[l].status \in ActiveAlert /\ alerts[l].key = k
                      THEN [alerts[l] EXCEPT !.status = "RESOLVED"] ELSE alerts[l]]
      /\ incidents' = [i \in IncidentIds |->
                         IF i \in L
                         THEN [incidents[i] EXCEPT !.status = "RESOLVED",
                                                   !.trail = @ \cup {"AUTO_RESOLVE"}]
                         ELSE incidents[i]]
  <2>1. ActiveAlertsFor(k) =
            {l \in AlertIds : alerts[l].status \in ActiveAlert /\ alerts[l].key = k}
    BY <1>1, ActiveAlertsByKey DEF IInv
  <2> QED
    BY <2>1 DEF CommitResolve, ResolvedAnomalies, ResolvedAlerts, ResolvedIncidents, OpenAnomalies
<1> HIDE DEF L
<1>4. \A a \in AnomalyIds :
         /\ anomalies'[a] \in AnomalyRow /\ anomalies'[a].key = anomalies[a].key
         /\ IF anomalies[a].status = "OPEN" /\ anomalies[a].key = k
            THEN anomalies'[a].status = "RESOLVED" ELSE anomalies'[a] = anomalies[a]
  BY <1>3 DEF IInv, TypeOK, AnomalyRow, AnomalyStatus
<1>5. \A l \in AlertIds :
         /\ alerts'[l] \in AlertRow /\ alerts'[l].key = alerts[l].key
         /\ alerts'[l].incident = alerts[l].incident /\ alerts'[l].anomaly = alerts[l].anomaly
         /\ IF alerts[l].status \in ActiveAlert /\ alerts[l].key = k
            THEN alerts'[l].status = "RESOLVED" ELSE alerts'[l] = alerts[l]
  BY <1>3 DEF IInv, TypeOK, AlertRow, AlertStatus
<1>6. \A i \in IncidentIds :
         /\ incidents'[i] \in IncidentRow
         /\ incidents'[i].key = incidents[i].key /\ incidents'[i].alert = incidents[i].alert
         /\ incidents'[i].browser = incidents[i].browser
         /\ IF i \in L
            THEN /\ incidents'[i].status = "RESOLVED"
                 /\ incidents'[i].trail = incidents[i].trail \cup {"AUTO_RESOLVE"}
            ELSE incidents'[i] = incidents[i]
  BY <1>3 DEF IInv, TypeOK, IncidentRow, IncidentStatus, ActionRows
<1>7. /\ DOMAIN anomalies' = AnomalyIds /\ DOMAIN alerts' = AlertIds
      /\ DOMAIN incidents' = IncidentIds
      /\ anomalies' = [a \in AnomalyIds |-> anomalies'[a]]
      /\ alerts' = [l \in AlertIds |-> alerts'[l]]
      /\ incidents' = [i \in IncidentIds |-> incidents'[i]]
  BY <1>3
<1>8. IdleTx \in TxState /\ IdleTx.kind = "none" /\ IdleTx.pc = "idle"
  BY DEF IdleTx, TxState
<1>9. \A u \in Workers : u # w /\ tx[u].kind # "none" => tx[u].key # k
  BY <1>1, OthersHaveOtherKeys
<1>10. TypeOK'
  <2>1. anomalies' \in [AnomalyIds -> AnomalyRow]
    BY <1>4, <1>7
  <2>2. alerts' \in [AlertIds -> AlertRow]
    BY <1>5, <1>7
  <2>3. incidents' \in [IncidentIds -> IncidentRow]
    BY <1>6, <1>7
  <2> QED BY <1>1, <1>8, <2>1, <2>2, <2>3 DEF IInv, TypeOK
<1> HIDE DEF k
<1>11. TxShape' /\ Exclusive'
  BY <1>1, <1>8 DEF IInv, TypeOK, TxShape, Exclusive
<1>12. OneOpenAnomalyPerKey'
  BY <1>4 DEF IInv, OneOpenAnomalyPerKey
<1>13. AlertRows'
  BY <1>4, <1>5 DEF IInv, AlertRows, ActiveAlert
<1>14. EscalationLinksBack'
  <2> SUFFICES ASSUME NEW l \in AlertIds, alerts'[l].status = "ESCALATED"
      PROVE /\ alerts'[l].incident \in IncidentIds
            /\ incidents'[alerts'[l].incident].alert = l
            /\ incidents'[alerts'[l].incident].key = alerts'[l].key
            /\ incidents'[alerts'[l].incident].browser = 1
    BY DEF EscalationLinksBack
  <2>1. alerts[l].status = "ESCALATED"
    BY <1>5
  <2> QED BY <2>1, <1>5, <1>6 DEF IInv, EscalationLinksBack
<1>15. NoStaleIncident'
  <2> SUFFICES ASSUME NEW i \in IncidentIds, incidents'[i].status \in ActiveIncident,
                      incidents'[i].alert # NoId
      PROVE /\ alerts'[incidents'[i].alert].status = "ESCALATED"
            /\ alerts'[incidents'[i].alert].incident = i
    BY DEF NoStaleIncident
  <2>1. i \notin L /\ incidents'[i] = incidents[i] /\ incidents[i].key # k
    BY <1>2, <1>6 DEF ActiveIncident
  <2>2. /\ incidents[i].alert \in AlertIds
        /\ alerts[incidents[i].alert].status = "ESCALATED"
        /\ alerts[incidents[i].alert].incident = i
    BY <2>1 DEF IInv, TypeOK, IncidentRow, NoStaleIncident
  <2>3. alerts[incidents[i].alert].key # k
    BY <2>1, <2>2 DEF IInv, EscalationLinksBack
  <2> QED BY <2>1, <2>2, <2>3, <1>5
<1>16. IncidentRows'
  BY <1>2, <1>5, <1>6 DEF IInv, TypeOK, IncidentRow, IncidentRows
<1>17. AnomaliesAreScored'
  BY <1>1, <1>4 DEF IInv, AnomaliesAreScored
<1>18. OneVerdict'
  <2> SUFFICES ASSUME NEW i \in IncidentIds
      PROVE /\ \A x, y \in incidents'[i].trail \cap Verdicts : x = y
            /\ incidents'[i].status \in ClosedIncident
                  <=> incidents'[i].trail \cap Verdicts # {}
    BY DEF OneVerdict
  <2>1. CASE i \in L
    <3>1. incidents[i].trail \cap Verdicts = {}
      BY <2>1, <1>2 DEF IInv, OneVerdict, ActiveIncident, ClosedIncident
    <3> QED BY <2>1, <3>1, <1>6 DEF Verdicts, ClosedIncident
  <2>2. CASE i \notin L
    BY <2>2, <1>6 DEF IInv, OneVerdict
  <2> QED BY <2>1, <2>2
<1>19. TxKnows'
  <2>1. \A u \in Workers : u # w => tx'[u] = tx[u]
    BY <1>1 DEF IInv, TypeOK
  <2>2. tx'[w].kind = "none"
    BY <1>1, <1>8 DEF IInv, TypeOK
  <2> SUFFICES ASSUME NEW u \in Workers, u # w, tx[u].kind # "none"
      PROVE /\ tx[u].kind = "open" =>
               /\ tx[u].escalate =>
                     \A m \in AlertIds :
                         alerts'[m].key = tx[u].key => alerts'[m].status # "ESCALATED"
               /\ tx[u].found # NoId =>
                     /\ incidents'[tx[u].found].status # "ABSENT"
                     /\ incidents'[tx[u].found].alert = NoId
                     /\ incidents'[tx[u].found].key = tx[u].key
            /\ tx[u].kind = "resolve" /\ tx[u].pc = "commit" =>
                  \A j \in IncidentIds :
                      j \in tx[u].locked <=>
                          /\ incidents'[j].status \in ActiveIncident
                          /\ incidents'[j].alert # NoId
                          /\ incidents'[j].key = tx[u].key
    BY <2>1, <2>2 DEF TxKnows
  <2>3. tx[u].key # k /\ tx[u] \in TxState
    BY <1>9 DEF IInv, TypeOK
  <2>4. tx[u].kind = "open" =>
           /\ tx[u].escalate =>
                 \A m \in AlertIds :
                     alerts'[m].key = tx[u].key => alerts'[m].status # "ESCALATED"
           /\ tx[u].found # NoId =>
                 /\ incidents'[tx[u].found].status # "ABSENT"
                 /\ incidents'[tx[u].found].alert = NoId
                 /\ incidents'[tx[u].found].key = tx[u].key
    BY <2>3, <1>5, <1>6 DEF IInv, TxKnows, TxState
  <2>5. tx[u].kind = "resolve" /\ tx[u].pc = "commit" =>
           \A j \in IncidentIds :
               j \in tx[u].locked <=>
                   /\ incidents'[j].status \in ActiveIncident
                   /\ incidents'[j].alert # NoId
                   /\ incidents'[j].key = tx[u].key
    BY <2>3, <1>2, <1>6 DEF IInv, TxKnows, ActiveIncident
  <2> QED BY <2>4, <2>5
<1> QED
  BY <1>10, <1>11, <1>12, <1>13, <1>14, <1>15, <1>16, <1>17, <1>18, <1>19 DEF IInv

-----------------------------------------------------------------------------
(* The other writers of incidents.                                         *)

\* ReportIncident keeps the invariant: the new row belongs to no alert, and no
\* transaction has found or locked it.
LEMMA ReportIncidentInv ==
  ASSUME IInv, NEW k \in Keys, ReportIncident(k)
  PROVE  IInv'
<1> DEFINE n == [NoIncident EXCEPT !.status = "OPEN", !.key = k, !.trail = {"ASSIGN"}]
<1>1. PICK i \in Fresh(incidents, IncidentIds) : incidents' = [incidents EXCEPT ![i] = n]
  BY DEF ReportIncident
<1>2. UNCHANGED <<anomalies, alerts, scored, tx>>
  BY DEF ReportIncident
<1>3. i \in IncidentIds /\ incidents[i].status = "ABSENT" /\ incidents[i].alert = NoId
  BY DEF Fresh, IInv, IncidentRows
<1>4. /\ n \in IncidentRow /\ n.status = "OPEN" /\ n.key = k /\ n.alert = NoId
      /\ n.trail \cap Verdicts = {}
  BY DEF NoIncident, IncidentRow, IncidentStatus, ActionRows, AllowedActions, Verdicts
<1> HIDE DEF n
<1>5. TypeOK'
  BY <1>1, <1>2, <1>3, <1>4 DEF IInv, TypeOK
<1>6. TxShape' /\ Exclusive' /\ OneOpenAnomalyPerKey' /\ AlertRows' /\ AnomaliesAreScored'
  BY <1>2 DEF IInv, TxShape, Exclusive, OneOpenAnomalyPerKey, AlertRows, AnomaliesAreScored
<1>7. EscalationLinksBack' /\ NoStaleIncident' /\ IncidentRows'
  BY <1>1, <1>2, <1>3, <1>4, IdsAreNotNull
  DEF IInv, TypeOK, EscalationLinksBack, NoStaleIncident, IncidentRows
<1>8. TxKnows'
  BY <1>1, <1>2, <1>3, <1>4 DEF IInv, TypeOK, TxState, TxKnows, ActiveIncident
<1>9. OneVerdict'
  BY <1>1, <1>3, <1>4 DEF IInv, TypeOK, OneVerdict, ClosedIncident
<1> QED BY <1>5, <1>6, <1>7, <1>8, <1>9 DEF IInv

\* IncidentAction keeps the invariant: the row was active and nobody's.
LEMMA IncidentActionInv ==
  ASSUME IInv, NEW i \in IncidentIds, NEW action \in OperatorActions, IncidentAction(i, action)
  PROVE  IInv'
<1> DEFINE s == StatusAfter(action, incidents[i].status)
           n == [incidents[i] EXCEPT !.status = s, !.trail = @ \cup {action}]
<1>1. /\ incidents' = [incidents EXCEPT ![i] = n]
      /\ UNCHANGED <<anomalies, alerts, scored, tx>>
      /\ incidents[i].status \in ActiveIncident
      /\ \A w \in Workers : i \notin tx[w].locked
      /\ incidents[i] \in IncidentRow
  BY DEF IncidentAction, Workable, Locked, IInv, TypeOK
<1>2. action \in AllowedActions
  BY ActionsAssumption
<1>3. /\ s \in {"OPEN", "IN_PROGRESS", "RESOLVED", "FALSE_ALARM"}
      /\ s \in ClosedIncident <=> action \in Verdicts
      /\ action # "AUTO_RESOLVE"
  BY <1>1, <1>2 DEF StatusAfter, AllowedActions, ActiveIncident, ClosedIncident, Verdicts
<1> HIDE DEF s
<1>4. /\ n \in IncidentRow /\ n.status = s /\ n.key = incidents[i].key
      /\ n.alert = incidents[i].alert /\ n.browser = incidents[i].browser
      /\ n.trail = incidents[i].trail \cup {action}
  BY <1>1, <1>2, <1>3 DEF IncidentRow, IncidentStatus, ActionRows
<1> HIDE DEF n
<1>5. TypeOK'
  BY <1>1, <1>4 DEF IInv, TypeOK
<1>6. TxShape' /\ Exclusive' /\ OneOpenAnomalyPerKey' /\ AlertRows' /\ AnomaliesAreScored'
  BY <1>1 DEF IInv, TxShape, Exclusive, OneOpenAnomalyPerKey, AlertRows, AnomaliesAreScored
<1>7. EscalationLinksBack' /\ NoStaleIncident' /\ IncidentRows'
  BY <1>1, <1>3, <1>4
  DEF IInv, TypeOK, EscalationLinksBack, NoStaleIncident, IncidentRows, ActiveIncident
<1>8. TxKnows'
  BY <1>1, <1>3, <1>4 DEF IInv, TypeOK, TxState, TxKnows, ActiveIncident
<1>9. OneVerdict'
  <2>1. incidents[i].trail \cap Verdicts = {}
    BY <1>1 DEF IInv, OneVerdict, ActiveIncident, ClosedIncident
  <2>2. /\ \A x, y \in n.trail \cap Verdicts : x = y
        /\ n.status \in ClosedIncident <=> n.trail \cap Verdicts # {}
    BY <2>1, <1>3, <1>4 DEF Verdicts, ClosedIncident
  <2> QED BY <1>1, <2>2 DEF IInv, TypeOK, OneVerdict
<1> QED BY <1>5, <1>6, <1>7, <1>8, <1>9 DEF IInv

\* AgeOut keeps the invariant, which does not look at the age of an anomaly.
LEMMA AgeOutInv ==
  ASSUME IInv, NEW a \in AnomalyIds, AgeOut(a)
  PROVE  IInv'
<1> DEFINE n == [anomalies[a] EXCEPT !.recent = FALSE]
<1>1. anomalies' = [anomalies EXCEPT ![a] = n] /\ UNCHANGED <<alerts, incidents, scored, tx>>
  BY DEF AgeOut
<1>2. n \in AnomalyRow /\ n.status = anomalies[a].status /\ n.key = anomalies[a].key
  BY DEF IInv, TypeOK, AnomalyRow
<1> HIDE DEF n
<1>3. TypeOK' /\ OneOpenAnomalyPerKey' /\ AlertRows' /\ AnomaliesAreScored'
  BY <1>1, <1>2 DEF IInv, TypeOK, OneOpenAnomalyPerKey, AlertRows, AnomaliesAreScored
<1>4. /\ TxShape' /\ Exclusive' /\ EscalationLinksBack' /\ NoStaleIncident' /\ IncidentRows'
      /\ TxKnows' /\ OneVerdict'
  BY <1>1 DEF IInv, TxShape, Exclusive, EscalationLinksBack, NoStaleIncident, IncidentRows,
              TxKnows, OneVerdict
<1> QED BY <1>3, <1>4 DEF IInv

-----------------------------------------------------------------------------
(* The theorems.                                                           *)

\* Every step of the system, and none at all, keeps the invariant.
LEMMA NextInv == IInv /\ [Next]_vars => IInv'
<1> SUFFICES ASSUME IInv, [Next]_vars PROVE IInv'
  OBVIOUS
<1>1. CASE \E w \in Workers : Worker(w)
  <2>1. PICK w \in Workers : Worker(w)
    BY <1>1
  <2> QED
    BY <2>1, BeginOpenInv, SelectIncidentInv, LinkIncidentInv, CommitOpenInv, BeginResolveInv,
       UpdateIncidentsInv, CommitResolveInv, RollbackInv
    DEF Worker
<1>2. CASE Desk
  BY <1>2, ReportIncidentInv, IncidentActionInv DEF Desk
<1>3. CASE \E a \in AnomalyIds : AgeOut(a)
  BY <1>3, AgeOutInv
<1>4. CASE UNCHANGED vars
  BY <1>4
  DEF vars, IInv, TypeOK, TxShape, Exclusive, OneOpenAnomalyPerKey, AlertRows,
      EscalationLinksBack, NoStaleIncident, IncidentRows, TxKnows, AnomaliesAreScored, OneVerdict
<1> QED BY <1>1, <1>2, <1>3, <1>4 DEF Next

\* The inductive invariant holds in every reachable state, whatever the vehicles,
\* rules, workers and tables.
THEOREM Invariance == Spec => []IInv
<1>1. Init => IInv
  BY InitInv
<1>2. IInv /\ [Next]_vars => IInv'
  BY NextInv
<1> QED BY <1>1, <1>2, PTL DEF Spec

\* The tables and transactions are well typed (lifecycle transactions and operator
\* actions write only statuses and ids their columns allow).
THEOREM TypeCorrect == Spec => []TypeOK
<1>1. IInv => TypeOK
  BY DEF IInv
<1> QED BY <1>1, Invariance, PTL

\* openRuleLifecycle never inserts a second OPEN anomaly of a vehicle and a rule.
THEOREM OneOpenAnomaly == Spec => []OneOpenAnomalyPerKey
<1>1. IInv => OneOpenAnomalyPerKey
  BY DEF IInv
<1> QED BY <1>1, Invariance, PTL

\* Anomaly and alert are opened together and resolved together.
THEOREM AlertFollowsAnomaly == Spec => []AlertLivesWithAnomaly
<1>1. IInv => AlertLivesWithAnomaly
  BY IdsAreNotNull DEF IInv, TypeOK, AlertRows, AlertLivesWithAnomaly, ActiveAlertsOf
<1> QED BY <1>1, Invariance, PTL

\* Whatever operators and workers do in between, an escalated alert and its
\* incident name each other.
THEOREM EscalationIsLinked == Spec => []EscalationLinksBack
<1>1. IInv => EscalationLinksBack
  BY DEF IInv
<1> QED BY <1>1, Invariance, PTL

\* resolveRuleLifecycle leaves no active incident behind an alert that is over.
THEOREM NoIncidentIsLeftBehind == Spec => []NoStaleIncident
<1>1. IInv => NoStaleIncident
  BY DEF IInv
<1> QED BY <1>1, Invariance, PTL

\* The risk ledger has exactly one ANOMALY row for each anomaly.
THEOREM LedgerIsExact == Spec => []AnomaliesAreScored
<1>1. IInv => AnomaliesAreScored
  BY DEF IInv
<1> QED BY <1>1, Invariance, PTL

\* Engine and operators together give an incident at most one verdict.
THEOREM VerdictIsFinal == Spec => []OneVerdict
<1>1. IInv => OneVerdict
  BY DEF IInv
<1> QED BY <1>1, Invariance, PTL

-----------------------------------------------------------------------------
(* What a step does to the rows: the facts the action property and the     *)
(* refinement both rest on.                                                *)

\* CommitOpen writes one anomaly and one alert of its key, and either leaves the
\* incidents alone or escalates to one that is new or belongs to no alert.
LEMMA CommitOpenEffect ==
  ASSUME IInv, NEW w \in Workers, CommitOpen(w)
  PROVE  \E k \in Keys, a \in AnomalyIds, l \in AlertIds :
           /\ anomalies[a].status \in {"ABSENT", "OPEN"} /\ anomalies'[a].status = "OPEN"
           /\ \A b \in AnomalyIds \ {a} : anomalies'[b] = anomalies[b]
           /\ alerts[l].status \in {"ABSENT", "OPEN", "ESCALATED"}
           /\ alerts'[l].key = k
           /\ IF alerts[l].status = "ABSENT"
              THEN \A m \in AlertIds : alerts[m].status \in ActiveAlert => alerts[m].key # k
              ELSE alerts[l].key = k
           /\ \A m \in AlertIds \ {l} : alerts'[m] = alerts[m]
           /\ \/ /\ IF alerts[l].status = "ABSENT"
                    THEN alerts'[l].status = "OPEN" ELSE alerts'[l] = alerts[l]
                 /\ incidents' = incidents
              \/ /\ alerts[l].status # "ESCALATED" /\ alerts'[l].status = "ESCALATED"
                 /\ \E i \in IncidentIds :
                       /\ alerts'[l].incident = i
                       /\ incidents[i].alert = NoId
                       /\ incidents'[i].key = k
                       /\ \/ incidents[i].status = "ABSENT" /\ incidents'[i].status = "OPEN"
                          \/ /\ incidents[i].status # "ABSENT" /\ incidents[i].key = k
                             /\ incidents'[i].status = incidents[i].status
                       /\ \A j \in IncidentIds \ {i} : incidents'[j] = incidents[j]
<1> DEFINE k == tx[w].key
           found == tx[w].found
<1>1. k \in Keys /\ tx[w].kind = "open" /\ tx[w] \in TxState
  BY DEF IInv, TypeOK, TxShape, CommitOpen
<1>2. PICK a \in AnomalyFor(k) : \E l \in AlertFor(a) :
         /\ anomalies' = [anomalies EXCEPT ![a] = OpenedAnomaly(a, k)]
         /\ \/ /\ ~tx[w].escalate
               /\ alerts' = [alerts EXCEPT ![l] = RefreshedAlert(l, a, k)]
               /\ UNCHANGED incidents
            \/ /\ tx[w].escalate
               /\ \E i \in IncidentFor(found) :
                     /\ incidents' = EnsureIncident(i, found, k, l)
                     /\ alerts' = [alerts EXCEPT ![l] = EscalatedAlert(l, a, k, i)]
  BY DEF CommitOpen
<1>3. PICK l \in AlertFor(a) :
         /\ anomalies' = [anomalies EXCEPT ![a] = OpenedAnomaly(a, k)]
         /\ \/ /\ ~tx[w].escalate
               /\ alerts' = [alerts EXCEPT ![l] = RefreshedAlert(l, a, k)]
               /\ UNCHANGED incidents
            \/ /\ tx[w].escalate
               /\ \E i \in IncidentFor(found) :
                     /\ incidents' = EnsureIncident(i, found, k, l)
                     /\ alerts' = [alerts EXCEPT ![l] = EscalatedAlert(l, a, k, i)]
  BY <1>2
<1>4. /\ a \in AnomalyIds /\ l \in AlertIds
      /\ \/ /\ anomalies[a].status = "OPEN" /\ anomalies[a].key = k
            /\ alerts[l].status \in ActiveAlert
            /\ alerts[l].anomaly = a /\ alerts[l].key = k
         \/ /\ anomalies[a].status = "ABSENT" /\ alerts[l].status = "ABSENT"
            /\ \A b \in AnomalyIds : anomalies[b].status = "OPEN" => anomalies[b].key # k
            /\ \A m \in AlertIds :
                   alerts[m].status \in ActiveAlert => alerts[m].anomaly # a
  BY <1>1, OpenedRows
<1>5. /\ anomalies[a].status \in {"ABSENT", "OPEN"} /\ anomalies'[a].status = "OPEN"
      /\ \A b \in AnomalyIds \ {a} : anomalies'[b] = anomalies[b]
  BY <1>3, <1>4 DEF OpenedAnomaly, IInv, TypeOK
<1>6. IF alerts[l].status = "ABSENT"
      THEN \A m \in AlertIds : alerts[m].status \in ActiveAlert => alerts[m].key # k
      ELSE alerts[l].key = k
  BY <1>4 DEF IInv, AlertRows, ActiveAlert
<1>7. CASE /\ ~tx[w].escalate
           /\ alerts' = [alerts EXCEPT ![l] = RefreshedAlert(l, a, k)]
           /\ UNCHANGED incidents
  <2>1. /\ alerts'[l].key = k
        /\ IF alerts[l].status = "ABSENT"
           THEN alerts'[l].status = "OPEN" ELSE alerts'[l] = alerts[l]
        /\ \A m \in AlertIds \ {l} : alerts'[m] = alerts[m]
    BY <1>4, <1>7 DEF RefreshedAlert, ActiveAlert, IInv, TypeOK
  <2> QED BY <1>1, <1>4, <1>5, <1>6, <1>7, <2>1 DEF ActiveAlert
<1>8. CASE /\ tx[w].escalate
           /\ \E i \in IncidentFor(found) :
                 /\ incidents' = EnsureIncident(i, found, k, l)
                 /\ alerts' = [alerts EXCEPT ![l] = EscalatedAlert(l, a, k, i)]
  <2>1. PICK i \in IncidentFor(found) :
           /\ incidents' = EnsureIncident(i, found, k, l)
           /\ alerts' = [alerts EXCEPT ![l] = EscalatedAlert(l, a, k, i)]
    BY <1>8
  <2>2. /\ i \in IncidentIds /\ incidents[i].alert = NoId
        /\ IF found = NoId THEN incidents[i].status = "ABSENT"
           ELSE incidents[i].status # "ABSENT" /\ incidents[i].key = k
    BY <1>1, <2>1 DEF IInv, TxKnows, IncidentRows, IncidentFor, Fresh, TxState
  <2>3. \A m \in AlertIds : alerts[m].key = k => alerts[m].status # "ESCALATED"
    BY <1>1, <1>8 DEF IInv, TxKnows
  <2>4. alerts[l] \in AlertRow /\ incidents[i] \in IncidentRow
    BY <1>4, <2>2 DEF IInv, TypeOK
  <2>5. /\ alerts'[l].status = "ESCALATED" /\ alerts'[l].key = k /\ alerts'[l].incident = i
        /\ \A m \in AlertIds \ {l} : alerts'[m] = alerts[m]
    BY <1>4, <2>1, <2>4
    DEF EscalatedAlert, RefreshedAlert, AlertRow, ActiveAlert, IInv, TypeOK
  <2>6. /\ incidents'[i].key = k
        /\ IF found = NoId THEN incidents'[i].status = "OPEN"
           ELSE incidents'[i].status = incidents[i].status
        /\ \A j \in IncidentIds \ {i} : incidents'[j] = incidents[j]
    BY <2>1, <2>2, <2>4 DEF EnsureIncident, AutoOpened, Adopted, IncidentRow, IInv, TypeOK
  <2>7. alerts[l].status # "ESCALATED"
    BY <1>4, <2>3
  <2> HIDE DEF k, found
  <2>8. \E j \in IncidentIds :
           /\ alerts'[l].incident = j
           /\ incidents[j].alert = NoId
           /\ incidents'[j].key = k
           /\ \/ incidents[j].status = "ABSENT" /\ incidents'[j].status = "OPEN"
              \/ /\ incidents[j].status # "ABSENT" /\ incidents[j].key = k
                 /\ incidents'[j].status = incidents[j].status
           /\ \A n \in IncidentIds \ {j} : incidents'[n] = incidents[n]
    BY <2>2, <2>5, <2>6
  <2> QED BY <1>1, <1>4, <1>5, <1>6, <2>5, <2>7, <2>8 DEF ActiveAlert
<1> QED BY <1>3, <1>7, <1>8

\* CommitResolve ends the open anomaly, the active alerts and the linked active
\* incidents of one key, and nothing else.
LEMMA CommitResolveEffect ==
  ASSUME IInv, NEW w \in Workers, CommitResolve(w)
  PROVE  \E k \in Keys :
           /\ \A a \in AnomalyIds :
                 IF anomalies[a].status = "OPEN" /\ anomalies[a].key = k
                 THEN anomalies'[a].status = "RESOLVED" ELSE anomalies'[a] = anomalies[a]
           /\ \A l \in AlertIds :
                 IF alerts[l].status \in ActiveAlert /\ alerts[l].key = k
                 THEN alerts'[l].status = "RESOLVED" ELSE alerts'[l] = alerts[l]
           /\ \A i \in IncidentIds :
                 IF /\ incidents[i].status \in ActiveIncident
                    /\ incidents[i].alert # NoId
                    /\ incidents[i].key = k
                 THEN incidents'[i].status = "RESOLVED" /\ incidents'[i].key = incidents[i].key
                 ELSE incidents'[i] = incidents[i]
<1> DEFINE k == tx[w].key
           L == tx[w].locked
<1>1. /\ tx[w].kind = "resolve" /\ tx[w].pc = "commit" /\ k \in Keys
      /\ L \subseteq IncidentIds
  BY DEF IInv, TypeOK, TxState, TxShape, CommitResolve
<1>2. \A i \in IncidentIds :
          i \in L <=> /\ incidents[i].status \in ActiveIncident
                      /\ incidents[i].alert # NoId
                      /\ incidents[i].key = k
  BY <1>1 DEF IInv, TxKnows
<1>3. ActiveAlertsFor(k) = {l \in AlertIds : alerts[l].status \in ActiveAlert /\ alerts[l].key = k}
  BY <1>1, ActiveAlertsByKey DEF IInv
<1>4. \A a \in AnomalyIds :
         IF anomalies[a].status = "OPEN" /\ anomalies[a].key = k
         THEN anomalies'[a].status = "RESOLVED" ELSE anomalies'[a] = anomalies[a]
  BY DEF CommitResolve, ResolvedAnomalies, OpenAnomalies, IInv, TypeOK, AnomalyRow
<1>5. \A l \in AlertIds :
         IF alerts[l].status \in ActiveAlert /\ alerts[l].key = k
         THEN alerts'[l].status = "RESOLVED" ELSE alerts'[l] = alerts[l]
  BY <1>3 DEF CommitResolve, ResolvedAlerts, IInv, TypeOK, AlertRow
<1>6. \A i \in IncidentIds :
         IF i \in L
         THEN incidents'[i].status = "RESOLVED" /\ incidents'[i].key = incidents[i].key
         ELSE incidents'[i] = incidents[i]
  BY DEF CommitResolve, ResolvedIncidents, IInv, TypeOK, IncidentRow
<1> HIDE DEF k, L
<1> QED BY <1>1, <1>2, <1>4, <1>5, <1>6

\* A report puts one new incident of its key on the desk.
LEMMA ReportIncidentEffect ==
  ASSUME IInv, NEW k \in Keys, ReportIncident(k)
  PROVE  \E i \in IncidentIds :
           /\ incidents[i].status = "ABSENT"
           /\ incidents'[i].status = "OPEN" /\ incidents'[i].key = k
           /\ \A j \in IncidentIds \ {i} : incidents'[j] = incidents[j]
           /\ UNCHANGED <<anomalies, alerts>>
  BY DEF ReportIncident, Fresh, NoIncident, IInv, TypeOK

\* An operator's action changes the status of one active incident, if at all.
LEMMA IncidentActionEffect ==
  ASSUME IInv, NEW i \in IncidentIds, NEW action \in OperatorActions, IncidentAction(i, action)
  PROVE  /\ incidents[i].status \in ActiveIncident
         /\ \/ incidents'[i].status = incidents[i].status
            \/ incidents'[i].status \in {"IN_PROGRESS", "RESOLVED", "FALSE_ALARM"}
         /\ incidents'[i].key = incidents[i].key
         /\ \A j \in IncidentIds \ {i} : incidents'[j] = incidents[j]
         /\ UNCHANGED <<anomalies, alerts>>
<1>1. action \in AllowedActions /\ incidents[i] \in IncidentRow
  BY ActionsAssumption DEF IInv, TypeOK
<1>2. StatusAfter(action, incidents[i].status)
          \in {incidents[i].status, "IN_PROGRESS", "RESOLVED", "FALSE_ALARM"}
  BY <1>1 DEF StatusAfter, AllowedActions
<1>3. /\ incidents'[i].status = StatusAfter(action, incidents[i].status)
      /\ incidents'[i].key = incidents[i].key
      /\ \A j \in IncidentIds \ {i} : incidents'[j] = incidents[j]
  BY <1>1 DEF IncidentAction, IInv, TypeOK, IncidentRow
<1> QED BY <1>2, <1>3 DEF IncidentAction, Workable

\* No other step touches a status, a key or the link of an alert.
Aside == \/ \E w \in Workers :
               \/ \E k \in Keys, severity \in Severities : BeginOpen(w, k, severity)
               \/ SelectIncident(w) \/ LinkIncident(w)
               \/ \E k \in Keys : BeginResolve(w, k)
               \/ UpdateIncidents(w) \/ Rollback(w)
         \/ \E a \in AnomalyIds : AgeOut(a)
         \/ UNCHANGED vars

LEMMA AsideEffect ==
  ASSUME IInv, Aside
  PROVE  /\ UNCHANGED <<alerts, incidents>>
         /\ \A a \in AnomalyIds : anomalies'[a].status = anomalies[a].status
<1>1. CASE \E a \in AnomalyIds : AgeOut(a)
  BY <1>1 DEF AgeOut, IInv, TypeOK, AnomalyRow
<1>2. CASE UNCHANGED vars
  BY <1>2 DEF vars
<1> QED
  BY <1>1, <1>2
  DEF Aside, BeginOpen, SelectIncident, LinkIncident, BeginResolve, UpdateIncidents, Rollback,
      tables

\* Every step is one of the four that write what is shown, or is aside.
LEMMA StepCases ==
  ASSUME [Next]_vars
  PROVE  \/ \E w \in Workers : CommitOpen(w) \/ CommitResolve(w)
         \/ \E k \in Keys : ReportIncident(k)
         \/ \E i \in IncidentIds, action \in OperatorActions : IncidentAction(i, action)
         \/ Aside
  BY Zenon DEF Next, Worker, Desk, Aside

-----------------------------------------------------------------------------
(* Nothing goes back.                                                      *)

\* The order of the stages, as far as a step can need it.
LEMMA Stages ==
  /\ \A s \in AnomalyStatus : AnomalyStage[s] \in Nat
  /\ \A s \in AlertStatus : AlertStage[s] \in Nat
  /\ \A s \in IncidentStatus : IncidentStage[s] \in Nat
  /\ AnomalyStage["ABSENT"] < AnomalyStage["OPEN"]
  /\ AnomalyStage["OPEN"] < AnomalyStage["RESOLVED"]
  /\ AlertStage["ABSENT"] < AlertStage["OPEN"]
  /\ AlertStage["OPEN"] < AlertStage["ESCALATED"]
  /\ AlertStage["ESCALATED"] < AlertStage["RESOLVED"]
  /\ IncidentStage["ABSENT"] < IncidentStage["OPEN"]
  /\ IncidentStage["OPEN"] < IncidentStage["IN_PROGRESS"]
  /\ IncidentStage["IN_PROGRESS"] < IncidentStage["RESOLVED"]
  /\ IncidentStage["FALSE_ALARM"] = IncidentStage["RESOLVED"]
  BY DEF AnomalyStatus, AlertStatus, IncidentStatus, AnomalyStage, AlertStage, IncidentStage

\* NeverBackwards of one step.
NoStepBack ==
    /\ \A i \in IncidentIds :
          /\ IncidentStage[incidents[i].status] <= IncidentStage[incidents'[i].status]
          /\ incidents[i].status \in ClosedIncident
                 => incidents'[i].status = incidents[i].status
    /\ \A l \in AlertIds : AlertStage[alerts[l].status] <= AlertStage[alerts'[l].status]
    /\ \A a \in AnomalyIds :
          AnomalyStage[anomalies[a].status] <= AnomalyStage[anomalies'[a].status]

LEMMA StepNotBack == IInv /\ [Next]_vars => NoStepBack
<1> SUFFICES ASSUME IInv, [Next]_vars PROVE NoStepBack
  OBVIOUS
<1>t. /\ \A a \in AnomalyIds : anomalies[a].status \in AnomalyStatus
      /\ \A l \in AlertIds : alerts[l].status \in AlertStatus
      /\ \A i \in IncidentIds : incidents[i].status \in IncidentStatus
  BY DEF IInv, TypeOK, AnomalyRow, AlertRow, IncidentRow
<1>s. /\ \A a \in AnomalyIds : AnomalyStage[anomalies[a].status] <= AnomalyStage[anomalies[a].status]
      /\ \A l \in AlertIds : AlertStage[alerts[l].status] <= AlertStage[alerts[l].status]
      /\ \A i \in IncidentIds :
            IncidentStage[incidents[i].status] <= IncidentStage[incidents[i].status]
  BY <1>t, Stages
<1>1. ASSUME NEW w \in Workers, CommitOpen(w) PROVE NoStepBack
  <2>1. PICK k \in Keys, a \in AnomalyIds, l \in AlertIds :
           /\ anomalies[a].status \in {"ABSENT", "OPEN"} /\ anomalies'[a].status = "OPEN"
           /\ \A b \in AnomalyIds \ {a} : anomalies'[b] = anomalies[b]
           /\ alerts[l].status \in {"ABSENT", "OPEN", "ESCALATED"}
           /\ \A m \in AlertIds \ {l} : alerts'[m] = alerts[m]
           /\ \/ /\ IF alerts[l].status = "ABSENT"
                    THEN alerts'[l].status = "OPEN" ELSE alerts'[l] = alerts[l]
                 /\ incidents' = incidents
              \/ /\ alerts[l].status # "ESCALATED" /\ alerts'[l].status = "ESCALATED"
                 /\ \E i \in IncidentIds :
                       /\ \/ incidents[i].status = "ABSENT" /\ incidents'[i].status = "OPEN"
                          \/ incidents'[i].status = incidents[i].status
                       /\ \A j \in IncidentIds \ {i} : incidents'[j] = incidents[j]
    BY <1>1, CommitOpenEffect
  <2>2. \A i \in IncidentIds :
           \/ incidents[i].status = "ABSENT" /\ incidents'[i].status = "OPEN"
           \/ incidents'[i].status = incidents[i].status
    BY <2>1
  <2>3. \A m \in AlertIds :
           \/ alerts[m].status = "ABSENT" /\ alerts'[m].status \in {"OPEN", "ESCALATED"}
           \/ alerts[m].status = "OPEN" /\ alerts'[m].status = "ESCALATED"
           \/ alerts'[m].status = alerts[m].status
    BY <2>1
  <2>4. \A b \in AnomalyIds :
           \/ anomalies[b].status = "ABSENT" /\ anomalies'[b].status = "OPEN"
           \/ anomalies'[b].status = anomalies[b].status
    BY <2>1
  <2> QED
    BY <1>t, <1>s, <2>2, <2>3, <2>4, Stages
    DEF NoStepBack, ClosedIncident, AnomalyStage, AlertStage, IncidentStage
<1>2. ASSUME NEW w \in Workers, CommitResolve(w) PROVE NoStepBack
  <2>1. /\ \A a \in AnomalyIds :
              \/ anomalies[a].status = "OPEN" /\ anomalies'[a].status = "RESOLVED"
              \/ anomalies'[a].status = anomalies[a].status
        /\ \A l \in AlertIds :
              \/ alerts[l].status \in ActiveAlert /\ alerts'[l].status = "RESOLVED"
              \/ alerts'[l].status = alerts[l].status
        /\ \A i \in IncidentIds :
              \/ incidents[i].status \in ActiveIncident /\ incidents'[i].status = "RESOLVED"
              \/ incidents'[i].status = incidents[i].status
    BY <1>2, CommitResolveEffect
  <2> QED
    BY <1>t, <1>s, <2>1
    DEF NoStepBack, ClosedIncident, ActiveIncident, ActiveAlert, AnomalyStage, AlertStage,
        IncidentStage
<1>3. ASSUME NEW k \in Keys, ReportIncident(k) PROVE NoStepBack
  <2>1. /\ \A i \in IncidentIds :
              \/ incidents[i].status = "ABSENT" /\ incidents'[i].status = "OPEN"
              \/ incidents'[i].status = incidents[i].status
        /\ UNCHANGED <<anomalies, alerts>>
    BY <1>3, ReportIncidentEffect
  <2> QED BY <1>t, <1>s, <2>1 DEF NoStepBack, ClosedIncident, IncidentStage
<1>4. ASSUME NEW i \in IncidentIds, NEW action \in OperatorActions, IncidentAction(i, action)
      PROVE  NoStepBack
  <2>1. /\ \A j \in IncidentIds :
              \/ /\ incidents[j].status \in ActiveIncident
                 /\ incidents'[j].status \in {"IN_PROGRESS", "RESOLVED", "FALSE_ALARM"}
              \/ incidents'[j].status = incidents[j].status
        /\ UNCHANGED <<anomalies, alerts>>
    BY <1>4, IncidentActionEffect
  <2> QED
    BY <1>t, <1>s, <2>1 DEF NoStepBack, ClosedIncident, ActiveIncident, IncidentStage
<1>5. CASE Aside
  BY <1>5, <1>s, AsideEffect DEF NoStepBack
<1> QED BY <1>1, <1>2, <1>3, <1>4, <1>5, StepCases

\* No step of engine, operators or citizens takes an incident, an alert or an
\* anomaly back to an earlier stage or reopens a closed incident.
THEOREM NothingGoesBack == Spec => NeverBackwards
<1>1. IInv /\ [Next]_vars => NoStepBack
  BY StepNotBack
<1>2. NeverBackwards <=> [][NoStepBack]_vars
  BY PTL DEF NeverBackwards, NoStepBack
<1> QED BY <1>1, <1>2, Invariance, PTL DEF Spec

-----------------------------------------------------------------------------
(* The lifecycle implements the case file.                                 *)

CaseRow == [phase: {"QUIET", "ALERTED", "ESCALATED"}, incident: IncidentIds \cup {NoId}]

\* A key's case read off its active alert, of which there is at most one.
CaseByAlert ==
    /\ CaseOf \in [Keys -> CaseRow]
    /\ DeskOf = [i \in IncidentIds |-> [status |-> incidents[i].status, key |-> incidents[i].key]]
    /\ \A k \in Keys :
          (\A l \in AlertIds : alerts[l].status \in ActiveAlert => alerts[l].key # k)
              => CaseOf[k] = [phase |-> "QUIET", incident |-> NoId]
    /\ \A k \in Keys, l \in AlertIds :
          /\ alerts[l].key = k /\ alerts[l].status = "OPEN"
                => CaseOf[k] = [phase |-> "ALERTED", incident |-> NoId]
          /\ alerts[l].key = k /\ alerts[l].status = "ESCALATED"
                => CaseOf[k] = [phase |-> "ESCALATED", incident |-> alerts[l].incident]
    /\ \A l, m \in AlertIds :
          /\ alerts[l].status \in ActiveAlert /\ alerts[m].status \in ActiveAlert
          /\ alerts[l].key = alerts[m].key
          => l = m

LEMMA CaseIsAlert == IInv => CaseByAlert
<1> SUFFICES ASSUME IInv PROVE CaseByAlert
  OBVIOUS
<1>1. \A k \in Keys : ActiveAlertsFor(k) =
             {l \in AlertIds : alerts[l].status \in ActiveAlert /\ alerts[l].key = k}
  BY ActiveAlertsByKey DEF IInv
<1>2. \A l, m \in AlertIds :
          /\ alerts[l].status \in ActiveAlert /\ alerts[m].status \in ActiveAlert
          /\ alerts[l].key = alerts[m].key
          => l = m
  BY DEF IInv, AlertRows, OneOpenAnomalyPerKey
<1>3. ASSUME NEW k \in Keys,
             \A l \in AlertIds : alerts[l].status \in ActiveAlert => alerts[l].key # k
      PROVE  PhaseOf(k) = "QUIET" /\ IncidentOf(k) = NoId
  BY <1>1, <1>3 DEF PhaseOf, IncidentOf, AlreadyEscalated
<1>4. ASSUME NEW k \in Keys, NEW l \in AlertIds,
             alerts[l].key = k, alerts[l].status = "OPEN"
      PROVE  PhaseOf(k) = "ALERTED" /\ IncidentOf(k) = NoId
  <2>1. l \in ActiveAlertsFor(k)
    BY <1>1, <1>4 DEF ActiveAlert
  <2>2. \A m \in ActiveAlertsFor(k) : m = l
    BY <1>1, <1>2, <1>4, <2>1
  <2> QED BY <1>4, <2>1, <2>2 DEF PhaseOf, IncidentOf, AlreadyEscalated
<1>5. ASSUME NEW k \in Keys, NEW l \in AlertIds,
             alerts[l].key = k, alerts[l].status = "ESCALATED"
      PROVE  PhaseOf(k) = "ESCALATED" /\ IncidentOf(k) = alerts[l].incident
  <2>1. l \in ActiveAlertsFor(k)
    BY <1>1, <1>5 DEF ActiveAlert
  <2>2. \A m \in ActiveAlertsFor(k) : m = l
    BY <1>1, <1>2, <1>5, <2>1
  <2>3. (CHOOSE m \in ActiveAlertsFor(k) : alerts[m].status = "ESCALATED") = l
    BY <1>5, <2>1, <2>2
  <2> QED BY <1>5, <2>1, <2>3 DEF PhaseOf, IncidentOf, AlreadyEscalated
<1>6. \A k \in Keys : PhaseOf(k) \in {"QUIET", "ALERTED", "ESCALATED"}
                       /\ IncidentOf(k) \in IncidentIds \cup {NoId}
  <2> SUFFICES ASSUME NEW k \in Keys
      PROVE PhaseOf(k) \in {"QUIET", "ALERTED", "ESCALATED"}
            /\ IncidentOf(k) \in IncidentIds \cup {NoId}
    OBVIOUS
  <2>1. \A l \in AlertIds : alerts[l].incident \in IncidentIds \cup {NoId}
    BY DEF IInv, TypeOK, AlertRow
  <2>2. CASE \A l \in AlertIds : alerts[l].status \in ActiveAlert => alerts[l].key # k
    BY <2>2, <1>3
  <2>3. CASE \E l \in AlertIds : alerts[l].status \in ActiveAlert /\ alerts[l].key = k
    BY <2>1, <2>3, <1>4, <1>5 DEF ActiveAlert
  <2> QED BY <2>2, <2>3
<1>7. /\ CaseOf \in [Keys -> CaseRow]
      /\ \A k \in Keys : CaseOf[k] = [phase |-> PhaseOf(k), incident |-> IncidentOf(k)]
  BY <1>6 DEF CaseOf, CaseRow
<1> QED BY <1>2, <1>3, <1>4, <1>5, <1>7 DEF CaseByAlert, DeskOf

\* The same of the next state.
LEMMA CaseIsAlertNext == IInv' => CaseByAlert'
  BY CaseIsAlert, PTL

\* The empty tables show a quiet case file.
LEMMA InitCases == Init => Cases!Init
<1> SUFFICES ASSUME Init PROVE Cases!Init
  OBVIOUS
<1>1. /\ \A l \in AlertIds : alerts[l].status = "ABSENT"
      /\ \A i \in IncidentIds : incidents[i] = NoIncident
  BY DEF Init, NoAlert
<1>2. CaseByAlert
  BY InitInv, CaseIsAlert
<1>3. \A k \in Keys : CaseOf[k] = [phase |-> "QUIET", incident |-> NoId]
  BY <1>1, <1>2 DEF CaseByAlert, ActiveAlert
<1>4. CaseOf = [k \in Keys |-> Cases!Quiet]
  BY <1>2, <1>3 DEF CaseByAlert, Cases!Quiet
<1>5. DeskOf = [i \in IncidentIds |-> Cases!NotOnDesk]
  BY <1>1 DEF DeskOf, NoIncident, Cases!NotOnDesk
<1> QED BY <1>4, <1>5 DEF Cases!Init

\* A step that leaves the active alerts of a key alone leaves its case alone.
LEMMA SameCase ==
  ASSUME CaseByAlert, CaseByAlert', NEW k \in Keys,
         \A l \in AlertIds :
            \/ alerts[l].status \in ActiveAlert /\ alerts[l].key = k
            \/ alerts'[l].status \in ActiveAlert /\ alerts'[l].key = k
            => alerts'[l] = alerts[l]
  PROVE  CaseOf'[k] = CaseOf[k]
<1>1. CASE \A l \in AlertIds : alerts[l].status \in ActiveAlert => alerts[l].key # k
  <2>1. \A l \in AlertIds : alerts'[l].status \in ActiveAlert => alerts'[l].key # k
    BY <1>1
  <2> QED BY <1>1, <2>1 DEF CaseByAlert
<1>2. CASE \E l \in AlertIds : alerts[l].status \in ActiveAlert /\ alerts[l].key = k
  <2>1. PICK l \in AlertIds : alerts[l].status \in ActiveAlert /\ alerts[l].key = k
    BY <1>2
  <2>2. alerts'[l] = alerts[l]
    BY <2>1
  <2>3. CASE alerts[l].status = "OPEN"
    BY <2>1, <2>2, <2>3 DEF CaseByAlert
  <2>4. CASE alerts[l].status = "ESCALATED"
    BY <2>1, <2>2, <2>4 DEF CaseByAlert
  <2> QED BY <2>1, <2>3, <2>4 DEF ActiveAlert
<1> QED BY <1>1, <1>2

\* In particular, a step that leaves the alerts alone leaves every case alone.
LEMMA SameAlertsSameCases ==
  ASSUME IInv, IInv', UNCHANGED alerts
  PROVE  CaseOf' = CaseOf
<1>1. CaseByAlert /\ CaseByAlert'
  BY CaseIsAlert, CaseIsAlertNext
<1>2. \A k \in Keys : CaseOf'[k] = CaseOf[k]
  BY <1>1, SameCase
<1> QED BY <1>1, <1>2 DEF CaseByAlert

\* An incident no alert names is held by no case.
LEMMA UnlinkedIsNotHeld ==
  ASSUME IInv, NEW i \in IncidentIds, incidents[i].alert = NoId
  PROVE  ~Cases!Held(i)
<1> SUFFICES ASSUME NEW k \in Keys, CaseOf[k].incident = i PROVE FALSE
  BY DEF Cases!Held
<1>1. CaseByAlert
  BY CaseIsAlert
<1>2. PICK l \in AlertIds : alerts[l].status \in ActiveAlert /\ alerts[l].key = k
  <2>1. CaseOf[k] # [phase |-> "QUIET", incident |-> NoId]
    BY IdsAreNotNull
  <2> QED BY <1>1, <2>1 DEF CaseByAlert
<1>3. alerts[l].status = "ESCALATED" /\ alerts[l].incident = i
  BY <1>1, <1>2, IdsAreNotNull DEF CaseByAlert, ActiveAlert
<1> QED BY <1>3, IdsAreNotNull DEF IInv, EscalationLinksBack

\* CommitOpen tells somebody of a quiet case, escalates it, or shows nothing new.
LEMMA CommitOpenCases ==
  ASSUME IInv, IInv', NEW w \in Workers, CommitOpen(w)
  PROVE  \/ \E k \in Keys : Cases!Alert(k)
         \/ \E k \in Keys, i \in IncidentIds : Cases!Escalate(k, i)
         \/ UNCHANGED <<CaseOf, DeskOf>>
<1>1. CaseByAlert /\ CaseByAlert'
  BY CaseIsAlert, CaseIsAlertNext
<1>2. PICK k \in Keys, l \in AlertIds :
         /\ alerts[l].status \in {"ABSENT", "OPEN", "ESCALATED"}
         /\ alerts'[l].key = k
         /\ IF alerts[l].status = "ABSENT"
            THEN \A m \in AlertIds : alerts[m].status \in ActiveAlert => alerts[m].key # k
            ELSE alerts[l].key = k
         /\ \A m \in AlertIds \ {l} : alerts'[m] = alerts[m]
         /\ \/ /\ IF alerts[l].status = "ABSENT"
                  THEN alerts'[l].status = "OPEN" ELSE alerts'[l] = alerts[l]
               /\ incidents' = incidents
            \/ /\ alerts[l].status # "ESCALATED" /\ alerts'[l].status = "ESCALATED"
               /\ \E i \in IncidentIds :
                     /\ alerts'[l].incident = i
                     /\ incidents[i].alert = NoId
                     /\ incidents'[i].key = k
                     /\ \/ incidents[i].status = "ABSENT" /\ incidents'[i].status = "OPEN"
                        \/ /\ incidents[i].status # "ABSENT" /\ incidents[i].key = k
                           /\ incidents'[i].status = incidents[i].status
                     /\ \A j \in IncidentIds \ {i} : incidents'[j] = incidents[j]
  BY CommitOpenEffect
<1>3. \A j \in Keys \ {k} : CaseOf'[j] = CaseOf[j]
  <2> SUFFICES ASSUME NEW j \in Keys \ {k} PROVE CaseOf'[j] = CaseOf[j]
    OBVIOUS
  <2>1. \A m \in AlertIds :
           \/ alerts[m].status \in ActiveAlert /\ alerts[m].key = j
           \/ alerts'[m].status \in ActiveAlert /\ alerts'[m].key = j
           => alerts'[m] = alerts[m]
    BY <1>2 DEF ActiveAlert
  <2> QED BY <1>1, <2>1, SameCase
<1>4. CaseOf \in [Keys -> CaseRow] /\ CaseOf' \in [Keys -> CaseRow]
  BY <1>1 DEF CaseByAlert
<1>5. /\ alerts[l].status = "ABSENT" => CaseOf[k] = [phase |-> "QUIET", incident |-> NoId]
      /\ alerts[l].status = "OPEN" => CaseOf[k] = [phase |-> "ALERTED", incident |-> NoId]
  BY <1>1, <1>2 DEF CaseByAlert
<1>6. CASE /\ IF alerts[l].status = "ABSENT"
              THEN alerts'[l].status = "OPEN" ELSE alerts'[l] = alerts[l]
           /\ incidents' = incidents
  <2>1. DeskOf' = DeskOf
    BY <1>6 DEF DeskOf
  <2>2. CASE alerts[l].status = "ABSENT"
    <3>1. CaseOf'[k] = [phase |-> "ALERTED", incident |-> NoId]
      BY <1>1, <1>2, <1>6, <2>2 DEF CaseByAlert
    <3>2. CaseOf' = [CaseOf EXCEPT ![k].phase = "ALERTED"]
      BY <1>3, <1>4, <1>5, <2>2, <3>1
    <3>3. Cases!Alert(k)
      BY <1>5, <2>1, <2>2, <3>2 DEF Cases!Alert
    <3> QED BY <3>3
  <2>3. CASE alerts[l].status # "ABSENT"
    <3>1. \A m \in AlertIds : alerts'[m] = alerts[m]
      BY <1>2, <1>6, <2>3
    <3>2. CaseOf'[k] = CaseOf[k]
      BY <1>1, <3>1, SameCase
    <3>3. CaseOf' = CaseOf
      BY <1>3, <1>4, <3>2
    <3> QED BY <2>1, <3>3
  <2> QED BY <2>2, <2>3
<1>7. ASSUME alerts[l].status # "ESCALATED", alerts'[l].status = "ESCALATED",
             NEW i \in IncidentIds,
             alerts'[l].incident = i,
             incidents[i].alert = NoId,
             incidents'[i].key = k,
             \/ incidents[i].status = "ABSENT" /\ incidents'[i].status = "OPEN"
             \/ /\ incidents[i].status # "ABSENT" /\ incidents[i].key = k
                /\ incidents'[i].status = incidents[i].status,
             \A j \in IncidentIds \ {i} : incidents'[j] = incidents[j]
      PROVE  Cases!Escalate(k, i)
  <2>1. CaseOf'[k] = [phase |-> "ESCALATED", incident |-> i]
    BY <1>1, <1>2, <1>7 DEF CaseByAlert
  <2>2. CaseOf' = [CaseOf EXCEPT ![k] = [phase |-> "ESCALATED", incident |-> i]]
    BY <1>3, <1>4, <2>1
  <2>3. CaseOf[k].phase # "ESCALATED"
    BY <1>2, <1>5, <1>7
  <2>4. ~Cases!Held(i)
    BY <1>7, UnlinkedIsNotHeld
  <2>5. DeskOf[i].status = incidents[i].status /\ DeskOf[i].key = incidents[i].key
    BY DEF DeskOf
  <2>6. \/ DeskOf[i].status = "ABSENT" /\ DeskOf' = [DeskOf EXCEPT ![i] = [status |-> "OPEN", key |-> k]]
        \/ DeskOf[i].status # "ABSENT" /\ DeskOf[i].key = k /\ DeskOf' = DeskOf
    BY <1>7, <2>5 DEF DeskOf
  <2> QED BY <2>2, <2>3, <2>4, <2>6 DEF Cases!Escalate
<1> QED BY <1>2, <1>6, <1>7

\* CommitResolve clears the case of its key, or had nothing to clear.
LEMMA CommitResolveCases ==
  ASSUME IInv, IInv', NEW w \in Workers, CommitResolve(w)
  PROVE  (\E k \in Keys : Cases!Clear(k)) \/ UNCHANGED <<CaseOf, DeskOf>>
<1>1. CaseByAlert /\ CaseByAlert'
  BY CaseIsAlert, CaseIsAlertNext
<1>2. PICK k \in Keys :
         /\ \A l \in AlertIds :
               IF alerts[l].status \in ActiveAlert /\ alerts[l].key = k
               THEN alerts'[l].status = "RESOLVED" ELSE alerts'[l] = alerts[l]
         /\ \A i \in IncidentIds :
               IF /\ incidents[i].status \in ActiveIncident
                  /\ incidents[i].alert # NoId
                  /\ incidents[i].key = k
               THEN incidents'[i].status = "RESOLVED" /\ incidents'[i].key = incidents[i].key
               ELSE incidents'[i] = incidents[i]
  BY CommitResolveEffect
<1>3. CaseOf \in [Keys -> CaseRow] /\ CaseOf' \in [Keys -> CaseRow]
  BY <1>1 DEF CaseByAlert
<1>4. \A j \in Keys \ {k} : CaseOf'[j] = CaseOf[j]
  <2> SUFFICES ASSUME NEW j \in Keys \ {k} PROVE CaseOf'[j] = CaseOf[j]
    OBVIOUS
  <2>1. \A m \in AlertIds :
           \/ alerts[m].status \in ActiveAlert /\ alerts[m].key = j
           \/ alerts'[m].status \in ActiveAlert /\ alerts'[m].key = j
           => alerts'[m] = alerts[m]
    BY <1>2 DEF ActiveAlert
  <2> QED BY <1>1, <2>1, SameCase
<1>5. CaseOf'[k] = [phase |-> "QUIET", incident |-> NoId]
  <2>1. \A l \in AlertIds : alerts'[l].status \in ActiveAlert => alerts'[l].key # k
    BY <1>2 DEF ActiveAlert
  <2> QED BY <1>1, <2>1 DEF CaseByAlert
<1>6. CaseOf' = [CaseOf EXCEPT ![k] = Cases!Quiet]
  BY <1>3, <1>4, <1>5 DEF Cases!Quiet
\* The incidents that end are those the case is escalated to.
<1>7. \A i \in IncidentIds :
         /\ incidents[i].status \in ActiveIncident
         /\ incidents[i].alert # NoId
         /\ incidents[i].key = k
         <=> i = CaseOf[k].incident /\ incidents[i].status \in ActiveIncident
  <2> SUFFICES ASSUME NEW i \in IncidentIds, incidents[i].status \in ActiveIncident
      PROVE incidents[i].alert # NoId /\ incidents[i].key = k <=> i = CaseOf[k].incident
    OBVIOUS
  <2>1. ASSUME incidents[i].alert # NoId, incidents[i].key = k PROVE i = CaseOf[k].incident
    <3>1. /\ incidents[i].alert \in AlertIds
          /\ alerts[incidents[i].alert].status = "ESCALATED"
          /\ alerts[incidents[i].alert].incident = i
      BY <2>1 DEF IInv, TypeOK, IncidentRow, NoStaleIncident
    <3>2. alerts[incidents[i].alert].key = k
      BY <2>1, <3>1 DEF IInv, EscalationLinksBack
    <3> QED BY <1>1, <3>1, <3>2 DEF CaseByAlert
  <2>2. ASSUME i = CaseOf[k].incident PROVE incidents[i].alert # NoId /\ incidents[i].key = k
    <3>1. PICK l \in AlertIds : alerts[l].status \in ActiveAlert /\ alerts[l].key = k
      <4>1. CaseOf[k] # [phase |-> "QUIET", incident |-> NoId]
        BY <2>2, IdsAreNotNull
      <4> QED BY <1>1, <4>1 DEF CaseByAlert
    <3>2. alerts[l].status = "ESCALATED" /\ alerts[l].incident = i
      BY <1>1, <2>2, <3>1, IdsAreNotNull DEF CaseByAlert, ActiveAlert
    <3> QED BY <3>1, <3>2, IdsAreNotNull DEF IInv, EscalationLinksBack
  <2> QED BY <2>1, <2>2
<1>8. \A i \in IncidentIds :
         DeskOf'[i] = IF i = CaseOf[k].incident /\ DeskOf[i].status \in Cases!Active
                      THEN [DeskOf[i] EXCEPT !.status = "RESOLVED"]
                      ELSE DeskOf[i]
  BY <1>2, <1>7 DEF DeskOf, Cases!Active, ActiveIncident
<1>9. DeskOf' = [i \in IncidentIds |->
                    IF i = CaseOf[k].incident /\ DeskOf[i].status \in Cases!Active
                    THEN [DeskOf[i] EXCEPT !.status = "RESOLVED"]
                    ELSE DeskOf[i]]
  <2>1. DeskOf' = [i \in IncidentIds |-> DeskOf'[i]]
    BY DEF DeskOf
  <2> QED BY <1>8, <2>1
<1>10. CASE CaseOf[k].phase # "QUIET"
  BY <1>6, <1>9, <1>10 DEF Cases!Clear
<1>11. CASE CaseOf[k].phase = "QUIET"
  <2>1. \A l \in AlertIds : alerts[l].status \in ActiveAlert => alerts[l].key # k
    BY <1>1, <1>11 DEF CaseByAlert, ActiveAlert
  <2>2. CaseOf[k] = [phase |-> "QUIET", incident |-> NoId]
    BY <1>1, <2>1 DEF CaseByAlert
  <2>3. CaseOf' = CaseOf
    BY <1>3, <1>4, <1>5, <2>2
  <2>4. \A i \in IncidentIds : incidents'[i] = incidents[i]
    BY <1>2, <1>7, <2>2, IdsAreNotNull
  <2>5. DeskOf' = DeskOf
    BY <2>4 DEF DeskOf
  <2> QED BY <2>3, <2>5
<1> QED BY <1>10, <1>11

\* A report is put on the desk and touches no case.
LEMMA ReportIncidentCases ==
  ASSUME IInv, IInv', NEW k \in Keys, ReportIncident(k)
  PROVE  \E i \in IncidentIds : Cases!Report(k, i)
<1>1. PICK i \in IncidentIds :
         /\ incidents[i].status = "ABSENT"
         /\ incidents'[i].status = "OPEN" /\ incidents'[i].key = k
         /\ \A j \in IncidentIds \ {i} : incidents'[j] = incidents[j]
         /\ UNCHANGED <<anomalies, alerts>>
  BY ReportIncidentEffect
<1>2. CaseOf' = CaseOf
  BY <1>1, SameAlertsSameCases
<1>3. DeskOf[i].status = "ABSENT"
  BY <1>1 DEF DeskOf
<1>4. DeskOf' = [DeskOf EXCEPT ![i] = [status |-> "OPEN", key |-> k]]
  BY <1>1 DEF DeskOf
<1> QED BY <1>2, <1>3, <1>4 DEF Cases!Report

\* An operator's action is work on the desk, or a proof that changes no status.
LEMMA IncidentActionCases ==
  ASSUME IInv, IInv', NEW i \in IncidentIds, NEW action \in OperatorActions,
         IncidentAction(i, action)
  PROVE  \/ \E status \in {"IN_PROGRESS", "RESOLVED", "FALSE_ALARM"} : Cases!Work(i, status)
         \/ UNCHANGED <<CaseOf, DeskOf>>
<1>1. /\ incidents[i].status \in ActiveIncident
      /\ \/ incidents'[i].status = incidents[i].status
         \/ incidents'[i].status \in {"IN_PROGRESS", "RESOLVED", "FALSE_ALARM"}
      /\ incidents'[i].key = incidents[i].key
      /\ \A j \in IncidentIds \ {i} : incidents'[j] = incidents[j]
      /\ UNCHANGED <<anomalies, alerts>>
  BY IncidentActionEffect
<1>2. CaseOf' = CaseOf
  BY <1>1, SameAlertsSameCases
<1>3. DeskOf[i].status \in Cases!Active
  BY <1>1 DEF DeskOf, Cases!Active, ActiveIncident
<1>4. CASE incidents'[i].status = incidents[i].status
  <2>1. DeskOf' = DeskOf
    BY <1>1, <1>4 DEF DeskOf
  <2> QED BY <1>2, <2>1
<1>5. CASE incidents'[i].status \in {"IN_PROGRESS", "RESOLVED", "FALSE_ALARM"}
  <2>1. DeskOf' = [DeskOf EXCEPT ![i].status = incidents'[i].status]
    BY <1>1 DEF DeskOf
  <2> QED BY <1>2, <1>3, <1>5, <2>1 DEF Cases!Work
<1> QED BY <1>1, <1>4, <1>5

\* Every step of tables, transactions and desk is one step of the case file or none.
LEMMA StepIsCaseStep == IInv /\ IInv' /\ [Next]_vars => [Cases!Next]_Cases!vars
<1> SUFFICES ASSUME IInv, IInv', [Next]_vars PROVE [Cases!Next]_Cases!vars
  OBVIOUS
<1>1. ASSUME NEW w \in Workers, CommitOpen(w) PROVE [Cases!Next]_Cases!vars
  BY <1>1, CommitOpenCases DEF Cases!Next, Cases!vars
<1>2. ASSUME NEW w \in Workers, CommitResolve(w) PROVE [Cases!Next]_Cases!vars
  BY <1>2, CommitResolveCases DEF Cases!Next, Cases!vars
<1>3. ASSUME NEW k \in Keys, ReportIncident(k) PROVE [Cases!Next]_Cases!vars
  BY <1>3, ReportIncidentCases DEF Cases!Next
<1>4. ASSUME NEW i \in IncidentIds, NEW action \in OperatorActions, IncidentAction(i, action)
      PROVE  [Cases!Next]_Cases!vars
  BY <1>4, IncidentActionCases DEF Cases!Next, Cases!vars
<1>5. CASE Aside
  <2>1. UNCHANGED <<alerts, incidents>>
    BY <1>5, AsideEffect
  <2>2. CaseOf' = CaseOf
    BY <2>1, SameAlertsSameCases
  <2>3. DeskOf' = DeskOf
    BY <2>1 DEF DeskOf
  <2> QED BY <2>2, <2>3 DEF Cases!vars
<1> QED BY <1>1, <1>2, <1>3, <1>4, <1>5, StepCases

\* Transactions, locks, rollbacks and interleaved operators show nothing but whole
\* steps of the case file (openRuleLifecycle, resolveRuleLifecycle and the desk
\* together implement CaseFile).
THEOREM LifecycleImplementsCaseFile == Spec => ImplementsCaseFile
<1>1. Init => Cases!Init
  BY InitCases
<1>2. IInv /\ IInv' /\ [Next]_vars => [Cases!Next]_Cases!vars
  BY StepIsCaseStep
<1> QED BY <1>1, <1>2, Invariance, PTL DEF Spec, ImplementsCaseFile, Cases!Spec
=============================================================================
