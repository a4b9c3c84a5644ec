-------------------------- MODULE AnomalyLifecycle --------------------------
(***************************************************************************)
(* telemetry -> anomaly -> alert -> incident: the transactions with which  *)
(* the rules engine opens and resolves a (vehicle, rule) case              *)
(* (services/rules-engine/src/anomaly-lifecycle.js), interleaved with the  *)
(* operators who work on the incidents and the citizens' reports that      *)
(* create some of them (services/api-gateway/src).                         *)
(*                                                                         *)
(* A worker's transaction is a record in tx: what it has read and locked.  *)
(* Its writes reach the tables when it commits, as READ COMMITTED shows    *)
(* them to the others; a rollback forgets it.  anomalies and alerts are    *)
(* written by the engine alone, and one vehicle is in the hands of one     *)
(* worker, so only the statements that touch incidents are steps of their  *)
(* own.  Ids are handed out in insertion order; the Max constants bound    *)
(* the tables.                                                             *)
(***************************************************************************)
EXTENDS Naturals, FiniteSets

CONSTANTS
    Vehicles,               \* vehicle ids
    Rules,                  \* the rules the engine evaluates
    ReportRules,            \* the rules a citizen's report can be about
    Severities,             \* the severities the decisions may carry
    OperatorActions,        \* what the operators do with incidents
    Workers,                \* lifecycle transactions that may be in flight
    RepeatEscalationCount,  \* config.risk.repeatEscalationCount
    MaxAnomalies, MaxAlerts, MaxIncidents,
    NoId                    \* SQL NULL in an id column

\* allowedActions of POST /incidents/:id/actions
AllowedActions ==
    {"ACKNOWLEDGE", "ASSIGN", "RESOLVE", "FALSE_ALARM", "PROOF_UPLOAD", "ESCALATE"}

ASSUME TablesAssumption ==
    /\ MaxAnomalies \in Nat /\ MaxAlerts \in Nat /\ MaxIncidents \in Nat
    /\ NoId \notin Nat
    /\ ReportRules \subseteq Rules

ASSUME ActionsAssumption == OperatorActions \subseteq AllowedActions

Keys        == Vehicles \X Rules
AnomalyIds  == 1..MaxAnomalies
AlertIds    == 1..MaxAlerts
IncidentIds == 1..MaxIncidents

\* severityRank >= severityRank.HIGH
Severe == {"HIGH", "CRITICAL"}

VARIABLES
    anomalies,   \* anomaly rows: status, key, recent (started in the last 24 h)
    alerts,      \* alert rows: status, anomaly, key, incident
    incidents,   \* incident rows: status, key, alert, trail of action rows,
                 \* browser (number of BROWSER notification rows)
    scored,      \* anomalies with an ANOMALY row in risk_score_events
    tx           \* the transaction of each worker

tables == <<anomalies, alerts, incidents, scored>>
vars   == <<anomalies, alerts, incidents, scored, tx>>

-----------------------------------------------------------------------------
(* Rows                                                                    *)

AnomalyStatus  == {"ABSENT", "OPEN", "RESOLVED"}
AlertStatus    == {"ABSENT", "OPEN", "ESCALATED", "RESOLVED"}
IncidentStatus == {"ABSENT", "OPEN", "IN_PROGRESS", "RESOLVED", "FALSE_ALARM"}
ActiveAlert    == {"OPEN", "ESCALATED"}
ActiveIncident == {"OPEN", "IN_PROGRESS"}
ClosedIncident == {"RESOLVED", "FALSE_ALARM"}

ActionRows == AllowedActions \cup {"AUTO_OPEN", "AUTO_RESOLVE"}

NoAnomaly  == [status |-> "ABSENT", key |-> NoId, recent |-> FALSE]
NoAlert    == [status |-> "ABSENT", anomaly |-> NoId, key |-> NoId, incident |-> NoId]
NoIncident == [status |-> "ABSENT", key |-> NoId, alert |-> NoId, trail |-> {}, browser |-> 0]

IdleTx == [kind |-> "none", pc |-> "idle", key |-> NoId, escalate |-> FALSE,
           found |-> NoId, locked |-> {}]

\* gen_random_uuid: the next row of a table that nothing has used yet.
Fresh(table, Ids) ==
    {n \in Ids : /\ table[n].status = "ABSENT"
                 /\ \A m \in Ids : m < n => table[m].status # "ABSENT"}

OpenAnomalies(k) == {a \in AnomalyIds : anomalies[a].status = "OPEN" /\ anomalies[a].key = k}

ActiveAlertsOf(a) ==
    {l \in AlertIds : alerts[l].status \in ActiveAlert /\ alerts[l].anomaly = a}

ActiveAlertsFor(k) == UNION {ActiveAlertsOf(a) : a \in OpenAnomalies(k)}

Locked(i) == \E w \in Workers : i \in tx[w].locked

-----------------------------------------------------------------------------
(* Opening a case: openRuleLifecycle                                       *)

\* shouldEscalateAlert, asked after the anomaly of this transaction is in its
\* table: the count includes it.
RecentAnomalies(k) ==
    {a \in AnomalyIds : /\ anomalies[a].status # "ABSENT"
                        /\ anomalies[a].key = k
                        /\ anomalies[a].recent}

ShouldEscalateAlert(k, severity) ==
    \/ severity \in Severe
    \/ Cardinality(RecentAnomalies(k)) + (IF OpenAnomalies(k) = {} THEN 1 ELSE 0)
           >= RepeatEscalationCount

AlreadyEscalated(k) == \E l \in ActiveAlertsFor(k) : alerts[l].status = "ESCALATED"

\* Mutated AnomalyFor: the open anomaly is not looked for.
AnomalyForAlwaysNew(k) == Fresh(anomalies, AnomalyIds)

\* The anomaly and the alert the transaction writes: the active one or a new row.
AnomalyFor(k) ==
    IF OpenAnomalies(k) # {} THEN OpenAnomalies(k) ELSE Fresh(anomalies, AnomalyIds)

AlertFor(a) ==
    IF ActiveAlertsOf(a) # {} THEN ActiveAlertsOf(a) ELSE Fresh(alerts, AlertIds)

\* ensureIncident's SELECT: the alert's own incident, or an unlinked active one
\* of the same vehicle and type.
IncidentsFor(k) ==
    {i \in IncidentIds :
        \/ incidents[i].alert \in ActiveAlertsFor(k)
        \/ /\ incidents[i].alert = NoId
           /\ incidents[i].key = k
           /\ incidents[i].status \in ActiveIncident}

\* runWithConcurrency deals the vehicles of a batch to the workers and the rules
\* run one after the other: a vehicle is in one transaction at a time.
VehicleFree(w, k) ==
    \A u \in Workers \ {w} : tx[u].pc # "idle" => tx[u].key[1] # k[1]

\* BEGIN up to the decision to escalate: a decision to open k arrives.
BeginOpen(w, k, severity) ==
    /\ tx[w].pc = "idle"
    /\ VehicleFree(w, k)
    /\ LET escalate == ~AlreadyEscalated(k) /\ ShouldEscalateAlert(k, severity)
       IN  tx' = [tx EXCEPT ![w] =
                     [kind |-> "open", pc |-> IF escalate THEN "select" ELSE "commit",
                      key |-> k, escalate |-> escalate, found |-> NoId, locked |-> {}]]
    /\ UNCHANGED tables

\* ensureIncident's SELECT takes no lock.
SelectIncident(w) ==
    /\ tx[w].pc = "select"
    /\ \/ \E i \in IncidentsFor(tx[w].key) :
              tx' = [tx EXCEPT ![w].pc = "link", ![w].found = i]
       \/ /\ IncidentsFor(tx[w].key) = {}
          /\ tx' = [tx EXCEPT ![w].pc = "commit"]
    /\ UNCHANGED tables

\* UPDATE incidents SET alert_id = COALESCE(alert_id, ..): the row is locked
\* until the commit; its status is not looked at again.
LinkIncident(w) ==
    /\ tx[w].pc = "link"
    /\ ~Locked(tx[w].found)
    /\ tx' = [tx EXCEPT ![w].pc = "commit", ![w].locked = {tx[w].found}]
    /\ UNCHANGED tables

AutoOpened(k, l) ==
    [status |-> "OPEN", key |-> k, alert |-> l, trail |-> {"AUTO_OPEN"}, browser |-> 1]

\* Mutated Adopted: the adopted incident keeps its NULL alert_id.
AdoptedUnlinked(i, l) == [incidents[i] EXCEPT !.browser = IF @ = 0 THEN 1 ELSE @]

Adopted(i, l) ==
    [incidents[i] EXCEPT !.alert   = IF @ = NoId THEN l ELSE @,
                         !.browser = IF @ = 0 THEN 1 ELSE @]

\* The incident rows after ensureIncident: i is the incident it returns.
EnsureIncident(i, found, k, l) ==
    [incidents EXCEPT ![i] = IF found = NoId THEN AutoOpened(k, l) ELSE Adopted(i, l)]

IncidentFor(found) == IF found # NoId THEN {found} ELSE Fresh(incidents, IncidentIds)

\* An existing anomaly is refreshed (severity, position, evidence: not kept
\* here), a new one starts its 24 hours.
OpenedAnomaly(a, k) ==
    IF anomalies[a].status = "OPEN" THEN anomalies[a]
    ELSE [status |-> "OPEN", key |-> k, recent |-> TRUE]

\* applyRiskScoreForAnomaly's ledger row, for a new anomaly only.
ScoredWith(a) == IF anomalies[a].status = "OPEN" THEN scored ELSE scored \cup {a}

RefreshedAlert(l, a, k) ==
    IF alerts[l].status \in ActiveAlert THEN alerts[l]
    ELSE [status |-> "OPEN", anomaly |-> a, key |-> k, incident |-> NoId]

EscalatedAlert(l, a, k, i) ==
    [RefreshedAlert(l, a, k) EXCEPT !.status = "ESCALATED", !.incident = i]

CommitOpen(w) ==
    LET k == tx[w].key
    IN  /\ tx[w].kind = "open" /\ tx[w].pc = "commit"
        /\ \E a \in AnomalyFor(k) : \E l \in AlertFor(a) :
              /\ anomalies' = [anomalies EXCEPT ![a] = OpenedAnomaly(a, k)]
              /\ scored' = ScoredWith(a)
              /\ \/ /\ ~tx[w].escalate
                    /\ alerts' = [alerts EXCEPT ![l] = RefreshedAlert(l, a, k)]
                    /\ UNCHANGED incidents
                 \/ /\ tx[w].escalate
                    /\ \E i \in IncidentFor(tx[w].found) :
                          /\ incidents' = EnsureIncident(i, tx[w].found, k, l)
                          /\ alerts' = [alerts EXCEPT ![l] = EscalatedAlert(l, a, k, i)]
        /\ tx' = [tx EXCEPT ![w] = IdleTx]

-----------------------------------------------------------------------------
(* Resolving a case: resolveRuleLifecycle                                  *)

BeginResolve(w, k) ==
    /\ tx[w].pc = "idle"
    /\ VehicleFree(w, k)
    /\ tx' = [tx EXCEPT ![w] = [IdleTx EXCEPT !.kind = "resolve", !.pc = "update", !.key = k]]
    /\ UNCHANGED tables

\* Mutated IncidentsToResolve: status = 'OPEN' alone, as the documentation has it.
IncidentsToResolveOpenOnly(k) ==
    {i \in IncidentIds : /\ incidents[i].status = "OPEN"
                         /\ \E l \in ActiveAlertsFor(k) : alerts[l].incident = i}

\* Mutated IncidentsToResolve: no status predicate.
IncidentsToResolveAny(k) ==
    {i \in IncidentIds : \E l \in ActiveAlertsFor(k) : alerts[l].incident = i}

\* UPDATE incidents .. WHERE status IN ('OPEN', 'IN_PROGRESS'): evaluated on the
\* latest row, which stays locked until the commit.
IncidentsToResolve(k) ==
    {i \in IncidentIds : /\ incidents[i].status \in ActiveIncident
                         /\ \E l \in ActiveAlertsFor(k) : alerts[l].incident = i}

UpdateIncidents(w) ==
    /\ tx[w].pc = "update"
    /\ \A i \in IncidentsToResolve(tx[w].key) : ~Locked(i)
    /\ tx' = [tx EXCEPT ![w].pc = "commit", ![w].locked = IncidentsToResolve(tx[w].key)]
    /\ UNCHANGED tables

ResolvedAnomalies(k) ==
    [a \in AnomalyIds |-> IF a \in OpenAnomalies(k)
                          THEN [anomalies[a] EXCEPT !.status = "RESOLVED"]
                          ELSE anomalies[a]]

\* Mutated ResolvedAlerts: only status = 'OPEN' is resolved.
ResolvedAlertsOpenOnly(k) ==
    [l \in AlertIds |-> IF l \in ActiveAlertsFor(k) /\ alerts[l].status = "OPEN"
                        THEN [alerts[l] EXCEPT !.status = "RESOLVED"]
                        ELSE alerts[l]]

ResolvedAlerts(k) ==
    [l \in AlertIds |-> IF l \in ActiveAlertsFor(k)
                        THEN [alerts[l] EXCEPT !.status = "RESOLVED"]
                        ELSE alerts[l]]

ResolvedIncidents(locked) ==
    [i \in IncidentIds |-> IF i \in locked
                           THEN [incidents[i] EXCEPT !.status = "RESOLVED",
                                                     !.trail = @ \cup {"AUTO_RESOLVE"}]
                           ELSE incidents[i]]

CommitResolve(w) ==
    /\ tx[w].kind = "resolve" /\ tx[w].pc = "commit"
    /\ anomalies' = ResolvedAnomalies(tx[w].key)
    /\ alerts'    = ResolvedAlerts(tx[w].key)
    /\ incidents' = ResolvedIncidents(tx[w].locked)
    /\ tx' = [tx EXCEPT ![w] = IdleTx]
    /\ UNCHANGED scored

\* Any statement may fail, and the process may die: the transaction is gone.
Rollback(w) ==
    /\ tx[w].pc # "idle"
    /\ tx' = [tx EXCEPT ![w] = IdleTx]
    /\ UNCHANGED tables

-----------------------------------------------------------------------------
(* The other writers of incidents                                          *)

\* A citizen's report becomes an incident, by an operator or by the automated
\* review: one transaction that inserts an unlinked row.
ReportIncident(k) ==
    /\ k[2] \in ReportRules
    /\ \E i \in Fresh(incidents, IncidentIds) :
          incidents' = [incidents EXCEPT ![i] =
                           [NoIncident EXCEPT !.status = "OPEN", !.key = k, !.trail = {"ASSIGN"}]]
    /\ UNCHANGED <<anomalies, alerts, scored, tx>>

\* Mutated StatusAfter: a status the table does not know.
StatusAfterAcknowledged(action, status) ==
    CASE action \in {"ACKNOWLEDGE", "ASSIGN", "ESCALATE"} -> "ACKNOWLEDGED"
      [] action = "RESOLVE"      -> "RESOLVED"
      [] action = "FALSE_ALARM"  -> "FALSE_ALARM"
      [] action = "PROOF_UPLOAD" -> status

StatusAfter(action, status) ==
    CASE action \in {"ACKNOWLEDGE", "ASSIGN", "ESCALATE"} -> "IN_PROGRESS"
      [] action = "RESOLVE"      -> "RESOLVED"
      [] action = "FALSE_ALARM"  -> "FALSE_ALARM"
      [] action = "PROOF_UPLOAD" -> status

\* Mutated Workable: no 409 on a closed incident.
WorkableClosed(i) == ~Locked(i) /\ incidents[i].status # "ABSENT"

\* POST /incidents/:id/actions: SELECT .. FOR UPDATE, 409 on a closed incident.
Workable(i) == ~Locked(i) /\ incidents[i].status \in ActiveIncident

IncidentAction(i, action) ==
    /\ Workable(i)
    /\ incidents' = [incidents EXCEPT ![i].status = StatusAfter(action, @),
                                      ![i].trail  = @ \cup {action}]
    /\ UNCHANGED <<anomalies, alerts, scored, tx>>

\* 24 hours after its start an anomaly leaves the repeat count, oldest first.
AgeOut(a) ==
    /\ anomalies[a].recent
    /\ \A b \in AnomalyIds : b < a => ~anomalies[b].recent
    /\ anomalies' = [anomalies EXCEPT ![a].recent = FALSE]
    /\ UNCHANGED <<alerts, incidents, scored, tx>>

-----------------------------------------------------------------------------
Init ==
    /\ anomalies = [a \in AnomalyIds |-> NoAnomaly]
    /\ alerts    = [l \in AlertIds |-> NoAlert]
    /\ incidents = [i \in IncidentIds |-> NoIncident]
    /\ scored    = {}
    /\ tx        = [w \in Workers |-> IdleTx]

Worker(w) ==
    \/ \E k \in Keys, severity \in Severities : BeginOpen(w, k, severity)
    \/ SelectIncident(w)
    \/ LinkIncident(w)
    \/ CommitOpen(w)
    \/ \E k \in Keys : BeginResolve(w, k)
    \/ UpdateIncidents(w)
    \/ CommitResolve(w)
    \/ Rollback(w)

Desk ==
    \/ \E k \in Keys : ReportIncident(k)
    \/ \E i \in IncidentIds, action \in OperatorActions : IncidentAction(i, action)

Next ==
    \/ \E w \in Workers : Worker(w)
    \/ Desk
    \/ \E a \in AnomalyIds : AgeOut(a)

Spec == Init /\ [][Next]_vars

-----------------------------------------------------------------------------
(* Properties                                                              *)

AnomalyRow == [status: AnomalyStatus, key: Keys \cup {NoId}, recent: BOOLEAN]
AlertRow == [status: AlertStatus, anomaly: AnomalyIds \cup {NoId},
             key: Keys \cup {NoId}, incident: IncidentIds \cup {NoId}]
Verdicts == {"AUTO_RESOLVE", "RESOLVE", "FALSE_ALARM"}

AnomalyStage  == [ABSENT |-> 0, OPEN |-> 1, RESOLVED |-> 2]
AlertStage    == [ABSENT |-> 0, OPEN |-> 1, ESCALATED |-> 2, RESOLVED |-> 3]
IncidentStage ==
    [ABSENT |-> 0, OPEN |-> 1, IN_PROGRESS |-> 2, RESOLVED |-> 3, FALSE_ALARM |-> 3]

IncidentRow == [status: IncidentStatus, key: Keys \cup {NoId},
                alert: AlertIds \cup {NoId}, trail: SUBSET ActionRows, browser: {0, 1}]
TxState == [kind: {"none", "open", "resolve"},
            pc: {"idle", "select", "link", "update", "commit"},
            key: Keys \cup {NoId}, escalate: BOOLEAN,
            found: IncidentIds \cup {NoId}, locked: SUBSET IncidentIds]

\* The rows of every table and every transaction have their columns' types.
TypeOK ==
    /\ anomalies \in [AnomalyIds -> AnomalyRow]
    /\ alerts \in [AlertIds -> AlertRow]
    /\ incidents \in [IncidentIds -> IncidentRow]
    /\ scored \subseteq AnomalyIds
    /\ tx \in [Workers -> TxState]

\* A vehicle has at most one OPEN anomaly of a rule: the workers never run into
\* the unique index idx_anomalies_open_vehicle_rule.
OneOpenAnomalyPerKey ==
    \A a, b \in AnomalyIds :
        /\ anomalies[a].status = "OPEN" /\ anomalies[b].status = "OPEN"
        /\ anomalies[a].key = anomalies[b].key
        => a = b

\* An anomaly is OPEN exactly as long as one alert of it is active: neither an
\* open anomaly nobody is told of, nor an alert no resolve will ever reach
\* (resolveRuleLifecycle looks for alerts under OPEN anomalies only).
AlertLivesWithAnomaly ==
    /\ \A a \in AnomalyIds :
          anomalies[a].status = "OPEN" =>
              \E l \in AlertIds : ActiveAlertsOf(a) = {l} /\ alerts[l].key = anomalies[a].key
    /\ \A l \in AlertIds :
          alerts[l].status \in ActiveAlert => anomalies[alerts[l].anomaly].status = "OPEN"

\* An ESCALATED alert and its incident name each other: the incident the engine
\* will resolve with the alert is the one that was opened or adopted for it, and
\* the operators' browsers were told of it once.
EscalationLinksBack ==
    \A l \in AlertIds :
        alerts[l].status = "ESCALATED" =>
            /\ alerts[l].incident \in IncidentIds
            /\ incidents[alerts[l].incident].alert = l
            /\ incidents[alerts[l].incident].key = alerts[l].key
            /\ incidents[alerts[l].incident].browser = 1

\* An incident that belongs to an alert is not left on the operators' board after
\* the alert is over: while it is active the alert is still ESCALATED to it.
NoStaleIncident ==
    \A i \in IncidentIds :
        incidents[i].status \in ActiveIncident /\ incidents[i].alert # NoId =>
            /\ alerts[incidents[i].alert].status = "ESCALATED"
            /\ alerts[incidents[i].alert].incident = i

\* Every anomaly has its one ANOMALY row in the risk ledger, and no ledger row
\* names an anomaly that was rolled back.
AnomaliesAreScored == scored = {a \in AnomalyIds : anomalies[a].status # "ABSENT"}

\* An incident is closed once, by the engine or by an operator, whoever came
\* first: the trail never holds two verdicts.
OneVerdict ==
    \A i \in IncidentIds :
        /\ \A x, y \in incidents[i].trail \cap Verdicts : x = y
        /\ incidents[i].status \in ClosedIncident
               <=> incidents[i].trail \cap Verdicts # {}

\* No step reopens what is closed, and no step takes an incident, an alert or an
\* anomaly back to an earlier stage, whoever takes it.
NeverBackwards ==
    [][/\ \A i \in IncidentIds :
             /\ IncidentStage[incidents[i].status] <= IncidentStage[incidents'[i].status]
             /\ incidents[i].status \in ClosedIncident
                    => incidents'[i].status = incidents[i].status
       /\ \A l \in AlertIds : AlertStage[alerts[l].status] <= AlertStage[alerts'[l].status]
       /\ \A a \in AnomalyIds :
             AnomalyStage[anomalies[a].status] <= AnomalyStage[anomalies'[a].status]]_vars

\* docs/04-risk-scoring-and-anomaly-rules.md:136 says of the automatic resolve
\* that it touches an incident only if that is still OPEN and was made from the
\* alert.  The code also resolves what an operator has in progress and what a
\* citizen's report opened.
AutoResolvesOnlyItsOwnOpen ==
    [][\A i \in IncidentIds :
          "AUTO_RESOLVE" \in incidents'[i].trail \ incidents[i].trail =>
              incidents[i].status = "OPEN" /\ "AUTO_OPEN" \in incidents[i].trail]_vars

\* docs/04-risk-scoring-and-anomaly-rules.md:134 says a HIGH or CRITICAL alert is
\* escalated to an incident, that is to one the operators still have before them.
EscalatesToActiveIncident ==
    [][\A l \in AlertIds :
          alerts[l].status # "ESCALATED" /\ alerts'[l].status = "ESCALATED" =>
              incidents'[alerts'[l].incident].status \in ActiveIncident]_vars

\* The case file this module implements: a key's phase is that of its active
\* alert, and the desk shows the incidents' status.
PhaseOf(k) ==
    IF AlreadyEscalated(k) THEN "ESCALATED"
    ELSE IF ActiveAlertsFor(k) # {} THEN "ALERTED" ELSE "QUIET"

IncidentOf(k) ==
    IF AlreadyEscalated(k)
    THEN alerts[CHOOSE l \in ActiveAlertsFor(k) : alerts[l].status = "ESCALATED"].incident
    ELSE NoId

CaseOf == [k \in Keys |-> [phase |-> PhaseOf(k), incident |-> IncidentOf(k)]]
DeskOf == [i \in IncidentIds |-> [status |-> incidents[i].status, key |-> incidents[i].key]]

Cases == INSTANCE CaseFile WITH case <- CaseOf, desk <- DeskOf

\* Transactions, locks and rollbacks show the operators nothing but whole case
\* steps: every commit is one step of the case file, everything else is none.
ImplementsCaseFile == Cases!Spec
=============================================================================
