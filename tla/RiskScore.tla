------------------------------- MODULE RiskScore -------------------------------
(***************************************************************************)
(* The risk score of a vehicle and its three writers in the rules engine:  *)
(* a new anomaly adds the points of its rule, the decay at the end of each *)
(* pass of the rules loop takes points off, and the propagation of the     *)
(* hourly collective loop adds points to the vehicles of a risky owner.    *)
(*                                                                         *)
(* The first two lock the score row and are invisible until they commit,   *)
(* so an anomaly is one step; the decay shows the gap between its two      *)
(* SELECTs.  The propagation has no transaction: every query of it is a    *)
(* step.  Time is counted in ticks, Day of them in 24 hours; the age of a  *)
(* row's timestamp is capped at the longest interval that is asked of it,  *)
(* which also stands for NULL.                                             *)
(***************************************************************************)
EXTENDS Integers, FiniteSets

CONSTANTS
    Vehicles,
    Owner,              \* vehicle -> owner
    Delta,              \* rule -> points, RULE_RISK_DELTAS
    Severities,         \* severities of the anomalies that occur
    Flaggable,          \* vehicles a collective anomaly or a sanction may name
    DailyDecayPercent, WeeklyDecayPoints, PropagationDelta,
    Day,                \* ticks in 24 hours
    StartScores,        \* the scores at the start, from an anomaly of that tick
    MaxAnomalies,       \* bound on new anomalies
    MaxFailures,        \* bound on failed queries and killed processes
    None                \* no vehicle

Week == 7 * Day

ASSUME ScoreAssumption ==
    /\ Delta \in [DOMAIN Delta -> Nat \ {0}]
    /\ DailyDecayPercent \in 1..100 /\ WeeklyDecayPoints \in Nat /\ PropagationDelta \in Nat
    /\ Day \in Nat \ {0}
    /\ StartScores \subseteq 0..100
    /\ MaxAnomalies \in Nat /\ MaxFailures \in Nat
    /\ Flaggable \subseteq Vehicles
    /\ None \notin Vehicles

VARIABLES
    score,       \* risk_scores.current_score, 0 without a row
    age,         \* ticks since last_anomaly_at (anomaly), last_high_critical_at (high),
                 \* last_decay_at (decay), and since the newest WEEKLY_DECAY (weekly)
                 \* and OWNER_PROPAGATION (propagation) event
    decay,       \* the decay transaction: open, and the rows it has locked
    prop,        \* the propagation: pc, vehicles to do, vehicle in hand, score read
    opened,      \* anomalies so far
    failures,    \* failures so far
    newest,      \* new_score of the vehicle's newest risk_score_events row
    raised       \* ticks since the propagation last wrote the vehicle's score

vars == <<score, age, decay, prop, opened, failures, newest, raised>>

-----------------------------------------------------------------------------
ClampScore(s) == IF s < 0 THEN 0 ELSE IF s > 100 THEN 100 ELSE s

RiskLevel(s) ==
    CASE s >= 70 -> "CRITICAL"
      [] s >= 40 /\ s < 70 -> "HIGH"
      [] s >= 20 /\ s < 40 -> "MEDIUM"
      [] s < 20 -> "LOW"

\* Mutated DailyDecay: rounded down.
DailyDecayFloor(s) == (s * DailyDecayPercent) \div 100

\* Math.max(1, Math.ceil(s * percent / 100)): the ceiling of a positive number.
DailyDecay(s) == (s * DailyDecayPercent + 99) \div 100

IdleDecay == [open |-> FALSE, locked |-> {}]
IdleProp  == [pc |-> "idle", todo |-> {}, vehicle |-> None, prev |-> 0]

Idle == ~decay.open /\ prop.pc = "idle"

-----------------------------------------------------------------------------
(* A new anomaly: applyRiskScoreForAnomaly                                 *)

\* Mutated Anomaly: SELECT current_score without FOR UPDATE.
AnomalyUnlocked(v, rule, severity) ==
    /\ opened < MaxAnomalies
    /\ LET new == ClampScore(score[v] + Delta[rule])
       IN  /\ score'  = [score EXCEPT ![v] = new]
           /\ newest' = [newest EXCEPT ![v] = new]
    /\ age' = [age EXCEPT ![v] =
                  [@ EXCEPT !.anomaly = 0,
                            !.high = IF severity \in {"HIGH", "CRITICAL"} THEN 0
                                      ELSE age[v].high]]
    /\ opened' = opened + 1
    /\ UNCHANGED <<decay, prop, failures, raised>>

Anomaly(v, rule, severity) ==
    /\ opened < MaxAnomalies
    /\ v \notin decay.locked
    /\ LET new == ClampScore(score[v] + Delta[rule])
       IN  /\ score'  = [score EXCEPT ![v] = new]
           /\ newest' = [newest EXCEPT ![v] = new]
    /\ age' = [age EXCEPT ![v] =
                  [@ EXCEPT !.anomaly = 0,
                            !.high = IF severity \in {"HIGH", "CRITICAL"} THEN 0
                                      ELSE age[v].high]]
    /\ opened' = opened + 1
    /\ UNCHANGED <<decay, prop, failures, raised>>

-----------------------------------------------------------------------------
(* Decay: applyRiskScoreDecay                                              *)

DueDaily(v) == score[v] > 0 /\ age[v].anomaly >= Day /\ age[v].decay >= Day

QuietWeek(v) ==
    /\ age[v].anomaly >= Week /\ age[v].high >= Week /\ age[v].decay >= Week
    /\ age[v].weekly >= Week

\* Asked after the daily rows were written: those have last_decay_at = now().
DueWeekly(v) == v \notin decay.locked /\ score[v] > 0 /\ QuietWeek(v)

\* BEGIN and the first SELECT .. FOR UPDATE.  A pass that can find no row in either
\* SELECT changes nothing and is left out.
DecayBegin ==
    /\ ~decay.open
    /\ \E v \in Vehicles : DueDaily(v) \/ QuietWeek(v)
    /\ decay' = [open |-> TRUE, locked |-> {v \in Vehicles : DueDaily(v)}]
    /\ UNCHANGED <<score, age, prop, opened, failures, newest, raised>>

Decayed(v) ==
    IF v \in decay.locked THEN ClampScore(score[v] - DailyDecay(score[v]))
    ELSE IF DueWeekly(v) THEN ClampScore(score[v] - WeeklyDecayPoints)
    ELSE score[v]

DecayStamped(v) ==
    IF v \in decay.locked THEN [age[v] EXCEPT !.decay = 0]
    ELSE IF DueWeekly(v) /\ Decayed(v) # score[v]
    THEN [age[v] EXCEPT !.decay = 0, !.weekly = 0]
    ELSE age[v]

\* The second SELECT, the rows it finds, and COMMIT.
DecayCommit ==
    /\ decay.open
    /\ score'  = [v \in Vehicles |-> Decayed(v)]
    /\ newest' = [v \in Vehicles |-> IF Decayed(v) # score[v] THEN Decayed(v) ELSE newest[v]]
    /\ age'    = [v \in Vehicles |-> DecayStamped(v)]
    /\ decay'  = IdleDecay
    /\ UNCHANGED <<prop, opened, failures, raised>>

-----------------------------------------------------------------------------
(* Propagation: applyOwnerRiskPropagation                                  *)

Risky(v) == RiskLevel(score[v]) \in {"HIGH", "CRITICAL"}

\* The vehicles of the owners query's first branch.
MultiRisk ==
    {v \in Vehicles : Risky(v) /\ \E u \in Vehicles \ {v} : Risky(u) /\ Owner[u] = Owner[v]}

\* The other branches: the vehicles of open collective anomalies and sanctions.
PropagationBegin ==
    /\ prop.pc = "idle"
    /\ \E flagged \in SUBSET Flaggable :
          /\ MultiRisk \cup flagged # {}
          /\ prop' = [IdleProp EXCEPT !.pc = "next", !.todo = MultiRisk \cup flagged]
    /\ UNCHANGED <<score, age, decay, opened, failures, newest, raised>>

\* The next vehicle: skipped if it has an OWNER_PROPAGATION event of 24 hours.
PropagationNext ==
    /\ prop.pc = "next"
    /\ \E v \in prop.todo :
          IF age[v].propagation >= Day
          THEN prop' = [prop EXCEPT !.todo = @ \ {v}, !.vehicle = v, !.pc = "read"]
          ELSE prop' = IF prop.todo = {v} THEN IdleProp ELSE [prop EXCEPT !.todo = @ \ {v}]
    /\ UNCHANGED <<score, age, decay, opened, failures, newest, raised>>

\* SELECT current_score, without a lock.
PropagationRead ==
    /\ prop.pc = "read"
    /\ prop' = [prop EXCEPT !.pc = "upsert", !.prev = score[prop.vehicle]]
    /\ UNCHANGED <<score, age, decay, opened, failures, newest, raised>>

\* INSERT .. ON CONFLICT DO UPDATE: waits for the row, then overwrites it.
PropagationUpsert ==
    /\ prop.pc = "upsert"
    /\ prop.vehicle \notin decay.locked
    /\ score'  = [score EXCEPT ![prop.vehicle] = ClampScore(prop.prev + PropagationDelta)]
    /\ raised' = [raised EXCEPT ![prop.vehicle] = 0]
    /\ prop'   = [prop EXCEPT !.pc = "event"]
    /\ UNCHANGED <<age, decay, opened, failures, newest>>

\* Mutated PropagationEvent: the event is not of the type the next run looks for.
PropagationEventUnseen ==
    /\ prop.pc = "event"
    /\ newest' = [newest EXCEPT ![prop.vehicle] = ClampScore(prop.prev + PropagationDelta)]
    /\ prop' = IF prop.todo = {} THEN IdleProp
               ELSE [IdleProp EXCEPT !.pc = "next", !.todo = prop.todo]
    /\ UNCHANGED <<score, age, decay, opened, failures, raised>>

PropagationEvent ==
    /\ prop.pc = "event"
    /\ newest' = [newest EXCEPT ![prop.vehicle] = ClampScore(prop.prev + PropagationDelta)]
    /\ age'  = [age EXCEPT ![prop.vehicle].propagation = 0]
    /\ prop' = IF prop.todo = {} THEN IdleProp
               ELSE [IdleProp EXCEPT !.pc = "next", !.todo = prop.todo]
    /\ UNCHANGED <<score, decay, opened, failures, raised>>

-----------------------------------------------------------------------------
\* A query of the propagation fails.
PropagationFails ==
    /\ failures < MaxFailures
    /\ prop.pc # "idle"
    /\ prop' = IdleProp
    /\ failures' = failures + 1
    /\ UNCHANGED <<score, age, decay, opened, newest, raised>>

\* A query of the decay fails: ROLLBACK.
DecayFails ==
    /\ failures < MaxFailures
    /\ decay.open
    /\ decay' = IdleDecay
    /\ failures' = failures + 1
    /\ UNCHANGED <<score, age, prop, opened, newest, raised>>

Older(n, oldest) == IF n < oldest THEN n + 1 ELSE n

\* Of an OWNER_PROPAGATION event only the last 24 hours are asked for.
Oldest(f) == IF f = "propagation" THEN Day ELSE Week

OlderRow(v) == [f \in DOMAIN age[v] |-> Older(age[v][f], Oldest(f))]

\* A tick is hours, a pass of the rules loop comes every minute and ends at once:
\* time does not pass over a decay that is due.
Tick ==
    /\ Idle
    /\ \A v \in Vehicles : ~DueDaily(v)
    /\ age' = [v \in Vehicles |-> OlderRow(v)]
    /\ raised' = [v \in Vehicles |-> Older(raised[v], Day)]
    /\ UNCHANGED <<score, decay, prop, opened, failures, newest>>

-----------------------------------------------------------------------------
Init ==
    /\ score  \in [Vehicles -> StartScores]
    /\ newest = score
    /\ age    = [v \in Vehicles |-> [anomaly |-> IF score[v] = 0 THEN Week ELSE 0,
                                     high |-> Week, decay |-> Week,
                                     weekly |-> Week, propagation |-> Day]]
    /\ decay  = IdleDecay
    /\ prop   = IdleProp
    /\ opened = 0 /\ failures = 0
    /\ raised = [v \in Vehicles |-> Day]

Propagation ==
    \/ PropagationBegin \/ PropagationNext \/ PropagationRead
    \/ PropagationUpsert \/ PropagationEvent

Decay == DecayBegin \/ DecayCommit

Next ==
    \/ \E v \in Vehicles, rule \in DOMAIN Delta, severity \in Severities :
           Anomaly(v, rule, severity)
    \/ Decay
    \/ Propagation
    \/ PropagationFails
    \/ DecayFails
    \/ Tick

Spec == Init /\ [][Next]_vars

\* Both loops run for ever (they set their timer again in a finally) and time
\* passes; nothing obliges a vehicle to misbehave or a query to fail.
FairSpec == Spec /\ WF_vars(Decay) /\ WF_vars(Propagation) /\ SF_vars(Tick)

-----------------------------------------------------------------------------
(* Properties                                                              *)

Ages == [anomaly: 0..Week, high: 0..Week, decay: 0..Week, weekly: 0..Week,
         propagation: 0..Day]

\* A score stays within the CHECK of risk_scores, 0 to 100, whatever the three
\* writers do between each other's steps; so does the score in the propagation's
\* hand.
TypeOK ==
    /\ score \in [Vehicles -> 0..100]
    /\ age \in [Vehicles -> Ages]
    /\ decay \in [open: BOOLEAN, locked: SUBSET Vehicles]
    /\ prop \in [pc: {"idle", "next", "read", "upsert", "event"},
                 todo: SUBSET Vehicles, vehicle: Vehicles \cup {None}, prev: 0..100]
    /\ prop.pc \in {"read", "upsert", "event"} => prop.vehicle \in Vehicles
    /\ opened \in 0..MaxAnomalies
    /\ failures \in 0..MaxFailures
    /\ newest \in [Vehicles -> 0..100]
    /\ raised \in [Vehicles -> 0..Day]

\* What makes RaisedOncePerDay inductive: as long as no query has failed, the newest
\* event is no older than the newest write, but between the two.  The vehicle in
\* hand has been looked at, failures or not.
EventFollowsWrite ==
    /\ TypeOK
    /\ failures = 0 =>
          \A v \in Vehicles :
              \/ age[v].propagation <= raised[v]
              \/ prop.pc = "event" /\ prop.vehicle = v
    /\ prop.pc \in {"read", "upsert"} => age[prop.vehicle].propagation >= Day

\* The decay takes points off a vehicle only when 24 hours have passed since its
\* last new anomaly and since its last decay, both still true when it commits:
\* an anomaly cannot slip in between the SELECT and the UPDATE.
DecayIsPaced ==
    [][\A v \in Vehicles :
          DecayCommit /\ score'[v] < score[v] =>
              age[v].anomaly >= Day /\ age[v].decay >= Day]_vars

\* As long as no query has failed, the propagation raises a vehicle at most once in 24
\* hours, for as many owners, anomalies and sanctions as name it
\* (owner-risk-propagation.js:26-33).
RaisedOncePerDay ==
    [][\A v \in Vehicles :
          PropagationUpsert /\ prop.vehicle = v /\ failures = 0 => raised[v] >= Day]_vars

\* A vehicle that stops misbehaving and that no collective anomaly or sanction names
\* comes down to a score of 0 and stays there, unless it and another vehicle of its
\* owner are HIGH together again and again.
ScoreSettles ==
    \A v \in Vehicles \ Flaggable :
        <>[](v \notin MultiRisk) => <>[](score[v] = 0)

\* docs/04-risk-scoring-and-anomaly-rules.md:224 says that a score must not keep piling
\* up for ever unless behaviour asks for it: with no new anomaly, and no collective
\* anomaly or sanction, it stops rising.  In the code two HIGH vehicles of one owner
\* raise each other every day by as much as the decay takes, or more.
ScoreStopsRising ==
    \A v \in Vehicles \ Flaggable : <>[][score'[v] <= score[v]]_vars

\* docs/04-risk-scoring-and-anomaly-rules.md:233 says that 7 days without a HIGH
\* or CRITICAL anomaly take 10 points more off the score.  Stated for the decay of
\* a vehicle without any anomaly for 7 days, once in 7 days.  The code never does:
\* the daily decay of the same pass sets last_decay_at first.
WeeklyDecayIsTaken ==
    [][\A v \in Vehicles :
          /\ DecayCommit /\ score'[v] < score[v]
          /\ age[v].anomaly >= Week /\ age[v].high >= Week /\ age[v].weekly >= Week
          => age'[v].weekly = 0]_vars

\* docs/04-risk-scoring-and-anomaly-rules.md:245 calls risk_score_events the
\* history of the score's changes: each event starts from the score the one before
\* it ended with.  The propagation reads the score without a lock and writes over
\* what the others did since.
LedgerIsHistory == [][PropagationEvent => prop.prev = newest[prop.vehicle]]_vars
=============================================================================
