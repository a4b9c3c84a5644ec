# Siuncal: models, checks and proofs

Siuncal ("Sentra") watches a city's minibus fleet. Vehicles report positions,
a rules engine turns them into anomalies, alerts and incidents and keeps a risk
score per vehicle, operators work on the incidents, passengers send reports and
SOS calls, and a notification service tells people about it. The parts share one
PostgreSQL database and otherwise do not talk to each other, except through Redis
(realtime ticks, rate limits, job queues). Nearly every hazard of the system is
therefore a hazard of statements of different processes interleaving on the same
rows.

This directory holds TLA+ modules of that program, TLC configurations that check
them, and proofs that TLAPS checks. Source paths below are relative to `src/`.

## 1. The system

| Part | Code | State | Operations | What is hard |
|---|---|---|---|---|
| Anomaly lifecycle | `services/rules-engine/src/anomaly-lifecycle.js`, `rules-runtime.js` | `anomalies`, `alerts`, `incidents`, `incident_actions`, `notifications` | open, escalate, resolve a (vehicle, rule) case | the engine's transactions against operators and reports on the same incident; rollbacks; alerts that would never be reached again |
| Risk score | `risk-decay.js`, `owner-risk-propagation.js`, `risk-scoring.js`, `applyRiskScoreForAnomaly` | `risk_scores`, `risk_score_events` | add points, daily and weekly decay, owner propagation | one writer without locks or transaction; two SELECTs of one pass that exclude each other; feedback |
| Rules engine loop | `rules-engine-runner.js`, `rules-engine-bootstrap.js`, `rules-runtime.js` | timers, in-flight evaluations | pass over all vehicles, decay, hourly collective pass | with concurrency above 1, a failing worker leaves others running into the next pass |
| Rule decisions | `rule-decisions.js`, `rule-batch-*.js`, `rule-single-*.js` | none | telemetry window to open/resolve/nothing | thresholds, windows, batch and single evaluation agreeing |
| Collective anomalies and sanctions | `collective-anomaly-detection.js`, `server.js` 5263-5380 | `collective_anomalies`, `sanctions` | detect, escalate, resolve, sanction | detector against operator; statements without a transaction |
| Public reports | `public-report-review.js`, `public-report-evidence.js`, `server.js` 2193-2619 | `public_reports`, `public_report_evidence_processing` | submit, process evidence, verdict, escalate | two workers and an operator on one report; job de-duplication; matched incident may be closed |
| Emergency response | `emergency-response.js`, `server.js` 1850-1912, 3157-3206 | SOS incidents, `incident_proofs` | SOS, SLA, proof upload, operator actions | check-then-insert duplicates; a proof stored after the incident closed |
| Telemetry intake | `telemetry-intake.js`, `telemetry-quality.js`, `device-tamper.js` | `telemetry`, `vehicle_latest`, `vehicles.status` | accept, reject, update the current position | duplicates and late or reordered positions |
| Notifications | `notification-service/src/index.js`, `channels/*.js` | `notifications` | poll, send, mark | crash between send and mark; rows that can never be sent at the head of the queue |
| Realtime feed | `realtime-broadcaster.js`, `realtime-connection.js`, `realtime-feed.js` | Redis lock, last-tick time, connections | elect, query, publish, deliver | rows committed between two reads of the clock; a leader without clients |
| Rate limits | `redis.js` | Redis counters, in-memory fallback | count, reject | window boundaries, fallback |
| Sessions | `server.js` 324-354, 1739-1806, 2040-2105 | refresh, mobile and tracking tokens | issue, rotate, revoke | two rotations of one token |
| Heatmap and report jobs | `heatmap-worker.js`, `jobs/generate-reports.js` | heatmap cells, report rows | aggregate | scheduled and queued runs at once |
| Validation, images, object storage, user interfaces | `validation.js`, `image-validation.js`, `object-storage.js`, `apps/` | none of the above | pure checks and I/O | nothing for a state machine |

How they meet: the rules engine writes `anomalies` and `alerts` alone; `incidents`
are written by the engine, by the operators' handlers and by the report review;
`risk_scores` by the engine's minute loop and by its hourly loop; `notifications`
are written by most parts and drained by the notification service and the
realtime feed.

## 2. Modules

| Module | What it is | TLC | Proofs |
|---|---|---|---|
| `AnomalyLifecycle` | the transactions of `anomaly-lifecycle.js`, the operators' `POST /incidents/:id/actions`, the reports that create incidents | `MCAnomalyLifecycle` | `AnomalyLifecycleInv` (the inductive invariant, in named parts), `AnomalyLifecycleProofs` |
| `CaseFile` | the abstract specification: what operators see of a (vehicle, rule) case and of the incident board | by refinement | `AnomalyLifecycleProofs` |
| `RiskScore` | the score and its three writers | `MCRiskScore` | `RiskScoreProofs` |
| `RulesEngineLoop` | the order of the work (batches, rules, decisions); passes, workers, failures, the timer | `MCServices` | `RulesEngineLoopProofs` |
| `NotificationOutbox` | the notification service's polling loop and the two tables it drains | `MCServices`, `MCNotificationOutbox` | `NotificationOutboxProofs` |
| `PublicReport` | reports of citizens, the review queue, operators | `MCPublicReport` | `PublicReportProofs` |
| `EmergencyResponse` | calls for help, operators and officers, proofs of what was done | `MCParts` | `PartsProofs` |
| `CollectiveAnomaly` | the hourly detectors, escalation by analysts | `MCParts` | `CollectiveAnomalyProofs`, `PartsProofs` |
| `Sanctions` | decisions, renewals, revocations, notes | `MCParts` | `PartsProofs` |
| `TelemetryIntake` | duplicate check, insert, matching, status of a vehicle | `MCParts` | `TelemetryIntakeProofs`, `PartsProofs` |
| `RealtimeFeed` | ticks and what they announce to each dashboard | `MCParts` | `PartsProofs` |
| `RuleDecisions` | what the five rules decide in a pass | `MCParts`, `MCRuleDecisions` | `PartsProofs` |

`MCParts` instantiates six modules side by side. They share neither rows nor memory, so
a behaviour of it is one of one of them: the state spaces add up and do not multiply,
and a property of one part is checked in all of that part's states. `PartsInv` has the
inductive invariants of four of them, `PartsProofs` the theorems of all six as `MCParts`
instantiates them. `MCServices` does the same with the two services that run by a timer and of
which progress is asked too; the fairness of each counts in its own behaviours only, and
`VehiclesAreServed` is `ServedUnlessFailureAhead` of `RulesEngineLoop` where the loop runs.

How the modules fit together. `RulesEngineLoop` says when an evaluation of a
vehicle runs and `RuleDecisions` what it decides; `AnomalyLifecycle` does to the case
what was decided, and `RiskScore` to the score. `PublicReport` is where
`ReportIncident` of `AnomalyLifecycle` comes from, `CollectiveAnomaly` where `Flaggable`
of `RiskScore` does, `Sanctions` where `SanctionNotice` of `NotificationOutbox` does;
`TelemetryIntake` keeps the current position that `RuleDecisions` reads. Each of these
meetings is a free choice in the module that receives (any report at any time, any
decision on a free vehicle, any position in `0..now`), so what a module promises does
not lean on its neighbour, with one exception, `VehicleFree` below.

### AnomalyLifecycle

`openRuleLifecycle` and `resolveRuleLifecycle` run in a transaction each. PostgreSQL
shows their writes to the others at COMMIT, so a worker's transaction is a record
(`tx[w]`: what it has decided, found and locked) and the tables change in one step
at the end; `Rollback` is possible at any point before. The steps of an open are

1. `BeginOpen`: BEGIN to `shouldEscalateAlert` (lines 210-295). It reads anomalies
   and alerts, which nobody but the engine writes, and of this vehicle nobody but
   this transaction;
2. `SelectIncident`: the SELECT of `ensureIncident` (143), which takes no lock;
3. `LinkIncident`: its UPDATE (157), which locks the row and does not look at its
   status again;
4. `CommitOpen`: everything written, visible at once.

A resolve is `BeginResolve`, `UpdateIncidents` (359: PostgreSQL evaluates the status
predicate on the newest version of the row and locks it) and `CommitResolve`.
Between any two of these an operator may act (`IncidentAction`: one transaction,
`SELECT .. FOR UPDATE`, 409 on a closed incident) and a report may create an
unlinked incident (`ReportIncident`).

Not kept: severities of existing rows, positions, evidence, texts, the score itself
(that is `RiskScore`; here only whether an anomaly has its ledger row), and which
user acted. `incident_actions` is the set of its action types (`trail`), the
`BROWSER` notification rows of an incident are counted.

`VehicleFree` is the one assumption about the engine: a vehicle is in one
transaction at a time. `RulesEngineLoop` says how far it is true
(`OneEvaluationPerVehicle`, proved as `NoTwoEvaluations`): within a pass always, and
with the default `RULE_EVALUATION_CONCURRENCY` of 1 always. With more workers the first
that fails rejects `Promise.all` at once, and the next pass may reach a vehicle that a
worker of the failed pass still holds. That case is outside `AnomalyLifecycle`.

### RiskScore

`Anomaly` (the score part of an open) holds the row lock from `SELECT .. FOR UPDATE` to
COMMIT: one step. The decay is two, `DecayBegin` (the daily SELECT and its locks) and
`DecayCommit` (the weekly SELECT, which sees what others committed meanwhile, and
COMMIT). `applyOwnerRiskPropagation` uses pool queries: `PropagationBegin` (the owners
query), `PropagationNext` (the 24-hour check of the next vehicle), `PropagationRead`,
`PropagationUpsert` (waits for a lock, then overwrites), `PropagationEvent`. Any query
may fail (`PropagationFails`, `DecayFails`); a killed process is both.

Time is a number of ticks per 24 hours (`Day`), and timestamps are ages capped at a
week, where NULL is also put: no query distinguishes more. A tick does not pass over
a decay that is due, because the rules loop runs every minute. `newest` (the
`new_score` of a vehicle's newest event) is in the event table; `raised` (the age of
the last write of the propagation) is a history variable.

### RulesEngineLoop

`StartPass` is the timer; `Deal` starts the workers of one rule on one batch
(`runWithConcurrency`: worker w takes the items w, w + n, w + 2n, ...); `Evaluate` and
`EvaluationFails` are a worker's next item; `NextGroup` is `Promise.all` resolving;
`Decay` is the end of a pass. A group is a (batch, rule) pair in the order of the two
nested loops, and its decisions put the vehicles that need no query first, as the
batch evaluators do. `threads` keeps the workers of failed passes too, with the
identity of their pass. `evaluated` is history. What makes an evaluation fail is data
that comes and goes (`FailureChanges`).

### PublicReport

`Submit` inserts a report; `Schedule` is the timer that queues the oldest due ones and
`RunReviews` the operators' button; a review is one transaction that holds the report's
row, `BeginReview` to `CommitReview`, but looks for the matching incident without a
lock, so its record `tx[w]` keeps what it read. A job is a state and the attempts it has
left: a job id can be queued once, and a completed one is removed and added anew.
`Redeliver` is the queue giving a job to a second worker because the first did not renew
its lock. `OperatorAction` is one transaction of an operator. The verdict is
confirmed or not, the former where `decideVerdict` can reach it for the category and the vehicle;
its other names, scores and evidence are left out. An incident carries who made it (`by`), for
which report (`from`) and how many incidents were there when that was decided (`read`) as history. `tooOld` of a report stands for the half-hour window of the incident query.

### EmergencyResponse, CollectiveAnomaly, Sanctions, TelemetryIntake

These four are handlers that do several statements in no transaction, or look before
they begin one. Every statement that writes is an action, with what has been read so far
in a record of the request (`calls`, `uploads`, `pass`, `escalations`, `requests`,
`posts`), and a failure is possible after each. History fields say what overlapped:
`read` (how much was there when a request looked), `alone` (no other analyst had the
row), `orderly` (no post of the vehicle was late, overlapped or failed), `lost` (requests
that failed on a sanction). The properties say what an overlap or a failure may do and
that nothing else does it.

`EmergencyResponse`: `Check`, `insertEmergencyIncident`; `Act` and `FieldAct` (one
transaction with a row lock); `BeginProof`, `RecordProof`. `CollectiveAnomaly`: the pass
of each detector is `Find`, `Existing`, `Apply` per subject, `Resolve` per row; an escalation
is `Select`, `InsertIncident`, `UpdateRow`, `InsertAction`. What a detector finds is any
set of subjects. `Lasting` are the two detectors that look one subject up at a time and
never resolve. `Sanctions`: `Create`; `Select`, `UpdateStatus`, `InsertSuccessor`,
`InsertAction`. `TelemetryIntake`: `Begin` (duplicate check), `Insert` (with the trigger
that keeps the current position), `Match`, `UpdateStatus`.

### RealtimeFeed

A tick (`Start` to `Finish`) serves one client after the other: `Ask` is the query for
notifications later than `lastNotificationAt`, `Deliver` reads the clock and sends. Ticks
do not wait for each other, since a message of another gateway starts one too. A row has
its `created_at` from `BeginRow` and can be seen from `CommitRow`. `late` is the history of
rows no query could have seen in time.

### RuleDecisions

`StartPass` takes the snapshot of one vehicle and of the clock; then each rule decides in its
turn, from the snapshot or from a query that sees what has come meanwhile. Positions arrive
at any time with any timestamp up to now. Distances are on a line, a position shows its
speed, its distance from the route and its match; averages and roundings are the code's.

### NotificationOutbox

The service is one process whose statements commit one by one, so every statement and
every message sent is a step: `Poll`, `CreateNotifications` (one INSERT .. SELECT per
channel), `FetchPending`, `SendConsole` / `SendFcm` / `SendEmail`, `Mark`, then the same
for account emails, `Rest`. `Abort` is a failed statement or a stop of the process at
any of them, and the process may come back with other settings. Between the steps the
other services insert rows (`NewIncident`, `SanctionNotice`, `EnqueueAccountEmail`),
operators close incidents and the mail server goes up and down.

A row's index stands for its `created_at`: the order in which a pass takes rows. A row
carries a history field, how often its message went out, that no guard reads. A mail server that is up may take a message
and lose its answer (`SendEmail`, third alternative). `read_at` and texts are left out.

## 3. Runs

| Run | Instance | Result |
|---|---|---|
| `anomaly_lifecycle` | 2 vehicles, 1 rule, 2 workers, two episodes in all, a report on the same rule, escalation by severity or at the second anomaly | the invariants, `NeverBackwards` and the refinement `ImplementsCaseFile` hold |
| `auto_resolve_scope` | 1 vehicle, 1 worker, all actions of operators | violated: the automatic resolve closes what operators have in progress and what a report opened |
| `escalation_target` | as above | violated: an alert can be escalated to an incident closed in between |
| `risk` | 2 vehicles of one owner, one of which may be flagged, 1 anomaly, 1 failed query, fairness | `DecayIsPaced`, `RaisedOncePerDay`, `ScoreSettles` hold (1.1 million states) |
| `risk_feedback` | 2 HIGH vehicles of one owner, the default settings, no anomaly and no failure, fairness | violated: they raise each other every day for ever |
| `weekly_decay` | a quiet week | violated: the weekly decay is never taken |
| `risk_ledger` | one flagged vehicle, 1 anomaly, no failure | violated: lost update by the propagation |
| `rows_are_processed` | 1 incident, batch of 1, fairness | violated: a batch of unsendable emails blocks all later rows |
| `services` | notifications: 1 incident, sanctions or account emails, 3 channels, batch of 2, one failure or restart with other settings; rules engine: 3 vehicles in batches of 2, 2 rules, 1 or 2 workers, one failed query or restart; fairness | of the outbox, safety, `SettledIsFinal`, `HandledBehindFewEmails`, `ActiveIsAnnounced`, `MailArrives` hold; of the loop, `OneEvaluationPerVehicle`, `DecayAfterAll`, `VehiclesAreServed` |
| `public_report` | 2 reports of the two confirmable categories, 2 workers, 1 other incident, batch of 1, one failure or second delivery, fairness | one incident per report, `SameCaseSharesIncident`, `DecisionStands`, `ReviewedUnlessCrowdedOut` hold (0.9 million states) |
| `parts` | two requests, posts or ticks at a time in each of six parts, one failure in each | the twelve properties of `MCParts` hold (0.9 million states) |
| `ngetem_window` | 1 vehicle, 2 positions, half-minute ticks | violated: two positions within half a minute are found loitering for the whole window |

The seven violated runs check statements of the repository's documents that the code does
not keep to, or keeps to only without interleaving; `PROJECT.json` quotes the line for each.

### Bounds, and why they are enough

- Lifecycle: a case touches one key; the second episode is where stale alerts,
  re-adopted incidents and the repeat count show, and a third repeats it. Two incidents
  let an escalation meet a report's incident and a second one be opened. Two vehicles
  and two workers are what two transactions can share an incident table with. The run
  has the operators' actions ACKNOWLEDGE and FALSE_ALARM (one for each kind of status,
  active and closed); ASSIGN, ESCALATE, RESOLVE and PROOF_UPLOAD are in the two violated
  runs with one vehicle only. The proofs are for any set of actions, rules and workers.
- Risk: a lost update needs one anomaly and one propagation, the feedback two vehicles. With
  the defaults the decay of a full score is what the propagation adds (5 percent, 5 points).
  The `risk` run keeps that proportion in big steps, 60 percent and 60 points, so that there are
  few scores; two HIGH vehicles hold each other up there as with the defaults, and without its
  premise `ScoreSettles` is violated. The violated runs use the defaults. A tick is a day (`Day`
  = 1), so of the hours between two ticks only the order of steps is left. The age of an
  `OWNER_PROPAGATION` event is capped at a day, all the code asks for.
- Outbox: a batch of 2 stands for the 20 of the code: the bounds of
  `HandledBehindFewEmails` and `MailArrives` are met exactly (one email ahead of a batch
  of 2 does no harm, one ahead of a batch of 1 is `rows_are_processed`).
- Loop: three vehicles in batches of two give a full and a short batch; one vehicle
  out of service makes the order of the decisions differ from the fleet's. Two passes
  with workers in flight and a third that begins are the three identities.
- Reports: two reports on one vehicle are what can share or double an incident, and two
  workers what can review at once. `NGETEM` keeps its name as a rule, `RECKLESS_DRIVING` becomes
  `OVERSPEED`: both sorts of confirmable category. With two reports and a batch of 1 the older
  ones can never crowd a report out (that takes three), so here `ReviewedUnlessCrowdedOut` says
  that every report that stays pending is reviewed again and again; what happens to a crowded-out
  one is not explored.
- Parts: every hazard there is a meeting of two requests on one row, so two requests and
  one row of each sort do. Of the operators' actions `EmergencyResponse` has ASSIGN,
  PROOF_UPLOAD and RESOLVE in the instance, and of the analysts' `Sanctions` has RENEW and
  REVOKE: ACKNOWLEDGE and ESCALATE do what ASSIGN does to the status, FALSE_ALARM what
  RESOLVE does, and NOTE only adds to the trail. The decisions have half-minute ticks, so that
  rounding to minutes matters, windows of one and two minutes, and two positions, the
  number that the rules need to open a case.

### Fairness

`RiskScore!FairSpec`: both loops set their timer again in a `finally`
(`rules-engine-bootstrap.js` 48, 58), so decay and propagation take their steps, and
time passes. `RulesEngineLoop!FairLoopSpec`: the same `finally`, and each worker gets on,
because a statement returns or its connection is given up; no evaluation is assumed to
succeed. `NotificationOutbox!FairSpec` is weak fairness of the pass: `finally` sets the timer
again (`index.js` 189), and the database driver and nodemailer give up after a timeout; the
mail server owes nothing, `MailArrives` has its recovery as a premise.
`PublicReport!FairSpec`: `setInterval` goes on, and a worker takes what waits and ends
what it began. No operator, passenger, anomaly or failure is fair anywhere. Of the lifecycle
and the six parts only safety is asked: whether a decision arrives depends on telemetry,
and their handlers run once per request and are not retried by the system.

Deadlock is checked in every run: something can always happen.

## 4. What is proved

All theorems hold for any values of the constants that the named assumptions allow
(types of the constants, for the most part); TLC evaluates those assumptions in the
runs, for the six parts as `PartsConstants`. Each inductive invariant is shown to hold
initially and to be kept by every action, one lemma per action and in it one step per
conjunct that the action can disturb.

**Lifecycle** (`AnomalyLifecycleProofs`): type correctness, one open anomaly per key, an
anomaly is open exactly as long as one alert of it is active, an escalated alert and its
incident name each other, no active incident outlives its alert, the ledger has exactly one
row per anomaly, an incident has at most one verdict. None of these is inductive. `IInv` adds
what the transactions know: what a worker has found is still unlinked or linked to the alert it
works for, what it has locked is still active, no two workers hold one vehicle, rows are used
in insertion order. From `IInv` follow two theorems about steps. `NothingGoesBack`: no step takes
an anomaly, an alert or an incident to an earlier stage. `LifecycleImplementsCaseFile`: with the
refinement mapping of the module every step is a step of `CaseFile` or a stutter. A commit shows
the whole transaction, a rollback nothing, every other statement of the engine is invisible, and
what the desk does without a lock is a step of the board.

**Score** (`RiskScoreProofs`): a score stays within 0 to 100 whatever the writers do to each
other and whatever fails; until a query fails, the propagation raises a vehicle at most
once in 24 hours; and the decay takes points off a vehicle only a day after its last anomaly and its
last decay. The second needs `EventFollowsWrite`: the newest event is never older than
the newest write except between those two queries, and a vehicle in hand has passed its check. The
third needs that what the decay has locked stays due until it commits (`LockedIsDue`): time only
passes, and an anomaly of the vehicle waits for the lock.

**Outbox** (`NotificationOutboxProofs`): at most one row per incident and channel, SENT only for
what went out, no more deliveries than the recorded one and the failures, settled rows final.
The invariant adds that what a pass has in hand is still pending and that a verdict SENT about
to be written has its delivery.

**Loop** (`RulesEngineLoopProofs`): a worker is always at an item of its group; two evaluations of
one vehicle meet only across passes and with more than one worker; the decay comes after every
rule on every vehicle. The arguments are arithmetic: batches cover the fleet once, items of
different workers differ by a non-multiple of their number, and what is below a worker's item
and of its residue has been evaluated. `Only` filters a batch by recursion; that it leaves out
nobody and nobody twice is shown by looking at the least length where it would fail.

**Reports** (`PublicReportProofs`): type correctness with a bound on the incidents (each report makes
at most one, by counting), one incident per report, sharing of the incident of a case, decisions of
operators stand. `PInv` adds the row lock (a report under review is in one review, still
pending, and names the incident that review has read), that a review makes incidents only for
reports, and that one that matched nothing had nothing to match among what it read. The sharing is
claimed for every category and whoever made the first incident of the case.

**Collective anomalies** (`CollectiveAnomalyProofs`): one open anomaly per subject and detector, a
second incident needs an overlap or a failure, an escalated anomaly stays so. `CInv` adds that the
pass has read whatever is open of the subjects it still has to look at, that of the analysts at a
row one is the first, and that an incident is told by its row (which is then never open again), in
the hands of its analyst, or left by a request that failed.

**Telemetry** (`TelemetryIntakeProofs`): type correctness with the number of unmatched positions bounded
by counting, stored twice only by overlap, the status is of the current position as long as posts
are orderly. `TInv` adds that an orderly vehicle has one post at a time, whose position is the
current one once it is stored, and until then the status is of the current one.

**The parts** (`PartsProofs`): every behaviour of `MCParts` is one of each of its six instances (a step
of one part is a stutter of the others), so what holds of an instance holds of the behaviours that
the run explores, for every value of the constants. The theorems on collective anomalies and
telemetry are those of the two modules above. The other four parts are proved here, each from an
invariant of `PartsInv` that TLC has checked in all states of the run's instance. `Types` puts the six
together: type correctness of everything `MCParts` keeps.

- Emergencies, `EmergencyInv`: two active calls of one caller need an overlap or the window, a closed
  case gets nothing but a proof begun in time. The invariant adds that a call about to be inserted has no
  active duplicate among the incidents it has read: none becomes active again.
- Sanctions, `SanctionInv`: `TrailIsTrue` bounds the successors of a sanction by all requests on it and
  says of its status only what holds at rest, so neither half is inductive. The invariant keeps
  accounts. Successors are the renewals on record, plus the requests that have inserted one and not
  recorded it (`Recording`), plus at most the failures. A status other than ACTIVE is on record, in the
  hands of a request (`Deciding`), or lost with one. A request moves one unit from one account to
  another. It also counts the renewals under way against the bound on sanctions, and the failures
  of one sanction against those of all.
- The feed, `FeedInv`: a notification is announced twice only if two ticks asked at once, and what a
  client has behind it was announced, late or crowded out. The invariant follows an answer from the query
  to the delivery. What it found was visible when the query saw it. It holds all that was seen and is
  still ahead of the client, except what a limit's worth of newer rows crowded out (`AnswersAreWhole`).
  As long as no two ticks have met at the client, only one answer is under way and nothing in
  it is behind the client (`OneAnswer`).
- Decisions, `DecisionInv`: a vehicle found silent is accused of nothing else as long as nothing has come
  since. The invariant adds that the snapshot is then of the latest position (`SnapshotIsLast`), so that
  what a later rule queries is as old as what the first one has seen, and that a vehicle never heard
  of has no case opened by the other rules.

Assumptions on constants are about their types, with two exceptions that matter. The requests on
sanctions are finitely many at a time, which counting needs (`SanctionConstants`). And the windows of
the two route rules are no longer than the silence that counts as a lost signal (`DecisionConstants`):
the defaults are 3 minutes each, and with a longer window, which the environment can set,
`SilenceSpeaksAlone` is not claimed.

Every invariant and action property that a passing run checks is stated by a theorem. Only
model-checked are the liveness properties (`ScoreSettles`, `HandledBehindFewEmails`, `ActiveIsAnnounced`,
`MailArrives`, `VehiclesAreServed`, `ReviewedUnlessCrowdedOut`), since liveness under fairness is out
of the prover's reach. The seven violated runs are counterexamples and need no proof.

Where the code leaves a race open, the property tells how far it goes and does not deny it:
`OneActiveCall`, `StoredTwiceNeedsOverlap` and `SecondIncidentNeedsOverlap` name the overlap that
doubles, `ClosedCaseIsSettled` and `EscalatedIsKept` exempt what was in hand before,
`StatusIsOfCurrent` and `RaisedOncePerDay` hold up to the first late post or failed query,
`PassedOverWasAnnounced` and `SilenceSpeaksAlone` exempt rows that came too late to be seen, and
`ScoreSettles` has the feedback of two HIGH vehicles as its premise.

## 5. What comes next

1. A composition of `AnomalyLifecycle` with workers of a failed pass, where `VehicleFree` does not hold.
2. Three reports, to see a report crowded out.
3. Abstract specifications of the outbox and of the report queue, with their refinement.

## 6. Not modelled

| Part | Why |
|---|---|
| Rate limits (`redis.js`) | counters a handler asks once before it begins; every model lets a request come or not |
| Sessions and tokens | decide who may send a request; the models take any request of an entitled sender |
| Heatmap and report jobs | recomputed whole from tables modelled here, and nothing reads them back |
| Single-vehicle evaluator (`rule-single-*.js`) | exported and tested, but `runRules` calls the batch evaluators only |
| Board of overdue emergencies | reads only |
| Counters of telemetry quality and tampered devices | nothing reads them but a report |
| Object storage, image and input validation | stateless checks and I/O |
| Operator web, passenger mobile | user interfaces, which act through the handlers modelled here. Two generated bundles (`main.dart.js`) and the pages of the web application are most of the repository's lines |

Within the modelled parts: pool exhaustion, statement timeouts (a failed statement is a rollback),
schema migrations and seeds, clock differences between processes, and more than one instance of the
rules engine (the deployment runs one).

Simplified within the modelled parts, where no property tells the difference: the two detectors
that look one subject up at a time SELECT and INSERT in one step (nobody else inserts OPEN rows), and
`DEVICE_REASSIGN_ABUSE`, which compares overlapping sets of vehicles, is given equal subjects
(`CollectiveAnomaly!Apply`); `NGETEM` asks for its official stop and its aggregate in one step, and
engine and database share a clock (`RuleDecisions!Ngetem`), as do the gateways and the database
(`RealtimeFeed!Told`); the timer of the reviews waits for the jobs of the last interval, and it is the
operators' `RunReviews` that queues while they run (`PublicReport!Schedule`).
