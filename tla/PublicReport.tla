------------------------------ MODULE PublicReport ------------------------------
(* Reports of citizens (services/api-gateway: public-report-review.js and the    *)
(* handlers of server.js): submitted as PENDING_REVIEW, reviewed by jobs that a   *)
(* timer and the operators put on a queue, decided by operators at any time. A    *)
(* confirmed review and an operator's escalation make or join an incident.        *)
(*                                                                                *)
(* A review is one transaction that holds the row of its report from              *)
(* SELECT .. FOR UPDATE to COMMIT; what it reads of the incidents it does not     *)
(* lock. The database shows its writes at COMMIT.                                 *)
EXTENDS Naturals, FiniteSets, SequencesExt

CONSTANTS
    Vehicles,
    Categories,       \* of reports
    Workers,          \* of the review queue, in all processes
    Batch,            \* PUBLIC_REPORT_REVIEW_BATCH_SIZE
    Recent,           \* timer intervals a review counts as recent
    Attempts,         \* of a job
    Actions,          \* of operators on reports
    NoVehicle, NoReport,
    MaxReports,       \* bound: reports submitted
    MaxOthers,        \* bound: incidents that come from elsewhere
    MaxFailures       \* bound: failed reviews, jobs delivered twice

ASSUME ReportAssumption ==
    /\ NoVehicle \notin Vehicles
    /\ {Batch, Recent, Attempts} \subseteq Nat \ {0}
    /\ {MaxReports, MaxOthers, MaxFailures} \subseteq Nat
    /\ Actions \subseteq {"ACKNOWLEDGE", "REJECT", "RESOLVE", "ESCALATE_TO_INCIDENT"}
    /\ NoReport \notin 1..MaxReports

VARIABLES
    reports,     \* public_reports, in the order of created_at
    incidents,   \* incidents, in the order of created_at; no one here reads their status
    jobs,        \* the queue: a job per report
    tx,          \* the review each worker has open
    failures

vars == <<reports, incidents, jobs, tx, failures>>

Idle == [report |-> 0]
NoIncident == 0
NoJob == [state |-> "none", left |-> 0]
------------------------------------------------------------------------------
\* The rule a category is about. Operators' incidents keep the category itself.
categoryRule(c) == IF c = "RECKLESS_DRIVING" THEN "OVERSPEED" ELSE c

\* Only these two categories have a rule that confirms a report.
Confirmable == {"NGETEM", "RECKLESS_DRIVING"}

\* decideVerdict, as far as it does not depend on positions. REJECT_SUSPECTED_SPAM,
\* INCONCLUSIVE and LIKELY are noted and leave the report to the operators alike.
Verdicts(vehicle, category) ==
    {"UNCONFIRMED"} \cup
    {verdict \in {"CONFIRMED"} : vehicle # NoVehicle /\ category \in Confirmable}

\* The incident a review of r finds: the newest of the vehicle and the rule,
\* open or closed, that is not older than the report by half an hour.
MatchingCategory(r, vehicle) ==
    {i \in DOMAIN incidents : /\ i > r.tooOld
                              /\ incidents[i].vehicle = vehicle
                              /\ incidents[i].type = r.category}
Matching(r, vehicle) ==
    {i \in DOMAIN incidents : /\ i > r.tooOld
                              /\ incidents[i].vehicle = vehicle
                              /\ incidents[i].type = categoryRule(r.category)}
Newest(S) == IF S = {} THEN NoIncident ELSE CHOOSE i \in S : \A j \in S : j <= i

Pending(n) == n \in DOMAIN reports /\ reports[n].status = "PENDING_REVIEW"

\* Pending reports without a recent review, the oldest first.
DueAnyStatus == {n \in DOMAIN reports : reports[n].age >= Recent}
Due == {n \in DOMAIN reports : Pending(n) /\ reports[n].age >= Recent}
Selected == {n \in Due : Cardinality({m \in Due : m < n}) < Batch}

\* Who holds the row of a report.
NeverLocked(n) == FALSE
Locked(n) == \E w \in Workers : tx[w].report = n

Init ==
    /\ reports = <<>> /\ incidents = <<>>
    /\ jobs = [n \in 1..MaxReports |-> NoJob]
    /\ tx = [w \in Workers |-> Idle]
    /\ failures = 0
------------------------------------------------------------------------------
(* The gateway.                                                                *)

\* reported_at is the client's: any number of the oldest incidents may be more
\* than half an hour older.
Submit ==
    /\ Len(reports) < MaxReports
    /\ \E v \in Vehicles \cup {NoVehicle}, c \in Categories, old \in 0..Len(incidents) :
         reports' = Append(reports,
             [vehicle |-> v, category |-> c, status |-> "PENDING_REVIEW",
              incident |-> NoIncident, age |-> Recent, tooOld |-> old])
    /\ UNCHANGED <<incidents, jobs, tx, failures>>

\* `by`, `from` and `read` are history: who made it, for which report, and how many
\* incidents there were when that was decided.
Incident(v, type, maker, n, k) ==
    [vehicle |-> v, type |-> type, by |-> maker, from |-> n, read |-> k]

NextStatusVerbatim(a) == a
NextStatus(a) == CASE a = "ACKNOWLEDGE" -> "ACKNOWLEDGED"
                   [] a = "REJECT" -> "REJECTED"
                   [] a = "RESOLVE" -> "RESOLVED"
                   [] a = "ESCALATE_TO_INCIDENT" -> "ESCALATED_TO_INCIDENT"

\* POST /operator/public-reports/:id/actions: whatever the status is.
OperatorAction(n, a) ==
    /\ n \in DOMAIN reports /\ ~Locked(n)
    /\ LET r == reports[n]
           makes == a = "ESCALATE_TO_INCIDENT" /\ r.incident = NoIncident
           here == IF makes THEN Len(incidents) + 1 ELSE r.incident
       IN /\ incidents' = IF makes
                            THEN Append(incidents,
                                  Incident(r.vehicle, r.category, "operator", n, Len(incidents)))
                            ELSE incidents
          /\ reports' = [reports EXCEPT ![n].status = NextStatus(a), ![n].incident = here]
    /\ UNCHANGED <<jobs, tx, failures>>

\* An incident that the rules engine or an operator opens.
OtherIncident(v, type) ==
    /\ Cardinality({i \in DOMAIN incidents : incidents[i].from = NoReport}) < MaxOthers
    /\ incidents' = Append(incidents, Incident(v, type, "other", NoReport, Len(incidents)))
    /\ UNCHANGED <<reports, jobs, tx, failures>>
------------------------------------------------------------------------------
(* The queue. A job that is waiting or active is not added again; a completed    *)
(* one is removed and added anew.                                                *)

Enqueued(S) == [n \in 1..MaxReports |->
    IF n \in S /\ jobs[n].state \in {"none", "completed"}
      THEN [state |-> "waiting", left |-> Attempts] ELSE jobs[n]]

\* The timer. An interval is minutes and a review seconds: the jobs of the last
\* one are done.
Schedule ==
    /\ \A n \in 1..MaxReports : jobs[n].state \in {"none", "completed"}
    /\ jobs' = Enqueued(Selected)
    /\ reports' = [n \in DOMAIN reports |->
                     [reports[n] EXCEPT !.age = IF @ < Recent THEN @ + 1 ELSE @]]
    /\ UNCHANGED <<incidents, tx, failures>>

\* POST /operator/public-reports/reviews/run, with its own limit.
RunReviews ==
    /\ Due # {}
    /\ \E limit \in 1..MaxReports :
         jobs' = Enqueued({n \in Due : Cardinality({m \in Due : m < n}) < limit})
    /\ UNCHANGED <<reports, incidents, tx, failures>>
------------------------------------------------------------------------------
(* A worker.                                                                     *)

\* The job is taken and the transaction begins: the report locked and read, a
\* plate that has been registered meanwhile matched, the evidence read.
BeginReview(w, n) ==
    /\ tx[w] = Idle /\ jobs[n].state = "waiting"
    /\ ~Locked(n) /\ Pending(n)
    /\ jobs' = [jobs EXCEPT ![n].state = "active"]
    /\ \E v \in IF reports[n].vehicle = NoVehicle THEN Vehicles \cup {NoVehicle}
                                                  ELSE {reports[n].vehicle} :
         \E verdict \in Verdicts(v, reports[n].category) :
           tx' = [tx EXCEPT ![w] =
               [report |-> n, vehicle |-> v, verdict |-> verdict,
                incident |-> reports[n].incident,
                match |-> Newest(IF v = NoVehicle THEN {} ELSE Matching(reports[n], v)),
                read |-> Len(incidents)]]
    /\ UNCHANGED <<reports, incidents, failures>>

\* It finds the report decided.
SkipReview(w, n) ==
    /\ tx[w] = Idle /\ jobs[n].state = "waiting"
    /\ ~Locked(n) /\ ~Pending(n)
    /\ jobs' = [jobs EXCEPT ![n].state = "completed"]
    /\ UNCHANGED <<reports, incidents, tx, failures>>

\* autoEscalateConfirmedReport: the report's incident, or the one it matched, or
\* a new one.
Reviewed(r, t, incident) ==
    [r EXCEPT !.vehicle = t.vehicle, !.age = 0, !.incident = incident,
              !.status = IF t.verdict = "CONFIRMED" THEN "ESCALATED_TO_INCIDENT" ELSE @]

Done(n) == IF jobs[n].state = "active" THEN [jobs EXCEPT ![n].state = "completed"] ELSE jobs

CommitReview(w) ==
    LET t == tx[w]
        r == reports[t.report]
        existing == IF t.incident # NoIncident THEN t.incident ELSE t.match
    IN
    /\ t # Idle
    /\ IF t.verdict = "CONFIRMED" /\ existing = NoIncident
         THEN /\ incidents' = Append(incidents,
                     Incident(t.vehicle, categoryRule(r.category), "review", t.report, t.read))
              /\ reports' = [reports EXCEPT ![t.report] = Reviewed(r, t, Len(incidents) + 1)]
         ELSE /\ reports' = [reports EXCEPT ![t.report] =
                     Reviewed(r, t, IF t.verdict = "CONFIRMED" THEN existing ELSE t.incident)]
              /\ UNCHANGED incidents
    /\ jobs' = Done(t.report)
    /\ tx' = [tx EXCEPT ![w] = Idle]
    /\ UNCHANGED failures

\* The transaction is rolled back; the job is tried again, or removed.
ReviewFails(w) ==
    /\ tx[w] # Idle
    /\ failures < MaxFailures /\ failures' = failures + 1
    /\ LET n == tx[w].report
       IN jobs' = IF jobs[n].state # "active" THEN jobs
                  ELSE [jobs EXCEPT ![n] =
                          IF @.left > 1 THEN [state |-> "waiting", left |-> @.left - 1] ELSE NoJob]
    /\ tx' = [tx EXCEPT ![w] = Idle]
    /\ UNCHANGED <<reports, incidents>>

\* A worker that did not renew its lock in time: the queue delivers the job
\* again while the first run goes on.
Redeliver(n) ==
    /\ jobs[n].state = "active"
    /\ failures < MaxFailures /\ failures' = failures + 1
    /\ jobs' = [jobs EXCEPT ![n].state = "waiting"]
    /\ UNCHANGED <<reports, incidents, tx>>
------------------------------------------------------------------------------
Work(w) ==
    \/ CommitReview(w)
    \/ \E n \in 1..MaxReports : BeginReview(w, n) \/ SkipReview(w, n)

Next ==
    \/ Submit \/ Schedule \/ RunReviews
    \/ \E n \in 1..MaxReports : \/ Redeliver(n)
                                \/ \E a \in Actions : OperatorAction(n, a)
    \/ \E w \in Workers : Work(w) \/ ReviewFails(w)
    \/ \E v \in Vehicles, c \in Categories : OtherIncident(v, categoryRule(c))

Spec == Init /\ [][Next]_vars

\* setInterval goes on, and a worker takes what waits and finishes what it began.
FairSpec == Spec /\ WF_vars(Schedule) /\ \A w \in Workers : WF_vars(Work(w))
------------------------------------------------------------------------------
(* Properties                                                                  *)

MaxIncidents == MaxReports + MaxOthers

ReportType ==
    [vehicle : Vehicles \cup {NoVehicle}, category : Categories,
     status : {"PENDING_REVIEW", "ACKNOWLEDGED", "REJECTED", "RESOLVED", "ESCALATED_TO_INCIDENT"},
     incident : 0..MaxIncidents, age : 0..Recent, tooOld : 0..MaxIncidents]
IncidentType ==
    [vehicle : Vehicles \cup {NoVehicle}, type : Categories \cup {categoryRule(c) : c \in Categories},
     by : {"review", "operator", "other"}, from : 1..MaxReports \cup {NoReport}, read : 0..MaxIncidents]
JobType == [state : {"none", "waiting", "active", "completed"}, left : 0..Attempts]
ReviewType ==
    [report : 1..MaxReports, vehicle : Vehicles \cup {NoVehicle},
     verdict : {"UNCONFIRMED", "CONFIRMED"},
     incident : 0..MaxIncidents, match : 0..MaxIncidents, read : 0..MaxIncidents]

\* Types. Every name of an incident is in range: reports and reviews cannot make
\* more incidents than there are reports.
TypeOK ==
    /\ reports \in Seq(ReportType) /\ Len(reports) <= MaxReports
    /\ incidents \in Seq(IncidentType)
    /\ jobs \in [1..MaxReports -> JobType]
    /\ tx \in [Workers -> {Idle} \cup ReviewType]
    /\ failures \in 0..MaxFailures

\* A report makes at most one incident, and keeps naming it: a review that is
\* delivered twice, fails and is tried again, or meets an operator who escalates
\* the same report, makes no second one and leaves none behind.
OneIncidentPerReport ==
    \A i \in DOMAIN incidents :
        incidents[i].from # NoReport => reports[incidents[i].from].incident = i

\* A review makes no second incident of a case, the vehicle and the rule of its
\* report, whoever made the first: it makes one beside an older one only if it read
\* the table before that was there, or that is too old for its report.
SameCaseSharesIncident ==
    \A i, j \in DOMAIN incidents :
        /\ i < j /\ incidents[j].by = "review"
        /\ incidents[i].vehicle = incidents[j].vehicle /\ incidents[i].type = incidents[j].type
        /\ i > reports[incidents[j].from].tooOld
        => incidents[j].read < i

\* A review never changes a report that an operator has decided, even if it was
\* queued, or had begun, before.
DecisionStands ==
    [][\A w \in Workers : CommitReview(w) =>
          \A n \in DOMAIN reports : ~Pending(n) => reports'[n] = reports[n]]_vars

\* A report that stays pending is reviewed again and again, unless the older
\* pending ones fill every batch until the first of them are due again: no job that
\* failed, was repeated or was lost keeps its report off the queue.
Ahead(n) == {m \in 1..(n - 1) : Pending(m)}
ReviewedUnlessCrowdedOut ==
    \A n \in 1..MaxReports :
        <>[](Pending(n) /\ Cardinality(Ahead(n)) < Batch * (Recent + 1)) =>
            []<><<\E w \in Workers : tx[w].report = n /\ CommitReview(w)>>_vars
================================================================================
