--------------------------- MODULE PublicReportProofs ---------------------------
(***************************************************************************)
(* What repeated, late and overtaken reviews never do, for any vehicles,   *)
(* categories, workers, batches and bounds: a second incident for a        *)
(* report, one beside an incident they had read, a decision undone.        *)
(***************************************************************************)
EXTENDS PublicReport, SequenceTheorems, FiniteSetTheorems, WellFoundedInduction, TLAPS

\* The types without the bound on the incidents, which follows in FewIncidents.
AnyReport ==
    [vehicle : Vehicles \cup {NoVehicle}, category : Categories,
     status : {"PENDING_REVIEW", "ACKNOWLEDGED", "REJECTED", "RESOLVED", "ESCALATED_TO_INCIDENT"},
     incident : Nat, age : 0..Recent, tooOld : Nat]
AnyIncident ==
    [vehicle : Vehicles \cup {NoVehicle}, type : Categories \cup {categoryRule(c) : c \in Categories},
     by : {"review", "operator", "other"}, from : 1..MaxReports \cup {NoReport}, read : Nat]
AnyReview ==
    [report : 1..MaxReports, vehicle : Vehicles \cup {NoVehicle},
     verdict : {"UNCONFIRMED", "CONFIRMED"},
     incident : Nat, match : Nat, read : Nat]

Types ==
    /\ reports \in Seq(AnyReport) /\ Len(reports) <= MaxReports
    /\ incidents \in Seq(AnyIncident)
    /\ jobs \in [1..MaxReports -> JobType]
    /\ tx \in [Workers -> {Idle} \cup AnyReview]
    /\ failures \in 0..MaxFailures

Others == {i \in DOMAIN incidents : incidents[i].from = NoReport}
FewOthers == Cardinality(Others) <= MaxOthers

\* Whoever names an incident names one that is there.
NamesExist ==
    /\ \A n \in DOMAIN reports : reports[n].incident <= Len(incidents)
                              /\ reports[n].tooOld <= Len(incidents)
    /\ \A i \in DOMAIN incidents : incidents[i].read <= Len(incidents)
    /\ \A w \in Workers : tx[w] # Idle =>
         /\ tx[w].incident <= Len(incidents) /\ tx[w].match <= Len(incidents)
         /\ tx[w].read <= Len(incidents)

\* An incident's report is there and names it. A review makes one for a report.
MakerNamesIt ==
    \A i \in DOMAIN incidents :
        /\ incidents[i].by = "review" => incidents[i].from # NoReport
        /\ incidents[i].from # NoReport =>
             /\ incidents[i].from \in DOMAIN reports
             /\ reports[incidents[i].from].incident = i

\* The row lock: a report under review is in one review, still pending, and names
\* the incident the review has read.
RowHeld ==
    /\ \A w \in Workers : tx[w] # Idle =>
         /\ tx[w].report \in DOMAIN reports
         /\ reports[tx[w].report].status = "PENDING_REVIEW"
         /\ tx[w].incident = reports[tx[w].report].incident
         /\ tx[w].verdict = "CONFIRMED" => tx[w].vehicle # NoVehicle
    /\ \A v, w \in Workers : v # w /\ tx[v] # Idle => tx[v].report # tx[w].report

\* A review that matched nothing had nothing to match among what it read.
NothingMissed ==
    \A w \in Workers :
        tx[w] # Idle /\ tx[w].vehicle # NoVehicle /\ tx[w].match = NoIncident =>
            \A i \in 1..tx[w].read :
                ~ /\ i > reports[tx[w].report].tooOld
                  /\ incidents[i].vehicle = tx[w].vehicle
                  /\ incidents[i].type = categoryRule(reports[tx[w].report].category)

PInv ==
    /\ Types
    /\ FewOthers
    /\ NamesExist
    /\ MakerNamesIt
    /\ RowHeld
    /\ NothingMissed
    /\ SameCaseSharesIncident
-----------------------------------------------------------------------------
(* The tables.                                                             *)

\* The shape of the tables and of an open review.
LEMMA Shapes ==
    ASSUME Types
    PROVE  /\ Len(reports) \in Nat /\ DOMAIN reports = 1..Len(reports)
           /\ reports \in [1..Len(reports) -> AnyReport]
           /\ Len(incidents) \in Nat /\ DOMAIN incidents = 1..Len(incidents)
           /\ incidents \in [1..Len(incidents) -> AnyIncident]
           /\ \A w \in Workers : tx[w] # Idle => tx[w] \in AnyReview
           /\ \A w \in Workers : tx[w] = Idle <=> tx[w].report = 0
           /\ MaxReports \in Nat /\ MaxOthers \in Nat /\ Recent \in Nat /\ Recent > 0
<1>1. /\ Len(reports) \in Nat /\ DOMAIN reports = 1..Len(reports)
      /\ reports \in [1..Len(reports) -> AnyReport]
  BY LenProperties DEF Types
<1>2. /\ Len(incidents) \in Nat /\ DOMAIN incidents = 1..Len(incidents)
      /\ incidents \in [1..Len(incidents) -> AnyIncident]
  BY LenProperties DEF Types
<1>3. \A w \in Workers : tx[w] = Idle \/ tx[w] \in AnyReview
  BY DEF Types
<1>4. Idle.report = 0 /\ \A r \in AnyReview : r.report # 0
  BY DEF Idle, AnyReview
<1>5. MaxReports \in Nat /\ MaxOthers \in Nat /\ Recent \in Nat /\ Recent > 0
  BY ReportAssumption
<1> QED BY <1>1, <1>2, <1>3, <1>4, <1>5

\* A report is updated.
LEMMA ReportUpdated ==
    ASSUME Types, NEW n \in DOMAIN reports, NEW r \in AnyReport,
           reports' = [reports EXCEPT ![n] = r]
    PROVE  /\ reports' \in Seq(AnyReport) /\ Len(reports') = Len(reports)
           /\ DOMAIN reports' = DOMAIN reports
           /\ reports'[n] = r
           /\ \A m \in DOMAIN reports : m # n => reports'[m] = reports[m]
<1>1. n \in 1..Len(reports) /\ reports \in Seq(AnyReport)
  BY Shapes DEF Types
<1>2. reports' \in Seq(AnyReport) /\ Len(reports') = Len(reports)
  BY <1>1, ExceptSeq, Zenon
<1> QED BY <1>1, <1>2, Shapes, LenProperties

\* An incident is opened.
LEMMA IncidentAdded ==
    ASSUME Types, NEW e \in AnyIncident, incidents' = Append(incidents, e)
    PROVE  /\ incidents' \in Seq(AnyIncident) /\ Len(incidents') = Len(incidents) + 1
           /\ DOMAIN incidents' = 1..(Len(incidents) + 1)
           /\ incidents'[Len(incidents) + 1] = e
           /\ \A i \in DOMAIN incidents : incidents'[i] = incidents[i]
<1>1. incidents \in Seq(AnyIncident)
  BY DEF Types
<1>2. /\ incidents' \in Seq(AnyIncident) /\ Len(incidents') = Len(incidents) + 1
      /\ \A i \in 1..Len(incidents) : incidents'[i] = incidents[i]
      /\ incidents'[Len(incidents) + 1] = e
  BY <1>1, AppendProperties
<1> QED BY <1>2, Shapes, LenProperties

\* The newest of some incidents is one of them.
LEMMA NewestIsOne ==
    ASSUME NEW len \in Nat, NEW S \in SUBSET (1..len)
    PROVE  /\ Newest(S) \in S \cup {NoIncident} /\ Newest(S) \in 0..len
           /\ S # {} => Newest(S) # NoIncident
<1>1. CASE S = {}
  BY <1>1 DEF Newest, NoIncident
<1>2. CASE S # {}
  <2> DEFINE R == OpToRel(<, Nat)
             T == {k \in Nat : len - k \in S}
  <2>1. IsWellFoundedOn(R, Nat)
    BY NatLessThanWellFounded
  <2>2. \A m, n \in Nat : <<m, n>> \in R <=> m < n
    BY DEF OpToRel
  <2>3. T \subseteq Nat /\ T # {}
    <3>1. PICK i \in S : i \in 1..len
      BY <1>2
    <3>2. len - i \in Nat /\ len - (len - i) = i
      BY <3>1
    <3> QED BY <3>1, <3>2
  <2> HIDE DEF R
  <2>4. \E x \in T : \A y \in T : <<y, x>> \notin R
    BY <2>1, <2>3, WFMin
  <2>5. PICK x \in T : \A y \in T : <<y, x>> \notin R
    BY <2>4
  <2>6. x \in Nat /\ len - x \in S
    BY <2>5
  <2>7. \A j \in S : j <= len - x
    <3> TAKE j \in S
    <3>1. j \in 1..len /\ len - j \in Nat /\ len - (len - j) = j
      OBVIOUS
    <3>2. len - j \in T
      BY <3>1
    <3>3. ~(len - j < x)
      BY <2>2, <2>5, <2>6, <3>1, <3>2
    <3> QED BY <2>6, <3>1, <3>3
  <2> HIDE DEF T
  <2>8. Newest(S) \in S
    BY <1>2, <2>6, <2>7 DEF Newest
  <2>9. Newest(S) \in 1..len
    BY <2>8
  <2> QED BY <2>8, <2>9 DEF NoIncident
<1> QED BY <1>1, <1>2

\* There are no more incidents than reports and others.
LEMMA FewIncidents ==
    ASSUME Types, FewOthers, MakerNamesIt
    PROVE  Len(incidents) <= MaxIncidents
<1> DEFINE made == DOMAIN incidents \ Others
           maker == [i \in made |-> incidents[i].from]
           all == 1..Len(incidents)
<1>1. IsFiniteSet(1..MaxReports) /\ Cardinality(1..MaxReports) = MaxReports
  <2>1. MaxReports \in Nat
    BY Shapes
  <2> QED BY <2>1, FS_Interval
<1>2. maker \in Injection(made, 1..MaxReports)
  <2>1. \A i \in made : incidents[i].from \in 1..MaxReports
    BY Shapes DEF Others, AnyIncident
  <2>2. \A i, j \in made : incidents[i].from = incidents[j].from => i = j
    BY DEF MakerNamesIt, Others
  <2> QED BY <2>1, <2>2 DEF Injection, IsInjective
<1>3. IsFiniteSet(made) /\ Cardinality(made) <= MaxReports
  BY <1>1, <1>2, FS_Injection
<1>4. IsFiniteSet(all) /\ Cardinality(all) = Len(incidents)
  <2> DEFINE k == Len(incidents)
  <2>1. k \in Nat
    BY Shapes
  <2> HIDE DEF k
  <2>2. IsFiniteSet(1..k) /\ Cardinality(1..k) = k
    BY <2>1, FS_Interval
  <2> QED BY <2>2 DEF k
<1>5. IsFiniteSet(Others)
  <2>1. Others \subseteq all
    BY Shapes DEF Others
  <2> QED BY <1>4, <2>1, FS_Subset
<1>6. made \cup Others = all /\ made \cap Others = {}
  BY Shapes DEF Others
<1> HIDE DEF made, all
<1>7. Cardinality(all) = Cardinality(made) + Cardinality(Others) - Cardinality({})
  <2>1. Cardinality(made \cup Others)
           = Cardinality(made) + Cardinality(Others) - Cardinality(made \cap Others)
    BY <1>3, <1>5, FS_Union
  <2> QED BY <1>6, <2>1
<1>8. Cardinality({}) = 0
  BY FS_EmptySet
<1>9. /\ Cardinality(made) \in Nat /\ Cardinality(Others) \in Nat
      /\ MaxReports \in Nat /\ MaxOthers \in Nat
  BY <1>3, <1>5, FS_CardinalityType, Shapes
<1> QED BY <1>3, <1>4, <1>7, <1>8, <1>9 DEF FewOthers, MaxIncidents

-----------------------------------------------------------------------------
(* The steps.                                                              *)

LEMMA PInvInit == Init => PInv
<1> SUFFICES ASSUME Init
             PROVE  PInv
  OBVIOUS
<1>1. /\ reports \in Seq(AnyReport) /\ Len(reports) = 0 /\ DOMAIN reports = {}
      /\ incidents \in Seq(AnyIncident) /\ Len(incidents) = 0 /\ DOMAIN incidents = {}
  BY EmptySeq, LenProperties DEF Init
<1>2. \A w \in Workers : tx[w] = Idle
  BY DEF Init
<1>3. Types
  BY <1>1, ReportAssumption DEF Types, Init, JobType, NoJob
<1>4. FewOthers
  <2>1. Others = {} /\ MaxOthers \in Nat
    BY <1>1, ReportAssumption DEF Others
  <2> QED BY <2>1, FS_EmptySet DEF FewOthers
<1> QED BY <1>1, <1>2, <1>3, <1>4
        DEF PInv, NamesExist, MakerNamesIt, RowHeld, NothingMissed, SameCaseSharesIncident

\* What moves only jobs and the ages of reviews.
LEMMA TablesStand ==
    ASSUME PInv, Types', incidents' = incidents, tx' = tx,
           DOMAIN reports' = DOMAIN reports,
           \A n \in DOMAIN reports :
               /\ reports'[n].category = reports[n].category
               /\ reports'[n].status = reports[n].status
               /\ reports'[n].incident = reports[n].incident
               /\ reports'[n].tooOld = reports[n].tooOld
    PROVE  PInv'
<1>1. FewOthers' /\ NamesExist' /\ MakerNamesIt'
  BY Shapes DEF PInv, FewOthers, Others, NamesExist, MakerNamesIt
<1>2. RowHeld'
  BY DEF PInv, RowHeld
<1>3. NothingMissed'
  BY DEF PInv, NothingMissed, RowHeld
<1>4. SameCaseSharesIncident'
  <2>1. \A j \in DOMAIN incidents : incidents[j].by = "review" =>
          reports'[incidents[j].from].tooOld = reports[incidents[j].from].tooOld
    BY DEF PInv, MakerNamesIt
  <2> QED BY <2>1 DEF PInv, SameCaseSharesIncident
<1> QED BY <1>1, <1>2, <1>3, <1>4 DEF PInv

\* Putting jobs on the queue keeps its shape.
LEMMA EnqueuedType == ASSUME Types, NEW S PROVE Enqueued(S) \in [1..MaxReports -> JobType]
BY ReportAssumption DEF Types, Enqueued, JobType

LEMMA DoneType ==
    ASSUME Types, NEW n \in 1..MaxReports PROVE Done(n) \in [1..MaxReports -> JobType]
BY DEF Types, Done, JobType

LEMMA QueueKeeps ==
    ASSUME PInv, Schedule \/ RunReviews \/ (\E n \in 1..MaxReports : Redeliver(n))
                 \/ (\E w \in Workers, n \in 1..MaxReports : SkipReview(w, n))
    PROVE  PInv'
<1> USE DEF PInv
<1>1. CASE Schedule
  <2>1. \A n \in DOMAIN reports :
          \E age \in 0..Recent : reports'[n] = [reports[n] EXCEPT !.age = age]
    <3> TAKE n \in DOMAIN reports
    <3> DEFINE age == IF reports[n].age < Recent THEN reports[n].age + 1 ELSE reports[n].age
    <3>1. reports[n].age \in 0..Recent /\ Recent \in Nat
      BY Shapes DEF AnyReport
    <3>2. age \in 0..Recent
      BY <3>1
    <3>3. reports'[n] = [reports[n] EXCEPT !.age = age]
      BY <1>1 DEF Schedule
    <3> QED BY <3>2, <3>3
  <2>2. DOMAIN reports' = DOMAIN reports /\ reports' \in [1..Len(reports) -> AnyReport]
    <3>1. \A n \in DOMAIN reports : reports'[n] \in AnyReport
      BY <2>1, Shapes DEF AnyReport
    <3> QED BY <1>1, <3>1, Shapes DEF Schedule
  <2>3. reports' \in Seq(AnyReport) /\ Len(reports') = Len(reports)
    BY <2>2, Shapes
  <2>4. Types'
    BY <1>1, <2>3, EnqueuedType DEF Schedule, Types
  <2>5. \A n \in DOMAIN reports :
          /\ reports'[n].category = reports[n].category
          /\ reports'[n].status = reports[n].status
          /\ reports'[n].incident = reports[n].incident
          /\ reports'[n].tooOld = reports[n].tooOld
    BY <2>1, Shapes DEF AnyReport
  <2> QED BY <1>1, <2>2, <2>4, <2>5, TablesStand DEF Schedule
<1>2. CASE RunReviews
  <2>1. Types'
    BY <1>2, EnqueuedType DEF RunReviews, Types
  <2> QED BY <1>2, <2>1, TablesStand DEF RunReviews
<1>3. ASSUME NEW n \in 1..MaxReports, Redeliver(n) PROVE PInv'
  <2>1. Types'
    <3>1. jobs' \in [1..MaxReports -> JobType]
      BY <1>3 DEF Redeliver, Types, JobType
    <3>2. failures' \in 0..MaxFailures
      BY <1>3, ReportAssumption DEF Redeliver, Types
    <3> QED BY <1>3, <3>1, <3>2 DEF Redeliver, Types
  <2> QED BY <1>3, <2>1, TablesStand DEF Redeliver
<1>4. ASSUME NEW w \in Workers, NEW n \in 1..MaxReports, SkipReview(w, n) PROVE PInv'
  <2>1. Types'
    BY <1>4 DEF SkipReview, Types, JobType
  <2> QED BY <1>4, <2>1, TablesStand DEF SkipReview
<1> QED BY <1>1, <1>2, <1>3, <1>4

\* A rolled back review leaves its row free and nothing else.
LEMMA ReviewFailsKeeps ==
    ASSUME PInv, NEW w \in Workers, ReviewFails(w) PROVE PInv'
<1> USE DEF PInv
<1>1. Types'
  <2>1. tx[w] \in AnyReview /\ tx[w].report \in 1..MaxReports
    BY Shapes DEF ReviewFails, AnyReview
  <2>2. tx' \in [Workers -> {Idle} \cup AnyReview] /\ failures' \in 0..MaxFailures
    BY ReportAssumption DEF ReviewFails, Types
  <2>3. jobs' \in [1..MaxReports -> JobType]
    BY <2>1, ReportAssumption DEF ReviewFails, Types, JobType, NoJob
  <2> QED BY <2>2, <2>3 DEF ReviewFails, Types
<1>2. \A v \in Workers : tx'[v] # Idle => tx'[v] = tx[v] /\ tx[v] # Idle
  BY DEF ReviewFails, Types
<1>3. UNCHANGED <<reports, incidents>>
  BY DEF ReviewFails
<1>4. \A v \in Workers : tx'[v] = tx[v] \/ tx'[v] = Idle
  BY DEF ReviewFails, Types
<1>5. FewOthers' /\ NamesExist' /\ MakerNamesIt' /\ SameCaseSharesIncident'
  BY <1>2, <1>3 DEF FewOthers, Others, NamesExist, MakerNamesIt, SameCaseSharesIncident
<1>6. RowHeld'
  <2>1. \A v \in Workers : tx'[v] = Idle => tx'[v].report = 0
    BY DEF Idle
  <2>2. \A u, v \in Workers : u # v /\ tx'[u] # Idle => tx'[u].report # tx'[v].report
    <3> TAKE u, v \in Workers
    <3> HAVE u # v /\ tx'[u] # Idle
    <3>1. tx'[u] = tx[u] /\ tx[u] # Idle /\ tx[u].report # 0 /\ tx[u].report # tx[v].report
      BY <1>2, Shapes DEF RowHeld
    <3> QED BY <1>4, <2>1, <3>1
  <2>3. \A v \in Workers : tx'[v] # Idle =>
          /\ tx'[v].report \in DOMAIN reports'
          /\ reports'[tx'[v].report].status = "PENDING_REVIEW"
          /\ tx'[v].incident = reports'[tx'[v].report].incident
          /\ tx'[v].verdict = "CONFIRMED" => tx'[v].vehicle # NoVehicle
    BY <1>2, <1>3 DEF RowHeld
  <2> QED BY <2>2, <2>3 DEF RowHeld
<1>7. NothingMissed'
  BY <1>2, <1>3 DEF NothingMissed
<1> QED BY <1>1, <1>5, <1>6, <1>7

\* A review locks a row nobody holds and reads every incident there is.
LEMMA BeginReviewKeeps ==
    ASSUME PInv, NEW w \in Workers, NEW n \in 1..MaxReports, BeginReview(w, n) PROVE PInv'
<1> USE DEF PInv
<1>0. n \in DOMAIN reports /\ reports[n] \in AnyReport
  BY Shapes DEF BeginReview, Pending
<1>1. PICK v \in Vehicles \cup {NoVehicle} :
        \E verdict \in Verdicts(v, reports[n].category) :
          tx' = [tx EXCEPT ![w] =
                  [report |-> n, vehicle |-> v, verdict |-> verdict,
                   incident |-> reports[n].incident,
                   match |-> Newest(IF v = NoVehicle THEN {} ELSE Matching(reports[n], v)),
                   read |-> Len(incidents)]]
  <2>1. reports[n].vehicle \in Vehicles \cup {NoVehicle}
    BY <1>0 DEF AnyReport
  <2> QED BY <2>1 DEF BeginReview
<1>1a. PICK verdict \in Verdicts(v, reports[n].category) :
          tx' = [tx EXCEPT ![w] =
                  [report |-> n, vehicle |-> v, verdict |-> verdict,
                   incident |-> reports[n].incident,
                   match |-> Newest(IF v = NoVehicle THEN {} ELSE Matching(reports[n], v)),
                   read |-> Len(incidents)]]
  BY <1>1
<1> DEFINE found == IF v = NoVehicle THEN {} ELSE Matching(reports[n], v)
           t == [report |-> n, vehicle |-> v, verdict |-> verdict,
                 incident |-> reports[n].incident, match |-> Newest(found),
                 read |-> Len(incidents)]
<1>2. /\ UNCHANGED <<reports, incidents, failures>> /\ Pending(n)
      /\ tx[w] = Idle /\ \A u \in Workers : tx[u].report # n
  BY DEF BeginReview, Locked
<1>3. tx' = [tx EXCEPT ![w] = t] /\ tx'[w] = t /\ \A u \in Workers \ {w} : tx'[u] = tx[u]
  BY <1>1a DEF Types
<1>4. found \in SUBSET (1..Len(incidents)) /\ Len(incidents) \in Nat
  BY Shapes DEF Matching
<1> HIDE DEF found
<1>5. Newest(found) \in 0..Len(incidents) /\ (found # {} => Newest(found) # NoIncident)
  BY <1>4, NewestIsOne
<1>6. /\ verdict \in {"UNCONFIRMED", "CONFIRMED"}
      /\ verdict = "CONFIRMED" => v # NoVehicle
  BY DEF Verdicts
<1>7. n \in DOMAIN reports /\ reports[n].incident \in Nat /\ reports[n].incident <= Len(incidents)
  <2>1. n \in DOMAIN reports
    BY <1>2 DEF Pending
  <2>2. reports[n] \in AnyReport
    BY <2>1, Shapes
  <2> QED BY <2>1, <2>2 DEF AnyReport, NamesExist
<1>8. t \in AnyReview /\ t # Idle
  <2>1. t \in AnyReview
    BY <1>4, <1>5, <1>6, <1>7 DEF AnyReview
  <2>2. t.report # 0 /\ Idle.report = 0
    BY DEF Idle
  <2> QED BY <2>1, <2>2
<1>9. t.report = n /\ t.vehicle = v /\ t.verdict = verdict /\ t.incident = reports[n].incident
      /\ t.match = Newest(found) /\ t.read = Len(incidents)
  OBVIOUS
<1> HIDE DEF t
<1>10. Types'
  <2>1. jobs' \in [1..MaxReports -> JobType]
    BY DEF BeginReview, Types, JobType
  <2>2. tx' \in [Workers -> {Idle} \cup AnyReview]
    BY <1>3, <1>8 DEF Types
  <2> QED BY <1>2, <2>1, <2>2 DEF Types
<1>11. FewOthers' /\ MakerNamesIt' /\ SameCaseSharesIncident'
  BY <1>2 DEF FewOthers, Others, MakerNamesIt, SameCaseSharesIncident
<1>12. NamesExist'
  <2>1. t.incident <= Len(incidents) /\ t.match <= Len(incidents) /\ t.read <= Len(incidents)
    BY <1>4, <1>5, <1>7, <1>9
  <2> QED BY <1>2, <1>3, <2>1 DEF NamesExist
<1>13. RowHeld'
  <2>1. \A u \in Workers : tx'[u] # Idle =>
          /\ tx'[u].report \in DOMAIN reports'
          /\ reports'[tx'[u].report].status = "PENDING_REVIEW"
          /\ tx'[u].incident = reports'[tx'[u].report].incident
          /\ tx'[u].verdict = "CONFIRMED" => tx'[u].vehicle # NoVehicle
    BY <1>2, <1>3, <1>6, <1>9 DEF RowHeld, Pending
  <2>2. \A u, x \in Workers : u # x /\ tx'[u] # Idle => tx'[u].report # tx'[x].report
    BY <1>2, <1>3, <1>9 DEF RowHeld
  <2> QED BY <2>1, <2>2 DEF RowHeld
<1>14. NothingMissed'
  <2>1. ASSUME v # NoVehicle, Newest(found) = NoIncident,
               NEW i \in 1..Len(incidents), i > reports[n].tooOld,
               incidents[i].vehicle = v, incidents[i].type = categoryRule(reports[n].category)
        PROVE  FALSE
    <3>1. i \in found
      BY <2>1, Shapes DEF found, Matching
    <3> QED BY <1>5, <2>1, <3>1
  <2> QED BY <1>2, <1>3, <1>9, <2>1 DEF NothingMissed
<1> QED BY <1>10, <1>11, <1>12, <1>13, <1>14

\* A report arrives: nobody names it yet.
LEMMA SubmitKeeps == ASSUME PInv, Submit PROVE PInv'
<1> USE DEF PInv
<1>1. PICK v \in Vehicles \cup {NoVehicle}, c \in Categories, old \in 0..Len(incidents) :
        reports' = Append(reports,
            [vehicle |-> v, category |-> c, status |-> "PENDING_REVIEW",
             incident |-> NoIncident, age |-> Recent, tooOld |-> old])
  BY DEF Submit
<1> DEFINE r == [vehicle |-> v, category |-> c, status |-> "PENDING_REVIEW",
                 incident |-> NoIncident, age |-> Recent, tooOld |-> old]
<1>2. UNCHANGED <<incidents, jobs, tx, failures>> /\ Len(reports) < MaxReports
  BY DEF Submit
<1>3. /\ Len(reports) \in Nat /\ DOMAIN reports = 1..Len(reports)
      /\ Len(incidents) \in Nat /\ Recent \in Nat /\ MaxReports \in Nat
  BY Shapes
<1>4. r \in AnyReport
  BY <1>3 DEF AnyReport, NoIncident
<1>5. r.incident = 0 /\ r.tooOld <= Len(incidents)
  BY <1>3 DEF NoIncident
<1>6. reports \in Seq(AnyReport) /\ reports' = Append(reports, r)
  BY <1>1 DEF Types
<1> HIDE DEF r
<1>7. /\ reports' \in Seq(AnyReport) /\ Len(reports') = Len(reports) + 1
      /\ \A n \in 1..Len(reports) : reports'[n] = reports[n]
      /\ reports'[Len(reports) + 1] = r
  BY <1>4, <1>6, AppendProperties
<1>8. DOMAIN reports' = 1..(Len(reports) + 1)
  BY <1>7, LenProperties
<1>9. \A n \in DOMAIN reports : n \in DOMAIN reports' /\ reports'[n] = reports[n]
  BY <1>3, <1>7, <1>8
<1>10. Types' /\ FewOthers'
  BY <1>2, <1>3, <1>7 DEF Types, FewOthers, Others
<1>11. NamesExist'
  <2>1. \A n \in DOMAIN reports' : n \in DOMAIN reports \/ n = Len(reports) + 1
    BY <1>3, <1>8
  <2>2. \A n \in DOMAIN reports' :
          reports'[n].incident <= Len(incidents) /\ reports'[n].tooOld <= Len(incidents)
    BY <1>3, <1>5, <1>7, <1>9, <2>1 DEF NamesExist
  <2> QED BY <1>2, <2>2 DEF NamesExist
<1>12. MakerNamesIt' /\ RowHeld'
  BY <1>2, <1>9 DEF MakerNamesIt, RowHeld
<1>13. NothingMissed'
  BY <1>2, <1>9 DEF NothingMissed, RowHeld
<1>14. SameCaseSharesIncident'
  <2>1. \A j \in DOMAIN incidents : incidents[j].by = "review" =>
          reports'[incidents[j].from] = reports[incidents[j].from]
    BY <1>9 DEF MakerNamesIt
  <2> QED BY <1>2, <2>1 DEF SameCaseSharesIncident
<1> QED BY <1>10, <1>11, <1>12, <1>13, <1>14

\* An incident is added and the rows of reports keep their case: what holds of the
\* old incidents still does.
LEMMA OldIncidentsKeep ==
    ASSUME PInv, NEW e \in AnyIncident, incidents' = Append(incidents, e),
           DOMAIN reports' = DOMAIN reports,
           \A n \in DOMAIN reports : /\ reports'[n].category = reports[n].category
                                     /\ reports'[n].tooOld = reports[n].tooOld,
           \A v \in Workers : tx'[v] # Idle => tx'[v] = tx[v]
    PROVE  /\ NothingMissed'
           /\ \A i, j \in DOMAIN incidents :
                /\ i < j /\ incidents'[j].by = "review"
                /\ incidents'[i].vehicle = incidents'[j].vehicle
                /\ incidents'[i].type = incidents'[j].type
                /\ i > reports'[incidents'[j].from].tooOld
                => incidents'[j].read < i
<1> USE DEF PInv
<1>1. \A i \in DOMAIN incidents : incidents'[i] = incidents[i]
  BY IncidentAdded
<1>2. \A j \in DOMAIN incidents : incidents[j].by = "review" =>
        reports'[incidents[j].from].tooOld = reports[incidents[j].from].tooOld
  BY DEF MakerNamesIt
<1>3. NothingMissed'
  <2>1. \A w \in Workers : tx[w] # Idle =>
          /\ reports'[tx[w].report].tooOld = reports[tx[w].report].tooOld
          /\ reports'[tx[w].report].category = reports[tx[w].report].category
          /\ tx[w].read \in Nat /\ tx[w].read <= Len(incidents)
    BY Shapes DEF RowHeld, NamesExist, AnyReview
  <2>2. \A w \in Workers : tx[w] # Idle => 1..tx[w].read \subseteq DOMAIN incidents
    BY <2>1, Shapes
  <2> QED BY <1>1, <2>1, <2>2 DEF NothingMissed
<1> QED BY <1>1, <1>2, <1>3 DEF SameCaseSharesIncident

\* The bound on others survives an incident with a report.
LEMMA OthersKeep ==
    ASSUME PInv, NEW e \in AnyIncident, incidents' = Append(incidents, e), e.from # NoReport
    PROVE  FewOthers'
<1>1. Others' = Others
  BY IncidentAdded, Shapes DEF PInv, Others
<1> QED BY <1>1 DEF PInv, FewOthers

LEMMA OtherIncidentKeeps ==
    ASSUME PInv, NEW v \in Vehicles, NEW c \in Categories,
           OtherIncident(v, categoryRule(c))
    PROVE  PInv'
<1> USE DEF PInv
<1> DEFINE e == Incident(v, categoryRule(c), "other", NoReport, Len(incidents))
           new == Len(incidents) + 1
<1>1. e \in AnyIncident /\ e.by = "other" /\ e.from = NoReport /\ e.read = Len(incidents)
  BY Shapes DEF Incident, AnyIncident
<1>2. incidents' = Append(incidents, e) /\ UNCHANGED <<reports, jobs, tx, failures>>
  BY DEF OtherIncident
<1> HIDE DEF e
<1>3. /\ incidents' \in Seq(AnyIncident) /\ Len(incidents') = new
      /\ DOMAIN incidents' = 1..new /\ incidents'[new] = e
      /\ \A i \in DOMAIN incidents : incidents'[i] = incidents[i]
  BY <1>1, <1>2, IncidentAdded
<1>4. Len(incidents) \in Nat /\ DOMAIN incidents = 1..Len(incidents) /\ MaxOthers \in Nat
  BY Shapes
<1>5. DOMAIN incidents' = DOMAIN incidents \cup {new} /\ new \notin DOMAIN incidents
  BY <1>3, <1>4
<1>6. Types'
  BY <1>2, <1>3 DEF Types
<1>7. FewOthers'
  <2>1. Others' = Others \cup {new} /\ new \notin Others
    BY <1>1, <1>3, <1>5 DEF Others
  <2>2. IsFiniteSet(Others)
    <3>1. IsFiniteSet(1..Len(incidents)) /\ Others \subseteq 1..Len(incidents)
      BY <1>4, FS_Interval DEF Others
    <3> QED BY <3>1, FS_Subset
  <2>3. Cardinality(Others') = Cardinality(Others) + 1
    BY <2>1, <2>2, FS_AddElement
  <2>4. Cardinality(Others) < MaxOthers
    BY DEF OtherIncident, Others
  <2>5. Cardinality(Others) \in Nat
    BY <2>2, FS_CardinalityType
  <2> QED BY <1>4, <2>3, <2>4, <2>5 DEF FewOthers
<1>8. NamesExist'
  <2>1. \A n \in DOMAIN reports : reports[n].incident <= new /\ reports[n].tooOld <= new
    BY <1>4, Shapes DEF NamesExist, AnyReport
  <2>2. \A i \in DOMAIN incidents' : incidents'[i].read <= new
    BY <1>1, <1>3, <1>4, <1>5, Shapes DEF NamesExist, AnyIncident
  <2>3. \A w \in Workers : tx[w] # Idle =>
          tx[w].incident <= new /\ tx[w].match <= new /\ tx[w].read <= new
    BY <1>4, Shapes DEF NamesExist, AnyReview
  <2> QED BY <1>2, <1>3, <2>1, <2>2, <2>3 DEF NamesExist
<1>9. MakerNamesIt'
  BY <1>1, <1>2, <1>3, <1>5 DEF MakerNamesIt
<1>10. RowHeld'
  BY <1>2 DEF RowHeld
<1>11. NothingMissed' /\ SameCaseSharesIncident'
  <2>1. \A i, j \in DOMAIN incidents' : i < j /\ incidents'[j].by = "review" =>
          i \in DOMAIN incidents /\ j \in DOMAIN incidents
    BY <1>1, <1>3, <1>4
  <2> QED BY <1>1, <1>2, <2>1, OldIncidentsKeep DEF SameCaseSharesIncident
<1> QED BY <1>6, <1>7, <1>8, <1>9, <1>10, <1>11

\* The row of a report that no open review holds afterwards is written, and no
\* incident is made.
LEMMA RowWritten ==
    ASSUME PInv, NEW n \in DOMAIN reports, NEW r \in AnyReport,
           reports' = [reports EXCEPT ![n] = r], incidents' = incidents,
           jobs' \in [1..MaxReports -> JobType], failures' = failures,
           tx' \in [Workers -> {Idle} \cup AnyReview],
           \A v \in Workers : tx'[v] = tx[v] \/ tx'[v] = Idle,
           \A v \in Workers : tx'[v].report # n,
           r.category = reports[n].category, r.tooOld = reports[n].tooOld,
           r.incident <= Len(incidents),
           reports[n].incident # 0 => r.incident = reports[n].incident
    PROVE  PInv'
<1> USE DEF PInv
<1>1. /\ reports' \in Seq(AnyReport) /\ Len(reports') = Len(reports)
      /\ DOMAIN reports' = DOMAIN reports /\ reports'[n] = r
      /\ \A m \in DOMAIN reports : m # n => reports'[m] = reports[m]
  BY ReportUpdated
<1>2. Types' /\ FewOthers'
  BY <1>1 DEF Types, FewOthers, Others
<1>3. Idle.report = 0 /\ \A v \in Workers : tx[v] # Idle => tx[v].report # 0
  BY Shapes DEF Idle
<1>4. NamesExist'
  BY <1>1 DEF NamesExist
<1>5. MakerNamesIt'
  <2>1. \A i \in DOMAIN incidents : i # 0
    BY Shapes
  <2> QED BY <1>1, <2>1 DEF MakerNamesIt
<1>6. RowHeld'
  <2>1. \A v \in Workers : tx'[v] # Idle =>
          /\ tx'[v].report \in DOMAIN reports'
          /\ reports'[tx'[v].report].status = "PENDING_REVIEW"
          /\ tx'[v].incident = reports'[tx'[v].report].incident
          /\ tx'[v].verdict = "CONFIRMED" => tx'[v].vehicle # NoVehicle
    BY <1>1 DEF RowHeld
  <2>2. \A u, v \in Workers : u # v /\ tx'[u] # Idle => tx'[u].report # tx'[v].report
    BY <1>3 DEF RowHeld
  <2> QED BY <2>1, <2>2 DEF RowHeld
<1>7. NothingMissed'
  BY <1>1 DEF NothingMissed, RowHeld
<1>8. SameCaseSharesIncident'
  <2>1. \A m \in DOMAIN reports : /\ reports'[m].category = reports[m].category
                                 /\ reports'[m].tooOld = reports[m].tooOld
    BY <1>1
  <2>2. \A j \in DOMAIN incidents : incidents[j].by = "review" =>
          incidents[j].from \in DOMAIN reports
    BY DEF MakerNamesIt
  <2> QED BY <2>1, <2>2 DEF SameCaseSharesIncident
<1> QED BY <1>2, <1>4, <1>5, <1>6, <1>7, <1>8

\* The same with an incident made for the report, which had none.
LEMMA RowMakesIncident ==
    ASSUME PInv, NEW n \in DOMAIN reports, NEW r \in AnyReport, NEW e \in AnyIncident,
           reports' = [reports EXCEPT ![n] = r], incidents' = Append(incidents, e),
           jobs' \in [1..MaxReports -> JobType], failures' = failures,
           tx' \in [Workers -> {Idle} \cup AnyReview],
           \A v \in Workers : tx'[v] = tx[v] \/ tx'[v] = Idle,
           \A v \in Workers : tx'[v].report # n,
           r.category = reports[n].category, r.tooOld = reports[n].tooOld,
           reports[n].incident = 0, r.incident = Len(incidents) + 1,
           e.from = n, e.read <= Len(incidents),
           e.by = "review" => \A i \in DOMAIN incidents :
               /\ i > reports[n].tooOld /\ incidents[i].vehicle = e.vehicle
               /\ incidents[i].type = e.type
               => e.read < i
    PROVE  PInv'
<1> USE DEF PInv
<1> DEFINE new == Len(incidents) + 1
<1>1. /\ reports' \in Seq(AnyReport) /\ Len(reports') = Len(reports)
      /\ DOMAIN reports' = DOMAIN reports /\ reports'[n] = r
      /\ \A m \in DOMAIN reports : m # n => reports'[m] = reports[m]
  BY ReportUpdated
<1>2. /\ incidents' \in Seq(AnyIncident) /\ Len(incidents') = new
      /\ DOMAIN incidents' = 1..new /\ incidents'[new] = e
      /\ \A i \in DOMAIN incidents : incidents'[i] = incidents[i]
  BY IncidentAdded
<1>3. /\ Len(incidents) \in Nat /\ DOMAIN incidents = 1..Len(incidents)
      /\ MaxReports \in Nat /\ Len(reports) \in Nat /\ DOMAIN reports = 1..Len(reports)
  BY Shapes
<1>4. DOMAIN incidents' = DOMAIN incidents \cup {new} /\ \A i \in DOMAIN incidents : i # 0 /\ i < new
  BY <1>2, <1>3
<1>5. e.from # NoReport
  <2>1. n \in 1..MaxReports
    BY <1>3 DEF Types
  <2> QED BY <2>1, ReportAssumption
<1>6. Types' /\ FewOthers'
  BY <1>1, <1>2, <1>5, OthersKeep DEF Types
<1>7. \A v \in Workers : tx'[v] # Idle => tx'[v] = tx[v]
  OBVIOUS
<1>8. \A m \in DOMAIN reports : /\ reports'[m].category = reports[m].category
                               /\ reports'[m].tooOld = reports[m].tooOld
  BY <1>1
<1>9. NamesExist'
  <2>1. \A m \in DOMAIN reports : reports'[m].incident <= new /\ reports'[m].tooOld <= new
    <3>1. \A m \in DOMAIN reports :
            /\ reports[m].incident \in Nat /\ reports[m].incident <= Len(incidents)
            /\ reports[m].tooOld \in Nat /\ reports[m].tooOld <= Len(incidents)
      BY Shapes DEF NamesExist, AnyReport
    <3> QED BY <1>1, <1>3, <1>8, <3>1
  <2>2. \A i \in DOMAIN incidents' : incidents'[i].read <= new
    <3>1. \A i \in DOMAIN incidents : incidents[i].read \in Nat /\ incidents[i].read <= Len(incidents)
      BY Shapes DEF NamesExist, AnyIncident
    <3>2. e.read \in Nat
      BY DEF AnyIncident
    <3> QED BY <1>2, <1>3, <1>4, <3>1, <3>2
  <2>3. \A v \in Workers : tx'[v] # Idle =>
          tx'[v].incident <= new /\ tx'[v].match <= new /\ tx'[v].read <= new
    <3>1. \A v \in Workers : tx[v] # Idle =>
            /\ tx[v].incident \in Nat /\ tx[v].incident <= Len(incidents)
            /\ tx[v].match \in Nat /\ tx[v].match <= Len(incidents)
            /\ tx[v].read \in Nat /\ tx[v].read <= Len(incidents)
      BY Shapes DEF NamesExist, AnyReview
    <3> QED BY <1>3, <1>7, <3>1
  <2> QED BY <1>1, <1>2, <2>1, <2>2, <2>3 DEF NamesExist
<1>10. MakerNamesIt'
  <2>1. \A i \in DOMAIN incidents : incidents[i].from # NoReport =>
          incidents[i].from \in DOMAIN reports /\ incidents[i].from # n
    BY <1>4 DEF MakerNamesIt
  <2>2. \A i \in DOMAIN incidents :
          /\ incidents'[i].by = "review" => incidents'[i].from # NoReport
          /\ incidents'[i].from # NoReport =>
               /\ incidents'[i].from \in DOMAIN reports'
               /\ reports'[incidents'[i].from].incident = i
    BY <1>1, <1>2, <2>1 DEF MakerNamesIt
  <2>3. incidents'[new].from = n /\ reports'[n].incident = new /\ n # NoReport
    BY <1>1, <1>2, <1>5
  <2> QED BY <1>1, <1>4, <2>2, <2>3 DEF MakerNamesIt
<1>11. RowHeld'
  <2>1. Idle.report = 0 /\ \A v \in Workers : tx[v] # Idle => tx[v].report # 0
    BY Shapes DEF Idle
  <2>2. \A v \in Workers : tx'[v] # Idle =>
          /\ tx'[v].report \in DOMAIN reports'
          /\ reports'[tx'[v].report].status = "PENDING_REVIEW"
          /\ tx'[v].incident = reports'[tx'[v].report].incident
          /\ tx'[v].verdict = "CONFIRMED" => tx'[v].vehicle # NoVehicle
    BY <1>1 DEF RowHeld
  <2>3. \A u, v \in Workers : u # v /\ tx'[u] # Idle => tx'[u].report # tx'[v].report
    BY <2>1 DEF RowHeld
  <2> QED BY <2>2, <2>3 DEF RowHeld
<1>12. NothingMissed' /\ SameCaseSharesIncident'
  <2>1. NothingMissed'
    BY <1>1, <1>7, <1>8, OldIncidentsKeep
  <2>2. \A i, j \in DOMAIN incidents' : i < j =>
          i \in DOMAIN incidents /\ (j \in DOMAIN incidents \/ j = new)
    BY <1>2, <1>3
  <2>3. \A i, j \in DOMAIN incidents :
          /\ i < j /\ incidents'[j].by = "review"
          /\ incidents'[i].vehicle = incidents'[j].vehicle
          /\ incidents'[i].type = incidents'[j].type
          /\ i > reports'[incidents'[j].from].tooOld
          => incidents'[j].read < i
    BY <1>1, <1>7, <1>8, OldIncidentsKeep
  <2>4. incidents'[new].by = "review" => \A i \in DOMAIN incidents :
          /\ incidents'[i].vehicle = incidents'[new].vehicle
          /\ incidents'[i].type = incidents'[new].type
          /\ i > reports'[incidents'[new].from].tooOld
          => incidents'[new].read < i
    BY <1>2, <1>8
  <2> QED BY <2>1, <2>2, <2>3, <2>4 DEF SameCaseSharesIncident
<1> QED BY <1>6, <1>9, <1>10, <1>11, <1>12

\* An operator decides a report that no review has open.
LEMMA OperatorActionKeeps ==
    ASSUME PInv, NEW n \in 1..MaxReports, NEW a \in Actions, OperatorAction(n, a)
    PROVE  PInv'
<1> USE DEF PInv
<1> DEFINE makes == a = "ESCALATE_TO_INCIDENT" /\ reports[n].incident = NoIncident
           here == IF makes THEN Len(incidents) + 1 ELSE reports[n].incident
           r == [reports[n] EXCEPT !.status = NextStatus(a), !.incident = here]
           e == Incident(reports[n].vehicle, reports[n].category, "operator", n, Len(incidents))
<1>1. /\ n \in DOMAIN reports /\ reports[n] \in AnyReport
      /\ \A v \in Workers : tx[v].report # n
      /\ UNCHANGED <<jobs, tx, failures>> /\ Len(incidents) \in Nat
  BY Shapes DEF OperatorAction, Locked
<1>2. reports' = [reports EXCEPT ![n] = r]
  BY <1>1 DEF OperatorAction
<1>3. NextStatus(a) \in {"ACKNOWLEDGED", "REJECTED", "RESOLVED", "ESCALATED_TO_INCIDENT"}
  BY ReportAssumption DEF NextStatus
<1>4. here \in Nat
  BY <1>1 DEF AnyReport
<1>5. /\ r \in AnyReport /\ r.category = reports[n].category
      /\ r.tooOld = reports[n].tooOld /\ r.incident = here
  BY <1>1, <1>3, <1>4 DEF AnyReport
<1>6. e \in AnyIncident /\ e.from = n /\ e.read = Len(incidents) /\ e.by = "operator"
  BY <1>1 DEF Incident, AnyIncident, AnyReport
<1>7. jobs' \in [1..MaxReports -> JobType] /\ tx' \in [Workers -> {Idle} \cup AnyReview]
  BY <1>1 DEF Types
<1>8. CASE makes
  <2>1. incidents' = Append(incidents, e)
    BY <1>8 DEF OperatorAction
  <2>2. reports[n].incident = 0 /\ here = Len(incidents) + 1
    BY <1>8 DEF NoIncident
  <2> HIDE DEF makes, here, r, e
  <2>3. /\ e.read <= Len(incidents) /\ r.incident = Len(incidents) + 1
        /\ \A v \in Workers : tx'[v] = tx[v] \/ tx'[v] = Idle
        /\ \A v \in Workers : tx'[v].report # n
    BY <1>1, <1>5, <1>6, <2>2
  <2>4. e.by # "review"
    BY <1>6
  <2>5. failures' = failures
    BY <1>1
  <2> QED BY <1>1, <1>2, <1>5, <1>6, <1>7, <2>1, <2>2, <2>3, <2>4, <2>5, RowMakesIncident
<1>9. CASE ~makes
  <2>1. incidents' = incidents
    BY <1>9 DEF OperatorAction
  <2>2. here = reports[n].incident /\ reports[n].incident <= Len(incidents)
    BY <1>1, <1>9 DEF NamesExist
  <2> HIDE DEF makes, here, r, e
  <2> QED BY <1>1, <1>2, <1>5, <1>7, <2>1, <2>2, RowWritten
<1> QED BY <1>8, <1>9

\* A review commits. It makes an incident only for a report that has none, where
\* what it read had nothing to match.
LEMMA CommitReviewKeeps ==
    ASSUME PInv, NEW w \in Workers, CommitReview(w) PROVE PInv'
<1> USE DEF PInv
<1> DEFINE t == tx[w]
           n == t.report
           existing == IF t.incident # NoIncident THEN t.incident ELSE t.match
           makes == t.verdict = "CONFIRMED" /\ existing = NoIncident
<1>1. /\ t # Idle /\ t \in AnyReview /\ n \in DOMAIN reports /\ n \in 1..MaxReports
      /\ reports[n] \in AnyReport /\ t.incident = reports[n].incident
      /\ t.verdict = "CONFIRMED" => t.vehicle # NoVehicle
  BY Shapes DEF CommitReview, RowHeld, AnyReview
<1>2. /\ t.incident \in Nat /\ t.match \in Nat /\ t.read \in Nat
      /\ t.incident <= Len(incidents) /\ t.match <= Len(incidents)
      /\ t.read <= Len(incidents) /\ Len(incidents) \in Nat
      /\ t.vehicle \in Vehicles \cup {NoVehicle}
  BY <1>1, Shapes DEF NamesExist, AnyReview
<1>3. /\ jobs' \in [1..MaxReports -> JobType] /\ failures' = failures
      /\ tx' = [tx EXCEPT ![w] = Idle]
  BY <1>1, DoneType DEF CommitReview
<1>4. /\ tx' \in [Workers -> {Idle} \cup AnyReview]
      /\ \A v \in Workers : tx'[v] = tx[v] \/ tx'[v] = Idle
      /\ \A v \in Workers : tx'[v].report # n
  <2>1. /\ tx' \in [Workers -> {Idle} \cup AnyReview] /\ tx'[w] = Idle
        /\ \A v \in Workers \ {w} : tx'[v] = tx[v]
    BY <1>3 DEF Types
  <2>2. \A v \in Workers \ {w} : tx[v].report # n
    BY <1>1 DEF RowHeld
  <2>3. Idle.report # n
    BY <1>1 DEF Idle
  <2> QED BY <2>1, <2>2, <2>3
<1>5. \A x \in Nat :
        /\ Reviewed(reports[n], t, x) \in AnyReport
        /\ Reviewed(reports[n], t, x).category = reports[n].category
        /\ Reviewed(reports[n], t, x).tooOld = reports[n].tooOld
        /\ Reviewed(reports[n], t, x).incident = x
  <2> TAKE x \in Nat
  <2>1. 0 \in 0..Recent
    BY Shapes
  <2> QED BY <1>1, <1>2, <2>1 DEF Reviewed, AnyReport
<1>6. CASE makes
  <2> DEFINE r == Reviewed(reports[n], t, Len(incidents) + 1)
             e == Incident(t.vehicle, categoryRule(reports[n].category), "review", n, t.read)
  <2>1. incidents' = Append(incidents, e) /\ reports' = [reports EXCEPT ![n] = r]
    BY <1>6 DEF CommitReview
  <2>2. t.incident = 0 /\ t.match = 0 /\ t.vehicle # NoVehicle
    BY <1>1, <1>6 DEF NoIncident
  <2>3. /\ e \in AnyIncident /\ e.from = n /\ e.read = t.read /\ e.vehicle = t.vehicle
        /\ e.type = categoryRule(reports[n].category)
    BY <1>1, <1>2 DEF Incident, AnyIncident, AnyReport
  <2>4. /\ r \in AnyReport /\ r.category = reports[n].category
        /\ r.tooOld = reports[n].tooOld /\ r.incident = Len(incidents) + 1
    BY <1>2, <1>5
  <2>5. \A i \in DOMAIN incidents :
          /\ i > reports[n].tooOld /\ incidents[i].vehicle = e.vehicle
          /\ incidents[i].type = e.type
          => e.read < i
    <3>1. \A i \in 1..t.read :
            ~ /\ i > reports[n].tooOld /\ incidents[i].vehicle = t.vehicle
              /\ incidents[i].type = categoryRule(reports[n].category)
      BY <1>1, <2>2 DEF NothingMissed, NoIncident
    <3>2. \A i \in DOMAIN incidents : i \in 1..t.read \/ t.read < i
      BY <1>2, Shapes
    <3> QED BY <2>3, <3>1, <3>2
  <2>6. /\ e.read <= Len(incidents) /\ reports[n].incident = 0
        /\ r.incident = Len(incidents) + 1
    BY <1>1, <1>2, <2>2, <2>3, <2>4
  <2> HIDE DEF r, e, n
  <2> QED BY <1>1, <1>3, <1>4, <2>1, <2>3, <2>4, <2>5, <2>6, RowMakesIncident
<1>7. CASE ~makes
  <2> DEFINE x == IF t.verdict = "CONFIRMED" THEN existing ELSE t.incident
             r == Reviewed(reports[n], t, x)
  <2>1. incidents' = incidents /\ reports' = [reports EXCEPT ![n] = r]
    BY <1>7 DEF CommitReview
  <2>2. /\ x \in Nat /\ x <= Len(incidents)
        /\ reports[n].incident # 0 => x = reports[n].incident
    BY <1>1, <1>2 DEF NoIncident
  <2>3. /\ r \in AnyReport /\ r.category = reports[n].category
        /\ r.tooOld = reports[n].tooOld /\ r.incident = x
    BY <1>5, <2>2
  <2> HIDE DEF r, x
  <2> QED BY <1>1, <1>3, <1>4, <2>1, <2>2, <2>3, RowWritten
<1> QED BY <1>6, <1>7

LEMMA PInvNext == PInv /\ [Next]_vars => PInv'
<1> SUFFICES ASSUME PInv, [Next]_vars
             PROVE  PInv'
  OBVIOUS
<1>1. CASE Submit
  BY <1>1, SubmitKeeps
<1>2. CASE Schedule \/ RunReviews \/ \E n \in 1..MaxReports : Redeliver(n)
  BY <1>2, QueueKeeps
<1>3. ASSUME NEW n \in 1..MaxReports, NEW a \in Actions, OperatorAction(n, a)
      PROVE  PInv'
  BY <1>3, OperatorActionKeeps
<1>4. ASSUME NEW w \in Workers, Work(w) \/ ReviewFails(w)
      PROVE  PInv'
  <2>1. CASE CommitReview(w)
    BY <2>1, CommitReviewKeeps
  <2>2. ASSUME NEW n \in 1..MaxReports, BeginReview(w, n) PROVE PInv'
    BY <2>2, BeginReviewKeeps
  <2>3. ASSUME NEW n \in 1..MaxReports, SkipReview(w, n) PROVE PInv'
    BY <2>3, QueueKeeps
  <2>4. CASE ReviewFails(w)
    BY <2>4, ReviewFailsKeeps
  <2> QED BY <1>4, <2>1, <2>2, <2>3, <2>4 DEF Work
<1>5. ASSUME NEW v \in Vehicles, NEW c \in Categories, OtherIncident(v, categoryRule(c))
      PROVE  PInv'
  BY <1>5, OtherIncidentKeeps
<1>6. CASE UNCHANGED vars
  <2>1. Types'
    BY <1>6 DEF PInv, Types, vars
  <2> QED BY <1>6, <2>1, TablesStand DEF vars
<1> QED BY <1>1, <1>2, <1>3, <1>4, <1>5, <1>6 DEF Next

LEMMA PInvHolds == Spec => []PInv
BY PInvInit, PInvNext, PTL DEF Spec
-----------------------------------------------------------------------------
(* The theorems.                                                           *)

\* Tables, jobs and reviews keep their types, and there are never more incidents
\* than reports and the incidents from elsewhere.
THEOREM ReportTypes == Spec => []TypeOK
<1>1. PInv => TypeOK
  <2> SUFFICES ASSUME PInv
               PROVE  TypeOK
    OBVIOUS
  <2> USE DEF PInv
  <2>1. Len(incidents) <= MaxIncidents /\ Len(incidents) \in Nat /\ MaxIncidents \in Nat
    BY FewIncidents, Shapes DEF MaxIncidents
  <2>2. \A k \in Nat : k <= Len(incidents) => k \in 0..MaxIncidents
    BY <2>1
  <2>3. reports \in Seq(ReportType)
    <3>1. \A n \in DOMAIN reports :
            reports[n].incident \in 0..MaxIncidents /\ reports[n].tooOld \in 0..MaxIncidents
      BY <2>2, Shapes DEF NamesExist, AnyReport
    <3>2. \A n \in DOMAIN reports : reports[n] \in ReportType
      BY <3>1, Shapes DEF AnyReport, ReportType
    <3>3. reports \in [1..Len(reports) -> ReportType]
      BY <3>2, Shapes
    <3> QED BY <3>3, Shapes
  <2>4. incidents \in Seq(IncidentType)
    <3>1. \A i \in DOMAIN incidents : incidents[i].read \in 0..MaxIncidents
      BY <2>2, Shapes DEF NamesExist, AnyIncident
    <3>2. \A i \in DOMAIN incidents : incidents[i] \in IncidentType
      BY <3>1, Shapes DEF AnyIncident, IncidentType
    <3>3. incidents \in [1..Len(incidents) -> IncidentType]
      BY <3>2, Shapes
    <3> QED BY <3>3, Shapes
  <2>5. tx \in [Workers -> {Idle} \cup ReviewType]
    <3>1. \A w \in Workers : tx[w] # Idle =>
            /\ tx[w].incident \in 0..MaxIncidents /\ tx[w].match \in 0..MaxIncidents
            /\ tx[w].read \in 0..MaxIncidents
      BY <2>2, Shapes DEF NamesExist, AnyReview
    <3>2. \A w \in Workers : tx[w] # Idle => tx[w] \in ReviewType
      BY <3>1, Shapes DEF AnyReview, ReviewType
    <3> QED BY <3>2 DEF Types
  <2> QED BY <2>3, <2>4, <2>5 DEF Types, TypeOK
<1> QED BY <1>1, PInvHolds, PTL

\* Repeated reviews, retries and an operator at the same report make one incident
\* for it, and it names that one.
THEOREM OneIncident == Spec => []OneIncidentPerReport
<1>1. PInv => OneIncidentPerReport
  BY DEF PInv, MakerNamesIt, OneIncidentPerReport
<1> QED BY <1>1, PInvHolds, PTL

\* A review of any category makes no incident beside one of the same case that it
\* could read, whether another review, an operator or the rules engine made that.
THEOREM SameCase == Spec => []SameCaseSharesIncident
<1>1. PInv => SameCaseSharesIncident
  BY DEF PInv
<1> QED BY <1>1, PInvHolds, PTL

\* A review leaves every decided report as it is.
THEOREM DecisionsStand == Spec => DecisionStands
<1> DEFINE Leaves == \A w \in Workers : CommitReview(w) =>
                        \A n \in DOMAIN reports : ~Pending(n) => reports'[n] = reports[n]
<1>1. PInv /\ [Next]_vars => [Leaves]_vars
  <2> SUFFICES ASSUME PInv, NEW w \in Workers, CommitReview(w),
                      NEW n \in DOMAIN reports, ~Pending(n)
               PROVE  reports'[n] = reports[n]
    OBVIOUS
  <2>1. tx[w].report # n
    BY DEF PInv, RowHeld, CommitReview, Pending
  <2>2. \E r : reports' = [reports EXCEPT ![tx[w].report] = r]
    BY DEF CommitReview
  <2> QED BY <2>1, <2>2
<1>2. Spec => [][Leaves]_vars
  BY <1>1, PInvHolds, PTL DEF Spec
<1> QED BY <1>2 DEF DecisionStands
=============================================================================
