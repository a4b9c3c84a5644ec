------------------------------ MODULE RuleDecisions ------------------------------
(* What the rules engine decides about a vehicle (services/rules-engine/src:         *)
(* rule-decisions.js, rule-batch-evaluation.js, rule-batch-queries.js): a pass takes  *)
(* a snapshot of the vehicle and of the clock, then one rule after another opens a    *)
(* case or resolves it, some from the snapshot, some from a query of their own, while *)
(* positions keep coming. What a decision does to a case is in AnomalyLifecycle.      *)
(* Vehicles are decided on separately, so one is enough. Evidence is left out.        *)
EXTENDS Integers, Sequences, FiniteSetsExt

CONSTANTS
    Sights,          \* what a position shows: speed, place, off, base, heading, road
    Null,            \* no distance from the route, no heading, no match
    Stops,           \* the places of official stops
    Minute,          \* ticks
    LostSignalMinutes, LostSignalCriticalMinutes,
    OverspeedThreshold, OverspeedWindowPoints, OverspeedMinPoints,
    CorridorTolerance, OffRouteGraceMinutes, OffRouteMinPoints,
    WrongDirectionGraceMinutes, WrongDirectionMinPoints,
    WrongDirectionHeadingDiff, WrongDirectionMinSpeed,
    NgetemMinutes, NgetemMaxDistance, NgetemMaxAvgSpeed,
    MaxTime, MaxPositions   \* bounds

\* The settings may be any, within what their defaults do: the windows of the route
\* rules are no longer than the silence that counts as a lost signal.
DecisionConstants ==
    /\ \A s \in Sights : s.speed \in Nat /\ s.place \in Int /\ s.base \in BOOLEAN
    /\ {LostSignalMinutes, LostSignalCriticalMinutes, OffRouteGraceMinutes,
        WrongDirectionGraceMinutes, NgetemMinutes, MaxTime, MaxPositions} \subseteq Nat
    /\ {Minute, OverspeedMinPoints, OffRouteMinPoints, WrongDirectionMinPoints} \subseteq Nat \ {0}
    /\ OffRouteGraceMinutes <= LostSignalMinutes
    /\ WrongDirectionGraceMinutes <= LostSignalMinutes

VARIABLES
    now,
    positions,   \* vehicle_positions, by position_id
    service,     \* vehicles.status is IN_SERVICE
    pass,        \* the rule whose turn it is, and the snapshot: evaluationTimeMs (at),
                 \* the current position (latest), inService; history: positions read
    decided      \* by each rule in this pass: the severity it opens with, or "resolve"

vars == <<now, positions, service, pass, decided>>

Rules == <<"LOST_SIGNAL", "OVERSPEED", "OFF_ROUTE", "WRONG_DIRECTION", "NGETEM">>
Undecided == [k \in DOMAIN Rules |-> "none"]
NoPass == [turn |-> 0, at |-> 0, latest |-> 0, inService |-> FALSE, read |-> 0]

Init ==
    /\ now = 0 /\ positions = <<>> /\ service \in BOOLEAN
    /\ pass = NoPass /\ decided = Undecided

\* vehicle_latest, as the trigger of TelemetryIntake keeps it.
Later(j, i) ==
    \/ positions[j].ts > positions[i].ts
    \/ positions[j].ts = positions[i].ts /\ j >= i
Latest ==
    IF positions = <<>> THEN 0
    ELSE CHOOSE i \in DOMAIN positions : \A j \in DOMAIN positions : Later(i, j)
------------------------------------------------------------------------------
(* Around it.                                                                  *)

Tick == now < MaxTime /\ now' = now + 1 /\ UNCHANGED <<positions, service, pass, decided>>

\* A position may come late; one of the same time and place is a duplicate to the
\* intake. Of the steps of a post only the insert matters.
Report(sight, ts) ==
    /\ Len(positions) < MaxPositions
    /\ \A i \in DOMAIN positions : positions[i].ts # ts \/ positions[i].sight.place # sight.place
    /\ positions' = Append(positions, [sight |-> sight, ts |-> ts])
    /\ UNCHANGED <<now, service, pass, decided>>

StatusChanges == service' = ~service /\ UNCHANGED <<now, positions, pass, decided>>
------------------------------------------------------------------------------
(* Queries and arithmetic.                                                     *)

Within(minutes) == {i \in DOMAIN positions : positions[i].ts >= now - minutes * Minute}
Newest(n, S) == {i \in S : Cardinality({j \in S \ {i} : Later(j, i)}) < n}

overspeedRowsUnbounded == Newest(OverspeedWindowPoints, DOMAIN positions)
overspeedRows == Newest(OverspeedWindowPoints, Within(LostSignalMinutes))

\* distance_m, where there is one.
offRouteRows == {i \in Within(OffRouteGraceMinutes) : positions[i].sight.off # Null}

\* Matched well enough, with a heading, at speed.
wrongDirectionRows ==
    {i \in Within(WrongDirectionGraceMinutes) :
        LET s == positions[i].sight
        IN s.heading # Null /\ s.road # Null /\ s.speed >= WrongDirectionMinSpeed}

Distance(a, b) == IF a > b THEN a - b ELSE b - a

headingDiffDegrees(a, b) ==
    LET d == Distance(a, b) % 360 IN IF d > 180 THEN 360 - d ELSE d

\* Math.round of the minutes: halves go up.
Rounded(ticks) == (2 * ticks + Minute) \div (2 * Minute)

Silence == pass.at - positions[pass.latest].ts
------------------------------------------------------------------------------
(* The decisions.                                                              *)

evaluateLostSignal ==
    IF pass.latest = 0 THEN "HIGH"
    ELSE IF Rounded(Silence) <= LostSignalMinutes THEN "resolve"
    ELSE IF Rounded(Silence) > LostSignalCriticalMinutes THEN "CRITICAL"
    ELSE "HIGH"

evaluateOverspeed ==
    LET fast == {i \in overspeedRows : positions[i].sight.speed > OverspeedThreshold}
    IN IF Cardinality(fast) < OverspeedMinPoints THEN "resolve"
       ELSE IF \E i \in fast : positions[i].sight.speed >= OverspeedThreshold + 20
            THEN "HIGH" ELSE "MEDIUM"

evaluateOffRoute ==
    LET off == {i \in offRouteRows : positions[i].sight.off > CorridorTolerance}
    IN IF \/ ~pass.inService \/ Cardinality(off) < OffRouteMinPoints
          \/ \E i \in offRouteRows : positions[i].sight.base
       THEN "resolve"
       ELSE IF \E i \in off : positions[i].sight.off >= 1000 THEN "HIGH" ELSE "MEDIUM"

Turned(i) == headingDiffDegrees(positions[i].sight.heading, positions[i].sight.road)

evaluateWrongDirection ==
    LET wrong == {i \in wrongDirectionRows : Turned(i) >= WrongDirectionHeadingDiff}
    IN IF ~pass.inService \/ Cardinality(wrong) < WrongDirectionMinPoints THEN "resolve"
       ELSE IF \E i \in wrong : Turned(i) >= 150 THEN "HIGH" ELSE "MEDIUM"

\* Before any query: out of service, or the snapshot is too old. This one does not round.
NgetemExcluded ==
    ~pass.inService \/ pass.latest = 0 \/ Silence > LostSignalMinutes * Minute

\* Both queries start from the current position of now, not of the snapshot.
InOfficialStop == positions[Latest].sight.place \in Stops

evaluateNgetem ==
    LET rows == Within(NgetemMinutes)
        speed(i) == positions[i].sight.speed
    IN IF /\ Cardinality(rows) >= 2
          /\ \A i \in rows : Distance(positions[i].sight.place, positions[Latest].sight.place)
                               <= NgetemMaxDistance
          /\ MapThenSumSet(speed, rows) <= NgetemMaxAvgSpeed * Cardinality(rows)
       THEN IF NgetemMinutes >= 20 THEN "HIGH" ELSE "MEDIUM"
       ELSE "resolve"
------------------------------------------------------------------------------
(* The pass.                                                                   *)

\* fetchVehicles, and the clock behind it.
StartPass ==
    /\ pass.turn = 0
    /\ pass' = [turn |-> 1, at |-> now, latest |-> Latest, inService |-> service,
                read |-> Len(positions)]
    /\ decided' = Undecided
    /\ UNCHANGED <<now, positions, service>>

Decide(rule, decision) ==
    /\ pass.turn \in DOMAIN Rules /\ Rules[pass.turn] = rule
    /\ decided' = [decided EXCEPT ![pass.turn] = decision]
    /\ pass' = [pass EXCEPT !.turn = (@ + 1) % (Len(Rules) + 1)]
    /\ UNCHANGED <<now, positions, service>>

LostSignal == Decide("LOST_SIGNAL", evaluateLostSignal)
Overspeed == Decide("OVERSPEED", evaluateOverspeed)
OffRoute == Decide("OFF_ROUTE", evaluateOffRoute)
WrongDirection == Decide("WRONG_DIRECTION", evaluateWrongDirection)
Ngetem ==
    Decide("NGETEM", IF NgetemExcluded \/ InOfficialStop THEN "resolve" ELSE evaluateNgetem)

\* A query fails or the engine is restarted.
PassFails ==
    /\ pass.turn # 0 /\ pass' = NoPass
    /\ UNCHANGED <<now, positions, service, decided>>

Next ==
    \/ Tick \/ StatusChanges
    \/ \E sight \in Sights, ts \in 0..now : Report(sight, ts)
    \/ StartPass \/ LostSignal \/ Overspeed \/ OffRoute \/ WrongDirection \/ Ngetem \/ PassFails

Spec == Init /\ [][Next]_vars
------------------------------------------------------------------------------
(* Properties                                                                  *)

Opened(k) == decided[k] \in {"MEDIUM", "HIGH", "CRITICAL"}

\* Types.
TypeOK ==
    /\ now \in 0..MaxTime /\ service \in BOOLEAN
    /\ positions \in Seq([sight : Sights, ts : 0..MaxTime]) /\ Len(positions) <= MaxPositions
    /\ pass.turn \in 0..Len(Rules) /\ pass.at <= now /\ pass.latest \in 0..Len(positions)
    /\ \A k \in DOMAIN Rules : decided[k] = "none" \/ decided[k] = "resolve" \/ Opened(k)

\* A vehicle that a pass finds silent is accused of nothing else in that pass: the
\* five rules have windows, clocks and roundings of their own, and none of them
\* still works on what was heard before the silence. Only positions that arrive
\* while the pass is running can speak against it.
SilenceSpeaksAlone ==
    Opened(1) /\ pass.read = Len(positions) => \A k \in 2..Len(Rules) : ~Opened(k)

\* README.md:43 of the service: NGETEM takes "durasi window terpenuhi", so of a
\* vehicle that is found standing something was heard when the window began.
StandsForTheWindow ==
    Opened(5) => \E i \in DOMAIN positions : positions[i].ts <= now - NgetemMinutes * Minute
=================================================================================
