---------------------------- MODULE RiskScoreProofs ----------------------------
(***************************************************************************)
(* The score stays within its CHECK whatever its three writers do, and     *)
(* without failures the propagation raises a vehicle once in 24 hours.     *)
(***************************************************************************)
EXTENDS RiskScore, TLAPS

\* clampScore returns a score, whatever integer it is given.
LEMMA ClampIsScore == \A s \in Int : ClampScore(s) \in 0..100
BY DEF ClampScore

\* The daily decay of a score is an integer.
LEMMA DecayIsInt == \A s \in 0..100 : DailyDecay(s) \in Int
BY ScoreAssumption, SMT DEF DailyDecay

\* A score that the decay has gone over is a score.
LEMMA DecayedIsScore ==
    ASSUME TypeOK, NEW v \in Vehicles
    PROVE  Decayed(v) \in 0..100
<1>1. score[v] \in 0..100 /\ score[v] \in Int
  BY DEF TypeOK
<1>2. ClampScore(score[v] - DailyDecay(score[v])) \in 0..100
  <2>1. score[v] - DailyDecay(score[v]) \in Int
    BY <1>1, DecayIsInt
  <2> QED BY <2>1, ClampIsScore
<1>3. ClampScore(score[v] - WeeklyDecayPoints) \in 0..100
  <2>1. score[v] - WeeklyDecayPoints \in Int
    BY <1>1, ScoreAssumption
  <2> QED BY <2>1, ClampIsScore
<1> QED BY <1>1, <1>2, <1>3 DEF Decayed

\* Setting one timestamp of a row leaves the others alone.
LEMMA StampIsAges ==
    ASSUME NEW r \in Ages, NEW n \in 0..Week
    PROVE  /\ [r EXCEPT !.anomaly = n] \in Ages
           /\ [r EXCEPT !.high = n] \in Ages
           /\ [r EXCEPT !.decay = n] \in Ages
           /\ [r EXCEPT !.weekly = n] \in Ages
<1>1. [r EXCEPT !.anomaly = n] \in Ages
  BY DEF Ages
<1>2. [r EXCEPT !.high = n] \in Ages
  BY DEF Ages
<1>3. [r EXCEPT !.decay = n] \in Ages
  BY DEF Ages
<1>4. [r EXCEPT !.weekly = n] \in Ages
  BY DEF Ages
<1> QED BY <1>1, <1>2, <1>3, <1>4

\* A row's ages stay ages when the clock moves on and when the decay stamps it.
LEMMA AgesMove ==
    ASSUME TypeOK, NEW v \in Vehicles
    PROVE  /\ OlderRow(v) \in Ages
           /\ DecayStamped(v) \in Ages
           /\ DecayStamped(v).propagation = age[v].propagation
           /\ OlderRow(v).propagation = Older(age[v].propagation, Day)
<1>1. Week \in Nat /\ Day \in Nat /\ age[v] \in Ages
  BY ScoreAssumption DEF Week, TypeOK
<1>2. \A oldest \in Nat : \A n \in 0..oldest : Older(n, oldest) \in 0..oldest
  BY DEF Older
<1>3. DOMAIN age[v] = {"anomaly", "high", "decay", "weekly", "propagation"}
  BY <1>1 DEF Ages
<1>4. OlderRow(v) = [anomaly |-> Older(age[v].anomaly, Week), high |-> Older(age[v].high, Week),
                     decay |-> Older(age[v].decay, Week), weekly |-> Older(age[v].weekly, Week),
                     propagation |-> Older(age[v].propagation, Day)]
  BY <1>1, <1>3 DEF OlderRow, Oldest
<1>6. OlderRow(v) \in Ages
  BY <1>1, <1>2, <1>4 DEF Ages
<1>5. DecayStamped(v) \in Ages /\ DecayStamped(v).propagation = age[v].propagation
  <2>1. ASSUME NEW r \in Ages
        PROVE  /\ [r EXCEPT !.decay = 0] \in Ages
               /\ [r EXCEPT !.decay = 0].propagation = r.propagation
               /\ [r EXCEPT !.decay = 0, !.weekly = 0] \in Ages
               /\ [r EXCEPT !.decay = 0, !.weekly = 0].propagation = r.propagation
    <3>1. 0 \in 0..Week
      BY <1>1
    <3>2. [r EXCEPT !.decay = 0] \in Ages
      BY <3>1, StampIsAges
    <3>3. [r EXCEPT !.decay = 0, !.weekly = 0] \in Ages
      BY <3>1, <3>2, StampIsAges
    <3> QED BY <3>2, <3>3 DEF Ages
  <2>2. \/ DecayStamped(v) = [age[v] EXCEPT !.decay = 0]
        \/ DecayStamped(v) = [age[v] EXCEPT !.decay = 0, !.weekly = 0]
        \/ DecayStamped(v) = age[v]
    BY DEF DecayStamped
  <2> QED BY <1>1, <2>1, <2>2
<1> QED BY <1>4, <1>5, <1>6

\* Init gives every row its type.
LEMMA InitType == Init => TypeOK
<1> SUFFICES ASSUME Init PROVE TypeOK
  OBVIOUS
<1>1. Week \in Nat /\ Day \in Nat
  BY ScoreAssumption DEF Week
<1>2. score \in [Vehicles -> 0..100]
  BY ScoreAssumption DEF Init
<1>3. age \in [Vehicles -> Ages]
  <2>1. \A v \in Vehicles : (IF score[v] = 0 THEN Week ELSE 0) \in 0..Week /\ Week \in 0..Week /\ Day \in 0..Day
    BY <1>1
  <2>2. \A v \in Vehicles : age[v] \in Ages
    BY <2>1 DEF Init, Ages
  <2> QED BY <2>2 DEF Init
<1>4. raised \in [Vehicles -> 0..Day]
  BY <1>1 DEF Init
<1> QED BY <1>1, <1>2, <1>3, <1>4, ScoreAssumption DEF Init, TypeOK, IdleDecay, IdleProp

\* A new anomaly leaves every row its type.
LEMMA AnomalyType ==
    ASSUME TypeOK, NEW v \in Vehicles, NEW rule \in DOMAIN Delta, NEW severity \in Severities,
           Anomaly(v, rule, severity)
    PROVE  TypeOK'
<1>1. Week \in Nat
  BY ScoreAssumption DEF Week
<1>2. ClampScore(score[v] + Delta[rule]) \in 0..100
  <2>1. score[v] + Delta[rule] \in Int
    BY ScoreAssumption DEF TypeOK
  <2> QED BY <2>1, ClampIsScore
<1>3. score' \in [Vehicles -> 0..100] /\ newest' \in [Vehicles -> 0..100]
  BY <1>2 DEF Anomaly, TypeOK
<1>4. age' \in [Vehicles -> Ages]
  <2> DEFINE row == [age[v] EXCEPT !.anomaly = 0,
                        !.high = IF severity \in {"HIGH", "CRITICAL"} THEN 0 ELSE age[v].high]
  <2>1. age[v] \in Ages /\ 0 \in 0..Week
    BY <1>1 DEF TypeOK
  <2>2. [age[v] EXCEPT !.anomaly = 0] \in Ages
    BY <2>1, StampIsAges
  <2>3. (IF severity \in {"HIGH", "CRITICAL"} THEN 0 ELSE age[v].high) \in 0..Week
    BY <2>1 DEF Ages
  <2>4. row \in Ages
    BY <2>2, <2>3, StampIsAges
  <2>5. age' = [age EXCEPT ![v] = row]
    BY DEF Anomaly
  <2> HIDE DEF row
  <2> QED BY <2>4, <2>5 DEF TypeOK
<1>5. opened' \in 0..MaxAnomalies
  BY ScoreAssumption DEF Anomaly, TypeOK
<1> QED BY <1>3, <1>4, <1>5 DEF Anomaly, TypeOK

\* The decay leaves every row its type.
LEMMA DecayType == ASSUME TypeOK, Decay PROVE TypeOK'
<1>1. CASE DecayBegin
  <2>1. decay' \in [open: BOOLEAN, locked: SUBSET Vehicles]
    BY <1>1 DEF DecayBegin
  <2> QED BY <1>1, <2>1 DEF DecayBegin, TypeOK
<1>2. CASE DecayCommit
  <2>1. \A v \in Vehicles : Decayed(v) \in 0..100 /\ DecayStamped(v) \in Ages
    BY DecayedIsScore, AgesMove
  <2>2. score' \in [Vehicles -> 0..100] /\ age' \in [Vehicles -> Ages]
    BY <1>2, <2>1 DEF DecayCommit
  <2>3. newest' \in [Vehicles -> 0..100]
    BY <1>2, <2>1 DEF DecayCommit, TypeOK
  <2>4. decay' \in [open: BOOLEAN, locked: SUBSET Vehicles]
    BY <1>2 DEF DecayCommit, IdleDecay
  <2> QED BY <1>2, <2>2, <2>3, <2>4 DEF DecayCommit, TypeOK
<1> QED BY <1>1, <1>2 DEF Decay

\* The propagation leaves every row its type.
LEMMA PropagationType == ASSUME TypeOK, Propagation PROVE TypeOK'
<1> DEFINE PropRow == [pc: {"idle", "next", "read", "upsert", "event"},
                       todo: SUBSET Vehicles, vehicle: Vehicles \cup {None}, prev: 0..100]
           InHand(p) == p.pc \in {"read", "upsert", "event"} => p.vehicle \in Vehicles
<1>0. /\ prop \in PropRow /\ InHand(prop)
      /\ IdleProp \in PropRow /\ IdleProp.pc = "idle" /\ IdleProp.vehicle = None
      /\ Week \in Nat
  BY ScoreAssumption DEF TypeOK, IdleProp, Week
<1>1. CASE PropagationBegin
  <2>1. PICK flagged \in SUBSET Flaggable :
            prop' = [IdleProp EXCEPT !.pc = "next", !.todo = MultiRisk \cup flagged]
    BY <1>1 DEF PropagationBegin
  <2>2. MultiRisk \cup flagged \in SUBSET Vehicles
    BY ScoreAssumption DEF MultiRisk
  <2>3. prop' \in PropRow /\ InHand(prop')
    BY <1>0, <2>1, <2>2
  <2> QED BY <1>1, <2>3 DEF PropagationBegin, TypeOK
<1>2. CASE PropagationNext
  <2>1. PICK v \in prop.todo :
            \/ prop' = [prop EXCEPT !.todo = @ \ {v}, !.vehicle = v, !.pc = "read"]
            \/ prop' = IdleProp
            \/ prop' = [prop EXCEPT !.todo = @ \ {v}]
    BY <1>2 DEF PropagationNext
  <2>2. v \in Vehicles /\ prop.todo \ {v} \in SUBSET Vehicles
    BY <1>0
  <2>3. [prop EXCEPT !.todo = prop.todo \ {v}] \in PropRow
    BY <1>0, <2>2
  <2>4. [prop EXCEPT !.todo = prop.todo \ {v}, !.vehicle = v, !.pc = "read"] \in PropRow
    BY <1>0, <2>2, <2>3
  <2>5. prop.pc = "next"
    BY <1>2 DEF PropagationNext
  <2>6. prop' \in PropRow /\ InHand(prop')
    BY <1>0, <2>1, <2>2, <2>3, <2>4, <2>5
  <2> QED BY <1>2, <2>6 DEF PropagationNext, TypeOK
<1>3. CASE PropagationRead
  <2>1. prop' = [prop EXCEPT !.pc = "upsert", !.prev = score[prop.vehicle]]
    BY <1>3 DEF PropagationRead
  <2>2. prop.vehicle \in Vehicles /\ score[prop.vehicle] \in 0..100
    BY <1>0, <1>3 DEF PropagationRead, TypeOK
  <2>3. prop' \in PropRow /\ InHand(prop')
    BY <1>0, <2>1, <2>2
  <2> QED BY <1>3, <2>3 DEF PropagationRead, TypeOK
<1>4. CASE PropagationUpsert
  <2>1. ClampScore(prop.prev + PropagationDelta) \in 0..100
    BY <1>0, ScoreAssumption, ClampIsScore
  <2>2. score' \in [Vehicles -> 0..100]
    BY <1>4, <2>1 DEF PropagationUpsert, TypeOK
  <2>3. prop' \in PropRow /\ InHand(prop')
    BY <1>0, <1>4 DEF PropagationUpsert
  <2>4. raised' \in [Vehicles -> 0..Day]
    BY <1>0, <1>4, ScoreAssumption DEF PropagationUpsert, TypeOK
  <2> QED BY <1>4, <2>2, <2>3, <2>4 DEF PropagationUpsert, TypeOK
<1>5. CASE PropagationEvent
  <2>1. ClampScore(prop.prev + PropagationDelta) \in 0..100
    BY <1>0, ScoreAssumption, ClampIsScore
  <2>2. newest' \in [Vehicles -> 0..100]
    BY <1>5, <2>1 DEF PropagationEvent, TypeOK
  <2>3. prop' \in PropRow /\ InHand(prop')
    <3>1. [IdleProp EXCEPT !.pc = "next", !.todo = prop.todo] \in PropRow
      BY <1>0
    <3>2. \/ prop' = IdleProp
          \/ prop' = [IdleProp EXCEPT !.pc = "next", !.todo = prop.todo]
      BY <1>5 DEF PropagationEvent
    <3>3. [IdleProp EXCEPT !.pc = "next", !.todo = prop.todo].pc = "next"
      BY <1>0
    <3> QED BY <1>0, <3>1, <3>2, <3>3
  <2>4. age' \in [Vehicles -> Ages]
    <3>1. 0 \in 0..Day /\ age \in [Vehicles -> Ages]
      BY ScoreAssumption DEF TypeOK
    <3>2. \A r \in Ages : [r EXCEPT !.propagation = 0] \in Ages
      BY <3>1 DEF Ages
    <3>3. age' = [age EXCEPT ![prop.vehicle] = [age[prop.vehicle] EXCEPT !.propagation = 0]]
      BY <1>5, <3>1 DEF PropagationEvent, Ages
    <3> QED BY <3>1, <3>2, <3>3
  <2> QED BY <1>5, <2>2, <2>3, <2>4 DEF PropagationEvent, TypeOK
<1> QED BY <1>1, <1>2, <1>3, <1>4, <1>5 DEF Propagation

\* The clock leaves every row its type.
LEMMA TickType == ASSUME TypeOK, Tick PROVE TypeOK'
<1>1. \A v \in Vehicles : OlderRow(v) \in Ages
  BY AgesMove
<1>2. age' \in [Vehicles -> Ages]
  BY <1>1 DEF Tick
<1>3. raised' \in [Vehicles -> 0..Day]
  BY ScoreAssumption DEF Tick, TypeOK, Older
<1> QED BY <1>2, <1>3 DEF Tick, TypeOK

\* A failure leaves every row its type.
LEMMA FailureType == ASSUME TypeOK, PropagationFails \/ DecayFails PROVE TypeOK'
<1>1. failures' \in 0..MaxFailures
  BY ScoreAssumption DEF TypeOK, PropagationFails, DecayFails
<1>2. /\ IdleProp \in [pc: {"idle", "next", "read", "upsert", "event"},
                       todo: SUBSET Vehicles, vehicle: Vehicles \cup {None}, prev: 0..100]
      /\ IdleProp.pc = "idle"
  BY DEF IdleProp
<1>3. IdleDecay \in [open: BOOLEAN, locked: SUBSET Vehicles]
  BY DEF IdleDecay
<1> QED BY <1>1, <1>2, <1>3 DEF TypeOK, PropagationFails, DecayFails

\* Every step of the specification, and every stutter, keeps the types.
LEMMA NextType == TypeOK /\ [Next]_vars => TypeOK'
<1> SUFFICES ASSUME TypeOK, [Next]_vars PROVE TypeOK'
  OBVIOUS
<1>1. CASE UNCHANGED vars
  BY <1>1 DEF vars, TypeOK
<1> QED BY <1>1, AnomalyType, DecayType, PropagationType, TickType, FailureType DEF Next

\* Whatever the anomalies, the decay and the propagation write over each other,
\* and whatever fails: a score stays within 0 to 100.
THEOREM ScoreInRange == Spec => []TypeOK
<1> QED BY InitType, NextType, PTL DEF Spec

-----------------------------------------------------------------------------
(* The propagation raises a vehicle once in 24 hours                       *)

\* The initial state: no event and no write yet, nothing in hand.
LEMMA InitFollows == Init => EventFollowsWrite
<1> SUFFICES ASSUME Init PROVE EventFollowsWrite
  OBVIOUS
<1>1. TypeOK
  BY InitType
<1>2. \A v \in Vehicles : age[v].propagation <= raised[v]
  BY ScoreAssumption DEF Init, Week
<1> QED BY <1>1, <1>2 DEF EventFollowsWrite, Init, IdleProp

\* Anomalies and the decay touch neither the propagation nor its events.
LEMMA OthersFollow ==
    ASSUME EventFollowsWrite, TypeOK',
           UNCHANGED <<prop, failures, raised>>,
           \A v \in Vehicles : age'[v].propagation = age[v].propagation
    PROVE  EventFollowsWrite'
BY DEF EventFollowsWrite, TypeOK

\* A new anomaly leaves the age of the propagation's event alone.
LEMMA AnomalyFollows ==
    ASSUME EventFollowsWrite, NEW v \in Vehicles, NEW rule \in DOMAIN Delta,
           NEW severity \in Severities, Anomaly(v, rule, severity)
    PROVE  EventFollowsWrite'
<1>1. TypeOK /\ TypeOK'
  BY AnomalyType DEF EventFollowsWrite
<1> DEFINE row == [age[v] EXCEPT !.anomaly = 0,
                      !.high = IF severity \in {"HIGH", "CRITICAL"} THEN 0 ELSE age[v].high]
<1>2. age' = [age EXCEPT ![v] = row]
  BY DEF Anomaly
<1>3. row.propagation = age[v].propagation
  BY <1>1 DEF TypeOK, Ages
<1> HIDE DEF row
<1>4. \A u \in Vehicles : age'[u].propagation = age[u].propagation
  BY <1>1, <1>2, <1>3 DEF TypeOK
<1> QED BY <1>1, <1>4, OthersFollow DEF Anomaly

\* So does the decay.
LEMMA DecayFollows == ASSUME EventFollowsWrite, Decay PROVE EventFollowsWrite'
<1>1. TypeOK /\ TypeOK'
  BY DecayType DEF EventFollowsWrite
<1>2. \A v \in Vehicles : age'[v].propagation = age[v].propagation
  BY <1>1, AgesMove DEF Decay, DecayBegin, DecayCommit
<1> QED BY <1>1, <1>2, OthersFollow DEF Decay, DecayBegin, DecayCommit

\* The propagation itself: the check comes before the write, and the event after
\* it, with no tick in between.
LEMMA PropagationFollows == ASSUME EventFollowsWrite, Propagation PROVE EventFollowsWrite'
<1>1. TypeOK /\ TypeOK'
  BY PropagationType DEF EventFollowsWrite
<1>2. \A v \in Vehicles : age[v].propagation \in 0..Day /\ raised[v] \in 0..Day
  BY <1>1 DEF TypeOK, Ages
<1>3. CASE PropagationBegin
  <2>1. prop'.pc = "next" /\ prop.pc = "idle"
    BY <1>3 DEF PropagationBegin, IdleProp
  <2> QED BY <1>1, <1>3, <2>1 DEF EventFollowsWrite, PropagationBegin
<1>4. CASE PropagationNext
  <2>1. PICK v \in prop.todo :
            \/ /\ age[v].propagation >= Day
               /\ prop' = [prop EXCEPT !.todo = @ \ {v}, !.vehicle = v, !.pc = "read"]
            \/ prop' = IdleProp
            \/ prop' = [prop EXCEPT !.todo = @ \ {v}]
    BY <1>4 DEF PropagationNext
  <2>2. prop.pc = "next" /\ v \in Vehicles
    BY <1>1, <1>4 DEF PropagationNext, TypeOK
  <2>3. \/ prop'.pc \in {"idle", "next"}
        \/ prop'.pc = "read" /\ prop'.vehicle = v /\ age[v].propagation >= Day
    <3>1. /\ [prop EXCEPT !.todo = prop.todo \ {v}].pc = "next"
          /\ IdleProp.pc = "idle"
      BY <1>1, <2>2 DEF TypeOK, IdleProp
    <3>2. /\ [prop EXCEPT !.todo = prop.todo \ {v}, !.vehicle = v, !.pc = "read"].pc = "read"
          /\ [prop EXCEPT !.todo = prop.todo \ {v}, !.vehicle = v, !.pc = "read"].vehicle = v
      BY <1>1 DEF TypeOK
    <3> QED BY <2>1, <3>1, <3>2
  <2> QED BY <1>1, <1>4, <2>2, <2>3 DEF EventFollowsWrite, PropagationNext
<1>5. CASE PropagationRead
  <2>1. prop.pc = "read" /\ prop'.pc = "upsert" /\ prop'.vehicle = prop.vehicle
    BY <1>1, <1>5 DEF PropagationRead, TypeOK
  <2> QED BY <1>1, <1>5, <2>1 DEF EventFollowsWrite, PropagationRead
<1>6. CASE PropagationUpsert
  <2>1. prop.pc = "upsert" /\ prop'.pc = "event" /\ prop'.vehicle = prop.vehicle
    BY <1>1, <1>6 DEF PropagationUpsert, TypeOK
  <2>2. \A v \in Vehicles \ {prop.vehicle} : raised'[v] = raised[v]
    BY <1>1, <1>6 DEF PropagationUpsert, TypeOK
  <2> QED BY <1>1, <1>6, <2>1, <2>2 DEF EventFollowsWrite, PropagationUpsert
<1>7. CASE PropagationEvent
  <2>1. prop.pc = "event" /\ prop'.pc \in {"idle", "next"} /\ prop.vehicle \in Vehicles
    BY <1>1, <1>7 DEF PropagationEvent, TypeOK, IdleProp
  <2>2. \A v \in Vehicles \ {prop.vehicle} : age'[v] = age[v]
    BY <1>1, <1>7 DEF PropagationEvent, TypeOK
  <2>3. age'[prop.vehicle].propagation = 0
    BY <1>1, <1>7, <2>1 DEF PropagationEvent, TypeOK, Ages
  <2>4. failures = 0 => \A v \in Vehicles : age'[v].propagation <= raised[v]
    BY <1>2, <2>1, <2>2, <2>3 DEF EventFollowsWrite
  <2> QED BY <1>1, <1>7, <2>1, <2>4 DEF EventFollowsWrite, PropagationEvent
<1> QED BY <1>3, <1>4, <1>5, <1>6, <1>7 DEF Propagation

\* Event and write grow old together, while the propagation rests.
LEMMA TickFollows == ASSUME EventFollowsWrite, Tick PROVE EventFollowsWrite'
<1>1. TypeOK /\ TypeOK'
  BY TickType DEF EventFollowsWrite
<1>2. \A m, n \in 0..Day : m <= n => Older(m, Day) <= Older(n, Day)
  BY ScoreAssumption DEF Older
<1>3. \A v \in Vehicles :
          /\ age'[v].propagation = Older(age[v].propagation, Day)
          /\ raised'[v] = Older(raised[v], Day)
  BY <1>1, AgesMove DEF Tick
<1>4. \A v \in Vehicles : age[v].propagation \in 0..Day /\ raised[v] \in 0..Day
  BY <1>1 DEF TypeOK, Ages
<1>5. failures = 0 => \A v \in Vehicles : age'[v].propagation <= raised'[v]
  BY <1>2, <1>3, <1>4 DEF EventFollowsWrite, Tick, Idle
<1> QED BY <1>1, <1>5 DEF EventFollowsWrite, Tick, Idle

\* A failure leaves nothing in hand and ends what the invariant says of the writes.
LEMMA FailureFollows ==
    ASSUME EventFollowsWrite, PropagationFails \/ DecayFails PROVE EventFollowsWrite'
<1>1. TypeOK /\ TypeOK'
  BY FailureType DEF EventFollowsWrite
<1>2. failures' # 0
  BY <1>1 DEF TypeOK, PropagationFails, DecayFails
<1> QED BY <1>1, <1>2 DEF EventFollowsWrite, PropagationFails, DecayFails, IdleProp

\* As long as nothing has failed, event and write never part for longer than the
\* two queries take.
THEOREM EventAndWrite == Spec => []EventFollowsWrite
<1>1. EventFollowsWrite /\ [Next]_vars => EventFollowsWrite'
  <2> SUFFICES ASSUME EventFollowsWrite, [Next]_vars PROVE EventFollowsWrite'
    OBVIOUS
  <2>1. CASE UNCHANGED vars
    BY <2>1 DEF vars, EventFollowsWrite, TypeOK
  <2>2. CASE PropagationFails \/ DecayFails
    BY <2>2, FailureFollows
  <2>3. CASE \E v \in Vehicles, rule \in DOMAIN Delta, severity \in Severities :
                 Anomaly(v, rule, severity)
    BY <2>3, AnomalyFollows
  <2>4. CASE Decay
    BY <2>4, DecayFollows
  <2>5. CASE Propagation
    BY <2>5, PropagationFollows
  <2>6. CASE Tick
    BY <2>6, TickFollows
  <2> QED BY <2>1, <2>2, <2>3, <2>4, <2>5, <2>6 DEF Next
<1> QED BY <1>1, InitFollows, PTL DEF Spec

\* As long as nothing has failed, no vehicle is raised twice in 24 hours: for any
\* owners, flags, anomalies, decay, and any interleaving of the queries.
THEOREM OnceADay == Spec => RaisedOncePerDay
<1>1. ASSUME EventFollowsWrite, NEW v \in Vehicles, PropagationUpsert, prop.vehicle = v,
             failures = 0
      PROVE  raised[v] >= Day
  <2>1. age[v].propagation \in 0..Day /\ raised[v] \in 0..Day /\ Day \in Nat /\ Week \in Nat
    BY <1>1, ScoreAssumption DEF EventFollowsWrite, TypeOK, Ages, Week
  <2>2. age[v].propagation >= Day /\ age[v].propagation <= raised[v]
    BY <1>1 DEF EventFollowsWrite, PropagationUpsert
  <2> QED BY <2>1, <2>2
<1>2. EventFollowsWrite =>
          [\A v \in Vehicles :
              PropagationUpsert /\ prop.vehicle = v /\ failures = 0 => raised[v] >= Day]_vars
  BY <1>1
<1> QED BY <1>2, EventAndWrite, PTL DEF RaisedOncePerDay

-----------------------------------------------------------------------------
(* The decay is paced                                                      *)

\* What makes DecayIsPaced inductive: rows are locked by an open decay only, and
\* what made a row due is still so as long as it is locked.
LockedIsDue ==
    /\ ~decay.open => decay.locked = {}
    /\ \A v \in decay.locked : age[v].anomaly >= Day /\ age[v].decay >= Day

\* A step that leaves the decay and the ages of its rows alone leaves them due.
LEMMA LockedStaysDue ==
    ASSUME LockedIsDue, UNCHANGED decay,
           \A v \in decay.locked :
               age'[v].anomaly = age[v].anomaly /\ age'[v].decay = age[v].decay
    PROVE  LockedIsDue'
BY DEF LockedIsDue

\* Every step keeps the locked rows due: anomalies wait for them, time does not
\* pass over an open decay, and the propagation stamps its own event only.
LEMMA NextLocked == TypeOK /\ LockedIsDue /\ [Next]_vars => LockedIsDue'
<1> SUFFICES ASSUME TypeOK, LockedIsDue, [Next]_vars PROVE LockedIsDue'
  OBVIOUS
<1>0. decay.locked \subseteq Vehicles
  BY DEF TypeOK
<1>1. ASSUME NEW v \in Vehicles, NEW rule \in DOMAIN Delta, NEW severity \in Severities,
             Anomaly(v, rule, severity)
      PROVE  LockedIsDue'
  <2>1. v \notin decay.locked /\ \A u \in Vehicles \ {v} : age'[u] = age[u]
    BY <1>1 DEF Anomaly, TypeOK
  <2> QED BY <1>0, <1>1, <2>1, LockedStaysDue DEF Anomaly
<1>2. CASE DecayBegin
  BY <1>2 DEF DecayBegin, LockedIsDue, DueDaily
<1>3. CASE DecayCommit \/ DecayFails
  <2>1. decay' = IdleDecay
    BY <1>3 DEF DecayCommit, DecayFails
  <2> QED BY <2>1 DEF IdleDecay, LockedIsDue
<1>4. CASE Propagation
  <2>1. UNCHANGED decay
    BY <1>4 DEF Propagation, PropagationBegin, PropagationNext, PropagationRead,
                PropagationUpsert, PropagationEvent
  <2>2. CASE PropagationEvent
    <3>1. age' = [age EXCEPT ![prop.vehicle].propagation = 0]
      BY <2>2 DEF PropagationEvent
    <3>2. \A v \in Vehicles :
              age'[v].anomaly = age[v].anomaly /\ age'[v].decay = age[v].decay
      BY <3>1 DEF TypeOK, Ages
    <3> QED BY <1>0, <2>1, <3>2, LockedStaysDue
  <2>3. CASE UNCHANGED age
    BY <2>1, <2>3, LockedStaysDue
  <2> QED
    BY <1>4, <2>2, <2>3
    DEF Propagation, PropagationBegin, PropagationNext, PropagationRead, PropagationUpsert
<1>5. CASE PropagationFails
  BY <1>5, LockedStaysDue DEF PropagationFails
<1>6. CASE Tick
  BY <1>6 DEF Tick, Idle, LockedIsDue
<1>7. CASE UNCHANGED vars
  BY <1>7, LockedStaysDue DEF vars
<1> QED BY <1>1, <1>2, <1>3, <1>4, <1>5, <1>6, <1>7 DEF Next, Decay

\* The decay lowers a score only 24 hours after the last anomaly and the last decay,
\* whatever the engine and the propagation do between its two SELECTs and its commit.
THEOREM DecayKeepsPace == Spec => DecayIsPaced
<1>1. Init => LockedIsDue
  BY DEF Init, IdleDecay, LockedIsDue
<1>2. TypeOK /\ LockedIsDue =>
          [\A v \in Vehicles :
              DecayCommit /\ score'[v] < score[v] =>
                  age[v].anomaly >= Day /\ age[v].decay >= Day]_vars
  <2> SUFFICES ASSUME TypeOK, LockedIsDue, NEW v \in Vehicles, DecayCommit, score'[v] < score[v]
      PROVE  age[v].anomaly >= Day /\ age[v].decay >= Day
    OBVIOUS
  <2>1. score'[v] = Decayed(v)
    BY DEF DecayCommit
  <2>2. CASE v \in decay.locked
    BY <2>2 DEF LockedIsDue
  <2>3. CASE v \notin decay.locked
    <3>1. DueWeekly(v)
      BY <2>1, <2>3 DEF Decayed, TypeOK
    <3>2. age[v].anomaly >= Week /\ age[v].decay >= Week
      BY <3>1 DEF DueWeekly, QuietWeek
    <3>3. Week >= Day /\ Week \in Nat /\ Day \in Nat
      BY ScoreAssumption DEF Week
    <3>4. age[v].anomaly \in Int /\ age[v].decay \in Int
      BY <3>3 DEF TypeOK, Ages
    <3> QED BY <3>2, <3>3, <3>4
  <2> QED BY <2>2, <2>3
<1> QED BY <1>1, <1>2, NextLocked, ScoreInRange, PTL DEF Spec, DecayIsPaced
=============================================================================
