----------------------------- MODULE TelemetryIntake -----------------------------
(* Positions of vehicles (services/api-gateway/src/telemetry-intake.js): a post     *)
(* looks for the same position, stores its own, matches it to the route and sets    *)
(* the status of the vehicle, each in a statement of its own. A trigger keeps the   *)
(* current position of a vehicle. Devices send late, twice and again after a        *)
(* failure, so posts on one vehicle run interleaved. Which vehicle a device is in,  *)
(* the quality counters and the geometry are left out.                              *)
EXTENDS Naturals, FiniteSets, Sequences

CONSTANTS
    Vehicles,
    Payloads,       \* what devices send: vehicle, ts, place (lat, lon) and status
    Posts,          \* requests in flight at a time
    NoStatus,
    MaxPositions, MaxFailures   \* bounds

IntakeConstants ==
    /\ \A m \in Payloads : m.vehicle \in Vehicles /\ m.ts \in Nat
    /\ {MaxPositions, MaxFailures} \subseteq Nat

VARIABLES
    positions,   \* vehicle_positions, by position_id
    current,     \* vehicle_current_positions: the position of each vehicle, 0 without
    status,      \* vehicles.status
    posts,       \* what each request has done
    orderly,     \* history: no post on the vehicle was late, overlapped or failed
    failures

vars == <<positions, current, status, posts, orderly, failures>>

NoPost == [step |-> "none"]
Statuses == {m.status : m \in Payloads} \cup {NoStatus}

Init ==
    /\ positions = <<>>
    /\ current = [v \in Vehicles |-> 0]
    /\ status = [v \in Vehicles |-> NoStatus]
    /\ posts = [p \in Posts |-> NoPost]
    /\ orderly = [v \in Vehicles |-> TRUE]
    /\ failures = 0

UnderWay(v) == {p \in Posts : posts[p] # NoPost /\ posts[p].payload.vehicle = v}
Of(v) == {i \in DOMAIN positions : positions[i].vehicle = v}
-----------------------------------------------------------------------------
DuplicatesInCurrent(m) ==
    {i \in {current[m.vehicle]} \ {0} : positions[i].ts = m.ts /\ positions[i].place = m.place}
Duplicates(m) == {i \in Of(m.vehicle) : positions[i].ts = m.ts /\ positions[i].place = m.place}

\* The answer is the position that is there; nothing changes.
AnswerDuplicate(m) == Duplicates(m) # {} /\ UNCHANGED vars

\* `read` is history: how many positions there were.
Begin(p, m) ==
    /\ posts[p] = NoPost
    /\ Duplicates(m) = {}
    /\ posts' = [posts EXCEPT ![p] =
           [step |-> "insert", payload |-> m, position |-> 0, read |-> Len(positions)]]
    /\ orderly' = [orderly EXCEPT ![m.vehicle] = @ /\ UnderWay(m.vehicle) = {}]
    /\ UNCHANGED <<positions, current, status, failures>>

NewerByTime(m, v) == current[v] = 0 \/ positions[current[v]].ts < m.ts

\* The condition of the trigger; a new position has the greatest id.
Newer(m, v) == current[v] = 0 \/ positions[current[v]].ts <= m.ts

Insert(p) ==
    LET m == posts[p].payload
        n == Len(positions) + 1
    IN /\ posts[p].step = "insert" /\ n <= MaxPositions
       /\ positions' = Append(positions,
              [vehicle |-> m.vehicle, ts |-> m.ts, place |-> m.place, status |-> m.status,
               matched |-> FALSE, read |-> posts[p].read])
       /\ current' = IF Newer(m, m.vehicle) THEN [current EXCEPT ![m.vehicle] = n] ELSE current
       /\ orderly' = [orderly EXCEPT ![m.vehicle] =
              @ /\ \A i \in Of(m.vehicle) : positions[i].ts <= m.ts]
       /\ posts' = [posts EXCEPT ![p].step = "match", ![p].position = n]
       /\ UNCHANGED <<status, failures>>

\* persistMatchedTelemetryPosition.  Without a status this is the end.
Match(p) ==
    /\ posts[p].step = "match"
    /\ positions' = [positions EXCEPT ![posts[p].position].matched = TRUE]
    /\ posts' = IF posts[p].payload.status = NoStatus THEN [posts EXCEPT ![p] = NoPost]
                ELSE [posts EXCEPT ![p].step = "status"]
    /\ UNCHANGED <<current, status, orderly, failures>>

\* Whatever other positions of the vehicle have come meanwhile.
UpdateStatus(p) ==
    /\ posts[p].step = "status"
    /\ status' = [status EXCEPT ![posts[p].payload.vehicle] = posts[p].payload.status]
    /\ posts' = [posts EXCEPT ![p] = NoPost]
    /\ UNCHANGED <<positions, current, orderly, failures>>

\* A statement fails or the process ends: what was stored stays, and a device
\* that tries again is told that its position is a duplicate.
PostFails(p) ==
    /\ posts[p] # NoPost
    /\ failures < MaxFailures /\ failures' = failures + 1
    /\ orderly' = [orderly EXCEPT ![posts[p].payload.vehicle] = FALSE]
    /\ posts' = [posts EXCEPT ![p] = NoPost]
    /\ UNCHANGED <<positions, current, status>>

Post(p) ==
    \/ \E m \in Payloads : Begin(p, m)
    \/ Insert(p) \/ Match(p) \/ UpdateStatus(p) \/ PostFails(p)

Next == \/ \E p \in Posts : Post(p)
        \/ \E m \in Payloads : AnswerDuplicate(m)

Spec == Init /\ [][Next]_vars
-----------------------------------------------------------------------------
(* Properties                                                                  *)

\* Types; every position but those of posts under way or failed ones is matched.
TypeOK ==
    /\ positions \in Seq([vehicle : Vehicles, ts : {m.ts : m \in Payloads},
                          place : {m.place : m \in Payloads}, status : Statuses,
                          matched : BOOLEAN, read : 0..MaxPositions])
    /\ \A v \in Vehicles : current[v] \in Of(v) \cup {0} /\ status[v] \in Statuses
    /\ \A p \in Posts : posts[p] # NoPost =>
         /\ posts[p].step \in {"insert", "match", "status"} /\ posts[p].payload \in Payloads
         /\ posts[p].position \in 0..Len(positions)
    /\ Cardinality({i \in DOMAIN positions : ~positions[i].matched})
         <= failures + Cardinality({p \in Posts : posts[p] # NoPost})

\* A position is stored twice only if the second post looked before the first
\* one's insert: a retry that comes after an answer, or after a failure, never
\* doubles it (nothing in the database forbids a second row).
StoredTwiceNeedsOverlap ==
    \A i, j \in DOMAIN positions :
        /\ i < j
        /\ <<positions[i].vehicle, positions[i].ts, positions[i].place>>
             = <<positions[j].vehicle, positions[j].ts, positions[j].place>>
        => positions[j].read < i

\* The status of a vehicle and its current position, kept by two mechanisms, tell
\* the same as long as its posts come in the order of their timestamps, one at
\* a time and without a failure: only then the last status is the newest one.
StatusIsOfCurrent ==
    \A v \in Vehicles :
        /\ orderly[v] /\ UnderWay(v) = {} /\ current[v] # 0
        /\ positions[current[v]].status # NoStatus
        => status[v] = positions[current[v]].status
=============================================================================
