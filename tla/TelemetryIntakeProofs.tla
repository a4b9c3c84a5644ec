------------------------- MODULE TelemetryIntakeProofs -------------------------
(***************************************************************************)
(* What posts that are late, overlap or fail never do to the positions and *)
(* the status of a vehicle: for any vehicles, payloads, posts and bounds.  *)
(***************************************************************************)
EXTENDS TelemetryIntake, SequenceTheorems, FiniteSetTheorems, TLAPS

Times == {m.ts : m \in Payloads}
Places == {m.place : m \in Payloads}
AnyPosition ==
    [vehicle : Vehicles, ts : Times, place : Places, status : Statuses, matched : BOOLEAN,
     read : 0..MaxPositions]
AnyPost ==
    [step : {"insert", "match", "status"}, payload : Payloads, position : 0..MaxPositions,
     read : 0..MaxPositions]

Types ==
    /\ positions \in Seq(AnyPosition) /\ Len(positions) <= MaxPositions
    /\ current \in [Vehicles -> Nat]
    /\ status \in [Vehicles -> Statuses]
    /\ posts \in [Posts -> {NoPost} \cup AnyPost]
    /\ orderly \in [Vehicles -> BOOLEAN]

\* Whoever names a position names one that is there, of its vehicle.
NamesExist ==
    /\ \A v \in Vehicles : current[v] # 0 =>
         current[v] \in DOMAIN positions /\ positions[current[v]].vehicle = v
    /\ \A p \in Posts : posts[p] # NoPost =>
         /\ posts[p].read <= Len(positions)
         /\ posts[p].step = "insert" => posts[p].position = 0
         /\ posts[p].step # "insert" => posts[p].position \in DOMAIN positions

Same(i, m) ==
    /\ positions[i].vehicle = m.vehicle
    /\ positions[i].ts = m.ts /\ positions[i].place = m.place

\* A post that is about to insert has read no position like its own.
NoDuplicateRead ==
    \A p \in Posts : posts[p] # NoPost =>
        \A i \in 1..posts[p].read : ~ Same(i, posts[p].payload)

At(p, v) == posts[p] # NoPost /\ posts[p].payload.vehicle = v

\* While the posts on a vehicle are orderly there is one at a time; its position,
\* when it is stored, is the current one, and until then the status is that of
\* the current one.
OneAtATime ==
    \A v \in Vehicles, p, q \in Posts : orderly[v] /\ At(p, v) /\ At(q, v) => p = q
StoredIsCurrent ==
    \A v \in Vehicles, p \in Posts :
        orderly[v] /\ At(p, v) /\ posts[p].step # "insert" =>
            /\ posts[p].position = current[v] /\ current[v] # 0
            /\ positions[current[v]].status = posts[p].payload.status
StatusFollows ==
    \A v \in Vehicles :
        /\ orderly[v] /\ current[v] # 0
        /\ \A p \in Posts : At(p, v) => posts[p].step = "insert"
        => \/ positions[current[v]].status = NoStatus
           \/ status[v] = positions[current[v]].status

TInv ==
    /\ Types
    /\ NamesExist
    /\ NoDuplicateRead
    /\ StoredTwiceNeedsOverlap
    /\ OneAtATime
    /\ StoredIsCurrent
    /\ StatusFollows
-----------------------------------------------------------------------------
(* The tables.                                                             *)

LEMMA Shapes ==
    ASSUME Types
    PROVE  /\ Len(positions) \in Nat /\ DOMAIN positions = 1..Len(positions)
           /\ positions \in [1..Len(positions) -> AnyPosition]
           /\ \A p \in Posts : posts[p] # NoPost => posts[p] \in AnyPost
           /\ \A p \in Posts : posts[p] = NoPost <=> posts[p].step = "none"
<1>1. /\ Len(positions) \in Nat /\ DOMAIN positions = 1..Len(positions)
      /\ positions \in [1..Len(positions) -> AnyPosition]
  BY LenProperties DEF Types
<1>2. \A p \in Posts : posts[p] = NoPost \/ posts[p] \in AnyPost
  BY DEF Types
<1>3. NoPost.step = "none" /\ \A q \in AnyPost : q.step # "none"
  BY DEF NoPost, AnyPost
<1> QED BY <1>1, <1>2, <1>3

\* A payload is of a vehicle, with a time.
LEMMA Payload ==
    ASSUME IntakeConstants, NEW m \in Payloads
    PROVE  /\ m.vehicle \in Vehicles /\ m.ts \in Nat /\ m.ts \in Times /\ m.place \in Places
           /\ m.status \in Statuses
BY DEF IntakeConstants, Times, Places, Statuses

\* A position is updated by its id.
LEMMA PositionUpdated ==
    ASSUME Types, NEW n \in DOMAIN positions, NEW e \in AnyPosition,
           positions' = [positions EXCEPT ![n] = e]
    PROVE  /\ positions' \in Seq(AnyPosition) /\ Len(positions') = Len(positions)
           /\ DOMAIN positions' = DOMAIN positions
           /\ positions'[n] = e
           /\ \A i \in DOMAIN positions : i # n => positions'[i] = positions[i]
<1>1. n \in 1..Len(positions) /\ positions \in Seq(AnyPosition)
  BY Shapes DEF Types
<1>2. positions' \in Seq(AnyPosition) /\ Len(positions') = Len(positions)
  BY <1>1, ExceptSeq, Zenon
<1> QED BY <1>1, <1>2, Shapes, LenProperties

\* What changes neither positions nor payloads keeps what was read.
LEMMA ReadsStand ==
    ASSUME TInv, positions' = positions,
           \A p \in Posts : posts'[p] # NoPost =>
               posts[p] # NoPost /\ posts'[p].read = posts[p].read
                                 /\ posts'[p].payload = posts[p].payload
    PROVE  NoDuplicateRead' /\ StoredTwiceNeedsOverlap'
BY DEF TInv, NoDuplicateRead, StoredTwiceNeedsOverlap, Same
-----------------------------------------------------------------------------
(* The steps.                                                              *)

LEMMA TInvInit == ASSUME IntakeConstants, Init PROVE TInv
<1>1. positions \in Seq(AnyPosition) /\ Len(positions) = 0 /\ DOMAIN positions = {}
  BY EmptySeq, LenProperties DEF Init
<1>2. Types
  BY <1>1 DEF Types, Init, IntakeConstants, Statuses
<1>3. (\A p \in Posts : posts[p] = NoPost) /\ (\A v \in Vehicles : current[v] = 0)
  BY DEF Init
<1> QED BY <1>1, <1>2, <1>3
        DEF TInv, NamesExist, NoDuplicateRead, StoredTwiceNeedsOverlap, OneAtATime, At,
            StoredIsCurrent, StatusFollows

LEMMA BeginKeeps ==
    ASSUME IntakeConstants, TInv, NEW p \in Posts, NEW m \in Payloads, Begin(p, m)
    PROVE  TInv'
<1> USE DEF TInv
<1> DEFINE c == [step |-> "insert", payload |-> m, position |-> 0, read |-> Len(positions)]
           o == orderly[m.vehicle] /\ UnderWay(m.vehicle) = {}
<1>1. /\ positions' = positions /\ current' = current /\ status' = status
      /\ posts[p] = NoPost /\ Duplicates(m) = {}
      /\ posts' = [posts EXCEPT ![p] = c]
      /\ orderly' = [orderly EXCEPT ![m.vehicle] = o]
  BY DEF Begin
<1>2. c \in AnyPost /\ c # NoPost
  <2>1. Len(positions) \in 0..MaxPositions /\ 0 \in 0..MaxPositions
    BY Shapes DEF Types, IntakeConstants
  <2> QED BY <2>1 DEF AnyPost, NoPost
<1>3. c.step = "insert" /\ c.payload = m /\ c.position = 0 /\ c.read = Len(positions)
  OBVIOUS
<1>4. o \in BOOLEAN /\ (o => orderly[m.vehicle] /\ \A q \in Posts : ~ At(q, m.vehicle))
  BY DEF UnderWay, At
<1> HIDE DEF c, o
<1>5. posts'[p] = c /\ \A q \in Posts : q # p => posts'[q] = posts[q]
  BY <1>1 DEF Types
<1>6. /\ orderly'[m.vehicle] = o /\ orderly' \in [Vehicles -> BOOLEAN]
      /\ \A v \in Vehicles : v # m.vehicle => orderly'[v] = orderly[v]
  BY <1>1, <1>4, Payload DEF Types
<1>7. Types'
  BY <1>1, <1>2, <1>6 DEF Types
<1>8. NamesExist'
  BY <1>1, <1>3, <1>5, Shapes DEF NamesExist
<1>9. NoDuplicateRead'
  <2> SUFFICES ASSUME NEW q \in Posts, posts'[q] # NoPost, NEW i \in 1..posts'[q].read
               PROVE  ~ Same(i, posts'[q].payload)
    BY <1>1 DEF NoDuplicateRead, Same
  <2>1. CASE q = p
    BY <1>1, <1>3, <1>5, <2>1, Shapes DEF Duplicates, Of, Same
  <2>2. CASE q # p
    BY <1>5, <2>2 DEF NoDuplicateRead
  <2> QED BY <2>1, <2>2
<1>10. StoredTwiceNeedsOverlap'
  BY <1>1 DEF StoredTwiceNeedsOverlap
\* The new post is at its vehicle; the others are where they were.
<1>11. \A q \in Posts, v \in Vehicles :
         (At(q, v))' <=> IF q = p THEN v = m.vehicle ELSE At(q, v)
  BY <1>2, <1>3, <1>5 DEF At
<1>12. \A v \in Vehicles : orderly'[v] =>
         orderly[v] /\ (v = m.vehicle => \A q \in Posts : ~ At(q, v))
  BY <1>4, <1>6
<1>13. OneAtATime'
  <2> SUFFICES ASSUME NEW v \in Vehicles, NEW q \in Posts, NEW r \in Posts,
                      orderly'[v], (At(q, v))', (At(r, v))'
               PROVE  q = r
    BY DEF OneAtATime
  <2> QED BY <1>11, <1>12 DEF OneAtATime
<1>14. StoredIsCurrent'
  <2> SUFFICES ASSUME NEW v \in Vehicles, NEW q \in Posts,
                      orderly'[v], (At(q, v))', posts'[q].step # "insert"
               PROVE  /\ posts'[q].position = current[v] /\ current[v] # 0
                      /\ positions[current[v]].status = posts'[q].payload.status
    BY <1>1 DEF StoredIsCurrent
  <2>1. q # p
    BY <1>3, <1>5
  <2> QED BY <1>5, <1>11, <1>12, <2>1 DEF StoredIsCurrent
<1>15. StatusFollows'
  <2> SUFFICES ASSUME NEW v \in Vehicles, orderly'[v], current[v] # 0,
                      \A q \in Posts : (At(q, v))' => posts'[q].step = "insert"
               PROVE  \/ positions[current[v]].status = NoStatus
                      \/ status[v] = positions[current[v]].status
    BY <1>1 DEF StatusFollows
  <2>1. \A q \in Posts : At(q, v) => posts[q].step = "insert"
    <3> TAKE q \in Posts
    <3>1. CASE q = p
      BY <1>1, <3>1 DEF At
    <3>2. CASE q # p
      BY <1>5, <1>11, <3>2
    <3> QED BY <3>1, <3>2
  <2> QED BY <1>12, <2>1 DEF StatusFollows
<1> QED BY <1>7, <1>8, <1>9, <1>10, <1>13, <1>14, <1>15

\* The position is stored. If it is not late it is the current one, by the trigger.
LEMMA InsertKeeps ==
    ASSUME IntakeConstants, TInv, NEW p \in Posts, Insert(p)
    PROVE  TInv'
<1> USE DEF TInv
<1> DEFINE m == posts[p].payload
           n == Len(positions) + 1
           e == [vehicle |-> m.vehicle, ts |-> m.ts, place |-> m.place, status |-> m.status,
                 matched |-> FALSE, read |-> posts[p].read]
           c == [posts[p] EXCEPT !.step = "match", !.position = n]
           o == orderly[m.vehicle] /\ \A i \in Of(m.vehicle) : positions[i].ts <= m.ts
<1>1. /\ posts[p].step = "insert" /\ n <= MaxPositions
      /\ positions' = Append(positions, e)
      /\ current' = IF Newer(m, m.vehicle) THEN [current EXCEPT ![m.vehicle] = n] ELSE current
      /\ orderly' = [orderly EXCEPT ![m.vehicle] = o]
      /\ posts' = [posts EXCEPT ![p] = c]
      /\ status' = status
  BY DEF Insert
<1>2. /\ posts[p] # NoPost /\ posts[p] \in AnyPost /\ posts[p].read <= Len(positions)
      /\ m \in Payloads
  BY <1>1, Shapes DEF NamesExist, AnyPost
<1>3. n \in Nat \ {0} /\ Len(positions) < n /\ n \in 0..MaxPositions
  BY <1>1, Shapes DEF IntakeConstants
<1>4. e \in AnyPosition
  BY <1>2, Payload DEF AnyPosition, AnyPost
<1>5. /\ e.vehicle = m.vehicle /\ e.ts = m.ts /\ e.place = m.place /\ e.status = m.status
      /\ e.read = posts[p].read
  OBVIOUS
<1>6. /\ c \in AnyPost /\ c.step = "match" /\ c.payload = m /\ c.position = n
      /\ c.read = posts[p].read
  BY <1>2, <1>3 DEF AnyPost
<1>7. c # NoPost
  BY <1>6 DEF NoPost
<1>8. o \in BOOLEAN /\ (o => orderly[m.vehicle] /\ \A i \in Of(m.vehicle) : positions[i].ts <= m.ts)
  BY <1>2, Payload DEF Types
<1> HIDE DEF e, c, o
<1>9. /\ positions' \in Seq(AnyPosition) /\ Len(positions') = n
      /\ DOMAIN positions' = DOMAIN positions \cup {n} /\ n \notin DOMAIN positions
      /\ positions'[n] = e
      /\ \A i \in DOMAIN positions : positions'[i] = positions[i] /\ i \in Nat /\ i < n /\ i # 0
  <2>1. positions \in Seq(AnyPosition)
    BY DEF Types
  <2>2. /\ positions' \in Seq(AnyPosition) /\ Len(positions') = n
        /\ \A i \in 1..Len(positions) : positions'[i] = positions[i]
        /\ positions'[n] = e
    BY <1>1, <1>4, <2>1, AppendProperties
  <2>3. DOMAIN positions' = 1..n
    BY <2>2, LenProperties
  <2> QED BY <2>2, <2>3, Shapes
<1> HIDE DEF n
<1>10. posts'[p] = c /\ \A q \in Posts : q # p => posts'[q] = posts[q]
  BY <1>1 DEF Types
<1>11. /\ orderly'[m.vehicle] = o /\ orderly' \in [Vehicles -> BOOLEAN]
       /\ \A v \in Vehicles : v # m.vehicle => orderly'[v] = orderly[v]
  BY <1>1, <1>2, <1>8, Payload DEF Types
<1>12. m.vehicle \in Vehicles
  BY <1>2, Payload
<1>13. /\ current' \in [Vehicles -> Nat]
       /\ \A v \in Vehicles : v # m.vehicle => current'[v] = current[v]
       /\ Newer(m, m.vehicle) => current'[m.vehicle] = n
       /\ current'[m.vehicle] = n \/ current'[m.vehicle] = current[m.vehicle]
  <2>1. CASE Newer(m, m.vehicle)
    <3>1. current' = [current EXCEPT ![m.vehicle] = n]
      BY <1>1, <2>1
    <3> QED BY <1>3, <1>12, <3>1 DEF Types
  <2>2. CASE ~ Newer(m, m.vehicle)
    <3>1. current' = current
      BY <1>1, <2>2
    <3> QED BY <2>2, <3>1 DEF Types
  <2> QED BY <2>1, <2>2
\* Nothing of the vehicle is newer than what is stored in order.
<1>14. orderly'[m.vehicle] => current'[m.vehicle] = n
  <2> SUFFICES ASSUME orderly'[m.vehicle]
               PROVE  Newer(m, m.vehicle)
    BY <1>13
  <2>1. \A i \in Of(m.vehicle) : positions[i].ts <= m.ts
    BY <1>8, <1>11
  <2> QED BY <1>12, <2>1 DEF Newer, Of, NamesExist
<1>15. Types'
  BY <1>1, <1>3, <1>6, <1>9, <1>11, <1>13 DEF Types
<1>16. NamesExist'
  <2>1. \A v \in Vehicles : current'[v] # 0 =>
          current'[v] \in DOMAIN positions' /\ positions'[current'[v]].vehicle = v
    <3> TAKE v \in Vehicles
    <3>1. CASE current'[v] = current[v]
      BY <1>9, <3>1 DEF NamesExist
    <3>2. CASE v = m.vehicle /\ current'[v] = n
      BY <1>5, <1>9, <3>2
    <3> QED BY <1>13, <3>1, <3>2
  <2>2. \A q \in Posts : posts'[q] # NoPost =>
          /\ posts'[q].read <= Len(positions')
          /\ posts'[q].step = "insert" => posts'[q].position = 0
          /\ posts'[q].step # "insert" => posts'[q].position \in DOMAIN positions'
    <3> TAKE q \in Posts
    <3>1. posts[q] # NoPost => posts[q].read <= n
      BY <1>3, Shapes DEF NamesExist, AnyPost
    <3> QED BY <1>2, <1>6, <1>9, <1>10, <3>1 DEF NamesExist
  <2> QED BY <2>1, <2>2 DEF NamesExist
<1>17. NoDuplicateRead'
  <2> SUFFICES ASSUME NEW q \in Posts, posts'[q] # NoPost, NEW i \in 1..posts'[q].read
               PROVE  ~ (Same(i, posts[q].payload))'
    BY <1>6, <1>10 DEF NoDuplicateRead, Same
  <2>1. /\ posts[q] # NoPost /\ posts'[q].read = posts[q].read
        /\ posts'[q].payload = posts[q].payload
    BY <1>2, <1>6, <1>10
  <2>2. i \in DOMAIN positions
    BY <2>1, Shapes DEF NamesExist, AnyPost
  <2> QED BY <1>9, <2>1, <2>2 DEF NoDuplicateRead, Same
<1>18. StoredTwiceNeedsOverlap'
  <2> SUFFICES ASSUME NEW i \in DOMAIN positions', NEW j \in DOMAIN positions', i < j,
                      positions'[i].vehicle = positions'[j].vehicle,
                      positions'[i].ts = positions'[j].ts,
                      positions'[i].place = positions'[j].place
               PROVE  positions'[j].read < i
    BY DEF StoredTwiceNeedsOverlap
  <2>1. i \in DOMAIN positions
    BY <1>3, <1>9
  <2>2. CASE j = n
    <3>1. Same(i, m)
      BY <1>5, <1>9, <2>1, <2>2 DEF Same
    <3>2. i \notin 1..posts[p].read
      BY <1>2, <3>1 DEF NoDuplicateRead
    <3> QED BY <1>2, <1>5, <1>9, <2>1, <2>2, <3>2 DEF AnyPost
  <2>3. CASE j \in DOMAIN positions
    BY <1>9, <2>1, <2>3 DEF StoredTwiceNeedsOverlap
  <2> QED BY <1>9, <2>2, <2>3
<1>19. \A q \in Posts, v \in Vehicles : (At(q, v))' <=> At(q, v)
  BY <1>2, <1>6, <1>7, <1>10 DEF At
<1>20. \A v \in Vehicles : orderly'[v] => orderly[v]
  BY <1>8, <1>11
<1>21. OneAtATime'
  BY <1>19, <1>20 DEF OneAtATime
<1>22. At(p, m.vehicle)
  BY <1>2 DEF At
<1>23. StoredIsCurrent'
  <2> SUFFICES ASSUME NEW v \in Vehicles, NEW q \in Posts,
                      orderly'[v], At(q, v), posts'[q].step # "insert"
               PROVE  /\ posts'[q].position = current'[v] /\ current'[v] # 0
                      /\ positions'[current'[v]].status = posts'[q].payload.status
    BY <1>19 DEF StoredIsCurrent
  <2>1. CASE v = m.vehicle
    <3>1. q = p
      BY <1>20, <1>22, <2>1 DEF OneAtATime
    <3> QED BY <1>3, <1>5, <1>6, <1>9, <1>10, <1>14, <2>1, <3>1
  <2>2. CASE v # m.vehicle
    <3>1. q # p
      BY <1>22, <2>2 DEF At
    <3>2. /\ posts[q].position = current[v] /\ current[v] # 0
          /\ positions[current[v]].status = posts[q].payload.status
      BY <1>10, <1>20, <3>1 DEF StoredIsCurrent
    <3> QED BY <1>9, <1>10, <1>13, <2>2, <3>1, <3>2 DEF NamesExist
  <2> QED BY <2>1, <2>2
<1>24. StatusFollows'
  <2> SUFFICES ASSUME NEW v \in Vehicles, orderly'[v], current'[v] # 0,
                      \A q \in Posts : At(q, v) => posts'[q].step = "insert"
               PROVE  \/ positions'[current'[v]].status = NoStatus
                      \/ status[v] = positions'[current'[v]].status
    BY <1>1, <1>19 DEF StatusFollows
  <2>1. v # m.vehicle
    BY <1>6, <1>10, <1>22
  <2>2. \A q \in Posts : At(q, v) => posts[q].step = "insert"
    BY <1>1, <1>10
  <2>3. current'[v] = current[v] /\ positions'[current[v]] = positions[current[v]]
    BY <1>9, <1>13, <2>1 DEF NamesExist
  <2> QED BY <1>20, <2>2, <2>3 DEF StatusFollows
<1> QED BY <1>15, <1>16, <1>17, <1>18, <1>21, <1>23, <1>24

\* The position is matched; without a status the post is over.
LEMMA MatchKeeps ==
    ASSUME IntakeConstants, TInv, NEW p \in Posts, Match(p)
    PROVE  TInv'
<1> USE DEF TInv
<1> DEFINE n == posts[p].position
           e == [positions[n] EXCEPT !.matched = TRUE]
           c == IF posts[p].payload.status = NoStatus THEN NoPost
                ELSE [posts[p] EXCEPT !.step = "status"]
<1>1. /\ posts[p].step = "match"
      /\ positions' = [positions EXCEPT ![n] = e]
      /\ posts' = [posts EXCEPT ![p] = c]
      /\ current' = current /\ status' = status /\ orderly' = orderly
  BY DEF Match
<1>2. posts[p] # NoPost /\ posts[p] \in AnyPost /\ n \in DOMAIN positions
  BY <1>1, Shapes DEF NamesExist
<1>3. /\ e \in AnyPosition
      /\ e.vehicle = positions[n].vehicle /\ e.ts = positions[n].ts
      /\ e.place = positions[n].place /\ e.status = positions[n].status
      /\ e.read = positions[n].read
  BY <1>2, Shapes DEF AnyPosition
<1>4. \/ c = NoPost /\ posts[p].payload.status = NoStatus
      \/ /\ c \in AnyPost /\ c # NoPost /\ c.step = "status"
         /\ c.payload = posts[p].payload /\ c.position = n /\ c.read = posts[p].read
  <2>1. CASE posts[p].payload.status = NoStatus
    BY <2>1
  <2>2. CASE posts[p].payload.status # NoStatus
    <3>1. c = [posts[p] EXCEPT !.step = "status"]
      BY <2>2
    <3> HIDE DEF c
    <3> QED BY <1>2, <3>1 DEF AnyPost, NoPost
  <2> QED BY <2>1, <2>2
<1> HIDE DEF e, c, n
<1>5. /\ positions' \in Seq(AnyPosition) /\ Len(positions') = Len(positions)
      /\ DOMAIN positions' = DOMAIN positions
      /\ \A i \in DOMAIN positions :
            /\ positions'[i].vehicle = positions[i].vehicle
            /\ positions'[i].ts = positions[i].ts
            /\ positions'[i].place = positions[i].place
            /\ positions'[i].status = positions[i].status
            /\ positions'[i].read = positions[i].read
  <2>1. /\ positions' \in Seq(AnyPosition) /\ Len(positions') = Len(positions)
        /\ DOMAIN positions' = DOMAIN positions
        /\ positions'[n] = e
        /\ \A i \in DOMAIN positions : i # n => positions'[i] = positions[i]
    BY <1>1, <1>2, <1>3, PositionUpdated
  <2> QED BY <1>3, <2>1
<1>6. posts'[p] = c /\ \A q \in Posts : q # p => posts'[q] = posts[q]
  BY <1>1 DEF Types
<1>7. \A q \in Posts : posts'[q] # NoPost =>
        /\ posts[q] # NoPost /\ posts'[q].payload = posts[q].payload
        /\ posts'[q].read = posts[q].read
        /\ posts'[q].step = "insert" <=> posts[q].step = "insert"
        /\ posts'[q].position = posts[q].position
  BY <1>1, <1>2, <1>4, <1>6 DEF n
<1>8. Types'
  BY <1>1, <1>4, <1>5 DEF Types
<1>9. NamesExist'
  BY <1>1, <1>5, <1>7 DEF NamesExist
<1>10. NoDuplicateRead'
  <2> SUFFICES ASSUME NEW q \in Posts, posts'[q] # NoPost, NEW i \in 1..posts'[q].read
               PROVE  ~ (Same(i, posts[q].payload))'
    BY <1>7 DEF NoDuplicateRead, Same
  <2>1. /\ posts[q] # NoPost /\ i \in 1..posts[q].read
        /\ posts'[q].payload = posts[q].payload
    BY <1>7
  <2>2. i \in DOMAIN positions
    BY <2>1, Shapes DEF NamesExist, AnyPost
  <2> QED BY <1>5, <2>1, <2>2 DEF NoDuplicateRead, Same
<1>11. StoredTwiceNeedsOverlap'
  BY <1>5 DEF StoredTwiceNeedsOverlap
<1>12. \A q \in Posts, v \in Vehicles : (At(q, v))' => At(q, v)
  BY <1>7 DEF At
<1>13. OneAtATime'
  BY <1>1, <1>12 DEF OneAtATime
<1>14. \A v \in Vehicles : current[v] # 0 =>
         positions'[current[v]].status = positions[current[v]].status
  BY <1>5 DEF NamesExist
<1>15. StoredIsCurrent'
  <2> SUFFICES ASSUME NEW v \in Vehicles, NEW q \in Posts,
                      orderly[v], (At(q, v))', posts'[q].step # "insert"
               PROVE  /\ posts'[q].position = current[v] /\ current[v] # 0
                      /\ positions'[current[v]].status = posts'[q].payload.status
    BY <1>1 DEF StoredIsCurrent
  <2>1. posts'[q] # NoPost
    BY DEF At
  <2> QED BY <1>7, <1>12, <1>14, <2>1 DEF StoredIsCurrent
<1>16. StatusFollows'
  <2> SUFFICES ASSUME NEW v \in Vehicles, orderly[v], current[v] # 0,
                      \A q \in Posts : (At(q, v))' => posts'[q].step = "insert"
               PROVE  \/ positions[current[v]].status = NoStatus
                      \/ status[v] = positions[current[v]].status
    BY <1>1, <1>14 DEF StatusFollows
  <2>1. CASE At(p, v)
    <3>1. positions[current[v]].status = posts[p].payload.status
      BY <1>1, <2>1 DEF StoredIsCurrent
    <3>2. c = NoPost
      <4>1. c # NoPost => (At(p, v))'
        BY <1>4, <1>6, <2>1 DEF At
      <4> QED BY <1>4, <1>6, <4>1
    <3> QED BY <1>4, <3>1, <3>2
  <2>2. CASE ~ At(p, v)
    <3>1. \A q \in Posts : At(q, v) => posts[q].step = "insert"
      BY <1>6, <2>2 DEF At
    <3> QED BY <3>1 DEF StatusFollows
  <2> QED BY <2>1, <2>2
<1> QED BY <1>8, <1>9, <1>10, <1>11, <1>13, <1>15, <1>16

\* The status is set, from the position that is still the current one if the
\* posts are orderly.
LEMMA UpdateStatusKeeps ==
    ASSUME IntakeConstants, TInv, NEW p \in Posts, UpdateStatus(p)
    PROVE  TInv'
<1> USE DEF TInv
<1> DEFINE m == posts[p].payload
<1>1. /\ posts[p].step = "status"
      /\ status' = [status EXCEPT ![m.vehicle] = m.status]
      /\ posts' = [posts EXCEPT ![p] = NoPost]
      /\ positions' = positions /\ current' = current /\ orderly' = orderly
  BY DEF UpdateStatus
<1>2. posts[p] # NoPost /\ posts[p] \in AnyPost /\ m \in Payloads
  BY <1>1, Shapes DEF AnyPost
<1>3. posts'[p] = NoPost /\ \A q \in Posts : q # p => posts'[q] = posts[q]
  BY <1>1 DEF Types
<1>4. /\ status' \in [Vehicles -> Statuses] /\ status'[m.vehicle] = m.status
      /\ \A v \in Vehicles : v # m.vehicle => status'[v] = status[v]
  BY <1>1, <1>2, Payload DEF Types
<1>5. Types'
  BY <1>1, <1>4 DEF Types
<1>6. NamesExist'
  BY <1>1, <1>3 DEF NamesExist
<1>7. NoDuplicateRead' /\ StoredTwiceNeedsOverlap'
  BY <1>1, <1>3, ReadsStand
<1>8. \A q \in Posts, v \in Vehicles : (At(q, v))' <=> At(q, v) /\ q # p
  BY <1>3 DEF At
<1>9. OneAtATime' /\ StoredIsCurrent'
  BY <1>1, <1>3, <1>8 DEF OneAtATime, StoredIsCurrent
<1>10. StatusFollows'
  <2> SUFFICES ASSUME NEW v \in Vehicles, orderly[v], current[v] # 0,
                      \A q \in Posts : At(q, v) /\ q # p => posts[q].step = "insert"
               PROVE  \/ positions[current[v]].status = NoStatus
                      \/ status'[v] = positions[current[v]].status
    BY <1>1, <1>3, <1>8 DEF StatusFollows
  <2>1. CASE v = m.vehicle
    <3>1. At(p, v)
      BY <1>2, <2>1 DEF At
    <3> QED BY <1>1, <1>4, <2>1, <3>1 DEF StoredIsCurrent
  <2>2. CASE v # m.vehicle
    <3>1. ~ At(p, v)
      BY <2>2 DEF At
    <3> QED BY <1>4, <2>2, <3>1 DEF StatusFollows
  <2> QED BY <2>1, <2>2
<1> QED BY <1>5, <1>6, <1>7, <1>9, <1>10

\* A failed post leaves its vehicle disorderly.
LEMMA PostFailsKeeps ==
    ASSUME IntakeConstants, TInv, NEW p \in Posts, PostFails(p)
    PROVE  TInv'
<1> USE DEF TInv
<1> DEFINE u == posts[p].payload.vehicle
<1>1. /\ posts[p] # NoPost
      /\ orderly' = [orderly EXCEPT ![u] = FALSE]
      /\ posts' = [posts EXCEPT ![p] = NoPost]
      /\ positions' = positions /\ current' = current /\ status' = status
  BY DEF PostFails
<1>2. u \in Vehicles
  BY <1>1, Shapes, Payload DEF AnyPost
<1>3. posts'[p] = NoPost /\ \A q \in Posts : q # p => posts'[q] = posts[q]
  BY <1>1 DEF Types
<1>4. /\ orderly' \in [Vehicles -> BOOLEAN] /\ ~ orderly'[u]
      /\ \A v \in Vehicles : v # u => orderly'[v] = orderly[v]
  BY <1>1, <1>2 DEF Types
<1>5. Types'
  BY <1>1, <1>4 DEF Types
<1>6. NamesExist'
  BY <1>1, <1>3 DEF NamesExist
<1>7. NoDuplicateRead' /\ StoredTwiceNeedsOverlap'
  BY <1>1, <1>3, ReadsStand
<1>8. \A q \in Posts, v \in Vehicles : (At(q, v))' <=> At(q, v) /\ q # p
  BY <1>3 DEF At
<1>9. \A v \in Vehicles : orderly'[v] => orderly[v] /\ ~ At(p, v)
  BY <1>4 DEF At
<1>10. OneAtATime' /\ StoredIsCurrent'
  BY <1>1, <1>3, <1>8, <1>9 DEF OneAtATime, StoredIsCurrent
<1>11. StatusFollows'
  BY <1>1, <1>3, <1>8, <1>9 DEF StatusFollows
<1> QED BY <1>5, <1>6, <1>7, <1>10, <1>11
-----------------------------------------------------------------------------
(* The theorems.                                                           *)

LEMMA TInvNext == ASSUME IntakeConstants, TInv, [Next]_vars PROVE TInv'
<1>1. ASSUME NEW p \in Posts, Post(p) PROVE TInv'
  BY <1>1, BeginKeeps, InsertKeeps, MatchKeeps, UpdateStatusKeeps, PostFailsKeeps DEF Post
<1>2. CASE UNCHANGED vars
  <2>1. /\ positions' = positions /\ current' = current /\ status' = status
        /\ posts' = posts /\ orderly' = orderly
    BY <1>2 DEF vars
  <2>2. Types' /\ NamesExist'
    BY <2>1 DEF TInv, Types, NamesExist
  <2>3. NoDuplicateRead' /\ StoredTwiceNeedsOverlap'
    BY <2>1, ReadsStand
  <2>4. OneAtATime' /\ StoredIsCurrent' /\ StatusFollows'
    BY <2>1 DEF TInv, OneAtATime, At, StoredIsCurrent, StatusFollows
  <2> QED BY <2>2, <2>3, <2>4 DEF TInv
<1> QED BY <1>1, <1>2 DEF Next, AnswerDuplicate

LEMMA TInvHolds == ASSUME IntakeConstants PROVE Spec => []TInv
<1>1. Init => TInv
  BY TInvInit
<1>2. TInv /\ [Next]_vars => TInv'
  BY TInvNext
<1> QED BY <1>1, <1>2, PTL DEF Spec

\* A position is stored twice only by posts that overlap, whatever fails or is
\* sent again.
THEOREM StoredTwice == ASSUME IntakeConstants PROVE Spec => []StoredTwiceNeedsOverlap
<1>1. TInv => StoredTwiceNeedsOverlap
  BY DEF TInv
<1> QED BY <1>1, TInvHolds, PTL

\* The status of a vehicle whose posts are orderly is that of its current position.
THEOREM StatusOfCurrent == ASSUME IntakeConstants PROVE Spec => []StatusIsOfCurrent
<1>1. TInv => StatusIsOfCurrent
  <2> SUFFICES ASSUME TInv, NEW v \in Vehicles, orderly[v], UnderWay(v) = {}, current[v] # 0,
                      positions[current[v]].status # NoStatus
               PROVE  status[v] = positions[current[v]].status
    BY DEF StatusIsOfCurrent
  <2>1. \A p \in Posts : ~ At(p, v)
    BY DEF UnderWay, At
  <2> QED BY <2>1 DEF TInv, StatusFollows
<1> QED BY <1>1, TInvHolds, PTL
-----------------------------------------------------------------------------
(* How many positions stay unmatched.                                      *)

Unmatched == {i \in DOMAIN positions : ~positions[i].matched}
Busy == {p \in Posts : posts[p] # NoPost}
Matching == {p \in Posts : posts[p].step = "match"}

\* A position is unmatched for a post that is about to match it, or for one that
\* has failed.
MatchesItsOwn ==
    /\ \A p \in Matching : posts[p].position \in Unmatched
    /\ \A p, q \in Matching : p # q => posts[p].position # posts[q].position
FewUnmatched ==
    /\ failures \in Nat
    /\ IsFiniteSet(Busy)
    /\ Cardinality(Unmatched) <= failures + Cardinality(Matching)

LEMMA SetsFinite ==
    ASSUME Types, IsFiniteSet(Busy)
    PROVE  /\ IsFiniteSet(Unmatched) /\ Cardinality(Unmatched) \in Nat
           /\ Matching \subseteq Busy /\ IsFiniteSet(Matching)
           /\ Cardinality(Matching) \in Nat /\ Cardinality(Busy) \in Nat
           /\ Cardinality(Matching) <= Cardinality(Busy)
<1>1. IsFiniteSet(Unmatched)
  <2>1. Unmatched \subseteq 1..Len(positions) /\ Len(positions) \in Nat
    BY Shapes DEF Unmatched
  <2>2. IsFiniteSet(1..Len(positions))
    BY <2>1, FS_Interval
  <2> QED BY <2>1, <2>2, FS_Subset
<1>2. Matching \subseteq Busy
  BY Shapes DEF Matching, Busy
<1> QED BY <1>1, <1>2, FS_Subset, FS_CardinalityType

LEMMA CountInit == ASSUME IntakeConstants, Init PROVE MatchesItsOwn /\ FewUnmatched
<1>1. Busy = {} /\ Matching = {} /\ Unmatched = {}
  BY DEF Init, Busy, Matching, Unmatched, NoPost
<1> QED BY <1>1, FS_EmptySet DEF Init, MatchesItsOwn, FewUnmatched

LEMMA CountStep ==
    ASSUME IntakeConstants, TInv, MatchesItsOwn, FewUnmatched, NEW p \in Posts, Post(p)
    PROVE  MatchesItsOwn' /\ FewUnmatched'
<1> USE DEF TInv
<1>1. /\ IsFiniteSet(Unmatched) /\ Cardinality(Unmatched) \in Nat /\ IsFiniteSet(Matching)
      /\ Cardinality(Matching) \in Nat /\ IsFiniteSet(Busy) /\ failures \in Nat
      /\ Cardinality(Unmatched) <= failures + Cardinality(Matching)
  BY SetsFinite DEF FewUnmatched
<1>2. \A q \in Posts : q # p => posts'[q] = posts[q]
  BY DEF Types, Post, Begin, Insert, Match, UpdateStatus, PostFails
<1>3. IsFiniteSet(Busy')
  <2>1. Busy' \subseteq Busy \cup {p}
    BY <1>2 DEF Busy
  <2>2. IsFiniteSet(Busy \cup {p})
    BY <1>1, FS_AddElement
  <2> QED BY <2>1, <2>2, FS_Subset
<1>4. ASSUME NEW m \in Payloads, Begin(p, m) PROVE MatchesItsOwn' /\ FewUnmatched'
  <2>1. /\ posts[p] = NoPost /\ posts'[p].step = "insert" /\ positions' = positions
        /\ failures' = failures
    BY <1>4 DEF Begin, Types
  <2>2. Matching' = Matching /\ Unmatched' = Unmatched
    BY <1>2, <2>1 DEF Matching, Unmatched, NoPost
  <2>3. \A q \in Matching : posts'[q] = posts[q]
    BY <1>2, <2>1 DEF Matching, NoPost
  <2> QED BY <1>1, <1>3, <2>1, <2>2, <2>3 DEF MatchesItsOwn, FewUnmatched
<1>5. CASE Insert(p)
  <2> DEFINE n == Len(positions) + 1
  <2>1. /\ posts[p].step = "insert" /\ failures' = failures
        /\ \E e : positions' = Append(positions, e) /\ ~e.matched
        /\ posts' = [posts EXCEPT ![p] = [posts[p] EXCEPT !.step = "match", !.position = n]]
    <3> DEFINE e == [vehicle |-> posts[p].payload.vehicle, ts |-> posts[p].payload.ts,
                     place |-> posts[p].payload.place, status |-> posts[p].payload.status,
                     matched |-> FALSE, read |-> posts[p].read]
    <3>1. positions' = Append(positions, e) /\ ~e.matched
      BY <1>5 DEF Insert
    <3> HIDE DEF e
    <3> QED BY <1>5, <3>1 DEF Insert
  <2>2. posts[p] \in AnyPost
    BY <2>1, Shapes
  <2>3. posts'[p].step = "match" /\ posts'[p].position = n
    BY <2>1, <2>2 DEF Types, AnyPost
  <2>4. /\ DOMAIN positions' = DOMAIN positions \cup {n} /\ n \notin DOMAIN positions
        /\ ~positions'[n].matched
        /\ \A i \in DOMAIN positions : positions'[i] = positions[i]
    <3>1. PICK e : positions' = Append(positions, e) /\ ~e.matched
      BY <2>1
    <3> QED BY <3>1, Shapes DEF Types
  <2> HIDE DEF n
  <2>5. Unmatched' = Unmatched \cup {n} /\ n \notin Unmatched
    BY <2>4 DEF Unmatched
  <2>6. Matching' = Matching \cup {p} /\ p \notin Matching
    BY <1>2, <2>1, <2>3 DEF Matching
  <2>7. \A q \in Matching : q # p /\ posts'[q] = posts[q] /\ posts[q].position # n
    BY <1>2, <2>5, <2>6 DEF MatchesItsOwn, Matching
  <2>8. MatchesItsOwn'
    BY <2>3, <2>5, <2>6, <2>7 DEF MatchesItsOwn
  <2>9. /\ Cardinality(Unmatched') = Cardinality(Unmatched) + 1
        /\ Cardinality(Matching') = Cardinality(Matching) + 1
    BY <1>1, <2>5, <2>6, FS_AddElement
  <2> QED BY <1>1, <1>3, <2>1, <2>8, <2>9 DEF FewUnmatched
<1>6. CASE Match(p)
  <2> DEFINE n == posts[p].position
             e == [positions[n] EXCEPT !.matched = TRUE]
  <2>1. /\ p \in Matching /\ n \in Unmatched /\ n \in DOMAIN positions /\ failures' = failures
        /\ positions' = [positions EXCEPT ![n] = e]
    BY <1>6 DEF Match, Matching, MatchesItsOwn, Unmatched
  <2>2. posts'[p].step # "match"
    <3>1. posts[p] \in AnyPost
      BY <1>6, Shapes DEF Match
    <3>2. CASE posts[p].payload.status = NoStatus
      BY <1>6, <3>2 DEF Match, Types, NoPost
    <3>3. CASE posts[p].payload.status # NoStatus
      <4>1. posts' = [posts EXCEPT ![p] = [posts[p] EXCEPT !.step = "status"]]
        BY <1>6, <3>3 DEF Match
      <4> QED BY <3>1, <4>1 DEF Types, AnyPost
    <3> QED BY <3>2, <3>3
  <2>3. e \in AnyPosition /\ e.matched
    BY <2>1, Shapes DEF AnyPosition
  <2> HIDE DEF e, n
  <2>4. /\ DOMAIN positions' = DOMAIN positions /\ positions'[n].matched
        /\ \A i \in DOMAIN positions : i # n => positions'[i] = positions[i]
    BY <2>1, <2>3, PositionUpdated
  <2>5. Unmatched' = Unmatched \ {n}
    BY <2>1, <2>4 DEF Unmatched
  <2>6. Matching' = Matching \ {p}
    BY <1>2, <2>2 DEF Matching
  <2>7. \A q \in Matching' : q \in Matching /\ q # p /\ posts'[q] = posts[q]
                             /\ posts[q].position # n
    BY <1>2, <2>1, <2>6 DEF MatchesItsOwn, Matching, n
  <2>8. MatchesItsOwn'
    BY <2>5, <2>7 DEF MatchesItsOwn
  <2>9. /\ Cardinality(Unmatched') = Cardinality(Unmatched) - 1
        /\ Cardinality(Matching') = Cardinality(Matching) - 1
    BY <1>1, <2>1, <2>5, <2>6, FS_RemoveElement
  <2> QED BY <1>1, <1>3, <2>1, <2>8, <2>9 DEF FewUnmatched
<1>7. CASE UpdateStatus(p)
  <2>1. /\ posts[p].step = "status" /\ posts'[p].step = "none" /\ positions' = positions
        /\ failures' = failures
    BY <1>7 DEF UpdateStatus, Types, NoPost
  <2>2. Matching' = Matching /\ Unmatched' = Unmatched
    BY <1>2, <2>1 DEF Matching, Unmatched
  <2>3. \A q \in Matching : posts'[q] = posts[q]
    BY <1>2, <2>1 DEF Matching
  <2> QED BY <1>1, <1>3, <2>1, <2>2, <2>3 DEF MatchesItsOwn, FewUnmatched
<1>8. CASE PostFails(p)
  <2>1. posts'[p].step = "none" /\ positions' = positions /\ failures' = failures + 1
    BY <1>8 DEF PostFails, Types, NoPost
  <2>2. Matching' = Matching \ {p} /\ Unmatched' = Unmatched
    BY <1>2, <2>1 DEF Matching, Unmatched
  <2>3. \A q \in Matching' : q \in Matching /\ posts'[q] = posts[q]
    BY <1>2, <2>1, <2>2 DEF Matching
  <2>4. MatchesItsOwn'
    BY <2>2, <2>3 DEF MatchesItsOwn
  <2>5. Cardinality(Matching') \in Nat /\ Cardinality(Matching) <= Cardinality(Matching') + 1
    <3>1. Cardinality(Matching') = IF p \in Matching THEN Cardinality(Matching) - 1
                                   ELSE Cardinality(Matching)
      BY <1>1, <2>2, FS_RemoveElement
    <3>2. IsFiniteSet(Matching')
      BY <1>1, <2>2, FS_RemoveElement
    <3>3. Cardinality(Matching') \in Nat
      BY <3>2, FS_CardinalityType
    <3> QED BY <1>1, <3>1, <3>3
  <2> QED BY <1>1, <1>3, <2>1, <2>2, <2>4, <2>5 DEF FewUnmatched
<1> QED BY <1>4, <1>5, <1>6, <1>7, <1>8 DEF Post

\* Types; every unmatched position is accounted for by a post at work or a failed one.
THEOREM IntakeTypes == ASSUME IntakeConstants PROVE Spec => []TypeOK
<1> DEFINE CountInv == MatchesItsOwn /\ FewUnmatched
<1>1. Init => CountInv
  BY CountInit
<1>2. TInv /\ CountInv /\ [Next]_vars => CountInv'
  <2>1. CASE UNCHANGED vars
    BY <2>1 DEF vars, MatchesItsOwn, FewUnmatched, Matching, Unmatched, Busy
  <2> QED BY <2>1, CountStep DEF Next, AnswerDuplicate
<1>3. TInv /\ CountInv => TypeOK
  <2> SUFFICES ASSUME TInv, FewUnmatched
               PROVE  TypeOK
    OBVIOUS
  <2> USE DEF TInv
  <2>1. positions \in Seq([vehicle : Vehicles, ts : {m.ts : m \in Payloads},
                           place : {m.place : m \in Payloads}, status : Statuses,
                           matched : BOOLEAN, read : 0..MaxPositions])
    BY DEF Types, AnyPosition, Times, Places
  <2>2. \A v \in Vehicles : current[v] \in Of(v) \cup {0} /\ status[v] \in Statuses
    BY DEF NamesExist, Of, Types
  <2>3. \A p \in Posts : posts[p] # NoPost =>
          /\ posts[p].step \in {"insert", "match", "status"} /\ posts[p].payload \in Payloads
          /\ posts[p].position \in 0..Len(positions)
    <3> SUFFICES ASSUME NEW p \in Posts, posts[p] # NoPost
                 PROVE  /\ posts[p].step \in {"insert", "match", "status"}
                        /\ posts[p].payload \in Payloads
                        /\ posts[p].position \in 0..Len(positions)
      OBVIOUS
    <3>1. posts[p] \in AnyPost
      BY Shapes
    <3> QED BY <3>1, Shapes DEF NamesExist, AnyPost
  <2>4. Cardinality(Unmatched) <= failures + Cardinality(Busy)
    BY SetsFinite DEF FewUnmatched
  <2> QED BY <2>1, <2>2, <2>3, <2>4 DEF TypeOK, Unmatched, Busy
<1> HIDE DEF CountInv
<1> QED BY <1>1, <1>2, <1>3, TInvHolds, PTL DEF Spec
=============================================================================
