------------------------ MODULE RulesEngineLoopProofs ------------------------
(***************************************************************************)
(* Batches, rules and workers leave no vehicle out and evaluate none twice *)
(* at once, for any fleet, rules, batch size and concurrency.              *)
(***************************************************************************)
EXTENDS RulesEngineLoop, Integers, SequenceTheorems, FiniteSetTheorems, WellFoundedInduction, TLAPS

-----------------------------------------------------------------------------
(* Arithmetic of batches and workers.                                      *)

LEMMA DivMod ==
    ASSUME NEW n \in Nat, NEW d \in Nat \ {0}
    PROVE  n \div d \in Nat /\ n % d \in 0..(d - 1) /\ n = (d * (n \div d)) + (n % d)
OBVIOUS

LEMMA DivUnique ==
    ASSUME NEW d \in Nat \ {0}, NEW q \in Nat, NEW r \in 0..(d - 1)
    PROVE  ((d * q) + r) \div d = q /\ ((d * q) + r) % d = r
OBVIOUS

LEMMA TimesNat == ASSUME NEW m \in Nat, NEW n \in Nat PROVE m * n \in Nat
OBVIOUS

\* Multiples keep their order, and a quotient is below q when the number is below d * q.
LEMMA TimesOrder ==
    ASSUME NEW d \in Nat \ {0}, NEW p \in Nat, NEW q \in Nat
    PROVE  /\ p <= q => d * p <= d * q
           /\ p < q => d * p + d <= d * q
           /\ d * p < d * q => p < q
OBVIOUS

LEMMA DivBelow ==
    ASSUME NEW d \in Nat \ {0}, NEW q \in Nat, NEW n \in Nat, n < d * q
    PROVE  n \div d < q
<1>1. n \div d \in Nat /\ n % d \in 0..(d - 1) /\ n = (d * (n \div d)) + (n % d)
  BY DivMod
<1>2. d * (n \div d) < d * q
  BY <1>1
<1> QED BY <1>1, <1>2, TimesOrder

\* A number has one remainder class: two workers never come to the same item.
LEMMA OneWorkerPerItem ==
    ASSUME NEW d \in Nat \ {0}, NEW v \in 1..d, NEW w \in 1..d, NEW j \in Nat, NEW k \in Nat,
           v + d * j = w + d * k
    PROVE  v = w /\ j = k
<1>1. CASE j < k
  <2>1. d * j + d <= d * k
    BY <1>1, TimesOrder
  <2> QED BY <2>1
<1>2. CASE k < j
  <2>1. d * k + d <= d * j
    BY <1>2, TimesOrder
  <2> QED BY <2>1
<1>3. CASE j = k
  <2>1. d * j \in Nat
    OBVIOUS
  <2> QED BY <1>3, <2>1
<1> QED BY <1>1, <1>2, <1>3
-----------------------------------------------------------------------------
(* The vehicles of a batch.                                                *)

\* The recursive function that Only is made of exists.
LEMMA OnlyRecursion ==
    ASSUME NEW V, NEW s \in Seq(V), NEW S
    PROVE  \E f : f = [n \in 0..Len(s) |->
                         IF n = 0 THEN <<>>
                         ELSE IF s[n] \in S THEN Append(f[n - 1], s[n]) ELSE f[n - 1]]
<1> DEFINE Step(f, n) == IF n = 0 THEN <<>>
                         ELSE IF s[n] \in S THEN Append(f[n - 1], s[n]) ELSE f[n - 1]
           Built(n) == \E f : /\ f = [i \in 0..n |-> f[i]]
                              /\ \A i \in 0..n : f[i] = Step(f, i)
           Unbuilt == {n \in Nat : ~ Built(n)}
           R == OpToRel(<, Nat)
<1>1. IsWellFoundedOn(R, Nat)
  BY NatLessThanWellFounded
<1>2. \A m, n \in Nat : <<m, n>> \in R <=> m < n
  BY DEF OpToRel
<1>3. Built(0)
  <2> DEFINE f == [i \in 0..0 |-> <<>>]
  <2>1. f = [i \in 0..0 |-> f[i]] /\ \A i \in 0..0 : i = 0 /\ f[i] = <<>>
    OBVIOUS
  <2>2. \A i \in 0..0 : f[i] = Step(f, i)
    BY <2>1
  <2> QED BY <2>1, <2>2
<1>4. ASSUME NEW n \in Nat, Built(n)
      PROVE  Built(n + 1)
  <2>1. PICK f : f = [i \in 0..n |-> f[i]] /\ \A i \in 0..n : f[i] = Step(f, i)
    BY <1>4
  <2> DEFINE g == [i \in 0..(n + 1) |-> IF i = n + 1 THEN Step(f, n + 1) ELSE f[i]]
  <2>2. g = [i \in 0..(n + 1) |-> g[i]]
    OBVIOUS
  <2>3. \A i \in 0..n : g[i] = f[i]
    OBVIOUS
  <2>4. g[n + 1] = Step(f, n + 1)
    OBVIOUS
  <2> HIDE DEF g
  <2>5. \A i \in 0..(n + 1) : g[i] = Step(g, i)
    <3> TAKE i \in 0..(n + 1)
    <3>1. i # 0 => i - 1 \in 0..n /\ g[i - 1] = f[i - 1]
      BY <2>3
    <3>2. Step(g, i) = Step(f, i)
      BY <3>1
    <3>3. i = n + 1 \/ i \in 0..n
      OBVIOUS
    <3> HIDE DEF Step
    <3> QED BY <2>1, <2>3, <2>4, <3>2, <3>3
  <2> HIDE DEF Step
  <2> QED BY <2>2, <2>5
<1> HIDE DEF R, Built
<1>5. Unbuilt = {}
  <2> SUFFICES ASSUME Unbuilt # {}
               PROVE  FALSE
    OBVIOUS
  <2>1. Unbuilt \subseteq Nat
    OBVIOUS
  <2>2. PICK n \in Unbuilt : \A m \in Unbuilt : <<m, n>> \notin R
    BY <1>1, <2>1, WFMin
  <2>3. n \in Nat /\ ~ Built(n) /\ n # 0
    BY <1>3
  <2>4. n - 1 \in Nat /\ n - 1 < n /\ (n - 1) + 1 = n
    BY <2>3
  <2>5. Built(n - 1)
    BY <1>2, <2>2, <2>3, <2>4
  <2> QED BY <1>4, <2>3, <2>4, <2>5
<1>6. Built(Len(s))
  BY <1>5, LenProperties
<1>7. PICK f : f = [i \in 0..Len(s) |-> f[i]] /\ \A i \in 0..Len(s) : f[i] = Step(f, i)
  BY <1>6 DEF Built
<1>8. f = [i \in 0..Len(s) |-> Step(f, i)]
  BY <1>7
<1> QED BY <1>8

\* Only keeps exactly the vehicles of S, each as often as the batch has it.
LEMMA OnlyIsFilter ==
    ASSUME NEW V, NEW s \in Seq(V), NEW S,
           \A j, k \in 1..Len(s) : s[j] = s[k] => j = k
    PROVE  /\ Only(s, S) \in Seq(V)
           /\ \A j, k \in 1..Len(Only(s, S)) : Only(s, S)[j] = Only(s, S)[k] => j = k
           /\ \A j \in 1..Len(Only(s, S)) :
                Only(s, S)[j] \in S /\ \E k \in 1..Len(s) : s[k] = Only(s, S)[j]
           /\ \A k \in 1..Len(s) :
                s[k] \in S => \E j \in 1..Len(Only(s, S)) : Only(s, S)[j] = s[k]
<1> DEFINE Rec(g) == [n \in 0..Len(s) |->
                        IF n = 0 THEN <<>>
                        ELSE IF s[n] \in S THEN Append(g[n - 1], s[n]) ELSE g[n - 1]]
           f == CHOOSE g : g = Rec(g)
<1>0. \E g : g = Rec(g)
  BY OnlyRecursion
<1> HIDE DEF Rec
<1>1. f = Rec(f)
  BY <1>0
<1> USE DEF Rec
<1>2. Only(s, S) = f[Len(s)]
  BY DEF Only
<1> HIDE DEF f
<1>3. Len(s) \in Nat /\ s \in [1..Len(s) -> V]
  BY LenProperties
<1>4. /\ f[0] = <<>>
      /\ \A n \in 1..Len(s) :
           f[n] = IF s[n] \in S THEN Append(f[n - 1], s[n]) ELSE f[n - 1]
  <2>1. 0 \in 0..Len(s) /\ \A n \in 1..Len(s) : n \in 0..Len(s) /\ n # 0
    BY <1>3
  <2> QED BY <1>1, <2>1
<1> DEFINE Good(n) ==
             /\ f[n] \in Seq(V)
             /\ \A j, k \in 1..Len(f[n]) : f[n][j] = f[n][k] => j = k
             /\ \A j \in 1..Len(f[n]) : f[n][j] \in S /\ \E k \in 1..n : s[k] = f[n][j]
             /\ \A k \in 1..n : s[k] \in S => \E j \in 1..Len(f[n]) : f[n][j] = s[k]
           Bad == {n \in 0..Len(s) : ~ Good(n)}
           R == OpToRel(<, Nat)
<1>5. IsWellFoundedOn(R, Nat)
  BY NatLessThanWellFounded
<1>6. \A m, n \in Nat : <<m, n>> \in R <=> m < n
  BY DEF OpToRel
<1>7. Good(0)
  <2>1. f[0] \in Seq(V) /\ Len(f[0]) = 0
    BY <1>4, EmptySeq
  <2> QED BY <2>1
<1>8. ASSUME NEW n \in 1..Len(s), Good(n - 1)
      PROVE  Good(n)
  <2> DEFINE old == f[n - 1]
  <2>1. n \in Nat /\ n - 1 \in Nat /\ \A k \in 1..n : k \in 1..(n - 1) \/ k = n
    BY <1>3
  <2>2. CASE s[n] \notin S
    <3>1. f[n] = old
      BY <1>4, <2>2
    <3>2. /\ old \in Seq(V)
          /\ \A j, k \in 1..Len(old) : old[j] = old[k] => j = k
          /\ \A j \in 1..Len(old) : old[j] \in S /\ \E k \in 1..(n - 1) : s[k] = old[j]
          /\ \A k \in 1..(n - 1) : s[k] \in S => \E j \in 1..Len(old) : old[j] = s[k]
      BY <1>8
    <3>3. 1..(n - 1) \subseteq 1..n
      BY <2>1
    <3> HIDE DEF old
    <3> QED BY <2>1, <2>2, <3>1, <3>2, <3>3
  <2>3. CASE s[n] \in S
    <3>1. f[n] = Append(old, s[n]) /\ s[n] \in V
      BY <1>3, <1>4, <2>3
    <3>2. old \in Seq(V) /\ Len(old) \in Nat
      BY <1>8, LenProperties
    <3> DEFINE m == Len(old)
    <3>3. /\ f[n] \in Seq(V) /\ Len(f[n]) = m + 1 /\ f[n][m + 1] = s[n]
          /\ \A j \in 1..m : f[n][j] = old[j]
      BY <3>1, <3>2, AppendProperties
    <3>4. \A j \in 1..(m + 1) : j \in 1..m \/ j = m + 1
      BY <3>2
    <3>5. \A j \in 1..m : old[j] # s[n]
      <4> SUFFICES ASSUME NEW j \in 1..m, old[j] = s[n]
                   PROVE  FALSE
        OBVIOUS
      <4>1. PICK k \in 1..(n - 1) : s[k] = old[j]
        BY <1>8
      <4>2. k \in 1..Len(s) /\ k # n
        BY <1>3, <2>1
      <4> QED BY <4>1, <4>2
    <3>6. \A j, k \in 1..m : old[j] = old[k] => j = k
      BY <1>8
    <3>7. \A j \in 1..m : old[j] \in S /\ \E k \in 1..(n - 1) : s[k] = old[j]
      BY <1>8
    <3>8. \A k \in 1..(n - 1) : s[k] \in S => \E j \in 1..m : old[j] = s[k]
      BY <1>8
    <3> HIDE DEF m, old
    <3>9. \A j, k \in 1..Len(f[n]) : f[n][j] = f[n][k] => j = k
      BY <3>3, <3>4, <3>5, <3>6
    <3>10. \A j \in 1..Len(f[n]) : f[n][j] \in S /\ \E k \in 1..n : s[k] = f[n][j]
      <4>1. 1..(n - 1) \subseteq 1..n /\ n \in 1..n
        BY <2>1
      <4> QED BY <2>3, <3>3, <3>4, <3>7, <4>1
    <3>11. \A k \in 1..n : s[k] \in S => \E j \in 1..Len(f[n]) : f[n][j] = s[k]
      <4>1. m \in Nat /\ 1..m \subseteq 1..(m + 1) /\ m + 1 \in 1..(m + 1)
        BY <3>2 DEF m
      <4> QED BY <2>1, <3>3, <3>8, <4>1
    <3> QED BY <3>3, <3>9, <3>10, <3>11
  <2> QED BY <2>2, <2>3
<1> HIDE DEF Good, R
<1>9. Bad = {}
  <2> SUFFICES ASSUME Bad # {}
               PROVE  FALSE
    OBVIOUS
  <2>1. Bad \subseteq Nat
    BY <1>3
  <2>2. PICK n \in Bad : \A m \in Bad : <<m, n>> \notin R
    BY <1>5, <2>1, WFMin
  <2>3. n \in 0..Len(s) /\ ~ Good(n) /\ n # 0
    BY <1>7
  <2>4. n \in 1..Len(s) /\ n - 1 \in 0..Len(s) /\ n - 1 \in Nat /\ n \in Nat /\ n - 1 < n
    BY <1>3, <2>3
  <2>5. Good(n - 1)
    BY <1>6, <2>2, <2>4
  <2> QED BY <1>8, <2>3, <2>4, <2>5
<1>10. Good(Len(s))
  BY <1>3, <1>9
<1> QED BY <1>2, <1>10 DEF Good
-----------------------------------------------------------------------------
(* Batches and groups.                                                     *)

LEMMA Sizes ==
    /\ Len(Fleet) \in Nat \ {0} /\ Len(Rules) \in Nat \ {0} /\ BatchSize \in Nat \ {0}
    /\ DOMAIN Fleet = 1..Len(Fleet) /\ Fleet \in Seq(VehicleIds)
    /\ \A i, j \in 1..Len(Fleet) : Fleet[i] = Fleet[j] => i = j
    /\ \A v \in VehicleIds : \E i \in 1..Len(Fleet) : Fleet[i] = v
    /\ \A i \in 1..Len(Fleet) : Fleet[i] \in VehicleIds
    /\ \A r \in RuleIds : \E k \in 1..Len(Rules) : Rules[k] = r
    /\ \A k \in 1..Len(Rules) : Rules[k] \in RuleIds
    /\ \A r \in RuleIds : Queried[r] \subseteq VehicleIds
<1>1. Fleet \in Seq(VehicleIds) /\ Fleet # <<>> /\ Rules \in Seq(RuleIds) /\ Rules # <<>>
  BY LoopAssumption
<1>2. /\ Len(Fleet) \in Nat \ {0} /\ DOMAIN Fleet = 1..Len(Fleet)
      /\ Len(Rules) \in Nat \ {0} /\ DOMAIN Rules = 1..Len(Rules)
  BY <1>1, LenProperties, EmptySeq
<1>3. \A i, j \in 1..Len(Fleet) : Fleet[i] = Fleet[j] => i = j
  BY <1>2, LoopAssumption DEF IsInjective
<1>4. /\ \A v \in VehicleIds : \E i \in 1..Len(Fleet) : Fleet[i] = v
      /\ \A i \in 1..Len(Fleet) : Fleet[i] \in VehicleIds
      /\ \A r \in RuleIds : \E k \in 1..Len(Rules) : Rules[k] = r
      /\ \A k \in 1..Len(Rules) : Rules[k] \in RuleIds
  BY <1>2 DEF VehicleIds, RuleIds, ToSet
<1> QED BY <1>1, <1>2, <1>3, <1>4, LoopAssumption

\* The number of batches is what is needed: the last one starts inside the fleet.
LEMMA Chunks ==
    /\ Len(chunkArray) = (Len(Fleet) + BatchSize - 1) \div BatchSize
    /\ Len(chunkArray) \in Nat \ {0} /\ DOMAIN chunkArray = 1..Len(chunkArray)
    /\ BatchSize * Len(chunkArray) >= Len(Fleet)
    /\ \A b \in 1..Len(chunkArray) : BatchSize * (b - 1) < Len(Fleet)
<1> DEFINE n == Len(Fleet) + BatchSize - 1
           C == n \div BatchSize
<1>1. n \in Nat /\ n >= BatchSize /\ BatchSize \in Nat \ {0}
  BY Sizes
<1>2. C \in Nat /\ n % BatchSize \in 0..(BatchSize - 1) /\ n = (BatchSize * C) + (n % BatchSize)
  BY <1>1, DivMod
<1>3. Len(chunkArray) = C /\ DOMAIN chunkArray = 1..C
  BY <1>2 DEF chunkArray
<1>4. C # 0
  <2> SUFFICES ASSUME C = 0
               PROVE  FALSE
    OBVIOUS
  <2>1. BatchSize * C = 0
    BY <1>1
  <2> HIDE DEF C
  <2> QED BY <1>1, <1>2, <2>1
<1>5. BatchSize * C >= Len(Fleet) /\ BatchSize * C <= n /\ BatchSize * C \in Nat
  <2> HIDE DEF C
  <2>1. BatchSize * C \in Nat
    BY <1>1, <1>2
  <2> QED BY <1>1, <1>2, <2>1, Sizes
<1>6. ASSUME NEW b \in 1..C
      PROVE  BatchSize * (b - 1) < Len(Fleet)
  <2>1. b - 1 \in Nat /\ b - 1 < C
    BY <1>2
  <2> HIDE DEF C
  <2>2. (BatchSize * (b - 1)) + BatchSize <= BatchSize * C /\ BatchSize * (b - 1) \in Nat
    BY <1>1, <1>2, <2>1, TimesOrder
  <2> QED BY <1>1, <1>5, <2>2, Sizes
<1> QED BY <1>2, <1>3, <1>4, <1>5, <1>6

\* A batch is a stretch of the fleet.
LEMMA BatchIsStretch ==
    ASSUME NEW b \in 1..Len(chunkArray)
    PROVE  /\ chunkArray[b] \in Seq(VehicleIds)
           /\ Len(chunkArray[b]) >= 1
           /\ \A j, k \in 1..Len(chunkArray[b]) : chunkArray[b][j] = chunkArray[b][k] => j = k
           /\ \A i \in 1..Len(Fleet) :
                BatchSize * (b - 1) < i /\ i <= BatchSize * b =>
                    \E k \in 1..Len(chunkArray[b]) : chunkArray[b][k] = Fleet[i]
<1> DEFINE first == BatchSize * (b - 1) + 1
           last == Least(BatchSize * b, Len(Fleet))
<1>1. b \in Nat \ {0} /\ b - 1 \in Nat /\ BatchSize \in Nat \ {0} /\ Len(Fleet) \in Nat \ {0}
  BY Chunks, Sizes
<1>2. /\ BatchSize * (b - 1) \in Nat /\ BatchSize * b \in Nat
      /\ BatchSize * b = BatchSize * (b - 1) + BatchSize
  BY <1>1
<1>3. BatchSize * (b - 1) < Len(Fleet)
  BY Chunks
<1>4. first \in 1..Len(Fleet) /\ last \in first..Len(Fleet)
  BY <1>1, <1>2, <1>3 DEF Least
<1>5. chunkArray[b] = SubSeq(Fleet, first, last)
  <2>1. (b - 1) * BatchSize = BatchSize * (b - 1) /\ b * BatchSize = BatchSize * b
    BY <1>1
  <2> QED BY <2>1, Chunks DEF chunkArray, ChunkStart
<1> DEFINE s == chunkArray[b]
<1>6. /\ s \in Seq(VehicleIds) /\ Len(s) = last - first + 1
      /\ \A k \in 1..Len(s) : s[k] = Fleet[first + k - 1]
  <2>1. first \in 1..(Len(Fleet) + 1) /\ last \in (first - 1)..Len(Fleet)
    BY <1>1, <1>4
  <2>2. last - first + 1 >= 0
    BY <1>4
  <2> HIDE DEF first, last
  <2> QED BY <1>4, <1>5, <2>1, <2>2, Sizes, SubSeqProperties
<1> HIDE DEF first, last, s
<1>7. Len(s) >= 1
  BY <1>4, <1>6
<1>8. \A k \in 1..Len(s) : first + k - 1 \in 1..Len(Fleet)
  BY <1>1, <1>4, <1>6
<1>9. \A j, k \in 1..Len(s) : s[j] = s[k] => j = k
  <2> TAKE j, k \in 1..Len(s)
  <2> HAVE s[j] = s[k]
  <2>1. first + j - 1 = first + k - 1
    BY <1>6, <1>8, Sizes
  <2> QED BY <1>4, <1>6, <2>1
<1>10. ASSUME NEW i \in 1..Len(Fleet), BatchSize * (b - 1) < i, i <= BatchSize * b
       PROVE  \E k \in 1..Len(s) : s[k] = Fleet[i]
  <2>1. first <= i /\ i <= last
    BY <1>1, <1>2, <1>10 DEF first, last, Least
  <2>2. i - first + 1 \in 1..Len(s) /\ first + (i - first + 1) - 1 = i
    BY <1>4, <1>6, <2>1
  <2> QED BY <1>6, <2>2
<1> QED BY <1>6, <1>7, <1>9, <1>10 DEF s

\* A group is one rule and one batch.
LEMMA GroupIsRuleAndBatch ==
    ASSUME NEW g \in Groups
    PROVE  RuleOf(g) \in RuleIds /\ \E b \in 1..Len(chunkArray) : BatchOf(g) = chunkArray[b]
<1> DEFINE N == Len(Rules)
           C == Len(chunkArray)
<1>1. N \in Nat \ {0} /\ C \in Nat \ {0}
  BY Sizes, Chunks
<1>2. C * N \in Nat /\ C * N = N * C
  BY <1>1
<1>3. g - 1 \in Nat /\ g - 1 < N * C
  BY <1>1, <1>2 DEF Groups
<1> HIDE DEF N, C
<1>4. (g - 1) % N \in 0..(N - 1) /\ (g - 1) \div N \in Nat /\ (g - 1) \div N < C
  BY <1>1, <1>3, DivMod, DivBelow
<1>5. 1 + ((g - 1) % N) \in 1..N /\ 1 + ((g - 1) \div N) \in 1..C
  BY <1>1, <1>4
<1> QED BY <1>5, Sizes DEF N, C, RuleOf, BatchOf

\* Every rule meets every batch in some group.
LEMMA GroupOfRuleAndBatch ==
    ASSUME NEW b \in 1..Len(chunkArray), NEW k \in 1..Len(Rules)
    PROVE  \E g \in Groups : RuleOf(g) = Rules[k] /\ BatchOf(g) = chunkArray[b]
<1> DEFINE N == Len(Rules)
           C == Len(chunkArray)
           before == N * (b - 1)
           g == before + k
<1>1. N \in Nat \ {0} /\ C \in Nat \ {0} /\ b - 1 \in Nat /\ b - 1 < C /\ k - 1 \in 0..(N - 1)
  BY Sizes, Chunks
<1> HIDE DEF N, C
<1>2. before + N <= N * C /\ before \in Nat /\ N * C \in Nat /\ C * N = N * C
  BY <1>1, TimesOrder
<1>3. g \in 1..(C * N) /\ g - 1 = before + (k - 1)
  BY <1>1, <1>2
<1>4. (g - 1) \div N = b - 1 /\ (g - 1) % N = k - 1
  BY <1>1, <1>3, DivUnique
<1>5. 1 + ((g - 1) \div N) = b /\ 1 + ((g - 1) % N) = k
  BY <1>1, <1>4
<1> QED BY <1>3, <1>5 DEF N, C, Groups, RuleOf, BatchOf

\* The decisions of a group are the vehicles of its batch, each one once.
LEMMA DecisionsAreBatch ==
    ASSUME NEW g \in Groups
    PROVE  /\ Decisions[g] \in Seq(VehicleIds)
           /\ Len(Decisions[g]) \in Nat \ {0}
           /\ \A j, k \in 1..Len(Decisions[g]) : Decisions[g][j] = Decisions[g][k] => j = k
           /\ \A k \in 1..Len(BatchOf(g)) :
                \E j \in 1..Len(Decisions[g]) : Decisions[g][j] = BatchOf(g)[k]
<1> DEFINE s == BatchOf(g)
           Q == Queried[RuleOf(g)]
           p == Only(s, VehicleIds \ Q)
           q == Only(s, Q)
           d == p \o q
<1>1. /\ s \in Seq(VehicleIds) /\ Len(s) >= 1 /\ Len(s) \in Nat
      /\ \A j, k \in 1..Len(s) : s[j] = s[k] => j = k
  BY GroupIsRuleAndBatch, BatchIsStretch, LenProperties
<1>2. Decisions[g] = d
  BY DEF Decisions, DecisionsOf
<1> HIDE DEF s, Q
<1>3. /\ p \in Seq(VehicleIds)
      /\ \A j, k \in 1..Len(p) : p[j] = p[k] => j = k
      /\ \A j \in 1..Len(p) : p[j] \notin Q
      /\ \A k \in 1..Len(s) : s[k] \in VehicleIds \ Q => \E j \in 1..Len(p) : p[j] = s[k]
  <2> DEFINE S == VehicleIds \ Q
  <2>1. S = VehicleIds \ Q
    OBVIOUS
  <2> HIDE DEF S
  <2>2. /\ Only(s, S) \in Seq(VehicleIds)
        /\ \A j, k \in 1..Len(Only(s, S)) : Only(s, S)[j] = Only(s, S)[k] => j = k
        /\ \A j \in 1..Len(Only(s, S)) : Only(s, S)[j] \in S
        /\ \A k \in 1..Len(s) :
             s[k] \in S => \E j \in 1..Len(Only(s, S)) : Only(s, S)[j] = s[k]
    BY <1>1, OnlyIsFilter
  <2>3. p = Only(s, S)
    BY <2>1
  <2> HIDE DEF p
  <2> QED BY <2>1, <2>2, <2>3
<1>4. /\ q \in Seq(VehicleIds)
      /\ \A j, k \in 1..Len(q) : q[j] = q[k] => j = k
      /\ \A j \in 1..Len(q) : q[j] \in Q
      /\ \A k \in 1..Len(s) : s[k] \in Q => \E j \in 1..Len(q) : q[j] = s[k]
  BY <1>1, OnlyIsFilter
<1> HIDE DEF p, q
<1>5. /\ d \in Seq(VehicleIds) /\ Len(d) = Len(p) + Len(q)
      /\ \A i \in 1..(Len(p) + Len(q)) :
           d[i] = IF i <= Len(p) THEN p[i] ELSE q[i - Len(p)]
  BY <1>3, <1>4, ConcatProperties
<1>6. Len(p) \in Nat /\ Len(q) \in Nat
  BY <1>3, <1>4, LenProperties
<1> HIDE DEF d
<1>7. \A i \in 1..Len(d) : \/ i \in 1..Len(p) /\ d[i] = p[i] /\ d[i] \notin Q
                           \/ /\ i - Len(p) \in 1..Len(q) /\ i > Len(p)
                              /\ d[i] = q[i - Len(p)] /\ d[i] \in Q
  BY <1>3, <1>4, <1>5, <1>6
<1>8. \A j, k \in 1..Len(d) : d[j] = d[k] => j = k
  <2> TAKE j, k \in 1..Len(d)
  <2> HAVE d[j] = d[k]
  <2>1. CASE d[j] \in Q
    <3>1. /\ j - Len(p) \in 1..Len(q) /\ d[j] = q[j - Len(p)]
          /\ k - Len(p) \in 1..Len(q) /\ d[k] = q[k - Len(p)]
      BY <1>7, <2>1
    <3>2. j - Len(p) = k - Len(p)
      BY <1>4, <3>1
    <3> QED BY <1>5, <1>6, <3>2
  <2>2. CASE d[j] \notin Q
    BY <1>3, <1>7, <2>2
  <2> QED BY <2>1, <2>2
<1>9. \A k \in 1..Len(s) : \E i \in 1..Len(d) : d[i] = s[k]
  <2> TAKE k \in 1..Len(s)
  <2>1. CASE s[k] \in Q
    <3>1. PICK j \in 1..Len(q) : q[j] = s[k]
      BY <1>4, <2>1
    <3>2. j + Len(p) \in 1..Len(d) /\ ~(j + Len(p) <= Len(p)) /\ (j + Len(p)) - Len(p) = j
      BY <1>5, <1>6
    <3>3. d[j + Len(p)] = q[j]
      BY <1>5, <3>2
    <3> QED BY <3>1, <3>2, <3>3
  <2>2. CASE s[k] \notin Q
    <3>1. s[k] \in VehicleIds
      BY <1>1, ElementOfSeq
    <3>2. PICK j \in 1..Len(p) : p[j] = s[k]
      BY <1>3, <2>2, <3>1
    <3>3. j \in 1..Len(d) /\ j <= Len(p)
      BY <1>5, <1>6
    <3> QED BY <1>5, <3>2, <3>3
  <2> QED BY <2>1, <2>2
<1>10. Len(d) \in Nat \ {0}
  <2>1. \E i \in 1..Len(d) : d[i] = s[1]
    BY <1>1, <1>9
  <2> QED BY <1>5, <1>6, <2>1
<1> QED BY <1>2, <1>5, <1>8, <1>9, <1>10 DEF s

\* Every vehicle and rule is a decision of some group.
LEMMA EveryPairIsDecided ==
    ASSUME NEW v \in VehicleIds, NEW r \in RuleIds
    PROVE  \E g \in Groups : RuleOf(g) = r
              /\ \E k \in 1..Len(Decisions[g]) : Decisions[g][k] = v
<1>1. PICK i \in 1..Len(Fleet) : Fleet[i] = v
  BY Sizes
<1>2. PICK k \in 1..Len(Rules) : Rules[k] = r
  BY Sizes
<1> DEFINE m == (i - 1) \div BatchSize
           rest == (i - 1) % BatchSize
           b == m + 1
<1>3. /\ i - 1 \in Nat /\ BatchSize \in Nat \ {0} /\ Len(chunkArray) \in Nat
      /\ i - 1 < BatchSize * Len(chunkArray)
  <2>1. /\ BatchSize \in Nat \ {0} /\ Len(chunkArray) \in Nat
        /\ BatchSize * Len(chunkArray) >= Len(Fleet) /\ Len(Fleet) \in Nat
    BY Sizes, Chunks
  <2>2. BatchSize * Len(chunkArray) \in Nat
    BY <2>1
  <2> QED BY <2>1, <2>2
<1>4. m \in Nat /\ rest \in 0..(BatchSize - 1) /\ i - 1 = BatchSize * m + rest /\ m < Len(chunkArray)
  BY <1>3, DivMod, DivBelow
<1> HIDE DEF m, rest
<1>5. b \in 1..Len(chunkArray) /\ b - 1 = m
  BY <1>3, <1>4
<1>6. BatchSize * (b - 1) < i /\ i <= BatchSize * b
  <2>1. BatchSize * m \in Nat /\ BatchSize * b = BatchSize * m + BatchSize
    BY <1>3, <1>4
  <2>2. BatchSize * (b - 1) = BatchSize * m
    BY <1>5
  <2> HIDE DEF b
  <2> QED BY <1>3, <1>4, <2>1, <2>2
<1>7. \E j \in 1..Len(chunkArray[b]) : chunkArray[b][j] = v
  <2> HIDE DEF b
  <2>1. \E j \in 1..Len(chunkArray[b]) : chunkArray[b][j] = Fleet[i]
    BY <1>5, <1>6, BatchIsStretch
  <2> QED BY <1>1, <2>1
<1>8. PICK g \in Groups : RuleOf(g) = r /\ BatchOf(g) = chunkArray[b]
  BY <1>2, <1>5, GroupOfRuleAndBatch
<1> QED BY <1>7, <1>8, DecisionsAreBatch

LEMMA Interval ==
    ASSUME NEW n \in Nat
    PROVE  IsFiniteSet(1..n) /\ Cardinality(1..n) = n
<1>1. IsFiniteSet(1..n) /\ Cardinality(1..n) = IF 1 > n THEN 0 ELSE n - 1 + 1
  BY FS_Interval
<1> QED BY <1>1

\* No batch is longer than the fleet.
LEMMA DecisionsFit ==
    ASSUME NEW g \in Groups
    PROVE  Len(Decisions[g]) <= Len(Fleet)
<1> DEFINE d == Decisions[g]
           at == [k \in 1..Len(d) |-> CHOOSE i \in 1..Len(Fleet) : Fleet[i] = d[k]]
<1>1. /\ d \in Seq(VehicleIds) /\ Len(d) \in Nat
      /\ \A j, k \in 1..Len(d) : d[j] = d[k] => j = k
  BY DecisionsAreBatch
<1>2. \A k \in 1..Len(d) : at[k] \in 1..Len(Fleet) /\ Fleet[at[k]] = d[k]
  BY <1>1, Sizes, ElementOfSeq
<1>3. at \in Injection(1..Len(d), 1..Len(Fleet))
  <2>1. \A j, k \in 1..Len(d) : at[j] = at[k] => j = k
    BY <1>1, <1>2
  <2> QED BY <1>2, <2>1 DEF Injection, IsInjective
<1>4. /\ IsFiniteSet(1..Len(Fleet)) /\ Cardinality(1..Len(Fleet)) = Len(Fleet)
      /\ Cardinality(1..Len(d)) = Len(d)
  <2>1. Len(d) \in Nat /\ Len(Fleet) \in Nat
    BY <1>1, Sizes
  <2> QED BY <2>1, Interval
<1> QED BY <1>3, <1>4, FS_Injection
-----------------------------------------------------------------------------
(* The invariant.                                                          *)

Scalars ==
    /\ concurrency \in Concurrencies
    /\ phase \in {"resting", "evaluating", "decay"}
    /\ pass \in Passes /\ group \in Groups /\ dealt \in BOOLEAN
    /\ evaluated \subseteq Pairs /\ failing \subseteq Pairs
    /\ stops \in 0..MaxStops /\ changes \in 0..MaxChanges

\* A worker only takes every WorkerCount-th item of its group.
InTheirClass ==
    /\ threads \subseteq [pass : Passes, group : Groups, worker : Nat, item : Nat]
    /\ \A t \in threads :
         /\ t.worker \in 1..WorkerCount(t.group)
         /\ t.item \in 1..Len(Decisions[t.group])
         /\ \E k \in Nat : t.item = t.worker + WorkerCount(t.group) * k

\* A pass, failed or not, has workers in one group only, each one once.
OneGroupPerPass ==
    /\ \A s, t \in threads : s.pass = t.pass =>
         s.group = t.group /\ (s.worker = t.worker => s = t)
    /\ \A t \in threads : t.pass = pass => t.group = group /\ dealt

\* A single worker never outlives its pass.
AloneWithOne == concurrency = 1 => \A t \in threads : Awaited(t)

Finished(g) == \A k \in 1..Len(Decisions[g]) : <<Decisions[g][k], RuleOf(g)>> \in evaluated

\* Item m of worker w is evaluated, or the worker is not past it.
Reached(w, m) ==
    LET k == w + WorkerCount(group) * m
    IN  \/ <<Decisions[group][k], RuleOf(group)>> \in evaluated
        \/ \E t \in threads : t.pass = pass /\ t.worker = w /\ t.item <= k

NothingSkipped ==
    /\ phase = "evaluating" => \A g \in Groups : g < group => Finished(g)
    /\ phase = "evaluating" /\ dealt =>
         \A w \in 1..WorkerCount(group), m \in Nat :
             w + WorkerCount(group) * m <= Len(Decisions[group]) => Reached(w, m)
    /\ phase = "decay" => \A g \in Groups : Finished(g)

LInv ==
    /\ Scalars
    /\ InTheirClass
    /\ OneGroupPerPass
    /\ AloneWithOne
    /\ NothingSkipped

LEMMA WorkersAreFew ==
    ASSUME Scalars, NEW g \in Groups
    PROVE  /\ WorkerCount(g) \in Nat \ {0} /\ WorkerCount(g) <= Len(Decisions[g])
           /\ concurrency = 1 => WorkerCount(g) = 1
<1>1. concurrency \in Nat \ {0} /\ Len(Decisions[g]) \in Nat \ {0}
  BY LoopAssumption, DecisionsAreBatch DEF Scalars
<1>2. \A c, n \in Nat \ {0} :
        /\ Least(c, n) \in Nat \ {0} /\ Least(c, n) <= n
        /\ c = 1 => Least(c, n) = 1
  BY DEF Least
<1> QED BY <1>1, <1>2 DEF WorkerCount

LEMMA FirstGroup == 1 \in Groups
<1>1. Len(chunkArray) \in Nat \ {0} /\ Len(Rules) \in Nat \ {0}
  BY Chunks, Sizes
<1>2. Len(chunkArray) * Len(Rules) \in Nat \ {0}
  BY <1>1
<1> QED BY <1>2 DEF Groups

LEMMA GroupsAreNat == Groups \subseteq Nat \ {0} /\ \A g \in Groups, h \in Nat \ {0} : h < g => h \in Groups
<1>1. Len(chunkArray) * Len(Rules) \in Nat
  BY Chunks, Sizes
<1> QED BY <1>1 DEF Groups

LEMMA LInvInit == LoopInit => LInv
<1> SUFFICES ASSUME LoopInit
             PROVE  LInv
  OBVIOUS
<1>1. failing \subseteq Pairs
  BY DEF LoopInit
<1>2. 0 \in 0..MaxStops /\ 0 \in 0..MaxChanges
  BY LoopAssumption
<1>3. Scalars
  BY <1>1, <1>2, FirstGroup DEF LoopInit, Scalars
<1>4. threads = {} /\ phase = "resting"
  BY DEF LoopInit
<1>5. InTheirClass /\ OneGroupPerPass /\ AloneWithOne
  BY <1>4 DEF InTheirClass, OneGroupPerPass, AloneWithOne
<1>6. NothingSkipped
  BY <1>4 DEF NothingSkipped
<1> QED BY <1>3, <1>5, <1>6 DEF LInv

\* The start of a pass, its end, and what is around it.
LEMMA StartPassKeeps == ASSUME LInv, StartPass PROVE LInv'
<1>1. Scalars' /\ threads' = threads /\ concurrency' = concurrency
  BY FirstGroup DEF LInv, StartPass, Scalars
<1>2. InTheirClass'
  BY <1>1 DEF LInv, InTheirClass, WorkerCount
<1>3. OneGroupPerPass'
  BY <1>1 DEF LInv, OneGroupPerPass, StartPass
<1>4. AloneWithOne'
  BY DEF LInv, AloneWithOne, Awaited, StartPass
<1>5. NothingSkipped'
  BY GroupsAreNat DEF NothingSkipped, StartPass
<1> QED BY <1>1, <1>2, <1>3, <1>4, <1>5 DEF LInv

LEMMA AroundKeeps ==
    ASSUME LInv, QueryFails \/ Decay \/ Restart \/ (\E p \in Pairs : FailureChanges(p))
    PROVE  LInv'
<1> USE DEF LInv
<1>1. CASE QueryFails \/ Decay
  <2>1. Scalars' /\ UNCHANGED <<concurrency, pass, group, dealt, threads>> /\ phase' = "resting"
    BY <1>1, LoopAssumption DEF QueryFails, Decay, Scalars
  <2>2. InTheirClass' /\ OneGroupPerPass'
    BY <2>1 DEF InTheirClass, OneGroupPerPass, WorkerCount
  <2>3. AloneWithOne'
    <3>1. \A t \in threads : ~ Awaited(t)
      BY <1>1 DEF Awaited, QueryFails, Decay, OneGroupPerPass
    <3> QED BY <2>1, <3>1 DEF AloneWithOne
  <2>4. NothingSkipped'
    BY <2>1 DEF NothingSkipped
  <2> QED BY <2>1, <2>2, <2>3, <2>4
<1>2. CASE Restart
  <2>1. Scalars' /\ threads' = {} /\ phase' = "resting"
    BY <1>2, LoopAssumption DEF Restart, Scalars
  <2> QED BY <2>1 DEF InTheirClass, OneGroupPerPass, AloneWithOne, NothingSkipped
<1>3. ASSUME NEW p \in Pairs, FailureChanges(p) PROVE LInv'
  <2>1. Scalars'
    BY <1>3, LoopAssumption DEF FailureChanges, Scalars, engine
  <2>2. UNCHANGED <<concurrency, phase, pass, group, dealt, threads, evaluated>>
    BY <1>3 DEF FailureChanges, engine
  <2>3. InTheirClass' /\ OneGroupPerPass' /\ AloneWithOne'
    BY <2>2 DEF InTheirClass, OneGroupPerPass, AloneWithOne, WorkerCount, Awaited
  <2>4. NothingSkipped'
    BY <2>2 DEF NothingSkipped, Finished, Reached, WorkerCount
  <2> QED BY <2>1, <2>3, <2>4
<1> QED BY <1>1, <1>2, <1>3

\* The workers start, each at its own first item.
LEMMA DealKeeps == ASSUME LInv, Deal PROVE LInv'
<1> USE DEF LInv
<1> DEFINE W == WorkerCount(group)
           new == {[pass |-> pass, group |-> group, worker |-> w, item |-> w] : w \in 1..W}
<1>1. /\ W \in Nat \ {0} /\ W <= Len(Decisions[group]) /\ Len(Decisions[group]) \in Nat
      /\ group \in Groups /\ pass \in Passes
  BY WorkersAreFew, DecisionsAreBatch DEF Scalars
<1>2. /\ threads' = threads \cup new /\ dealt' /\ phase = "evaluating" /\ ~ dealt
      /\ UNCHANGED <<concurrency, phase, pass, group, evaluated, failing, stops, changes>>
  BY DEF Deal
<1>3. \A g : WorkerCount(g)' = WorkerCount(g)
  BY <1>2 DEF WorkerCount
<1>4. \A t \in threads : t.pass # pass
  BY <1>2 DEF OneGroupPerPass
<1>5. \A t \in new :
        /\ t \in [pass : Passes, group : Groups, worker : Nat, item : Nat]
        /\ t.pass = pass /\ t.group = group /\ t.worker \in 1..W /\ t.item = t.worker
        /\ t.item \in 1..Len(Decisions[group])
  BY <1>1
<1>6. \A s, t \in new : s.worker = t.worker => s = t
  OBVIOUS
<1>7. \A w \in 1..W : \E t \in new : t.worker = w
  <2> TAKE w \in 1..W
  <2> WITNESS [pass |-> pass, group |-> group, worker |-> w, item |-> w] \in new
  <2> QED OBVIOUS
<1> HIDE DEF new
<1>8. Scalars'
  BY <1>2 DEF Scalars
<1>9. InTheirClass'
  <2>1. \A t \in new : t.item = t.worker + W * 0
    BY <1>1, <1>5
  <2>2. \A t \in new : \E k \in Nat : t.item = t.worker + WorkerCount(t.group) * k
    BY <1>5, <2>1
  <2> QED BY <1>2, <1>3, <1>5, <2>2 DEF InTheirClass
<1>10. OneGroupPerPass'
  BY <1>2, <1>4, <1>5, <1>6 DEF OneGroupPerPass
<1>11. AloneWithOne'
  BY <1>2, <1>5 DEF AloneWithOne, Awaited
<1>12. NothingSkipped'
  <2>1. \A w \in 1..W, m \in Nat : Reached(w, m)'
    <3> TAKE w \in 1..W, m \in Nat
    <3>1. PICK t \in new : t.worker = w
      BY <1>7
    <3>2. W * m \in Nat
      BY <1>1, TimesNat
    <3>3. t.item <= w + W * m
      BY <1>1, <1>5, <3>1, <3>2
    <3> QED BY <1>2, <1>3, <1>5, <3>1, <3>3 DEF Reached
  <2>2. \A g \in Groups : g < group => Finished(g)'
    BY <1>2 DEF NothingSkipped, Finished
  <2> HIDE DEF W
  <2> QED BY <1>2, <1>3, <2>1, <2>2 DEF NothingSkipped, W
<1> QED BY <1>8, <1>9, <1>10, <1>11, <1>12

\* A group with nobody at work is finished.
LEMMA NextGroupKeeps == ASSUME LInv, NextGroup PROVE LInv'
<1> USE DEF LInv
<1> DEFINE W == WorkerCount(group)
<1>1. /\ W \in Nat \ {0} /\ Len(Decisions[group]) \in Nat /\ group \in Groups
  BY WorkersAreFew, DecisionsAreBatch DEF Scalars
<1>2. /\ phase = "evaluating" /\ dealt
      /\ UNCHANGED <<concurrency, pass, threads, evaluated, failing, stops, changes>>
      /\ \A t \in threads : t.pass # pass
  BY DEF NextGroup, Awaited
<1>3. Finished(group)
  <2> SUFFICES ASSUME NEW k \in 1..Len(Decisions[group])
               PROVE  <<Decisions[group][k], RuleOf(group)>> \in evaluated
    BY DEF Finished
  <2> DEFINE w == 1 + ((k - 1) % W)
             m == (k - 1) \div W
  <2>1. k - 1 \in Nat
    BY <1>1
  <2>2. m \in Nat /\ w \in 1..W /\ k = w + W * m
    <3>1. m \in Nat /\ (k - 1) % W \in 0..(W - 1) /\ k - 1 = W * m + ((k - 1) % W)
      BY <1>1, <2>1, DivMod
    <3> HIDE DEF m, W
    <3>2. W * m \in Nat
      BY <1>1, <3>1, TimesNat
    <3> QED BY <1>1, <3>1, <3>2
  <2> HIDE DEF w, m
  <2>3. Reached(w, m)
    BY <1>1, <1>2, <2>2 DEF NothingSkipped
  <2> QED BY <1>2, <2>2, <2>3 DEF Reached
<1>4. \A g \in Groups : g < group => Finished(g)
  BY <1>2 DEF NothingSkipped
<1>5. \A g : Finished(g)' <=> Finished(g)
  BY <1>2 DEF Finished
<1>6. CASE group + 1 \in Groups
  <2>1. group' = group + 1 /\ dealt' = FALSE /\ phase' = phase
    BY <1>6 DEF NextGroup
  <2>2. \A g \in Groups : g < group + 1 => g < group \/ g = group
    BY <1>1, GroupsAreNat
  <2>3. Scalars' /\ InTheirClass' /\ OneGroupPerPass' /\ AloneWithOne'
    BY <1>2, <1>6, <2>1 DEF Scalars, InTheirClass, OneGroupPerPass, AloneWithOne, Awaited, WorkerCount
  <2>4. NothingSkipped'
    BY <1>2, <1>3, <1>4, <1>5, <2>1, <2>2 DEF NothingSkipped
  <2> QED BY <2>3, <2>4
<1>7. CASE group + 1 \notin Groups
  <2>1. phase' = "decay" /\ UNCHANGED <<group, dealt>>
    BY <1>7 DEF NextGroup
  <2>2. \A g \in Groups : g < group \/ g = group
    <3> TAKE g \in Groups
    <3>1. group \in Nat /\ g \in Nat /\ (group + 1 < g \/ group + 1 = g => group + 1 \in Groups)
      BY <1>1, GroupsAreNat
    <3> QED BY <1>7, <3>1
  <2>3. Scalars' /\ InTheirClass' /\ OneGroupPerPass' /\ AloneWithOne'
    BY <1>2, <2>1 DEF Scalars, InTheirClass, OneGroupPerPass, AloneWithOne, Awaited, WorkerCount
  <2>4. NothingSkipped'
    BY <1>3, <1>4, <1>5, <2>1, <2>2 DEF NothingSkipped
  <2> QED BY <2>3, <2>4
<1> QED BY <1>6, <1>7

\* A worker finishes an item and goes on to its next one.
LEMMA EvaluateKeeps == ASSUME LInv, NEW t \in threads, Evaluate(t) PROVE LInv'
<1> USE DEF LInv
<1> DEFINE W == WorkerCount(t.group)
           n == Len(Decisions[t.group])
           u == Advance(t)
<1>1. /\ t \in [pass : Passes, group : Groups, worker : Nat, item : Nat]
      /\ t.group \in Groups /\ t.worker \in 1..W /\ t.item \in 1..n
  BY DEF InTheirClass
<1>2. W \in Nat \ {0} /\ n \in Nat
  BY <1>1, WorkersAreFew, DecisionsAreBatch
<1>3. /\ u.pass = t.pass /\ u.group = t.group /\ u.worker = t.worker /\ u.item = t.item + W
      /\ u \in [pass : Passes, group : Groups, worker : Nat, item : Nat]
  BY <1>1, <1>2 DEF Advance
<1>4. /\ threads' = (threads \ {t}) \cup {x \in {u} : x.item <= n}
      /\ evaluated' = IF Awaited(t) THEN evaluated \cup {PairOf(t)} ELSE evaluated
      /\ UNCHANGED <<concurrency, phase, pass, group, dealt, failing, stops, changes>>
  BY DEF Evaluate
<1> HIDE DEF u
<1>5. \A g : WorkerCount(g)' = WorkerCount(g)
  BY <1>4 DEF WorkerCount
<1>6. \A x \in threads' : (x \in threads /\ x # t) \/ (x = u /\ u.item <= n)
  BY <1>4
<1>7. PairOf(t) \in Pairs
  <2>1. VehicleOf(t) \in VehicleIds
    BY <1>1, DecisionsAreBatch, ElementOfSeq DEF VehicleOf
  <2>2. RuleOf(t.group) \in RuleIds
    BY <1>1, GroupIsRuleAndBatch
  <2> QED BY <2>1, <2>2 DEF PairOf, Pairs
<1>8. Scalars'
  BY <1>4, <1>7 DEF Scalars
<1>9. InTheirClass'
  <2>1. \E k \in Nat : u.item = u.worker + W * k
    <3>1. PICK k \in Nat : t.item = t.worker + W * k
      BY DEF InTheirClass
    <3>2. W * (k + 1) = W * k + W /\ W * k \in Nat /\ k + 1 \in Nat
      BY <1>2
    <3>3. u.item = u.worker + W * (k + 1)
      BY <1>1, <1>2, <1>3, <3>1, <3>2
    <3> QED BY <3>2, <3>3
  <2>2. u.item <= n => u.item \in 1..n
    BY <1>1, <1>2, <1>3
  <2>3. \A x \in threads' :
          /\ x \in [pass : Passes, group : Groups, worker : Nat, item : Nat]
          /\ x.worker \in 1..WorkerCount(x.group)
          /\ x.item \in 1..Len(Decisions[x.group])
          /\ \E k \in Nat : x.item = x.worker + WorkerCount(x.group) * k
    <3> TAKE x \in threads'
    <3>1. CASE x \in threads
      BY <3>1 DEF InTheirClass
    <3>2. CASE x = u /\ u.item <= n
      BY <1>1, <1>3, <2>1, <2>2, <3>2
    <3> QED BY <1>6, <3>1, <3>2
  <2> QED BY <1>5, <2>3 DEF InTheirClass
<1>10. OneGroupPerPass'
  <2>1. \A x \in threads : x # t /\ x.pass = t.pass => x.group = t.group /\ x.worker # t.worker
    BY DEF OneGroupPerPass
  <2>2. \A s, x \in threads' : s.pass = x.pass =>
          s.group = x.group /\ (s.worker = x.worker => s = x)
    BY <1>3, <1>6, <2>1 DEF OneGroupPerPass
  <2>3. \A x \in threads' : x.pass = pass => x.group = group /\ dealt
    BY <1>3, <1>6 DEF OneGroupPerPass
  <2> QED BY <1>4, <2>2, <2>3 DEF OneGroupPerPass
<1>11. AloneWithOne'
  BY <1>3, <1>4, <1>6 DEF AloneWithOne, Awaited
<1>12. NothingSkipped'
  <2>1. \A g : Finished(g) => Finished(g)'
    BY <1>4 DEF Finished
  <2>2. ASSUME phase = "evaluating", dealt, NEW w \in 1..WorkerCount(group), NEW m \in Nat,
               w + WorkerCount(group) * m <= Len(Decisions[group])
        PROVE  Reached(w, m)'
    <3> DEFINE k == w + WorkerCount(group) * m
    <3>1. CASE <<Decisions[group][k], RuleOf(group)>> \in evaluated
      BY <1>4, <1>5, <3>1 DEF Reached
    <3>2. ASSUME NEW x \in threads, x.pass = pass, x.worker = w, x.item <= k
          PROVE  Reached(w, m)'
      <4>1. CASE x # t
        BY <1>4, <1>5, <3>2, <4>1 DEF Reached
      <4>2. CASE x = t
        <5>1. t.pass = pass /\ t.worker = w /\ t.group = group /\ t.item <= k /\ Awaited(t)
          BY <2>2, <3>2, <4>2 DEF OneGroupPerPass, Awaited
        <5>2. PICK j \in Nat : t.item = w + W * j
          BY <5>1 DEF InTheirClass
        <5>3. k = w + W * m /\ k <= n
          BY <2>2, <5>1
        <5>4. W * j \in Nat /\ W * m \in Nat
          BY <1>2, TimesNat
        <5> HIDE DEF k, W, n
        <5>5. CASE j = m
          <6>1. PairOf(t) = <<Decisions[group][k], RuleOf(group)>>
            BY <5>1, <5>2, <5>3, <5>5 DEF PairOf, VehicleOf
          <6>2. PairOf(t) \in evaluated'
            BY <1>4, <5>1
          <6> QED BY <1>4, <1>5, <6>1, <6>2 DEF Reached, k
        <5>6. CASE j < m
          <6>1. W * j + W <= W * m
            BY <1>2, <5>6, TimesOrder
          <6>2. u.item <= k /\ u.item <= n
            BY <1>1, <1>2, <1>3, <5>1, <5>2, <5>3, <5>4, <6>1
          <6>3. u \in threads' /\ u.pass = pass /\ u.worker = w
            BY <1>3, <1>4, <5>1, <6>2
          <6> QED BY <1>4, <1>5, <6>2, <6>3 DEF Reached, k
        <5>7. CASE m < j
          <6>1. W * m + W <= W * j
            BY <1>2, <5>7, TimesOrder
          <6> QED BY <1>1, <1>2, <5>1, <5>2, <5>3, <5>4, <6>1
        <5> QED BY <5>5, <5>6, <5>7
      <4> QED BY <4>1, <4>2
    <3> QED BY <2>2, <3>1, <3>2 DEF NothingSkipped, Reached
  <2> QED BY <1>4, <1>5, <2>1, <2>2 DEF NothingSkipped
<1> QED BY <1>8, <1>9, <1>10, <1>11, <1>12

\* A worker that fails ends, and its pass if that waits for it.
LEMMA EvaluationFailsKeeps == ASSUME LInv, NEW t \in threads, EvaluationFails(t) PROVE LInv'
<1> USE DEF LInv
<1>1. /\ threads' = threads \ {t} /\ phase' = IF Awaited(t) THEN "resting" ELSE phase
      /\ UNCHANGED <<concurrency, pass, group, dealt, evaluated, failing, stops, changes>>
  BY DEF EvaluationFails
<1>2. Scalars' /\ InTheirClass' /\ OneGroupPerPass'
  BY <1>1 DEF Scalars, InTheirClass, OneGroupPerPass, WorkerCount
<1>3. AloneWithOne'
  <2> SUFFICES ASSUME concurrency = 1, NEW s \in threads, s # t
               PROVE  FALSE
    BY <1>1 DEF AloneWithOne
  <2>1. s.pass = pass /\ t.pass = pass
    BY DEF AloneWithOne, Awaited
  <2>2. s.group = t.group /\ t.group \in Groups
    BY <2>1 DEF OneGroupPerPass, InTheirClass
  <2>3. WorkerCount(t.group) = 1
    BY <2>2, WorkersAreFew
  <2>4. s.worker = 1 /\ t.worker = 1
    BY <2>2, <2>3 DEF InTheirClass
  <2> QED BY <2>1, <2>4 DEF OneGroupPerPass
<1>4. NothingSkipped'
  <2>1. CASE Awaited(t)
    BY <1>1, <2>1 DEF NothingSkipped
  <2>2. CASE ~ Awaited(t)
    <3>1. phase = "evaluating" => t.pass # pass
      BY <2>2 DEF Awaited
    <3>2. phase' = phase
      BY <1>1, <2>2
    <3> QED BY <1>1, <3>1, <3>2 DEF NothingSkipped, Finished, Reached, WorkerCount
  <2> QED BY <2>1, <2>2
<1> QED BY <1>2, <1>3, <1>4

LEMMA LInvNext == LInv /\ [LoopNext]_loopVars => LInv'
<1> SUFFICES ASSUME LInv, [LoopNext]_loopVars
             PROVE  LInv'
  OBVIOUS
<1>1. CASE Loop
  BY <1>1, StartPassKeeps, DealKeeps, NextGroupKeeps, AroundKeeps DEF Loop
<1>2. ASSUME NEW t \in threads, Evaluate(t) \/ EvaluationFails(t) PROVE LInv'
  BY <1>2, EvaluateKeeps, EvaluationFailsKeeps
<1>3. CASE QueryFails \/ Restart \/ \E p \in Pairs : FailureChanges(p)
  BY <1>3, AroundKeeps
<1>4. CASE UNCHANGED loopVars
  <2>1. UNCHANGED <<concurrency, phase, pass, group, dealt, threads, evaluated, failing, stops, changes>>
    BY <1>4 DEF loopVars, engine
  <2>2. Scalars' /\ InTheirClass' /\ OneGroupPerPass' /\ AloneWithOne'
    BY <2>1 DEF LInv, Scalars, InTheirClass, OneGroupPerPass, AloneWithOne, Awaited, WorkerCount
  <2>3. NothingSkipped'
    BY <2>1 DEF LInv, NothingSkipped, Finished, Reached, WorkerCount
  <2> QED BY <2>2, <2>3 DEF LInv
<1> QED BY <1>1, <1>2, <1>3, <1>4 DEF LoopNext

LEMMA LInvHolds == LoopSpec => []LInv
BY LInvInit, LInvNext, PTL DEF LoopSpec
-----------------------------------------------------------------------------
(* The theorems.                                                           *)

\* The loop keeps its types: no worker ever reaches past the decisions of its group.
THEOREM LoopTypes == LoopSpec => []LoopTypeOK
<1>1. LInv => LoopTypeOK
  <2> SUFFICES ASSUME LInv
               PROVE  LoopTypeOK
    OBVIOUS
  <2> USE DEF LInv
  <2>1. \A t \in threads : t \in Slots /\ t.item <= Len(Decisions[t.group])
    <3> TAKE t \in threads
    <3>1. /\ t \in [pass : Passes, group : Groups, worker : Nat, item : Nat]
          /\ t.group \in Groups /\ t.worker \in 1..WorkerCount(t.group)
          /\ t.item \in 1..Len(Decisions[t.group])
      BY DEF InTheirClass
    <3>2. /\ WorkerCount(t.group) <= Len(Decisions[t.group])
          /\ WorkerCount(t.group) \in Nat
          /\ Len(Decisions[t.group]) <= Len(Fleet)
          /\ Len(Decisions[t.group]) \in Nat /\ Len(Fleet) \in Nat
      BY <3>1, WorkersAreFew, DecisionsFit, DecisionsAreBatch, Sizes
    <3>3. t.worker \in 1..Len(Fleet) /\ t.item \in 1..Len(Fleet)
      BY <3>1, <3>2
    <3> QED BY <3>1, <3>2, <3>3 DEF Slots
  <2> QED BY <2>1 DEF Scalars, LoopTypeOK
<1> QED BY <1>1, LInvHolds, PTL

\* Two evaluations of one vehicle meet only across a failed pass, with more than
\* one worker: chunks, rules and workers never deal a vehicle twice.
THEOREM NoTwoEvaluations == LoopSpec => []OneEvaluationPerVehicle
<1>1. LInv => OneEvaluationPerVehicle
  <2> SUFFICES ASSUME LInv, NEW s \in threads, NEW t \in threads, s # t,
                      VehicleOf(s) = VehicleOf(t)
               PROVE  concurrency > 1 /\ s.pass # t.pass
    BY DEF OneEvaluationPerVehicle
  <2> USE DEF LInv
  <2>1. s.pass # t.pass
    <3> SUFFICES ASSUME s.pass = t.pass
                 PROVE  FALSE
      OBVIOUS
    <3> DEFINE W == WorkerCount(t.group)
    <3>1. s.group = t.group /\ t.group \in Groups /\ s.worker # t.worker
      BY DEF OneGroupPerPass, InTheirClass
    <3>2. /\ s.worker \in 1..W /\ t.worker \in 1..W
          /\ s.item \in 1..Len(Decisions[t.group]) /\ t.item \in 1..Len(Decisions[t.group])
      BY <3>1 DEF InTheirClass
    <3>3. s.item = t.item
      BY <3>1, <3>2, DecisionsAreBatch DEF VehicleOf
    <3>4. PICK j \in Nat : s.item = s.worker + W * j
      BY <3>1 DEF InTheirClass
    <3>5. PICK k \in Nat : t.item = t.worker + W * k
      BY DEF InTheirClass
    <3>6. W \in Nat \ {0}
      BY <3>1, WorkersAreFew
    <3> HIDE DEF W
    <3>7. s.worker + W * j = t.worker + W * k
      BY <3>3, <3>4, <3>5
    <3>8. s.worker = t.worker
      BY <3>2, <3>6, <3>7, OneWorkerPerItem
    <3> QED BY <3>1, <3>8
  <2>2. concurrency # 1
    BY <2>1 DEF AloneWithOne, Awaited
  <2>3. concurrency \in Nat \ {0}
    BY LoopAssumption DEF Scalars
  <2> QED BY <2>1, <2>2, <2>3
<1> QED BY <1>1, LInvHolds, PTL

\* The scores decay only after every rule has been evaluated on every vehicle.
THEOREM DecayComesLast == LoopSpec => []DecayAfterAll
<1>1. LInv => DecayAfterAll
  <2> SUFFICES ASSUME LInv, phase = "decay"
               PROVE  evaluated = Pairs
    BY DEF DecayAfterAll
  <2>1. \A v \in VehicleIds, r \in RuleIds : <<v, r>> \in evaluated
    <3> TAKE v \in VehicleIds, r \in RuleIds
    <3>1. PICK g \in Groups : RuleOf(g) = r /\ \E k \in 1..Len(Decisions[g]) : Decisions[g][k] = v
      BY EveryPairIsDecided
    <3>2. Finished(g)
      BY DEF LInv, NothingSkipped
    <3> QED BY <3>1, <3>2 DEF Finished
  <2>2. evaluated \subseteq Pairs
    BY DEF LInv, Scalars
  <2> QED BY <2>1, <2>2 DEF Pairs
<1> QED BY <1>1, LInvHolds, PTL
=============================================================================
