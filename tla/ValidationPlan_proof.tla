------------------------ MODULE ValidationPlan_proof ------------------------
(* Proofs about the split generators for every argument a caller may pass, *)
(* every shuffle, every matrix and every fold an allocation may fail in.   *)
EXTENDS ValidationPlan, Filtering_proof, FiniteSetTheorems, TLAPS

(* A fold whose two sides share out the first n samples. *)
SharesOut(f, n) ==
    /\ f \in Fold
    /\ f.train # <<>> /\ f.test # <<>>
    /\ NoDuplicates(f.train) /\ NoDuplicates(f.test)
    /\ Elements(f.train) \cap Elements(f.test) = {}
    /\ Elements(f.train) \cup Elements(f.test) = Rows(n)

(* A sequence that lists the members of S, each once. *)
Lists(q, S) == q \in Seq(Int) /\ Elements(q) = S /\ NoDuplicates(q)

LEMMA AscendingLists ==
    ASSUME NEW n \in Nat, NEW S \in SUBSET Rows(n)
    PROVE  Lists(Ascending(n, S), S)
  <1> DEFINE rows == [i \in 1 .. n |-> i - 1]
             D == {i \in 1 .. n : i - 1 \in S}
             q == Keep(rows, D)
  <1>1. rows \in Seq(Int) /\ Len(rows) = n /\ \A i \in 1 .. n : rows[i] = i - 1
    <2>1. rows \in [1 .. n -> Int]
      OBVIOUS
    <2> QED
      BY <2>1, SeqDef
  <1>2. D \subseteq 1 .. n
    OBVIOUS
  <1>3. \A s \in S : s + 1 \in D /\ s \in Int
    BY DEF Rows
  <1>4. \A i \in D : i - 1 \in S /\ i \in Int
    OBVIOUS
  <1> HIDE DEF rows, D
  <1>5. q \in Seq(Int) /\ \E f : Enumerates(f, q, rows, D, Len(rows))
    BY <1>1, KeepEnumerates
  <1> HIDE DEF q
  <1>6. PICK f : Enumerates(f, q, rows, D, n)
    BY <1>1, <1>5
  <1>7. Len(q) \in Nat /\ DOMAIN q = 1 .. Len(q)
    BY <1>5, LenProperties
  <1>8. \A j \in 1 .. Len(q) : f[j] \in D /\ f[j] \in 1 .. n /\ q[j] = f[j] - 1
    BY <1>1, <1>6 DEF Enumerates
  <1>9. Elements(q) = S
    <2>1. ASSUME NEW s \in S PROVE \E j \in 1 .. Len(q) : q[j] = s
      <3>1. s + 1 \in D \cap 1 .. n /\ s \in Int
        BY <1>2, <1>3
      <3>2. PICK j \in 1 .. Len(q) : f[j] = s + 1
        BY <1>6, <3>1 DEF Enumerates
      <3>3. q[j] = f[j] - 1
        BY <1>8
      <3> QED
        BY <3>1, <3>2, <3>3
    <2>2. \A j \in 1 .. Len(q) : q[j] \in S
      BY <1>4, <1>8
    <2> QED
      BY <1>7, <2>1, <2>2 DEF Elements
  <1>10. NoDuplicates(q)
    <2>1. ASSUME NEW i \in 1 .. Len(q), NEW j \in 1 .. Len(q), q[i] = q[j] PROVE i = j
      <3>1. f[i] = f[j] /\ f[i] \in Int /\ f[j] \in Int
        BY <1>8, <2>1
      <3>2. ~(i < j) /\ ~(j < i)
        BY <1>6, <3>1 DEF Enumerates
      <3> QED
        BY <1>7, <3>2
    <2> QED
      BY <1>7, <2>1 DEF NoDuplicates
  <1> QED
    BY <1>5, <1>9, <1>10 DEF Lists, Ascending, q, rows, D

(* Such a list is as long as the set is large. *)
LEMMA ListLength ==
    ASSUME NEW q, NEW S, Lists(q, S)
    PROVE  Len(q) \in Nat /\ IsFiniteSet(S) /\ Cardinality(S) = Len(q)
  <1>1. Len(q) \in Nat /\ q \in [1 .. Len(q) -> Int] /\ DOMAIN q = 1 .. Len(q)
    BY LenProperties DEF Lists
  <1>2. \A i \in 1 .. Len(q) : q[i] \in S
    BY <1>1 DEF Lists, Elements
  <1>3. \A s \in S : \E i \in 1 .. Len(q) : q[i] = s
    BY <1>1 DEF Lists, Elements
  <1>4. \A i, j \in 1 .. Len(q) : q[i] = q[j] => i = j
    BY <1>1 DEF Lists, NoDuplicates
  <1>5. q \in [1 .. Len(q) -> S]
    BY <1>1, <1>2
  <1>6. q \in Bijection(1 .. Len(q), S)
    BY <1>1, <1>3, <1>4, <1>5 DEF Bijection, Injection, Surjection, IsInjective
  <1>7. ExistsBijection(1 .. Len(q), S)
    BY <1>6 DEF ExistsBijection
  <1> QED
    BY <1>1, <1>7, FS_CountingElements, FS_NatBijection

(* A list is empty when the set is. *)
LEMMA ListEmpty ==
    ASSUME NEW q, NEW S, Lists(q, S)
    PROVE  q = <<>> <=> S = {}
  <1>1. Len(q) \in Nat /\ q \in Seq(Int) /\ DOMAIN q = 1 .. Len(q)
    BY LenProperties DEF Lists
  <1>2. q = <<>> <=> Len(q) = 0
    BY <1>1, EmptySeq
  <1>3. S = {q[i] : i \in 1 .. Len(q)}
    BY <1>1 DEF Lists, Elements
  <1>4. Len(q) # 0 => 1 \in 1 .. Len(q)
    BY <1>1
  <1>5. Len(q) = 0 => 1 .. Len(q) = {}
    OBVIOUS
  <1> QED
    BY <1>2, <1>3, <1>4, <1>5

LEMMA FromTestShares ==
    ASSUME NEW n \in Nat, NEW T \in SUBSET Rows(n), T # {}, T # Rows(n),
           NEW test, Lists(test, T)
    PROVE  SharesOut(FromTest(n, test), n)
  <1> DEFINE U == Rows(n) \ Range(test)
             train == Ascending(n, U)
  <1>1. Range(test) = T
    BY DEF Lists, Elements, Range
  <1>2. U \in SUBSET Rows(n) /\ U # {} /\ U \cap T = {} /\ U \cup T = Rows(n)
    BY <1>1
  <1>3. Lists(train, U)
    BY <1>2, AscendingLists
  <1> HIDE DEF U, train
  <1>4. train # <<>> /\ test # <<>>
    BY <1>2, <1>3, ListEmpty
  <1>5. FromTest(n, test) = [train |-> train, test |-> test]
    BY DEF FromTest, train, U
  <1> QED
    BY <1>2, <1>3, <1>4, <1>5 DEF SharesOut, Lists, Fold

LEMMA FromTrainShares ==
    ASSUME NEW n \in Nat, NEW T \in SUBSET Rows(n), T # {}, T # Rows(n),
           NEW train, Lists(train, T)
    PROVE  SharesOut(FromTrain(n, train), n)
  <1> DEFINE U == Rows(n) \ Range(train)
             test == Ascending(n, U)
  <1>1. Range(train) = T
    BY DEF Lists, Elements, Range
  <1>2. U \in SUBSET Rows(n) /\ U # {} /\ U \cap T = {} /\ U \cup T = Rows(n)
    BY <1>1
  <1>3. Lists(test, U)
    BY <1>2, AscendingLists
  <1> HIDE DEF U, test
  <1>4. train # <<>> /\ test # <<>>
    BY <1>2, <1>3, ListEmpty
  <1>5. FromTrain(n, train) = [train |-> train, test |-> test]
    BY DEF FromTrain, test, U
  <1> QED
    BY <1>2, <1>3, <1>4, <1>5 DEF SharesOut, Lists, Fold

-----------------------------------------------------------------------------
LEMMA DivMod ==
    ASSUME NEW n \in Nat, NEW k \in Nat, k > 0
    PROVE  /\ n \div k \in Nat /\ n % k \in 0 .. k - 1
           /\ n = (k * (n \div k)) + (n % k)
  OBVIOUS

(* The quotient and the remainder of a number are the only ones. *)
LEMMA DivModUnique ==
    ASSUME NEW k \in Nat, k > 0, NEW q \in Nat, NEW r \in 0 .. k - 1
    PROVE  ((k * q) + r) \div k = q /\ ((k * q) + r) % k = r
  OBVIOUS

(***************************************************************************)
(* The cuts of the k-fold loop.                                            *)
(***************************************************************************)
FoldCounts(n, k) == n \in Nat /\ k \in Nat /\ KFoldArguments(n, k)

LEMMA FoldSizes ==
    ASSUME NEW n, NEW k, FoldCounts(n, k)
    PROVE  \A f \in Int : /\ FoldSize(n, k, f) \in n \div k .. (n \div k) + 1
                          /\ FoldSize(n, k, f) \in Nat /\ FoldSize(n, k, f) > 0
  <1>1. n \div k \in Nat /\ n \div k > 0
    BY DEF FoldCounts, KFoldArguments
  <1> QED
    BY <1>1 DEF FoldSize

\* LoopRuns as one formula.
LEMMA EveryLoopRuns ==
    \A V : \A b \in V : \A L \in Nat : \A step \in [1 .. L -> [V -> V]] :
       \E g \in [0 .. L -> V] : g[0] = b /\ \A n \in 1 .. L : g[n] = step[n][g[n - 1]]
  BY LoopRuns

(* A loop that starts from 0 and computes integers has a run.              *)
LEMMA SumRuns ==
    \A L \in Nat : \A step \in [1 .. L -> [Int -> Int]] :
       \E g \in [0 .. L -> Int] : g[0] = 0 /\ \A n \in 1 .. L : g[n] = step[n][g[n - 1]]
  <1> DEFINE V == Int
  <1>1. 0 \in V
    OBVIOUS
  <1> HIDE DEF V
  <1>2. ASSUME NEW L \in Nat, NEW b \in V, NEW step \in [1 .. L -> [V -> V]]
        PROVE  \E g \in [0 .. L -> V] : g[0] = b /\ \A n \in 1 .. L : g[n] = step[n][g[n - 1]]
    BY LoopRuns
  <1>3. \A L \in Nat : \A step \in [1 .. L -> [V -> V]] :
           \E g \in [0 .. L -> V] : g[0] = 0 /\ \A n \in 1 .. L : g[n] = step[n][g[n - 1]]
    BY <1>1, <1>2
  <1> QED
    BY <1>3 DEF V

LEMMA StartsRun ==
    ASSUME NEW n, NEW k, FoldCounts(n, k)
    PROVE  LET start == Starts(n, k)
           IN /\ start \in [0 .. k -> Int] /\ start[0] = 0
              /\ \A f \in 1 .. k : start[f] = start[f - 1] + FoldSize(n, k, f - 1)
  <1> DEFINE Body(s) == [f \in 0 .. k |-> IF f = 0 THEN 0 ELSE s[f - 1] + FoldSize(n, k, f - 1)]
             step == [f \in 1 .. k |-> [x \in Int |-> x + FoldSize(n, k, f - 1)]]
             start == CHOOSE s : s = Body(s)
  <1>0. k \in Nat
    BY DEF FoldCounts
  <1>1. step \in [1 .. k -> [Int -> Int]]
    <2>1. \A f \in 1 .. k : FoldSize(n, k, f - 1) \in Int
      BY FoldSizes
    <2> QED
      BY <2>1
  <1>2. PICK g \in [0 .. k -> Int] : g[0] = 0 /\ \A f \in 1 .. k : g[f] = step[f][g[f - 1]]
    <2> HIDE DEF step
    <2> QED
      BY <1>0, <1>1, SumRuns
  <1>3. g = Body(g)
    <2>1. ASSUME NEW f \in 0 .. k PROVE g[f] = Body(g)[f]
      <3>1. CASE f = 0
        BY <1>2, <3>1
      <3>2. CASE f # 0
        <4>1. f \in 1 .. k /\ f - 1 \in 0 .. k
          BY <1>0, <3>2
        <4>2. g[f - 1] \in Int
          BY <4>1
        <4> QED
          BY <1>2, <3>2, <4>1, <4>2
      <3> QED
        BY <3>1, <3>2
    <2>2. g = [f \in 0 .. k |-> g[f]]
      OBVIOUS
    <2> QED
      BY <2>1, <2>2
  <1>4. start = Body(start)
    <2> HIDE DEF Body
    <2> QED
      BY <1>3
  <1>5. Starts(n, k) = start
    BY DEF Starts
  <1> HIDE DEF start
  <1>6. start[0] = 0 /\ \A f \in 1 .. k : start[f] = start[f - 1] + FoldSize(n, k, f - 1)
    <2>1. \A f \in 0 .. k : start[f] = Body(start)[f]
      BY <1>4
    <2>2. 0 \in 0 .. k /\ \A f \in 1 .. k : f \in 0 .. k /\ f # 0
      BY <1>0
    <2> QED
      BY <2>1, <2>2
  <1>7. start \in [0 .. k -> Int]
    <2> DEFINE S == {f \in Nat : f <= k => start[f] \in Int}
    <2>1. 0 \in S
      BY <1>6
    <2>2. ASSUME NEW f \in Nat, f \in S PROVE f + 1 \in S
      <3> SUFFICES ASSUME f + 1 <= k PROVE start[f + 1] \in Int
        OBVIOUS
      <3>1. f + 1 \in 1 .. k /\ (f + 1) - 1 = f /\ start[f] \in Int
        BY <1>0, <2>2
      <3>2. start[f + 1] = start[f] + FoldSize(n, k, f)
        BY <1>6, <3>1
      <3>3. FoldSize(n, k, f) \in Nat
        BY FoldSizes
      <3> QED
        BY <3>1, <3>2, <3>3
    <2>3. \A f \in 0 .. k : start[f] \in Int
      <3> HIDE DEF S
      <3>1. Nat \subseteq S
        BY <2>1, <2>2, SetInduction
      <3> QED
        BY <3>1, <1>0 DEF S
    <2>4. start = [f \in 0 .. k |-> start[f]]
      BY <1>4
    <2> QED
      BY <2>3, <2>4
  <1> QED
    BY <1>5, <1>6, <1>7

(* The loop starts at the first sample, never goes back and stops at the    *)
(* last one.                                                               *)
LEMMA StartsCut ==
    ASSUME NEW n, NEW k, FoldCounts(n, k)
    PROVE  LET start == Starts(n, k)
           IN /\ start \in [0 .. k -> 0 .. n] /\ start[0] = 0 /\ start[k] = n
              /\ \A f \in 1 .. k : /\ start[f] = start[f - 1] + FoldSize(n, k, f - 1)
                                   /\ start[f - 1] < start[f]
              /\ \A f, g \in 0 .. k : f <= g => start[f] <= start[g]
  <1> DEFINE start == Starts(n, k)
             base == n \div k
             rem == n % k
  <1>0. k \in Nat /\ n \in Nat /\ k > 0
    BY DEF FoldCounts, KFoldArguments
  <1>1. /\ start \in [0 .. k -> Int] /\ start[0] = 0
        /\ \A f \in 1 .. k : start[f] = start[f - 1] + FoldSize(n, k, f - 1)
    BY StartsRun
  <1>2. base \in Nat /\ rem \in 0 .. k - 1 /\ n = (k * base) + rem
    BY <1>0, DivMod
  <1>3. \A f \in Int : FoldSize(n, k, f) = base + (IF f < rem THEN 1 ELSE 0)
    BY DEF FoldSize
  <1>4. \A f \in 1 .. k : start[f - 1] < start[f]
    <2> TAKE f \in 1 .. k
    <2>1. f - 1 \in 0 .. k /\ f \in 0 .. k /\ f - 1 \in Int
      BY <1>0
    <2>2. FoldSize(n, k, f - 1) \in Nat /\ FoldSize(n, k, f - 1) > 0
      BY <2>1, FoldSizes
    <2>3. start[f] = start[f - 1] + FoldSize(n, k, f - 1) /\ start[f - 1] \in Int
      BY <1>1, <2>1
    <2> QED
      BY <2>2, <2>3
  <1> HIDE DEF start, base, rem
  <1>5. \A f \in 0 .. k : start[f] = (f * base) + (IF f < rem THEN f ELSE rem)
    <2> DEFINE S == {f \in Nat : f <= k => start[f] = (f * base) + (IF f < rem THEN f ELSE rem)}
    <2>1. 0 \in S
      BY <1>1, <1>2
    <2>2. ASSUME NEW f \in Nat, f \in S PROVE f + 1 \in S
      <3> SUFFICES ASSUME f + 1 <= k
                   PROVE start[f + 1] = ((f + 1) * base) + (IF f + 1 < rem THEN f + 1 ELSE rem)
        OBVIOUS
      <3>1. f + 1 \in 1 .. k /\ (f + 1) - 1 = f /\ f \in Int
        BY <1>0
      <3>2. start[f] = (f * base) + (IF f < rem THEN f ELSE rem)
        BY <2>2, <1>0
      <3>3. start[f + 1] = start[f] + base + (IF f < rem THEN 1 ELSE 0)
        <4>1. start[f + 1] = start[f] + FoldSize(n, k, f)
          BY <1>1, <3>1
        <4>2. start[f] \in Int
          BY <1>0, <1>1, <3>1
        <4> QED
          BY <1>2, <1>3, <3>1, <4>1, <4>2
      <3>4. (f + 1) * base = (f * base) + base
        BY <1>2
      <3>5. rem \in Int /\ base \in Int /\ f * base \in Int
        BY <1>2
      <3> QED
        BY <3>2, <3>3, <3>4, <3>5
    <2>3. Nat \subseteq S
      <3> HIDE DEF S
      <3> QED
        BY <2>1, <2>2, SetInduction
    <2> QED
      BY <2>3, <1>0
  <1>6. start[k] = n
    BY <1>0, <1>2, <1>5
  <1>7. \A f, g \in 0 .. k : f <= g => start[f] <= start[g]
    <2> SUFFICES ASSUME NEW f \in 0 .. k PROVE \A g \in 0 .. k : f <= g => start[f] <= start[g]
      OBVIOUS
    <2> DEFINE S == {d \in Nat : f + d <= k => start[f] <= start[f + d]}
    <2>0. \A g \in 0 .. k : start[g] \in Int
      BY <1>1
    <2>1. 0 \in S
      BY <2>0
    <2>2. ASSUME NEW d \in Nat, d \in S PROVE d + 1 \in S
      <3> SUFFICES ASSUME f + (d + 1) <= k PROVE start[f] <= start[f + (d + 1)]
        OBVIOUS
      <3>1. f + (d + 1) \in 1 .. k /\ (f + (d + 1)) - 1 = f + d /\ f + d \in 0 .. k
            /\ f + (d + 1) \in 0 .. k
        BY <1>0
      <3>2. start[f] <= start[f + d] /\ start[f + d] < start[f + (d + 1)]
        BY <1>0, <1>4, <2>2, <3>1
      <3> QED
        BY <2>0, <3>1, <3>2
    <2>3. Nat \subseteq S
      <3> HIDE DEF S
      <3> QED
        BY <2>1, <2>2, SetInduction
    <2>4. ASSUME NEW g \in 0 .. k, f <= g PROVE start[f] <= start[g]
      <3>1. g - f \in Nat /\ f + (g - f) = g /\ g <= k
        BY <1>0, <2>4
      <3>2. g - f \in S
        BY <2>3, <3>1
      <3> QED
        BY <3>1, <3>2
    <2> QED
      BY <2>4
  <1>8. start \in [0 .. k -> 0 .. n]
    <2>1. ASSUME NEW f \in 0 .. k PROVE start[f] \in 0 .. n
      <3>1. 0 \in 0 .. k /\ k \in 0 .. k /\ 0 <= f /\ f <= k /\ start[f] \in Int
        BY <1>0, <1>1
      <3>2. start[0] <= start[f] /\ start[f] <= start[k]
        BY <1>7, <3>1
      <3> QED
        BY <1>0, <1>1, <1>6, <3>1, <3>2
    <2> QED
      BY <1>1, <2>1
  <1> QED
    BY <1>1, <1>4, <1>6, <1>7, <1>8 DEF start

(* Every sample lies between two consecutive cuts, and only those.         *)
LEMMA OneRun ==
    ASSUME NEW n, NEW k, FoldCounts(n, k), NEW s \in Rows(n)
    PROVE  LET start == Starts(n, k)
           IN \E f \in 1 .. k : /\ start[f - 1] <= s /\ s < start[f]
                                /\ \A g \in 1 .. k : start[g - 1] <= s /\ s < start[g] => g = f
  <1> DEFINE start == Starts(n, k)
             S == {f \in 0 .. k : start[f] <= s}
  <1>0. k \in Nat /\ n \in Nat /\ k > 0 /\ s \in Nat /\ s < n
    BY DEF FoldCounts, KFoldArguments, Rows
  <1>1. /\ start \in [0 .. k -> 0 .. n] /\ start[0] = 0 /\ start[k] = n
        /\ \A f, g \in 0 .. k : f <= g => start[f] <= start[g]
    BY StartsCut
  <1> HIDE DEF start
  <1>2. \A f \in 0 .. k : start[f] \in Int
    BY <1>1
  <1>3. PICK m \in S : \A x \in S : x <= m
    <2>1. S \in SUBSET (0 .. k) /\ 0 \in S
      BY <1>0, <1>1
    <2> HIDE DEF S
    <2> QED
      BY <1>0, <2>1, GreatestElement
  <1>4. m \in 0 .. k /\ m # k /\ start[m] <= s
    BY <1>0, <1>1, <1>3
  <1>5. m + 1 \in 1 .. k /\ m + 1 \in 0 .. k /\ (m + 1) - 1 = m
    BY <1>0, <1>4
  <1>6. s < start[m + 1]
    <2>1. m + 1 \notin S
      BY <1>3, <1>4, <1>5
    <2> QED
      BY <1>0, <1>2, <1>5, <2>1
  <1>7. ASSUME NEW g \in 1 .. k, start[g - 1] <= s, s < start[g] PROVE g = m + 1
    <2>1. g \in 0 .. k /\ g - 1 \in 0 .. k /\ g - 1 \in Int /\ g \in Int
      BY <1>0
    <2>2. ~(g <= m)
      <3> SUFFICES ASSUME g <= m PROVE FALSE
        OBVIOUS
      <3>1. start[g] <= start[m]
        BY <1>1, <1>4, <2>1
      <3>2. start[g] \in Int /\ start[m] \in Int
        BY <1>2, <1>4, <2>1
      <3> QED
        BY <1>0, <1>4, <1>7, <3>1, <3>2
    <2>3. ~(m + 1 <= g - 1)
      <3> SUFFICES ASSUME m + 1 <= g - 1 PROVE FALSE
        OBVIOUS
      <3>1. start[m + 1] <= start[g - 1]
        BY <1>1, <1>5, <2>1
      <3>2. start[m + 1] \in Int /\ start[g - 1] \in Int
        BY <1>2, <1>5, <2>1
      <3> QED
        BY <1>0, <1>6, <1>7, <3>1, <3>2
    <2> QED
      BY <1>4, <2>1, <2>2, <2>3
  <1> QED
    BY <1>4, <1>5, <1>6, <1>7 DEF start

-----------------------------------------------------------------------------
(***************************************************************************)
(* The folds of each generator.                                            *)
(***************************************************************************)
LEMMA IntervalShares ==
    ASSUME NEW n \in Nat, NEW a \in 0 .. n, NEW b \in 0 .. n, a < b, a # 0 \/ b # n
    PROVE  /\ SharesOut(Interval(n, a, b), n)
           /\ Elements(Interval(n, a, b).test) = {s \in Rows(n) : a <= s /\ s < b}
           /\ Len(Interval(n, a, b).test) = b - a
  <1> DEFINE T == {s \in Rows(n) : a <= s /\ s < b}
             test == Ascending(n, T)
  <1>1. T = a .. b - 1
    BY DEF Rows
  <1>2. T \in SUBSET Rows(n) /\ T # {} /\ T # Rows(n)
    <2>1. a \in T
      BY DEF Rows
    <2>2. 0 \in Rows(n) /\ n - 1 \in Rows(n)
      BY DEF Rows
    <2>3. 0 \notin T \/ n - 1 \notin T
      OBVIOUS
    <2> QED
      BY <2>1, <2>2, <2>3
  <1>3. Interval(n, a, b) = FromTest(n, test) /\ FromTest(n, test).test = test
    BY DEF Interval, FromTest
  <1> HIDE DEF T
  <1>4. Lists(test, T)
    BY <1>2, AscendingLists
  <1> HIDE DEF test
  <1>5. SharesOut(FromTest(n, test), n)
    BY <1>2, <1>4, FromTestShares
  <1>6. Len(test) = b - a
    <2>1. Cardinality(a .. b - 1) = IF a > b - 1 THEN 0 ELSE (b - 1) - a + 1
      BY FS_Interval
    <2>2. Cardinality(T) = Len(test)
      BY <1>4, ListLength
    <2> QED
      BY <1>1, <2>1, <2>2
  <1> QED
    BY <1>3, <1>4, <1>5, <1>6 DEF Lists, T

LEMMA ShuffleBijects ==
    ASSUME NEW n \in Nat, NEW p \in Shuffles(n)
    PROVE  /\ p \in Seq(Int) /\ Len(p) = n
           /\ \A i \in 1 .. n : p[i] \in Rows(n)
           /\ \A s \in Rows(n) : \E i \in 1 .. n : p[i] = s
           /\ \A i, j \in 1 .. n : p[i] = p[j] => i = j
  <1>1. p \in [1 .. n -> Rows(n)] /\ \A s \in Rows(n) : \E i \in 1 .. n : p[i] = s
    BY DEF Shuffles, Range
  <1>2. p \in Surjection(1 .. n, Rows(n))
    BY <1>1 DEF Surjection
  <1>3. IsFiniteSet(1 .. n) /\ Cardinality(1 .. n) = Cardinality(Rows(n))
    <2>1. IsFiniteSet(1 .. n) /\ Cardinality(1 .. n) = IF 1 > n THEN 0 ELSE n - 1 + 1
      BY FS_Interval
    <2>2. Cardinality(0 .. n - 1) = IF 0 > n - 1 THEN 0 ELSE (n - 1) - 0 + 1
      BY FS_Interval
    <2> QED
      BY <2>1, <2>2 DEF Rows
  <1>4. p \in Injection(1 .. n, Rows(n))
    BY <1>2, <1>3, FS_SurjSameCardinalityImpliesInj
  <1>5. p \in Seq(Int) /\ Len(p) = n
    <2>1. p \in [1 .. n -> Int]
      BY <1>1 DEF Rows
    <2> QED
      BY <2>1, SeqDef
  <1> QED
    BY <1>1, <1>4, <1>5 DEF Injection, IsInjective

LEMMA RunShares ==
    ASSUME NEW n \in Nat, NEW p \in Shuffles(n),
           NEW lo \in 1 .. n, NEW hi \in 1 .. n, lo <= hi, lo # 1 \/ hi # n
    PROVE  LET test == SubSeq(p, lo, hi)
           IN /\ SharesOut(FromTest(n, test), n)
              /\ Elements(test) = {p[i] : i \in lo .. hi}
              /\ Len(test) = hi - lo + 1
  <1> DEFINE test == SubSeq(p, lo, hi)
             T == {p[i] : i \in lo .. hi}
             L == hi - lo + 1
  <1>1. /\ p \in Seq(Int) /\ Len(p) = n
        /\ \A i \in 1 .. n : p[i] \in Rows(n)
        /\ \A i, j \in 1 .. n : p[i] = p[j] => i = j
    BY ShuffleBijects
  <1>2. L \in Nat /\ \A i \in 1 .. L : lo + i - 1 \in lo .. hi /\ lo + i - 1 \in 1 .. n
    OBVIOUS
  <1>3. \A i \in lo .. hi : i \in 1 .. n /\ i - lo + 1 \in 1 .. L /\ lo + (i - lo + 1) - 1 = i
    OBVIOUS
  <1>4. /\ test \in Seq(Int) /\ Len(test) = L
        /\ \A i \in 1 .. L : test[i] = p[lo + i - 1]
    <2>1. \A i \in lo .. hi : p[i] \in Int
      BY <1>1, <1>3 DEF Rows
    <2> QED
      BY <1>1, <2>1, SubSeqProperties
  <1>5. DOMAIN test = 1 .. L
    BY <1>4, LenProperties
  <1> HIDE DEF test, L
  <1>6. Elements(test) = T
    <2>1. \A i \in 1 .. L : test[i] \in T
      BY <1>2, <1>4
    <2>2. \A i \in lo .. hi : \E j \in 1 .. L : test[j] = p[i]
      <3> TAKE i \in lo .. hi
      <3>1. i - lo + 1 \in 1 .. L /\ lo + (i - lo + 1) - 1 = i
        BY <1>3
      <3>2. test[i - lo + 1] = p[i]
        BY <1>4, <3>1
      <3> QED
        BY <3>1, <3>2
    <2> QED
      BY <1>5, <2>1, <2>2 DEF Elements
  <1>7. NoDuplicates(test)
    <2>1. ASSUME NEW i \in 1 .. L, NEW j \in 1 .. L, test[i] = test[j] PROVE i = j
      <3>1. p[lo + i - 1] = p[lo + j - 1] /\ lo + i - 1 \in 1 .. n /\ lo + j - 1 \in 1 .. n
        BY <1>2, <1>4, <2>1
      <3>2. lo + i - 1 = lo + j - 1
        BY <1>1, <3>1
      <3> QED
        BY <1>2, <3>2
    <2> QED
      BY <1>5, <2>1 DEF NoDuplicates
  <1>8. T \in SUBSET Rows(n) /\ T # {} /\ T # Rows(n)
    <2>1. T \in SUBSET Rows(n)
      BY <1>1, <1>3
    <2>2. p[lo] \in T
      OBVIOUS
    <2>3. 1 \in 1 .. n /\ n \in 1 .. n
      OBVIOUS
    <2>4. p[1] \notin T \/ p[n] \notin T
      <3>1. CASE lo # 1
        <4>1. \A i \in lo .. hi : i # 1 /\ i \in 1 .. n
          BY <3>1
        <4> QED
          BY <1>1, <2>3, <4>1
      <3>2. CASE hi # n
        <4>1. \A i \in lo .. hi : i # n /\ i \in 1 .. n
          BY <3>2
        <4> QED
          BY <1>1, <2>3, <4>1
      <3> QED
        BY <3>1, <3>2
    <2>5. p[1] \in Rows(n) /\ p[n] \in Rows(n)
      BY <1>1, <2>3
    <2> QED
      BY <2>1, <2>2, <2>4, <2>5
  <1>9. Lists(test, T)
    BY <1>4, <1>6, <1>7 DEF Lists
  <1> HIDE DEF T
  <1>10. SharesOut(FromTest(n, test), n)
    BY <1>8, <1>9, FromTestShares
  <1> QED
    BY <1>4, <1>6, <1>10 DEF test, T, L

(* What every generator promises of every fold it writes.                  *)
AllShare(folds, n, m) ==
    /\ folds \in Seq(Fold) /\ Len(folds) = m /\ DOMAIN folds = 1 .. m
    /\ m \in Nat /\ m > 0
    /\ \A i \in 1 .. m : SharesOut(folds[i], n)

LEMMA VectorShares ==
    ASSUME NEW n, NEW m \in Nat, m > 0, NEW q, q = [i \in 1 .. m |-> q[i]],
           \A i \in 1 .. m : SharesOut(q[i], n)
    PROVE  AllShare(q, n, m)
  <1>1. q \in [1 .. m -> Fold]
    BY DEF SharesOut
  <1>2. q \in Seq(Fold) /\ Len(q) = m /\ DOMAIN q = 1 .. m
    BY <1>1, SeqDef
  <1> QED
    BY <1>2 DEF AllShare

LEMMA KFoldFolds ==
    ASSUME NEW n, NEW k, FoldCounts(n, k)
    PROVE  LET start == Starts(n, k)
               q == KFold(n, k)
           IN /\ AllShare(q, n, k)
              /\ \A f \in 1 .. k :
                    /\ Elements(q[f].test) = {s \in Rows(n) : start[f - 1] <= s /\ s < start[f]}
                    /\ Len(q[f].test) = FoldSize(n, k, f - 1)
  <1> DEFINE start == Starts(n, k)
             q == KFold(n, k)
  <1>0. n \in Nat /\ k \in Nat /\ k >= 2
    BY DEF FoldCounts, KFoldArguments
  <1>1. /\ start \in [0 .. k -> 0 .. n] /\ start[0] = 0 /\ start[k] = n
        /\ \A f \in 1 .. k : /\ start[f] = start[f - 1] + FoldSize(n, k, f - 1)
                             /\ start[f - 1] < start[f]
    BY StartsCut
  <1>2. q = [f \in 1 .. k |-> Interval(n, start[f - 1], start[f])]
    BY DEF KFold
  <1> HIDE DEF start, q
  <1>3. ASSUME NEW f \in 1 .. k
        PROVE  /\ SharesOut(q[f], n)
               /\ Elements(q[f].test) = {s \in Rows(n) : start[f - 1] <= s /\ s < start[f]}
               /\ Len(q[f].test) = FoldSize(n, k, f - 1)
    <2> DEFINE a == start[f - 1]
               b == start[f]
    <2>1. f - 1 \in 0 .. k /\ f \in 0 .. k /\ f - 1 \in Int
      BY <1>0
    <2>2. a \in 0 .. n /\ b \in 0 .. n /\ a < b
      BY <1>1, <2>1
    <2>3. a # 0 \/ b # n
      <3>1. CASE f = 1
        <4>1. 2 \in 1 .. k /\ k \in 0 .. k
          BY <1>0
        <4>2. b < start[2] /\ start[2] \in 0 .. n
          <5>1. 2 \in 0 .. k /\ 2 - 1 = 1
            BY <1>0
          <5> QED
            BY <1>1, <3>1, <4>1, <5>1
        <4> QED
          BY <1>0, <2>2, <4>2
      <3>2. CASE f # 1
        <4>1. f - 1 \in 1 .. k /\ (f - 1) - 1 \in 0 .. k
          BY <1>0, <3>2
        <4>2. start[(f - 1) - 1] < a /\ start[(f - 1) - 1] \in 0 .. n
          BY <1>1, <4>1
        <4> QED
          BY <1>0, <2>2, <4>2
      <3> QED
        BY <3>1, <3>2
    <2>4. q[f] = Interval(n, a, b)
      BY <1>2
    <2>5. b - a = FoldSize(n, k, f - 1)
      <3>1. FoldSize(n, k, f - 1) \in Nat
        BY <2>1, FoldSizes
      <3>2. b = a + FoldSize(n, k, f - 1)
        BY <1>1
      <3> QED
        BY <2>2, <3>1, <3>2
    <2> HIDE DEF a, b
    <2>6. /\ SharesOut(Interval(n, a, b), n)
          /\ Elements(Interval(n, a, b).test) = {s \in Rows(n) : a <= s /\ s < b}
          /\ Len(Interval(n, a, b).test) = b - a
      BY <1>0, <2>2, <2>3, IntervalShares
    <2> QED
      BY <2>4, <2>5, <2>6 DEF a, b
  <1>4. q = [f \in 1 .. k |-> q[f]]
    BY <1>2
  <1>5. AllShare(q, n, k)
    BY <1>0, <1>3, <1>4, VectorShares
  <1> QED
    BY <1>3, <1>5 DEF start, q

LEMMA HoldoutFolds ==
    ASSUME NEW n \in Int, NEW start \in Int, NEW count \in Int, HoldoutArguments(n, start, count)
    PROVE  AllShare(Holdout(n, start, count), n, 1)
  <1> DEFINE q == Holdout(n, start, count)
             a == start
             b == start + count
  <1>1. n \in Nat /\ a \in 0 .. n /\ b \in 0 .. n /\ a < b /\ (a # 0 \/ b # n)
    BY DEF HoldoutArguments
  <1>2. q = <<Interval(n, a, b)>>
    BY DEF Holdout
  <1> HIDE DEF a, b
  <1>3. SharesOut(Interval(n, a, b), n)
    BY <1>1, IntervalShares
  <1> HIDE DEF q
  <1>4. q = [i \in 1 .. 1 |-> q[i]] /\ \A i \in 1 .. 1 : q[i] = Interval(n, a, b)
    BY <1>2
  <1>5. \A i \in 1 .. 1 : SharesOut(q[i], n)
    BY <1>3, <1>4
  <1>6. 1 \in Nat /\ 1 > 0
    OBVIOUS
  <1>7. AllShare(q, n, 1)
    BY <1>4, <1>5, <1>6, VectorShares
  <1> QED
    BY <1>7 DEF q

LEMMA ExternalFoldsShare ==
    ASSUME NEW n \in Int, NEW k \in Int, NEW ids, ExternalArguments(n, ids, k)
    PROVE  /\ AllShare(ExternalFolds(n, ids, k), n, k)
           /\ \A f \in 1 .. k : Elements(ExternalFolds(n, ids, k)[f].test)
                                  = {s \in Rows(n) : ids[s] = f - 1}
  <1> DEFINE q == ExternalFolds(n, ids, k)
             T(f) == {s \in Rows(n) : ids[s] = f - 1}
  <1>0. n \in Nat /\ k \in Nat /\ k >= 2
    BY DEF ExternalArguments, KFoldArguments
  <1>1. q = [f \in 1 .. k |-> FromTest(n, Ascending(n, T(f)))]
    BY DEF ExternalFolds
  <1>2. ASSUME NEW f \in 1 .. k PROVE SharesOut(q[f], n) /\ Elements(q[f].test) = T(f)
    <2>1. f - 1 \in 0 .. k - 1
      BY <1>0
    <2>2. T(f) \in SUBSET Rows(n) /\ T(f) # {} /\ T(f) # Rows(n)
      BY <2>1 DEF ExternalArguments
    <2> DEFINE S == T(f)
               test == Ascending(n, S)
    <2>3. q[f] = FromTest(n, test)
      BY <1>1
    <2>4. FromTest(n, test).test = test
      BY DEF FromTest
    <2> HIDE DEF S, T, q
    <2>5. S \in SUBSET Rows(n) /\ S # {} /\ S # Rows(n)
      BY <2>2 DEF S
    <2>6. Lists(test, S)
      BY <1>0, <2>5, AscendingLists
    <2> HIDE DEF test
    <2>7. SharesOut(FromTest(n, test), n)
      BY <1>0, <2>5, <2>6, FromTestShares
    <2> QED
      BY <2>3, <2>4, <2>6, <2>7 DEF S, Lists
  <1>3. q = [f \in 1 .. k |-> q[f]]
    BY <1>1
  <1> HIDE DEF q
  <1>4. AllShare(q, n, k)
    BY <1>0, <1>2, <1>3, VectorShares
  <1> QED
    BY <1>2, <1>4 DEF q

(* Fold i of a repeated k-fold plan tests a run of the arrangement of its   *)
(* repeat.                                                                 *)
TestsRun(test, i, n, k, r, perms) ==
    LET start == Starts(n, k)
        p == perms[((i - 1) \div k) + 1]
        f == (i - 1) % k
    IN /\ (i - 1) \div k \in 0 .. r - 1 /\ f \in 0 .. k - 1
       /\ Elements(test) = {p[j] : j \in start[f] + 1 .. start[f + 1]}
       /\ Len(test) = FoldSize(n, k, f)

LEMMA RepeatedFolds ==
    ASSUME NEW n, NEW k, FoldCounts(n, k), NEW r \in Nat, r > 0,
           NEW perms \in [1 .. r -> Shuffles(n)]
    PROVE  LET q == RepeatedKFold(n, k, perms)
           IN /\ AllShare(q, n, k * r)
              /\ \A i \in 1 .. k * r : TestsRun(q[i].test, i, n, k, r, perms)
  <1> DEFINE start == Starts(n, k)
             q == RepeatedKFold(n, k, perms)
  <1>0. n \in Nat /\ k \in Nat /\ k >= 2
    BY DEF FoldCounts, KFoldArguments
  <1>1. /\ start \in [0 .. k -> 0 .. n] /\ start[0] = 0 /\ start[k] = n
        /\ \A f \in 1 .. k : /\ start[f] = start[f - 1] + FoldSize(n, k, f - 1)
                             /\ start[f - 1] < start[f]
    BY StartsCut
  <1>2. Len(perms) = r
    <2>1. perms \in Seq(Shuffles(n))
      BY SeqDef
    <2> QED
      BY <2>1, LenProperties
  <1>3. q = [i \in 1 .. k * r |->
               FromTest(n, SubSeq(perms[((i - 1) \div k) + 1],
                                  start[(i - 1) % k] + 1, start[((i - 1) % k) + 1]))]
    BY <1>2 DEF RepeatedKFold
  <1> HIDE DEF start, q
  <1>4. k * r \in Nat /\ k * r > 0
    BY <1>0
  <1>5. ASSUME NEW i \in 1 .. k * r
        PROVE  SharesOut(q[i], n) /\ TestsRun(q[i].test, i, n, k, r, perms)
    <2> DEFINE t == (i - 1) \div k
               f == (i - 1) % k
               p == perms[t + 1]
               lo == start[f] + 1
               hi == start[f + 1]
               test == SubSeq(p, lo, hi)
    <2>1. t \in Nat /\ f \in 0 .. k - 1 /\ i - 1 = (k * t) + f /\ i - 1 < k * r
      <3>1. i - 1 \in Nat /\ i - 1 < k * r
        BY <1>4
      <3> QED
        BY <1>0, <3>1, DivMod
    <2>2. q[i] = FromTest(n, test)
      BY <1>3
    <2> HIDE DEF t, f
    <2>3. t \in 0 .. r - 1
      <3>1. ~(r <= t)
        <4> SUFFICES ASSUME r <= t PROVE FALSE
          OBVIOUS
        <4>1. k * r <= k * t
          BY <1>0, <2>1
        <4>2. k * r \in Int /\ k * t \in Int /\ i - 1 \in Int
          BY <1>0, <2>1
        <4> QED
          BY <2>1, <4>1, <4>2
      <3> QED
        BY <2>1, <3>1
    <2>4. p \in Shuffles(n)
      <3>1. t + 1 \in 1 .. r
        BY <2>3
      <3> QED
        BY <3>1
    <2>5. /\ f \in 0 .. k /\ f + 1 \in 1 .. k /\ f + 1 \in 0 .. k /\ (f + 1) - 1 = f
      BY <1>0, <2>1
    <2>6. start[f] \in 0 .. n /\ hi \in 0 .. n /\ start[f] < hi /\ hi = start[f] + FoldSize(n, k, f)
      BY <1>1, <2>5
    <2>7. lo \in 1 .. n /\ hi \in 1 .. n /\ lo <= hi
      BY <1>0, <2>6
    <2>8. lo # 1 \/ hi # n
      <3>1. CASE f = 0
        <4>1. 2 \in 1 .. k /\ 2 \in 0 .. k /\ 2 - 1 = 1
          BY <1>0
        <4>2. start[1] < start[2] /\ start[2] \in 0 .. n /\ hi = start[1]
          BY <1>1, <3>1, <4>1
        <4> QED
          BY <1>0, <2>6, <4>2
      <3>2. CASE f # 0
        <4>1. f \in 1 .. k /\ f - 1 \in 0 .. k
          BY <1>0, <2>5, <3>2
        <4>2. start[f - 1] < start[f] /\ start[f - 1] \in 0 .. n
          BY <1>1, <4>1
        <4> QED
          BY <1>0, <2>6, <4>2
      <3> QED
        BY <3>1, <3>2
    <2>9. FoldSize(n, k, f) \in Nat
      BY <2>1, FoldSizes
    <2>10. FromTest(n, test).test = test
      BY DEF FromTest
    <2> HIDE DEF p, lo, hi, test
    <2>11. /\ SharesOut(FromTest(n, test), n)
           /\ Elements(test) = {p[j] : j \in lo .. hi}
           /\ Len(test) = hi - lo + 1
      BY <1>0, <2>4, <2>7, <2>8, RunShares DEF test
    <2>12. hi - lo + 1 = FoldSize(n, k, f)
      BY <1>0, <2>6, <2>9 DEF lo
    <2> QED
      BY <2>1, <2>2, <2>3, <2>10, <2>11, <2>12 DEF p, lo, hi, t, f, start, TestsRun
  <1>6. q = [i \in 1 .. k * r |-> q[i]]
    BY <1>3
  <1>7. AllShare(q, n, k * r)
    <2> DEFINE m == k * r
    <2>1. m \in Nat /\ m > 0 /\ q = [i \in 1 .. m |-> q[i]] /\ \A i \in 1 .. m : SharesOut(q[i], n)
      BY <1>4, <1>5, <1>6
    <2> HIDE DEF m
    <2>2. AllShare(q, n, m)
      BY <2>1, VectorShares
    <2> QED
      BY <2>2 DEF m
  <1> QED
    BY <1>5, <1>7 DEF start, q

LEMMA MonteCarloFolds ==
    ASSUME NEW n \in Int, NEW count \in Int, NEW r \in Int, MonteCarloArguments(n, count, r),
           NEW perms \in [1 .. r -> Shuffles(n)]
    PROVE  AllShare(MonteCarlo(n, count, perms), n, r)
  <1> DEFINE q == MonteCarlo(n, count, perms)
  <1>0. n \in Nat /\ r \in Nat /\ r > 0 /\ 1 \in 1 .. n /\ count \in 1 .. n /\ 1 <= count /\ count # n
    BY DEF MonteCarloArguments
  <1>1. q = [i \in 1 .. r |-> FromTest(n, SubSeq(perms[i], 1, count))]
    BY DEF MonteCarlo
  <1> HIDE DEF q
  <1>2. ASSUME NEW i \in 1 .. r PROVE SharesOut(q[i], n)
    <2> DEFINE p == perms[i]
               lo == 1
    <2>1. p \in Shuffles(n)
      OBVIOUS
    <2>2. q[i] = FromTest(n, SubSeq(p, lo, count)) /\ lo \in 1 .. n /\ lo <= count
      BY <1>0, <1>1
    <2> HIDE DEF p, lo
    <2>3. SharesOut(FromTest(n, SubSeq(p, lo, count)), n)
      BY <1>0, <2>1, <2>2, RunShares
    <2> QED
      BY <2>2, <2>3
  <1>3. q = [i \in 1 .. r |-> q[i]]
    BY <1>1
  <1>4. AllShare(q, n, r)
    BY <1>0, <1>2, <1>3, VectorShares
  <1> QED
    BY <1>4 DEF q

-----------------------------------------------------------------------------
(***************************************************************************)
(* Greatest and least: what the scans of the representative selection find.*)
(***************************************************************************)
LEMMA GreatestOfRow ==
    ASSUME NEW N \in Nat, NEW f \in [0 .. N -> Int]
    PROVE  \E m \in 0 .. N : \A x \in 0 .. N : f[x] <= f[m]
  <1> DEFINE S == {j \in Nat : j <= N => \E m \in 0 .. j : \A x \in 0 .. j : f[x] <= f[m]}
  <1>1. 0 \in S
    <2>1. \A x \in 0 .. 0 : x = 0
      OBVIOUS
    <2>2. f[0] \in Int
      OBVIOUS
    <2> QED
      BY <2>1, <2>2
  <1>2. ASSUME NEW j \in Nat, j \in S PROVE j + 1 \in S
    <2> SUFFICES ASSUME j + 1 <= N
                 PROVE  \E m \in 0 .. j + 1 : \A x \in 0 .. j + 1 : f[x] <= f[m]
      OBVIOUS
    <2>1. PICK m \in 0 .. j : \A x \in 0 .. j : f[x] <= f[m]
      BY <1>2
    <2>2. \A x \in 0 .. j + 1 : (x = j + 1 \/ x \in 0 .. j) /\ f[x] \in Int
      OBVIOUS
    <2>3. m \in 0 .. j + 1 /\ j + 1 \in 0 .. j + 1
      OBVIOUS
    <2>4. CASE f[j + 1] <= f[m]
      BY <2>1, <2>2, <2>3, <2>4
    <2>5. CASE f[m] <= f[j + 1]
      <3>1. \A x \in 0 .. j + 1 : f[x] <= f[j + 1]
        <4> TAKE x \in 0 .. j + 1
        <4>1. f[x] \in Int /\ f[m] \in Int /\ f[j + 1] \in Int
          BY <2>2, <2>3
        <4>2. x = j + 1 \/ f[x] <= f[m]
          BY <2>1, <2>2
        <4> QED
          BY <2>5, <4>1, <4>2
      <3> QED
        BY <2>3, <3>1
    <2> QED
      BY <2>2, <2>3, <2>4, <2>5
  <1>3. N \in S
    <2> HIDE DEF S
    <2> QED
      BY <1>1, <1>2, SetInduction
  <1> QED
    BY <1>3

LEMMA GreatestOver ==
    ASSUME NEW T, IsFiniteSet(T), T # {}, NEW f \in [T -> Int]
    PROVE  \E m \in T : \A x \in T : f[x] <= f[m]
  <1>1. PICK n \in Nat : ExistsSurjection(1 .. n, T)
    BY FS_NatSurjection
  <1>2. PICK h \in [1 .. n -> T] : \A t \in T : \E i \in 1 .. n : h[i] = t
    BY <1>1 DEF ExistsSurjection, Surjection
  <1>3. n # 0
    <2> SUFFICES ASSUME n = 0 PROVE FALSE
      OBVIOUS
    <2>1. 1 .. n = {}
      OBVIOUS
    <2> QED
      BY <1>2, <2>1
  <1> DEFINE N == n - 1
             g == [i \in 0 .. N |-> f[h[i + 1]]]
  <1>4. N \in Nat /\ \A i \in 0 .. N : i + 1 \in 1 .. n
    BY <1>3
  <1>5. g \in [0 .. N -> Int]
    BY <1>2, <1>4
  <1>6. \A i \in 0 .. N : g[i] = f[h[i + 1]]
    OBVIOUS
  <1>7. \A i \in 1 .. n : i - 1 \in 0 .. N /\ (i - 1) + 1 = i
    BY <1>3
  <1> HIDE DEF g, N
  <1>8. PICK m \in 0 .. N : \A x \in 0 .. N : g[x] <= g[m]
    BY <1>4, <1>5, GreatestOfRow
  <1>9. h[m + 1] \in T
    BY <1>2, <1>4
  <1>10. ASSUME NEW x \in T PROVE f[x] <= f[h[m + 1]]
    <2>1. PICK i \in 1 .. n : h[i] = x
      BY <1>2
    <2>2. g[i - 1] = f[x]
      BY <1>6, <1>7, <2>1
    <2> QED
      BY <1>6, <1>7, <1>8, <2>2
  <1> QED
    BY <1>9, <1>10

LEMMA RowsAreFinite ==
    ASSUME NEW n \in Nat
    PROVE  IsFiniteSet(Rows(n)) /\ \A S \in SUBSET Rows(n) : IsFiniteSet(S)
  <1>1. IsFiniteSet(0 .. n - 1)
    BY FS_Interval
  <1> QED
    BY <1>1, FS_Subset DEF Rows

(* A table of distances between samples.                                   *)
Distances(n, d) ==
    /\ d \in [Rows(n) -> [Rows(n) -> Int]]
    /\ \A i, j \in Rows(n) : d[i][j] = d[j][i]

LEMMA NearestFound ==
    ASSUME NEW n \in Nat, NEW d, Distances(n, d), NEW s \in Rows(n),
           NEW C \in SUBSET Rows(n), C # {}
    PROVE  /\ Nearest(d, s, C) \in Int
           /\ \E c \in C : Nearest(d, s, C) = d[s][c]
           /\ \A c \in C : Nearest(d, s, C) <= d[s][c]
  <1> DEFINE f == [c \in C |-> 0 - d[s][c]]
  <1>1. \A c \in C : d[s][c] \in Int
    BY DEF Distances
  <1>2. f \in [C -> Int] /\ \A c \in C : f[c] = 0 - d[s][c]
    BY <1>1
  <1> HIDE DEF f
  <1>3. PICK m \in C : \A x \in C : f[x] <= f[m]
    BY <1>2, RowsAreFinite, GreatestOver
  <1>4. \A c \in C : d[s][m] <= d[s][c]
    BY <1>1, <1>2, <1>3
  <1>5. \E x \in {d[s][c] : c \in C} : \A c \in C : x <= d[s][c]
    BY <1>4
  <1>6. /\ Nearest(d, s, C) \in {d[s][c] : c \in C}
        /\ \A c \in C : Nearest(d, s, C) <= d[s][c]
    BY <1>5 DEF Nearest
  <1> QED
    BY <1>1, <1>6

LEMMA FarthestFound ==
    ASSUME NEW n \in Nat, n >= 2, NEW d, Distances(n, d)
    PROVE  LET p == FarthestPair(n, d)
           IN /\ p \in Rows(n) \X Rows(n) /\ p[1] < p[2]
              /\ \A i, j \in Rows(n) : i < j => d[i][j] <= d[p[1]][p[2]]
  <1> DEFINE pairs == {p \in Rows(n) \X Rows(n) : p[1] < p[2]}
             f == [p \in pairs |-> d[p[1]][p[2]]]
             best == {p \in pairs : \A q \in pairs : d[p[1]][p[2]] >= d[q[1]][q[2]]}
  <1>1. IsFiniteSet(pairs) /\ pairs # {}
    <2>1. IsFiniteSet(Rows(n) \X Rows(n))
      BY RowsAreFinite, FS_Product
    <2>2. <<0, 1>> \in pairs
      BY DEF Rows
    <2>3. pairs \in SUBSET (Rows(n) \X Rows(n))
      OBVIOUS
    <2> QED
      BY <2>1, <2>2, <2>3, FS_Subset
  <1>2. \A p \in pairs : p[1] \in Rows(n) /\ p[2] \in Rows(n) /\ d[p[1]][p[2]] \in Int
    BY DEF Distances
  <1>3. f \in [pairs -> Int] /\ \A p \in pairs : f[p] = d[p[1]][p[2]]
    BY <1>2
  <1>4. \A p \in best : p \in pairs /\ p[1] \in Nat /\ p[2] \in Nat
    BY <1>2 DEF Rows
  <1>5. best # {}
    <2> HIDE DEF f
    <2>1. PICK m \in pairs : \A x \in pairs : f[x] <= f[m]
      <3> HIDE DEF pairs
      <3> QED
        BY <1>1, <1>3, GreatestOver
    <2>2. m \in best
      BY <1>2, <1>3, <2>1
    <2> QED
      BY <2>2
  <1>6. \E p \in best : \A q \in best : p[1] < q[1] \/ (p[1] = q[1] /\ p[2] <= q[2])
    <2> HIDE DEF best, pairs
    <2> DEFINE firsts == {p[1] : p \in best}
    <2>1. firsts \in SUBSET Nat /\ firsts # {}
      BY <1>4, <1>5
    <2>2. PICK a \in firsts : \A x \in firsts : a <= x
      BY <2>1, LeastElement
    <2> DEFINE seconds == {p[2] : p \in {q \in best : q[1] = a}}
    <2>3. seconds \in SUBSET Nat /\ seconds # {}
      BY <1>4, <2>2
    <2>4. PICK b \in seconds : \A x \in seconds : b <= x
      BY <2>3, LeastElement
    <2>5. PICK p \in best : p[1] = a /\ p[2] = b
      BY <2>4
    <2>6. ASSUME NEW q \in best PROVE p[1] < q[1] \/ (p[1] = q[1] /\ p[2] <= q[2])
      <3>1. q[1] \in firsts /\ (q[1] = a => q[2] \in seconds)
        OBVIOUS
      <3>2. a <= q[1] /\ (q[1] = a => b <= q[2]) /\ a \in Nat /\ q[1] \in Nat
        BY <1>4, <2>1, <2>2, <2>4, <3>1
      <3> QED
        BY <2>5, <3>2
    <2> QED
      BY <2>5, <2>6
  <1> DEFINE p == FarthestPair(n, d)
  <1>7. p \in best
    <2>1. p = CHOOSE x \in best : \A q \in best : x[1] < q[1] \/ (x[1] = q[1] /\ x[2] <= q[2])
      BY DEF FarthestPair
    <2> HIDE DEF best, p
    <2> QED
      BY <1>6, <2>1
  <1> HIDE DEF p
  <1>8. p \in pairs /\ \A q \in pairs : d[p[1]][p[2]] >= d[q[1]][q[2]]
    BY <1>7
  <1>9. ASSUME NEW i \in Rows(n), NEW j \in Rows(n), i < j PROVE d[i][j] <= d[p[1]][p[2]]
    <2>1. <<i, j>> \in pairs
      BY <1>9
    <2>2. d[p[1]][p[2]] >= d[i][j]
      BY <1>8, <2>1
    <2>3. d[i][j] \in Int /\ d[p[1]][p[2]] \in Int
      BY <1>2, <1>8 DEF Distances
    <2> QED
      BY <2>2, <2>3
  <1> QED
    BY <1>8, <1>9 DEF p

LEMMA NextFound ==
    ASSUME NEW n \in Nat, NEW d, Distances(n, d),
           NEW C \in SUBSET Rows(n), C # {}, C # Rows(n)
    PROVE  LET x == NextRepresentative(n, d, C)
           IN /\ x \in Rows(n) \ C
              /\ \A t \in Rows(n) \ C : Nearest(d, t, C) <= Nearest(d, x, C)
  <1> DEFINE rest == Rows(n) \ C
             f == [s \in rest |-> Nearest(d, s, C)]
             best == {s \in rest : \A t \in rest : Nearest(d, s, C) >= Nearest(d, t, C)}
  <1>1. \A s \in rest : s \in Nat /\ Nearest(d, s, C) \in Int
    BY NearestFound DEF Rows
  <1>2. f \in [rest -> Int] /\ \A s \in rest : f[s] = Nearest(d, s, C)
    BY <1>1
  <1>3. rest # {} /\ IsFiniteSet(rest)
    BY RowsAreFinite
  <1>4. best # {}
    <2> HIDE DEF f
    <2>1. PICK m \in rest : \A x \in rest : f[x] <= f[m]
      <3> HIDE DEF rest
      <3> QED
        BY <1>2, <1>3, GreatestOver
    <2>2. m \in best
      BY <1>1, <1>2, <2>1
    <2> QED
      BY <2>2
  <1>5. \E s \in best : \A t \in best : s <= t
    <2>1. best \in SUBSET Nat
      BY <1>1
    <2> HIDE DEF best
    <2> QED
      BY <1>4, <2>1, LeastElement
  <1> DEFINE x == NextRepresentative(n, d, C)
  <1>6. x \in best
    <2>1. x = CHOOSE s \in best : \A t \in best : s <= t
      BY DEF NextRepresentative
    <2> HIDE DEF best, x
    <2> QED
      BY <1>5, <2>1
  <1> HIDE DEF x
  <1>7. \A t \in rest : Nearest(d, t, C) <= Nearest(d, x, C)
    BY <1>1, <1>6
  <1> QED
    BY <1>6, <1>7 DEF x

-----------------------------------------------------------------------------
(* No sample left out is farther from the chosen ones than two of these are *)
(* from each other.                                                        *)
Spread(C, n, d) ==
    \A s \in Rows(n) \ C : \A t, u \in C : t # u => \E v \in C : d[s][v] <= d[t][u]

Chosen(q, m, n, d) ==
    q \in Seq(Rows(n)) /\ Len(q) = m /\ NoDuplicates(q) /\ Spread(Elements(q), n, d)

LEMMA PairChosen ==
    ASSUME NEW n \in Nat, n >= 2, NEW d, Distances(n, d)
    PROVE  Chosen(FarthestPair(n, d), 2, n, d)
  <1> DEFINE p == FarthestPair(n, d)
  <1>1. /\ p \in Rows(n) \X Rows(n) /\ p[1] < p[2]
        /\ \A i, j \in Rows(n) : i < j => d[i][j] <= d[p[1]][p[2]]
    BY FarthestFound
  <1> HIDE DEF p
  <1>2. PICK a \in Rows(n), b \in Rows(n) : p = <<a, b>>
    BY <1>1
  <1>3. a < b /\ a \in Int /\ b \in Int
    BY <1>1, <1>2 DEF Rows
  <1>4. p \in Seq(Rows(n)) /\ Len(p) = 2 /\ DOMAIN p = 1 .. 2
    BY <1>2
  <1>5. Elements(p) = {a, b} /\ NoDuplicates(p)
    <2>1. \A i \in 1 .. 2 : i = 1 \/ i = 2
      OBVIOUS
    <2>2. p[1] = a /\ p[2] = b /\ a # b
      BY <1>2, <1>3
    <2> QED
      BY <1>4, <2>1, <2>2 DEF Elements, NoDuplicates
  <1>6. \A i, j \in Rows(n) : d[i][j] \in Int /\ d[i][j] = d[j][i]
    BY DEF Distances
  <1>7. ASSUME NEW s \in Rows(n) \ {a, b}, NEW t \in {a, b}, NEW u \in {a, b}, t # u
        PROVE  \E v \in {a, b} : d[s][v] <= d[t][u]
    <2>1. d[t][u] = d[a][b]
      BY <1>6, <1>7
    <2>2. d[s][a] <= d[a][b]
      <3>1. s \in Int /\ (s < a \/ a < s)
        BY <1>3, <1>7 DEF Rows
      <3>2. d[s][a] <= d[a][b] \/ d[a][s] <= d[a][b]
        BY <1>1, <1>2, <3>1
      <3> QED
        BY <1>6, <3>2
    <2> QED
      BY <2>1, <2>2
  <1> QED
    BY <1>4, <1>5, <1>7 DEF Chosen, Spread, p

LEMMA NextChosen ==
    ASSUME NEW n \in Nat, NEW d, Distances(n, d), NEW m \in 2 .. n - 1, NEW q, Chosen(q, m, n, d)
    PROVE  Chosen(Append(q, NextRepresentative(n, d, Range(q))), m + 1, n, d)
  <1> DEFINE C == Elements(q)
             x == NextRepresentative(n, d, C)
             r == Append(q, x)
  <1>1. /\ q \in Seq(Rows(n)) /\ Len(q) = m /\ DOMAIN q = 1 .. m /\ m \in Nat
        /\ \A i \in 1 .. m : q[i] \in Rows(n)
    BY LenProperties, ElementOfSeq DEF Chosen
  <1>2. C \in SUBSET Rows(n) /\ C # {}
    <2>1. 1 \in 1 .. m
      BY <1>1
    <2> QED
      BY <1>1, <2>1 DEF Elements
  <1>3. C # Rows(n)
    <2>1. q \in Seq(Int)
      BY <1>1, SeqMonotonic DEF Rows
    <2>2. Lists(q, C)
      BY <2>1 DEF Chosen, Lists
    <2>3. Cardinality(C) = m
      BY <1>1, <2>2, ListLength
    <2>4. Cardinality(0 .. n - 1) = IF 0 > n - 1 THEN 0 ELSE (n - 1) - 0 + 1
      BY FS_Interval
    <2>5. Cardinality(Rows(n)) = n
      BY <2>4 DEF Rows
    <2> QED
      BY <1>1, <2>3, <2>5
  <1>4. Range(q) = C
    BY DEF Range, Elements
  <1>5. x \in Rows(n) \ C /\ \A t \in Rows(n) \ C : Nearest(d, t, C) <= Nearest(d, x, C)
    <2> HIDE DEF C
    <2> QED
      BY <1>2, <1>3, NextFound
  <1> HIDE DEF x
  <1>6. /\ r \in Seq(Rows(n)) /\ Len(r) = m + 1 /\ r[m + 1] = x
        /\ \A i \in 1 .. m : r[i] = q[i]
    BY <1>1, <1>5, AppendProperties
  <1>7. DOMAIN r = 1 .. m + 1
    BY <1>6, LenProperties
  <1>8. \A i \in 1 .. m + 1 : i = m + 1 \/ i \in 1 .. m
    BY <1>1
  <1> HIDE DEF r
  <1>9. \A i \in 1 .. m : i \in 1 .. m + 1 /\ q[i] \in C
    BY <1>1 DEF Elements
  <1>10. Elements(r) = C \cup {x}
    <2>1. \A i \in 1 .. m + 1 : r[i] \in C \cup {x}
      BY <1>6, <1>8, <1>9
    <2>2. \A c \in C : \E i \in 1 .. m + 1 : r[i] = c
      BY <1>1, <1>6, <1>9 DEF Elements
    <2>3. m + 1 \in 1 .. m + 1
      BY <1>1
    <2> QED
      BY <1>6, <1>7, <2>1, <2>2, <2>3 DEF Elements
  <1>11. NoDuplicates(r)
    <2>1. \A i, j \in 1 .. m : q[i] = q[j] => i = j
      BY <1>1 DEF Chosen, NoDuplicates
    <2>2. \A i, j \in 1 .. m + 1 : r[i] = r[j] => i = j
      BY <1>5, <1>6, <1>8, <1>9, <2>1
    <2> QED
      BY <1>7, <2>2 DEF NoDuplicates
  <1> HIDE DEF C
  <1>12. \A s \in Rows(n) : /\ Nearest(d, s, C) \in Int
                            /\ \E c \in C : Nearest(d, s, C) = d[s][c]
                            /\ \A c \in C : Nearest(d, s, C) <= d[s][c]
    BY <1>2, NearestFound
  <1>13. \A i, j \in Rows(n) : d[i][j] \in Int /\ d[i][j] = d[j][i]
    BY DEF Distances
  <1>14. ASSUME NEW s \in Rows(n) \ C, NEW u \in C PROVE \E v \in C : d[s][v] <= d[x][u]
    <2>1. PICK v \in C : Nearest(d, s, C) = d[s][v]
      BY <1>12
    <2>2. Nearest(d, s, C) <= Nearest(d, x, C) /\ Nearest(d, x, C) <= d[x][u]
      BY <1>5, <1>12
    <2>3. u \in Rows(n) /\ v \in Rows(n)
      BY <1>2
    <2>4. d[s][v] \in Int /\ d[x][u] \in Int /\ Nearest(d, x, C) \in Int
      BY <1>5, <1>12, <1>13, <2>3
    <2> QED
      BY <2>1, <2>2, <2>4
  <1>15. Spread(C \cup {x}, n, d)
    <2> SUFFICES ASSUME NEW s \in Rows(n) \ (C \cup {x}),
                        NEW t \in C \cup {x}, NEW u \in C \cup {x}, t # u
                 PROVE  \E v \in C \cup {x} : d[s][v] <= d[t][u]
      BY DEF Spread
    <2>1. CASE t \in C /\ u \in C
      BY <2>1 DEF Chosen, Spread, C
    <2>2. CASE t = x
      <3>1. u \in C
        BY <2>2
      <3> QED
        BY <1>14, <2>2, <3>1
    <2>3. CASE u = x
      <3>1. t \in C /\ t \in Rows(n) /\ x \in Rows(n)
        BY <1>2, <1>5, <2>3
      <3>2. \E v \in C : d[s][v] <= d[x][t]
        BY <1>14, <3>1
      <3>3. d[t][u] = d[x][t]
        BY <1>13, <2>3, <3>1
      <3> QED
        BY <3>2, <3>3
    <2> QED
      BY <2>1, <2>2, <2>3
  <1> QED
    BY <1>4, <1>6, <1>10, <1>11, <1>15 DEF Chosen, r, x

LEMMA RepresentativesChosen ==
    ASSUME NEW n \in Int, NEW count \in Int, RepresentativeArguments(n, count),
           NEW d, Distances(n, d)
    PROVE  Chosen(Representatives(n, d, count), count, n, d)
  <1> DEFINE V == Seq(Rows(n))
             L == count - 2
             Grow(q) == Append(q, NextRepresentative(n, d, Range(q)))
             Body(c) == [m \in 2 .. count |-> IF m = 2 THEN FarthestPair(n, d) ELSE Grow(c[m - 1])]
             step == [i \in 1 .. L |-> [q \in V |-> IF Chosen(q, i + 1, n, d) THEN Grow(q) ELSE q]]
             chosen == CHOOSE c : c = Body(c)
  <1>0. n \in Nat /\ n >= 2 /\ count \in 2 .. n - 1 /\ L \in Nat
    BY DEF RepresentativeArguments
  <1>1. Chosen(FarthestPair(n, d), 2, n, d)
    BY <1>0, PairChosen
  <1>2. \A m \in 2 .. count - 1 : \A q : Chosen(q, m, n, d) => Chosen(Grow(q), m + 1, n, d)
    <2>1. \A m \in 2 .. count - 1 : m \in 2 .. n - 1
      BY <1>0
    <2> QED
      BY <1>0, <2>1, NextChosen
  <1>3. step \in [1 .. L -> [V -> V]]
    <2>1. ASSUME NEW i \in 1 .. L, NEW q \in V, Chosen(q, i + 1, n, d) PROVE Grow(q) \in V
      <3>1. i + 1 \in 2 .. count - 1
        BY <1>0
      <3>2. Chosen(Grow(q), (i + 1) + 1, n, d)
        BY <1>2, <2>1, <3>1
      <3> QED
        BY <3>2 DEF Chosen
    <2> HIDE DEF Grow, V
    <2> QED
      BY <2>1
  <1>4. FarthestPair(n, d) \in V
    BY <1>1 DEF Chosen
  <1>5. PICK g \in [0 .. L -> V] :
               g[0] = FarthestPair(n, d) /\ \A i \in 1 .. L : g[i] = step[i][g[i - 1]]
    <2> HIDE DEF step, V, L
    <2>1. \A b \in V : \A K \in Nat : \A s \in [1 .. K -> [V -> V]] :
             \E g \in [0 .. K -> V] : g[0] = b /\ \A i \in 1 .. K : g[i] = s[i][g[i - 1]]
      BY ONLY EveryLoopRuns
    <2>2. L \in Nat
      BY <1>0
    <2> QED
      BY <1>3, <1>4, <2>1, <2>2
  <1>6. \A i \in 1 .. L : \A q \in V : step[i][q] = IF Chosen(q, i + 1, n, d) THEN Grow(q) ELSE q
    OBVIOUS
  <1> HIDE DEF step, Grow
  <1>7. \A i \in 0 .. L : Chosen(g[i], i + 2, n, d) /\ (i # 0 => g[i] = Grow(g[i - 1]))
    <2> DEFINE S == {i \in Nat : i <= L => /\ Chosen(g[i], i + 2, n, d)
                                           /\ i # 0 => g[i] = Grow(g[i - 1])}
    <2>1. 0 \in S
      BY <1>1, <1>5
    <2>2. ASSUME NEW i \in Nat, i \in S PROVE i + 1 \in S
      <3> SUFFICES ASSUME i + 1 <= L
                   PROVE  /\ Chosen(g[i + 1], (i + 1) + 2, n, d)
                          /\ i + 1 # 0 => g[i + 1] = Grow(g[(i + 1) - 1])
        OBVIOUS
      <3>1. /\ i + 1 \in 1 .. L /\ (i + 1) - 1 = i /\ (i + 1) + 1 = i + 2 /\ i \in 0 .. L
            /\ i + 2 \in 2 .. count - 1 /\ (i + 2) + 1 = (i + 1) + 2
        BY <1>0
      <3>2. Chosen(g[i], i + 2, n, d)
        BY <1>0, <2>2
      <3>3. g[i + 1] = step[i + 1][g[i]] /\ g[i] \in V
        BY <1>5, <3>1
      <3>4. g[i + 1] = Grow(g[i])
        BY <1>6, <3>1, <3>2, <3>3
      <3>5. Chosen(Grow(g[i]), (i + 2) + 1, n, d)
        BY <1>2, <3>1, <3>2
      <3> QED
        BY <3>1, <3>4, <3>5
    <2>3. Nat \subseteq S
      <3> HIDE DEF S
      <3> QED
        BY <2>1, <2>2, SetInduction
    <2> QED
      BY <1>0, <2>3
  <1> DEFINE h == [m \in 2 .. count |-> g[m - 2]]
  <1>8. h = Body(h)
    <2>1. ASSUME NEW m \in 2 .. count PROVE h[m] = Body(h)[m]
      <3>1. m - 2 \in 0 .. L /\ h[m] = g[m - 2]
        BY <1>0
      <3>2. CASE m = 2
        BY <1>5, <3>1, <3>2
      <3>3. CASE m # 2
        <4>1. m - 1 \in 2 .. count /\ (m - 1) - 2 = (m - 2) - 1 /\ m - 2 # 0
          BY <1>0, <3>3
        <4>2. h[m - 1] = g[(m - 2) - 1]
          BY <4>1
        <4>3. g[m - 2] = Grow(g[(m - 2) - 1])
          BY <1>7, <3>1, <4>1
        <4> HIDE DEF h
        <4>4. Body(h)[m] = Grow(h[m - 1])
          BY <3>3
        <4> QED
          BY <3>1, <4>2, <4>3, <4>4
      <3> QED
        BY <3>2, <3>3
    <2>2. h = [m \in 2 .. count |-> h[m]]
      OBVIOUS
    <2> HIDE DEF h
    <2> QED
      BY <2>1, <2>2
  <1>9. chosen = Body(chosen)
    <2> HIDE DEF Body
    <2> QED
      BY <1>8
  <1>10. Representatives(n, d, count) = chosen[count]
    BY DEF Representatives, Grow
  <1> HIDE DEF chosen
  <1>11. \A m \in 2 .. count : chosen[m] = IF m = 2 THEN FarthestPair(n, d) ELSE Grow(chosen[m - 1])
    <2>1. \A m \in 2 .. count : chosen[m] = Body(chosen)[m]
      BY <1>9
    <2> QED
      BY <2>1
  <1> DEFINE S == {i \in Nat : i + 2 <= count => Chosen(chosen[i + 2], i + 2, n, d)}
  <1>12. 0 \in S
    <2>1. 0 + 2 = 2 /\ 2 \in 2 .. count
      BY <1>0
    <2>2. chosen[0 + 2] = FarthestPair(n, d)
      BY <1>11, <2>1
    <2> QED
      BY <1>1, <2>1, <2>2
  <1>13. ASSUME NEW i \in Nat, i \in S PROVE i + 1 \in S
    <2> SUFFICES ASSUME (i + 1) + 2 <= count
                 PROVE  Chosen(chosen[(i + 1) + 2], (i + 1) + 2, n, d)
      OBVIOUS
    <2>1. /\ (i + 1) + 2 \in 2 .. count /\ (i + 1) + 2 # 2 /\ ((i + 1) + 2) - 1 = i + 2
          /\ i + 2 \in 2 .. count - 1 /\ (i + 2) + 1 = (i + 1) + 2 /\ i + 2 <= count
      BY <1>0
    <2>2. chosen[(i + 1) + 2] = Grow(chosen[i + 2])
      BY <1>11, <2>1
    <2>3. Chosen(chosen[i + 2], i + 2, n, d)
      BY <1>13, <2>1
    <2>4. Chosen(Grow(chosen[i + 2]), (i + 2) + 1, n, d)
      BY <1>2, <2>1, <2>3
    <2> QED
      BY <2>1, <2>2, <2>4
  <1>14. Nat \subseteq S
    <2> HIDE DEF S
    <2> QED
      BY <1>12, <1>13, SetInduction
  <1>15. count - 2 \in S /\ (count - 2) + 2 = count
    <2> HIDE DEF S
    <2>1. count - 2 \in Nat /\ (count - 2) + 2 = count
      BY <1>0
    <2> QED
      BY <1>14, <2>1
  <1> QED
    BY <1>0, <1>10, <1>15

LEMMA KennardStoneFolds ==
    ASSUME NEW n \in Int, NEW count \in Int, RepresentativeArguments(n, count),
           NEW d, Distances(n, d)
    PROVE  /\ AllShare(KennardStone(n, d, count), n, 1)
           /\ Spread(Elements(KennardStone(n, d, count)[1].train), n, d)
  <1> DEFINE train == Representatives(n, d, count)
             C == Elements(train)
             q == KennardStone(n, d, count)
  <1>0. n \in Nat /\ count \in Nat /\ 0 < count /\ count < n
    BY DEF RepresentativeArguments
  <1>1. Chosen(train, count, n, d)
    BY RepresentativesChosen
  <1>2. q = <<FromTrain(n, train)>> /\ FromTrain(n, train).train = train
    BY DEF KennardStone, FromTrain
  <1> HIDE DEF train, q
  <1>3. /\ train \in Seq(Rows(n)) /\ DOMAIN train = 1 .. count
        /\ \A i \in 1 .. count : train[i] \in Rows(n)
    BY <1>1, LenProperties, ElementOfSeq DEF Chosen
  <1>4. C \in SUBSET Rows(n)
    BY <1>3 DEF Elements
  <1>5. train \in Seq(Int)
    BY <1>3, SeqMonotonic DEF Rows
  <1>6. Lists(train, C)
    BY <1>1, <1>5 DEF Chosen, Lists
  <1>7. C # {} /\ C # Rows(n)
    <2>1. Cardinality(C) = count
      BY <1>1, <1>6, ListLength DEF Chosen
    <2>2. Cardinality(0 .. n - 1) = IF 0 > n - 1 THEN 0 ELSE (n - 1) - 0 + 1
      BY FS_Interval
    <2>3. Cardinality(Rows(n)) = n
      BY <1>0, <2>2 DEF Rows
    <2>4. Cardinality({}) = 0
      BY FS_EmptySet
    <2> QED
      BY <1>0, <2>1, <2>3, <2>4
  <1> HIDE DEF C
  <1>8. SharesOut(FromTrain(n, train), n)
    BY <1>0, <1>4, <1>6, <1>7, FromTrainShares
  <1>9. q = [i \in 1 .. 1 |-> q[i]] /\ \A i \in 1 .. 1 : q[i] = FromTrain(n, train)
    BY <1>2
  <1>10. \A i \in 1 .. 1 : SharesOut(q[i], n)
    BY <1>8, <1>9
  <1>11. AllShare(q, n, 1)
    <2>1. 1 \in Nat /\ 1 > 0
      OBVIOUS
    <2> QED
      BY <1>9, <1>10, <2>1, VectorShares
  <1>12. q[1].train = train
    BY <1>2
  <1> QED
    BY <1>1, <1>11, <1>12 DEF Chosen, q, C

(* A matrix: its rows have one length.                                     *)
Matrix(m) == m \in Seq(Seq(Int)) /\ \A i, j \in DOMAIN m : Len(m[i]) = Len(m[j])

(* The loop over the columns of two rows.                                  *)
LEMMA SquaredDistanceRuns ==
    ASSUME NEW a \in Seq(Int), NEW b \in Seq(Int), Len(a) = Len(b)
    PROVE  \E g \in [0 .. Len(a) -> Int] :
              /\ SquaredDistance(a, b) = g[Len(a)]
              /\ g[0] = 0
              /\ \A c \in 1 .. Len(a) : g[c] = g[c - 1] + (a[c] - b[c]) * (a[c] - b[c])
  <1> DEFINE L == Len(a)
             X(c) == (a[c] - b[c]) * (a[c] - b[c])
             Body(g) == [c \in 0 .. L |-> IF c = 0 THEN 0 ELSE g[c - 1] + X(c)]
             step == [c \in 1 .. L |-> [x \in Int |-> x + X(c)]]
             dist == CHOOSE g : g = Body(g)
  <1>0. L \in Nat /\ \A c \in 1 .. L : a[c] \in Int /\ b[c] \in Int
    BY LenProperties, ElementOfSeq
  <1>1. \A c \in 1 .. L : X(c) \in Int
    BY <1>0
  <1>2. SquaredDistance(a, b) = dist[L]
    BY DEF SquaredDistance
  <1> HIDE DEF L, X
  <1>3. step \in [1 .. L -> [Int -> Int]]
    BY <1>1
  <1>4. PICK g \in [0 .. L -> Int] : g[0] = 0 /\ \A c \in 1 .. L : g[c] = step[c][g[c - 1]]
    <2> HIDE DEF step
    <2>1. L \in Nat
      BY <1>0
    <2> QED
      BY <1>3, <2>1, SumRuns
  <1>5. \A c \in 1 .. L : c \in 0 .. L /\ c - 1 \in 0 .. L /\ c # 0
    BY <1>0
  <1>6. \A c \in 1 .. L : g[c] = g[c - 1] + X(c)
    BY <1>4, <1>5
  <1>7. g = Body(g)
    <2>1. \A c \in 0 .. L : c = 0 \/ c \in 1 .. L
      BY <1>0
    <2>2. \A c \in 0 .. L : g[c] = Body(g)[c]
      BY <1>4, <1>6, <2>1
    <2>3. g = [c \in 0 .. L |-> g[c]]
      OBVIOUS
    <2> QED
      BY <2>2, <2>3
  <1>8. dist = Body(dist)
    <2> HIDE DEF Body
    <2> QED
      BY <1>7
  <1> HIDE DEF dist
  <1>9. dist[0] = 0 /\ \A c \in 1 .. L : dist[c] = dist[c - 1] + X(c)
    <2>1. \A c \in 0 .. L : dist[c] = Body(dist)[c]
      BY <1>8
    <2> QED
      BY <1>0, <1>5, <2>1
  <1>10. \A c \in 0 .. L : dist[c] = g[c]
    <2> DEFINE S == {c \in Nat : c <= L => dist[c] = g[c]}
    <2>1. 0 \in S
      BY <1>4, <1>9
    <2>2. ASSUME NEW c \in Nat, c \in S PROVE c + 1 \in S
      <3> SUFFICES ASSUME c + 1 <= L PROVE dist[c + 1] = g[c + 1]
        OBVIOUS
      <3>1. c + 1 \in 1 .. L /\ (c + 1) - 1 = c /\ c <= L
        BY <1>0
      <3> QED
        BY <1>6, <1>9, <2>2, <3>1
    <2>3. Nat \subseteq S
      <3> HIDE DEF S
      <3> QED
        BY <2>1, <2>2, SetInduction
    <2> QED
      BY <1>0, <2>3
  <1>11. SquaredDistance(a, b) = g[L]
    BY <1>0, <1>2, <1>10
  <1> QED
    BY <1>4, <1>6, <1>11 DEF L, X

LEMMA SquaredDistanceSymmetric ==
    ASSUME NEW a \in Seq(Int), NEW b \in Seq(Int), Len(a) = Len(b)
    PROVE  SquaredDistance(a, b) \in Int /\ SquaredDistance(a, b) = SquaredDistance(b, a)
  <1> DEFINE L == Len(a)
  <1>0. L \in Nat /\ \A c \in 1 .. L : a[c] \in Int /\ b[c] \in Int
    BY LenProperties, ElementOfSeq
  <1>1. PICK g \in [0 .. L -> Int] :
               /\ SquaredDistance(a, b) = g[L] /\ g[0] = 0
               /\ \A c \in 1 .. L : g[c] = g[c - 1] + (a[c] - b[c]) * (a[c] - b[c])
    BY SquaredDistanceRuns
  <1>2. PICK h \in [0 .. L -> Int] :
               /\ SquaredDistance(b, a) = h[L] /\ h[0] = 0
               /\ \A c \in 1 .. L : h[c] = h[c - 1] + (b[c] - a[c]) * (b[c] - a[c])
    <2>1. Len(b) = L /\ Len(b) = Len(a)
      OBVIOUS
    <2> HIDE DEF L
    <2> QED
      BY <2>1, SquaredDistanceRuns
  <1> HIDE DEF L
  <1>3. \A c \in 1 .. L : (a[c] - b[c]) * (a[c] - b[c]) = (b[c] - a[c]) * (b[c] - a[c])
    <2>1. \A x, y \in Int : (x - y) * (x - y) = (y - x) * (y - x)
      OBVIOUS
    <2> QED
      BY <1>0, <2>1
  <1> DEFINE S == {c \in Nat : c <= L => g[c] = h[c]}
  <1>4. 0 \in S
    BY <1>1, <1>2
  <1>5. ASSUME NEW c \in Nat, c \in S PROVE c + 1 \in S
    <2> SUFFICES ASSUME c + 1 <= L PROVE g[c + 1] = h[c + 1]
      OBVIOUS
    <2>1. c + 1 \in 1 .. L /\ (c + 1) - 1 = c /\ g[c] = h[c]
      BY <1>0, <1>5
    <2>2. /\ g[c + 1] = g[c] + (a[c + 1] - b[c + 1]) * (a[c + 1] - b[c + 1])
          /\ h[c + 1] = h[c] + (b[c + 1] - a[c + 1]) * (b[c + 1] - a[c + 1])
      BY <1>1, <1>2, <2>1
    <2> QED
      BY <1>3, <2>1, <2>2
  <1>6. Nat \subseteq S
    <2> HIDE DEF S
    <2> QED
      BY <1>4, <1>5, SetInduction
  <1>7. L \in S
    <2> HIDE DEF S
    <2> QED
      BY <1>0, <1>6
  <1> QED
    BY <1>0, <1>1, <1>2, <1>7

LEMMA PairwiseTable ==
    ASSUME NEW m, Matrix(m)
    PROVE  Len(m) \in Nat /\ Distances(Len(m), PairwiseDistances(m))
  <1> DEFINE n == Len(m)
             d == PairwiseDistances(m)
  <1>1. n \in Nat /\ DOMAIN m = 1 .. n /\ \A i \in 1 .. n : m[i] \in Seq(Int)
    <2> DEFINE V == Seq(Int)
    <2>1. m \in Seq(V)
      BY DEF Matrix
    <2> HIDE DEF V
    <2>2. Len(m) \in Nat /\ DOMAIN m = 1 .. Len(m) /\ m \in [1 .. Len(m) -> V]
      BY <2>1, LenProperties
    <2> QED
      BY <2>2 DEF V
  <1>2. \A i \in Rows(n) : i + 1 \in 1 .. n
    BY <1>1 DEF Rows
  <1>3. \A i, j \in Rows(n) :
           /\ m[i + 1] \in Seq(Int) /\ m[j + 1] \in Seq(Int) /\ Len(m[i + 1]) = Len(m[j + 1])
    BY <1>1, <1>2 DEF Matrix
  <1>4. \A i, j \in Rows(n) : d[i][j] = SquaredDistance(m[i + 1], m[j + 1])
    BY DEF PairwiseDistances
  <1>5. \A i, j \in Rows(n) :
           /\ SquaredDistance(m[i + 1], m[j + 1]) \in Int
           /\ SquaredDistance(m[i + 1], m[j + 1]) = SquaredDistance(m[j + 1], m[i + 1])
    BY <1>3, SquaredDistanceSymmetric
  <1>6. d \in [Rows(n) -> [Rows(n) -> Int]]
    BY <1>5 DEF PairwiseDistances
  <1>7. \A i, j \in Rows(n) : d[i][j] = d[j][i]
    BY <1>4, <1>5
  <1> QED
    BY <1>1, <1>6, <1>7 DEF Distances

LEMMA LargestFound ==
    ASSUME NEW n \in Nat, n >= 2, NEW d, Distances(n, d)
    PROVE  Largest(n, d) \in Int
  <1> DEFINE p == FarthestPair(n, d)
  <1>1. p \in Rows(n) \X Rows(n)
    BY FarthestFound
  <1> HIDE DEF p
  <1>2. p[1] \in Rows(n) /\ p[2] \in Rows(n)
    BY <1>1
  <1> QED
    BY <1>2 DEF Largest, Distances, p

LEMMA SpxyTable ==
    ASSUME NEW n \in Nat, n >= 2, NEW dx, Distances(n, dx), NEW dy, Distances(n, dy)
    PROVE  Distances(n, SpxyDistances(n, dx, dy))
  <1> DEFINE mx == Largest(n, dx)
             my == Largest(n, dy)
             d == SpxyDistances(n, dx, dy)
             E(i, j) == (IF mx > 0 THEN dx[i][j] * (IF my > 0 THEN my ELSE 1) ELSE 0)
                      + (IF my > 0 THEN dy[i][j] * (IF mx > 0 THEN mx ELSE 1) ELSE 0)
  <1>1. mx \in Int /\ my \in Int
    BY LargestFound
  <1>2. d = [i \in Rows(n) |-> [j \in Rows(n) |-> E(i, j)]]
    BY DEF SpxyDistances
  <1> HIDE DEF mx, my, d
  <1>3. \A i, j \in Rows(n) : /\ dx[i][j] \in Int /\ dy[i][j] \in Int
                              /\ dx[i][j] = dx[j][i] /\ dy[i][j] = dy[j][i]
    BY DEF Distances
  <1>4. \A i, j \in Rows(n) : E(i, j) = E(j, i)
    BY <1>3
  <1>5. \A i, j \in Rows(n) : E(i, j) \in Int
    <2>1. (IF my > 0 THEN my ELSE 1) \in Int /\ (IF mx > 0 THEN mx ELSE 1) \in Int
      BY <1>1
    <2>2. \A x, y \in Int : x * y \in Int
      OBVIOUS
    <2> QED
      BY <1>3, <2>1, <2>2
  <1> HIDE DEF E
  <1>6. d \in [Rows(n) -> [Rows(n) -> Int]]
    BY <1>2, <1>5
  <1>7. \A i, j \in Rows(n) : d[i][j] = d[j][i]
    BY <1>2, <1>4
  <1> QED
    BY <1>6, <1>7 DEF Distances, d

-----------------------------------------------------------------------------
(***************************************************************************)
(* How often a sample is tested.                                           *)
(***************************************************************************)
Testing(q, s) == {i \in DOMAIN q : s \in Elements(q[i].test)}

LEMMA TestedOnce ==
    ASSUME NEW n, NEW k, FoldCounts(n, k), NEW s \in Rows(n)
    PROVE  \E f \in 1 .. k : Testing(KFold(n, k), s) = {f}
  <1> DEFINE start == Starts(n, k)
             q == KFold(n, k)
  <1>1. /\ DOMAIN q = 1 .. k
        /\ \A f \in 1 .. k : Elements(q[f].test) = {x \in Rows(n) : start[f - 1] <= x /\ x < start[f]}
    BY KFoldFolds DEF AllShare
  <1>2. PICK f \in 1 .. k : /\ start[f - 1] <= s /\ s < start[f]
                            /\ \A g \in 1 .. k : start[g - 1] <= s /\ s < start[g] => g = f
    BY OneRun
  <1> HIDE DEF start, q
  <1>3. \A g \in 1 .. k : s \in Elements(q[g].test) <=> g = f
    BY <1>1, <1>2
  <1>4. Testing(q, s) = {f}
    BY <1>1, <1>3 DEF Testing
  <1> QED
    BY <1>4 DEF q

LEMMA TestedInEveryRepeat ==
    ASSUME NEW n, NEW k, FoldCounts(n, k), NEW r \in Nat, r > 0,
           NEW perms \in [1 .. r -> Shuffles(n)], NEW s \in Rows(n)
    PROVE  Cardinality(Testing(RepeatedKFold(n, k, perms), s)) = r
  <1> DEFINE start == Starts(n, k)
             q == RepeatedKFold(n, k, perms)
             T == Testing(q, s)
             rep(i) == (i - 1) \div k
             fold(i) == (i - 1) % k
             h == [i \in T |-> rep(i) + 1]
  <1>0. n \in Nat /\ k \in Nat /\ k > 0 /\ k * r \in Nat
    BY DEF FoldCounts, KFoldArguments
  <1>1. /\ DOMAIN q = 1 .. k * r
        /\ \A i \in 1 .. k * r :
              /\ rep(i) \in 0 .. r - 1 /\ fold(i) \in 0 .. k - 1
              /\ Elements(q[i].test) = {perms[rep(i) + 1][j] : j \in start[fold(i)] + 1 .. start[fold(i) + 1]}
    <2>1. DOMAIN q = 1 .. k * r
      BY RepeatedFolds DEF AllShare
    <2>2. ASSUME NEW i \in 1 .. k * r
          PROVE  /\ rep(i) \in 0 .. r - 1 /\ fold(i) \in 0 .. k - 1
                 /\ Elements(q[i].test) = {perms[rep(i) + 1][j] : j \in start[fold(i)] + 1 .. start[fold(i) + 1]}
      <3>1. TestsRun(q[i].test, i, n, k, r, perms)
        BY RepeatedFolds
      <3> HIDE DEF q
      <3> QED
        BY <3>1 DEF TestsRun
    <2> HIDE DEF rep, fold, q, start
    <2> QED
      BY <2>1, <2>2
  <1>2. start \in [0 .. k -> 0 .. n]
    BY StartsCut
  <1>3. \A x \in Rows(n) : \E f \in 1 .. k :
           /\ start[f - 1] <= x /\ x < start[f]
           /\ \A g \in 1 .. k : start[g - 1] <= x /\ x < start[g] => g = f
    BY OneRun
  <1>4. \A i \in 1 .. k * r : i = ((k * rep(i)) + fold(i)) + 1
    <2> TAKE i \in 1 .. k * r
    <2>1. i - 1 \in Nat
      OBVIOUS
    <2>2. i - 1 = (k * rep(i)) + fold(i) /\ rep(i) \in Nat /\ fold(i) \in Nat
      BY <1>0, <2>1, DivMod
    <2> HIDE DEF rep, fold
    <2> QED
      BY <1>0, <2>2
  <1>5. \A t \in 0 .. r - 1, f \in 0 .. k - 1 :
           LET i == ((k * t) + f) + 1 IN i \in 1 .. k * r /\ rep(i) = t /\ fold(i) = f
    <2> TAKE t \in 0 .. r - 1, f \in 0 .. k - 1
    <2> DEFINE i == ((k * t) + f) + 1
    <2>1. k * t \in Nat /\ t \in Nat /\ f \in Nat
      BY <1>0
    <2>2. (k * t) + k <= k * r
      <3>1. t + 1 <= r /\ k * (t + 1) = (k * t) + k
        BY <1>0
      <3>2. k * (t + 1) <= k * r
        BY <1>0, <3>1
      <3> QED
        BY <3>1, <3>2
    <2>3. i \in 1 .. k * r
      BY <1>0, <2>1, <2>2
    <2>4. i - 1 = (k * t) + f
      BY <2>1
    <2>5. ((k * t) + f) \div k = t /\ ((k * t) + f) % k = f
      BY <1>0, <2>1, DivModUnique
    <2> QED
      BY <2>3, <2>4, <2>5
  <1> HIDE DEF start, q, rep, fold
  <1>6. \A i \in T : i \in 1 .. k * r /\ rep(i) + 1 \in 1 .. r
    BY <1>1 DEF Testing
  <1>7. \A i \in 1 .. k * r : i \in T <=>
           \E j \in start[fold(i)] + 1 .. start[fold(i) + 1] : perms[rep(i) + 1][j] = s
    BY <1>1 DEF Testing
  <1>8. \A f \in 0 .. k - 1 : /\ start[f] \in 0 .. n /\ start[f + 1] \in 0 .. n
                              /\ f + 1 \in 1 .. k /\ (f + 1) - 1 = f
    BY <1>0, <1>2
  <1> HIDE DEF T
  <1>9. \A t \in 1 .. r : \E i \in T : h[i] = t
    <2> TAKE t \in 1 .. r
    <2>1. t - 1 \in 0 .. r - 1 /\ (t - 1) + 1 = t /\ perms[t] \in Shuffles(n)
      OBVIOUS
    <2>2. PICK j \in 1 .. n : perms[t][j] = s
      BY <1>0, <2>1, ShuffleBijects
    <2>3. j - 1 \in Rows(n)
      BY <1>0 DEF Rows
    <2>4. PICK f \in 1 .. k : start[f - 1] <= j - 1 /\ j - 1 < start[f]
      BY <1>3, <2>3
    <2>5. f - 1 \in 0 .. k - 1 /\ (f - 1) + 1 = f
      BY <1>0
    <2> DEFINE i == ((k * (t - 1)) + (f - 1)) + 1
    <2>6. i \in 1 .. k * r /\ rep(i) = t - 1 /\ fold(i) = f - 1
      BY <1>5, <2>1, <2>5
    <2> HIDE DEF i
    <2>7. j \in start[f - 1] + 1 .. start[f]
      BY <1>8, <2>4, <2>5
    <2>8. i \in T
      BY <1>7, <2>1, <2>2, <2>5, <2>6, <2>7
    <2> QED
      BY <2>1, <2>6, <2>8
  <1>10. ASSUME NEW i \in T, NEW l \in T, h[i] = h[l] PROVE i = l
    <2>1. /\ i \in 1 .. k * r /\ l \in 1 .. k * r
          /\ rep(i) \in 0 .. r - 1 /\ rep(l) \in 0 .. r - 1
          /\ fold(i) \in 0 .. k - 1 /\ fold(l) \in 0 .. k - 1
      BY <1>1, <1>6
    <2>2. rep(i) = rep(l)
      BY <1>10, <2>1
    <2> DEFINE p == perms[rep(i) + 1]
    <2>3. p \in Shuffles(n)
      BY <1>6
    <2> HIDE DEF h
    <2>4. PICK j \in start[fold(i)] + 1 .. start[fold(i) + 1] : p[j] = s
      BY <1>7, <2>1
    <2>5. PICK m \in start[fold(l)] + 1 .. start[fold(l) + 1] : p[m] = s
      BY <1>7, <2>1, <2>2
    <2> HIDE DEF p
    <2>6. j \in 1 .. n /\ m \in 1 .. n
      <3>1. /\ start[fold(i)] \in 0 .. n /\ start[fold(i) + 1] \in 0 .. n
            /\ start[fold(l)] \in 0 .. n /\ start[fold(l) + 1] \in 0 .. n
        BY <1>8, <2>1
      <3>2. \A a, b \in 0 .. n : a + 1 .. b \subseteq 1 .. n
        BY <1>0
      <3>3. start[fold(i)] + 1 .. start[fold(i) + 1] \subseteq 1 .. n
        BY <3>1, <3>2
      <3>4. start[fold(l)] + 1 .. start[fold(l) + 1] \subseteq 1 .. n
        BY <3>1, <3>2
      <3> HIDE DEF fold
      <3>5. j \in 1 .. n
        BY <2>4, <3>3
      <3>6. m \in 1 .. n
        BY <2>5, <3>4
      <3> QED
        BY <3>5, <3>6
    <2>7. j = m
      <3>1. \A a, c \in 1 .. n : p[a] = p[c] => a = c
        BY <1>0, <2>3, ShuffleBijects
      <3> QED
        BY <2>4, <2>5, <2>6, <3>1
    <2> DEFINE x == j - 1
    <2>8. x \in Rows(n)
      BY <1>0, <2>6 DEF Rows
    <2>9. start[fold(i)] <= x /\ x < start[fold(i) + 1] /\ start[fold(l)] <= x /\ x < start[fold(l) + 1]
      <3>1. /\ start[fold(i)] \in 0 .. n /\ start[fold(i) + 1] \in 0 .. n
            /\ start[fold(l)] \in 0 .. n /\ start[fold(l) + 1] \in 0 .. n
        BY <1>8, <2>1
      <3>2. \A a, b \in 0 .. n : \A y \in a + 1 .. b : a <= y - 1 /\ y - 1 < b
        BY <1>0
      <3>3. j \in start[fold(l)] + 1 .. start[fold(l) + 1]
        BY <2>7
      <3> QED
        BY <3>1, <3>2, <3>3
    <2> HIDE DEF x
    <2>10. PICK f \in 1 .. k : \A g \in 1 .. k : start[g - 1] <= x /\ x < start[g] => g = f
      BY <1>3, <2>8
    <2>11. fold(i) + 1 = f /\ fold(l) + 1 = f
      BY <1>8, <2>1, <2>9, <2>10
    <2>12. fold(i) = fold(l)
      BY <2>1, <2>11
    <2> QED
      BY <1>4, <2>1, <2>2, <2>12
  <1>11. h \in Bijection(T, 1 .. r)
    <2>1. h \in [T -> 1 .. r]
      BY <1>6
    <2> HIDE DEF h
    <2>2. DOMAIN h = T
      BY <2>1
    <2> QED
      BY <1>9, <1>10, <2>1, <2>2 DEF Bijection, Injection, Surjection, IsInjective
  <1>12. IsFiniteSet(T)
    <2>1. IsFiniteSet(1 .. k * r) /\ T \in SUBSET (1 .. k * r)
      BY <1>0, <1>6, FS_Interval
    <2> QED
      BY <2>1, FS_Subset
  <1>13. Cardinality(1 .. r) = Cardinality(T)
    BY <1>11, <1>12, FS_Bijection DEF ExistsBijection
  <1>14. Cardinality(1 .. r) = r
    <2>1. Cardinality(1 .. r) = IF 1 > r THEN 0 ELSE r - 1 + 1
      BY FS_Interval
    <2> QED
      BY <2>1
  <1> QED
    BY <1>13, <1>14 DEF T, q

-----------------------------------------------------------------------------
(***************************************************************************)
(* A plan is as the generator resized it until its folds are filled.       *)
(***************************************************************************)
USE CountsAssumption

LEMMA VectorLength ==
    ASSUME NEW q, NEW m, Vector(q, m)
    PROVE  Len(q) = m /\ DOMAIN q = 1 .. m
  <1> DEFINE S == {q[i] : i \in 1 .. m}
  <1>1. DOMAIN q = 1 .. m /\ m \in Nat
    BY DEF Vector
  <1>2. q \in [1 .. m -> S]
    BY DEF Vector
  <1>3. q \in Seq(S)
    BY <1>1, <1>2
  <1> QED
    BY <1>1, <1>3

(* Neither kind of consumer takes a plan that is empty or lacks a side.    *)
LEMMA UselessRefused ==
    ASSUME NEW p, Useless(p.folds)
    PROVE  ~Partitions(p) /\ ~AomAccepts(p)
  BY DEF Useless, Lacking, Partitions, AomAccepts, WellFormed

(* A generator that starts resizes to at least one fold; one that does not *)
(* leaves no folds at all.                                                 *)
LEMMA GenerateStep ==
    ASSUME NEW maker, NEW valid \in BOOLEAN, NEW folds, Generate(maker, valid, folds),
           valid => folds \in Nat \ {0}
    PROVE  FillInv'
  <1>1. CASE valid /\ Accept(maker, folds)
    <2>1. plan' = [n_samples |-> maker[2], folds |-> [f \in 1 .. folds |-> EmptyFold]]
          /\ filling' = 1 /\ folds \in Nat \ {0}
      BY <1>1 DEF Accept
    <2>2. plan'.folds = [f \in 1 .. folds |-> EmptyFold]
          /\ plan' = [n_samples |-> plan'.n_samples, folds |-> plan'.folds]
      BY <2>1
    <2>3. Vector(plan'.folds, folds) /\ 1 \in 1 .. folds /\ folds \in Nat
      BY <2>1, <2>2 DEF Vector
    <2> QED
      BY <2>1, <2>2, <2>3 DEF FillInv, Idle
  <1>2. CASE ~(valid /\ Accept(maker, folds))
    <2>1. filling' = 0
      BY <1>2 DEF Generate, Answer
    <2>2. plan' \in {Unset, [Unset EXCEPT !.n_samples = maker[2]]}
      BY <1>2 DEF Generate
    <2>3. plan'.folds = <<>>
      BY <2>2 DEF Unset
    <2> QED
      BY <2>1, <2>3 DEF FillInv, Idle, Useless
  <1> QED
    BY <1>1, <1>2

LEMMA FoldsToFill ==
    ASSUME NEW k \in Int, NEW repeats \in Int, k >= 2, repeats >= 1
    PROVE  k \in Nat \ {0} /\ repeats \in Nat \ {0} /\ k * repeats \in Nat \ {0}
  OBVIOUS

LEMMA FillStep == FillInv /\ [Next]_planVars => FillInv'
  <1> SUFFICES ASSUME FillInv, [Next]_planVars PROVE FillInv'
    OBVIOUS
  <1>1. CASE Create
    BY <1>1 DEF Create, Answer, FillInv, Idle
  <1>2. ASSUME NEW n \in SampleCounts, SetNSamples(n) PROVE FillInv'
    BY <1>2 DEF SetNSamples, Handmade, Answer, FillInv, Idle
  <1>3. ASSUME NEW f \in HandFolds, AddFold(f[1], f[2]) PROVE FillInv'
    BY <1>3 DEF AddFold, Handmade, Answer, FillInv, Idle
  <1>4. ASSUME NEW n \in Int, NEW k \in Int, MakeKFold(n, k) PROVE FillInv'
    <2> DEFINE valid == KFoldArguments(n, k)
    <2>1. Generate(<<"kfold", n, k>>, valid, k)
      BY <1>4 DEF MakeKFold
    <2>2. valid \in BOOLEAN /\ (valid => k \in Nat \ {0})
      BY DEF KFoldArguments
    <2> HIDE DEF valid
    <2> QED
      BY <2>1, <2>2, GenerateStep, Zenon
  <1>5. ASSUME NEW n \in SampleCounts, NEW start \in Counts, NEW count \in Counts,
               MakeHoldout(n, start, count)
        PROVE  FillInv'
    <2> DEFINE valid == HoldoutArguments(n, start, count)
    <2>1. Generate(<<"holdout", n, start, count>>, valid, 1)
      BY <1>5 DEF MakeHoldout
    <2>2. valid \in BOOLEAN /\ (valid => 1 \in Nat \ {0})
      BY DEF HoldoutArguments
    <2> HIDE DEF valid
    <2> QED
      BY <2>1, <2>2, GenerateStep, Zenon
  <1>6. ASSUME NEW n \in SampleCounts, NEW k \in Counts, NEW r \in Repeats,
               MakeRepeatedKFold(n, k, r)
        PROVE  FillInv'
    <2> DEFINE valid == KFoldArguments(n, k) /\ r >= 1
    <2>1. PICK perms \in Draws(n, r, valid) : Generate(<<"repeated", n, k, perms>>, valid, k * r)
      BY <1>6 DEF MakeRepeatedKFold
    <2>2. valid \in BOOLEAN /\ (valid => k * r \in Nat \ {0})
      BY FoldsToFill DEF KFoldArguments
    <2> HIDE DEF valid
    <2> QED
      BY <2>1, <2>2, GenerateStep, Zenon
  <1>7. ASSUME NEW n \in SampleCounts, NEW count \in Counts, NEW r \in Repeats,
               MakeMonteCarlo(n, count, r)
        PROVE  FillInv'
    <2> DEFINE valid == MonteCarloArguments(n, count, r)
    <2>1. PICK perms \in Draws(n, r, valid) : Generate(<<"monte_carlo", n, count, perms>>, valid, r)
      BY <1>7 DEF MakeMonteCarlo
    <2>2. valid \in BOOLEAN /\ (valid => r \in Nat \ {0})
      BY DEF MonteCarloArguments
    <2> HIDE DEF valid
    <2> QED
      BY <2>1, <2>2, GenerateStep, Zenon
  <1>8. ASSUME NEW n, NEW ids \in FoldIds, NEW k \in Counts, MakeExternalFolds(n, ids, k)
        PROVE  FillInv'
    <2> DEFINE valid == ExternalArguments(n, ids, k)
    <2>1. Generate(<<"external", n, ids, k>>, valid, k)
      BY <1>8 DEF MakeExternalFolds
    <2>2. valid \in BOOLEAN /\ (valid => k \in Nat \ {0})
      BY DEF ExternalArguments, KFoldArguments
    <2> HIDE DEF valid
    <2> QED
      BY <2>1, <2>2, GenerateStep, Zenon
  <1>9. ASSUME NEW x \in Matrices, NEW count \in Counts, MakeKennardStone(x, count)
        PROVE  FillInv'
    <2> DEFINE valid == RepresentativeArguments(Len(x), count)
    <2>1. Generate(<<"kennard_stone", Len(x), x, count>>, valid, 1)
      BY <1>9 DEF MakeKennardStone
    <2>2. valid \in BOOLEAN /\ (valid => 1 \in Nat \ {0})
      BY DEF RepresentativeArguments
    <2> HIDE DEF valid
    <2> QED
      BY <2>1, <2>2, GenerateStep, Zenon
  <1>10. ASSUME NEW x \in Matrices, NEW y \in Matrices, NEW count \in Counts, MakeSpxy(x, y, count)
         PROVE  FillInv'
    <2> DEFINE valid == Len(y) = Len(x) /\ RepresentativeArguments(Len(x), count)
    <2>1. Generate(<<"spxy", Len(x), x, y, count>>, valid, 1)
      BY <1>10 DEF MakeSpxy
    <2>2. valid \in BOOLEAN /\ (valid => 1 \in Nat \ {0})
      BY DEF RepresentativeArguments
    <2> HIDE DEF valid
    <2> QED
      BY <2>1, <2>2, GenerateStep, Zenon
  <1>11. ASSUME ~Idle, NEW g, plan' = [plan EXCEPT !.folds[filling] = g]
         PROVE  /\ plan' = [n_samples |-> plan'.n_samples, folds |-> plan'.folds]
                /\ \E m \in Nat : /\ Vector(plan.folds, m) /\ Vector(plan'.folds, m)
                                  /\ filling \in 1 .. m /\ filling \in DOMAIN plan'.folds
                                  /\ plan'.folds[filling] = g
    <2>1. PICK m \in Nat : Vector(plan.folds, m) /\ filling \in 1 .. m
      BY <1>11 DEF FillInv
    <2>2. plan = [n_samples |-> plan.n_samples, folds |-> plan.folds]
      BY <1>11 DEF FillInv
    <2>3. plan' = [n_samples |-> plan.n_samples, folds |-> [plan.folds EXCEPT ![filling] = g]]
      BY <1>11, <2>2
    <2>4. plan'.folds = [plan.folds EXCEPT ![filling] = g] /\ plan'.n_samples = plan.n_samples
      BY <2>3
    <2>5. Vector(plan'.folds, m) /\ filling \in DOMAIN plan'.folds /\ plan'.folds[filling] = g
      BY <2>1, <2>4 DEF Vector
    <2> QED
      BY <2>1, <2>3, <2>4, <2>5
  <1>12. CASE FillFold
    <2>1. PICK m \in Nat : /\ Vector(plan.folds, m) /\ Vector(plan'.folds, m) /\ filling \in 1 .. m
                           /\ plan' = [n_samples |-> plan'.n_samples, folds |-> plan'.folds]
      BY <1>11, <1>12 DEF FillFold
    <2>2. CASE filling = Len(plan.folds)
      BY <1>12, <2>2 DEF FillFold, Answer, FillInv, Idle
    <2>3. CASE filling # Len(plan.folds)
      <3>1. filling' = filling + 1 /\ filling # m
        BY <1>12, <2>1, <2>3, VectorLength DEF FillFold
      <3>2. filling' \in 1 .. m /\ filling' # 0
        BY <2>1, <3>1
      <3> QED
        BY <2>1, <3>2 DEF FillInv, Idle
    <2> QED
      BY <2>2, <2>3
  <1>13. CASE AllocationFails
    <2>1. ~Idle /\ filling' = 0
      BY <1>13 DEF AllocationFails, Answer
    <2>2. PICK g \in PartialFolds(made, FoldsOf(made)[filling]) :
                plan' = [plan EXCEPT !.folds[filling] = g]
      BY <1>13 DEF AllocationFails
    <2>3. Lacking(g)
      <3>1. \A f : \A h \in PartialFolds(made, f) : Lacking(h)
        BY DEF PartialFolds, Lacking, EmptyFold
      <3> QED
        BY <2>2, <3>1
    <2>4. Useless(plan'.folds)
      BY <1>11, <2>1, <2>2, <2>3 DEF Useless
    <2> QED
      BY <2>1, <2>4 DEF FillInv, Idle
  <1>14. CASE UNCHANGED planVars
    BY <1>14 DEF planVars, FillInv, Idle
  <1>15. CASE GeneratorStep
    <2>1. ASSUME NEW n \in SampleCounts, MakeLeaveOneOut(n) PROVE FillInv'
      BY <1>4, <2>1 DEF MakeLeaveOneOut
    <2> QED
      BY <1>4, <1>5, <1>6, <1>7, <1>8, <1>9, <1>10, <1>12, <1>13, <1>15, <2>1 DEF GeneratorStep
  <1> QED
    BY <1>1, <1>2, <1>3, <1>14, <1>15 DEF Next, HandStep

-----------------------------------------------------------------------------
(***************************************************************************)
(* What the folds of a generator make of a plan for NRows samples.         *)
(***************************************************************************)
LEMMA SharedIsWellFormed ==
    ASSUME NEW f, SharesOut(f, NRows)
    PROVE  WellFormed(f) /\ Elements(f.train) \cup Elements(f.test) = Samples
  BY DEF SharesOut, WellFormed, Samples, Rows

LEMMA SharedComplementary ==
    ASSUME NEW p, NEW m, p.n_samples = NRows, AllShare(p.folds, NRows, m)
    PROVE  /\ AomAccepts(p) /\ p.folds # <<>>
           /\ \A f \in DOMAIN p.folds :
                 /\ WellFormed(p.folds[f])
                 /\ Elements(p.folds[f].train) \cup Elements(p.folds[f].test) = Samples
  <1>1. p.folds # <<>>
    <2>1. Len(p.folds) > 0
      BY DEF AllShare
    <2>2. Len(<<>>) = 0
      OBVIOUS
    <2> QED
      BY <2>1, <2>2
  <1>2. \A f \in DOMAIN p.folds : SharesOut(p.folds[f], NRows)
    BY DEF AllShare
  <1> QED
    BY <1>1, <1>2, SharedIsWellFormed DEF AomAccepts

LEMMA SharedPartition ==
    ASSUME NEW p, NEW m, p.n_samples = NRows, AllShare(p.folds, NRows, m),
           \A s \in Samples : \E f \in 1 .. m : Testing(p.folds, s) = {f}
    PROVE  Partitions(p)
  <1>1. /\ p.folds # <<>> /\ DOMAIN p.folds = 1 .. m
        /\ \A f \in DOMAIN p.folds : WellFormed(p.folds[f])
    BY SharedComplementary DEF AllShare
  <1>2. \A f \in DOMAIN p.folds : Elements(p.folds[f].test) \subseteq Samples
    BY <1>1 DEF WellFormed
  <1>3. ASSUME NEW f \in DOMAIN p.folds, NEW g \in DOMAIN p.folds, f # g
        PROVE  Elements(p.folds[f].test) \cap Elements(p.folds[g].test) = {}
    <2> SUFFICES ASSUME NEW s, s \in Elements(p.folds[f].test), s \in Elements(p.folds[g].test)
                 PROVE  FALSE
      OBVIOUS
    <2>1. s \in Samples
      BY <1>2
    <2>2. PICK h \in 1 .. m : Testing(p.folds, s) = {h}
      BY <2>1
    <2>3. f = h /\ g = h
      BY <2>2 DEF Testing
    <2> QED
      BY <1>3, <2>3
  <1>4. UNION {Elements(p.folds[f].test) : f \in DOMAIN p.folds} = Samples
    <2>1. ASSUME NEW s \in Samples PROVE \E f \in DOMAIN p.folds : s \in Elements(p.folds[f].test)
      <3>1. PICK h \in 1 .. m : Testing(p.folds, s) = {h}
        OBVIOUS
      <3> QED
        BY <3>1 DEF Testing
    <2> QED
      BY <1>2, <2>1
  <1> QED
    BY <1>1, <1>3, <1>4 DEF Partitions

LEMMA ExternalTestedOnce ==
    ASSUME NEW n \in Int, NEW k \in Int, NEW ids, ExternalArguments(n, ids, k), NEW s \in Rows(n)
    PROVE  \E f \in 1 .. k : Testing(ExternalFolds(n, ids, k), s) = {f}
  <1> DEFINE q == ExternalFolds(n, ids, k)
             f == ids[s] + 1
  <1>1. DOMAIN q = 1 .. k /\ \A g \in 1 .. k : Elements(q[g].test) = {x \in Rows(n) : ids[x] = g - 1}
    BY ExternalFoldsShare DEF AllShare
  <1>2. ids[s] \in 0 .. k - 1
    BY DEF ExternalArguments
  <1>3. f \in 1 .. k /\ \A g \in 1 .. k : ids[s] = g - 1 <=> g = f
    BY <1>2
  <1> HIDE DEF q, f
  <1>4. Testing(q, s) = {f}
    BY <1>1, <1>3 DEF Testing
  <1> QED
    BY <1>3, <1>4 DEF q

-----------------------------------------------------------------------------
(***************************************************************************)
(* What a plan that is being filled, or was, can have been made by.        *)
(***************************************************************************)
ByKFold(m) == \E n, k \in Int : KFoldArguments(n, k) /\ m = <<"kfold", n, k>>
ByHoldout(m) == \E n, start, count \in Int :
                   HoldoutArguments(n, start, count) /\ m = <<"holdout", n, start, count>>
ByExternal(m) == \E n, k \in Int, ids \in FoldIds :
                    ExternalArguments(n, ids, k) /\ m = <<"external", n, ids, k>>
ByRepeated(m) == \E n, k, r \in Int : \E perms \in [1 .. r -> Shuffles(n)] :
                    KFoldArguments(n, k) /\ r >= 1 /\ m = <<"repeated", n, k, perms>>
ByMonteCarlo(m) == \E n, count, r \in Int : \E perms \in [1 .. r -> Shuffles(n)] :
                      MonteCarloArguments(n, count, r) /\ m = <<"monte_carlo", n, count, perms>>
ByKennardStone(m) == \E x \in Matrices, count \in Int :
                        /\ RepresentativeArguments(Len(x), count)
                        /\ m = <<"kennard_stone", Len(x), x, count>>
BySpxy(m) == \E x, y \in Matrices, count \in Int :
                /\ Len(y) = Len(x) /\ RepresentativeArguments(Len(x), count)
                /\ m = <<"spxy", Len(x), x, y, count>>

Legal(m) == \/ ByKFold(m) \/ ByHoldout(m) \/ ByExternal(m) \/ ByRepeated(m)
            \/ ByMonteCarlo(m) \/ ByKennardStone(m) \/ BySpxy(m)

LEMMA MatrixTables ==
    ASSUME NEW x \in Matrices
    PROVE  Len(x) \in Nat /\ Distances(Len(x), PairwiseDistances(x))
  BY BuffersAssumption, PairwiseTable DEF Matrix

LEMMA KFoldMade ==
    ASSUME NEW n \in Int, NEW k \in Int, KFoldArguments(n, k)
    PROVE  LET m == <<"kfold", n, k>>
           IN m[2] = n /\ FoldCounts(n, k) /\ FoldsOf(m) = KFold(n, k) /\ AllShare(FoldsOf(m), n, k)
  <1> DEFINE m == <<"kfold", n, k>>
  <1>1. FoldCounts(n, k)
    BY DEF FoldCounts, KFoldArguments
  <1>2. m[1] = "kfold" /\ m[2] = n /\ m[3] = k
    OBVIOUS
  <1> HIDE DEF m
  <1>3. FoldsOf(m) = KFold(n, k)
    BY <1>2 DEF FoldsOf
  <1> QED
    BY <1>1, <1>2, <1>3, KFoldFolds DEF m

LEMMA HoldoutMade ==
    ASSUME NEW n \in Int, NEW start \in Int, NEW count \in Int, HoldoutArguments(n, start, count)
    PROVE  LET m == <<"holdout", n, start, count>> IN m[2] = n /\ AllShare(FoldsOf(m), n, 1)
  <1> DEFINE m == <<"holdout", n, start, count>>
  <1>1. m[1] = "holdout" /\ m[2] = n /\ m[3] = start /\ m[4] = count
    OBVIOUS
  <1> HIDE DEF m
  <1>2. FoldsOf(m) = Holdout(n, start, count)
    BY <1>1 DEF FoldsOf
  <1> QED
    BY <1>1, <1>2, HoldoutFolds DEF m

LEMMA ExternalMade ==
    ASSUME NEW n \in Int, NEW k \in Int, NEW ids, ExternalArguments(n, ids, k)
    PROVE  LET m == <<"external", n, ids, k>>
           IN /\ m[2] = n /\ FoldsOf(m) = ExternalFolds(n, ids, k) /\ AllShare(FoldsOf(m), n, k)
  <1> DEFINE m == <<"external", n, ids, k>>
  <1>1. m[1] = "external" /\ m[2] = n /\ m[3] = ids /\ m[4] = k
    OBVIOUS
  <1> HIDE DEF m
  <1>2. FoldsOf(m) = ExternalFolds(n, ids, k)
    BY <1>1 DEF FoldsOf
  <1> QED
    BY <1>1, <1>2, ExternalFoldsShare DEF m

LEMMA RepeatedMade ==
    ASSUME NEW n \in Int, NEW k \in Int, KFoldArguments(n, k), NEW r \in Int, r >= 1,
           NEW perms \in [1 .. r -> Shuffles(n)]
    PROVE  LET m == <<"repeated", n, k, perms>>
           IN /\ m[2] = n /\ FoldCounts(n, k) /\ FoldsOf(m) = RepeatedKFold(n, k, perms)
              /\ AllShare(FoldsOf(m), n, k * r)
  <1> DEFINE m == <<"repeated", n, k, perms>>
  <1>1. FoldCounts(n, k) /\ r \in Nat /\ r > 0
    BY DEF FoldCounts, KFoldArguments
  <1>2. m[1] = "repeated" /\ m[2] = n /\ m[3] = k /\ m[4] = perms
    OBVIOUS
  <1> HIDE DEF m
  <1>3. FoldsOf(m) = RepeatedKFold(n, k, perms)
    BY <1>2 DEF FoldsOf
  <1>4. AllShare(RepeatedKFold(n, k, perms), n, k * r)
    BY <1>1, RepeatedFolds
  <1> QED
    BY <1>1, <1>2, <1>3, <1>4 DEF m

LEMMA MonteCarloMade ==
    ASSUME NEW n \in Int, NEW count \in Int, NEW r \in Int, MonteCarloArguments(n, count, r),
           NEW perms \in [1 .. r -> Shuffles(n)]
    PROVE  LET m == <<"monte_carlo", n, count, perms>> IN m[2] = n /\ AllShare(FoldsOf(m), n, r)
  <1> DEFINE m == <<"monte_carlo", n, count, perms>>
  <1>1. m[1] = "monte_carlo" /\ m[2] = n /\ m[3] = count /\ m[4] = perms
    OBVIOUS
  <1> HIDE DEF m
  <1>2. FoldsOf(m) = MonteCarlo(n, count, perms)
    BY <1>1 DEF FoldsOf
  <1>3. AllShare(MonteCarlo(n, count, perms), n, r)
    BY MonteCarloFolds
  <1> QED
    BY <1>1, <1>2, <1>3 DEF m

LEMMA KennardStoneMade ==
    ASSUME NEW x \in Matrices, NEW count \in Int, RepresentativeArguments(Len(x), count)
    PROVE  LET m == <<"kennard_stone", Len(x), x, count>>
               d == PairwiseDistances(x)
           IN /\ m[2] = Len(x) /\ m[3] = x /\ AllShare(FoldsOf(m), Len(x), 1)
              /\ Spread(Elements(FoldsOf(m)[1].train), Len(x), d)
  <1> DEFINE m == <<"kennard_stone", Len(x), x, count>>
             n == Len(x)
             d == PairwiseDistances(x)
  <1>1. m[1] = "kennard_stone" /\ m[2] = n /\ m[3] = x /\ m[4] = count
    OBVIOUS
  <1> HIDE DEF m
  <1>2. FoldsOf(m) = KennardStone(n, d, count)
    BY <1>1 DEF FoldsOf
  <1>3. n \in Int /\ Distances(n, d) /\ RepresentativeArguments(n, count)
    BY MatrixTables
  <1> HIDE DEF n, d
  <1>4. /\ AllShare(KennardStone(n, d, count), n, 1)
        /\ Spread(Elements(KennardStone(n, d, count)[1].train), n, d)
    BY <1>3, KennardStoneFolds
  <1> QED
    BY <1>1, <1>2, <1>4 DEF m, n, d

LEMMA SpxyMade ==
    ASSUME NEW x \in Matrices, NEW y \in Matrices, NEW count \in Int,
           Len(y) = Len(x), RepresentativeArguments(Len(x), count)
    PROVE  LET m == <<"spxy", Len(x), x, y, count>>
               d == SpxyDistances(Len(x), PairwiseDistances(x), PairwiseDistances(y))
           IN /\ m[2] = Len(x) /\ m[3] = x /\ m[4] = y /\ AllShare(FoldsOf(m), Len(x), 1)
              /\ Spread(Elements(FoldsOf(m)[1].train), Len(x), d)
  <1> DEFINE m == <<"spxy", Len(x), x, y, count>>
             n == Len(x)
             dx == PairwiseDistances(x)
             dy == PairwiseDistances(y)
             d == SpxyDistances(n, dx, dy)
  <1>1. m[1] = "spxy" /\ m[2] = n /\ m[3] = x /\ m[4] = y /\ m[5] = count
    OBVIOUS
  <1> HIDE DEF m
  <1>2. FoldsOf(m) = KennardStone(n, d, count)
    BY <1>1 DEF FoldsOf
  <1>3. n \in Nat /\ n >= 2 /\ Distances(n, dx) /\ Distances(n, dy) /\ RepresentativeArguments(n, count)
    BY MatrixTables DEF RepresentativeArguments
  <1> HIDE DEF n, dx, dy
  <1>4. Distances(n, d)
    BY <1>3, SpxyTable
  <1> HIDE DEF d
  <1>5. /\ AllShare(KennardStone(n, d, count), n, 1)
        /\ Spread(Elements(KennardStone(n, d, count)[1].train), n, d)
    BY <1>3, <1>4, KennardStoneFolds
  <1> QED
    BY <1>1, <1>2, <1>5 DEF m, n, d, dx, dy

(* Whatever made a plan, the folds it is filled with share out the samples. *)
LEMMA LegalFolds ==
    ASSUME NEW m, Legal(m)
    PROVE  m[2] \in Nat /\ AllShare(FoldsOf(m), m[2], Len(FoldsOf(m)))
  <1>1. \A q, n, l : AllShare(q, n, l) => AllShare(q, n, Len(q))
    BY DEF AllShare
  <1>2. CASE ByKFold(m)
    <2>1. PICK n \in Int, k \in Int : KFoldArguments(n, k) /\ m = <<"kfold", n, k>>
      BY <1>2 DEF ByKFold
    <2>2. m[2] = n /\ AllShare(FoldsOf(m), n, k) /\ n \in Nat
      BY <2>1, KFoldMade DEF FoldCounts
    <2> QED
      BY <1>1, <2>2
  <1>3. CASE ByHoldout(m)
    <2>1. PICK n \in Int, start \in Int, count \in Int :
                HoldoutArguments(n, start, count) /\ m = <<"holdout", n, start, count>>
      BY <1>3 DEF ByHoldout
    <2>2. m[2] = n /\ AllShare(FoldsOf(m), n, 1) /\ n \in Nat
      BY <2>1, HoldoutMade DEF HoldoutArguments
    <2> QED
      BY <1>1, <2>2
  <1>4. CASE ByExternal(m)
    <2>1. PICK n \in Int, k \in Int, ids \in FoldIds :
                ExternalArguments(n, ids, k) /\ m = <<"external", n, ids, k>>
      BY <1>4 DEF ByExternal
    <2>2. m[2] = n /\ AllShare(FoldsOf(m), n, k) /\ n \in Nat
      BY <2>1, ExternalMade DEF ExternalArguments, KFoldArguments
    <2> QED
      BY <1>1, <2>2
  <1>5. CASE ByRepeated(m)
    <2>0. PICK n \in Int, k \in Int, r \in Int : \E perms \in [1 .. r -> Shuffles(n)] :
                KFoldArguments(n, k) /\ r >= 1 /\ m = <<"repeated", n, k, perms>>
      BY <1>5 DEF ByRepeated
    <2>1. PICK perms \in [1 .. r -> Shuffles(n)] :
                KFoldArguments(n, k) /\ r >= 1 /\ m = <<"repeated", n, k, perms>>
      BY <2>0
    <2>2. m[2] = n /\ AllShare(FoldsOf(m), n, k * r) /\ n \in Nat
      BY <2>1, RepeatedMade DEF FoldCounts
    <2> QED
      BY <1>1, <2>2
  <1>6. CASE ByMonteCarlo(m)
    <2>0. PICK n \in Int, count \in Int, r \in Int : \E perms \in [1 .. r -> Shuffles(n)] :
                MonteCarloArguments(n, count, r) /\ m = <<"monte_carlo", n, count, perms>>
      BY <1>6 DEF ByMonteCarlo
    <2>1. PICK perms \in [1 .. r -> Shuffles(n)] :
                MonteCarloArguments(n, count, r) /\ m = <<"monte_carlo", n, count, perms>>
      BY <2>0
    <2>2. m[2] = n /\ AllShare(FoldsOf(m), n, r) /\ n \in Nat
      BY <2>1, MonteCarloMade DEF MonteCarloArguments
    <2> QED
      BY <1>1, <2>2
  <1>7. CASE ByKennardStone(m)
    <2>1. PICK x \in Matrices, count \in Int :
                RepresentativeArguments(Len(x), count) /\ m = <<"kennard_stone", Len(x), x, count>>
      BY <1>7 DEF ByKennardStone
    <2>2. m[2] = Len(x) /\ AllShare(FoldsOf(m), Len(x), 1) /\ Len(x) \in Nat
      BY <2>1, KennardStoneMade, MatrixTables
    <2> QED
      BY <1>1, <2>2
  <1>8. CASE BySpxy(m)
    <2>1. PICK x \in Matrices, y \in Matrices, count \in Int :
                /\ Len(y) = Len(x) /\ RepresentativeArguments(Len(x), count)
                /\ m = <<"spxy", Len(x), x, y, count>>
      BY <1>8 DEF BySpxy
    <2>2. m[2] = Len(x) /\ AllShare(FoldsOf(m), Len(x), 1) /\ Len(x) \in Nat
      BY <2>1, SpxyMade, MatrixTables
    <2> QED
      BY <1>1, <2>2
  <1> QED
    BY <1>2, <1>3, <1>4, <1>5, <1>6, <1>7, <1>8 DEF Legal

-----------------------------------------------------------------------------
(***************************************************************************)
(* The folds before the one a generator is at are those its loop writes;   *)
(* a call that returned OK wrote them all.                                 *)
(***************************************************************************)
Filled(f) == \A i \in 1 .. f : plan.folds[i] = FoldsOf(made)[i]

PlanInv ==
    /\ TypeOK
    /\ ~Idle => /\ Legal(made) /\ status = "OK" /\ plan.n_samples = made[2]
                /\ Len(plan.folds) = Len(FoldsOf(made)) /\ Filled(filling - 1)
    /\ Idle /\ made # ByHand /\ status = "OK" =>
          Legal(made) /\ plan.n_samples = made[2] /\ plan.folds = FoldsOf(made)

(* A vector of folds is a sequence of them.                                *)
LEMMA FoldVector ==
    ASSUME NEW m \in Nat, NEW q, q = [i \in 1 .. m |-> q[i]], \A i \in 1 .. m : q[i] \in Fold
    PROVE  q \in Seq(Fold) /\ Len(q) = m /\ DOMAIN q = 1 .. m
  <1>1. q \in [1 .. m -> Fold]
    OBVIOUS
  <1> QED
    BY <1>1, SeqDef

LEMMA EmptyFoldType == EmptyFold \in Fold /\ \A a \in Seq(Int) :
                          [train |-> a, test |-> <<>>] \in Fold /\ [train |-> <<>>, test |-> a] \in Fold
  <1>1. <<>> \in Seq(Int)
    BY EmptySeq
  <1> QED
    BY <1>1 DEF EmptyFold, Fold

LEMMA PlanType ==
    ASSUME NEW n \in Int, NEW q \in Seq(Fold)
    PROVE  [n_samples |-> n, folds |-> q] \in Plan
  BY DEF Plan

LEMMA EmptyPlanType ==
    ASSUME NEW n \in Nat, NEW p, p = [n_samples |-> n, folds |-> <<>>]
    PROVE  p \in Plan /\ p.n_samples >= 0 /\ p.folds = <<>>
  <1> DEFINE e == <<>>
  <1>1. e \in Seq(Fold)
    BY EmptySeq
  <1>2. p = [n_samples |-> n, folds |-> e]
    OBVIOUS
  <1> HIDE DEF e
  <1>3. p \in Plan /\ p.n_samples = n /\ p.folds = e
    BY <1>1, <1>2, PlanType
  <1> QED
    BY <1>3 DEF e

LEMMA GeneratePlan ==
    ASSUME NEW maker, NEW valid \in BOOLEAN, NEW folds, Generate(maker, valid, folds),
           valid => Legal(maker) /\ folds = Len(FoldsOf(maker))
    PROVE  PlanInv'
  <1>0. <<>> \in Seq(Fold) /\ Len(<<>>) = 0
    BY EmptySeq
  <1>1. CASE valid /\ Accept(maker, folds)
    <2> DEFINE q == [f \in 1 .. folds |-> EmptyFold]
    <2>1. /\ plan' = [n_samples |-> maker[2], folds |-> q] /\ made' = maker
          /\ filling' = 1 /\ status' = "OK"
      BY <1>1 DEF Accept, Generate
    <2>2. /\ Legal(maker) /\ folds = Len(FoldsOf(maker)) /\ folds \in Nat /\ folds > 0
          /\ maker[2] \in Nat
      BY <1>1, LegalFolds DEF AllShare
    <2>3. q = [f \in 1 .. folds |-> q[f]] /\ \A f \in 1 .. folds : q[f] \in Fold
      BY EmptyFoldType
    <2> HIDE DEF q
    <2>4. q \in Seq(Fold) /\ Len(q) = folds
      BY <2>2, <2>3, FoldVector
    <2>5. plan' \in Plan /\ plan'.n_samples = maker[2] /\ plan'.folds = q
      BY <2>1, <2>2, <2>4, PlanType
    <2>6. 1 \in 0 .. folds
      BY <2>2
    <2>7. TypeOK'
      BY <2>1, <2>2, <2>4, <2>5, <2>6 DEF TypeOK
    <2>8. Filled(filling - 1)'
      <3>1. \A i \in 1 .. 1 - 1 : FALSE
        OBVIOUS
      <3> QED
        BY <2>1, <3>1 DEF Filled
    <2> QED
      BY <2>1, <2>2, <2>4, <2>5, <2>7, <2>8 DEF PlanInv, Idle
  <1>2. CASE valid /\ ~Accept(maker, folds)
    <2>1. /\ filling' = 0 /\ status' = "OUT_OF_MEMORY"
          /\ plan' \in {Unset, [Unset EXCEPT !.n_samples = maker[2]]}
      BY <1>2 DEF Generate, Answer
    <2>2. maker[2] \in Nat
      BY <1>2, LegalFolds
    <2>3. \E n \in Nat : plan' = [n_samples |-> n, folds |-> <<>>]
      BY <2>1, <2>2 DEF Unset
    <2>4. plan' \in Plan /\ plan'.n_samples >= 0 /\ plan'.folds = <<>>
      BY <2>3, EmptyPlanType
    <2> QED
      BY <1>0, <2>1, <2>4 DEF PlanInv, TypeOK, Idle
  <1>3. CASE ~valid
    <2>1. filling' = 0 /\ status' = "INVALID_ARGUMENT" /\ plan' = Unset
      BY <1>3 DEF Generate, Answer
    <2>2. plan' \in Plan /\ plan'.n_samples >= 0 /\ plan'.folds = <<>>
      BY <2>1, EmptyPlanType DEF Unset
    <2> QED
      BY <1>0, <2>1, <2>2 DEF PlanInv, TypeOK, Idle
  <1> QED
    BY <1>1, <1>2, <1>3

LEMMA HandPlan ==
    ASSUME PlanInv, HandStep
    PROVE  PlanInv'
  <1>0. /\ plan \in Plan /\ plan.n_samples >= 0
        /\ <<>> \in Seq(Fold) /\ Len(<<>>) = 0
    BY EmptySeq DEF PlanInv, TypeOK
  <1>1. CASE Create
    <2>1. filling' = 0 /\ status' = "OK" /\ made' = ByHand /\ plan' = Unset
      BY <1>1 DEF Create, Answer
    <2>2. plan' \in Plan /\ plan'.n_samples >= 0 /\ plan'.folds = <<>>
      BY <2>1, EmptyPlanType DEF Unset
    <2> QED
      BY <1>0, <2>1, <2>2 DEF PlanInv, TypeOK, Idle
  <1>2. ASSUME NEW n \in SampleCounts, SetNSamples(n) PROVE PlanInv'
    <2>1. /\ filling' = 0 /\ status' \in {"OK", "INVALID_ARGUMENT"} /\ made' = ByHand
          /\ plan' = plan \/ (n >= 0 /\ plan' = [plan EXCEPT !.n_samples = n])
      BY <1>2 DEF SetNSamples, Handmade, Answer
    <2>2. plan' \in Plan /\ plan'.n_samples >= 0
      BY <1>0, <2>1 DEF Plan
    <2>3. 0 \in 0 .. Len(plan'.folds)
      <3>1. plan'.folds \in Seq(Fold)
        BY <2>2 DEF Plan
      <3> QED
        BY <3>1, LenProperties
    <2> QED
      BY <2>1, <2>2, <2>3 DEF PlanInv, TypeOK, Idle
  <1>3. ASSUME NEW f \in HandFolds, AddFold(f[1], f[2]) PROVE PlanInv'
    <2>1. f[1] \in Seq(Int) /\ f[2] \in Seq(Int)
      BY BuffersAssumption
    <2> DEFINE g == [train |-> f[1], test |-> f[2]]
    <2>2. g \in Fold
      BY <2>1 DEF Fold
    <2>3. /\ filling' = 0 /\ status' \in {"OK", "INVALID_ARGUMENT", "OUT_OF_MEMORY"} /\ made' = ByHand
          /\ plan' = plan \/ plan' = [plan EXCEPT !.folds = Append(@, g)]
      BY <1>3 DEF AddFold, Handmade, Answer
    <2> HIDE DEF g
    <2>4. plan.folds \in Seq(Fold) /\ Append(plan.folds, g) \in Seq(Fold)
      BY <1>0, <2>2, AppendProperties DEF Plan
    <2>5. plan' \in Plan /\ plan'.n_samples >= 0
      BY <1>0, <2>3, <2>4 DEF Plan
    <2>6. 0 \in 0 .. Len(plan'.folds)
      <3>1. plan'.folds \in Seq(Fold)
        BY <2>5 DEF Plan
      <3> QED
        BY <3>1, LenProperties
    <2> QED
      BY <2>3, <2>5, <2>6 DEF PlanInv, TypeOK, Idle
  <1> QED
    BY <1>1, <1>2, <1>3 DEF HandStep

(* What a turn of the fill loop does to the vector.                        *)
LEMMA StoreFold ==
    ASSUME PlanInv, ~Idle, NEW g \in Fold, plan' = [plan EXCEPT !.folds[filling] = g]
    PROVE  /\ plan' \in Plan /\ plan'.n_samples = plan.n_samples
           /\ Len(plan'.folds) = Len(plan.folds)
           /\ plan'.folds[filling] = g
           /\ \A i \in 1 .. Len(plan.folds) : i # filling => plan'.folds[i] = plan.folds[i]
  <1>1. plan \in Plan /\ filling \in 1 .. Len(plan.folds) /\ plan.folds \in Seq(Fold)
    BY LenProperties DEF PlanInv, TypeOK, Idle, Plan
  <1> DEFINE q == [plan.folds EXCEPT ![filling] = g]
  <1>2. /\ q \in Seq(Fold) /\ Len(q) = Len(plan.folds) /\ q[filling] = g
        /\ \A i \in 1 .. Len(plan.folds) : i # filling => q[i] = plan.folds[i]
    <2>1. DOMAIN plan.folds = 1 .. Len(plan.folds)
      BY <1>1, LenProperties
    <2> QED
      BY <1>1, <2>1, ExceptSeq
  <1>3. plan' = [plan EXCEPT !.folds = q]
    OBVIOUS
  <1> HIDE DEF q
  <1>4. plan' \in Plan /\ plan'.n_samples = plan.n_samples /\ plan'.folds = q
    BY <1>1, <1>2, <1>3 DEF Plan
  <1> QED
    BY <1>2, <1>4

LEMMA FillPlan ==
    ASSUME PlanInv, FillFold \/ AllocationFails
    PROVE  PlanInv'
  <1> DEFINE m == Len(plan.folds)
             f == FoldsOf(made)[filling]
  <1>1. /\ ~Idle /\ Legal(made) /\ status = "OK" /\ plan.n_samples = made[2]
        /\ m = Len(FoldsOf(made)) /\ Filled(filling - 1)
        /\ made' = made /\ filling \in 1 .. m /\ m \in Nat
    <2>1. ~Idle /\ made' = made
      BY DEF FillFold, AllocationFails
    <2>2. m \in Nat /\ filling \in 0 .. m
      BY LenProperties DEF PlanInv, TypeOK, Plan
    <2> QED
      BY <2>1, <2>2 DEF PlanInv, Idle
  <1>2. AllShare(FoldsOf(made), made[2], m) /\ made[2] \in Nat
    BY <1>1, LegalFolds
  <1>3. f \in Fold /\ f.train \in Seq(Int) /\ f.test \in Seq(Int)
    BY <1>1, <1>2 DEF AllShare, SharesOut, Fold
  <1> HIDE DEF m, f
  <1>4. CASE FillFold
    <2>1. /\ plan' = [plan EXCEPT !.folds[filling] = f]
          /\ IF filling = m THEN filling' = 0 /\ status' = "OK"
                            ELSE filling' = filling + 1 /\ status' = status
      BY <1>4 DEF FillFold, Answer, m, f
    <2>2. /\ plan' \in Plan /\ plan'.n_samples = made[2] /\ Len(plan'.folds) = m
          /\ plan'.folds[filling] = f
          /\ \A i \in 1 .. m : i # filling => plan'.folds[i] = plan.folds[i]
      BY <1>1, <1>3, <2>1, StoreFold DEF m
    <2>3. \A i \in 1 .. filling : plan'.folds[i] = FoldsOf(made)[i]
      <3> TAKE i \in 1 .. filling
      <3>1. CASE i = filling
        BY <2>2, <3>1 DEF f
      <3>2. CASE i # filling
        <4>1. i \in 1 .. filling - 1 /\ i \in 1 .. m
          BY <1>1, <3>2
        <4> QED
          BY <1>1, <2>2, <3>2, <4>1 DEF Filled
      <3> QED
        BY <3>1, <3>2
    <2>4. filling' \in 0 .. m /\ status' = "OK"
      BY <1>1, <2>1
    <2>5. TypeOK'
      BY <1>2, <2>2, <2>4 DEF TypeOK
    <2>6. CASE filling = m
      <3>1. filling' = 0
        BY <2>1, <2>6
      <3>2. plan'.folds \in Seq(Fold) /\ FoldsOf(made) \in Seq(Fold) /\ Len(FoldsOf(made)) = m
        BY <1>1, <1>2, <2>2 DEF Plan, AllShare
      <3>3. DOMAIN plan'.folds = 1 .. m /\ DOMAIN FoldsOf(made) = 1 .. m
        BY <2>2, <3>2, LenProperties
      <3>4. plan'.folds = FoldsOf(made)
        <4> DEFINE a == plan'.folds
                   b == FoldsOf(made)
        <4>1. /\ a \in Seq(Fold) /\ b \in Seq(Fold) /\ Len(a) = Len(b)
              /\ \A i \in 1 .. Len(a) : a[i] = b[i]
          BY <2>2, <2>3, <2>6, <3>2
        <4> HIDE DEF a, b
        <4>2. a = b
          BY <4>1, SeqEqual
        <4> QED
          BY <4>2 DEF a, b
      <3> QED
        BY <1>1, <2>2, <2>5, <3>1, <3>4 DEF PlanInv, Idle
    <2>7. CASE filling # m
      <3>1. filling' = filling + 1 /\ filling' - 1 = filling /\ filling' # 0
        BY <1>1, <2>1, <2>7
      <3>2. Filled(filling - 1)'
        BY <1>1, <2>3, <3>1 DEF Filled
      <3> QED
        BY <1>1, <2>2, <2>4, <2>5, <3>1, <3>2 DEF PlanInv, Idle
    <2> QED
      BY <2>6, <2>7
  <1>5. CASE AllocationFails
    <2>1. filling' = 0 /\ status' = "OUT_OF_MEMORY"
      BY <1>5 DEF AllocationFails, Answer
    <2>2. PICK g \in PartialFolds(made, f) : plan' = [plan EXCEPT !.folds[filling] = g]
      BY <1>5 DEF AllocationFails, f
    <2>3. g \in Fold
      BY <1>3, <2>2, EmptyFoldType DEF PartialFolds
    <2>4. plan' \in Plan /\ plan'.n_samples = made[2] /\ Len(plan'.folds) = m
      BY <1>1, <2>2, <2>3, StoreFold DEF m
    <2>5. 0 \in 0 .. m
      BY <1>1
    <2> QED
      BY <1>2, <2>1, <2>4, <2>5 DEF PlanInv, TypeOK, Idle
  <1> QED
    BY <1>4, <1>5

LEMMA PlanStep == PlanInv /\ [Next]_planVars => PlanInv'
  <1> SUFFICES ASSUME PlanInv, [Next]_planVars PROVE PlanInv'
    OBVIOUS
  <1>1. CASE HandStep
    BY <1>1, HandPlan
  <1>2. CASE FillFold \/ AllocationFails
    BY <1>2, FillPlan
  <1>3. ASSUME NEW n \in Int, NEW k \in Int, MakeKFold(n, k) PROVE PlanInv'
    <2> DEFINE m == <<"kfold", n, k>>
               valid == KFoldArguments(n, k)
    <2>1. Generate(m, valid, k) /\ valid \in BOOLEAN
      BY <1>3 DEF MakeKFold, KFoldArguments
    <2>2. valid => Legal(m) /\ k = Len(FoldsOf(m))
      <3> SUFFICES ASSUME valid PROVE Legal(m) /\ k = Len(FoldsOf(m))
        OBVIOUS
      <3>1. Legal(m)
        BY DEF Legal, ByKFold
      <3> QED
        BY <3>1, KFoldMade DEF AllShare
    <2> HIDE DEF m, valid
    <2> QED
      BY <2>1, <2>2, GeneratePlan
  <1>4. ASSUME NEW n \in Int, NEW start \in Int, NEW count \in Int, MakeHoldout(n, start, count)
        PROVE  PlanInv'
    <2> DEFINE m == <<"holdout", n, start, count>>
               valid == HoldoutArguments(n, start, count)
    <2>1. Generate(m, valid, 1) /\ valid \in BOOLEAN
      BY <1>4 DEF MakeHoldout, HoldoutArguments
    <2>2. valid => Legal(m) /\ 1 = Len(FoldsOf(m))
      <3> SUFFICES ASSUME valid PROVE Legal(m) /\ 1 = Len(FoldsOf(m))
        OBVIOUS
      <3>1. Legal(m)
        BY DEF Legal, ByHoldout
      <3> QED
        BY <3>1, HoldoutMade DEF AllShare
    <2> HIDE DEF m, valid
    <2> QED
      BY <2>1, <2>2, GeneratePlan
  <1>5. ASSUME NEW n \in Int, NEW k \in Int, NEW r \in Int, MakeRepeatedKFold(n, k, r)
        PROVE  PlanInv'
    <2> DEFINE valid == KFoldArguments(n, k) /\ r >= 1
    <2>1. PICK perms \in Draws(n, r, valid) : Generate(<<"repeated", n, k, perms>>, valid, k * r)
      BY <1>5 DEF MakeRepeatedKFold
    <2> DEFINE m == <<"repeated", n, k, perms>>
               total == k * r
    <2>2. Generate(m, valid, total) /\ valid \in BOOLEAN
      BY <2>1 DEF KFoldArguments
    <2>3. valid => Legal(m) /\ total = Len(FoldsOf(m))
      <3> SUFFICES ASSUME valid PROVE Legal(m) /\ total = Len(FoldsOf(m))
        OBVIOUS
      <3>1. perms \in [1 .. r -> Shuffles(n)]
        BY DEF Draws
      <3>2. Legal(m)
        <4>1. ByRepeated(m)
          BY <3>1 DEF ByRepeated
        <4> QED
          BY <4>1 DEF Legal
      <3> QED
        BY <3>1, <3>2, RepeatedMade DEF AllShare
    <2> HIDE DEF m, valid, total
    <2> QED
      BY <2>2, <2>3, GeneratePlan
  <1>6. ASSUME NEW n \in Int, NEW count \in Int, NEW r \in Int, MakeMonteCarlo(n, count, r)
        PROVE  PlanInv'
    <2> DEFINE valid == MonteCarloArguments(n, count, r)
    <2>1. PICK perms \in Draws(n, r, valid) : Generate(<<"monte_carlo", n, count, perms>>, valid, r)
      BY <1>6 DEF MakeMonteCarlo
    <2> DEFINE m == <<"monte_carlo", n, count, perms>>
    <2>2. Generate(m, valid, r) /\ valid \in BOOLEAN
      BY <2>1 DEF MonteCarloArguments
    <2>3. valid => Legal(m) /\ r = Len(FoldsOf(m))
      <3> SUFFICES ASSUME valid PROVE Legal(m) /\ r = Len(FoldsOf(m))
        OBVIOUS
      <3>1. perms \in [1 .. r -> Shuffles(n)]
        BY DEF Draws
      <3>2. Legal(m)
        <4>1. ByMonteCarlo(m)
          BY <3>1 DEF ByMonteCarlo
        <4> QED
          BY <4>1 DEF Legal
      <3> QED
        BY <3>1, <3>2, MonteCarloMade DEF AllShare
    <2> HIDE DEF m, valid
    <2> QED
      BY <2>2, <2>3, GeneratePlan
  <1>7. ASSUME NEW ids \in FoldIds, NEW k \in Int, MakeExternalFolds(Cardinality(DOMAIN ids), ids, k)
        PROVE  PlanInv'
    <2> DEFINE n == Cardinality(DOMAIN ids)
    <2>1. n \in Int
      BY BuffersAssumption, FS_CardinalityType
    <2> HIDE DEF n
    <2> DEFINE m == <<"external", n, ids, k>>
               valid == ExternalArguments(n, ids, k)
    <2>2. Generate(m, valid, k) /\ valid \in BOOLEAN
      BY <1>7 DEF MakeExternalFolds, ExternalArguments, n
    <2>3. valid => Legal(m) /\ k = Len(FoldsOf(m))
      <3> SUFFICES ASSUME valid PROVE Legal(m) /\ k = Len(FoldsOf(m))
        OBVIOUS
      <3>1. Legal(m)
        BY <2>1 DEF Legal, ByExternal
      <3> QED
        BY <2>1, <3>1, ExternalMade DEF AllShare
    <2> HIDE DEF m, valid
    <2> QED
      BY <2>2, <2>3, GeneratePlan
  <1>8. ASSUME NEW x \in Matrices, NEW count \in Int, MakeKennardStone(x, count)
        PROVE  PlanInv'
    <2> DEFINE m == <<"kennard_stone", Len(x), x, count>>
               valid == RepresentativeArguments(Len(x), count)
    <2>1. Generate(m, valid, 1) /\ valid \in BOOLEAN
      BY <1>8 DEF MakeKennardStone, RepresentativeArguments
    <2>2. valid => Legal(m) /\ 1 = Len(FoldsOf(m))
      <3> SUFFICES ASSUME valid PROVE Legal(m) /\ 1 = Len(FoldsOf(m))
        OBVIOUS
      <3>1. Legal(m)
        BY DEF Legal, ByKennardStone
      <3> QED
        BY <3>1, KennardStoneMade DEF AllShare
    <2> HIDE DEF m, valid
    <2> QED
      BY <2>1, <2>2, GeneratePlan
  <1>9. ASSUME NEW x \in Matrices, NEW y \in Matrices, NEW count \in Int, MakeSpxy(x, y, count)
        PROVE  PlanInv'
    <2> DEFINE m == <<"spxy", Len(x), x, y, count>>
               valid == Len(y) = Len(x) /\ RepresentativeArguments(Len(x), count)
    <2>1. Generate(m, valid, 1) /\ valid \in BOOLEAN
      BY <1>9 DEF MakeSpxy
    <2>2. valid => Legal(m) /\ 1 = Len(FoldsOf(m))
      <3> SUFFICES ASSUME valid PROVE Legal(m) /\ 1 = Len(FoldsOf(m))
        OBVIOUS
      <3>1. Legal(m)
        BY DEF Legal, BySpxy
      <3> QED
        BY <3>1, SpxyMade DEF AllShare
    <2> HIDE DEF m, valid
    <2> QED
      BY <2>1, <2>2, GeneratePlan
  <1>10. CASE GeneratorStep
    <2>1. ASSUME NEW n \in SampleCounts, MakeLeaveOneOut(n) PROVE PlanInv'
      BY <1>3, <2>1 DEF MakeLeaveOneOut
    <2> QED
      BY <1>2, <1>3, <1>4, <1>5, <1>6, <1>7, <1>8, <1>9, <1>10, <2>1 DEF GeneratorStep
  <1>11. CASE UNCHANGED planVars
    BY <1>11 DEF planVars, PlanInv, TypeOK, Idle, Filled
  <1> QED
    BY <1>1, <1>10, <1>11 DEF Next

LEMMA PlanInitially == Init => PlanInv
  <1> SUFFICES ASSUME Init PROVE PlanInv
    OBVIOUS
  <1>1. plan = Unset /\ made = ByHand /\ filling = 0 /\ status = "OK"
    BY DEF Init
  <1>2. plan \in Plan /\ plan.n_samples >= 0 /\ plan.folds = <<>>
    BY <1>1, EmptyPlanType DEF Unset
  <1>3. Len(<<>>) = 0
    OBVIOUS
  <1> QED
    BY <1>1, <1>2, <1>3 DEF PlanInv, TypeOK, Idle

-----------------------------------------------------------------------------
(* The name a plan was made by tells the generator.                        *)
LEMMA MakerNames ==
    ASSUME NEW m, Legal(m)
    PROVE  /\ m # ByHand
           /\ m[1] = "kfold" => ByKFold(m)
           /\ m[1] = "external" => ByExternal(m)
           /\ m[1] = "repeated" => ByRepeated(m)
           /\ m[1] = "kennard_stone" => ByKennardStone(m)
           /\ m[1] = "spxy" => BySpxy(m)
  <1>1. ByKFold(m) => m[1] = "kfold"
    BY DEF ByKFold
  <1>2. ByHoldout(m) => m[1] = "holdout"
    BY DEF ByHoldout
  <1>3. ByExternal(m) => m[1] = "external"
    BY DEF ByExternal
  <1>4. ByRepeated(m) => m[1] = "repeated"
    BY DEF ByRepeated
  <1>5. ByMonteCarlo(m) => m[1] = "monte_carlo"
    BY DEF ByMonteCarlo
  <1>6. ByKennardStone(m) => m[1] = "kennard_stone"
    BY DEF ByKennardStone
  <1>7. BySpxy(m) => m[1] = "spxy"
    BY DEF BySpxy
  <1>8. ByHand[1] = "by hand"
    BY DEF ByHand
  <1> QED
    BY <1>1, <1>2, <1>3, <1>4, <1>5, <1>6, <1>7, <1>8 DEF Legal

(* A plan a generator completed for NRows samples.                         *)
LEMMA Completed ==
    ASSUME PlanInv, NEW makers, Generated(makers), "by hand" \notin makers
    PROVE  /\ Legal(made) /\ made[2] = NRows /\ plan.n_samples = NRows
           /\ plan.folds = FoldsOf(made) /\ made[1] \in makers
           /\ AllShare(plan.folds, NRows, Len(plan.folds))
  <1>1. Idle /\ made[1] \in makers /\ status = "OK" /\ plan.n_samples = NRows
    BY DEF Generated
  <1>2. made # ByHand
    <2>1. ByHand[1] = "by hand"
      BY DEF ByHand
    <2> QED
      BY <1>1, <2>1
  <1>3. Legal(made) /\ plan.n_samples = made[2] /\ plan.folds = FoldsOf(made)
    BY <1>1, <1>2 DEF PlanInv
  <1> QED
    BY <1>1, <1>3, LegalFolds

LEMMA PartitionMade == PlanInv => GeneratedPartition
  <1> SUFFICES ASSUME PlanInv, Generated({"kfold", "external"}) PROVE Partitions(plan)
    BY DEF GeneratedPartition
  <1>1. /\ Legal(made) /\ made[2] = NRows /\ plan.n_samples = NRows
        /\ plan.folds = FoldsOf(made) /\ made[1] \in {"kfold", "external"}
        /\ AllShare(plan.folds, NRows, Len(plan.folds))
    BY Completed
  <1>2. Rows(NRows) = Samples
    BY DEF Rows, Samples
  <1>3. CASE made[1] = "kfold"
    <2>1. PICK n \in Int, k \in Int : KFoldArguments(n, k) /\ made = <<"kfold", n, k>>
      BY <1>1, <1>3, MakerNames DEF ByKFold
    <2>2. n = NRows /\ FoldCounts(n, k) /\ FoldsOf(made) = KFold(n, k) /\ AllShare(plan.folds, n, k)
      BY <1>1, <2>1, KFoldMade
    <2>3. \A s \in Samples : \E f \in 1 .. k : Testing(plan.folds, s) = {f}
      BY <1>1, <1>2, <2>2, TestedOnce
    <2> QED
      BY <1>1, <2>2, <2>3, SharedPartition
  <1>4. CASE made[1] = "external"
    <2>1. PICK n \in Int, k \in Int, ids \in FoldIds :
                ExternalArguments(n, ids, k) /\ made = <<"external", n, ids, k>>
      BY <1>1, <1>4, MakerNames DEF ByExternal
    <2>2. n = NRows /\ FoldsOf(made) = ExternalFolds(n, ids, k) /\ AllShare(plan.folds, n, k)
      BY <1>1, <2>1, ExternalMade
    <2>3. \A s \in Samples : \E f \in 1 .. k : Testing(plan.folds, s) = {f}
      <3> TAKE s \in Samples
      <3>1. ExternalArguments(n, ids, k) /\ s \in Rows(n)
        BY <1>2, <2>1, <2>2
      <3>2. \E f \in 1 .. k : Testing(ExternalFolds(n, ids, k), s) = {f}
        BY <3>1, ExternalTestedOnce
      <3> QED
        BY <1>1, <2>2, <3>2
    <2> QED
      BY <1>1, <2>2, <2>3, SharedPartition
  <1> QED
    BY <1>1, <1>3, <1>4

LEMMA ComplementaryMade == PlanInv => GeneratedComplementary
  <1> DEFINE makers == {"kfold", "holdout", "external", "repeated", "monte_carlo",
                        "kennard_stone", "spxy"}
  <1> SUFFICES ASSUME PlanInv, Generated(makers)
               PROVE  /\ AomAccepts(plan)
                      /\ \A f \in DOMAIN plan.folds :
                            Elements(plan.folds[f].train) \cup Elements(plan.folds[f].test) = Samples
    BY DEF GeneratedComplementary
  <1>1. plan.n_samples = NRows /\ AllShare(plan.folds, NRows, Len(plan.folds))
    BY Completed
  <1> QED
    BY <1>1, SharedComplementary

LEMMA BalancedMade == PlanInv => BalancedFolds
  <1> SUFFICES ASSUME PlanInv, Generated({"kfold", "repeated"})
               PROVE  /\ \A f, g \in DOMAIN plan.folds :
                            Len(plan.folds[f].test) <= Len(plan.folds[g].test) + 1
                      /\ \A s, t \in Samples : TimesTested(s) = TimesTested(t)
    BY DEF BalancedFolds
  <1>1. /\ Legal(made) /\ made[2] = NRows
        /\ plan.folds = FoldsOf(made) /\ made[1] \in {"kfold", "repeated"}
    BY Completed
  <1>2. \A s \in Samples : s \in Rows(NRows) /\ TimesTested(s) = Cardinality(Testing(plan.folds, s))
    BY DEF Rows, Samples, TimesTested, Testing
  <1>3. \A n, k, q : /\ FoldCounts(n, k)
                     /\ \A i \in DOMAIN q : \E f \in Int : Len(q[i].test) = FoldSize(n, k, f)
                     => \A f, g \in DOMAIN q : Len(q[f].test) <= Len(q[g].test) + 1
    <2> SUFFICES ASSUME NEW n, NEW k, NEW q, FoldCounts(n, k),
                        \A i \in DOMAIN q : \E f \in Int : Len(q[i].test) = FoldSize(n, k, f),
                        NEW f \in DOMAIN q, NEW g \in DOMAIN q
                 PROVE  Len(q[f].test) <= Len(q[g].test) + 1
      OBVIOUS
    <2>1. n \div k \in Nat
      BY DEF FoldCounts, KFoldArguments
    <2>2. \A i \in DOMAIN q : Len(q[i].test) \in n \div k .. (n \div k) + 1
      BY FoldSizes
    <2> QED
      BY <2>1, <2>2
  <1>4. CASE made[1] = "kfold"
    <2>1. PICK n \in Int, k \in Int : KFoldArguments(n, k) /\ made = <<"kfold", n, k>>
      BY <1>1, <1>4, MakerNames DEF ByKFold
    <2>2. n = NRows /\ FoldCounts(n, k) /\ FoldsOf(made) = KFold(n, k)
      BY <1>1, <2>1, KFoldMade
    <2> DEFINE q == KFold(n, k)
    <2>3. /\ DOMAIN q = 1 .. k /\ \A i \in 1 .. k : i - 1 \in Int
          /\ \A i \in 1 .. k : Len(q[i].test) = FoldSize(n, k, i - 1)
      <3>1. \A i \in 1 .. k : i - 1 \in Int
        OBVIOUS
      <3>2. DOMAIN q = 1 .. k
        BY <2>2, KFoldFolds DEF AllShare
      <3>3. \A i \in 1 .. k : Len(q[i].test) = FoldSize(n, k, i - 1)
        BY <2>2, KFoldFolds
      <3> QED
        BY <3>1, <3>2, <3>3
    <2>4. \A s \in Samples : TimesTested(s) = 1
      <3> TAKE s \in Samples
      <3>1. PICK f \in 1 .. k : Testing(q, s) = {f}
        BY <1>2, <2>2, TestedOnce
      <3>2. Cardinality({f}) = 1
        BY FS_Singleton
      <3> QED
        BY <1>1, <1>2, <2>2, <3>1, <3>2
    <2> HIDE DEF q
    <2>5. \A f, g \in DOMAIN q : Len(q[f].test) <= Len(q[g].test) + 1
      BY <1>3, <2>2, <2>3
    <2>6. plan.folds = q
      BY <1>1, <2>2 DEF q
    <2> QED
      BY <2>4, <2>5, <2>6
  <1>5. CASE made[1] = "repeated"
    <2>0. PICK n \in Int, k \in Int, r \in Int : \E perms \in [1 .. r -> Shuffles(n)] :
                KFoldArguments(n, k) /\ r >= 1 /\ made = <<"repeated", n, k, perms>>
      BY <1>1, <1>5, MakerNames DEF ByRepeated
    <2>1. PICK perms \in [1 .. r -> Shuffles(n)] :
                KFoldArguments(n, k) /\ r >= 1 /\ made = <<"repeated", n, k, perms>>
      BY <2>0
    <2>2. n = NRows /\ FoldCounts(n, k) /\ FoldsOf(made) = RepeatedKFold(n, k, perms)
      BY <1>1, <2>1, RepeatedMade
    <2>3. r \in Nat /\ r > 0
      BY <2>1
    <2> DEFINE q == RepeatedKFold(n, k, perms)
    <2>4. DOMAIN q = 1 .. k * r /\ \A i \in 1 .. k * r : TestsRun(q[i].test, i, n, k, r, perms)
      BY <2>2, <2>3, RepeatedFolds DEF AllShare
    <2>5. \A i \in 1 .. k * r : \E f \in Int : Len(q[i].test) = FoldSize(n, k, f)
      <3> TAKE i \in 1 .. k * r
      <3> HIDE DEF q
      <3>1. (i - 1) % k \in 0 .. k - 1 /\ Len(q[i].test) = FoldSize(n, k, (i - 1) % k)
        BY <2>4 DEF TestsRun
      <3> QED
        BY <3>1
    <2>6. \A s \in Samples : TimesTested(s) = r
      BY <1>1, <1>2, <2>2, <2>3, TestedInEveryRepeat
    <2> HIDE DEF q
    <2>7. \A f, g \in DOMAIN q : Len(q[f].test) <= Len(q[g].test) + 1
      BY <1>3, <2>2, <2>4, <2>5
    <2>8. plan.folds = q
      BY <1>1, <2>2 DEF q
    <2> QED
      BY <2>6, <2>7, <2>8
  <1> QED
    BY <1>1, <1>4, <1>5

LEMMA SpreadMade == PlanInv => RepresentativesSpread
  <1> DEFINE dx == PairwiseDistances(made[3])
             d == IF made[1] = "spxy" THEN SpxyDistances(NRows, dx, PairwiseDistances(made[4])) ELSE dx
             train == Elements(plan.folds[1].train)
  <1> SUFFICES ASSUME PlanInv, Generated({"kennard_stone", "spxy"})
               PROVE  Spread(train, NRows, d)
    BY DEF RepresentativesSpread, Spread, Rows, Samples
  <1>1. /\ Legal(made) /\ made[2] = NRows
        /\ plan.folds = FoldsOf(made) /\ made[1] \in {"kennard_stone", "spxy"}
    BY Completed
  <1>2. CASE made[1] = "kennard_stone"
    <2>1. PICK x \in Matrices, count \in Int :
                RepresentativeArguments(Len(x), count) /\ made = <<"kennard_stone", Len(x), x, count>>
      BY <1>1, <1>2, MakerNames DEF ByKennardStone
    <2>2. /\ made[2] = Len(x) /\ made[3] = x
          /\ Spread(Elements(FoldsOf(made)[1].train), Len(x), PairwiseDistances(x))
      BY <2>1, KennardStoneMade
    <2>3. d = PairwiseDistances(x)
      BY <1>2, <2>2
    <2> HIDE DEF d
    <2> QED
      BY <1>1, <2>2, <2>3
  <1>3. CASE made[1] = "spxy"
    <2>1. PICK x \in Matrices, y \in Matrices, count \in Int :
                /\ Len(y) = Len(x) /\ RepresentativeArguments(Len(x), count)
                /\ made = <<"spxy", Len(x), x, y, count>>
      BY <1>1, <1>3, MakerNames DEF BySpxy
    <2>2. /\ made[2] = Len(x) /\ made[3] = x /\ made[4] = y
          /\ Spread(Elements(FoldsOf(made)[1].train), Len(x),
                    SpxyDistances(Len(x), PairwiseDistances(x), PairwiseDistances(y)))
      BY <2>1, SpxyMade
    <2>3. d = SpxyDistances(Len(x), PairwiseDistances(x), PairwiseDistances(y))
      BY <1>1, <1>3, <2>2
    <2> HIDE DEF d
    <2> QED
      BY <1>1, <2>2, <2>3
  <1> QED
    BY <1>1, <1>2, <1>3

-----------------------------------------------------------------------------
(* Whatever allocation fails in whichever fold of whichever generator, the *)
(* plan it leaves behind is one that no consumer accepts.                  *)
THEOREM FailureUnusable == Spec => []FailedPlanUnusable
  <1>1. Init => FillInv
    BY DEF Init, FillInv, Idle
  <1>2. FillInv => FailedPlanUnusable
    BY UselessRefused DEF FillInv, FailedPlanUnusable
  <1> QED
    BY <1>1, <1>2, FillStep, PTL DEF Spec

(* Whatever calls a caller makes and whatever allocation fails, the plan is *)
(* the one its generator's loop writes as far as the loop has come, and a  *)
(* call that returned OK has written all of it.                            *)
THEOREM PlansAreGenerated == Spec => []PlanInv
  BY PlanInitially, PlanStep, PTL DEF Spec

(* A plan, the fold a generator is at and the status keep their types.     *)
THEOREM TypeCorrect == Spec => []TypeOK
  <1>1. PlanInv => TypeOK
    BY DEF PlanInv
  <1> QED
    BY <1>1, PlansAreGenerated, PTL

(* For any number of samples and folds and any fold ids: what kfold,        *)
(* leave_one_out and external_folds complete is a partition of the samples *)
(* into test sets, none of which a fold trains on.                         *)
THEOREM FoldsPartition == Spec => []GeneratedPartition
  BY PartitionMade, PlansAreGenerated, PTL

(* For any arguments, shuffles and matrices: each fold of a completed plan  *)
(* has every sample on one side and none on both.                          *)
THEOREM FoldsComplementary == Spec => []GeneratedComplementary
  BY ComplementaryMade, PlansAreGenerated, PTL

(* For any number of samples, folds and repeats, and any shuffles: two      *)
(* folds of a k-fold plan differ by one sample at most, and all samples    *)
(* are tested equally often.                                               *)
THEOREM FoldsBalanced == Spec => []BalancedFolds
  BY BalancedMade, PlansAreGenerated, PTL

(* For any matrices, ties and coincident rows included: what the            *)
(* Kennard-Stone scan leaves out is never farther from the rows it chose   *)
(* than two of these are from each other.                                  *)
THEOREM RepresentativesCover == Spec => []RepresentativesSpread
  BY SpreadMade, PlansAreGenerated, PTL
=============================================================================
