-------------------------- MODULE Filtering_proof --------------------------
(***************************************************************************)
(* Facts about loops that several proofs cite: induction on the natural    *)
(* numbers stated over a set, which needs no operator to be instantiated,  *)
(* the existence of what a recursive function defines, and what Keep       *)
(* keeps.                                                                  *)
(***************************************************************************)
EXTENDS Filtering, WellFoundedInduction, SequenceTheorems, TLAPS

(* A non-empty set of natural numbers has a least element. *)
LEMMA LeastElement ==
    ASSUME NEW S \in SUBSET Nat, S # {}
    PROVE  \E m \in S : \A x \in S : m <= x
  <1>1. PICK m \in S : \A x \in S : ~ (<<x, m>> \in OpToRel(<, Nat))
    BY WFMin, NatLessThanWellFounded, Zenon
  <1>2. \A x \in S : ~(x < m)
    BY <1>1 DEF OpToRel
  <1>3. \A x \in S : m <= x
    <2> TAKE x \in S
    <2>1. m \in Nat /\ x \in Nat
      OBVIOUS
    <2> QED
      BY <2>1, <1>2
  <1> QED
    BY <1>3

(* A set that has 0, and with a number its successor, has all of them. *)
LEMMA SetInduction ==
    ASSUME NEW S, 0 \in S, \A n \in Nat : n \in S => n + 1 \in S
    PROVE  Nat \subseteq S
  <1> DEFINE T == Nat \ S
  <1> SUFFICES ASSUME T # {} PROVE FALSE
    OBVIOUS
  <1>1. PICK m \in T : \A x \in T : m <= x
    BY LeastElement
  <1>2. m \in Nat /\ m # 0 /\ m - 1 \in Nat /\ m - 1 \notin T
    BY <1>1
  <1>3. m - 1 \in S
    BY <1>2
  <1> QED
    BY <1>1, <1>2, <1>3

(* A bounded set of natural numbers that is not empty has a greatest one. *)
LEMMA GreatestElement ==
    ASSUME NEW b \in Nat, NEW S \in SUBSET (0 .. b), S # {}
    PROVE  \E m \in S : \A x \in S : x <= m
  <1> DEFINE T == {b - x : x \in S}
  <1>1. T \in SUBSET Nat /\ T # {}
    <2>1. \A x \in 0 .. b : b - x \in Nat
      OBVIOUS
    <2> QED
      BY <2>1
  <1>2. PICK t \in T : \A x \in T : t <= x
    BY <1>1, LeastElement
  <1>3. PICK m \in S : t = b - m
    BY <1>2
  <1>4. \A x \in S : x <= m
    <2> TAKE x \in S
    <2>1. t <= b - x
      BY <1>2
    <2>2. x \in Int /\ m \in Int
      OBVIOUS
    <2> QED
      BY <1>3, <2>1, <2>2
  <1> QED
    BY <1>4

(* A loop of L turns over a state in V has a run. *)
LEMMA LoopRuns ==
    ASSUME NEW V, NEW b \in V, NEW L \in Nat, NEW step \in [1 .. L -> [V -> V]]
    PROVE  \E g \in [0 .. L -> V] :
              g[0] = b /\ \A n \in 1 .. L : g[n] = step[n][g[n - 1]]
  <1> DEFINE Run(g, m) == g[0] = b /\ \A n \in 1 .. m : g[n] = step[n][g[n - 1]]
             S == {m \in Nat : m <= L => \E g \in [0 .. m -> V] : Run(g, m)}
  <1>1. 0 \in S
    <2>1. [i \in 0 .. 0 |-> b] \in [0 .. 0 -> V] /\ Run([i \in 0 .. 0 |-> b], 0)
      OBVIOUS
    <2> QED
      BY <2>1
  <1>2. ASSUME NEW m \in Nat, m \in S PROVE m + 1 \in S
    <2> SUFFICES ASSUME m + 1 <= L PROVE \E g \in [0 .. m + 1 -> V] : Run(g, m + 1)
      OBVIOUS
    <2>1. PICK g \in [0 .. m -> V] : Run(g, m)
      BY <1>2
    <2> DEFINE h == [i \in 0 .. m + 1 |-> IF i = m + 1 THEN step[m + 1][g[m]] ELSE g[i]]
    <2>2. step[m + 1][g[m]] \in V
      BY <2>1
    <2>3. h \in [0 .. m + 1 -> V]
      BY <2>1, <2>2
    <2>4. \A i \in 0 .. m : h[i] = g[i]
      OBVIOUS
    <2>5. h[m + 1] = step[m + 1][h[m]]
      BY <2>4
    <2>6. Run(h, m + 1)
      <3>1. h[0] = b
        BY <2>1, <2>4
      <3>2. ASSUME NEW n \in 1 .. m + 1 PROVE h[n] = step[n][h[n - 1]]
        <4>1. CASE n = m + 1
          BY <4>1, <2>5
        <4>2. CASE n # m + 1
          <5>1. n \in 1 .. m /\ n \in 0 .. m /\ n - 1 \in 0 .. m
            BY <4>2
          <5> HIDE DEF h
          <5> QED
            BY <5>1, <2>1, <2>4
        <4> QED
          BY <4>1, <4>2
      <3> QED
        BY <3>1, <3>2
    <2> QED
      BY <2>3, <2>6
  <1>3. Nat \subseteq S
    <2> HIDE DEF S
    <2> QED
      BY <1>1, <1>2, SetInduction
  <1> QED
    BY <1>3

-----------------------------------------------------------------------------
(* q is what is left of rows when the positions in D are kept. *)
Enumerates(f, q, rows, D, n) ==
    /\ f \in [1 .. Len(q) -> D \cap 1 .. n]
    /\ \A j \in 1 .. Len(q) : q[j] = rows[f[j]]
    /\ \A i, j \in 1 .. Len(q) : i < j => f[i] < f[j]
    /\ \A i \in D \cap 1 .. n : \E j \in 1 .. Len(q) : f[j] = i

LEMMA EnumerationGrows ==
    ASSUME NEW T, NEW rows \in Seq(T), NEW D, NEW n \in 1 .. Len(rows), NEW q \in Seq(T),
           NEW f, Enumerates(f, q, rows, D, n - 1)
    PROVE  IF n \in D
           THEN /\ Append(q, rows[n]) \in Seq(T)
                /\ \E h : Enumerates(h, Append(q, rows[n]), rows, D, n)
           ELSE Enumerates(f, q, rows, D, n)
  <1>0. n \in Nat /\ n - 1 \in Nat /\ Len(q) \in Nat /\ rows[n] \in T
    BY LenProperties, ElementOfSeq
  <1>1. CASE n \notin D
    <2>1. D \cap 1 .. n = D \cap 1 .. n - 1
      BY <1>0, <1>1
    <2> QED
      BY <1>1, <2>1 DEF Enumerates
  <1>2. CASE n \in D
    <2> DEFINE r == Append(q, rows[n])
               L == Len(q)
               h == [j \in 1 .. L + 1 |-> IF j = L + 1 THEN n ELSE f[j]]
    <2>1. /\ r \in Seq(T) /\ Len(r) = L + 1 /\ r[L + 1] = rows[n]
          /\ \A j \in 1 .. L : r[j] = q[j]
      BY <1>0, AppendProperties
    <2>2. h[L + 1] = n /\ \A j \in 1 .. L : h[j] = f[j] /\ f[j] \in D /\ f[j] \in 1 .. n - 1
      <3>1. h[L + 1] = n
        BY <1>0
      <3>2. \A j \in 1 .. L : h[j] = f[j]
        BY <1>0
      <3>3. \A j \in 1 .. L : f[j] \in D \cap 1 .. n - 1
        BY DEF Enumerates
      <3> QED
        BY <3>1, <3>2, <3>3
    <2>3. D \cap 1 .. n = (D \cap 1 .. n - 1) \cup {n}
      BY <1>0, <1>2
    <2>4. \A j \in 1 .. L + 1 : j = L + 1 \/ j \in 1 .. L
      BY <1>0
    <2>5. h \in [1 .. L + 1 -> D \cap 1 .. n]
      BY <2>2, <2>3, <2>4
    <2> HIDE DEF h, r, L
    <2>6. \A j \in 1 .. L + 1 : r[j] = rows[h[j]]
      BY <2>1, <2>2, <2>4 DEF Enumerates, L
    <2>7. ASSUME NEW i \in 1 .. L + 1, NEW j \in 1 .. L + 1, i < j PROVE h[i] < h[j]
      <3>1. i \in 1 .. L
        BY <1>0, <2>7 DEF L
      <3>2. CASE j \in 1 .. L
        BY <2>2, <2>7, <3>1, <3>2 DEF Enumerates, L
      <3>3. CASE j = L + 1
        BY <2>2, <3>1, <3>3, <1>0
      <3> QED
        BY <2>4, <3>2, <3>3
    <2>8. ASSUME NEW i \in D \cap 1 .. n PROVE \E j \in 1 .. L + 1 : h[j] = i
      <3>1. CASE i = n
        BY <2>2, <3>1, <1>0 DEF L
      <3>2. CASE i \in D \cap 1 .. n - 1
        <4>1. PICK j \in 1 .. L : f[j] = i
          BY <3>2 DEF Enumerates, L
        <4>2. j \in 1 .. L + 1
          BY <1>0 DEF L
        <4> QED
          BY <2>2, <4>1, <4>2
      <3> QED
        BY <2>3, <3>1, <3>2
    <2>9. Enumerates(h, r, rows, D, n)
      BY <2>1, <2>5, <2>6, <2>7, <2>8 DEF Enumerates
    <2> QED
      BY <1>2, <2>1, <2>9 DEF r
  <1> QED
    BY <1>1, <1>2

(* Keep keeps the rows at the positions in D, all of them, each once and in *)
(* their order.                                                            *)
LEMMA KeepEnumerates ==
    ASSUME NEW T, NEW rows \in Seq(T), NEW D
    PROVE  /\ Keep(rows, D) \in Seq(T)
           /\ \E f : Enumerates(f, Keep(rows, D), rows, D, Len(rows))
  <1> DEFINE L == Len(rows)
             Body(g) == [n \in 0 .. L |->
                           IF n = 0 THEN <<>>
                           ELSE IF n \in D THEN Append(g[n - 1], rows[n]) ELSE g[n - 1]]
             step == [n \in 1 .. L |->
                        [q \in Seq(T) |-> IF n \in D THEN Append(q, rows[n]) ELSE q]]
             kept == CHOOSE g : g = Body(g)
  <1>0. L \in Nat /\ \A n \in 1 .. L : rows[n] \in T
    BY LenProperties, ElementOfSeq
  <1>1. step \in [1 .. L -> [Seq(T) -> Seq(T)]]
    <2>1. \A n \in 1 .. L, q \in Seq(T) : Append(q, rows[n]) \in Seq(T)
      BY <1>0, AppendProperties
    <2> QED
      BY <2>1
  <1>2. <<>> \in Seq(T)
    BY EmptySeq
  <1>3. PICK g \in [0 .. L -> Seq(T)] :
               g[0] = <<>> /\ \A n \in 1 .. L : g[n] = step[n][g[n - 1]]
    <2> HIDE DEF step, L, Body, kept
    <2>1. \A b \in Seq(T) : \A s \in [1 .. L -> [Seq(T) -> Seq(T)]] :
             \E g \in [0 .. L -> Seq(T)] : g[0] = b /\ \A n \in 1 .. L : g[n] = s[n][g[n - 1]]
      <3> DEFINE V == Seq(T)
      <3> SUFFICES ASSUME NEW b \in V, NEW s \in [1 .. L -> [V -> V]]
                   PROVE  \E g \in [0 .. L -> V] :
                             g[0] = b /\ \A n \in 1 .. L : g[n] = s[n][g[n - 1]]
        OBVIOUS
      <3> HIDE DEF V
      <3>1. L \in Nat
        BY <1>0
      <3> QED
        BY <3>1, LoopRuns
    <2>2. \A s \in [1 .. L -> [Seq(T) -> Seq(T)]] :
             \E g \in [0 .. L -> Seq(T)] : g[0] = <<>> /\ \A n \in 1 .. L : g[n] = s[n][g[n - 1]]
      BY <1>2, <2>1
    <2> QED
      BY <1>1, <2>2
  <1>4. g = Body(g)
    <2>1. ASSUME NEW n \in 0 .. L PROVE g[n] = Body(g)[n]
      <3>1. CASE n = 0
        BY <1>3, <3>1
      <3>2. CASE n # 0
        <4>1. n \in 1 .. L /\ n - 1 \in 0 .. L
          BY <1>0, <3>2
        <4>2. g[n - 1] \in Seq(T)
          BY <4>1
        <4> QED
          BY <1>3, <3>2, <4>1, <4>2
      <3> QED
        BY <3>1, <3>2
    <2> HIDE DEF L
    <2>2. g = [n \in 0 .. L |-> g[n]]
      OBVIOUS
    <2> QED
      BY <2>1, <2>2
  <1>5. kept = Body(kept)
    <2> HIDE DEF Body
    <2> QED
      BY <1>4
  <1>6. Keep(rows, D) = kept[L]
    BY DEF Keep
  <1>7. kept[0] = <<>> /\ \A n \in 1 .. L :
            kept[n] = IF n \in D THEN Append(kept[n - 1], rows[n]) ELSE kept[n - 1]
    <2> HIDE DEF kept, L
    <2>1. \A n \in 0 .. L : kept[n] = Body(kept)[n]
      BY <1>5
    <2>2. 0 \in 0 .. L /\ \A n \in 1 .. L : n \in 0 .. L /\ n # 0
      BY <1>0
    <2> QED
      BY <2>1, <2>2
  <1> HIDE DEF kept, Body, step, L
  <1> DEFINE Sofar(n) == kept[n] \in Seq(T) /\ \E f : Enumerates(f, kept[n], rows, D, n)
             S == {n \in Nat : n <= L => Sofar(n)}
  <1>8. 0 \in S
    <2>1. Len(<<>>) = 0 /\ 1 .. 0 = {}
      OBVIOUS
    <2>2. Enumerates([j \in {} |-> 0], <<>>, rows, D, 0)
      BY <2>1 DEF Enumerates
    <2> QED
      BY <1>2, <1>7, <2>2
  <1>9. ASSUME NEW n \in Nat, n \in S PROVE n + 1 \in S
    <2> SUFFICES ASSUME n + 1 <= L PROVE Sofar(n + 1)
      OBVIOUS
    <2>1. kept[n] \in Seq(T) /\ n + 1 \in 1 .. Len(rows) /\ (n + 1) - 1 = n
      BY <1>0, <1>9 DEF L
    <2>2. PICK f : Enumerates(f, kept[n], rows, D, (n + 1) - 1)
      BY <1>0, <1>9, <2>1
    <2>3. kept[n + 1] = IF n + 1 \in D THEN Append(kept[n], rows[n + 1]) ELSE kept[n]
      BY <1>7, <2>1 DEF L
    <2>4. CASE n + 1 \in D
      <3>1. /\ Append(kept[n], rows[n + 1]) \in Seq(T)
            /\ \E h : Enumerates(h, Append(kept[n], rows[n + 1]), rows, D, n + 1)
        BY <2>1, <2>2, <2>4, EnumerationGrows, Zenon
      <3> QED
        BY <2>3, <2>4, <3>1
    <2>5. CASE n + 1 \notin D
      <3>1. Enumerates(f, kept[n], rows, D, n + 1)
        BY <2>1, <2>2, <2>5, EnumerationGrows, Zenon
      <3> QED
        BY <2>1, <2>3, <2>5, <3>1
    <2> QED
      BY <2>4, <2>5
  <1>10. L \in S
    <2> HIDE DEF S
    <2> QED
      BY <1>0, <1>8, <1>9, SetInduction
  <1> QED
    BY <1>0, <1>6, <1>10 DEF L
=============================================================================
