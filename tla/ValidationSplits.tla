-------------------------- MODULE ValidationSplits --------------------------
(***************************************************************************)
(* The split generators of src/cpp/src/core/validation.cpp as operators:   *)
(* what each writes into the folds of a plan once its arguments are valid. *)
(* A random stream is abstracted to the permutations it can produce, and a *)
(* matrix to its pairwise squared distances.                               *)
(***************************************************************************)
EXTENDS Integers, Sequences, FiniteSets, Functions, Filtering

Rows(n) == 0 .. n - 1

(* A loop "for sample = 0 .. n-1" that keeps the samples of S. *)
Ascending(n, S) == Keep([i \in 1 .. n |-> i - 1], {i \in 1 .. n : i - 1 \in S})

(* The complement of a fold's other side, in ascending order. *)
FromTestAll(n, test) ==                 \* mutant: test rows stay in train
    [train |-> Ascending(n, Rows(n)), test |-> test]
FromTest(n, test)   == [train |-> Ascending(n, Rows(n) \ Range(test)), test |-> test]
FromTrain(n, train) == [train |-> train, test |-> Ascending(n, Rows(n) \ Range(train))]

(* fill_fold: the half-open interval [start, stop) is the test set. *)
IntervalClosed(n, start, stop) ==       \* mutant: test_stop included
    FromTest(n, Ascending(n, {s \in Rows(n) : start <= s /\ s <= stop}))
Interval(n, start, stop) == FromTest(n, Ascending(n, {s \in Rows(n) : start <= s /\ s < stop}))

(***************************************************************************)
(* k-fold: base samples a fold, one more in each of the first remainder    *)
(* folds; Starts is the running start of the loop, Starts[k] its last stop.*)
(***************************************************************************)
FoldSize(n, k, f) == (n \div k) + (IF f < n % k THEN 1 ELSE 0)

Starts(n, k) ==
    LET start[f \in 0 .. k] == IF f = 0 THEN 0 ELSE start[f - 1] + FoldSize(n, k, f - 1)
    IN start

KFoldArguments(n, k) == n >= 2 /\ 2 <= k /\ k <= n

KFold(n, k) ==
    LET start == Starts(n, k)
    IN [f \in 1 .. k |-> Interval(n, start[f - 1], start[f])]

HoldoutArguments(n, start, count) ==
    /\ n >= 2 /\ start >= 0 /\ count > 0
    /\ start <= n /\ count <= n - start /\ count < n

Holdout(n, start, count) == <<Interval(n, start, start + count)>>

(* ids[s] is the fold sample s is tested in; every fold tests some samples  *)
(* and trains on some.                                                      *)
ExternalArguments(n, ids, k) ==
    /\ KFoldArguments(n, k)
    /\ \A s \in Rows(n) : ids[s] \in 0 .. k - 1
    /\ \A f \in 0 .. k - 1 : {s \in Rows(n) : ids[s] = f} \notin {{}, Rows(n)}

ExternalFolds(n, ids, k) ==
    [f \in 1 .. k |-> FromTest(n, Ascending(n, {s \in Rows(n) : ids[s] = f - 1}))]

(* shuffle_indices: every arrangement the Fisher-Yates loop can reach. *)
Shuffles(n) == {p \in [1 .. n -> Rows(n)] : Range(p) = Rows(n)}

(* One repeat per arrangement in perms, cut into k balanced runs. *)
RepeatedKFoldMixed(n, k, perms) ==      \* mutant: the repeat taken from the fold index
    LET start == Starts(n, k)
    IN [i \in 1 .. k * Len(perms) |->
          FromTest(n, SubSeq(perms[((i - 1) % Len(perms)) + 1],
                             start[(i - 1) % k] + 1, start[((i - 1) % k) + 1]))]
RepeatedKFold(n, k, perms) ==
    LET start == Starts(n, k)
    IN [i \in 1 .. k * Len(perms) |->
          LET p == perms[((i - 1) \div k) + 1]
              f == (i - 1) % k
          IN FromTest(n, SubSeq(p, start[f] + 1, start[f + 1]))]

MonteCarloArguments(n, count, repeats) ==
    n >= 2 /\ count > 0 /\ count < n /\ repeats >= 1

MonteCarlo(n, count, perms) ==
    [i \in DOMAIN perms |-> FromTest(n, SubSeq(perms[i], 1, count))]

(***************************************************************************)
(* select_representative_indices: the farthest pair, then repeatedly the   *)
(* sample whose nearest chosen sample is farthest; strict comparisons, so  *)
(* ties go to the first in scan order.  d[i][j] is symmetric.              *)
(***************************************************************************)
RepresentativeArguments(n, count) == n >= 3 /\ 2 <= count /\ count < n

(* compute_pairwise_squared_distances of the rows of a matrix, row by row a *)
(* sequence.                                                               *)
SquaredDistance(a, b) ==
    LET dist[c \in 0 .. Len(a)] ==
          IF c = 0 THEN 0 ELSE dist[c - 1] + (a[c] - b[c]) * (a[c] - b[c])
    IN dist[Len(a)]

PairwiseDistances(m) ==
    [i \in Rows(Len(m)) |-> [j \in Rows(Len(m)) |-> SquaredDistance(m[i + 1], m[j + 1])]]

FarthestPair(n, d) ==
    LET pairs == {p \in Rows(n) \X Rows(n) : p[1] < p[2]}
        best  == {p \in pairs : \A q \in pairs : d[p[1]][p[2]] >= d[q[1]][q[2]]}
    IN CHOOSE p \in best : \A q \in best : p[1] < q[1] \/ (p[1] = q[1] /\ p[2] <= q[2])

NearestLargest(d, s, chosen) ==         \* mutant: the farthest chosen sample instead
    CHOOSE x \in {d[s][c] : c \in chosen} : \A c \in chosen : x >= d[s][c]
Nearest(d, s, chosen) ==
    CHOOSE x \in {d[s][c] : c \in chosen} : \A c \in chosen : x <= d[s][c]

NextRepresentative(n, d, chosen) ==
    LET rest == Rows(n) \ chosen
        best == {s \in rest : \A t \in rest : Nearest(d, s, chosen) >= Nearest(d, t, chosen)}
    IN CHOOSE s \in best : \A t \in best : s <= t

Representatives(n, d, count) ==
    LET chosen[m \in 2 .. count] ==
          IF m = 2 THEN FarthestPair(n, d)
          ELSE Append(chosen[m - 1], NextRepresentative(n, d, Range(chosen[m - 1])))
    IN chosen[count]

KennardStone(n, d, count) == <<FromTrain(n, Representatives(n, d, count))>>

(* SPXY adds the X and Y distances, each divided by its largest entry; the *)
(* sum is scaled by both maxima to stay in the integers.  A block of equal *)
(* rows has maximum 0 and contributes nothing.                             *)
Largest(n, d) == d[FarthestPair(n, d)[1]][FarthestPair(n, d)[2]]

SpxyDistances(n, dx, dy) ==
    LET mx == Largest(n, dx)
        my == Largest(n, dy)
    IN [i \in Rows(n) |-> [j \in Rows(n) |->
          (IF mx > 0 THEN dx[i][j] * (IF my > 0 THEN my ELSE 1) ELSE 0)
        + (IF my > 0 THEN dy[i][j] * (IF mx > 0 THEN mx ELSE 1) ELSE 0)]]
=============================================================================
