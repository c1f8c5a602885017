--------------------------- MODULE ValidationPlan ---------------------------
(***************************************************************************)
(* The life of one ValidationPlan: the n_validation_plan_t handle a caller *)
(* builds fold by fold (src/cpp/src/c_api/c_api_validation_plan.cpp), or   *)
(* the out argument a split generator of src/cpp/src/core/validation.cpp   *)
(* fills.  A generator works through its folds in a loop any turn of which *)
(* may run out of memory, and it then returns with out as it stands.       *)
(***************************************************************************)
EXTENDS ValidationFolds, ValidationSplits

CONSTANTS SampleCounts, \* the n_samples callers pass
          Counts,       \* the n_splits, interval starts and side sizes callers pass
          Repeats,      \* the n_repeats callers pass
          FoldIds,      \* the external fold ids callers pass, functions on 0 .. n_samples - 1
          Matrices,     \* the X and the Y callers pass: sequences of rows
          HandFolds,    \* the <<train, test>> index buffers callers add
          MaxFolds      \* bound on the folds added by hand

ASSUME CountsAssumption == SampleCounts \subseteq Int /\ Counts \subseteq Int /\ Repeats \subseteq Int

ASSUME BuffersAssumption ==
    /\ HandFolds \subseteq Seq(Int) \X Seq(Int)
    /\ \A ids \in FoldIds : IsFiniteSet(DOMAIN ids) /\ ids \in [Rows(Cardinality(DOMAIN ids)) -> Int]
    /\ \A m \in Matrices : m \in Seq(Seq(Int)) /\ \A i, j \in DOMAIN m : Len(m[i]) = Len(m[j])

VARIABLES plan,         \* the core ValidationPlan
          made,         \* what the plan was made by: <<generator, n_samples, arguments>>
          filling,      \* the fold the running generator is at, 0 between calls
          status        \* what the last call returned, OK inside a generator

planVars == <<plan, made, filling, status>>

Unset == [n_samples |-> 0, folds |-> <<>>]
EmptyFold == [train |-> <<>>, test |-> <<>>]
ByHand == <<"by hand">>

Idle == filling = 0
Handmade == Idle /\ made = ByHand

Init == plan = Unset /\ made = ByHand /\ filling = 0 /\ status = "OK"

Answer(code) == status' = code /\ filling' = 0

(* The caller is done with this plan and makes another one. *)
Create == Idle /\ plan' = Unset /\ Answer("OK") /\ made' = ByHand

(***************************************************************************)
(* The C handle.  Both calls leave the plan alone when they fail.          *)
(***************************************************************************)
SetNSamplesUnchecked(n) ==              \* mutant: the sign is not checked
    Handmade /\ Answer("OK") /\ plan' = [plan EXCEPT !.n_samples = n] /\ UNCHANGED made
SetNSamples(n) ==
    /\ Handmade /\ UNCHANGED made
    /\ \/ n < 0  /\ Answer("INVALID_ARGUMENT") /\ UNCHANGED plan
       \/ n >= 0 /\ Answer("OK") /\ plan' = [plan EXCEPT !.n_samples = n]

AddFold(train, test) ==
    /\ Handmade /\ UNCHANGED made
    /\ \/ /\ train = <<>> \/ test = <<>>
          /\ Answer("INVALID_ARGUMENT") /\ UNCHANGED plan
       \/ /\ train # <<>> /\ test # <<>>
          /\ \/ /\ Answer("OK")
                /\ plan' = [plan EXCEPT !.folds = Append(@, [train |-> train, test |-> test])]
             \/ Answer("OUT_OF_MEMORY") /\ UNCHANGED plan

(***************************************************************************)
(* The generators.  Each resets out before it looks at its arguments; what *)
(* it allocates before the fold vector may fail with out still empty.      *)
(* INVALID_ARGUMENT stands for every argument error, view errors included. *)
(* Generating into a plan generated before is the same as into any other,  *)
(* so the model stops at one generator per plan.                           *)
(***************************************************************************)
Accept(maker, folds) ==
    /\ plan' = [n_samples |-> maker[2], folds |-> [f \in 1 .. folds |-> EmptyFold]]
    /\ filling' = 1 /\ status' = "OK"

GenerateInPlace(maker, valid, folds) ==         \* mutant: out reset after the checks
    /\ Handmade /\ made' = maker
    /\ IF valid THEN Accept(maker, folds) ELSE Answer("INVALID_ARGUMENT") /\ UNCHANGED plan
Generate(maker, valid, folds) ==
    /\ Handmade /\ made' = maker
    /\ IF valid
       THEN \/ Accept(maker, folds)
            \/ /\ Answer("OUT_OF_MEMORY")
               /\ plan' \in {Unset, [Unset EXCEPT !.n_samples = maker[2]]}
       ELSE Answer("INVALID_ARGUMENT") /\ plan' = Unset

MakeKFold(n, k) == Generate(<<"kfold", n, k>>, KFoldArguments(n, k), k)

MakeLeaveOneOut(n) == MakeKFold(n, n)

MakeHoldout(n, start, count) ==
    Generate(<<"holdout", n, start, count>>, HoldoutArguments(n, start, count), 1)

MakeExternalFolds(n, ids, k) ==
    Generate(<<"external", n, ids, k>>, ExternalArguments(n, ids, k), k)

(* The shuffles of a run; a rejected call draws none. *)
Draws(n, repeats, valid) == IF valid THEN [1 .. repeats -> Shuffles(n)] ELSE {<<>>}

MakeRepeatedKFold(n, k, repeats) ==
    LET valid == KFoldArguments(n, k) /\ repeats >= 1
    IN \E perms \in Draws(n, repeats, valid) :
          Generate(<<"repeated", n, k, perms>>, valid, k * repeats)

MakeMonteCarlo(n, count, repeats) ==
    LET valid == MonteCarloArguments(n, count, repeats)
    IN \E perms \in Draws(n, repeats, valid) :
          Generate(<<"monte_carlo", n, count, perms>>, valid, repeats)

MakeKennardStone(x, count) ==
    Generate(<<"kennard_stone", Len(x), x, count>>, RepresentativeArguments(Len(x), count), 1)

MakeSpxy(x, y, count) ==
    Generate(<<"spxy", Len(x), x, y, count>>,
             Len(y) = Len(x) /\ RepresentativeArguments(Len(x), count), 1)

(* What the loop of a generator writes, fold by fold. *)
FoldsOf(maker) ==
    LET n == maker[2]
    IN CASE maker[1] = "kfold"         -> KFold(n, maker[3])
         [] maker[1] = "holdout"       -> Holdout(n, maker[3], maker[4])
         [] maker[1] = "external"      -> ExternalFolds(n, maker[3], maker[4])
         [] maker[1] = "repeated"      -> RepeatedKFold(n, maker[3], maker[4])
         [] maker[1] = "monte_carlo"   -> MonteCarlo(n, maker[3], maker[4])
         [] maker[1] = "kennard_stone" -> KennardStone(n, PairwiseDistances(maker[3]), maker[4])
         [] maker[1] = "spxy"          ->
              KennardStone(n, SpxyDistances(n, PairwiseDistances(maker[3]),
                                               PairwiseDistances(maker[4])), maker[5])

(* One turn of the fill loop. *)
FillFold ==
    /\ ~Idle /\ plan' = [plan EXCEPT !.folds[filling] = FoldsOf(made)[filling]]
    /\ IF filling = Len(plan.folds) THEN Answer("OK")
                                    ELSE filling' = filling + 1 /\ UNCHANGED status
    /\ UNCHANGED made

(* What a fill function has stored when one of its own allocations fails:  *)
(* fill_fold and the external loop reserve both sides before they push,    *)
(* the two others first assign the side they were given.                   *)
PartialFolds(maker, f) ==
    {EmptyFold}
      \cup (IF maker[1] \in {"repeated", "monte_carlo"}
            THEN {[train |-> <<>>, test |-> f.test]} ELSE {})
      \cup (IF maker[1] \in {"kennard_stone", "spxy"}
            THEN {[train |-> f.train, test |-> <<>>]} ELSE {})

AllocationFails ==
    /\ ~Idle /\ \E g \in PartialFolds(made, FoldsOf(made)[filling]) :
                   plan' = [plan EXCEPT !.folds[filling] = g]
    /\ Answer("OUT_OF_MEMORY") /\ UNCHANGED made

HandStep == \/ Create
            \/ \E n \in SampleCounts : SetNSamples(n)
            \/ \E f \in HandFolds : Len(plan.folds) < MaxFolds /\ AddFold(f[1], f[2])

GeneratorStep ==
    \/ \E n \in SampleCounts :
          \/ MakeLeaveOneOut(n)
          \/ \E k \in Counts : MakeKFold(n, k)
          \/ \E start, count \in Counts : MakeHoldout(n, start, count)
          \/ \E k \in Counts, r \in Repeats : MakeRepeatedKFold(n, k, r)
          \/ \E count \in Counts, r \in Repeats : MakeMonteCarlo(n, count, r)
    \/ \E ids \in FoldIds, k \in Counts : MakeExternalFolds(Cardinality(DOMAIN ids), ids, k)
    \/ \E x \in Matrices, count \in Counts : MakeKennardStone(x, count)
    \/ \E x, y \in Matrices, count \in Counts : MakeSpxy(x, y, count)
    \/ FillFold
    \/ AllocationFails

Next == HandStep \/ GeneratorStep

Spec == Init /\ [][Next]_planVars
-----------------------------------------------------------------------------
TypeOK ==
    /\ plan \in Plan /\ plan.n_samples >= 0
    /\ filling \in 0 .. Len(plan.folds)
    /\ status \in {"OK", "INVALID_ARGUMENT", "OUT_OF_MEMORY"}

Generated(makers) == Idle /\ made[1] \in makers /\ status = "OK" /\ plan.n_samples = NRows

(* A caller that overlooks a generator's error does no harm: whatever an    *)
(* allocation failure left in out, no consumer of plans takes it for a     *)
(* plan, because the fold being filled always lacks one of its sides.       *)
FailedPlanUnusable ==
    Idle /\ made # ByHand /\ status # "OK" => ~Partitions(plan) /\ ~AomAccepts(plan)

(* Why: the fold a generator is at is one of those it resized the vector    *)
(* to, and a call that fails leaves the vector empty or a fold of it with  *)
(* an empty side.                                                          *)
Vector(q, m) == m \in Nat \ {0} /\ q = [i \in 1 .. m |-> q[i]]
Lacking(f)   == f.train = <<>> \/ f.test = <<>>
Useless(q)   == q = <<>> \/ \E i \in DOMAIN q : Lacking(q[i])

FillInv ==
    /\ \/ Idle
       \/ /\ plan = [n_samples |-> plan.n_samples, folds |-> plan.folds]
          /\ \E m \in Nat : Vector(plan.folds, m) /\ filling \in 1 .. m
    /\ Idle /\ made # ByHand /\ status # "OK" => Useless(plan.folds)

(* K-fold, leave-one-out and external-fold plans are exactly what           *)
(* cross_validate_regression asks for.                                      *)
GeneratedPartition == Generated({"kfold", "external"}) => Partitions(plan)

(* Every plan a generator completes is leak-free fold by fold, whatever the *)
(* shuffles were, and each fold uses every sample on one side or the other. *)
GeneratedComplementary ==
    Generated({"kfold", "holdout", "external", "repeated", "monte_carlo",
               "kennard_stone", "spxy"}) =>
      /\ AomAccepts(plan)
      /\ \A f \in DOMAIN plan.folds :
            Elements(plan.folds[f].train) \cup Elements(plan.folds[f].test) = Samples

(* No two folds of a (repeated) k-fold plan differ by more than one sample, *)
(* and over all repeats every sample is tested equally often.               *)
TimesTested(s) == Cardinality({f \in DOMAIN plan.folds : s \in Elements(plan.folds[f].test)})
BalancedFolds ==
    Generated({"kfold", "repeated"}) =>
      /\ \A f, g \in DOMAIN plan.folds :
            Len(plan.folds[f].test) <= Len(plan.folds[g].test) + 1
      /\ \A s, t \in Samples : TimesTested(s) = TimesTested(t)

(* The Kennard-Stone guarantee: the training rows are spread at least as    *)
(* wide as any row left out is far from them, with distances of X (KS) or   *)
(* of X and Y together (SPXY).                                              *)
RepresentativesSpread ==
    Generated({"kennard_stone", "spxy"}) =>
      LET dx    == PairwiseDistances(made[3])
          d     == IF made[1] = "spxy" THEN SpxyDistances(NRows, dx, PairwiseDistances(made[4])) ELSE dx
          train == Elements(plan.folds[1].train)
      IN \A s \in Samples \ train : \A t, u \in train :
            t # u => \E v \in train : d[s][v] <= d[t][u]

(* pls.h on n4m_validation_plan_add_fold: indices are not validated there;  *)
(* "semantic checks (range, duplicates, train/test overlap) are run when a *)
(* selection kernel consumes the plan".                                     *)
SemanticChecksRun ==
    StabilityAccepts(plan) => \A f \in DOMAIN plan.folds : WellFormed(plan.folds[f])
=============================================================================
