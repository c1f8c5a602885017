--------------------------- MODULE FittedPipeline ---------------------------
(***************************************************************************)
(* What a preprocessing pipeline promises: data comes out of it only       *)
(* through the whole chain of its present operators, all of them trained in *)
(* one go on one training matrix, each on what the operators before it     *)
(* made of that matrix.                                                    *)
(***************************************************************************)
EXTENDS Naturals, Sequences

CONSTANTS Handles, Callers, Kinds,
          Matrix,           \* the matrices callers pass
          Cols(_),          \* number of columns of a matrix
          Stage(_, _, _),   \* Stage(k, X, n): operator k trained on X after n operators
          Untrained,        \* a pipeline that cannot transform
          Nothing           \* what a caller that got no data holds

VARIABLES operators,        \* per handle: the kinds added, in order
          model,            \* per handle: Untrained, or its width and trained chain
          answer            \* per caller: what the last transform gave it

fpVars == <<operators, model, answer>>

Chain(ops, X) == [i \in 1 .. Len(ops) |-> Stage(ops[i], X, i - 1)]
Model(ops, X) == [width |-> Cols(X), chain |-> Chain(ops, X)]

Init == /\ operators = [h \in Handles |-> <<>>]
        /\ model = [h \in Handles |-> Untrained]
        /\ answer = [c \in Callers |-> Nothing]

Answer(c, value) == answer' = [answer EXCEPT ![c] = value]

(* A caller has data only from a transform, until its next call. *)
Set(c, h, ops, m) == /\ operators' = [operators EXCEPT ![h] = ops]
                     /\ model' = [model EXCEPT ![h] = m]
                     /\ Answer(c, Nothing)

Clear(c, h) == Set(c, h, <<>>, Untrained)
Copy(c, src, dst) == Set(c, dst, operators[src], model[src])
Extend(c, h, kind) == Set(c, h, Append(operators[h], kind), Untrained)
Forget(c, h) == Set(c, h, operators[h], Untrained)
Train(c, h, X) == Set(c, h, operators[h], Model(operators[h], X))

Apply(c, h, X) == /\ model[h] # Untrained /\ Cols(X) = model[h].width
                  /\ Answer(c, [data |-> X, through |-> model[h].chain])
                  /\ UNCHANGED <<operators, model>>

Refuse(c) == Answer(c, Nothing) /\ UNCHANGED <<operators, model>>

Next == \E c \in Callers : \/ Refuse(c)
                           \/ \E h \in Handles : \/ Clear(c, h) \/ Forget(c, h)
                                                 \/ \E src \in Handles : Copy(c, src, h)
                                                 \/ \E kind \in Kinds : Extend(c, h, kind)
                                                 \/ \E X \in Matrix : Train(c, h, X) \/ Apply(c, h, X)

Spec == Init /\ [][Next]_fpVars
=============================================================================
