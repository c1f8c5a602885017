------------------------- MODULE MCCrossValidation -------------------------
(* cross_validate_regression on three samples and every plan of up to two  *)
(* folds drawn from MCFolds, plus two three-fold plans: good folds and one *)
(* fold for each defect a caller of add_fold can introduce.                *)
EXTENDS CrossValidation

F(train, test) == [train |-> train, test |-> test]

MCFolds == {F(<<1, 2>>, <<0>>), F(<<0>>, <<2, 1>>), F(<<0, 1>>, <<2>>), F(<<2>>, <<0, 1>>),
            F(<<1>>, <<0>>),            \* sample 2 unused
            F(<<0, 1>>, <<1, 2>>),      \* trains on a test sample
            F(<<1, 1>>, <<0, 2>>),      \* duplicate train row
            F(<<0>>, <<1, 1>>),         \* duplicate test row
            F(<<0, 3>>, <<1, 2>>),      \* train row past the end
            F(<<0, 1>>, <<-1, 2>>)}     \* negative test row

MCFoldLists == UNION {[1 .. k -> MCFolds] : k \in 0 .. 2}
                 \cup {<<F(<<1, 2>>, <<0>>), F(<<2, 0>>, <<1>>), F(<<0, 1>>, <<2>>)>>,
                       <<F(<<1, 2>>, <<0>>), F(<<0, 1>>, <<2>>), F(<<1>>, <<0>>)>>}

MCPlans == [n_samples : {0, 3}, folds : MCFoldLists]
=============================================================================
