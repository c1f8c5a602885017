-------------------------- MODULE MCValidationPlan --------------------------
(* The plan handle and every split generator on up to four samples: counts *)
(* around every boundary of the argument checks, fold ids with an empty    *)
(* fold, a full fold and an id out of range, and distance matrices with    *)
(* ties, coincident rows and no spread at all.                             *)
EXTENDS ValidationPlan

MCSampleCounts == {-1, 1, 4}
MCCounts == -1 .. 5
MCRepeats == 0 .. 2
MCFoldIds == [0 .. 3 -> -1 .. 2]

(* Points on a line and in the plane. *)
MCMatrices == {<< <<0>>, <<1>> >>, << <<0>>, <<1>>, <<2>>, <<3>> >>, << <<2>>, <<0>>, <<3>>, <<1>> >>,
               << <<0>>, <<0>>, <<1>>, <<1>> >>, << <<9>>, <<1>>, <<0>>, <<6>> >>,
               << <<1>>, <<1>>, <<1>>, <<1>> >>, << <<0, 0>>, <<3, 0>>, <<0, 2>>, <<3, 2>> >>}

MCHandFolds == {<< <<1, 2, 3>>, <<0>> >>, << <<0>>, <<2, 1, 3>> >>, << <<>>, <<0>> >>}

(* Folds with a repeated training row, and with a row on both sides. *)
MCCarelessFolds == {<< <<0, 0>>, <<1>> >>, << <<0, 1, 2>>, <<2, 3>> >>}
=============================================================================
