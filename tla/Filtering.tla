----------------------------- MODULE Filtering -----------------------------
(* The loops that walk over a list and append some of it to another one.   *)
EXTENDS Integers, Sequences

(* The elements of rows at the positions in D, in their order. *)
Keep(rows, D) ==
    LET kept[n \in 0 .. Len(rows)] ==
          IF n = 0 THEN <<>>
          ELSE IF n \in D THEN Append(kept[n - 1], rows[n]) ELSE kept[n - 1]
    IN kept[Len(rows)]
=============================================================================
