----------------------------- MODULE MCPipeline -----------------------------
(* Two threads and two pipelines.  A bound: the pipelines of one behaviour *)
(* are built from one list, of two supervised operators that each keep a   *)
(* row of statistics, or of one operator, for each of the other kinds.     *)
EXTENDS Pipeline, TLC, SequencesExt

VARIABLE list       \* what both pipelines are prefixes of

MCLists == {<<"EPO", "EPO">>} \cup {<<kind>> : kind \in Kinds \ {"EPO"}}

MCInit == Init /\ list \in MCLists
MCNext == Next /\ UNCHANGED list /\ \A h \in Handles : IsPrefix(entries'[h], list)
MCSpec == MCInit /\ [][MCNext]_<<plVars, list>>

MCSymmetry == Permutations(Handles) \cup Permutations(Callers)
=============================================================================
