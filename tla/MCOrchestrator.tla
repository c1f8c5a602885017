--------------------------- MODULE MCOrchestrator ---------------------------
(* Small command lines for Orchestrator. *)
EXTENDS Orchestrator

CONSTANTS ref1, ref3, n4m, A, B     \* canonical reference on 1 and 3 threads, a library row; seeds

Line(plans, seeds, resumes, forces, reruns, flushes, deferreds, workers) ==
    [plan : plans, seed : seeds, resume : resumes, force : forces, rerun_failed : reruns,
     flush : flushes, deferred : deferreds, workers : workers]

\* both cells or one shard, two seeds: a fresh launch or a resumed one
Mixed(resume, reruns) ==
    Line({<<n4m, ref1>>, <<n4m>>}, {A, B}, {resume}, {FALSE}, reruns, BOOLEAN, {{}, {n4m}}, {2})
        \cup Line({<<ref1>>}, {A, B}, {resume}, {FALSE}, reruns, BOOLEAN, {{}}, {2})
MixedLaunches == Mixed(FALSE, {FALSE}) \cup Mixed(TRUE, BOOLEAN)
\* one seed, resumed: both cells or a shard, with every switch, or the reference on two thread counts
ResumedLaunches ==
    Line({<<n4m, ref1>>, <<n4m>>}, {A}, {TRUE}, BOOLEAN, {FALSE}, BOOLEAN, {{}, {n4m}}, {1, 2})
        \cup Line({<<ref1, ref3>>}, {A}, {TRUE}, {FALSE}, {FALSE}, BOOLEAN, {{}}, {2})
\* one sweep, resumed with its seed and never forced: both cells, or either shard
SweepLaunches == Line({<<n4m, ref1>>, <<n4m>>, <<ref1>>}, {A}, {TRUE}, {FALSE}, BOOLEAN, BOOLEAN, {{}, {n4m}}, {2})
\* two seeds, never resumed: both cells or a shard
FreshCommands == Line({<<n4m, ref1>>, <<n4m>>}, {A, B}, {FALSE}, {FALSE}, {FALSE}, BOOLEAN, {{}}, {2})
\* reference cells at two thread counts, two workers
ThreadLaunches == Line({<<n4m, ref1, ref3>>}, {A}, {FALSE}, {FALSE}, {FALSE}, {FALSE}, {{}}, {2})
\* two seeds, the reference alone or with the library, nothing flushed
SeedLaunches == Line({<<n4m, ref1>>, <<ref1>>}, {A, B}, {TRUE}, {FALSE}, {FALSE}, {FALSE}, {{}}, {2})
=============================================================================
