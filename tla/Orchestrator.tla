---------------------------- MODULE Orchestrator ----------------------------
(***************************************************************************)
(* benchmarks/cross_binding/orchestrator.py: launch after launch of the    *)
(* cross-binding benchmark on one result CSV.  A launch decides for every  *)
(* planned cell whether its row is kept, deferred or recomputed, runs the  *)
(* pending cells in a thread pool, each in a benchmark process that saves  *)
(* its prediction vector, freezes the vectors of the canonical reference   *)
(* as oracles, compares the vectors of every row and writes the CSV.       *)
(*                                                                         *)
(* The cells are those of one algorithm and size.  A vector is the seed of *)
(* the dataset it was computed on.  Oracles and predictions carry a JSON   *)
(* sidecar written in the same steps as the vector; it is left out.        *)
(***************************************************************************)
EXTENDS Integers, Sequences, FiniteSets, SequencesExt, Filtering

CONSTANTS Cells,        \* (backend, threads, build) combinations
          Canonical,    \* the cells of the canonical reference backend
          Seeds,        \* --seed-base values
          Threads,      \* pool threads
          Launches,     \* command lines
          Outcomes,     \* how benchmark processes may end
          MaxLaunches,  \* bound: launches
          MaxKills      \* bound: launches killed

CommandLine == [plan : Seq(Cells), seed : Seeds, resume : BOOLEAN, force : BOOLEAN,
                rerun_failed : BOOLEAN, flush : BOOLEAN, deferred : SUBSET Cells, workers : Nat]

Missing == "missing"
Torn == "torn"
NoCell == "none"

ASSUME OrchestratorAssumption ==
    /\ Canonical \subseteq Cells /\ NoCell \notin Cells
    /\ Missing \notin Seeds /\ Torn \notin Seeds
    /\ IsFiniteSet(Threads) /\ Launches \subseteq CommandLine
    /\ \A a \in Launches : a.workers \in 1..Cardinality(Threads) /\ IsInjective(a.plan)
    /\ Outcomes \subseteq {"ok", "failed", "mute"}
    /\ MaxLaunches \in Nat /\ MaxKills \in Nat

VARIABLES csv,          \* rows of --out-csv
          predictions,  \* the prediction file of each cell
          oracles,      \* the oracle file of each seed
          tmp,          \* "{oracle}.tmp.{pid}" of each seed, for the launched process
          pc, after,    \* phase of main, and the one that follows a write of the CSV
          args,         \* its command line
          existing,     \* existing_records
          todo,         \* cells of the plan, then oracles, main has yet to look at
          records, ran, \* records, and the cells of ran_records
          pending,      \* pending_cells not started
          thread,       \* what each pool thread is doing, and to which cell
          finished,     \* futures main has not looked at
          launches, kills

files == <<csv, predictions, oracles>>
mainVars == <<pc, after, args, existing, todo, records, ran>>
poolVars == <<tmp, pending, thread, finished>>
orVars == <<files, mainVars, poolVars, launches, kills>>

Vector == Seeds \cup {Missing, Torn}
Gates == {"", "self", "like", "unlike", "unread", "missing"}
Row == [cell : Cells \cup {NoCell}, seed : Seeds \cup {NoCell},
        status : {"ok", "failed", "deferred"}, gate : Gates]
OutcomeUnseeded(c, status) ==     \* mutant: only measured rows know their seed
    [cell |-> c, seed |-> IF status = "ok" THEN args.seed ELSE Missing, status |-> status, gate |-> ""]
Outcome(c, status) == [cell |-> c, seed |-> args.seed, status |-> status, gate |-> ""]
\* what is left of a row whose slot columns were not all written
CutRow == [cell |-> NoCell, seed |-> NoCell, status |-> "failed", gate |-> ""]
Idle == [stage |-> "idle", cell |-> NoCell]
Stages == {"run", "saving", "saved", "snapshot", "copying", "overwriting", "copied"}

Init == /\ csv = <<>> /\ predictions = [c \in Cells |-> Missing]
        /\ oracles = [s \in Seeds |-> Missing] /\ tmp = [s \in Seeds |-> Missing]
        /\ pc = "idle" /\ after = "idle" /\ args \in Launches
        /\ existing = <<>> /\ todo = <<>> /\ records = <<>> /\ ran = {}
        /\ pending = <<>> /\ thread = [w \in Threads |-> Idle] /\ finished = {}
        /\ launches = 0 /\ kills = 0

---------------------------------------------------------------------------
(* main, before the pool. *)

Launch(a) ==
    /\ pc = "idle" /\ launches < MaxLaunches
    /\ launches' = launches + 1 /\ args' = a /\ todo' = a.plan
    /\ existing' = IF a.resume THEN csv ELSE <<>>
    /\ records' = <<>> /\ ran' = {} /\ pc' = "resolve"
    /\ tmp' = [s \in Seeds |-> Missing]         \* another pid
    /\ UNCHANGED <<files, after, pending, thread, finished, kills>>

RowOf(rows, c) == rows[SelectLastInSeq(rows, LAMBDA r : r.cell = c)]
CellsOf(rows) == {rows[i].cell : i \in DOMAIN rows}

KeptAnySeed(c) ==       \* mutant: the slot, not the strict key
    /\ args.resume /\ ~args.force /\ c \in CellsOf(existing)
    /\ LET row == RowOf(existing, c)
       IN  row.status # "failed" /\ (row.status = "ok" \/ ~args.rerun_failed)
\* An executed cell that failed records no max_runs for the strict key; a deferred one does.
Kept(c) == /\ args.resume /\ ~args.force
           /\ c \in CellsOf(existing)
           /\ LET row == RowOf(existing, c)
              IN  /\ row.status # "failed" /\ row.seed = args.seed
                  /\ row.status = "ok" \/ ~args.rerun_failed

Resolving(c) == /\ pc = "resolve" /\ todo # <<>> /\ c = Head(todo)
                /\ todo' = Tail(todo)
                /\ UNCHANGED <<files, args, existing, ran, tmp, thread, finished, launches, kills>>

\* --flush-each-cell
FlushThen(phase) == IF args.flush THEN pc' = "rewrite" /\ after' = phase
                                  ELSE pc' = phase /\ UNCHANGED after

SkipExisting(c) == /\ Resolving(c) /\ Kept(c)
                   /\ records' = Append(records, RowOf(existing, c))
                   /\ UNCHANGED <<pc, after, pending>>
Defer(c) == /\ Resolving(c) /\ ~Kept(c) /\ c \in args.deferred
            /\ records' = Append(records, Outcome(c, "deferred"))
            /\ FlushThen("resolve") /\ UNCHANGED pending
Queue(c) == /\ Resolving(c) /\ ~Kept(c) /\ c \notin args.deferred
            /\ pending' = Append(pending, c) /\ UNCHANGED <<records, pc, after>>
OpenPool == /\ pc = "resolve" /\ todo = <<>> /\ pc' = "pool"
            /\ UNCHANGED <<files, after, args, existing, todo, records, ran, poolVars, launches, kills>>

(* write_records: the file is truncated, then the rows go in. *)
Truncate == /\ pc = "rewrite" /\ csv' = <<>> /\ pc' = "rows"
            /\ UNCHANGED <<predictions, oracles, after, args, existing, todo, records, ran,
                           poolVars, launches, kills>>
WriteRows == /\ pc = "rows" /\ csv' = records /\ pc' = after
             /\ UNCHANGED <<predictions, oracles, after, args, existing, todo, records, ran,
                            poolVars, launches, kills>>

---------------------------------------------------------------------------
(* _execute in the pool threads.  With one worker main runs it itself, one  *)
(* cell and its CSV at a time.                                              *)

Sequential == args.workers = 1
Busy == {w \in Threads : thread[w] # Idle}
PoolOpen == pc \in {"pool", "raised"} \/ (pc \in {"rewrite", "rows"} /\ after = "pool")

Start(w) == /\ pending # <<>> /\ thread[w] = Idle /\ Cardinality(Busy) < args.workers
            /\ PoolOpen /\ (Sequential => pc = "pool" /\ finished = {})
            /\ thread' = [thread EXCEPT ![w] = [stage |-> "run", cell |-> Head(pending)]]
            /\ pending' = Tail(pending)
            /\ UNCHANGED <<files, mainVars, tmp, finished, launches, kills>>

At(w, stage) == thread[w].stage = stage /\ UNCHANGED <<csv, mainVars, pending, launches, kills>>
Go(w, stage) == thread' = [thread EXCEPT ![w].stage = stage] /\ UNCHANGED finished
End(w, how) == /\ thread' = [thread EXCEPT ![w] = Idle]
               /\ finished' = finished \cup {[row |-> Outcome(thread[w].cell, how), raised |-> how = "raised"]}

\* The benchmark process writes the prediction file.
Save(w) == /\ At(w, "run") /\ Go(w, "saving")
           /\ predictions' = [predictions EXCEPT ![thread[w].cell] = Torn]
           /\ UNCHANGED <<oracles, tmp>>
Saved(w) == /\ At(w, "saving") /\ Go(w, "saved")
            /\ predictions' = [predictions EXCEPT ![thread[w].cell] = args.seed]
            /\ UNCHANGED <<oracles, tmp>>
\* It printed its record and exited with 0.
Succeed(w) == /\ "ok" \in Outcomes /\ At(w, "saved")
              /\ IF thread[w].cell \in Canonical THEN Go(w, "snapshot") ELSE End(w, "ok")
              /\ UNCHANGED <<predictions, oracles, tmp>>
\* It timed out, exited with an error or printed no record.
Fail(w) == /\ "failed" \in Outcomes
           /\ At(w, "run") \/ At(w, "saving") \/ At(w, "saved")
           /\ End(w, "failed") /\ UNCHANGED <<predictions, oracles, tmp>>
\* It exited with 0 and printed nothing: the last line of its output is an IndexError.
Mute(w) == /\ "mute" \in Outcomes
           /\ At(w, "run") \/ At(w, "saved")
           /\ End(w, "raised") /\ UNCHANGED <<predictions, oracles, tmp>>

\* snapshot_reference_oracle: copy2 to the temporary file ...
OpenCopy(w) == /\ At(w, "snapshot") /\ Go(w, "copying")
               /\ tmp' = [tmp EXCEPT ![args.seed] = Torn] /\ UNCHANGED <<predictions, oracles>>
EndCopy(w) == /\ At(w, "copying") /\ Go(w, "copied")
              /\ tmp' = [tmp EXCEPT ![args.seed] = predictions[thread[w].cell]]
              /\ UNCHANGED <<predictions, oracles>>
\* ... unless another thread has renamed the open file,
EndOverwrite(w) == /\ At(w, "overwriting") /\ Go(w, "copied")
                   /\ oracles' = [oracles EXCEPT ![args.seed] = predictions[thread[w].cell]]
                   /\ UNCHANGED <<predictions, tmp>>
\* ... and os.replace, which raises when the temporary file is gone.
Replace(w) ==
    /\ At(w, "copied") /\ UNCHANGED predictions
    /\ IF tmp[args.seed] = Missing
       THEN End(w, "raised") /\ UNCHANGED <<oracles, tmp>>
       ELSE /\ oracles' = [oracles EXCEPT ![args.seed] = tmp[args.seed]]
            /\ tmp' = [tmp EXCEPT ![args.seed] = Missing]
            /\ thread' = [x \in Threads |-> IF x = w THEN Idle
                             ELSE IF thread[x].stage = "copying"
                             THEN [thread[x] EXCEPT !.stage = "overwriting"] ELSE thread[x]]
            /\ finished' = finished \cup {[row |-> Outcome(thread[w].cell, "ok"), raised |-> FALSE]}

Work(w) == \/ Start(w) \/ Save(w) \/ Saved(w) \/ Succeed(w) \/ Fail(w) \/ Mute(w)
           \/ OpenCopy(w) \/ EndCopy(w) \/ EndOverwrite(w) \/ Replace(w)

---------------------------------------------------------------------------
(* main, collecting. *)

Harvest(f) == /\ pc = "pool" /\ f \in finished /\ finished' = finished \ {f}
              /\ IF f.raised THEN pc' = "raised" /\ UNCHANGED <<records, ran, after>>
                 ELSE /\ records' = Append(records, f.row) /\ ran' = ran \cup {f.row.cell}
                      /\ FlushThen("pool")
              /\ UNCHANGED <<files, args, existing, todo, tmp, pending, thread, launches, kills>>

DieWhenHarvested ==     \* mutant: waits for futures nobody looks at any more
    /\ pc = "raised" /\ Busy = {} /\ finished = {} /\ (Sequential \/ pending = <<>>)
    /\ pc' = "idle" /\ pending' = <<>> /\ UNCHANGED finished
    /\ UNCHANGED <<files, after, args, existing, todo, records, ran, tmp, thread, launches, kills>>
\* The exception leaves the pool once its threads have run what is pending.
Die == /\ pc = "raised" /\ Busy = {} /\ (Sequential \/ pending = <<>>)
       /\ pc' = "idle" /\ pending' = <<>> /\ finished' = {}
       /\ UNCHANGED <<files, after, args, existing, todo, records, ran, tmp, thread, launches, kills>>

Outside(S) == {i \in DOMAIN existing : existing[i].cell \notin S}
PreservedOk ==          \* mutant: recorded failures of other shards go
    Keep(existing, {i \in Outside(Range(args.plan)) : existing[i].status = "ok"})
PreservedUnlessRun == Keep(existing, Outside(ran))     \* mutant: kept rows twice
Preserved == Keep(existing, Outside(Range(args.plan)))
CanonicalRows(rows) ==
    Keep(rows, {i \in DOMAIN rows : rows[i].status = "ok" /\ rows[i].cell \in Canonical})
ParityDueToReference == ran \cap Canonical # {}        \* mutant
ParityDue == ran # {}
\* slot_key of a cut row is a TypeError.
Gather == /\ pc = "pool" /\ pending = <<>> /\ Busy = {} /\ finished = {}
          /\ IF NoCell \in CellsOf(existing) THEN pc' = "raised" /\ UNCHANGED <<records, todo, after>>
             ELSE /\ records' = Preserved \o records
                  /\ IF ~ParityDue THEN pc' = "rewrite" /\ after' = "idle" /\ UNCHANGED todo
                     ELSE /\ pc' = "parity" /\ UNCHANGED after
                          /\ todo' = [i \in DOMAIN CanonicalRows(records') |-> CanonicalRows(records')[i].cell]
          /\ UNCHANGED <<files, args, existing, ran, poolVars, launches, kills>>

\* compute_parity, first loop: every canonical row is a snapshot again.
ResnapshotAsLaunched ==     \* mutant: under the seed of the launch, not of the row
    /\ pc = "parity" /\ todo # <<>> /\ todo' = Tail(todo)
    /\ oracles' = [oracles EXCEPT ![args.seed] = predictions[Head(todo)]]
    /\ UNCHANGED <<csv, predictions, pc, after, args, existing, records, ran, poolVars, launches, kills>>
Resnapshot == /\ pc = "parity" /\ todo # <<>> /\ todo' = Tail(todo)
              /\ oracles' = [oracles EXCEPT ![RowOf(records, Head(todo)).seed] = predictions[Head(todo)]]
              /\ UNCHANGED <<csv, predictions, pc, after, args, existing, records, ran, poolVars,
                             launches, kills>>

Group(r) == {i \in DOMAIN records : records[i].status = "ok" /\ records[i].seed = r.seed}
First(S) == CHOOSE i \in S : \A j \in S : i <= j
ReferenceOfCell(r) ==   \* mutant: the reference cell's vector, whatever its seed
    LET canonical == {i \in DOMAIN records : records[i].cell \in Canonical}
    IN  IF canonical # {} THEN predictions[records[First(canonical)].cell] ELSE oracles[r.seed]
\* load_reference_oracle
Reference(r) == LET canonical == {i \in Group(r) : records[i].cell \in Canonical}
                IN  IF canonical # {} THEN predictions[records[First(canonical)].cell]
                                      ELSE oracles[r.seed]
\* the first n4m row of the group
Baseline(r) == predictions[records[First({i \in Group(r) : records[i].cell \notin Canonical})].cell]

Verdict(r) == LET vector == predictions[r.cell]
                  against == {Reference(r), Baseline(r)}
              IN  IF r.status # "ok" THEN r.gate
                  ELSE IF r.cell \in Canonical THEN "self"
                  ELSE IF Torn \in against \cup {vector} THEN "unread"
                  ELSE IF Missing \in against THEN "missing"
                  ELSE IF against = {vector} THEN "like" ELSE "unlike"

\* compute_parity, second loop; then the last write_records.
Judge == /\ pc = "parity" /\ todo = <<>>
         /\ records' = [i \in DOMAIN records |-> [records[i] EXCEPT !.gate = Verdict(records[i])]]
         /\ pc' = "rewrite" /\ after' = "idle"
         /\ UNCHANGED <<files, args, existing, todo, ran, poolVars, launches, kills>>

Main == \/ \E c \in Cells : SkipExisting(c) \/ Defer(c) \/ Queue(c)
        \/ OpenPool \/ Truncate \/ WriteRows \/ (\E f \in finished : Harvest(f))
        \/ Die \/ Gather \/ Resnapshot \/ Judge

(* The process group is killed.  Rows being written reach the disk in       *)
(* blocks: a prefix of them, the last one possibly cut.                     *)
Kill == /\ pc # "idle" /\ kills < MaxKills /\ kills' = kills + 1
        /\ IF pc = "rows"
           THEN \E n \in 0..Len(records) :
                  \/ csv' = SubSeq(records, 1, n)
                  \/ n < Len(records) /\ csv' = Append(SubSeq(records, 1, n), CutRow)
           ELSE UNCHANGED csv
        /\ pc' = "idle" /\ pending' = <<>> /\ finished' = {}
        /\ thread' = [w \in Threads |-> Idle]
        /\ UNCHANGED <<predictions, oracles, tmp, after, args, existing, todo, records, ran, launches>>

Next == (\E a \in Launches : Launch(a)) \/ Main \/ (\E w \in Threads : Work(w)) \/ Kill

(* main never waits for anything but its threads, and a benchmark process  *)
(* has a timeout.                                                          *)
Fairness == WF_orVars(Main) /\ \A w \in Threads : WF_orVars(Work(w))
Spec == Init /\ [][Next]_orVars /\ Fairness
---------------------------------------------------------------------------
(* Properties. *)

Future(statuses, raised) ==
    [row : [cell : Cells, seed : Seeds, status : statuses, gate : {""}], raised : {raised}]

TypeOK ==
    /\ csv \in Seq(Row) /\ records \in Seq(Row) /\ existing \in Seq(Row)
    /\ predictions \in [Cells -> Vector] /\ oracles \in [Seeds -> Vector]
    /\ tmp \in [Seeds -> Vector]
    /\ pc \in {"idle", "resolve", "pool", "raised", "parity", "rewrite", "rows"}
    /\ after \in {"idle", "resolve", "pool"} /\ args \in Launches
    /\ todo \in Seq(Cells) /\ ran \subseteq Cells /\ pending \in Seq(Cells)
    /\ thread \in [Threads -> {Idle} \cup [stage : Stages, cell : Cells]]
    /\ finished \subseteq Future({"ok", "failed"}, FALSE) \cup Future({"raised"}, TRUE)
    /\ launches \in 0..MaxLaunches /\ kills \in 0..MaxKills

Ending == pc = "rewrite" /\ after = "idle"

(* "Binding/reference parity only makes sense when every vector came from  *)
(* the same generated dataset": no row is ever judged against the vector   *)
(* of another seed, whatever launches with other seeds left in the files.  *)
LikeWithLike == \A i \in DOMAIN records : records[i].gate # "unlike"

(* snapshot_reference_oracle: the oracle of a seed "changes only when the  *)
(* canonical reference backend is run again": once there it holds the      *)
(* vector of its own seed, complete.                                       *)
FrozenOracles == \A s \in Seeds : oracles[s] \in {Missing, s}

(* What a launch that reaches its end writes: one row for every planned    *)
(* cell, computed on its seed, and the rows of other cells as they were.   *)
NothingLost ==
    Ending => /\ Cardinality(CellsOf(records)) = Len(records)
              /\ \A c \in Range(args.plan) : \E i \in DOMAIN records :
                    records[i].cell = c /\ records[i].seed = args.seed
              /\ \A i \in DOMAIN existing : existing[i].cell \in Range(args.plan) \/
                    \E j \in DOMAIN records : [records[j] EXCEPT !.gate = ""] = [existing[i] EXCEPT !.gate = ""]

(* A launch that reaches its end has a parity verdict on every vector it   *)
(* publishes; --flush-each-cell makes interrupted ones resumable "before   *)
(* the final parity pass".                                                 *)
CompletedRunsJudged ==
    Ending => \A i \in DOMAIN records : records[i].status = "ok" => records[i].gate # ""

(* "# Preserving ... existing out-of-scope cells": when a resumed launch    *)
(* ends, the CSV still has the rows of the shards it did not plan, also if *)
(* flushes dropped them on the way.                                        *)
ShardsKept ==
    [][pc # "idle" /\ pc' = "idle" =>
         \A c \in CellsOf(existing) \ (Range(args.plan) \cup {NoCell}) : c \in CellsOf(csv')]_orVars

(* Comment in _execute: the snapshots "touch different paths ..., so       *)
(* concurrent writes don't collide".                                       *)
WritesDontCollide == \A f \in finished : ~f.raised

(* Every launch ends, also when cells time out, a snapshot raises in a     *)
(* thread or main raises with cells still pending.                         *)
RunsEnd == pc # "idle" ~> pc = "idle"
=============================================================================
