------------------------- MODULE Orchestrator_proof -------------------------
(***************************************************************************)
(* For any cells, seeds, command lines, threads and number of launches:    *)
(* types, that a launch which reaches its end loses nothing, also when     *)
(* others were killed or died, what kills and failed renames are needed to *)
(* break, and what survives them.                                          *)
(***************************************************************************)
EXTENDS Orchestrator, Filtering_proof, FiniteSetTheorems

USE OrchestratorAssumption

-----------------------------------------------------------------------------
(* Types. *)

LEMMA LaunchType ==
    ASSUME NEW a \in Launches
    PROVE  /\ a.plan \in Seq(Cells) /\ a.seed \in Seeds /\ a.resume \in BOOLEAN
           /\ a.deferred \subseteq Cells /\ a.workers \in Nat /\ a.flush \in BOOLEAN
           /\ Range(a.plan) = {a.plan[i] : i \in DOMAIN a.plan}
           /\ \A i, j \in DOMAIN a.plan : a.plan[i] = a.plan[j] => i = j
  <1>1. a \in CommandLine /\ IsInjective(a.plan)
    OBVIOUS
  <1> QED
    BY <1>1 DEF CommandLine, Range, IsInjective

LEMMA RowOfCell ==
    ASSUME NEW rows \in Seq(Row), NEW c \in CellsOf(rows)
    PROVE  \E i \in DOMAIN rows : RowOf(rows, c) = rows[i] /\ rows[i].cell = c
  <1> DEFINE S == {i \in 1 .. Len(rows) : rows[i].cell = c}
  <1>1. Len(rows) \in Nat /\ DOMAIN rows = 1 .. Len(rows)
    BY LenProperties
  <1>2. S # {} /\ S \in SUBSET (0 .. Len(rows))
    BY <1>1 DEF CellsOf
  <1>3. \E m \in S : \A x \in S : x <= m
    <2> HIDE DEF S
    <2> QED
      BY <1>1, <1>2, GreatestElement
  <1>4. Max(S) \in S
    <2>1. \E m \in S : \A x \in S : m >= x
      BY <1>3, <1>1
    <2> HIDE DEF S
    <2> QED
      BY <2>1 DEF Max
  <1>5. SelectLastInSeq(rows, LAMBDA r : r.cell = c) = Max(S)
    BY <1>2 DEF SelectLastInSeq
  <1> HIDE DEF S
  <1>6. RowOf(rows, c) = rows[Max(S)]
    BY <1>5 DEF RowOf
  <1> QED
    BY <1>1, <1>4, <1>6 DEF S

LEMMA OutcomeType ==
    ASSUME TypeOK, NEW c \in Cells, NEW status
    PROVE  /\ Outcome(c, status) = [cell |-> c, seed |-> args.seed, status |-> status, gate |-> ""]
           /\ args.seed \in Seeds
           /\ status \in {"ok", "failed", "deferred"} => Outcome(c, status) \in Row
  BY LaunchType DEF TypeOK, Outcome, Row, Gates

LEMMA BusyType ==
    ASSUME TypeOK, NEW w \in Threads, thread[w].stage # "idle"
    PROVE  /\ thread[w].stage \in Stages /\ thread[w].cell \in Cells
           /\ thread[w] \in [stage : Stages, cell : Cells]
           /\ w \in Busy
  <1>1. thread[w] \in {Idle} \cup [stage : Stages, cell : Cells]
    BY DEF TypeOK
  <1>2. thread[w] # Idle
    BY DEF Idle
  <1> QED
    BY <1>1, <1>2 DEF Busy

LEMMA GoType ==
    ASSUME TypeOK, NEW w \in Threads, thread[w].stage # "idle", NEW stage \in Stages, Go(w, stage)
    PROVE  /\ thread' \in [Threads -> {Idle} \cup [stage : Stages, cell : Cells]]
           /\ UNCHANGED finished
  <1>1. thread[w] \in [stage : Stages, cell : Cells]
    BY BusyType
  <1>2. [thread[w] EXCEPT !.stage = stage] \in [stage : Stages, cell : Cells]
    BY <1>1
  <1>3. thread' = [thread EXCEPT ![w] = [thread[w] EXCEPT !.stage = stage]]
    BY DEF Go
  <1> QED
    BY <1>2, <1>3 DEF TypeOK, Go

LEMMA EndType ==
    ASSUME TypeOK, NEW w \in Threads, thread[w].stage # "idle",
           NEW how \in {"ok", "failed", "raised"}, End(w, how)
    PROVE  /\ thread' \in [Threads -> {Idle} \cup [stage : Stages, cell : Cells]]
           /\ finished' \subseteq Future({"ok", "failed"}, FALSE) \cup Future({"raised"}, TRUE)
  <1> DEFINE c == thread[w].cell
             f == [row |-> Outcome(c, how), raised |-> how = "raised"]
  <1>1. c \in Cells
    BY BusyType
  <1>2. Outcome(c, how) = [cell |-> c, seed |-> args.seed, status |-> how, gate |-> ""]
        /\ args.seed \in Seeds
    BY <1>1, OutcomeType
  <1>3. f \in Future({"ok", "failed"}, FALSE) \cup Future({"raised"}, TRUE)
    <2>1. CASE how = "raised"
      <3>1. Outcome(c, how) \in [cell : Cells, seed : Seeds, status : {"raised"}, gate : {""}]
        BY <1>1, <1>2, <2>1 DEF Outcome
      <3> QED
        BY <2>1, <3>1 DEF Future
    <2>2. CASE how \in {"ok", "failed"}
      <3>1. Outcome(c, how) \in [cell : Cells, seed : Seeds, status : {"ok", "failed"}, gate : {""}]
        BY <1>1, <1>2, <2>2 DEF Outcome
      <3> QED
        BY <2>2, <3>1 DEF Future
    <2> QED
      BY <2>1, <2>2
  <1>4. thread' = [thread EXCEPT ![w] = Idle] /\ finished' = finished \cup {f}
    BY DEF End
  <1> QED
    BY <1>3, <1>4 DEF TypeOK

LEMMA WorkType ==
    ASSUME TypeOK, NEW w \in Threads, Work(w)
    PROVE  TypeOK'
  <1> DEFINE TypedPool == /\ thread' \in [Threads -> {Idle} \cup [stage : Stages, cell : Cells]]
                          /\ finished' \subseteq Future({"ok", "failed"}, FALSE) \cup Future({"raised"}, TRUE)
  <1>0. args.seed \in Seeds
    BY LaunchType DEF TypeOK
  <1>1. CASE Start(w)
    <2>1. Head(pending) \in Cells /\ Tail(pending) \in Seq(Cells)
      BY <1>1, HeadTailProperties DEF TypeOK, Start
    <2>2. thread' \in [Threads -> {Idle} \cup [stage : Stages, cell : Cells]]
      BY <1>1, <2>1 DEF TypeOK, Start, Stages
    <2> QED
      BY <1>1, <2>1, <2>2 DEF TypeOK, Start, files, mainVars
  <1>2. CASE Save(w)
    <2>1. TypedPool
      BY <1>2, GoType DEF Save, At, Stages, TypeOK
    <2>2. predictions' \in [Cells -> Vector]
      BY <1>2 DEF Save, TypeOK, Vector
    <2> QED
      BY <1>2, <2>1, <2>2 DEF TypeOK, Save, At, mainVars
  <1>3. CASE Saved(w)
    <2>1. TypedPool
      BY <1>3, GoType DEF Saved, At, Stages, TypeOK
    <2>2. predictions' \in [Cells -> Vector]
      BY <1>0, <1>3 DEF Saved, TypeOK, Vector
    <2> QED
      BY <1>3, <2>1, <2>2 DEF TypeOK, Saved, At, mainVars
  <1>4. CASE Succeed(w)
    <2>1. TypedPool
      BY <1>4, GoType, EndType DEF Succeed, At, Stages, TypeOK
    <2> QED
      BY <1>4, <2>1 DEF TypeOK, Succeed, At, mainVars
  <1>5. CASE Fail(w) \/ Mute(w)
    <2>1. TypedPool
      BY <1>5, EndType DEF Fail, Mute, At
    <2> QED
      BY <1>5, <2>1 DEF TypeOK, Fail, Mute, At, mainVars
  <1>6. CASE OpenCopy(w)
    <2>1. TypedPool
      BY <1>6, GoType DEF OpenCopy, At, Stages, TypeOK
    <2>2. tmp' \in [Seeds -> Vector]
      BY <1>6 DEF OpenCopy, TypeOK, Vector
    <2> QED
      BY <1>6, <2>1, <2>2 DEF TypeOK, OpenCopy, At, mainVars
  <1>7. CASE EndCopy(w)
    <2>1. TypedPool
      BY <1>7, GoType DEF EndCopy, At, Stages, TypeOK
    <2>2. thread[w].cell \in Cells
      BY <1>7, BusyType DEF EndCopy, At
    <2>3. tmp' \in [Seeds -> Vector]
      BY <1>7, <2>2 DEF EndCopy, TypeOK
    <2> QED
      BY <1>7, <2>1, <2>3 DEF TypeOK, EndCopy, At, mainVars
  <1>8. CASE EndOverwrite(w)
    <2>1. TypedPool
      BY <1>8, GoType DEF EndOverwrite, At, Stages, TypeOK
    <2>2. thread[w].cell \in Cells
      BY <1>8, BusyType DEF EndOverwrite, At
    <2>3. oracles' \in [Seeds -> Vector]
      BY <1>8, <2>2 DEF EndOverwrite, TypeOK
    <2> QED
      BY <1>8, <2>1, <2>3 DEF TypeOK, EndOverwrite, At, mainVars
  <1>9. CASE Replace(w)
    <2>1. thread[w].stage # "idle" /\ thread[w].cell \in Cells
      BY <1>9, BusyType DEF Replace, At
    <2>2. CASE tmp[args.seed] = Missing
      <3>1. TypedPool
        BY <1>9, <2>1, <2>2, EndType DEF Replace
      <3> QED
        BY <1>9, <2>2, <3>1 DEF TypeOK, Replace, At, mainVars
    <2>3. CASE tmp[args.seed] # Missing
      <3>1. \A x \in Threads : thread[x].stage = "copying" =>
               [thread[x] EXCEPT !.stage = "overwriting"] \in [stage : Stages, cell : Cells]
        <4> TAKE x \in Threads
        <4> HAVE thread[x].stage = "copying"
        <4>1. thread[x] \in [stage : Stages, cell : Cells]
          BY BusyType
        <4> QED
          BY <4>1 DEF Stages
      <3>2. thread' \in [Threads -> {Idle} \cup [stage : Stages, cell : Cells]]
        <4> DEFINE Renamed(x) == IF x = w THEN Idle
                               ELSE IF thread[x].stage = "copying"
                               THEN [thread[x] EXCEPT !.stage = "overwriting"] ELSE thread[x]
        <4>1. thread' = [x \in Threads |-> Renamed(x)]
          BY <1>9, <2>3 DEF Replace
        <4>2. \A x \in Threads : Renamed(x) \in {Idle} \cup [stage : Stages, cell : Cells]
          BY <3>1 DEF TypeOK
        <4> QED
          BY <4>1, <4>2
      <3>3. [row |-> Outcome(thread[w].cell, "ok"), raised |-> FALSE] \in Future({"ok", "failed"}, FALSE)
        <4>1. Outcome(thread[w].cell, "ok")
                \in [cell : Cells, seed : Seeds, status : {"ok", "failed"}, gate : {""}]
          BY <1>0, <2>1 DEF Outcome
        <4> QED
          BY <4>1 DEF Future
      <3>4. finished' \subseteq Future({"ok", "failed"}, FALSE) \cup Future({"raised"}, TRUE)
        BY <1>9, <2>3, <3>3 DEF Replace, TypeOK
      <3>5. oracles' \in [Seeds -> Vector] /\ tmp' \in [Seeds -> Vector]
        BY <1>0, <1>9, <2>3 DEF Replace, TypeOK, Vector
      <3> QED
        BY <1>9, <3>2, <3>4, <3>5 DEF TypeOK, Replace, At, mainVars
    <2> QED
      BY <2>2, <2>3
  <1> QED
    BY <1>1, <1>2, <1>3, <1>4, <1>5, <1>6, <1>7, <1>8, <1>9 DEF Work

LEMMA ExistingRow ==
    ASSUME TypeOK, NEW c \in CellsOf(existing)
    PROVE  RowOf(existing, c) \in Row /\ RowOf(existing, c).cell = c
  <1>1. PICK i \in DOMAIN existing : RowOf(existing, c) = existing[i] /\ existing[i].cell = c
    BY RowOfCell DEF TypeOK
  <1>2. existing \in Seq(Row)
    BY DEF TypeOK
  <1>3. existing[i] \in Row
    BY <1>1, <1>2, LenProperties, ElementOfSeq
  <1> QED
    BY <1>1, <1>3

LEMMA ResolveType ==
    ASSUME TypeOK, NEW c \in Cells, SkipExisting(c) \/ Defer(c) \/ Queue(c)
    PROVE  TypeOK'
  <1>1. todo' \in Seq(Cells)
    <2>1. todo # <<>> /\ todo' = Tail(todo)
      BY DEF Resolving, SkipExisting, Defer, Queue
    <2>2. todo \in Seq(Cells)
      BY DEF TypeOK
    <2> QED
      BY <2>1, <2>2, HeadTailProperties
  <1>2. CASE SkipExisting(c)
    <2>1. RowOf(existing, c) \in Row
      BY <1>2, ExistingRow DEF SkipExisting, Kept
    <2>2. records' \in Seq(Row)
      BY <1>2, <2>1, AppendProperties DEF SkipExisting, TypeOK
    <2> QED
      BY <1>1, <1>2, <2>2 DEF TypeOK, SkipExisting, Resolving, files
  <1>3. CASE Defer(c)
    <2>1. Outcome(c, "deferred") \in Row
      BY OutcomeType
    <2>2. records' \in Seq(Row)
      BY <1>3, <2>1, AppendProperties DEF Defer, TypeOK
    <2> QED
      BY <1>1, <1>3, <2>2 DEF TypeOK, Defer, Resolving, FlushThen, files
  <1>4. CASE Queue(c)
    <2>1. pending' \in Seq(Cells)
      BY <1>4, AppendProperties DEF Queue, TypeOK
    <2> QED
      BY <1>1, <1>4, <2>1 DEF TypeOK, Queue, Resolving, files
  <1> QED
    BY <1>2, <1>3, <1>4

LEMMA VerdictType ==
    ASSUME NEW r \in Row
    PROVE  Verdict(r) \in Gates /\ [r EXCEPT !.gate = Verdict(r)] \in Row
  <1>1. Verdict(r) \in Gates
    BY DEF Verdict, Gates, Row
  <1> QED
    BY <1>1 DEF Row

(* The canonical rows and the preserved ones are some of the rows there are. *)
LEMMA CanonicalType ==
    ASSUME NEW rows \in Seq(Row)
    PROVE  /\ CanonicalRows(rows) \in Seq(Row)
           /\ \A i \in DOMAIN CanonicalRows(rows) : \E j \in DOMAIN rows :
                 /\ CanonicalRows(rows)[i] = rows[j]
                 /\ rows[j].status = "ok" /\ rows[j].cell \in Canonical
  <1> DEFINE D == {i \in DOMAIN rows : rows[i].status = "ok" /\ rows[i].cell \in Canonical}
             q == Keep(rows, D)
  <1>1. q \in Seq(Row) /\ \E f : Enumerates(f, q, rows, D, Len(rows))
    BY KeepEnumerates
  <1> HIDE DEF q
  <1>2. PICK f : Enumerates(f, q, rows, D, Len(rows))
    BY <1>1
  <1>3. DOMAIN q = 1 .. Len(q)
    BY <1>1, LenProperties
  <1>4. \A i \in DOMAIN q : f[i] \in D /\ q[i] = rows[f[i]]
    BY <1>2, <1>3 DEF Enumerates
  <1>5. CanonicalRows(rows) = q
    BY DEF CanonicalRows, q
  <1> QED
    BY <1>1, <1>4, <1>5

LEMMA PreservedEnumerates ==
    ASSUME TypeOK
    PROVE  /\ Preserved \in Seq(Row)
           /\ \E f : Enumerates(f, Preserved, existing, Outside(Range(args.plan)), Len(existing))
  BY KeepEnumerates DEF Preserved, TypeOK

LEMMA GatherType ==
    ASSUME TypeOK, Gather
    PROVE  TypeOK'
  <1>1. CASE NoCell \in CellsOf(existing)
    BY <1>1 DEF Gather, TypeOK, files, poolVars
  <1>2. CASE NoCell \notin CellsOf(existing)
    <2>1. records' \in Seq(Row)
      <3>1. records' = Preserved \o records
        BY <1>2 DEF Gather
      <3>2. Preserved \in Seq(Row) /\ records \in Seq(Row)
        BY PreservedEnumerates DEF TypeOK
      <3> QED
        BY <3>1, <3>2, ConcatProperties
    <2>2. todo' \in Seq(Cells)
      <3>1. CASE ~ParityDue
        BY <1>2, <3>1 DEF Gather, TypeOK
      <3>2. CASE ParityDue
        <4> DEFINE q == CanonicalRows(records')
        <4>1. q \in Seq(Row) /\ \A i \in DOMAIN q : q[i].cell \in Cells
          BY <2>1, CanonicalType
        <4>2. todo' = [i \in DOMAIN q |-> q[i].cell]
          BY <1>2, <3>2 DEF Gather
        <4> HIDE DEF q
        <4>3. Len(q) \in Nat /\ DOMAIN q = 1 .. Len(q)
          BY <4>1, LenProperties
        <4>4. todo' \in [1 .. Len(q) -> Cells]
          BY <4>1, <4>2, <4>3
        <4> QED
          BY <4>3, <4>4, SeqDef
      <3> QED
        BY <3>1, <3>2
    <2> QED
      BY <1>2, <2>1, <2>2 DEF Gather, TypeOK, files, poolVars
  <1> QED
    BY <1>1, <1>2

LEMMA HarvestType ==
    ASSUME TypeOK, NEW f \in finished, Harvest(f)
    PROVE  TypeOK'
  <1>1. finished' = finished \ {f}
    BY DEF Harvest
  <1>2. f \in Future({"ok", "failed"}, FALSE) \cup Future({"raised"}, TRUE)
    BY DEF TypeOK
  <1>3. CASE f.raised
    BY <1>1, <1>3 DEF Harvest, TypeOK, files
  <1>4. CASE ~f.raised
    <2>1. f.row \in Row /\ f.row.cell \in Cells
      BY <1>2, <1>4 DEF Future, Row, Gates
    <2>2. records' \in Seq(Row) /\ ran' \subseteq Cells
      <3>1. records' = Append(records, f.row) /\ ran' = ran \cup {f.row.cell}
        BY <1>4 DEF Harvest
      <3>2. records \in Seq(Row) /\ ran \subseteq Cells
        BY DEF TypeOK
      <3> QED
        BY <2>1, <3>1, <3>2, AppendProperties
    <2> QED
      BY <1>1, <1>4, <2>2 DEF Harvest, TypeOK, FlushThen, files
  <1> QED
    BY <1>3, <1>4

LEMMA JudgeType ==
    ASSUME TypeOK, Judge
    PROVE  TypeOK'
  <1> DEFINE n == Len(records)
             Gated(i) == [records[i] EXCEPT !.gate = Verdict(records[i])]
  <1>1. n \in Nat /\ DOMAIN records = 1 .. n /\ \A i \in 1 .. n : records[i] \in Row
    BY LenProperties, ElementOfSeq DEF TypeOK
  <1>2. \A i \in 1 .. n : Gated(i) \in Row
    BY <1>1, VerdictType
  <1>3. records' = [i \in 1 .. n |-> Gated(i)]
    BY <1>1 DEF Judge
  <1> HIDE DEF n, Gated
  <1>4. records' \in Seq(Row)
    BY <1>1, <1>2, <1>3, SeqDef
  <1> QED
    BY <1>4 DEF Judge, TypeOK, files, poolVars

LEMMA KillType ==
    ASSUME TypeOK, Kill
    PROVE  TypeOK'
  <1>1. CutRow \in Row
    BY DEF CutRow, Row, Gates
  <1>2. Len(records) \in Nat /\ \A i \in 1 .. Len(records) : records[i] \in Row
    BY LenProperties, ElementOfSeq DEF TypeOK
  <1>3. \A n \in 0 .. Len(records) : SubSeq(records, 1, n) \in Seq(Row)
    <2> TAKE n \in 0 .. Len(records)
    <2>1. n \in Int /\ \A i \in 1 .. n : i \in 1 .. Len(records)
      BY <1>2
    <2> QED
      BY <1>2, <2>1, SubSeqProperties
  <1>4. csv' \in Seq(Row)
    <2>1. csv \in Seq(Row)
      BY DEF TypeOK
    <2>2. \A n \in 0 .. Len(records) : Append(SubSeq(records, 1, n), CutRow) \in Seq(Row)
      BY <1>1, <1>3, AppendProperties
    <2> QED
      BY <1>3, <2>1, <2>2 DEF Kill
  <1>5. <<>> \in Seq(Cells) /\ kills' \in 0 .. MaxKills
    BY DEF Kill, TypeOK
  <1> QED
    BY <1>4, <1>5 DEF Kill, TypeOK

LEMMA TypeStep == TypeOK /\ [Next]_orVars => TypeOK'
  <1> SUFFICES ASSUME TypeOK, [Next]_orVars PROVE TypeOK'
    OBVIOUS
  <1>1. ASSUME NEW a \in Launches, Launch(a) PROVE TypeOK'
    <2>1. a.plan \in Seq(Cells) /\ <<>> \in Seq(Row) /\ launches' \in 0 .. MaxLaunches
      BY <1>1, LaunchType DEF Launch, TypeOK
    <2>2. tmp' \in [Seeds -> Vector]
      BY <1>1 DEF Launch, Vector
    <2> QED
      BY <1>1, <2>1, <2>2 DEF Launch, TypeOK, files
  <1>2. ASSUME NEW c \in Cells, SkipExisting(c) \/ Defer(c) \/ Queue(c) PROVE TypeOK'
    BY <1>2, ResolveType
  <1>3. CASE OpenPool
    BY <1>3 DEF OpenPool, TypeOK, files, poolVars
  <1>4. CASE Truncate \/ WriteRows
    <2>1. <<>> \in Seq(Row)
      OBVIOUS
    <2> QED
      BY <1>4, <2>1 DEF Truncate, WriteRows, TypeOK, poolVars
  <1>5. ASSUME NEW f \in finished, Harvest(f) PROVE TypeOK'
    BY <1>5, HarvestType
  <1>6. CASE Die
    BY <1>6 DEF Die, TypeOK, files
  <1>7. CASE Gather
    BY <1>7, GatherType
  <1>8. CASE Resnapshot
    <2>1. Head(todo) \in Cells /\ todo' \in Seq(Cells)
      BY <1>8, HeadTailProperties DEF Resnapshot, TypeOK
    <2>2. oracles' \in [Seeds -> Vector]
      BY <1>8, <2>1 DEF Resnapshot, TypeOK
    <2> QED
      BY <1>8, <2>1, <2>2 DEF Resnapshot, TypeOK, poolVars
  <1>9. CASE Judge
    BY <1>9, JudgeType
  <1>10. ASSUME NEW w \in Threads, Work(w) PROVE TypeOK'
    BY <1>10, WorkType
  <1>11. CASE Kill
    BY <1>11, KillType
  <1>12. CASE UNCHANGED orVars
    BY <1>12 DEF orVars, files, mainVars, poolVars, TypeOK
  <1> QED
    BY <1>1, <1>2, <1>3, <1>4, <1>5, <1>6, <1>7, <1>8, <1>9, <1>10, <1>11, <1>12 DEF Next, Main

LEMMA TypeInit == Init => TypeOK
  <1> SUFFICES ASSUME Init PROVE TypeOK
    OBVIOUS
  <1>1. <<>> \in Seq(Row) /\ <<>> \in Seq(Cells)
    OBVIOUS
  <1> QED
    BY <1>1 DEF Init, TypeOK, Vector

(* Every row is one the CSV can hold, every vector one of a seed, torn or   *)
(* missing, and every thread at a stage of its own cell, whatever is killed *)
(* or raises.                                                              *)
THEOREM TypeCorrect == Spec => []TypeOK
  BY TypeInit, TypeStep, PTL DEF Spec

-----------------------------------------------------------------------------
(* No launch loses a row: the invariant.                                   *)

UniqueCells(q) == \A i, j \in DOMAIN q : q[i].cell = q[j].cell => i = j

(* A CSV, whoever was killed writing it, has no cell twice.                *)
RowsInv == /\ UniqueCells(csv) /\ UniqueCells(existing) /\ UniqueCells(records)
           /\ NoCell \notin CellsOf(records)

(* A cell in the pool waits, has a thread or is through, and only one of    *)
(* these.                                                                  *)
Taken == {thread[w].cell : w \in Busy}
Through == {f.row.cell : f \in finished}
InPool == Range(pending) \cup Taken \cup Through

PoolInv ==
    /\ IsInjective(pending)
    /\ \A w, x \in Busy : thread[w].cell = thread[x].cell => w = x
    /\ \A f, g \in finished : f.row.cell = g.row.cell => f = g
    /\ Range(pending) \cap Taken = {} /\ Range(pending) \cap Through = {} /\ Taken \cap Through = {}
    /\ \A f \in finished : f.row.seed = args.seed
    /\ PoolOpen \/ (Busy = {} /\ finished = {})

(* Until the launch gathers its rows, each planned cell is in one place:    *)
(* still to be resolved, in the pool, or among the records.                *)
Writing == pc \in {"rewrite", "rows"}
Collecting == pc \in {"resolve", "pool"} \/ (Writing /\ after \in {"resolve", "pool"})
Resolved == pc = "pool" \/ (Writing /\ after = "pool")

CollectInv ==
    /\ Collecting => /\ IsInjective(todo)
                     /\ Range(args.plan) = CellsOf(records) \cup Range(todo) \cup InPool
                     /\ CellsOf(records) \cap Range(todo) = {}
                     /\ CellsOf(records) \cap InPool = {}
                     /\ Range(todo) \cap InPool = {}
                     /\ \A i \in DOMAIN records : records[i].seed = args.seed
                     /\ Resolved => todo = <<>>
    /\ Collecting \/ pc = "raised" \/ pending = <<>>

(* Afterwards they all have a row, and so have the cells of other launches. *)
Gathered == pc = "parity" \/ (Writing /\ after = "idle")
SameRow(r, t) == r.cell = t.cell /\ r.seed = t.seed /\ r.status = t.status
PlanCovered == \A c \in Range(args.plan) : \E i \in DOMAIN records :
                  records[i].cell = c /\ records[i].seed = args.seed
OthersKept == \A i \in DOMAIN existing : existing[i].cell \in Range(args.plan) \/
                 \E j \in DOMAIN records : SameRow(records[j], existing[i])

LossInv == /\ TypeOK /\ RowsInv /\ PoolInv /\ CollectInv
           /\ Gathered => PlanCovered /\ OthersKept

(* What the list operators do to the cells in a list. *)
LEMMA HeadCells ==
    ASSUME NEW q \in Seq(Cells), q # <<>>, IsInjective(q)
    PROVE  /\ Range(q) = {Head(q)} \cup Range(Tail(q)) /\ Head(q) \notin Range(Tail(q))
           /\ IsInjective(Tail(q)) /\ Tail(q) \in Seq(Cells)
  <1> DEFINE n == Len(q)
             t == Tail(q)
  <1>1. /\ n \in Nat \ {0} /\ DOMAIN q = 1 .. n
        /\ t \in Seq(Cells) /\ DOMAIN t = 1 .. n - 1 /\ \A i \in 1 .. n - 1 : t[i] = q[i + 1]
    BY LenProperties, EmptySeq, HeadTailProperties
  <1>2. Head(q) = q[1]
    BY <1>1
  <1> HIDE DEF n, t
  <1>3. \A i \in 1 .. n - 1 : i + 1 \in 1 .. n /\ i + 1 # 1
    BY <1>1
  <1>4. \A i \in 1 .. n : i = 1 \/ (i - 1 \in 1 .. n - 1 /\ (i - 1) + 1 = i)
    BY <1>1
  <1>5. 1 \in 1 .. n
    BY <1>1
  <1>6. Range(q) \subseteq {Head(q)} \cup Range(t)
    <2>1. \A i \in 1 .. n : q[i] = Head(q) \/ (i - 1 \in DOMAIN t /\ q[i] = t[i - 1])
      BY <1>1, <1>2, <1>4
    <2> QED
      BY <1>1, <2>1 DEF Range
  <1>7. {Head(q)} \cup Range(t) \subseteq Range(q)
    <2>1. Head(q) \in Range(q)
      BY <1>1, <1>2, <1>5 DEF Range
    <2>2. \A i \in 1 .. n - 1 : t[i] = q[i + 1] /\ i + 1 \in DOMAIN q
      BY <1>1, <1>3
    <2>3. Range(t) \subseteq Range(q)
      BY <1>1, <2>2 DEF Range
    <2> QED
      BY <2>1, <2>3
  <1>8. Head(q) \notin Range(t)
    BY <1>1, <1>2, <1>3, <1>5 DEF Range, IsInjective
  <1>9. IsInjective(t)
    <2>1. \A i, j \in 1 .. n - 1 : i + 1 = j + 1 => i = j
      BY <1>1
    <2>2. ASSUME NEW i \in 1 .. n - 1, NEW j \in 1 .. n - 1, t[i] = t[j]
          PROVE  i + 1 = j + 1
      <3>1. q[i + 1] = q[j + 1] /\ i + 1 \in DOMAIN q /\ j + 1 \in DOMAIN q
        BY <1>1, <1>3, <2>2
      <3> QED
        BY <3>1 DEF IsInjective
    <2> QED
      BY <1>1, <2>1, <2>2 DEF IsInjective
  <1> QED
    BY <1>1, <1>6, <1>7, <1>8, <1>9 DEF t

LEMMA AppendCells ==
    ASSUME NEW q \in Seq(Cells), NEW c \in Cells
    PROVE  /\ Range(Append(q, c)) = Range(q) \cup {c}
           /\ IsInjective(q) /\ c \notin Range(q) => IsInjective(Append(q, c))
  <1> DEFINE n == Len(q)
             t == Append(q, c)
  <1>1. /\ n \in Nat /\ DOMAIN q = 1 .. n /\ DOMAIN t = 1 .. n + 1
        /\ t[n + 1] = c /\ \A i \in 1 .. n : t[i] = q[i]
    BY LenProperties, AppendProperties
  <1> HIDE DEF n, t
  <1>2. \A i \in 1 .. n + 1 : i \in 1 .. n \/ i = n + 1
    BY <1>1
  <1>3. n + 1 \in 1 .. n + 1 /\ \A i \in 1 .. n : i \in 1 .. n + 1
    BY <1>1
  <1>4. Range(t) = Range(q) \cup {c}
    BY <1>1, <1>2, <1>3 DEF Range
  <1>5. IsInjective(q) /\ c \notin Range(q) => IsInjective(t)
    BY <1>1, <1>2, <1>3 DEF Range, IsInjective
  <1> QED
    BY <1>4, <1>5 DEF t

LEMMA AppendRow ==
    ASSUME NEW q \in Seq(Row), NEW r \in Row
    PROVE  /\ CellsOf(Append(q, r)) = CellsOf(q) \cup {r.cell}
           /\ UniqueCells(q) /\ r.cell \notin CellsOf(q) => UniqueCells(Append(q, r))
           /\ \A i \in DOMAIN Append(q, r) : Append(q, r)[i] = r \/ \E j \in DOMAIN q : Append(q, r)[i] = q[j]
  <1> DEFINE n == Len(q)
             t == Append(q, r)
  <1>1. /\ n \in Nat /\ DOMAIN q = 1 .. n /\ DOMAIN t = 1 .. n + 1
        /\ t[n + 1] = r /\ \A i \in 1 .. n : t[i] = q[i]
    BY LenProperties, AppendProperties
  <1> HIDE DEF n, t
  <1>2. \A i \in 1 .. n + 1 : i \in 1 .. n \/ i = n + 1
    BY <1>1
  <1>3. n + 1 \in 1 .. n + 1 /\ \A i \in 1 .. n : i \in 1 .. n + 1
    BY <1>1
  <1>4. CellsOf(t) = CellsOf(q) \cup {r.cell}
    BY <1>1, <1>2, <1>3 DEF CellsOf
  <1>5. UniqueCells(q) /\ r.cell \notin CellsOf(q) => UniqueCells(t)
    BY <1>1, <1>2, <1>3 DEF CellsOf, UniqueCells
  <1>6. \A i \in DOMAIN t : t[i] = r \/ \E j \in DOMAIN q : t[i] = q[j]
    BY <1>1, <1>2
  <1> QED
    BY <1>4, <1>5, <1>6 DEF t

(* What a step of a thread that has a cell does to the pool: its cell stays *)
(* with it or is through.                                                  *)
SameCells(S) == \A x \in S : thread'[x].cell = thread[x].cell
Advances == Busy' = Busy /\ finished' = finished /\ SameCells(Busy)
Finishes(w) == /\ w \in Busy /\ Busy' = Busy \ {w} /\ SameCells(Busy')
               /\ \E f : /\ finished' = finished \cup {f}
                          /\ f.row.cell = thread[w].cell /\ f.row.seed = args.seed

LEMMA GoAdvances ==
    ASSUME TypeOK, NEW w \in Threads, thread[w].stage # "idle", NEW stage \in Stages, Go(w, stage)
    PROVE  Advances
  <1>1. thread[w] \in [stage : Stages, cell : Cells] /\ w \in Busy
    BY BusyType
  <1>2. thread' = [thread EXCEPT ![w] = [thread[w] EXCEPT !.stage = stage]] /\ finished' = finished
    BY DEF Go
  <1>3. DOMAIN thread = Threads
    BY DEF TypeOK
  <1>4. thread'[w].stage = stage /\ thread'[w].cell = thread[w].cell
    BY <1>1, <1>2, <1>3
  <1>5. \A x \in Threads \ {w} : thread'[x] = thread[x]
    BY <1>2, <1>3
  <1>6. thread'[w] # Idle
    BY <1>4 DEF Idle, Stages
  <1> QED
    BY <1>1, <1>2, <1>4, <1>5, <1>6 DEF Advances, SameCells, Busy

LEMMA EndFinishes ==
    ASSUME TypeOK, NEW w \in Threads, thread[w].stage # "idle", NEW how, End(w, how)
    PROVE  Finishes(w)
  <1>1. w \in Busy
    BY BusyType
  <1>2. thread' = [thread EXCEPT ![w] = Idle] /\ DOMAIN thread = Threads
    BY DEF End, TypeOK
  <1>3. Busy' = Busy \ {w} /\ SameCells(Busy')
    BY <1>2 DEF Busy, SameCells
  <1>4. \E f : /\ finished' = finished \cup {f}
               /\ f.row.cell = thread[w].cell /\ f.row.seed = args.seed
    <2> DEFINE f == [row |-> Outcome(thread[w].cell, how), raised |-> how = "raised"]
    <2>1. finished' = finished \cup {f}
      BY DEF End
    <2>2. f.row.cell = thread[w].cell /\ f.row.seed = args.seed
      BY DEF Outcome
    <2> QED
      BY <2>1, <2>2
  <1> QED
    BY <1>1, <1>3, <1>4 DEF Finishes

LEMMA ReplaceFinishes ==
    ASSUME TypeOK, NEW w \in Threads, Replace(w)
    PROVE  Finishes(w)
  <1>1. thread[w].stage = "copied"
    BY DEF Replace, At
  <1>2. CASE tmp[args.seed] = Missing
    BY <1>1, <1>2, EndFinishes DEF Replace
  <1>3. CASE tmp[args.seed] # Missing
    <2>1. w \in Busy
      BY <1>1, BusyType
    <2>2. thread'[w] = Idle
      BY <1>3 DEF Replace
    <2>3. \A x \in Threads \ {w} : thread'[x].cell = thread[x].cell /\ (thread'[x] = Idle <=> thread[x] = Idle)
      <3> TAKE x \in Threads \ {w}
      <3>1. CASE thread[x].stage = "copying"
        <4>1. thread[x] \in [stage : Stages, cell : Cells] /\ x \in Busy
          BY <3>1, BusyType
        <4>2. thread'[x] = [thread[x] EXCEPT !.stage = "overwriting"]
          BY <1>3, <3>1 DEF Replace
        <4>3. thread'[x].stage = "overwriting" /\ thread'[x].cell = thread[x].cell
          BY <4>1, <4>2
        <4> QED
          BY <4>1, <4>3 DEF Idle, Busy
      <3>2. CASE thread[x].stage # "copying"
        BY <1>3, <3>2 DEF Replace
      <3> QED
        BY <3>1, <3>2
    <2>4. Busy' = Busy \ {w} /\ SameCells(Busy')
      BY <2>2, <2>3 DEF Busy, SameCells
    <2>5. \E f : /\ finished' = finished \cup {f}
                 /\ f.row.cell = thread[w].cell /\ f.row.seed = args.seed
      <3> DEFINE f == [row |-> Outcome(thread[w].cell, "ok"), raised |-> FALSE]
      <3>1. finished' = finished \cup {f}
        BY <1>3 DEF Replace
      <3>2. f.row.cell = thread[w].cell /\ f.row.seed = args.seed
        BY DEF Outcome
      <3> QED
        BY <3>1, <3>2
    <2> QED
      BY <2>1, <2>4, <2>5 DEF Finishes
  <1> QED
    BY <1>2, <1>3

LEMMA WorkMoves ==
    ASSUME TypeOK, NEW w \in Threads, Work(w), ~Start(w)
    PROVE  (Advances \/ Finishes(w)) /\ UNCHANGED <<csv, mainVars, pending>>
  <1>1. CASE Save(w) \/ Saved(w) \/ OpenCopy(w) \/ EndCopy(w) \/ EndOverwrite(w)
    <2>1. thread[w].stage # "idle" /\ \E stage \in Stages : Go(w, stage)
      BY <1>1 DEF Save, Saved, OpenCopy, EndCopy, EndOverwrite, At, Stages
    <2>2. UNCHANGED <<csv, mainVars, pending>>
      BY <1>1 DEF Save, Saved, OpenCopy, EndCopy, EndOverwrite, At
    <2> QED
      BY <2>1, <2>2, GoAdvances
  <1>2. CASE Succeed(w)
    <2>1. /\ thread[w].stage # "idle" /\ UNCHANGED <<csv, mainVars, pending>>
          /\ Go(w, "snapshot") \/ End(w, "ok")
      BY <1>2 DEF Succeed, At
    <2> QED
      BY <2>1, GoAdvances, EndFinishes DEF Stages
  <1>3. CASE Fail(w) \/ Mute(w)
    <2>1. /\ thread[w].stage # "idle" /\ UNCHANGED <<csv, mainVars, pending>>
          /\ End(w, "failed") \/ End(w, "raised")
      BY <1>3 DEF Fail, Mute, At
    <2> QED
      BY <2>1, EndFinishes
  <1>4. CASE Replace(w)
    BY <1>4, ReplaceFinishes DEF Replace, At
  <1> QED
    BY <1>1, <1>2, <1>3, <1>4 DEF Work

LEMMA StartMoves ==
    ASSUME TypeOK, NEW w \in Threads, Start(w)
    PROVE  /\ w \notin Busy /\ Busy' = Busy \cup {w} /\ SameCells(Busy)
           /\ thread'[w].cell = Head(pending) /\ pending # <<>> /\ pending' = Tail(pending)
           /\ UNCHANGED <<csv, mainVars, finished>>
  <1>1. /\ thread' = [thread EXCEPT ![w] = [stage |-> "run", cell |-> Head(pending)]]
        /\ DOMAIN thread = Threads /\ thread[w] = Idle
    BY DEF Start, TypeOK
  <1>2. thread'[w] = [stage |-> "run", cell |-> Head(pending)] /\ thread'[w] # Idle
    BY <1>1 DEF Idle
  <1>3. \A x \in Threads \ {w} : thread'[x] = thread[x]
    BY <1>1
  <1> QED
    BY <1>1, <1>2, <1>3 DEF Start, Busy, SameCells, files

LEMMA PoolStep ==
    ASSUME TypeOK, PoolInv, NEW w \in Threads, Work(w)
    PROVE  PoolInv' /\ InPool' = InPool
  <1>1. CASE Start(w)
    <2>1. /\ Range(pending) = {Head(pending)} \cup Range(pending')
          /\ Head(pending) \notin Range(pending') /\ IsInjective(pending')
      <3>1. pending \in Seq(Cells) /\ IsInjective(pending)
        BY DEF TypeOK, PoolInv
      <3>2. pending # <<>> /\ pending' = Tail(pending)
        BY <1>1, StartMoves
      <3> QED
        BY <3>1, <3>2, HeadCells
    <2>2. Taken' = Taken \cup {Head(pending)}
      BY <1>1, StartMoves DEF Taken, SameCells
    <2>3. Through' = Through /\ UNCHANGED args
      BY <1>1, StartMoves DEF Through, mainVars
    <2>4. Head(pending) \notin Taken
      BY <2>1 DEF PoolInv
    <2>5. \A x \in Busy : thread[x].cell # Head(pending)
      BY <2>4 DEF Taken
    <2>6. \A x, y \in Busy' : thread'[x].cell = thread'[y].cell => x = y
      BY <1>1, StartMoves, <2>5 DEF PoolInv, SameCells
    <2>7. PoolOpen'
      BY <1>1, StartMoves DEF PoolOpen, Start, mainVars
    <2>8. \A f \in finished' : f.row.seed = args'.seed
      BY <1>1, <2>3, StartMoves DEF PoolInv
    <2>9. \A f, g \in finished' : f.row.cell = g.row.cell => f = g
      BY <1>1, StartMoves DEF PoolInv
    <2> QED
      BY <2>1, <2>2, <2>3, <2>6, <2>7, <2>8, <2>9 DEF PoolInv, InPool
  <1>2. CASE ~Start(w) /\ Advances
    <2>1. UNCHANGED <<csv, mainVars, pending>>
      BY <1>2, WorkMoves, Zenon
    <2>2. Taken' = Taken /\ Through' = Through /\ UNCHANGED <<pc, after, args, pending>>
      BY <1>2, <2>1 DEF Taken, Through, Advances, SameCells, mainVars
    <2>3. \A x, y \in Busy' : thread'[x].cell = thread'[y].cell => x = y
      BY <1>2 DEF PoolInv, Advances, SameCells
    <2>4. (PoolOpen' <=> PoolOpen) /\ Busy' = Busy /\ finished' = finished
      BY <1>2, <2>2 DEF PoolOpen, Advances
    <2> QED
      BY <2>2, <2>3, <2>4 DEF PoolInv, InPool
  <1>3. CASE ~Start(w) /\ Finishes(w)
    <2>1. UNCHANGED <<csv, mainVars, pending>>
      BY <1>3, WorkMoves, Zenon
    <2>2. PICK f : /\ finished' = finished \cup {f}
                   /\ f.row.cell = thread[w].cell /\ f.row.seed = args.seed
      BY <1>3 DEF Finishes
    <2>3. w \in Busy /\ Busy' = Busy \ {w} /\ SameCells(Busy')
      BY <1>3 DEF Finishes
    <2>4. Taken' = Taken \ {thread[w].cell} /\ thread[w].cell \in Taken
      BY <2>3 DEF Taken, SameCells, PoolInv
    <2>5. Through' = Through \cup {thread[w].cell}
      BY <2>2 DEF Through
    <2>6. UNCHANGED <<pc, after, args, pending>>
      BY <2>1 DEF mainVars
    <2>7. \A x, y \in Busy' : thread'[x].cell = thread'[y].cell => x = y
      BY <2>3 DEF PoolInv, SameCells
    <2>8. thread[w].cell \notin Through
      BY <2>4 DEF PoolInv
    <2>9. \A g, h \in finished' : g.row.cell = h.row.cell => g = h
      BY <2>2, <2>8 DEF PoolInv, Through
    <2>10. PoolOpen'
      BY <2>3, <2>6 DEF PoolInv, PoolOpen
    <2>11. \A g \in finished' : g.row.seed = args'.seed
      BY <2>2, <2>6 DEF PoolInv
    <2> QED
      BY <2>4, <2>5, <2>6, <2>7, <2>9, <2>10, <2>11 DEF PoolInv, InPool
  <1> QED
    BY <1>1, <1>2, <1>3, WorkMoves

LEMMA ClosedPool ==
    ASSUME PoolInv, ~PoolOpen
    PROVE  Busy = {} /\ finished = {} /\ Taken = {} /\ Through = {}
  BY DEF PoolInv, Taken, Through

(* A row recorded for a planned cell that has none yet. *)
LEMMA RecordStep ==
    ASSUME LossInv, Collecting, NEW r \in Row, r.cell \in Cells, r.seed = args.seed,
           r.cell \notin CellsOf(records), records' = Append(records, r)
    PROVE  /\ UniqueCells(records') /\ NoCell \notin CellsOf(records')
           /\ CellsOf(records') = CellsOf(records) \cup {r.cell}
           /\ \A i \in DOMAIN records' : records'[i].seed = args.seed
  <1>1. /\ CellsOf(records') = CellsOf(records) \cup {r.cell}
        /\ UniqueCells(records) => UniqueCells(records')
        /\ \A i \in DOMAIN records' : records'[i] = r \/ \E j \in DOMAIN records : records'[i] = records[j]
    BY AppendRow DEF LossInv, TypeOK
  <1>2. \A i \in DOMAIN records : records[i].seed = args.seed
    <2>1. CollectInv
      BY DEF LossInv
    <2> QED
      BY <2>1 DEF CollectInv
  <1>3. NoCell # r.cell
    OBVIOUS
  <1> QED
    BY <1>1, <1>2, <1>3 DEF LossInv, RowsInv

LEMMA ResolveLoss ==
    ASSUME LossInv, NEW c \in Cells, SkipExisting(c) \/ Defer(c) \/ Queue(c)
    PROVE  LossInv'
  <1>1. /\ pc = "resolve" /\ todo # <<>> /\ c = Head(todo) /\ todo' = Tail(todo)
        /\ UNCHANGED <<csv, args, existing, thread, finished>>
    BY DEF SkipExisting, Defer, Queue, Resolving, files
  <1>2. TypeOK'
    BY ResolveType DEF LossInv
  <1>3. Collecting /\ ~PoolOpen
    BY <1>1 DEF Collecting, PoolOpen
  <1>4. Busy = {} /\ finished = {} /\ Taken = {} /\ Through = {}
    BY <1>3, ClosedPool DEF LossInv
  <1>5. Busy' = {} /\ finished' = {} /\ Taken' = {} /\ Through' = {}
    BY <1>1, <1>4 DEF Busy, Taken, Through
  <1>6. /\ Range(todo) = {c} \cup Range(todo') /\ c \notin Range(todo') /\ IsInjective(todo')
    <2>1. todo \in Seq(Cells) /\ IsInjective(todo)
      BY <1>3 DEF LossInv, TypeOK, CollectInv
    <2> QED
      BY <1>1, <2>1, HeadCells
  <1>7. c \notin CellsOf(records) /\ c \notin InPool
    BY <1>3, <1>6 DEF LossInv, CollectInv
  <1>8. /\ Range(args.plan) = CellsOf(records) \cup {c} \cup Range(todo') \cup InPool
        /\ CellsOf(records) \cap Range(todo') = {} /\ CellsOf(records) \cap InPool = {}
        /\ Range(todo') \cap InPool = {}
    BY <1>3, <1>6 DEF LossInv, CollectInv
  <1>9. CASE SkipExisting(c) \/ Defer(c)
    <2>1. \E r \in Row : r.cell = c /\ r.seed = args.seed /\ records' = Append(records, r)
      <3>1. CASE SkipExisting(c)
        <4>1. RowOf(existing, c) \in Row /\ RowOf(existing, c).cell = c
          BY <3>1, ExistingRow DEF SkipExisting, Kept, LossInv
        <4>2. RowOf(existing, c).seed = args.seed
          BY <3>1 DEF SkipExisting, Kept
        <4> QED
          BY <3>1, <4>1, <4>2 DEF SkipExisting
      <3>2. CASE Defer(c)
        <4>1. Outcome(c, "deferred") \in Row
          BY OutcomeType DEF LossInv
        <4> QED
          BY <3>2, <4>1 DEF Defer, Outcome
      <3> QED
        BY <1>9, <3>1, <3>2
    <2>2. pending' = pending
      BY <1>9 DEF SkipExisting, Defer
    <2>3. /\ UniqueCells(records') /\ NoCell \notin CellsOf(records')
          /\ CellsOf(records') = CellsOf(records) \cup {c}
          /\ \A i \in DOMAIN records' : records'[i].seed = args'.seed
      BY <1>1, <1>3, <1>7, <2>1, RecordStep
    <2>4. Collecting' /\ ~Resolved' /\ ~Gathered'
      BY <1>1, <1>9 DEF SkipExisting, Defer, FlushThen, Collecting, Resolved, Gathered, Writing
    <2>5. InPool' = InPool
      BY <1>4, <1>5, <2>2 DEF InPool
    <2>6. RowsInv'
      BY <1>1, <2>3 DEF RowsInv, LossInv
    <2>7. PoolInv'
      BY <1>5, <2>2 DEF PoolInv, LossInv
    <2>8. CollectInv'
      BY <1>1, <1>6, <1>7, <1>8, <2>3, <2>4, <2>5 DEF CollectInv
    <2> QED
      BY <1>2, <2>4, <2>6, <2>7, <2>8 DEF LossInv
  <1>10. CASE Queue(c)
    <2>1. pending' = Append(pending, c) /\ UNCHANGED <<records, pc, after>>
      BY <1>10 DEF Queue
    <2>2. /\ Range(pending') = Range(pending) \cup {c}
          /\ IsInjective(pending) /\ c \notin Range(pending) => IsInjective(pending')
      BY <2>1, AppendCells DEF LossInv, TypeOK
    <2>3. IsInjective(pending')
      BY <1>7, <2>2 DEF LossInv, PoolInv, InPool
    <2>4. InPool' = InPool \cup {c}
      BY <1>4, <1>5, <2>2 DEF InPool
    <2>5. Collecting' /\ ~Resolved' /\ ~Gathered'
      BY <1>1, <2>1 DEF Collecting, Resolved, Gathered, Writing
    <2>6. RowsInv'
      BY <1>1, <2>1 DEF RowsInv, LossInv, CellsOf
    <2>7. PoolInv'
      BY <1>5, <2>3 DEF PoolInv, LossInv
    <2>8. CellsOf(records') = CellsOf(records) /\ \A i \in DOMAIN records' : records'[i].seed = args'.seed
      <3>1. CollectInv
        BY DEF LossInv
      <3>2. CellsOf(records') = CellsOf(records)
        BY <2>1 DEF CellsOf
      <3> QED
        BY <1>1, <1>3, <2>1, <3>1, <3>2 DEF CollectInv
    <2>9. CollectInv'
      BY <1>1, <1>6, <1>7, <1>8, <2>4, <2>5, <2>8 DEF CollectInv
    <2> QED
      BY <1>2, <2>5, <2>6, <2>7, <2>9 DEF LossInv
  <1> QED
    BY <1>9, <1>10

LEMMA HarvestLoss ==
    ASSUME LossInv, NEW f \in finished, Harvest(f)
    PROVE  LossInv'
  <1> DEFINE c == f.row.cell
  <1>1. /\ pc = "pool" /\ finished' = finished \ {f}
        /\ UNCHANGED <<csv, args, existing, todo, pending, thread>>
    BY DEF Harvest, files
  <1>2. TypeOK'
    BY HarvestType DEF LossInv
  <1>3. Taken' = Taken /\ Busy' = Busy
    BY <1>1 DEF Taken, Busy
  <1>4. Through' = Through \ {c} /\ c \in Through
    BY <1>1 DEF Through, LossInv, PoolInv
  <1>5. InPool' = InPool \ {c} /\ c \in InPool
    BY <1>1, <1>3, <1>4 DEF InPool, LossInv, PoolInv
  <1>6. Collecting /\ Resolved
    BY <1>1 DEF Collecting, Resolved
  <1>7. CASE f.raised
    <2>1. pc' = "raised" /\ records' = records
      BY <1>7 DEF Harvest
    <2>2. ~Collecting' /\ ~Gathered' /\ PoolOpen'
      BY <2>1 DEF Collecting, Gathered, Writing, PoolOpen
    <2>3. RowsInv'
      BY <1>1, <2>1 DEF RowsInv, LossInv, CellsOf
    <2>4. PoolInv'
      BY <1>1, <1>3, <1>4, <2>2 DEF PoolInv, LossInv
    <2>5. CollectInv'
      BY <2>1, <2>2 DEF CollectInv
    <2> QED
      BY <1>2, <2>2, <2>3, <2>4, <2>5 DEF LossInv
  <1>8. CASE ~f.raised
    <2>1. records' = Append(records, f.row) /\ FlushThen("pool")
      BY <1>8 DEF Harvest
    <2>2. f.row \in Row /\ c \in Cells
      <3>1. f \in Future({"ok", "failed"}, FALSE)
        BY <1>8 DEF LossInv, TypeOK, Future
      <3> QED
        BY <3>1 DEF Future, Row, Gates
    <2>3. f.row.seed = args.seed /\ c \notin CellsOf(records)
      BY <1>5, <1>6 DEF LossInv, PoolInv, CollectInv
    <2>4. /\ UniqueCells(records') /\ NoCell \notin CellsOf(records')
          /\ CellsOf(records') = CellsOf(records) \cup {c}
          /\ \A i \in DOMAIN records' : records'[i].seed = args.seed
      BY <1>6, <2>1, <2>2, <2>3, RecordStep
    <2>5. Collecting' /\ ~Gathered' /\ PoolOpen'
      BY <1>1, <2>1 DEF Collecting, Gathered, Writing, PoolOpen, FlushThen
    <2>6. RowsInv'
      BY <1>1, <2>4 DEF RowsInv, LossInv
    <2>7. PoolInv'
      BY <1>1, <1>3, <1>4, <2>5 DEF PoolInv, LossInv
    <2>8. /\ IsInjective(todo) /\ todo = <<>>
          /\ Range(args.plan) = CellsOf(records) \cup Range(todo) \cup InPool
          /\ CellsOf(records) \cap Range(todo) = {} /\ CellsOf(records) \cap InPool = {}
          /\ Range(todo) \cap InPool = {}
      <3>1. CollectInv
        BY DEF LossInv
      <3> QED
        BY <1>6, <3>1 DEF CollectInv
    <2>9. CollectInv'
      BY <1>1, <1>5, <2>4, <2>5, <2>8 DEF CollectInv
    <2> QED
      BY <1>2, <2>5, <2>6, <2>7, <2>9 DEF LossInv
  <1> QED
    BY <1>7, <1>8

LEMMA ConcatRows ==
    ASSUME NEW p \in Seq(Row), NEW q \in Seq(Row)
    PROVE  /\ \A k \in DOMAIN (p \o q) : \/ \E i \in DOMAIN p : (p \o q)[k] = p[i]
                                         \/ \E i \in DOMAIN q : (p \o q)[k] = q[i]
           /\ \A i \in DOMAIN p : \E k \in DOMAIN (p \o q) : (p \o q)[k] = p[i]
           /\ \A i \in DOMAIN q : \E k \in DOMAIN (p \o q) : (p \o q)[k] = q[i]
           /\ CellsOf(p \o q) = CellsOf(p) \cup CellsOf(q)
           /\ UniqueCells(p) /\ UniqueCells(q) /\ CellsOf(p) \cap CellsOf(q) = {} => UniqueCells(p \o q)
  <1> DEFINE m == Len(p)
             n == Len(q)
             s == p \o q
  <1>1. /\ m \in Nat /\ n \in Nat /\ DOMAIN p = 1 .. m /\ DOMAIN q = 1 .. n /\ DOMAIN s = 1 .. m + n
        /\ \A k \in 1 .. m : s[k] = p[k]
        /\ \A k \in 1 .. m + n : k > m => s[k] = q[k - m]
    BY LenProperties, ConcatProperties
  <1> HIDE DEF m, n, s
  <1>2. \A k \in 1 .. m + n : k \in 1 .. m \/ (k > m /\ k - m \in 1 .. n)
    BY <1>1
  <1>3. \A i \in 1 .. n : i + m \in 1 .. m + n /\ i + m > m /\ (i + m) - m = i
    BY <1>1
  <1>4. \A i \in 1 .. m : i \in 1 .. m + n
    BY <1>1
  <1>5. \A i \in 1 .. n : s[i + m] = q[i]
    BY <1>1, <1>3
  <1>6. \A k \in DOMAIN s : (\E i \in DOMAIN p : s[k] = p[i]) \/ (\E i \in DOMAIN q : s[k] = q[i])
    BY <1>1, <1>2
  <1>7. /\ \A i \in DOMAIN p : \E k \in DOMAIN s : s[k] = p[i]
        /\ \A i \in DOMAIN q : \E k \in DOMAIN s : s[k] = q[i]
    BY <1>1, <1>3, <1>4, <1>5
  <1>8. CellsOf(s) = CellsOf(p) \cup CellsOf(q)
    BY <1>6, <1>7 DEF CellsOf
  <1>9. UniqueCells(p) /\ UniqueCells(q) /\ CellsOf(p) \cap CellsOf(q) = {} => UniqueCells(s)
    <2> SUFFICES ASSUME UniqueCells(p), UniqueCells(q), CellsOf(p) \cap CellsOf(q) = {},
                        NEW k \in DOMAIN s, NEW l \in DOMAIN s, s[k].cell = s[l].cell
                 PROVE  k = l
      BY DEF UniqueCells
    <2>1. CASE k \in 1 .. m /\ l \in 1 .. m
      BY <1>1, <2>1 DEF UniqueCells
    <2>2. CASE k > m /\ l > m
      <3>1. k - m \in 1 .. n /\ l - m \in 1 .. n /\ s[k] = q[k - m] /\ s[l] = q[l - m]
        BY <1>1, <1>2, <2>2
      <3>2. k - m = l - m
        BY <1>1, <3>1 DEF UniqueCells
      <3> QED
        BY <1>1, <3>2
    <2>3. CASE k \in 1 .. m /\ l > m
      <3>1. l - m \in 1 .. n /\ s[k] = p[k] /\ s[l] = q[l - m]
        BY <1>1, <1>2, <2>3
      <3>2. p[k].cell \in CellsOf(p) /\ q[l - m].cell \in CellsOf(q)
        BY <1>1, <2>3, <3>1 DEF CellsOf
      <3> QED
        BY <3>1, <3>2
    <2>4. CASE k > m /\ l \in 1 .. m
      <3>1. k - m \in 1 .. n /\ s[l] = p[l] /\ s[k] = q[k - m]
        BY <1>1, <1>2, <2>4
      <3>2. p[l].cell \in CellsOf(p) /\ q[k - m].cell \in CellsOf(q)
        BY <1>1, <2>4, <3>1 DEF CellsOf
      <3> QED
        BY <3>1, <3>2
    <2> QED
      BY <1>1, <1>2, <2>1, <2>2, <2>3, <2>4
  <1> QED
    BY <1>6, <1>7, <1>8, <1>9 DEF s

(* The preserved rows: those of the other launches, each once.             *)
LEMMA PreservedRows ==
    ASSUME TypeOK
    PROVE  /\ Preserved \in Seq(Row)
           /\ \A j \in DOMAIN Preserved : \E i \in DOMAIN existing :
                 Preserved[j] = existing[i] /\ existing[i].cell \notin Range(args.plan)
           /\ \A i \in DOMAIN existing : existing[i].cell \in Range(args.plan) \/
                 \E j \in DOMAIN Preserved : Preserved[j] = existing[i]
           /\ UniqueCells(existing) => UniqueCells(Preserved)
  <1> DEFINE D == Outside(Range(args.plan))
             n == Len(existing)
             q == Preserved
  <1>1. PICK f : Enumerates(f, q, existing, D, n)
    BY PreservedEnumerates
  <1>2. /\ q \in Seq(Row) /\ DOMAIN q = 1 .. Len(q) /\ Len(q) \in Nat
        /\ n \in Nat /\ DOMAIN existing = 1 .. n
    BY PreservedEnumerates, LenProperties DEF TypeOK
  <1>3. D = {i \in 1 .. n : existing[i].cell \notin Range(args.plan)}
    BY <1>2 DEF Outside
  <1> HIDE DEF D, n, q
  <1>4. /\ f \in [1 .. Len(q) -> D \cap 1 .. n]
        /\ \A j \in 1 .. Len(q) : q[j] = existing[f[j]]
        /\ \A i, j \in 1 .. Len(q) : i < j => f[i] < f[j]
        /\ \A i \in D \cap 1 .. n : \E j \in 1 .. Len(q) : f[j] = i
    BY <1>1 DEF Enumerates
  <1>5. \A j \in 1 .. Len(q) : f[j] \in D /\ f[j] \in 1 .. n
    BY <1>4
  <1>6. \A i, j \in 1 .. Len(q) : f[i] = f[j] => i = j
    <2>1. \A i, j \in 1 .. Len(q) : i < j \/ j < i \/ i = j
      BY <1>2
    <2>2. \A i \in 1 .. Len(q) : f[i] \in Int
      BY <1>2, <1>5
    <2> QED
      BY <1>4, <2>1, <2>2
  <1>7. UniqueCells(existing) => UniqueCells(q)
    BY <1>2, <1>4, <1>5, <1>6 DEF UniqueCells
  <1>8. \A j \in DOMAIN q : \E i \in DOMAIN existing :
                 q[j] = existing[i] /\ existing[i].cell \notin Range(args.plan)
    BY <1>2, <1>3, <1>4, <1>5
  <1>9. \A i \in DOMAIN existing : existing[i].cell \in Range(args.plan) \/
                 \E j \in DOMAIN q : q[j] = existing[i]
    <2> SUFFICES ASSUME NEW i \in DOMAIN existing, existing[i].cell \notin Range(args.plan)
                 PROVE  \E j \in DOMAIN q : q[j] = existing[i]
      OBVIOUS
    <2>1. i \in D \cap 1 .. n
      BY <1>2, <1>3
    <2>2. PICK j \in 1 .. Len(q) : f[j] = i
      BY <1>4, <2>1
    <2> QED
      BY <1>2, <1>4, <2>2
  <1> QED
    BY <1>2, <1>7, <1>8, <1>9 DEF q

LEMMA GatherLoss ==
    ASSUME LossInv, Gather
    PROVE  LossInv'
  <1>1. /\ pc = "pool" /\ pending = <<>> /\ Busy = {} /\ finished = {}
        /\ UNCHANGED <<csv, args, existing, pending, thread, finished>>
    BY DEF Gather, files, poolVars
  <1>2. TypeOK'
    BY GatherType DEF LossInv
  <1>3. Busy' = {} /\ finished' = {}
    BY <1>1 DEF Busy
  <1>4. PoolInv'
    BY <1>1, <1>3 DEF PoolInv, LossInv, Taken, Through
  <1>5. CASE NoCell \in CellsOf(existing)
    <2>1. pc' = "raised" /\ records' = records
      BY <1>5 DEF Gather
    <2>2. ~Collecting' /\ ~Gathered'
      BY <2>1 DEF Collecting, Gathered, Writing
    <2>3. RowsInv'
      BY <1>1, <2>1 DEF RowsInv, LossInv, CellsOf
    <2> QED
      BY <1>2, <1>4, <2>1, <2>2, <2>3 DEF LossInv, CollectInv
  <1>6. CASE NoCell \notin CellsOf(existing)
    <2>1. records' = Preserved \o records
      BY <1>6 DEF Gather
    <2>2. pc' \in {"rewrite", "parity"} /\ (pc' = "rewrite" => after' = "idle")
      BY <1>6 DEF Gather
    <2>3. Gathered' /\ ~Collecting'
      BY <2>2 DEF Collecting, Gathered, Writing
    <2>4. CollectInv
      BY DEF LossInv
    <2>5. /\ Range(args.plan) = CellsOf(records) \cup Range(todo) \cup InPool
          /\ \A i \in DOMAIN records : records[i].seed = args.seed
          /\ todo = <<>>
      BY <1>1, <2>4 DEF CollectInv, Collecting, Resolved
    <2>6. Range(args.plan) = CellsOf(records)
      BY <1>1, <2>5 DEF InPool, Taken, Through, Range
    <2>7. records \in Seq(Row) /\ Preserved \in Seq(Row) /\ UniqueCells(Preserved) /\ UniqueCells(records)
      BY PreservedRows DEF LossInv, TypeOK, RowsInv
    <2>8. CellsOf(Preserved) \cap CellsOf(records) = {} /\ NoCell \notin CellsOf(Preserved)
      <3>1. \A j \in DOMAIN Preserved : /\ Preserved[j].cell \in CellsOf(existing)
                                        /\ Preserved[j].cell \notin Range(args.plan)
        BY PreservedRows DEF LossInv, CellsOf
      <3> QED
        BY <1>6, <2>6, <3>1 DEF CellsOf
    <2>9. RowsInv'
      <3>1. UniqueCells(records') /\ CellsOf(records') = CellsOf(Preserved) \cup CellsOf(records)
        BY <2>1, <2>7, <2>8, ConcatRows
      <3> QED
        BY <1>1, <2>8, <3>1 DEF RowsInv, LossInv
    <2>10. PlanCovered'
      <3> SUFFICES ASSUME NEW c \in Range(args.plan)
                   PROVE  \E i \in DOMAIN records' : records'[i].cell = c /\ records'[i].seed = args.seed
        BY <1>1 DEF PlanCovered
      <3>1. PICK j \in DOMAIN records : records[j].cell = c
        BY <2>6 DEF CellsOf
      <3>2. \E i \in DOMAIN records' : records'[i] = records[j]
        BY <2>1, <2>7, ConcatRows
      <3> QED
        BY <2>5, <3>1, <3>2
    <2>11. OthersKept'
      <3> SUFFICES ASSUME NEW i \in DOMAIN existing, existing[i].cell \notin Range(args.plan)
                   PROVE  \E j \in DOMAIN records' : SameRow(records'[j], existing[i])
        BY <1>1 DEF OthersKept
      <3>1. PICK j \in DOMAIN Preserved : Preserved[j] = existing[i]
        BY PreservedRows DEF LossInv
      <3>2. \E k \in DOMAIN records' : records'[k] = Preserved[j]
        BY <2>1, <2>7, ConcatRows
      <3> QED
        BY <3>1, <3>2 DEF SameRow
    <2> QED
      BY <1>1, <1>2, <1>4, <2>3, <2>9, <2>10, <2>11 DEF LossInv, CollectInv
  <1> QED
    BY <1>5, <1>6

LEMMA JudgeLoss ==
    ASSUME LossInv, Judge
    PROVE  LossInv'
  <1>1. /\ pc = "parity" /\ pc' = "rewrite" /\ after' = "idle"
        /\ UNCHANGED <<csv, args, existing, pending, thread, finished>>
    BY DEF Judge, files, poolVars
  <1>2. TypeOK'
    BY JudgeType DEF LossInv
  <1>3. DOMAIN records' = DOMAIN records /\ \A i \in DOMAIN records : SameRow(records'[i], records[i])
    <2>1. \A i \in DOMAIN records : records[i] \in Row
      BY LenProperties, ElementOfSeq DEF LossInv, TypeOK
    <2>2. /\ DOMAIN records' = DOMAIN records
          /\ \A i \in DOMAIN records : records'[i] = [records[i] EXCEPT !.gate = Verdict(records[i])]
      BY DEF Judge
    <2> QED
      BY <2>1, <2>2 DEF SameRow, Row
  <1>4. RowsInv'
    <2>1. RowsInv
      BY DEF LossInv
    <2>2. UniqueCells(records') /\ CellsOf(records') = CellsOf(records)
      BY <1>3, <2>1 DEF RowsInv, UniqueCells, CellsOf, SameRow
    <2> QED
      BY <1>1, <2>1, <2>2 DEF RowsInv
  <1>5. Busy' = {} /\ finished' = {} /\ pending' = <<>>
    <2>1. pending = <<>>
      BY <1>1 DEF LossInv, CollectInv, Collecting, Writing
    <2> QED
      BY <1>1, <2>1, ClosedPool DEF LossInv, PoolOpen, Busy
  <1>6. PoolInv'
    BY <1>1, <1>5 DEF PoolInv, LossInv, Taken, Through
  <1>7. ~Collecting' /\ CollectInv'
    BY <1>1, <1>5 DEF Collecting, Writing, CollectInv
  <1>8. PlanCovered /\ OthersKept
    BY <1>1 DEF LossInv, Gathered
  <1>9. PlanCovered' /\ OthersKept'
    BY <1>1, <1>3, <1>8 DEF PlanCovered, OthersKept, SameRow
  <1> QED
    BY <1>2, <1>4, <1>6, <1>7, <1>9 DEF LossInv

(* Main is between launches: nothing is in the pool.                       *)
LEMMA LaunchLoss ==
    ASSUME LossInv, NEW a \in Launches, Launch(a)
    PROVE  LossInv'
  <1>1. /\ pc = "idle" /\ pc' = "resolve" /\ args' = a /\ todo' = a.plan
        /\ records' = <<>> /\ existing' = IF a.resume THEN csv ELSE <<>>
        /\ UNCHANGED <<csv, pending, thread, finished>>
    BY DEF Launch, files
  <1>2. TypeOK'
    BY TypeStep DEF LossInv, Next
  <1>3. Busy' = {} /\ finished' = {} /\ pending' = <<>>
    <2>1. pending = <<>>
      BY <1>1 DEF LossInv, CollectInv, Collecting, Writing
    <2> QED
      BY <1>1, <2>1, ClosedPool DEF LossInv, PoolOpen, Busy
  <1>4. PoolInv'
    BY <1>1, <1>3 DEF PoolInv, LossInv, Taken, Through
  <1>5. RowsInv'
    BY <1>1 DEF RowsInv, LossInv, UniqueCells, CellsOf
  <1>6. Range(pending') = {} /\ InPool' = {}
    BY <1>3 DEF InPool, Taken, Through, Range
  <1>7. IsInjective(a.plan) /\ Collecting' /\ ~Resolved' /\ ~Gathered'
    BY <1>1 DEF Collecting, Resolved, Gathered, Writing
  <1>8. CollectInv'
    BY <1>1, <1>6, <1>7 DEF CollectInv, CellsOf
  <1> QED
    BY <1>2, <1>4, <1>5, <1>7, <1>8 DEF LossInv

LEMMA WriteLoss ==
    ASSUME LossInv, OpenPool \/ Truncate \/ WriteRows \/ Resnapshot
    PROVE  LossInv'
  <1>1. TypeOK' /\ UNCHANGED <<args, existing, records, pending, thread, finished>>
    <2>1. TypeOK'
      BY TypeStep DEF LossInv, Next, Main
    <2> QED
      BY <2>1 DEF OpenPool, Truncate, WriteRows, Resnapshot, poolVars
  <1>2. Busy' = Busy /\ Taken' = Taken /\ Through' = Through /\ InPool' = InPool
    BY <1>1 DEF Busy, Taken, Through, InPool
  <1>3. RowsInv'
    <2>1. csv' \in {csv, <<>>, records}
      BY DEF OpenPool, Truncate, WriteRows, Resnapshot, files
    <2> QED
      BY <1>1, <2>1 DEF RowsInv, LossInv, UniqueCells, CellsOf
  <1>4. PoolInv'
    <2>1. PoolOpen' \/ ~PoolOpen
      BY DEF OpenPool, Truncate, WriteRows, Resnapshot, PoolOpen, LossInv, TypeOK
    <2> QED
      BY <1>1, <1>2, <2>1 DEF PoolInv, LossInv
  <1>5. /\ Collecting' <=> Collecting
        /\ Resolved' => Resolved \/ todo = <<>>
        /\ Gathered' => Gathered
        /\ pc # "raised"
        /\ Collecting => UNCHANGED todo
    BY DEF OpenPool, Truncate, WriteRows, Resnapshot, Collecting, Resolved, Gathered, Writing, LossInv, TypeOK
  <1>6. CollectInv'
    <2>1. CollectInv
      BY DEF LossInv
    <2>2. CASE Collecting
      <3>1. UNCHANGED todo
        BY <1>5, <2>2
      <3> QED
        BY <1>1, <1>2, <1>5, <2>1, <2>2, <3>1 DEF CollectInv, CellsOf
    <2>3. CASE ~Collecting
      BY <1>1, <1>5, <2>1, <2>3 DEF CollectInv
    <2> QED
      BY <2>2, <2>3
  <1>7. Gathered' => PlanCovered' /\ OthersKept'
    BY <1>1, <1>5 DEF LossInv, PlanCovered, OthersKept
  <1> QED
    BY <1>1, <1>3, <1>4, <1>6, <1>7 DEF LossInv

LEMMA DieLoss ==
    ASSUME LossInv, Die
    PROVE  LossInv'
  <1>1. /\ pc' = "idle" /\ pending' = <<>> /\ finished' = {} /\ Busy = {}
        /\ UNCHANGED <<csv, args, existing, records, thread>>
    BY DEF Die, files
  <1>2. TypeOK'
    BY TypeStep DEF LossInv, Next, Main
  <1>3. RowsInv'
    BY <1>1 DEF RowsInv, LossInv, CellsOf
  <1>4. Busy' = {} /\ ~Collecting' /\ ~Gathered'
    BY <1>1 DEF Busy, Collecting, Gathered, Writing
  <1>5. PoolInv'
    BY <1>1, <1>4 DEF PoolInv, Taken, Through, Range, IsInjective
  <1> QED
    BY <1>1, <1>2, <1>3, <1>4, <1>5 DEF LossInv, CollectInv

LEMMA WorkLoss ==
    ASSUME LossInv, NEW w \in Threads, Work(w)
    PROVE  LossInv'
  <1>1. TypeOK' /\ PoolInv' /\ InPool' = InPool
    BY WorkType, PoolStep DEF LossInv
  <1>2. UNCHANGED <<csv, mainVars>> /\ (pending = <<>> => pending' = <<>>)
    BY WorkMoves, StartMoves DEF LossInv
  <1>3. UNCHANGED <<pc, after, args, existing, todo, records>>
    BY <1>2 DEF mainVars
  <1>4. RowsInv'
    BY <1>2, <1>3 DEF RowsInv, LossInv, CellsOf
  <1>5. CollectInv'
    <2>1. CollectInv
      BY DEF LossInv
    <2>2. CellsOf(records') = CellsOf(records) /\ (Collecting' <=> Collecting) /\ (Resolved' <=> Resolved)
      BY <1>3 DEF CellsOf, Collecting, Resolved, Writing
    <2> QED
      BY <1>1, <1>2, <1>3, <2>1, <2>2 DEF CollectInv
  <1>6. Gathered' => PlanCovered' /\ OthersKept'
    BY <1>3 DEF LossInv, PlanCovered, OthersKept, Gathered, Writing
  <1> QED
    BY <1>1, <1>4, <1>5, <1>6 DEF LossInv

(* A kill cuts the CSV after some of the rows, perhaps inside the next one. *)
LEMMA KillLoss ==
    ASSUME LossInv, Kill
    PROVE  LossInv'
  <1>1. /\ pc' = "idle" /\ pending' = <<>> /\ finished' = {} /\ thread' = [w \in Threads |-> Idle]
        /\ UNCHANGED <<args, existing, records>>
    BY DEF Kill
  <1>2. TypeOK'
    BY KillType DEF LossInv
  <1>3. UniqueCells(csv')
    <2> DEFINE m == Len(records)
    <2>1. m \in Nat /\ DOMAIN records = 1 .. m /\ UniqueCells(records) /\ records \in Seq(Row)
      BY LenProperties DEF LossInv, TypeOK, RowsInv
    <2>2. CutRow \in Row /\ CutRow.cell = NoCell
      BY DEF CutRow, Row, Gates
    <2>3. ASSUME NEW n \in 0 .. m
          PROVE  /\ UniqueCells(SubSeq(records, 1, n))
                 /\ UniqueCells(Append(SubSeq(records, 1, n), CutRow))
      <3> DEFINE q == SubSeq(records, 1, n)
      <3>1. n \in Nat /\ \A i \in 1 .. n : i \in 1 .. m
        BY <2>1
      <3>2. q \in Seq(Row) /\ Len(q) = n /\ \A i \in 1 .. n : q[i] = records[i]
        BY <2>1, <3>1, SubSeqProperties
      <3>3. DOMAIN q = 1 .. n
        BY <3>2, LenProperties
      <3> HIDE DEF q
      <3>4. UniqueCells(q)
        BY <2>1, <3>1, <3>2, <3>3 DEF UniqueCells
      <3>5. NoCell \notin CellsOf(q)
        <4>1. NoCell \notin CellsOf(records)
          BY DEF LossInv, RowsInv
        <4> QED
          BY <2>1, <3>1, <3>2, <3>3, <4>1 DEF CellsOf
      <3>6. UniqueCells(Append(q, CutRow))
        BY <2>2, <3>2, <3>4, <3>5, AppendRow
      <3> QED
        BY <3>4, <3>6 DEF q
    <2>4. UniqueCells(csv)
      BY DEF LossInv, RowsInv
    <2> QED
      BY <2>3, <2>4 DEF Kill
  <1>4. RowsInv'
    BY <1>1, <1>3 DEF RowsInv, LossInv, CellsOf
  <1>5. Busy' = {} /\ ~Collecting' /\ ~Gathered'
    BY <1>1 DEF Busy, Collecting, Gathered, Writing
  <1>6. PoolInv'
    BY <1>1, <1>5 DEF PoolInv, Taken, Through, Range, IsInjective
  <1> QED
    BY <1>1, <1>2, <1>4, <1>5, <1>6 DEF LossInv, CollectInv

LEMMA LossStep == LossInv /\ [Next]_orVars => LossInv'
  <1> SUFFICES ASSUME LossInv, [Next]_orVars PROVE LossInv'
    OBVIOUS
  <1>1. ASSUME NEW a \in Launches, Launch(a) PROVE LossInv'
    BY <1>1, LaunchLoss
  <1>2. ASSUME NEW c \in Cells, SkipExisting(c) \/ Defer(c) \/ Queue(c) PROVE LossInv'
    BY <1>2, ResolveLoss
  <1>3. CASE OpenPool \/ Truncate \/ WriteRows \/ Resnapshot
    BY <1>3, WriteLoss
  <1>4. ASSUME NEW f \in finished, Harvest(f) PROVE LossInv'
    BY <1>4, HarvestLoss
  <1>5. CASE Die
    BY <1>5, DieLoss
  <1>6. CASE Gather
    BY <1>6, GatherLoss
  <1>7. CASE Judge
    BY <1>7, JudgeLoss
  <1>8. ASSUME NEW w \in Threads, Work(w) PROVE LossInv'
    BY <1>8, WorkLoss
  <1>9. CASE Kill
    BY <1>9, KillLoss
  <1>10. CASE UNCHANGED orVars
    <2>1. UNCHANGED <<csv, pc, after, args, existing, todo, records, pending, thread, finished>>
      BY <1>10 DEF orVars, files, mainVars, poolVars
    <2>2. TypeOK'
      BY TypeStep DEF LossInv
    <2>3. RowsInv' /\ PoolInv'
      <3>1. RowsInv /\ PoolInv
        BY DEF LossInv
      <3>2. CellsOf(records') = CellsOf(records) /\ CellsOf(csv') = CellsOf(csv)
        BY <2>1 DEF CellsOf
      <3>3. RowsInv'
        BY <2>1, <3>1, <3>2 DEF RowsInv
      <3>4. Busy' = Busy /\ Taken' = Taken /\ Through' = Through /\ (PoolOpen' <=> PoolOpen)
        BY <2>1 DEF Busy, Taken, Through, PoolOpen
      <3>5. PoolInv'
        BY <2>1, <3>1, <3>4 DEF PoolInv
      <3> QED
        BY <3>3, <3>5
    <2>4. CollectInv'
      <3>1. CollectInv
        BY DEF LossInv
      <3>2. CellsOf(records') = CellsOf(records) /\ InPool' = InPool
        BY <2>1 DEF CellsOf, InPool, Taken, Through, Busy
      <3>3. (Collecting' <=> Collecting) /\ (Resolved' <=> Resolved)
        BY <2>1 DEF Collecting, Resolved, Writing
      <3> QED
        BY <2>1, <3>1, <3>2, <3>3 DEF CollectInv
    <2>5. Gathered' => PlanCovered' /\ OthersKept'
      BY <2>1 DEF LossInv, Gathered, Writing, PlanCovered, OthersKept
    <2> QED
      BY <2>2, <2>3, <2>4, <2>5 DEF LossInv
  <1> QED
    BY <1>1, <1>2, <1>3, <1>4, <1>5, <1>6, <1>7, <1>8, <1>9, <1>10 DEF Next, Main

LEMMA LossInit == Init => LossInv
  <1> SUFFICES ASSUME Init PROVE LossInv
    OBVIOUS
  <1>1. TypeOK
    BY TypeInit
  <1>2. RowsInv
    BY DEF Init, RowsInv, UniqueCells, CellsOf
  <1>3. Busy = {} /\ finished = {} /\ pending = <<>> /\ pc = "idle"
    BY DEF Init, Busy
  <1>4. PoolInv
    BY <1>3 DEF PoolInv, Taken, Through, Range, IsInjective
  <1> QED
    BY <1>1, <1>2, <1>3, <1>4 DEF LossInv, CollectInv, Collecting, Gathered, Writing

LEMMA LossAlways == Spec => []LossInv
  BY LossInit, LossStep, PTL DEF Spec

(* Rows whose cells differ are as many as their cells.                     *)
LEMMA CountCells ==
    ASSUME NEW q \in Seq(Row), UniqueCells(q)
    PROVE  Cardinality(CellsOf(q)) = Len(q)
  <1> DEFINE n == Len(q)
             f == [i \in 1 .. n |-> q[i].cell]
  <1>1. n \in Nat /\ DOMAIN q = 1 .. n
    BY LenProperties
  <1>2. f \in Bijection(1 .. n, CellsOf(q))
    <2>1. f \in [1 .. n -> CellsOf(q)]
      BY <1>1 DEF CellsOf
    <2>2. \A i, j \in 1 .. n : f[i] = f[j] => i = j
      BY <1>1 DEF UniqueCells
    <2>3. \A c \in CellsOf(q) : \E i \in 1 .. n : f[i] = c
      BY <1>1 DEF CellsOf
    <2> HIDE DEF f
    <2> QED
      BY <2>1, <2>2, <2>3 DEF Bijection, Injection, Surjection, IsInjective
  <1>3. ExistsBijection(1 .. n, CellsOf(q))
    BY <1>2 DEF ExistsBijection
  <1> QED
    BY <1>1, <1>3, FS_CountingElements

(* Whatever was killed or raised before, a launch that reaches its end      *)
(* writes one row for each planned cell, of its seed, and has kept the row  *)
(* of every other cell of the CSV it started from.                         *)
THEOREM CompleteResults == Spec => []NothingLost
  <1>1. LossInv => NothingLost
    <2> SUFFICES ASSUME LossInv, Ending PROVE NothingLost
      BY DEF NothingLost
    <2>1. records \in Seq(Row) /\ existing \in Seq(Row) /\ UniqueCells(records)
      BY DEF LossInv, TypeOK, RowsInv
    <2>2. PlanCovered /\ OthersKept
      BY DEF LossInv, Ending, Gathered, Writing
    <2>3. Cardinality(CellsOf(records)) = Len(records)
      BY <2>1, CountCells
    <2>4. ASSUME NEW i \in DOMAIN existing, NEW j \in DOMAIN records, SameRow(records[j], existing[i])
          PROVE  [records[j] EXCEPT !.gate = ""] = [existing[i] EXCEPT !.gate = ""]
      <3>1. existing[i] \in Row /\ records[j] \in Row
        BY <2>1, LenProperties, ElementOfSeq
      <3> QED
        BY <2>4, <3>1 DEF SameRow, Row
    <2> QED
      BY <2>2, <2>3, <2>4 DEF NothingLost, PlanCovered, OthersKept
  <1> QED
    BY <1>1, LossAlways, PTL

-----------------------------------------------------------------------------
(* What a launch needs for its snapshots not to collide: no two threads     *)
(* copy for the reference at once.  For none to raise, every benchmark      *)
(* process that succeeds prints its record.  Launches may be killed.       *)

OneReference == \A a \in Launches : a.workers = 1 \/
                   \A c, d \in Range(a.plan) \cap Canonical : c = d
OneCopier == "mute" \notin Outcomes /\ OneReference

CopyStages == {"snapshot", "copying", "copied"}
ThreadInv(w) ==
    /\ thread[w].stage # "overwriting"
    /\ thread[w].stage \in CopyStages => thread[w].cell \in Canonical
    /\ thread[w].stage \in CopyStages \cup {"saved"} => predictions[thread[w].cell] = args.seed
    /\ thread[w].stage = "copied" => tmp[args.seed] = args.seed
CopyInv ==
    /\ InPool \subseteq Range(args.plan)
    /\ Sequential => \A w, x \in Busy : w = x
    /\ \A w \in Threads : ThreadInv(w)
    /\ "mute" \notin Outcomes => \A f \in finished : ~f.raised

LEMMA SingleCopier ==
    ASSUME LossInv, CopyInv, OneReference,
           NEW w \in Threads, NEW x \in Threads,
           thread[w].stage \in CopyStages, thread[x].stage \in CopyStages
    PROVE  w = x
  <1>1. w \in Busy /\ x \in Busy
    BY BusyType DEF LossInv, CopyStages
  <1>2. thread[w].cell \in Range(args.plan) \cap Canonical /\ thread[x].cell \in Range(args.plan) \cap Canonical
    BY <1>1 DEF CopyInv, ThreadInv, InPool, Taken
  <1>3. args.workers = 1 \/ thread[w].cell = thread[x].cell
    BY <1>2 DEF OneReference, LossInv, TypeOK
  <1> QED
    BY <1>1, <1>3 DEF CopyInv, Sequential, LossInv, PoolInv

LEMMA GoThreads ==
    ASSUME TypeOK, NEW w \in Threads, thread[w].stage # "idle", NEW stage \in Stages, Go(w, stage)
    PROVE  /\ thread'[w].stage = stage /\ thread'[w].cell = thread[w].cell
           /\ \A x \in Threads \ {w} : thread'[x] = thread[x]
           /\ finished' = finished
  <1>1. thread[w] \in [stage : Stages, cell : Cells] /\ DOMAIN thread = Threads
    BY BusyType DEF TypeOK
  <1>2. thread' = [thread EXCEPT ![w] = [thread[w] EXCEPT !.stage = stage]] /\ finished' = finished
    BY DEF Go
  <1> QED
    BY <1>1, <1>2

LEMMA EndThreads ==
    ASSUME TypeOK, NEW w \in Threads, NEW how \in {"ok", "failed", "raised"}, End(w, how)
    PROVE  /\ thread'[w].stage = "idle" /\ \A x \in Threads \ {w} : thread'[x] = thread[x]
           /\ finished' = finished \cup {[row |-> Outcome(thread[w].cell, how), raised |-> how = "raised"]}
  BY DEF End, Idle, TypeOK

LEMMA OtherCells ==
    ASSUME LossInv, NEW w \in Threads, thread[w].stage # "idle",
           NEW x \in Threads \ {w}, thread[x].stage # "idle"
    PROVE  thread[x].cell # thread[w].cell
  BY BusyType DEF LossInv, PoolInv

(* A thread that is not in the way of another keeps what it knows. *)
LEMMA ThreadFrame ==
    ASSUME NEW x \in Threads, ThreadInv(x), thread'[x] = thread[x], args' = args,
           thread[x].stage # "idle" => predictions'[thread[x].cell] = predictions[thread[x].cell],
           thread[x].stage = "copied" => tmp'[args.seed] = tmp[args.seed]
    PROVE  ThreadInv(x)'
  BY DEF ThreadInv, CopyStages

LEMMA CopyThreads ==
    ASSUME LossInv, CopyInv, OneReference, NEW w \in Threads, Work(w)
    PROVE  /\ \A x \in Threads : ThreadInv(x)'
           /\ "mute" \notin Outcomes => \A f \in finished' : ~f.raised
  <1>1. /\ TypeOK /\ \A x \in Threads : ThreadInv(x)
        /\ "mute" \notin Outcomes => \A f \in finished : ~f.raised
    BY DEF LossInv, CopyInv
  <1>2. args' = args /\ args.seed \in Seeds /\ Missing \notin Seeds
    <2>1. args' = args
      BY WorkMoves, StartMoves, <1>1 DEF mainVars
    <2> QED
      BY <1>1, <2>1, LaunchType DEF TypeOK
  <1>3. DOMAIN predictions = Cells /\ DOMAIN tmp = Seeds
    BY <1>1 DEF TypeOK
  <1>4. thread[w].stage # "idle" => thread[w].cell \in Cells
    BY <1>1, BusyType
  <1>5. CASE Start(w)
    <2>1. /\ thread'[w].stage = "run" /\ \A x \in Threads \ {w} : thread'[x] = thread[x]
          /\ UNCHANGED <<predictions, tmp, finished>>
      BY <1>1, <1>5 DEF Start, TypeOK, files
    <2>2. ThreadInv(w)'
      BY <2>1 DEF ThreadInv, CopyStages
    <2>3. \A x \in Threads \ {w} : ThreadInv(x)'
      BY <1>1, <1>2, <2>1, ThreadFrame
    <2> QED
      BY <1>1, <2>1, <2>2, <2>3
  <1>6. CASE Save(w)
    <2>1. thread[w].stage = "run" /\ Go(w, "saving") /\ tmp' = tmp
          /\ predictions' = [predictions EXCEPT ![thread[w].cell] = Torn]
      BY <1>6 DEF Save, At
    <2>2. thread'[w].stage = "saving" /\ \A x \in Threads \ {w} : thread'[x] = thread[x]
      BY <1>1, <2>1, GoThreads DEF Stages
    <2>3. ThreadInv(w)'
      BY <2>2 DEF ThreadInv, CopyStages
    <2>4. \A x \in Threads \ {w} : ThreadInv(x)'
      BY <1>1, <1>2, <2>1, <2>2, ThreadFrame, OtherCells
    <2> QED
      BY <1>1, <2>1, <2>3, <2>4 DEF Go
  <1>7. CASE Saved(w)
    <2>1. thread[w].stage = "saving" /\ Go(w, "saved") /\ tmp' = tmp
          /\ predictions' = [predictions EXCEPT ![thread[w].cell] = args.seed]
      BY <1>7 DEF Saved, At
    <2>2. thread'[w].stage = "saved" /\ thread'[w].cell = thread[w].cell
          /\ \A x \in Threads \ {w} : thread'[x] = thread[x]
      BY <1>1, <2>1, GoThreads DEF Stages
    <2>3. ThreadInv(w)'
      BY <1>2, <1>3, <1>4, <2>1, <2>2 DEF ThreadInv, CopyStages
    <2>4. \A x \in Threads \ {w} : ThreadInv(x)'
      BY <1>1, <1>2, <2>1, <2>2, ThreadFrame, OtherCells
    <2> QED
      BY <1>1, <2>1, <2>3, <2>4 DEF Go
  <1>8. CASE Succeed(w) \/ Fail(w) \/ Mute(w)
    <2>1. UNCHANGED <<predictions, tmp>> /\ thread[w].stage # "idle"
      BY <1>8 DEF Succeed, Fail, Mute, At
    <2>2. CASE thread[w].stage = "saved" /\ thread[w].cell \in Canonical /\ Go(w, "snapshot")
      <3>1. /\ thread'[w].stage = "snapshot" /\ thread'[w].cell = thread[w].cell /\ finished' = finished
            /\ \A x \in Threads \ {w} : thread'[x] = thread[x]
        BY <1>1, <2>2, GoThreads DEF Stages
      <3>2. ThreadInv(w)'
        BY <1>1, <1>2, <2>1, <2>2, <3>1 DEF ThreadInv, CopyStages
      <3>3. \A x \in Threads \ {w} : ThreadInv(x)'
        BY <1>1, <1>2, <2>1, <3>1, ThreadFrame
      <3> QED
        BY <1>1, <3>1, <3>2, <3>3
    <2>3. CASE End(w, "ok") \/ End(w, "failed") \/ ("mute" \in Outcomes /\ End(w, "raised"))
      <3>1. PICK how \in {"ok", "failed", "raised"} :
                 End(w, how) /\ (how = "raised" => "mute" \in Outcomes)
        BY <2>3
      <3>2. /\ thread'[w].stage = "idle" /\ \A x \in Threads \ {w} : thread'[x] = thread[x]
            /\ finished' = finished \cup {[row |-> Outcome(thread[w].cell, how), raised |-> how = "raised"]}
        BY <1>1, <3>1, EndThreads
      <3>3. "mute" \notin Outcomes => \A f \in finished' : ~f.raised
        <4> DEFINE g == [row |-> Outcome(thread[w].cell, how), raised |-> how = "raised"]
        <4>1. finished' = finished \cup {g} /\ g.raised = (how = "raised")
          BY <3>2
        <4> HIDE DEF g
        <4> QED
          BY <1>1, <3>1, <4>1
      <3>4. ThreadInv(w)'
        BY <3>2 DEF ThreadInv, CopyStages
      <3>5. \A x \in Threads \ {w} : ThreadInv(x)'
        BY <1>1, <1>2, <2>1, <3>2, ThreadFrame
      <3> QED
        BY <3>3, <3>4, <3>5
    <2> QED
      BY <1>8, <2>2, <2>3 DEF Succeed, Fail, Mute, At
  <1>9. CASE OpenCopy(w)
    <2>1. thread[w].stage = "snapshot" /\ Go(w, "copying") /\ predictions' = predictions
      BY <1>9 DEF OpenCopy, At
    <2>2. thread'[w].stage = "copying" /\ thread'[w].cell = thread[w].cell
          /\ \A x \in Threads \ {w} : thread'[x] = thread[x]
      BY <1>1, <2>1, GoThreads DEF Stages
    <2>3. ThreadInv(w)'
      BY <1>1, <1>2, <2>1, <2>2 DEF ThreadInv, CopyStages
    <2>4. \A x \in Threads \ {w} : thread[x].stage # "copied"
      BY <2>1, SingleCopier DEF CopyStages
    <2>5. \A x \in Threads \ {w} : ThreadInv(x)'
      BY <1>1, <1>2, <2>1, <2>2, <2>4, ThreadFrame
    <2> QED
      BY <1>1, <2>1, <2>3, <2>5 DEF Go
  <1>10. CASE EndCopy(w)
    <2>1. thread[w].stage = "copying" /\ Go(w, "copied") /\ predictions' = predictions
          /\ tmp' = [tmp EXCEPT ![args.seed] = predictions[thread[w].cell]]
      BY <1>10 DEF EndCopy, At
    <2>2. thread'[w].stage = "copied" /\ thread'[w].cell = thread[w].cell
          /\ \A x \in Threads \ {w} : thread'[x] = thread[x]
      BY <1>1, <2>1, GoThreads DEF Stages
    <2>3. ThreadInv(w)'
      <3>1. predictions[thread[w].cell] = args.seed /\ thread[w].cell \in Canonical
        BY <1>1, <2>1 DEF ThreadInv, CopyStages
      <3> QED
        BY <1>2, <1>3, <2>1, <2>2, <3>1 DEF ThreadInv, CopyStages
    <2>4. \A x \in Threads \ {w} : thread[x].stage # "copied"
      BY <2>1, SingleCopier DEF CopyStages
    <2>5. \A x \in Threads \ {w} : ThreadInv(x)'
      BY <1>1, <1>2, <2>1, <2>2, <2>4, ThreadFrame
    <2> QED
      BY <1>1, <2>1, <2>3, <2>5 DEF Go
  <1>11. CASE Replace(w)
    <2>1. thread[w].stage = "copied" /\ tmp[args.seed] # Missing /\ predictions' = predictions
      BY <1>1, <1>2, <1>11 DEF Replace, At, ThreadInv
    <2>2. /\ thread' = [x \in Threads |-> IF x = w THEN Idle
                             ELSE IF thread[x].stage = "copying"
                             THEN [thread[x] EXCEPT !.stage = "overwriting"] ELSE thread[x]]
          /\ finished' = finished \cup {[row |-> Outcome(thread[w].cell, "ok"), raised |-> FALSE]}
      BY <1>11, <2>1 DEF Replace
    <2>3. \A x \in Threads \ {w} : thread[x].stage # "copied" /\ thread[x].stage # "copying"
      BY <2>1, SingleCopier DEF CopyStages
    <2>4. thread'[w].stage = "idle" /\ \A x \in Threads \ {w} : thread'[x] = thread[x]
      BY <2>2, <2>3 DEF Idle
    <2>5. ThreadInv(w)'
      BY <2>4 DEF ThreadInv, CopyStages
    <2>6. \A x \in Threads \ {w} : ThreadInv(x)'
      BY <1>1, <1>2, <2>1, <2>3, <2>4, ThreadFrame
    <2> QED
      BY <1>1, <2>2, <2>5, <2>6
  <1>12. ~EndOverwrite(w)
    BY <1>1 DEF EndOverwrite, At, ThreadInv
  <1> QED
    BY <1>5, <1>6, <1>7, <1>8, <1>9, <1>10, <1>11, <1>12 DEF Work

LEMMA PlannedPool ==
    ASSUME CopyInv, LossInv', pc' = "raised" => InPool' \subseteq InPool /\ args' = args
    PROVE  InPool' \subseteq Range(args'.plan)
  <1>1. CollectInv' /\ PoolInv'
    BY DEF LossInv
  <1>2. CASE Collecting'
    BY <1>1, <1>2 DEF CollectInv
  <1>3. CASE pc' = "raised"
    BY <1>3 DEF CopyInv
  <1>4. CASE ~Collecting' /\ pc' # "raised"
    <2>1. pending' = <<>> /\ ~PoolOpen'
      BY <1>1, <1>4 DEF CollectInv, Collecting, Writing, PoolOpen
    <2>2. Busy' = {} /\ finished' = {}
      BY <1>1, <2>1 DEF PoolInv
    <2> QED
      BY <2>1, <2>2 DEF InPool, Taken, Through, Range
  <1> QED
    BY <1>2, <1>3, <1>4

LEMMA CopyStep ==
    ASSUME OneReference, LossInv, LossInv', CopyInv, [Next]_orVars
    PROVE  CopyInv'
  <1>1. ASSUME thread' = thread, predictions' = predictions, finished' \subseteq finished,
               Busy = {} \/ (tmp' = tmp /\ args' = args),
               pc' = "raised" => pending' = pending /\ args' = args
        PROVE  CopyInv'
    <2>1. InPool' \subseteq Range(args'.plan)
      <3>1. pc' = "raised" => InPool' \subseteq InPool /\ args' = args
        BY <1>1 DEF InPool, Taken, Through, Busy
      <3> QED
        BY <3>1, PlannedPool
    <2>2. Sequential' => \A w, x \in Busy' : w = x
      BY <1>1 DEF CopyInv, Sequential, Busy
    <2>3. ASSUME NEW w \in Threads PROVE ThreadInv(w)'
      <3>1. CASE Busy = {}
        <4>1. thread'[w] = Idle
          BY <1>1, <3>1 DEF Busy
        <4> QED
          BY <4>1 DEF Idle, ThreadInv, CopyStages
      <3>2. CASE tmp' = tmp /\ args' = args
        BY <1>1, <3>2 DEF CopyInv, ThreadInv
      <3> QED
        BY <1>1, <3>1, <3>2
    <2> QED
      BY <1>1, <2>1, <2>2, <2>3 DEF CopyInv
  <1>2. ASSUME NEW a \in Launches, Launch(a) PROVE CopyInv'
    <2>1. Busy = {}
      BY <1>2, ClosedPool DEF LossInv, Launch, PoolOpen
    <2> QED
      BY <1>1, <1>2, <2>1 DEF Launch, files
  <1>3. ASSUME NEW c \in Cells, SkipExisting(c) \/ Defer(c) \/ Queue(c) PROVE CopyInv'
    <2>1. pc' # "raised"
      BY <1>3 DEF SkipExisting, Defer, Queue, Resolving, FlushThen
    <2> QED
      BY <1>1, <1>3, <2>1 DEF SkipExisting, Defer, Queue, Resolving, files
  <1>4. CASE OpenPool \/ Truncate \/ WriteRows \/ Gather \/ Resnapshot \/ Judge
    BY <1>1, <1>4 DEF OpenPool, Truncate, WriteRows, Gather, Resnapshot, Judge, files, poolVars
  <1>5. ASSUME NEW f \in finished, Harvest(f) PROVE CopyInv'
    BY <1>1, <1>5 DEF Harvest, files
  <1>6. CASE Die
    BY <1>1, <1>6 DEF Die, files
  <1>7. ASSUME NEW w \in Threads, Work(w) PROVE CopyInv'
    <2>1. args' = args /\ InPool' = InPool
      BY <1>7, WorkMoves, StartMoves, PoolStep DEF LossInv, mainVars
    <2>2. Sequential' => \A x, y \in Busy' : x = y
      <3>1. CASE Start(w)
        <4>1. Busy' = Busy \cup {w}
          BY <3>1, StartMoves DEF LossInv
        <4>2. Sequential => Cardinality(Busy) < 1
          BY <3>1 DEF Start, Sequential
        <4>3. IsFiniteSet(Busy)
          BY FS_Subset DEF Busy
        <4>4. Sequential => Busy = {}
          BY <4>2, <4>3, FS_CardinalityType, FS_EmptySet
        <4> QED
          BY <2>1, <4>1, <4>4 DEF Sequential
      <3>2. CASE ~Start(w)
        <4>1. Busy' \subseteq Busy
          BY <1>7, <3>2, WorkMoves DEF LossInv, Advances, Finishes
        <4> QED
          BY <2>1, <4>1 DEF CopyInv, Sequential
      <3> QED
        BY <3>1, <3>2
    <2>3. /\ \A x \in Threads : ThreadInv(x)'
          /\ "mute" \notin Outcomes => \A f \in finished' : ~f.raised
      BY <1>7, CopyThreads
    <2> QED
      BY <2>1, <2>2, <2>3 DEF CopyInv
  <1>8. CASE Kill
    <2>1. /\ thread' = [w \in Threads |-> Idle] /\ finished' = {} /\ pc' = "idle"
      BY <1>8 DEF Kill
    <2>2. \A w \in Threads : ThreadInv(w)'
      BY <2>1 DEF ThreadInv, CopyStages, Idle
    <2>3. Busy' = {}
      BY <2>1 DEF Busy
    <2> QED
      BY <2>1, <2>2, <2>3, PlannedPool DEF CopyInv
  <1>9. CASE UNCHANGED orVars
    BY <1>1, <1>9 DEF orVars, files, mainVars, poolVars
  <1> QED
    BY <1>2, <1>3, <1>4, <1>5, <1>6, <1>7, <1>8, <1>9 DEF Next, Main

LEMMA CopyInit == Init => CopyInv
  <1> SUFFICES ASSUME Init PROVE CopyInv
    OBVIOUS
  <1>1. Busy = {} /\ finished = {} /\ pending = <<>>
    BY DEF Init, Busy
  <1>2. InPool = {}
    BY <1>1 DEF InPool, Taken, Through, Range
  <1>3. \A w \in Threads : thread[w].stage = "idle"
    BY DEF Init, Idle
  <1> QED
    BY <1>1, <1>2, <1>3 DEF CopyInv, ThreadInv, CopyStages

(* When every successful process prints its record and no launch runs two   *)
(* cells of the reference at once, no snapshot fails, also after kills: the *)
(* shared temporary name is what a collision needs.                        *)
THEOREM OneReferenceNeverCollides == ASSUME OneCopier PROVE Spec => []WritesDontCollide
  <1>1. Init => LossInv /\ CopyInv
    BY LossInit, CopyInit
  <1>2. LossInv /\ CopyInv /\ [Next]_orVars => LossInv' /\ CopyInv'
    BY LossStep, CopyStep DEF OneCopier
  <1>3. CopyInv => WritesDontCollide
    BY DEF CopyInv, WritesDontCollide, OneCopier
  <1> QED
    BY <1>1, <1>2, <1>3, PTL DEF Spec

-----------------------------------------------------------------------------
(* Where nothing interrupts a launch, a row that succeeded and the           *)
(* prediction file of its cell are of one dataset, so the oracles are true   *)
(* and all verdicts compare like with like.  Each hypothesis is needed: a    *)
(* kill, or an exception in main, leaves newer predictions than rows.        *)

Uninterrupted == OneCopier /\ MaxKills = 0

Backed(r) == r.status = "ok" => predictions[r.cell] = r.seed
Judged(r) == r.gate # "unlike" /\ (r.status = "ok" => r.gate # "")

CsvTrue == /\ NoCell \notin CellsOf(csv)
           /\ pc = "idle" => \A i \in DOMAIN csv : Backed(csv[i]) /\ Judged(csv[i])
ExistingTrue ==
    /\ NoCell \notin CellsOf(existing)
    /\ \A i \in DOMAIN existing : Judged(existing[i])
    /\ Collecting => \A i \in DOMAIN existing :
          existing[i].cell \notin Range(args.plan) \/ existing[i].cell \in Range(todo) => Backed(existing[i])
RecordsTrue ==
    /\ \A i \in DOMAIN records : records[i].gate # "unlike"
    /\ Collecting \/ Gathered => \A i \in DOMAIN records : Backed(records[i])
    /\ (Collecting /\ ran = {}) \/ (Gathered /\ pc # "parity") => \A i \in DOMAIN records : Judged(records[i])
ParityTodo == pc = "parity" => \A c \in Range(todo) : \E i \in DOMAIN records :
                                  records[i].cell = c /\ records[i].status = "ok"
FinishedTrue == \A f \in finished : Backed(f.row) /\ f.row.gate = ""

TruthInv == /\ pc # "raised"
            /\ CsvTrue /\ ExistingTrue /\ RecordsTrue /\ ParityTodo /\ FinishedTrue
            /\ FrozenOracles

LEMMA EndRows ==
    ASSUME NEW w \in Threads, NEW how, End(w, how)
    PROVE  \A f \in finished' : \/ f \in finished
                                \/ /\ f.row.gate = "" /\ f.row.status = how
                                   /\ f.row.cell = thread[w].cell /\ f.row.seed = args.seed
  <1> DEFINE g == [row |-> Outcome(thread[w].cell, how), raised |-> how = "raised"]
  <1>1. finished' = finished \cup {g}
    BY DEF End
  <1>2. g.row.gate = "" /\ g.row.status = how /\ g.row.cell = thread[w].cell /\ g.row.seed = args.seed
    BY DEF Outcome
  <1> HIDE DEF g
  <1> QED
    BY <1>1, <1>2

LEMMA RowCells ==
    ASSUME NEW q \in Seq(Row), NoCell \notin CellsOf(q)
    PROVE  \A i \in DOMAIN q : q[i] \in Row /\ q[i].cell \in Cells
  <1>1. \A i \in DOMAIN q : q[i] \in Row
    BY LenProperties, ElementOfSeq
  <1> QED
    BY <1>1 DEF Row, CellsOf

(* What a thread's step writes. *)
LEMMA WorkWrites ==
    ASSUME LossInv, CopyInv, NEW w \in Threads, Work(w)
    PROVE  /\ \A c \in Cells \ Taken : predictions'[c] = predictions[c]
           /\ oracles' = oracles \/ oracles' = [oracles EXCEPT ![args.seed] = args.seed]
           /\ \A f \in finished' : \/ f \in finished
                                   \/ /\ f.row.gate = "" /\ f.row.seed = args.seed
                                      /\ f.row.status = "ok" => predictions'[f.row.cell] = f.row.seed
  <1>1. TypeOK /\ ThreadInv(w)
    BY DEF LossInv, CopyInv
  <1>2. thread[w].stage # "idle" => thread[w].cell \in Taken
    BY <1>1, BusyType DEF Taken
  <1>3. args.seed \in Seeds /\ Missing \notin Seeds
    BY <1>1, LaunchType DEF TypeOK
  <1>4. CASE Start(w)
    BY <1>4 DEF Start, files
  <1>5. CASE Save(w) \/ Saved(w)
    <2>1. /\ oracles' = oracles /\ finished' = finished /\ thread[w].stage # "idle"
          /\ \E v : predictions' = [predictions EXCEPT ![thread[w].cell] = v]
      BY <1>5 DEF Save, Saved, At, Go
    <2>2. DOMAIN predictions = Cells
      BY <1>1 DEF TypeOK
    <2>3. \A c \in Cells \ Taken : predictions'[c] = predictions[c]
      BY <1>2, <2>1, <2>2
    <2> QED
      BY <2>1, <2>3
  <1>6. CASE Succeed(w) \/ Fail(w) \/ Mute(w)
    <2>1. UNCHANGED <<predictions, oracles>>
      BY <1>6 DEF Succeed, Fail, Mute
    <2>2. CASE thread[w].stage = "saved" /\ End(w, "ok")
      <3>1. predictions[thread[w].cell] = args.seed
        BY <1>1, <2>2 DEF ThreadInv
      <3>2. \A f \in finished' : f \in finished \/ (f.row.gate = "" /\ f.row.cell = thread[w].cell /\ f.row.seed = args.seed)
        BY <2>2, EndRows
      <3> QED
        BY <2>1, <3>1, <3>2
    <2>3. CASE End(w, "failed") \/ End(w, "raised")
      <3>1. \A f \in finished' : \/ f \in finished
                                 \/ f.row.gate = "" /\ f.row.status # "ok" /\ f.row.seed = args.seed
        <4>1. CASE End(w, "failed")
          <5>1. \A f \in finished' : f \in finished \/ (f.row.gate = "" /\ f.row.status = "failed")
            BY <4>1, EndRows
          <5>2. \A f \in finished' : f \in finished \/ f.row.seed = args.seed
            BY <4>1, EndRows
          <5> QED
            BY <5>1, <5>2
        <4>2. CASE End(w, "raised")
          <5>1. \A f \in finished' : f \in finished \/ (f.row.gate = "" /\ f.row.status = "raised")
            BY <4>2, EndRows
          <5>2. \A f \in finished' : f \in finished \/ f.row.seed = args.seed
            BY <4>2, EndRows
          <5> QED
            BY <5>1, <5>2
        <4> QED
          BY <2>3, <4>1, <4>2
      <3> QED
        BY <2>1, <3>1
    <2>4. CASE Go(w, "snapshot")
      BY <2>1, <2>4 DEF Go
    <2> QED
      BY <1>6, <2>2, <2>3, <2>4 DEF Succeed, Fail, Mute, At
  <1>7. CASE OpenCopy(w) \/ EndCopy(w)
    BY <1>7 DEF OpenCopy, EndCopy, Go
  <1>8. CASE Replace(w)
    <2>1. thread[w].stage = "copied" /\ tmp[args.seed] = args.seed /\ predictions[thread[w].cell] = args.seed
      BY <1>1, <1>8 DEF Replace, At, ThreadInv, CopyStages
    <2>2. /\ predictions' = predictions
          /\ oracles' = [oracles EXCEPT ![args.seed] = args.seed]
          /\ finished' = finished \cup {[row |-> Outcome(thread[w].cell, "ok"), raised |-> FALSE]}
      BY <1>3, <1>8, <2>1 DEF Replace
    <2>3. \A f \in finished' : \/ f \in finished
                               \/ /\ f.row.gate = "" /\ f.row.cell = thread[w].cell
                                  /\ f.row.seed = args.seed
      <3> DEFINE g == [row |-> Outcome(thread[w].cell, "ok"), raised |-> FALSE]
      <3>1. g.row.gate = "" /\ g.row.cell = thread[w].cell /\ g.row.seed = args.seed
        BY DEF Outcome
      <3> HIDE DEF g
      <3> QED
        BY <2>2, <3>1 DEF g
    <2> QED
      BY <2>1, <2>2, <2>3
  <1>9. ~EndOverwrite(w)
    BY <1>1 DEF EndOverwrite, At, ThreadInv
  <1> QED
    BY <1>4, <1>5, <1>6, <1>7, <1>8, <1>9 DEF Work

LEMMA WorkTruth ==
    ASSUME LossInv, CopyInv, TruthInv, OneCopier, NEW w \in Threads, Work(w)
    PROVE  TruthInv'
  <1>1. UNCHANGED <<csv, pc, after, args, existing, todo, records, ran>>
    BY WorkMoves, StartMoves DEF LossInv, mainVars
  <1>2. /\ \A c \in Cells \ Taken : predictions'[c] = predictions[c]
        /\ oracles' = oracles \/ oracles' = [oracles EXCEPT ![args.seed] = args.seed]
        /\ \A f \in finished' : \/ f \in finished
                                \/ /\ f.row.gate = ""
                                   /\ f.row.status = "ok" => predictions'[f.row.cell] = f.row.seed
    BY WorkWrites
  <1>3. Taken = {} \/ (Collecting /\ ~Gathered /\ pc # "idle")
    <2>1. PoolOpen => Collecting /\ ~Gathered /\ pc # "idle"
      BY DEF PoolOpen, TruthInv, Collecting, Gathered, Writing
    <2> QED
      BY <2>1, ClosedPool DEF LossInv
  <1>4. CsvTrue'
    <2>1. CsvTrue
      BY DEF TruthInv
    <2>2. CellsOf(csv') = CellsOf(csv)
      BY <1>1 DEF CellsOf
    <2>3. \A i \in DOMAIN csv : csv[i].cell \in Cells
      BY <2>1, RowCells DEF CsvTrue, LossInv, TypeOK
    <2> QED
      BY <1>1, <1>2, <1>3, <2>1, <2>2, <2>3 DEF CsvTrue, Backed, Judged
  <1>5. ExistingTrue'
    <2>1. ExistingTrue
      BY DEF TruthInv
    <2>2. Collecting' <=> Collecting
      BY <1>1 DEF Collecting, Writing
    <2>3. ASSUME Collecting, NEW i \in DOMAIN existing,
                 existing[i].cell \notin Range(args.plan) \/ existing[i].cell \in Range(todo)
          PROVE  existing[i].cell \notin Taken
      <3>1. Taken \subseteq Range(args.plan) /\ Range(todo) \cap InPool = {}
        BY <2>3 DEF CopyInv, LossInv, CollectInv, InPool
      <3> QED
        BY <2>3, <3>1 DEF InPool
    <2>4. CellsOf(existing') = CellsOf(existing)
      BY <1>1 DEF CellsOf
    <2>5. \A i \in DOMAIN existing : existing[i].cell \in Cells
      BY <2>1, RowCells DEF ExistingTrue, LossInv, TypeOK
    <2> QED
      BY <1>1, <1>2, <2>1, <2>2, <2>3, <2>4, <2>5 DEF ExistingTrue, Backed, Judged
  <1>6. RecordsTrue'
    <2>1. RecordsTrue
      BY DEF TruthInv
    <2>2. (Collecting' <=> Collecting) /\ (Gathered' <=> Gathered)
      BY <1>1 DEF Collecting, Gathered, Writing
    <2>3. ASSUME Collecting \/ Gathered, NEW i \in DOMAIN records
          PROVE  records[i].cell \notin Taken
      <3>1. Collecting => CellsOf(records) \cap InPool = {}
        BY DEF LossInv, CollectInv
      <3> QED
        BY <1>3, <2>3, <3>1 DEF InPool, CellsOf
    <2>4. \A i \in DOMAIN records : records[i].cell \in Cells
      BY RowCells DEF LossInv, TypeOK, RowsInv
    <2> QED
      BY <1>1, <1>2, <2>1, <2>2, <2>3, <2>4 DEF RecordsTrue, Backed, Judged
  <1>7. ParityTodo'
    BY <1>1 DEF TruthInv, ParityTodo
  <1>8. FinishedTrue'
    <2>1. FinishedTrue
      BY DEF TruthInv
    <2>2. \A f \in finished : f.row.cell \in Cells \ Taken
      <3>1. \A f \in finished : f.row.cell \in Cells
        BY DEF LossInv, TypeOK, Future
      <3> QED
        BY <3>1 DEF LossInv, PoolInv, Through
    <2> QED
      BY <1>2, <2>1, <2>2 DEF FinishedTrue, Backed
  <1>9. FrozenOracles'
    <2>1. DOMAIN oracles = Seeds /\ FrozenOracles
      BY DEF TruthInv, LossInv, TypeOK
    <2>2. oracles' = oracles \/ oracles' = [oracles EXCEPT ![args.seed] = args.seed]
      BY <1>2
    <2>3. ASSUME NEW s \in Seeds PROVE oracles'[s] \in {Missing, s}
      BY <2>1, <2>2, <2>3 DEF FrozenOracles
    <2> QED
      BY <2>3 DEF FrozenOracles
  <1> QED
    BY <1>1, <1>4, <1>5, <1>6, <1>7, <1>8, <1>9 DEF TruthInv

LEMMA LaunchTruth ==
    ASSUME LossInv, TruthInv, NEW a \in Launches, Launch(a)
    PROVE  TruthInv'
  <1>1. /\ pc = "idle" /\ pc' = "resolve" /\ args' = a
        /\ records' = <<>> /\ existing' = IF a.resume THEN csv ELSE <<>>
        /\ UNCHANGED <<csv, predictions, oracles, finished>>
    BY DEF Launch, files
  <1>2. \A i \in DOMAIN csv : Backed(csv[i]) /\ Judged(csv[i])
    BY <1>1 DEF TruthInv, CsvTrue
  <1>3. CsvTrue'
    BY <1>1 DEF TruthInv, CsvTrue, CellsOf
  <1>4. ExistingTrue'
    <2>1. NoCell \notin CellsOf(existing')
      BY <1>1 DEF TruthInv, CsvTrue, CellsOf
    <2>2. ASSUME NEW i \in DOMAIN existing'
          PROVE  /\ Judged(existing'[i])
                 /\ existing'[i].status = "ok" => predictions'[existing'[i].cell] = existing'[i].seed
      BY <1>1, <1>2, <2>2 DEF Backed
    <2> QED
      BY <2>1, <2>2 DEF ExistingTrue, Backed, Judged
  <1>5. RecordsTrue'
    BY <1>1 DEF RecordsTrue
  <1>6. ParityTodo' /\ FrozenOracles'
    BY <1>1 DEF TruthInv, ParityTodo, FrozenOracles
  <1>7. FinishedTrue'
    BY <1>1 DEF TruthInv, FinishedTrue, Backed
  <1> QED
    BY <1>1, <1>3, <1>4, <1>5, <1>6, <1>7 DEF TruthInv

(* A row recorded while the launch collects. *)
LEMMA RecordTruth ==
    ASSUME LossInv, RecordsTrue, Collecting, Collecting', ~Gathered',
           NEW r \in Row, records' = Append(records, r), predictions' = predictions,
           Backed(r), r.gate # "unlike",
           ran' # {} \/ (ran' = ran /\ Judged(r))
    PROVE  RecordsTrue'
  <1>1. \A i \in DOMAIN records' : records'[i] = r \/ \E j \in DOMAIN records : records'[i] = records[j]
    BY AppendRow DEF LossInv, TypeOK
  <1>2. \A i \in DOMAIN records : Backed(records[i]) /\ records[i].gate # "unlike"
    BY DEF RecordsTrue
  <1>3. \A i \in DOMAIN records' : records'[i].gate # "unlike"
    BY <1>1, <1>2
  <1>4. \A i \in DOMAIN records' :
           records'[i].status = "ok" => predictions'[records'[i].cell] = records'[i].seed
    BY <1>1, <1>2 DEF Backed
  <1>5. ran' = {} => \A i \in DOMAIN records' : Judged(records'[i])
    BY <1>1 DEF RecordsTrue
  <1> QED
    BY <1>3, <1>4, <1>5 DEF RecordsTrue, Backed, Judged

LEMMA ResolveTruth ==
    ASSUME LossInv, TruthInv, NEW c \in Cells, SkipExisting(c) \/ Defer(c) \/ Queue(c)
    PROVE  TruthInv'
  <1>1. /\ pc = "resolve" /\ todo # <<>> /\ c = Head(todo) /\ todo' = Tail(todo)
        /\ UNCHANGED <<csv, predictions, oracles, args, existing, ran, finished>>
    BY DEF SkipExisting, Defer, Queue, Resolving, files
  <1>2. Collecting /\ Collecting' /\ ~Gathered' /\ pc' \notin {"idle", "raised", "parity"}
    BY <1>1 DEF SkipExisting, Defer, Queue, FlushThen, Collecting, Gathered, Writing
  <1>3. Range(todo) = {c} \cup Range(todo')
    BY <1>1, <1>2, HeadCells DEF LossInv, TypeOK, CollectInv
  <1>4. CsvTrue' /\ ParityTodo' /\ FrozenOracles'
    BY <1>1, <1>2 DEF TruthInv, CsvTrue, ParityTodo, FrozenOracles, CellsOf
  <1>5. ExistingTrue'
    <2>1. ExistingTrue
      BY DEF TruthInv
    <2>2. CellsOf(existing') = CellsOf(existing)
      BY <1>1 DEF CellsOf
    <2> QED
      BY <1>1, <1>2, <1>3, <2>1, <2>2 DEF ExistingTrue, Backed, Judged
  <1>6. RecordsTrue'
    <2>1. RecordsTrue /\ ExistingTrue
      BY DEF TruthInv
    <2>2. CASE SkipExisting(c)
      <3> DEFINE r == RowOf(existing, c)
      <3>1. c \in CellsOf(existing) /\ records' = Append(records, r)
        BY <2>2 DEF SkipExisting, Kept
      <3>2. PICK i \in DOMAIN existing : r = existing[i] /\ existing[i].cell = c
        BY <3>1, RowOfCell DEF LossInv, TypeOK
      <3>3. r \in Row
        BY <3>1, ExistingRow DEF LossInv
      <3> HIDE DEF r
      <3>4. Backed(r) /\ Judged(r)
        BY <1>2, <1>3, <2>1, <3>2 DEF ExistingTrue
      <3>5. r.gate # "unlike"
        BY <3>4 DEF Judged
      <3> QED
        BY <1>1, <1>2, <2>1, <3>1, <3>3, <3>4, <3>5, RecordTruth
    <2>3. CASE Defer(c)
      <3> DEFINE r == Outcome(c, "deferred")
      <3>1. r \in Row /\ r.status = "deferred" /\ r.gate = ""
        <4>1. r \in Row
          BY OutcomeType DEF LossInv
        <4> QED
          BY <4>1 DEF Outcome
      <3>2. records' = Append(records, r)
        BY <2>3 DEF Defer
      <3> HIDE DEF r
      <3>3. Backed(r) /\ Judged(r)
        BY <3>1 DEF Backed, Judged
      <3> QED
        BY <1>1, <1>2, <2>1, <3>1, <3>2, <3>3, RecordTruth
    <2>4. CASE Queue(c)
      BY <1>1, <1>2, <2>1, <2>4 DEF Queue, RecordsTrue, Backed, Judged
    <2> QED
      BY <2>2, <2>3, <2>4
  <1>7. FinishedTrue'
    BY <1>1 DEF TruthInv, FinishedTrue, Backed
  <1> QED
    BY <1>2, <1>4, <1>5, <1>6, <1>7 DEF TruthInv

LEMMA WriteTruth ==
    ASSUME LossInv, TruthInv, OpenPool \/ Truncate \/ WriteRows
    PROVE  TruthInv'
  <1>1. UNCHANGED <<predictions, oracles, args, existing, todo, records, ran, after, finished>>
    BY DEF OpenPool, Truncate, WriteRows, files, poolVars
  <1>2. /\ Collecting' <=> Collecting
        /\ Gathered' => Gathered /\ pc # "parity"
        /\ pc' \notin {"raised", "parity"}
        /\ pc' = "idle" => WriteRows /\ Gathered /\ pc # "parity"
    BY DEF OpenPool, Truncate, WriteRows, Collecting, Gathered, Writing, LossInv, TypeOK
  <1>3. CsvTrue'
    <2>1. csv' = csv \/ csv' = <<>> \/ csv' = records
      BY DEF OpenPool, Truncate, WriteRows, files
    <2>2. NoCell \notin CellsOf(csv')
      BY <2>1 DEF TruthInv, CsvTrue, CellsOf, LossInv, RowsInv
    <2>3. ASSUME pc' = "idle" PROVE \A i \in DOMAIN csv' : Backed(csv'[i]) /\ Judged(csv'[i])
      <3>1. csv' = records
        BY <1>2, <2>3 DEF WriteRows
      <3> QED
        BY <1>2, <2>3, <3>1 DEF TruthInv, RecordsTrue
    <2> QED
      BY <1>1, <2>2, <2>3 DEF CsvTrue, Backed, Judged
  <1>4. ExistingTrue'
    BY <1>1, <1>2 DEF TruthInv, ExistingTrue, CellsOf, Backed, Judged
  <1>5. RecordsTrue'
    BY <1>1, <1>2 DEF TruthInv, RecordsTrue, Backed, Judged
  <1>6. ParityTodo' /\ FinishedTrue' /\ FrozenOracles'
    BY <1>1, <1>2 DEF TruthInv, ParityTodo, FinishedTrue, FrozenOracles, Backed
  <1> QED
    BY <1>2, <1>3, <1>4, <1>5, <1>6 DEF TruthInv

LEMMA HarvestTruth ==
    ASSUME LossInv, CopyInv, TruthInv, OneCopier, NEW f \in finished, Harvest(f)
    PROVE  TruthInv'
  <1>1. ~f.raised
    BY DEF CopyInv, OneCopier
  <1>2. /\ pc = "pool" /\ finished' = finished \ {f}
        /\ records' = Append(records, f.row) /\ ran' = ran \cup {f.row.cell}
        /\ UNCHANGED <<csv, predictions, oracles, args, existing, todo>>
    BY <1>1 DEF Harvest, files
  <1>3. Collecting /\ Collecting' /\ ~Gathered' /\ pc' \notin {"idle", "raised", "parity"}
    BY <1>1 DEF Harvest, FlushThen, Collecting, Gathered, Writing
  <1>4. CsvTrue' /\ ParityTodo' /\ FrozenOracles'
    BY <1>2, <1>3 DEF TruthInv, CsvTrue, ParityTodo, FrozenOracles, CellsOf
  <1>5. FinishedTrue'
    BY <1>2 DEF TruthInv, FinishedTrue, Backed
  <1>6. ExistingTrue'
    BY <1>2, <1>3 DEF TruthInv, ExistingTrue, CellsOf, Backed, Judged
  <1>7. RecordsTrue'
    <2>1. f.row \in Row
      <3>1. f \in Future({"ok", "failed"}, FALSE)
        BY <1>1 DEF LossInv, TypeOK, Future
      <3> QED
        BY <3>1 DEF Future, Row, Gates
    <2>2. Backed(f.row) /\ f.row.gate # "unlike"
      BY DEF TruthInv, FinishedTrue
    <2>3. RecordsTrue /\ ran' # {}
      BY <1>2 DEF TruthInv
    <2> QED
      BY <1>2, <1>3, <2>1, <2>2, <2>3, RecordTruth
  <1> QED
    BY <1>3, <1>4, <1>5, <1>6, <1>7 DEF TruthInv

(* The canonical rows the parity pass looks at are rows of the launch.      *)
LEMMA GatherTodo ==
    ASSUME LossInv, Gather
    PROVE  ParityTodo'
  <1> SUFFICES ASSUME pc' = "parity", NEW c \in Range(todo')
               PROVE  \E i \in DOMAIN records' : records'[i].cell = c /\ records'[i].status = "ok"
    BY DEF ParityTodo
  <1> DEFINE q == CanonicalRows(records')
  <1>1. /\ records' = Preserved \o records
        /\ todo' = [i \in DOMAIN q |-> q[i].cell]
    BY DEF Gather
  <1>2. records' \in Seq(Row)
    BY <1>1, PreservedRows, ConcatProperties DEF LossInv, TypeOK
  <1>3. \A i \in DOMAIN q : \E j \in DOMAIN records' : q[i] = records'[j] /\ records'[j].status = "ok"
    BY <1>2, CanonicalType
  <1> HIDE DEF q
  <1>4. PICK i \in DOMAIN q : c = q[i].cell
    BY <1>1 DEF Range
  <1> QED
    BY <1>3, <1>4

LEMMA GatherTruth ==
    ASSUME LossInv, TruthInv, Gather
    PROVE  TruthInv'
  <1>1. /\ pc = "pool" /\ finished = {}
        /\ UNCHANGED <<csv, predictions, oracles, args, existing, ran, finished>>
    BY DEF Gather, files, poolVars
  <1>2. NoCell \notin CellsOf(existing)
    BY DEF TruthInv, ExistingTrue
  <1>3. records' = Preserved \o records
    BY <1>2 DEF Gather
  <1>4. \/ pc' = "rewrite" /\ after' = "idle" /\ ran = {}
        \/ /\ pc' = "parity"
           /\ todo' = [i \in DOMAIN CanonicalRows(records') |-> CanonicalRows(records')[i].cell]
    BY <1>2 DEF Gather, ParityDue
  <1>5. Gathered' /\ ~Collecting' /\ Collecting
    BY <1>1, <1>4 DEF Collecting, Gathered, Writing
  <1>6. CsvTrue'
    BY <1>1, <1>4 DEF TruthInv, CsvTrue, CellsOf
  <1>7. ExistingTrue'
    BY <1>1, <1>5 DEF TruthInv, ExistingTrue, CellsOf, Judged
  <1>8. FinishedTrue' /\ FrozenOracles'
    BY <1>1 DEF TruthInv, FinishedTrue, FrozenOracles
  <1>9. records \in Seq(Row) /\ Preserved \in Seq(Row)
    BY PreservedRows DEF LossInv, TypeOK
  <1>10. RecordsTrue'
    <2>1. RecordsTrue /\ ExistingTrue
      BY DEF TruthInv
    <2>2. \A j \in DOMAIN Preserved : Backed(Preserved[j]) /\ Judged(Preserved[j])
      <3>1. \A j \in DOMAIN Preserved : \E i \in DOMAIN existing :
                 Preserved[j] = existing[i] /\ existing[i].cell \notin Range(args.plan)
        BY PreservedRows DEF LossInv
      <3> QED
        BY <1>5, <2>1, <3>1 DEF ExistingTrue
    <2>3. \A j \in DOMAIN records : /\ Backed(records[j]) /\ records[j].gate # "unlike"
                                    /\ ran = {} => Judged(records[j])
      BY <1>5, <2>1 DEF RecordsTrue
    <2>4. \A k \in DOMAIN records' : \/ \E i \in DOMAIN Preserved : records'[k] = Preserved[i]
                                     \/ \E i \in DOMAIN records : records'[k] = records[i]
      <3>1. \A k \in DOMAIN (Preserved \o records) :
               \/ \E i \in DOMAIN Preserved : (Preserved \o records)[k] = Preserved[i]
               \/ \E i \in DOMAIN records : (Preserved \o records)[k] = records[i]
        BY <1>9, ConcatRows
      <3> QED
        BY <1>3, <3>1
    <2>5. \A k \in DOMAIN records' : /\ Backed(records'[k]) /\ records'[k].gate # "unlike"
                                     /\ ran = {} => Judged(records'[k])
      BY <2>2, <2>3, <2>4 DEF Judged
    <2>6. (pc' = "rewrite" => ran = {}) /\ pc' \in {"rewrite", "parity"}
      BY <1>4
    <2> QED
      BY <1>1, <1>5, <2>5, <2>6 DEF RecordsTrue, Backed, Judged
  <1>11. ParityTodo'
    BY GatherTodo
  <1> QED
    BY <1>4, <1>6, <1>7, <1>8, <1>10, <1>11 DEF TruthInv

(* The row the parity pass copies a canonical vector for is the one there   *)
(* is for its cell.                                                        *)
LEMMA ResnapshotVector ==
    ASSUME LossInv, ParityTodo, Resnapshot, \A i \in DOMAIN records : Backed(records[i])
    PROVE  /\ Range(todo') \subseteq Range(todo)
           /\ \E s : oracles' = [oracles EXCEPT ![s] = s]
  <1> DEFINE c == Head(todo)
             s == RowOf(records, c).seed
  <1>1. /\ pc = "parity" /\ todo # <<>> /\ todo' = Tail(todo)
        /\ oracles' = [oracles EXCEPT ![s] = predictions[c]]
    BY DEF Resnapshot
  <1>2. c \in Range(todo) /\ Range(todo') \subseteq Range(todo)
    <2>1. todo \in Seq(Cells)
      BY DEF LossInv, TypeOK
    <2>2. Len(todo) \in Nat /\ DOMAIN todo = 1 .. Len(todo) /\ Len(todo) # 0
      BY <1>1, <2>1, LenProperties, EmptySeq
    <2>3. /\ DOMAIN Tail(todo) = 1 .. Len(todo) - 1
          /\ \A i \in 1 .. Len(todo) - 1 : Tail(todo)[i] = todo[i + 1]
      BY <1>1, <2>1, HeadTailProperties, LenProperties
    <2>4. c = todo[1] /\ 1 \in DOMAIN todo
      BY <2>2
    <2>5. \A i \in 1 .. Len(todo) - 1 : i + 1 \in 1 .. Len(todo)
      BY <2>2
    <2> QED
      BY <1>1, <2>2, <2>3, <2>4, <2>5 DEF Range
  <1>3. predictions[c] = s
    <2>1. PICK i \in DOMAIN records : records[i].cell = c /\ records[i].status = "ok"
      BY <1>1, <1>2 DEF ParityTodo
    <2>2. PICK j \in DOMAIN records : RowOf(records, c) = records[j] /\ records[j].cell = c
      <3>1. c \in CellsOf(records)
        BY <2>1 DEF CellsOf
      <3> QED
        BY <3>1, RowOfCell DEF LossInv, TypeOK
    <2>3. i = j
      BY <2>1, <2>2 DEF LossInv, RowsInv, UniqueCells
    <2> QED
      BY <2>1, <2>2, <2>3 DEF Backed
  <1> HIDE DEF c, s
  <1> QED
    BY <1>1, <1>2, <1>3

LEMMA ResnapshotTruth ==
    ASSUME LossInv, TruthInv, Resnapshot
    PROVE  TruthInv'
  <1>1. /\ pc = "parity"
        /\ UNCHANGED <<csv, predictions, pc, after, args, existing, records, ran, finished>>
    BY DEF Resnapshot, poolVars
  <1>2. ParityTodo /\ \A i \in DOMAIN records : Backed(records[i])
    BY <1>1 DEF TruthInv, RecordsTrue, Gathered
  <1>3. Range(todo') \subseteq Range(todo) /\ \E s : oracles' = [oracles EXCEPT ![s] = s]
    BY <1>2, ResnapshotVector
  <1>4. FrozenOracles'
    <2>1. DOMAIN oracles = Seeds /\ FrozenOracles
      BY DEF TruthInv, LossInv, TypeOK
    <2> QED
      BY <1>1, <1>3, <2>1 DEF FrozenOracles
  <1>5. CsvTrue'
    BY <1>1 DEF TruthInv, CsvTrue, CellsOf, Backed, Judged
  <1>6. ExistingTrue'
    BY <1>1 DEF TruthInv, ExistingTrue, CellsOf, Backed, Judged, Collecting, Writing
  <1>7. RecordsTrue'
    BY <1>1 DEF TruthInv, RecordsTrue, Backed, Judged, Collecting, Gathered, Writing
  <1>8. ParityTodo'
    BY <1>1, <1>3 DEF TruthInv, ParityTodo
  <1>9. FinishedTrue'
    BY <1>1 DEF TruthInv, FinishedTrue, Backed
  <1> QED
    BY <1>1, <1>4, <1>5, <1>6, <1>7, <1>8, <1>9 DEF TruthInv

LEMMA FirstOf ==
    ASSUME NEW S \in SUBSET Nat, S # {}
    PROVE  First(S) \in S
  <1>1. \E m \in S : \A x \in S : m <= x
    BY LeastElement
  <1> QED
    BY <1>1 DEF First

(* Reference and baseline of a library row are vectors of its own dataset.  *)
LEMMA VerdictTrue ==
    ASSUME LossInv, FrozenOracles, NEW i \in DOMAIN records,
           \A j \in DOMAIN records : Backed(records[j]) /\ records[j].gate # "unlike"
    PROVE  /\ Verdict(records[i]) # "unlike"
           /\ records[i].status = "ok" => Verdict(records[i]) # ""
  <1> DEFINE r == records[i]
  <1>1. \A j \in DOMAIN records : Backed(records[j]) /\ records[j].gate # "unlike"
    OBVIOUS
  <1>2. CASE r.status # "ok"
    BY <1>1, <1>2 DEF Verdict
  <1>3. CASE r.status = "ok" /\ r.cell \in Canonical
    BY <1>3 DEF Verdict
  <1>4. CASE r.status = "ok" /\ r.cell \notin Canonical
    <2>1. Group(r) \subseteq Nat /\ i \in Group(r)
      <3>1. DOMAIN records = 1 .. Len(records) /\ Len(records) \in Nat
        BY LenProperties DEF LossInv, TypeOK
      <3>2. Group(r) \subseteq DOMAIN records
        BY DEF Group
      <3> QED
        BY <1>4, <3>1, <3>2 DEF Group
    <2>2. ASSUME NEW S \in SUBSET Group(r), S # {}
          PROVE  predictions[records[First(S)].cell] = r.seed
      <3>1. First(S) \in Group(r)
        BY <2>1, <2>2, FirstOf
      <3> QED
        BY <1>1, <3>1 DEF Group, Backed
    <2>3. Baseline(r) = r.seed
      <3> DEFINE S == {j \in Group(r) : records[j].cell \notin Canonical}
      <3>1. S \in SUBSET Group(r) /\ S # {}
        BY <1>4, <2>1
      <3>2. Baseline(r) = predictions[records[First(S)].cell]
        BY DEF Baseline
      <3> HIDE DEF S
      <3> QED
        BY <2>2, <3>1, <3>2
    <2>4. r.seed \in Seeds
      <3>1. r \in Row /\ r.cell \in Cells
        BY RowCells DEF LossInv, TypeOK, RowsInv
      <3>2. predictions[r.cell] = r.seed /\ predictions[r.cell] \in Vector
        BY <1>1, <1>4, <3>1 DEF Backed, LossInv, TypeOK
      <3> QED
        BY <3>1, <3>2 DEF Row, Vector, NoCell, Missing, Torn
    <2>5. Reference(r) \in {r.seed, Missing}
      <3> DEFINE S == {j \in Group(r) : records[j].cell \in Canonical}
      <3>1. Reference(r) = IF S # {} THEN predictions[records[First(S)].cell] ELSE oracles[r.seed]
        BY DEF Reference
      <3>2. S \in SUBSET Group(r)
        OBVIOUS
      <3> HIDE DEF S
      <3>3. oracles[r.seed] \in {r.seed, Missing}
        BY <2>4 DEF FrozenOracles
      <3> QED
        BY <2>2, <3>1, <3>2, <3>3
    <2>6. predictions[r.cell] = r.seed
      BY <1>1, <1>4 DEF Backed
    <2>7. \/ {Reference(r), Baseline(r)} = {predictions[r.cell]}
          \/ Missing \in {Reference(r), Baseline(r)}
      BY <2>3, <2>5, <2>6
    <2> QED
      BY <1>4, <2>7 DEF Verdict
  <1> QED
    BY <1>2, <1>3, <1>4

LEMMA JudgeTruth ==
    ASSUME LossInv, TruthInv, Judge
    PROVE  TruthInv'
  <1>1. /\ pc = "parity" /\ pc' = "rewrite" /\ after' = "idle"
        /\ UNCHANGED <<csv, predictions, oracles, args, existing, todo, finished>>
    BY DEF Judge, files, poolVars
  <1>2. Gathered' /\ ~Collecting'
    BY <1>1 DEF Collecting, Gathered, Writing
  <1>3. RecordsTrue'
    <2>1. \A i \in DOMAIN records : records[i] \in Row
      BY LenProperties, ElementOfSeq DEF LossInv, TypeOK
    <2>2. /\ DOMAIN records' = DOMAIN records
          /\ \A i \in DOMAIN records : records'[i] = [records[i] EXCEPT !.gate = Verdict(records[i])]
      BY DEF Judge
    <2>3. \A i \in DOMAIN records' : /\ SameRow(records'[i], records[i])
                                     /\ records'[i].gate = Verdict(records[i])
      BY <2>1, <2>2 DEF SameRow, Row
    <2>4. \A i \in DOMAIN records : Backed(records[i])
      BY <1>1 DEF TruthInv, RecordsTrue, Gathered
    <2>5. \A i \in DOMAIN records' : Judged(records'[i])
      <3>1. \A i \in DOMAIN records : /\ Verdict(records[i]) # "unlike"
                                      /\ records[i].status = "ok" => Verdict(records[i]) # ""
        <4>1. FrozenOracles /\ \A j \in DOMAIN records : Backed(records[j]) /\ records[j].gate # "unlike"
          BY <1>1 DEF TruthInv, RecordsTrue, Gathered
        <4> QED
          BY <4>1, VerdictTrue
      <3> TAKE i \in DOMAIN records'
      <3>2. i \in DOMAIN records
        BY <2>2
      <3>3. records'[i].gate = Verdict(records[i]) /\ records'[i].status = records[i].status
        BY <2>3 DEF SameRow
      <3> QED
        BY <3>1, <3>2, <3>3 DEF Judged
    <2> QED
      BY <1>1, <1>2, <2>2, <2>3, <2>4, <2>5 DEF RecordsTrue, Backed, Judged, SameRow
  <1>4. CsvTrue' /\ ParityTodo' /\ FrozenOracles'
    BY <1>1 DEF TruthInv, CsvTrue, ParityTodo, FrozenOracles, CellsOf
  <1>5. ExistingTrue'
    BY <1>1, <1>2 DEF TruthInv, ExistingTrue, CellsOf, Judged
  <1>6. FinishedTrue'
    BY <1>1 DEF TruthInv, FinishedTrue, Backed
  <1> QED
    BY <1>1, <1>3, <1>4, <1>5, <1>6 DEF TruthInv

LEMMA TruthStep ==
    ASSUME Uninterrupted, LossInv, CopyInv, TruthInv, [Next]_orVars
    PROVE  TruthInv'
  <1>1. ASSUME NEW a \in Launches, Launch(a) PROVE TruthInv'
    BY <1>1, LaunchTruth
  <1>2. ASSUME NEW c \in Cells, SkipExisting(c) \/ Defer(c) \/ Queue(c) PROVE TruthInv'
    BY <1>2, ResolveTruth
  <1>3. CASE OpenPool \/ Truncate \/ WriteRows
    BY <1>3, WriteTruth
  <1>4. ASSUME NEW f \in finished, Harvest(f) PROVE TruthInv'
    BY <1>4, HarvestTruth DEF Uninterrupted
  <1>5. ~Die
    BY DEF Die, TruthInv
  <1>6. CASE Gather
    BY <1>6, GatherTruth
  <1>7. CASE Resnapshot
    BY <1>7, ResnapshotTruth
  <1>8. CASE Judge
    BY <1>8, JudgeTruth
  <1>9. ASSUME NEW w \in Threads, Work(w) PROVE TruthInv'
    BY <1>9, WorkTruth DEF Uninterrupted
  <1>10. ~Kill
    BY DEF Kill, Uninterrupted, LossInv, TypeOK
  <1>11. CASE UNCHANGED orVars
    <2>1. UNCHANGED <<csv, predictions, oracles, pc, after, args, existing, todo, records, ran, finished>>
      BY <1>11 DEF orVars, files, mainVars, poolVars
    <2>2. CsvTrue'
      BY <2>1 DEF TruthInv, CsvTrue, CellsOf, Backed, Judged
    <2>3. ExistingTrue'
      BY <2>1 DEF TruthInv, ExistingTrue, CellsOf, Backed, Judged, Collecting, Writing
    <2>4. RecordsTrue'
      BY <2>1 DEF TruthInv, RecordsTrue, Backed, Judged, Collecting, Gathered, Writing
    <2>5. FinishedTrue'
      BY <2>1 DEF TruthInv, FinishedTrue, Backed
    <2>6. ParityTodo' /\ FrozenOracles'
      BY <2>1 DEF TruthInv, ParityTodo, FrozenOracles
    <2> QED
      BY <2>1, <2>2, <2>3, <2>4, <2>5, <2>6 DEF TruthInv
  <1> QED
    BY <1>1, <1>2, <1>3, <1>4, <1>5, <1>6, <1>7, <1>8, <1>9, <1>10, <1>11 DEF Next, Main

LEMMA TruthInit == Init => TruthInv
  <1> SUFFICES ASSUME Init PROVE TruthInv
    OBVIOUS
  <1>1. CsvTrue /\ ExistingTrue /\ RecordsTrue
    BY DEF Init, CsvTrue, ExistingTrue, RecordsTrue, CellsOf
  <1>2. ParityTodo /\ FinishedTrue /\ FrozenOracles /\ pc # "raised"
    BY DEF Init, ParityTodo, FinishedTrue, FrozenOracles
  <1> QED
    BY <1>1, <1>2 DEF TruthInv

LEMMA TruthAlways == ASSUME Uninterrupted PROVE Spec => [](LossInv /\ CopyInv /\ TruthInv)
  <1>1. Init => LossInv /\ CopyInv /\ TruthInv
    BY LossInit, CopyInit, TruthInit
  <1>2. LossInv /\ CopyInv /\ TruthInv /\ [Next]_orVars => LossInv' /\ CopyInv' /\ TruthInv'
    <2>1. OneCopier
      BY DEF Uninterrupted
    <2> QED
      BY <2>1, LossStep, CopyStep, TruthStep DEF OneCopier
  <1> QED
    BY <1>1, <1>2, PTL DEF Spec

(* Launches with any seeds, plans and switches, none interrupted: no row is *)
(* ever judged against the vector of another seed.                         *)
THEOREM VerdictsCompareOneDataset == ASSUME Uninterrupted PROVE Spec => []LikeWithLike
  <1>1. TruthInv => LikeWithLike
    BY DEF TruthInv, RecordsTrue, LikeWithLike
  <1> QED
    BY <1>1, TruthAlways, PTL

(* Of those launches, each oracle file holds the vector of its own seed,    *)
(* complete, from the first snapshot on.                                   *)
THEOREM OraclesStayTrue == ASSUME Uninterrupted PROVE Spec => []FrozenOracles
  <1>1. TruthInv => FrozenOracles
    BY DEF TruthInv
  <1> QED
    BY <1>1, TruthAlways, PTL

(* They publish no vector without a parity verdict, also when a resumed     *)
(* launch ran nothing and skips the parity pass.                           *)
THEOREM PublishedAreJudged == ASSUME Uninterrupted PROVE Spec => []CompletedRunsJudged
  <1>1. TruthInv => CompletedRunsJudged
    BY DEF TruthInv, RecordsTrue, Gathered, Writing, Judged, CompletedRunsJudged, Ending
  <1> QED
    BY <1>1, TruthAlways, PTL

(* When one ends, the CSV has the rows of the shards it did not plan.       *)
THEOREM ShardsStay == ASSUME Uninterrupted PROVE Spec => ShardsKept
  <1> DEFINE Others == CellsOf(existing) \ (Range(args.plan) \cup {NoCell})
  <1>1. ASSUME LossInv, TruthInv, [Next]_orVars, pc # "idle", pc' = "idle"
        PROVE  Others \subseteq CellsOf(csv')
    <2>1. WriteRows \/ Die \/ Kill \/ (\E w \in Threads : Work(w)) \/ UNCHANGED pc
      BY <1>1 DEF Next, Main, Launch, SkipExisting, Defer, Queue, Resolving, FlushThen, OpenPool,
                  Truncate, Harvest, Gather, Resnapshot, Judge, orVars, mainVars
    <2>2. ~Die
      BY <1>1 DEF Die, TruthInv
    <2>3. ~Kill
      BY <1>1 DEF Kill, Uninterrupted, LossInv, TypeOK
    <2>4. ASSUME NEW w \in Threads, Work(w) PROVE UNCHANGED pc
      BY <1>1, <2>4, WorkMoves, StartMoves DEF LossInv, mainVars
    <2>5. csv' = records /\ Gathered
      BY <1>1, <2>1, <2>2, <2>3, <2>4 DEF WriteRows, Gathered, Writing
    <2>6. OthersKept
      BY <1>1, <2>5 DEF LossInv
    <2> QED
      BY <2>5, <2>6 DEF OthersKept, SameRow, CellsOf
  <1>2. LossInv /\ TruthInv /\ [Next]_orVars
          => [pc # "idle" /\ pc' = "idle" => \A c \in Others : c \in CellsOf(csv')]_orVars
    BY <1>1
  <1> QED
    BY <1>2, TruthAlways, PTL DEF Spec, ShardsKept

-----------------------------------------------------------------------------
(* What survives kills and exceptions: launches that never compute a cell   *)
(* again for which a CSV they read has a row that succeeded.  Either none    *)
(* reads a CSV, or all are one sweep, resumed with the same seed and not     *)
(* forced.  Failed and deferred rows may be rerun.                          *)

FreshLaunches == \A a \in Launches : ~a.resume
ResumedSweep == \A a, b \in Launches : a.resume /\ ~a.force /\ a.seed = b.seed
Restartable == OneReference /\ (FreshLaunches \/ ResumedSweep)

(* A row that succeeded is of the launch's seed, and so is its vector.      *)
Sound(r, seed, vectors) ==
    /\ r.gate # "unlike"
    /\ r.status = "ok" => r.cell \in Cells /\ r.seed = seed /\ vectors[r.cell] = seed
AllSound(rows, seed, vectors) == \A i \in DOMAIN rows : Sound(rows[i], seed, vectors)
OkCells(rows) == {rows[i].cell : i \in {j \in DOMAIN rows : rows[j].status = "ok"}}

CsvSound ==
    args.resume => /\ AllSound(csv, args.seed, predictions)
                   /\ OkCells(csv) \cap InPool = {}
                   /\ Collecting => OkCells(csv) \subseteq OkCells(existing) \cup CellsOf(records)
ExistingSound ==
    /\ AllSound(existing, args.seed, predictions)
    /\ OkCells(existing) \cap InPool = {}
    /\ args.resume \/ existing = <<>>
RecordsSound == /\ \A i \in DOMAIN records : records[i].gate # "unlike"
                /\ Collecting \/ Gathered => AllSound(records, args.seed, predictions)
FinishedSound == \A f \in finished : Sound(f.row, args.seed, predictions)

RestartInv == /\ CsvSound /\ ExistingSound /\ RecordsSound /\ ParityTodo /\ FinishedSound
              /\ FrozenOracles

(* Rows stay sound as long as no cell of theirs is written. *)
LEMMA SoundRows ==
    ASSUME NEW rows, NEW seed, NEW vectors, NEW later, AllSound(rows, seed, vectors),
           \A c \in Cells \cap OkCells(rows) : later[c] = vectors[c]
    PROVE  AllSound(rows, seed, later)
  <1> SUFFICES ASSUME NEW i \in DOMAIN rows PROVE Sound(rows[i], seed, later)
    BY DEF AllSound
  <1>1. Sound(rows[i], seed, vectors)
    BY DEF AllSound
  <1>2. rows[i].status = "ok" => rows[i].cell \in OkCells(rows)
    BY DEF OkCells
  <1> QED
    BY <1>1, <1>2 DEF Sound

LEMMA SoundAppend ==
    ASSUME NEW rows \in Seq(Row), NEW r \in Row, NEW seed, NEW vectors,
           AllSound(rows, seed, vectors), Sound(r, seed, vectors)
    PROVE  AllSound(Append(rows, r), seed, vectors)
  BY AppendRow DEF AllSound

LEMMA OkCellsRows ==
    ASSUME NEW rows
    PROVE  OkCells(rows) \subseteq CellsOf(rows)
  BY DEF OkCells, CellsOf

(* A launch that is over, or past its pool, has no cell in it. *)
LEMMA EmptyPool ==
    ASSUME LossInv, pc = "idle" \/ Gathered
    PROVE  InPool = {} /\ finished = {}
  <1>1. ~PoolOpen /\ ~Collecting /\ pc # "raised"
    BY DEF PoolOpen, Collecting, Gathered, Writing
  <1>2. Taken = {} /\ Through = {} /\ finished = {}
    BY <1>1, ClosedPool DEF LossInv
  <1>3. pending = <<>>
    BY <1>1 DEF LossInv, CollectInv
  <1> QED
    BY <1>2, <1>3 DEF InPool, Range

LEMMA WorkRestart ==
    ASSUME LossInv, LossInv', CopyInv, RestartInv, NEW w \in Threads, Work(w)
    PROVE  RestartInv'
  <1>1. /\ UNCHANGED <<csv, pc, after, args, existing, todo, records, ran>>
        /\ InPool' = InPool
    BY WorkMoves, StartMoves, PoolStep DEF LossInv, mainVars
  <1>2. /\ \A c \in Cells \ Taken : predictions'[c] = predictions[c]
        /\ oracles' = oracles \/ oracles' = [oracles EXCEPT ![args.seed] = args.seed]
        /\ \A f \in finished' : \/ f \in finished
                                \/ /\ f.row.gate = "" /\ f.row.seed = args.seed
                                   /\ f.row.status = "ok" => predictions'[f.row.cell] = f.row.seed
    BY WorkWrites
  <1>3. (Collecting' <=> Collecting) /\ (Gathered' <=> Gathered)
    BY <1>1 DEF Collecting, Gathered, Writing
  <1>4. ASSUME NEW rows, AllSound(rows, args.seed, predictions), OkCells(rows) \cap InPool = {}
        PROVE  AllSound(rows, args.seed, predictions')
    BY <1>2, <1>4, SoundRows DEF InPool
  <1>5. CsvSound'
    BY <1>1, <1>3, <1>4 DEF RestartInv, CsvSound
  <1>6. ExistingSound'
    BY <1>1, <1>4 DEF RestartInv, ExistingSound
  <1>7. RecordsSound'
    <2>1. Collecting \/ Gathered => OkCells(records) \cap InPool = {}
      <3>1. Gathered => InPool = {}
        BY EmptyPool
      <3>2. Collecting => CellsOf(records) \cap InPool = {}
        BY DEF LossInv, CollectInv
      <3> QED
        BY <3>1, <3>2, OkCellsRows
    <2> QED
      BY <1>1, <1>3, <1>4, <2>1 DEF RestartInv, RecordsSound
  <1>8. FinishedSound'
    <2> SUFFICES ASSUME NEW f \in finished' PROVE Sound(f.row, args.seed, predictions')
      BY <1>1 DEF FinishedSound
    <2>1. CASE f \in finished
      <3>1. f.row.cell \in Cells \ Taken
        <4>1. f.row.cell \in Cells
          BY <2>1 DEF LossInv, TypeOK, Future
        <4> QED
          BY <2>1, <4>1 DEF LossInv, PoolInv, Through
      <3> QED
        BY <1>2, <2>1, <3>1 DEF RestartInv, FinishedSound, Sound
    <2>2. CASE f \notin finished
      <3>1. f.row.cell \in Cells
        BY DEF LossInv, TypeOK, Future
      <3> QED
        BY <1>2, <2>2, <3>1 DEF Sound
    <2> QED
      BY <2>1, <2>2
  <1>9. FrozenOracles'
    <2>1. DOMAIN oracles = Seeds /\ FrozenOracles
      BY DEF RestartInv, LossInv, TypeOK
    <2>2. ASSUME NEW s \in Seeds PROVE oracles'[s] \in {Missing, s}
      BY <1>2, <2>1 DEF FrozenOracles
    <2> QED
      BY <2>2 DEF FrozenOracles
  <1>10. ParityTodo'
    BY <1>1 DEF RestartInv, ParityTodo
  <1> QED
    BY <1>5, <1>6, <1>7, <1>8, <1>9, <1>10 DEF RestartInv

LEMMA LaunchRestart ==
    ASSUME Restartable, LossInv, RestartInv, NEW a \in Launches, Launch(a)
    PROVE  RestartInv'
  <1>1. /\ pc = "idle" /\ pc' = "resolve" /\ args' = a
        /\ records' = <<>> /\ existing' = IF a.resume THEN csv ELSE <<>>
        /\ UNCHANGED <<csv, predictions, oracles, pending, thread, finished>>
    BY DEF Launch, files
  <1>2. InPool' = {} /\ finished' = {}
    <2>1. InPool' = InPool
      BY <1>1 DEF InPool, Taken, Through, Busy
    <2> QED
      BY <1>1, <2>1, EmptyPool
  <1>3. a.resume => args.resume /\ args.seed = a.seed
    <2>1. args \in Launches
      BY DEF LossInv, TypeOK
    <2> QED
      BY <2>1 DEF Restartable, FreshLaunches, ResumedSweep
  <1>4. a.resume => AllSound(csv, a.seed, predictions)
    BY <1>3 DEF RestartInv, CsvSound
  <1>5. CsvSound'
    <2>1. a.resume => existing' = csv
      BY <1>1
    <2> QED
      BY <1>1, <1>2, <1>4, <2>1 DEF CsvSound
  <1>6. ExistingSound'
    <2>1. CASE a.resume
      BY <1>1, <1>2, <1>4, <2>1 DEF ExistingSound
    <2>2. CASE ~a.resume
      BY <1>1, <1>2, <2>2 DEF ExistingSound, AllSound
    <2> QED
      BY <2>1, <2>2
  <1>7. RecordsSound' /\ ParityTodo' /\ FinishedSound' /\ FrozenOracles'
    BY <1>1, <1>2 DEF RestartInv, RecordsSound, AllSound, ParityTodo, FinishedSound, FrozenOracles
  <1> QED
    BY <1>5, <1>6, <1>7 DEF RestartInv

(* A cell is only queued when the CSV read has no row of it that succeeded. *)
LEMMA QueuedNew ==
    ASSUME Restartable, LossInv, ExistingSound, NEW c \in Cells, ~Kept(c)
    PROVE  c \notin OkCells(existing)
  <1> SUFFICES ASSUME c \in OkCells(existing) PROVE FALSE
    OBVIOUS
  <1>1. PICK i \in DOMAIN existing : existing[i].status = "ok" /\ existing[i].cell = c
    BY DEF OkCells
  <1>2. c \in CellsOf(existing)
    BY <1>1 DEF CellsOf
  <1>3. PICK j \in DOMAIN existing : RowOf(existing, c) = existing[j] /\ existing[j].cell = c
    BY <1>2, RowOfCell DEF LossInv, TypeOK
  <1>4. i = j
    BY <1>1, <1>3 DEF LossInv, RowsInv, UniqueCells
  <1>5. existing[i].seed = args.seed
    BY <1>1 DEF ExistingSound, AllSound, Sound
  <1>6. args.resume /\ ~args.force
    <2>1. args.resume
      BY <1>1 DEF ExistingSound
    <2>2. args \in Launches
      BY DEF LossInv, TypeOK
    <2> QED
      BY <2>1, <2>2 DEF Restartable, FreshLaunches, ResumedSweep
  <1> QED
    BY <1>1, <1>2, <1>3, <1>4, <1>5, <1>6 DEF Kept

LEMMA ResolveRestart ==
    ASSUME Restartable, LossInv, RestartInv, NEW c \in Cells, SkipExisting(c) \/ Defer(c) \/ Queue(c)
    PROVE  RestartInv'
  <1>1. /\ pc = "resolve" /\ todo # <<>> /\ c = Head(todo)
        /\ UNCHANGED <<csv, predictions, oracles, args, existing, ran, thread, finished>>
    BY DEF SkipExisting, Defer, Queue, Resolving, files
  <1>2. Collecting /\ Collecting' /\ ~Gathered' /\ pc' # "parity"
    BY <1>1 DEF SkipExisting, Defer, Queue, FlushThen, Collecting, Gathered, Writing
  <1>3. /\ AllSound(records, args.seed, predictions) /\ records \in Seq(Row)
        /\ \A i \in DOMAIN records : records[i].gate # "unlike"
    BY <1>2 DEF RestartInv, RecordsSound, LossInv, TypeOK
  <1>4. /\ InPool' \subseteq InPool \cup (IF Queue(c) THEN {c} ELSE {})
        /\ AllSound(records', args.seed, predictions) /\ CellsOf(records) \subseteq CellsOf(records')
    <2>1. CASE SkipExisting(c)
      <3> DEFINE r == RowOf(existing, c)
      <3>1. c \in CellsOf(existing) /\ records' = Append(records, r) /\ pending' = pending
        BY <2>1 DEF SkipExisting, Kept
      <3>2. r \in Row
        BY <3>1, ExistingRow DEF LossInv
      <3>3. Sound(r, args.seed, predictions)
        BY <3>1, RowOfCell DEF LossInv, TypeOK, RestartInv, ExistingSound, AllSound
      <3> HIDE DEF r
      <3> QED
        BY <1>1, <1>3, <3>1, <3>2, <3>3, SoundAppend, AppendRow DEF InPool, Taken, Through, Busy
    <2>2. CASE Defer(c)
      <3> DEFINE r == Outcome(c, "deferred")
      <3>1. records' = Append(records, r) /\ pending' = pending
        BY <2>2 DEF Defer
      <3>2. r \in Row
        BY OutcomeType DEF LossInv
      <3>3. Sound(r, args.seed, predictions)
        BY DEF Sound, Outcome
      <3> HIDE DEF r
      <3> QED
        BY <1>1, <1>3, <3>1, <3>2, <3>3, SoundAppend, AppendRow DEF InPool, Taken, Through, Busy
    <2>3. CASE Queue(c)
      <3>1. records' = records /\ pending' = Append(pending, c) /\ pending \in Seq(Cells)
        BY <2>3 DEF Queue, LossInv, TypeOK
      <3>2. Range(pending') = Range(pending) \cup {c}
        BY <3>1, AppendCells
      <3>3. Taken' = Taken /\ Through' = Through
        BY <1>1 DEF Taken, Through, Busy
      <3> QED
        BY <1>3, <2>3, <3>1, <3>2, <3>3 DEF InPool
    <2> QED
      BY <2>1, <2>2, <2>3
  <1>5. Queue(c) => c \notin OkCells(existing) \cup CellsOf(records)
    <2>1. Queue(c) => c \notin OkCells(existing)
      BY QueuedNew DEF RestartInv, Queue
    <2>2. c \in Range(todo)
      BY <1>1, <1>2, HeadCells DEF LossInv, TypeOK, CollectInv
    <2>3. CellsOf(records) \cap Range(todo) = {}
      BY <1>2 DEF LossInv, CollectInv
    <2> QED
      BY <2>1, <2>2, <2>3
  <1>6. CsvSound'
    <2>1. CsvSound
      BY DEF RestartInv
    <2> QED
      BY <1>1, <1>2, <1>4, <1>5, <2>1 DEF CsvSound
  <1>7. ExistingSound'
    <2>1. ExistingSound
      BY DEF RestartInv
    <2> QED
      BY <1>1, <1>4, <1>5, <2>1 DEF ExistingSound
  <1>8. RecordsSound'
    BY <1>1, <1>4 DEF RecordsSound, AllSound, Sound
  <1>9. ParityTodo' /\ FinishedSound' /\ FrozenOracles'
    BY <1>1, <1>2 DEF RestartInv, ParityTodo, FinishedSound, FrozenOracles
  <1> QED
    BY <1>6, <1>7, <1>8, <1>9 DEF RestartInv

LEMMA WriteRestart ==
    ASSUME LossInv, RestartInv, OpenPool \/ Truncate \/ WriteRows
    PROVE  RestartInv'
  <1>1. UNCHANGED <<predictions, oracles, args, existing, todo, records, pending, thread, finished>>
    BY DEF OpenPool, Truncate, WriteRows, files, poolVars
  <1>2. /\ Collecting' <=> Collecting
        /\ Gathered' => Gathered
        /\ pc' # "parity"
        /\ WriteRows => Collecting \/ Gathered
    BY DEF OpenPool, Truncate, WriteRows, Collecting, Gathered, Writing, LossInv, TypeOK
  <1>3. InPool' = InPool
    BY <1>1 DEF InPool, Taken, Through, Busy
  <1>4. CsvSound'
    <2>1. CASE csv' = csv
      BY <1>1, <1>2, <1>3, <2>1 DEF RestartInv, CsvSound
    <2>2. CASE csv' = <<>>
      BY <1>1, <1>2, <1>3, <2>2 DEF CsvSound, AllSound, OkCells
    <2>3. CASE WriteRows
      <3>1. csv' = records
        BY <2>3 DEF WriteRows
      <3>2. AllSound(records, args.seed, predictions)
        BY <1>2, <2>3 DEF RestartInv, RecordsSound
      <3>3. CellsOf(records) \cap InPool = {}
        <4>1. CASE Collecting
          BY <4>1 DEF LossInv, CollectInv
        <4>2. CASE Gathered
          BY <4>2, EmptyPool
        <4> QED
          BY <1>2, <2>3, <4>1, <4>2
      <3> QED
        BY <1>1, <1>3, <3>1, <3>2, <3>3, OkCellsRows DEF CsvSound
    <2> QED
      BY <2>1, <2>2, <2>3 DEF OpenPool, Truncate, files
  <1>5. ExistingSound' /\ RecordsSound'
    BY <1>1, <1>2, <1>3 DEF RestartInv, ExistingSound, RecordsSound
  <1>6. ParityTodo' /\ FinishedSound' /\ FrozenOracles'
    BY <1>1, <1>2 DEF RestartInv, ParityTodo, FinishedSound, FrozenOracles
  <1> QED
    BY <1>4, <1>5, <1>6 DEF RestartInv

LEMMA HarvestRestart ==
    ASSUME LossInv, RestartInv, NEW f \in finished, Harvest(f)
    PROVE  RestartInv'
  <1>1. /\ pc = "pool" /\ finished' = finished \ {f}
        /\ UNCHANGED <<csv, predictions, oracles, args, existing, todo, pending, thread>>
    BY DEF Harvest, files
  <1>2. Collecting /\ ~Gathered' /\ pc' # "parity"
    BY <1>1 DEF Harvest, FlushThen, Collecting, Gathered, Writing
  <1>3. InPool' \subseteq InPool
    BY <1>1 DEF InPool, Taken, Through, Busy
  <1>4. /\ AllSound(records', args.seed, predictions) /\ CellsOf(records) \subseteq CellsOf(records')
    <2>1. AllSound(records, args.seed, predictions) /\ records \in Seq(Row)
      BY <1>2 DEF RestartInv, RecordsSound, LossInv, TypeOK
    <2>2. CASE f.raised
      BY <2>1, <2>2 DEF Harvest
    <2>3. CASE ~f.raised
      <3>1. records' = Append(records, f.row)
        BY <2>3 DEF Harvest
      <3>2. f.row \in Row
        <4>1. f \in Future({"ok", "failed"}, FALSE)
          BY <2>3 DEF LossInv, TypeOK, Future
        <4> QED
          BY <4>1 DEF Future, Row, Gates
      <3>3. Sound(f.row, args.seed, predictions)
        BY DEF RestartInv, FinishedSound
      <3> QED
        BY <2>1, <3>1, <3>2, <3>3, SoundAppend, AppendRow
    <2> QED
      BY <2>2, <2>3
  <1>5. CsvSound'
    <2>1. CsvSound
      BY DEF RestartInv
    <2> QED
      BY <1>1, <1>2, <1>3, <1>4, <2>1 DEF CsvSound
  <1>6. ExistingSound'
    <2>1. ExistingSound
      BY DEF RestartInv
    <2> QED
      BY <1>1, <1>3, <2>1 DEF ExistingSound
  <1>7. RecordsSound'
    BY <1>1, <1>4 DEF RecordsSound, AllSound, Sound
  <1>8. ParityTodo' /\ FinishedSound' /\ FrozenOracles'
    BY <1>1, <1>2 DEF RestartInv, ParityTodo, FinishedSound, FrozenOracles
  <1> QED
    BY <1>5, <1>6, <1>7, <1>8 DEF RestartInv

LEMMA GatherRestart ==
    ASSUME LossInv, RestartInv, Gather
    PROVE  RestartInv'
  <1>1. /\ pc = "pool" /\ UNCHANGED <<csv, predictions, oracles, args, existing, pending, thread, finished>>
    BY DEF Gather, files, poolVars
  <1>2. Collecting /\ ~Collecting' /\ InPool' = InPool
    <2>1. Collecting /\ ~Collecting'
      BY <1>1 DEF Gather, Collecting, Writing
    <2> QED
      BY <1>1, <2>1 DEF InPool, Taken, Through, Busy
  <1>3. AllSound(records, args.seed, predictions) /\ AllSound(existing, args.seed, predictions)
    BY <1>2 DEF RestartInv, RecordsSound, ExistingSound
  <1>4. RecordsSound'
    <2>1. CASE records' = records
      BY <1>1, <1>3, <2>1 DEF RecordsSound, AllSound, Sound
    <2>2. CASE records' = Preserved \o records
      <3>1. records \in Seq(Row) /\ Preserved \in Seq(Row)
        BY PreservedRows DEF LossInv, TypeOK
      <3>2. AllSound(Preserved, args.seed, predictions)
        BY <1>3, PreservedRows DEF AllSound, LossInv
      <3>3. \A k \in DOMAIN (Preserved \o records) :
               \/ \E i \in DOMAIN Preserved : (Preserved \o records)[k] = Preserved[i]
               \/ \E i \in DOMAIN records : (Preserved \o records)[k] = records[i]
        BY <3>1, ConcatRows
      <3>4. AllSound(records', args.seed, predictions)
        BY <1>3, <2>2, <3>2, <3>3 DEF AllSound
      <3> QED
        BY <1>1, <3>4 DEF RecordsSound, AllSound, Sound
    <2> QED
      BY <2>1, <2>2 DEF Gather
  <1>5. CsvSound' /\ ExistingSound'
    BY <1>1, <1>2 DEF RestartInv, CsvSound, ExistingSound
  <1>6. FinishedSound' /\ FrozenOracles'
    BY <1>1 DEF RestartInv, FinishedSound, FrozenOracles
  <1> QED
    BY <1>4, <1>5, <1>6, GatherTodo DEF RestartInv

LEMMA ResnapshotRestart ==
    ASSUME LossInv, RestartInv, Resnapshot
    PROVE  RestartInv'
  <1>1. /\ pc = "parity"
        /\ UNCHANGED <<csv, predictions, pc, after, args, existing, records, pending, thread, finished>>
    BY DEF Resnapshot, poolVars
  <1>2. ParityTodo /\ \A i \in DOMAIN records : Backed(records[i])
    BY <1>1 DEF RestartInv, RecordsSound, Gathered, AllSound, Sound, Backed
  <1>3. Range(todo') \subseteq Range(todo) /\ \E s : oracles' = [oracles EXCEPT ![s] = s]
    BY <1>2, ResnapshotVector
  <1>4. FrozenOracles'
    <2>1. DOMAIN oracles = Seeds /\ FrozenOracles
      BY DEF RestartInv, LossInv, TypeOK
    <2> QED
      BY <1>3, <2>1 DEF FrozenOracles
  <1>5. InPool' = InPool /\ (Collecting' <=> Collecting) /\ (Gathered' <=> Gathered)
    BY <1>1 DEF InPool, Taken, Through, Busy, Collecting, Gathered, Writing
  <1>6. CsvSound' /\ ExistingSound' /\ RecordsSound' /\ FinishedSound'
    BY <1>1, <1>5 DEF RestartInv, CsvSound, ExistingSound, RecordsSound, FinishedSound
  <1>7. ParityTodo'
    BY <1>1, <1>3 DEF RestartInv, ParityTodo
  <1> QED
    BY <1>4, <1>6, <1>7 DEF RestartInv

LEMMA JudgeRestart ==
    ASSUME LossInv, RestartInv, Judge
    PROVE  RestartInv'
  <1>1. /\ pc = "parity" /\ pc' = "rewrite" /\ after' = "idle"
        /\ UNCHANGED <<csv, predictions, oracles, args, existing, todo, pending, thread, finished>>
    BY DEF Judge, files, poolVars
  <1>2. Gathered /\ ~Collecting' /\ InPool' = InPool
    <2>1. Gathered /\ ~Collecting'
      BY <1>1 DEF Gathered, Collecting, Writing
    <2> QED
      BY <1>1, <2>1 DEF InPool, Taken, Through, Busy
  <1>3. AllSound(records, args.seed, predictions) /\ FrozenOracles
    BY <1>2 DEF RestartInv, RecordsSound
  <1>4. \A i \in DOMAIN records : Verdict(records[i]) # "unlike"
    <2>1. \A j \in DOMAIN records : Backed(records[j]) /\ records[j].gate # "unlike"
      BY <1>3 DEF AllSound, Sound, Backed
    <2> QED
      BY <1>3, <2>1, VerdictTrue
  <1>5. RecordsSound'
    <2>1. \A i \in DOMAIN records : records[i] \in Row
      BY LenProperties, ElementOfSeq DEF LossInv, TypeOK
    <2>2. /\ DOMAIN records' = DOMAIN records
          /\ \A i \in DOMAIN records : records'[i] = [records[i] EXCEPT !.gate = Verdict(records[i])]
      BY DEF Judge
    <2>3. \A i \in DOMAIN records : /\ SameRow(records'[i], records[i])
                                    /\ records'[i].gate = Verdict(records[i])
      BY <2>1, <2>2 DEF SameRow, Row
    <2>4. ASSUME NEW i \in DOMAIN records PROVE Sound(records'[i], args.seed, predictions)
      BY <1>3, <1>4, <2>3 DEF AllSound, Sound, SameRow
    <2>5. AllSound(records', args.seed, predictions)
      BY <2>2, <2>4 DEF AllSound
    <2> QED
      BY <1>1, <2>5 DEF RecordsSound, AllSound, Sound
  <1>6. CsvSound' /\ ExistingSound'
    BY <1>1, <1>2 DEF RestartInv, CsvSound, ExistingSound
  <1>7. ParityTodo' /\ FinishedSound' /\ FrozenOracles'
    BY <1>1 DEF RestartInv, ParityTodo, FinishedSound, FrozenOracles
  <1> QED
    BY <1>5, <1>6, <1>7 DEF RestartInv

(* The rows a kill leaves are rows of the launch, or one cut off. *)
LEMMA KilledRows ==
    ASSUME LossInv, Kill
    PROVE  \/ csv' = csv
           \/ /\ pc = "rows"
              /\ \A i \in DOMAIN csv' : csv'[i] = CutRow \/ \E j \in DOMAIN records : csv'[i] = records[j]
  <1>1. CASE pc # "rows"
    BY <1>1 DEF Kill
  <1>2. CASE pc = "rows"
    <2> DEFINE m == Len(records)
    <2>1. m \in Nat /\ DOMAIN records = 1 .. m /\ records \in Seq(Row) /\ CutRow \in Row
      BY LenProperties DEF LossInv, TypeOK, CutRow, Row, Gates
    <2>2. PICK n \in 0 .. m : \/ csv' = SubSeq(records, 1, n)
                              \/ csv' = Append(SubSeq(records, 1, n), CutRow)
      BY <1>2 DEF Kill
    <2> DEFINE q == SubSeq(records, 1, n)
    <2>3. n \in Nat /\ \A i \in 1 .. n : i \in 1 .. m
      BY <2>1
    <2>4. q \in Seq(Row) /\ Len(q) = n /\ \A i \in 1 .. n : q[i] = records[i]
      BY <2>1, <2>3, SubSeqProperties
    <2>5. DOMAIN q = 1 .. n
      BY <2>4, LenProperties
    <2> HIDE DEF q
    <2>6. \A i \in DOMAIN q : \E j \in DOMAIN records : q[i] = records[j]
      BY <2>1, <2>3, <2>4, <2>5
    <2>7. csv' = q \/ csv' = Append(q, CutRow)
      BY <2>2 DEF q
    <2>8. CASE csv' = q
      BY <1>2, <2>6, <2>8
    <2>9. CASE csv' = Append(q, CutRow)
      <3>1. \A i \in DOMAIN Append(q, CutRow) :
               Append(q, CutRow)[i] = CutRow \/ \E j \in DOMAIN q : Append(q, CutRow)[i] = q[j]
        BY <2>1, <2>4, AppendRow
      <3> QED
        BY <1>2, <2>6, <2>9, <3>1
    <2> QED
      BY <2>7, <2>8, <2>9
  <1> QED
    BY <1>1, <1>2

(* A launch that dies or is killed leaves a CSV as sound as it was, or some  *)
(* of its own rows.                                                        *)
LEMMA StopRestart ==
    ASSUME LossInv, LossInv', RestartInv, Die \/ Kill
    PROVE  RestartInv'
  <1>1. /\ pc' = "idle" /\ finished' = {}
        /\ UNCHANGED <<predictions, oracles, args, existing, records>>
    BY DEF Die, Kill, files
  <1>2. InPool' = {} /\ ~Collecting' /\ ~Gathered'
    <2>1. InPool' = {}
      <3>1. Taken' = {} /\ Through' = {} /\ pending' = <<>>
        BY DEF Die, Kill, Taken, Through, Busy
      <3> QED
        BY <3>1 DEF InPool, Range
    <2> QED
      BY <1>1, <2>1 DEF Collecting, Gathered, Writing
  <1>3. CsvSound'
    <2> SUFFICES ASSUME args.resume PROVE AllSound(csv', args.seed, predictions)
      BY <1>1, <1>2 DEF CsvSound
    <2>1. CASE csv' = csv
      BY <2>1 DEF RestartInv, CsvSound
    <2>2. CASE Kill /\ csv' # csv
      <3>1. /\ pc = "rows"
            /\ \A i \in DOMAIN csv' : csv'[i] = CutRow \/ \E j \in DOMAIN records : csv'[i] = records[j]
        BY <2>2, KilledRows
      <3>2. AllSound(records, args.seed, predictions)
        <4>1. Collecting \/ Gathered
          BY <3>1 DEF Collecting, Gathered, Writing, LossInv, TypeOK
        <4> QED
          BY <4>1 DEF RestartInv, RecordsSound
      <3>3. Sound(CutRow, args.seed, predictions)
        BY DEF Sound, CutRow
      <3> QED
        BY <3>1, <3>2, <3>3 DEF AllSound
    <2> QED
      BY <2>1, <2>2 DEF Die, files
  <1>4. ExistingSound' /\ RecordsSound'
    BY <1>1, <1>2 DEF RestartInv, ExistingSound, RecordsSound
  <1>5. ParityTodo' /\ FinishedSound' /\ FrozenOracles'
    BY <1>1 DEF RestartInv, ParityTodo, FinishedSound, FrozenOracles
  <1> QED
    BY <1>3, <1>4, <1>5 DEF RestartInv

LEMMA RestartStep ==
    ASSUME Restartable, LossInv, LossInv', CopyInv, RestartInv, [Next]_orVars
    PROVE  RestartInv'
  <1>1. ASSUME NEW a \in Launches, Launch(a) PROVE RestartInv'
    BY <1>1, LaunchRestart
  <1>2. ASSUME NEW c \in Cells, SkipExisting(c) \/ Defer(c) \/ Queue(c) PROVE RestartInv'
    BY <1>2, ResolveRestart
  <1>3. CASE OpenPool \/ Truncate \/ WriteRows
    BY <1>3, WriteRestart
  <1>4. ASSUME NEW f \in finished, Harvest(f) PROVE RestartInv'
    BY <1>4, HarvestRestart
  <1>5. CASE Die \/ Kill
    BY <1>5, StopRestart
  <1>6. CASE Gather
    BY <1>6, GatherRestart
  <1>7. CASE Resnapshot
    BY <1>7, ResnapshotRestart
  <1>8. CASE Judge
    BY <1>8, JudgeRestart
  <1>9. ASSUME NEW w \in Threads, Work(w) PROVE RestartInv'
    BY <1>9, WorkRestart
  <1>10. CASE UNCHANGED orVars
    <2>1. UNCHANGED <<csv, predictions, oracles, pc, after, args, existing, todo, records, pending, thread, finished>>
      BY <1>10 DEF orVars, files, mainVars, poolVars
    <2>2. InPool' = InPool /\ (Collecting' <=> Collecting) /\ (Gathered' <=> Gathered)
      BY <2>1 DEF InPool, Taken, Through, Busy, Collecting, Gathered, Writing
    <2>3. CsvSound' /\ ExistingSound' /\ RecordsSound' /\ FinishedSound'
      BY <2>1, <2>2 DEF RestartInv, CsvSound, ExistingSound, RecordsSound, FinishedSound
    <2> QED
      BY <2>1, <2>3 DEF RestartInv, ParityTodo, FrozenOracles
  <1> QED
    BY <1>1, <1>2, <1>3, <1>4, <1>5, <1>6, <1>7, <1>8, <1>9, <1>10 DEF Next, Main

LEMMA RestartInit == Init => RestartInv
  <1> SUFFICES ASSUME Init PROVE RestartInv
    OBVIOUS
  <1>1. csv = <<>> /\ existing = <<>> /\ records = <<>> /\ finished = {} /\ pc = "idle"
    BY DEF Init
  <1>2. CsvSound /\ ExistingSound /\ RecordsSound /\ FinishedSound
    BY <1>1 DEF CsvSound, ExistingSound, RecordsSound, FinishedSound, AllSound, OkCells, Collecting, Writing
  <1>3. ParityTodo /\ FrozenOracles
    BY <1>1 DEF ParityTodo, FrozenOracles, Init
  <1> QED
    BY <1>2, <1>3 DEF RestartInv

LEMMA RestartAlways == ASSUME Restartable PROVE Spec => [](LossInv /\ CopyInv /\ RestartInv)
  <1>1. Init => LossInv /\ CopyInv /\ RestartInv
    BY LossInit, CopyInit, RestartInit
  <1>2. LossInv /\ CopyInv /\ RestartInv /\ [Next]_orVars => LossInv' /\ CopyInv' /\ RestartInv'
    BY LossStep, CopyStep, RestartStep DEF Restartable
  <1> QED
    BY <1>1, <1>2, PTL DEF Spec

(* Launches killed at any step, dying of a mute process or of a cut row, and *)
(* restarted afresh or as the same sweep: an oracle file, once there, is     *)
(* always the complete vector of its own seed.                             *)
THEOREM OraclesSurviveRestarts == ASSUME Restartable PROVE Spec => []FrozenOracles
  <1>1. RestartInv => FrozenOracles
    BY DEF RestartInv
  <1> QED
    BY <1>1, RestartAlways, PTL

(* And no row is judged against the vector of another seed.                 *)
THEOREM VerdictsSurviveRestarts == ASSUME Restartable PROVE Spec => []LikeWithLike
  <1>1. RestartInv => LikeWithLike
    BY DEF RestartInv, RecordsSound, LikeWithLike
  <1> QED
    BY <1>1, RestartAlways, PTL
=============================================================================
