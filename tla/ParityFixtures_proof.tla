------------------------- MODULE ParityFixtures_proof -------------------------
(***************************************************************************)
(* What generate-fixtures reports is true, for every suite, every set of   *)
(* files that change and every number of changes.                          *)
(***************************************************************************)
EXTENDS ParityFixtures, TLAPS

(* One file is open at a time, only while it is to be done.               *)
Shape ==
    /\ run.open \subseteq run.todo
    /\ \A f, g \in run.open : f = g
    /\ run.phase # "files" => run.todo = {}
    /\ run.phase # "idle" => run.report = "none"

(* During a regeneration every payload is what its producer makes, or what *)
(* the file it comes from still says; what is done is on disk.             *)
Pending ==
    run.phase # "idle" =>
        /\ \A f \in Touched : Suite[f].bench => bench # "broken"
        /\ \A f \in Touched : ~FromDisk(f) => run.payloads[f] = code[f]
        /\ \A f \in run.todo \ run.open : FromDisk(f) => run.payloads[f] = Serialized(disk[f])
        /\ \A f \in Touched \ run.todo : disk[f] = run.payloads[f]

(* What a good report stands for until something changes.                  *)
Vouched ==
    run.report \in {"ok", "wrote"} =>
        /\ \A f \in Touched : Suite[f].bench => bench # "broken"
        /\ \A f \in Touched : disk[f] = Payload(f) /\ disk[f] \in Made
        /\ run.report = "wrote" => manifest = [whole |-> TRUE, hashes |-> disk]

IInv == TypeOK /\ Shape /\ Pending /\ Vouched

(* Loading and writing again leaves numbers in the layout of a producer.   *)
LEMMA SerializedMade ==
    ASSUME NEW c \in Contents, Readable(c)
    PROVE  Serialized(c) \in Made /\ Serialized(Serialized(c)) = Serialized(c)
  BY VersionAssumption DEF Contents, Made, Readable, Serialized, Versions, Torn, Missing,
     Edited, Reformatted

LEMMA VersionsReadable ==
    ASSUME NEW c \in Made
    PROVE  Readable(c) /\ Serialized(c) = c /\ c # Reformatted /\ c \in Contents
  BY VersionAssumption DEF Contents, Made, Readable, Serialized, Versions, Torn, Missing,
     Edited, Reformatted

(* When nothing raises, every payload is something a producer could write. *)
LEMMA PayloadsMade ==
    ASSUME TypeOK, ~Raises, NEW f \in Touched
    PROVE  Payload(f) \in Made
  <1>1. CASE FromDisk(f)
    <2>1. Readable(disk[f]) /\ disk[f] \in Contents
      BY <1>1 DEF Raises, TypeOK
    <2> QED  BY <1>1, <2>1, SerializedMade DEF Payload
  <1>2. CASE ~FromDisk(f)
    BY <1>2 DEF Payload, TypeOK, Made
  <1> QED  BY <1>1, <1>2

LEMMA HeaderReports ==
    ASSUME NEW family \in DOMAIN Families
    PROVE  HeaderOf[family] \in {"emitted", "unreadable", "truncated", "lookup failed"}
  BY DEF HeaderOf

LEMMA InitIInv == Init => IInv
  <1> SUFFICES ASSUME Init PROVE IInv
    OBVIOUS
  <1>1. 0 \in Versions
    BY VersionAssumption DEF Versions
  <1>2. TypeOK
    BY <1>1 DEF Init, TypeOK, Contents, Made, Reports, NoPayloads
  <1> QED  BY <1>2 DEF Init, IInv, Shape, Pending, Vouched

(* A step at rest that only reports something other than success.          *)
LEMMA ReportsOnly ==
    ASSUME IInv, Idle, NEW r \in Reports \ {"ok", "wrote"}, Reported(r),
           code' \in [Touched -> Versions], bench' \in Benches,
           disk' \in [Touched -> Contents], UNCHANGED manifest
    PROVE  IInv'
  <1>1. /\ run'.phase = "idle" /\ run'.todo = run.todo /\ run'.open = run.open
        /\ run'.report = r /\ run'.payloads = run.payloads
    BY DEF IInv, TypeOK, Reported, Idle
  <1>2. TypeOK'
    BY <1>1 DEF IInv, TypeOK, Reported, Idle
  <1>3. Shape' /\ Pending' /\ Vouched'
    BY <1>1 DEF IInv, Shape, Idle, Pending, Vouched
  <1> QED  BY <1>2, <1>3 DEF IInv

LEMMA EnvironmentKeeps ==
    ASSUME IInv, MoveBench \/ \E f \in Touched : EditProducer(f) \/ EditFixture(f)
    PROVE  IInv'
  <1>0. "none" \in Reports \ {"ok", "wrote"}
    BY DEF Reports
  <1>1. ASSUME NEW f \in Touched, EditProducer(f) PROVE IInv'
    <2>1. code[f] + 1 \in Versions
      BY <1>1, VersionAssumption DEF EditProducer, IInv, TypeOK, Versions
    <2> QED  BY <1>0, <1>1, <2>1, ReportsOnly DEF EditProducer, IInv, TypeOK
  <1>2. ASSUME NEW f \in Touched, EditFixture(f) PROVE IInv'
    <2>1. {0, Edited, Reformatted, Missing} \subseteq Contents
      BY VersionAssumption DEF Contents, Versions
    <2> QED  BY <1>0, <1>2, <2>1, ReportsOnly DEF EditFixture, IInv, TypeOK
  <1>3. CASE MoveBench
    BY <1>0, <1>3, ReportsOnly DEF MoveBench, IInv, TypeOK
  <1> QED  BY <1>1, <1>2, <1>3

LEMMA ReportersKeep ==
    ASSUME IInv,
           \/ GenerateRaises
           \/ \E family \in DOMAIN Families : EmitHeader(family)
    PROVE  IInv'
  <1>0. {"raised", "emitted", "unreadable", "truncated", "lookup failed"}
            \subseteq Reports \ {"ok", "wrote"}
    BY DEF Reports
  <1>1. CASE GenerateRaises
    BY <1>0, <1>1, ReportsOnly DEF GenerateRaises, IInv, TypeOK
  <1>2. ASSUME NEW family \in DOMAIN Families, EmitHeader(family)
        PROVE  IInv'
    <2>1. PICK r \in Reports \ {"ok", "wrote"} : Reported(r)
      BY <1>0, <1>2, HeaderReports DEF EmitHeader
    <2> QED  BY <1>2, <2>1, ReportsOnly DEF EmitHeader, IInv, TypeOK
  <1> QED  BY <1>1, <1>2

LEMMA RegenerateKeeps ==
    ASSUME IInv, Regenerate
    PROVE  IInv'
  <1>1. \A f \in Touched : Payload(f) \in Made
    BY PayloadsMade DEF Regenerate, IInv
  <1>2. TypeOK'
    BY <1>1 DEF Regenerate, IInv, TypeOK, Reports
  <1>3. /\ run'.phase = "files" /\ run'.todo = Touched /\ run'.open = {}
        /\ run'.report = "none" /\ \A f \in Touched : run'.payloads[f] = Payload(f)
        /\ UNCHANGED <<code, bench, disk, manifest>>
    BY DEF Regenerate
  <1>4. Shape' /\ Vouched'
    BY <1>3 DEF Shape, Vouched
  <1>5. \A f \in Touched : Suite[f].bench => bench # "broken"
    BY DEF Regenerate, Raises
  <1>6. Pending'
    BY <1>3, <1>5 DEF Pending, Payload, FromDisk
  <1> QED  BY <1>2, <1>4, <1>6 DEF IInv

LEMMA TruncateKeeps ==
    ASSUME IInv, NEW f \in Touched, Truncate(f)
    PROVE  IInv'
  <1>1. /\ run.phase = "files" /\ f \in run.todo
        /\ run'.phase = run.phase /\ run'.todo = run.todo /\ run'.open = {f}
        /\ run'.report = run.report /\ run'.payloads = run.payloads
        /\ UNCHANGED <<code, bench, manifest>>
    BY DEF IInv, TypeOK, Shape, Truncate
  <1>2. \A g \in Touched \ {f} : disk'[g] = disk[g]
    BY DEF IInv, TypeOK, Truncate
  <1>3. TypeOK'
    BY <1>1 DEF IInv, TypeOK, Truncate, Contents
  <1>4. Shape' /\ Vouched'
    BY <1>1 DEF IInv, Shape, Vouched
  <1>5. Pending'
    <2>1. \A g \in Touched : Suite[g].bench => bench # "broken"
      BY <1>1 DEF IInv, Pending
    <2>2. \A g \in Touched : ~FromDisk(g)' => run'.payloads[g] = code'[g]
      BY <1>1 DEF IInv, Pending, FromDisk
    <2>3. ASSUME NEW g \in run'.todo \ run'.open, FromDisk(g)'
          PROVE  run'.payloads[g] = Serialized(disk[g]) /\ disk'[g] = disk[g]
      <3>1. g \in run.todo \ run.open /\ g \in Touched \ {f} /\ FromDisk(g)
        BY <1>1, <2>3 DEF IInv, TypeOK, Shape, FromDisk, Truncate
      <3> QED  BY <1>1, <1>2, <3>1 DEF IInv, Pending
    <2>4. \A g \in Touched \ run'.todo : disk'[g] = run'.payloads[g]
      BY <1>1, <1>2 DEF IInv, Pending
    <2> QED  BY <1>1, <2>1, <2>2, <2>3, <2>4 DEF Pending, Serialized
  <1> QED  BY <1>3, <1>4, <1>5 DEF IInv

LEMMA FillKeeps ==
    ASSUME IInv, NEW f \in Touched, Fill(f)
    PROVE  IInv'
  <1>1. /\ run.phase = "files" /\ f \in run.todo /\ f \in run.open
        /\ run'.phase = run.phase /\ run'.todo = run.todo \ {f} /\ run'.open = {}
        /\ run'.report = run.report /\ run'.payloads = run.payloads
        /\ UNCHANGED <<code, bench, manifest>>
    BY DEF IInv, TypeOK, Shape, Fill
  <1>2. /\ \A g \in Touched \ {f} : disk'[g] = disk[g]
        /\ disk'[f] = run.payloads[f]
    BY DEF IInv, TypeOK, Fill
  <1>3. TypeOK'
    BY <1>1, VersionsReadable DEF IInv, TypeOK, Fill
  <1>4. Shape' /\ Vouched'
    BY <1>1 DEF IInv, Shape, Vouched
  <1>5. Pending'
    <2>1. \A g \in Touched : Suite[g].bench => bench # "broken"
      BY <1>1 DEF IInv, Pending
    <2>2. \A g \in Touched : ~FromDisk(g)' => run'.payloads[g] = code'[g]
      BY <1>1 DEF IInv, Pending, FromDisk
    <2>3. ASSUME NEW g \in run'.todo \ run'.open, FromDisk(g)'
          PROVE  run'.payloads[g] = Serialized(disk[g]) /\ disk'[g] = disk[g]
      <3>1. g \in run.todo \ run.open /\ g \in Touched \ {f} /\ FromDisk(g)
        BY <1>1, <2>3 DEF IInv, TypeOK, Shape, FromDisk, Truncate
      <3> QED  BY <1>1, <1>2, <3>1 DEF IInv, Pending
    <2>4. \A g \in Touched \ run'.todo : disk'[g] = run'.payloads[g]
      BY <1>1, <1>2 DEF IInv, Pending
    <2> QED  BY <1>1, <2>1, <2>2, <2>3, <2>4 DEF Pending, Serialized
  <1> QED  BY <1>3, <1>4, <1>5 DEF IInv

LEMMA ManifestKeeps ==
    ASSUME IInv, TruncateManifest \/ FillManifest
    PROVE  IInv'
  <1>1. CASE TruncateManifest
    <2>1. /\ run'.phase = "manifest" /\ run.phase = "files" /\ run.todo = {}
          /\ run'.todo = {} /\ run'.open = run.open
          /\ run'.report = run.report /\ run'.payloads = run.payloads
          /\ UNCHANGED <<code, bench, disk>>
      BY <1>1 DEF IInv, TypeOK, TruncateManifest
    <2>2. TypeOK'
      BY <1>1 DEF IInv, TypeOK, TruncateManifest
    <2>3. Shape' /\ Vouched'
      BY <2>1 DEF IInv, Shape, Vouched
    <2>4. Pending'
      BY <2>1 DEF IInv, Pending, FromDisk
    <2> QED  BY <2>2, <2>3, <2>4 DEF IInv
  <1>2. CASE FillManifest
    <2>1. /\ run.phase = "manifest" /\ run.todo = {} /\ run.open = {}
          /\ run'.phase = "idle" /\ run'.todo = {} /\ run'.open = {}
          /\ run'.report = "wrote" /\ run'.payloads = NoPayloads
          /\ UNCHANGED <<code, bench, disk>>
          /\ manifest' = [whole |-> TRUE, hashes |-> run.payloads]
      BY <1>2 DEF IInv, TypeOK, Shape, FillManifest, Ended
    <2>2. /\ \A f \in Touched : disk[f] = run.payloads[f]
          /\ \A f \in Touched : Suite[f].bench => bench # "broken"
          /\ \A f \in Touched : ~FromDisk(f) => run.payloads[f] = code[f]
      BY <2>1 DEF IInv, Pending
    <2>3. \A f \in Touched : disk[f] \in Made
      BY <2>2 DEF IInv, TypeOK
    <2>4. disk = run.payloads
      BY <2>2, <2>3 DEF IInv, TypeOK
    <2>5. \A f \in Touched : disk[f] = Payload(f)
      BY <2>2, <2>3, VersionsReadable DEF Payload
    <2>6. TypeOK'
      <3>1. NoPayloads \in [Touched -> Made] /\ "wrote" \in Reports
        BY VersionAssumption DEF NoPayloads, Made, Versions, Reports
      <3>2. [whole |-> TRUE, hashes |-> run.payloads] \in
                [whole : BOOLEAN, hashes : [Touched -> Contents]]
        BY <2>4 DEF IInv, TypeOK
      <3> QED  BY <1>2, <2>1, <3>1, <3>2 DEF IInv, TypeOK, FillManifest, Ended
    <2>7. Shape' /\ Pending'
      BY <2>1 DEF Shape, Pending
    <2>8. Vouched'
      BY <2>1, <2>2, <2>3, <2>4, <2>5 DEF Vouched, Payload, FromDisk
    <2> QED  BY <2>6, <2>7, <2>8 DEF IInv
  <1> QED  BY <1>1, <1>2

LEMMA KillKeeps == ASSUME IInv, Kill PROVE IInv'
  <1>1. /\ run'.phase = "idle" /\ run'.todo = {} /\ run'.open = {}
        /\ run'.report = "killed" /\ run'.payloads = NoPayloads
        /\ UNCHANGED <<code, bench, disk, manifest>>
    BY DEF Kill, Ended, IInv, TypeOK
  <1>2. NoPayloads \in [Touched -> Made] /\ "killed" \in Reports
    BY VersionAssumption DEF NoPayloads, Made, Versions, Reports
  <1>3. TypeOK'
    BY <1>1, <1>2 DEF IInv, TypeOK, Kill, Ended
  <1> QED  BY <1>1, <1>3 DEF IInv, Shape, Pending, Vouched

LEMMA CheckKeeps == ASSUME IInv, Check PROVE IInv'
  <1>1. /\ run'.phase = run.phase /\ run'.todo = run.todo /\ run'.open = run.open
        /\ run'.report = Verdict /\ run'.payloads = run.payloads
        /\ run.phase = "idle" /\ UNCHANGED <<code, bench, disk, manifest>>
    BY DEF Check, Reported, Idle, IInv, TypeOK
  <1>2. Verdict \in {"ok", "failed"}
    BY DEF Verdict
  <1>3. TypeOK'
    BY <1>1, <1>2 DEF IInv, TypeOK, Check, Reported, Reports
  <1>4. Shape' /\ Pending'
    BY <1>1 DEF IInv, Shape, Pending
  <1>5. Vouched'
    <2>1. \A f \in Touched : Suite[f].bench => bench # "broken"
      BY DEF Check, Raises
    <2>2. \A f \in Touched : Payload(f) \in Made
      BY PayloadsMade DEF Check, IInv
    <2>3. ASSUME Verdict = "ok" PROVE \A f \in Touched : disk[f] = Payload(f)
      BY <2>3 DEF Verdict, Matches
    <2> QED  BY <1>1, <1>2, <2>1, <2>2, <2>3 DEF Vouched, Payload, FromDisk
  <1> QED  BY <1>3, <1>4, <1>5 DEF IInv

LEMMA StutterKeeps == ASSUME IInv, UNCHANGED vars PROVE IInv'
  BY DEF IInv, vars, TypeOK, Shape, Pending, Vouched, Payload, FromDisk, Serialized

(* Every step keeps the strengthened invariant.                            *)
LEMMA NextIInv == IInv /\ [Next]_vars => IInv'
  <1> SUFFICES ASSUME IInv, [Next]_vars PROVE IInv'
    OBVIOUS
  <1>1. CASE MoveBench \/ \E f \in Touched : EditProducer(f) \/ EditFixture(f)
    BY <1>1, EnvironmentKeeps
  <1>2. CASE GenerateRaises \/ \E family \in DOMAIN Families : EmitHeader(family)
    BY <1>2, ReportersKeep
  <1>3. CASE Regenerate
    BY <1>3, RegenerateKeeps
  <1>4. ASSUME NEW f \in Touched, Truncate(f) \/ Fill(f) PROVE IInv'
    BY <1>4, TruncateKeeps, FillKeeps
  <1>5. CASE TruncateManifest \/ FillManifest
    BY <1>5, ManifestKeeps
  <1>6. CASE Kill
    BY <1>6, KillKeeps
  <1>7. CASE Check
    BY <1>7, CheckKeeps
  <1>8. CASE UNCHANGED vars
    BY <1>8, StutterKeeps
  <1> QED  BY <1>1, <1>2, <1>3, <1>4, <1>5, <1>6, <1>7, <1>8 DEF Next

(* It holds in every reachable state (cli.main, cpp_header.main).          *)
THEOREM Inductive == Spec => []IInv
  BY InitIInv, NextIInv, PTL DEF Spec

(* Files, manifest and payloads stay within the bytes a run can leave: a   *)
(* payload is never cut, missing or in a foreign layout.                   *)
THEOREM TypeCorrect == Spec => []TypeOK
  <1>1. IInv => TypeOK
    BY DEF IInv
  <1> QED  BY <1>1, Inductive, PTL

(* "OK" is only said of files that are there, whole and current.           *)
THEOREM ChecksVouch == Spec => []CheckVouches
  <1>1. IInv => CheckVouches
    <2>1. ASSUME IInv, run.report = "ok", NEW f \in Touched
          PROVE  Current(f) /\ disk[f] # Reformatted
      <3>1. disk[f] = Payload(f) /\ disk[f] \in Made
        BY <2>1 DEF IInv, Vouched
      <3> QED  BY <3>1, VersionsReadable DEF Current, Payload
    <2> QED  BY <2>1 DEF CheckVouches
  <1> QED  BY <1>1, Inductive, PTL

(* After "Wrote" the manifest has hashed what is on disk, that is what the *)
(* producers make, and a check passes.                                     *)
THEOREM RegenerationsAgree == Spec => []RegenerationAgrees
  <1>1. ASSUME IInv, run.report = "wrote"
        PROVE  /\ manifest = [whole |-> TRUE, hashes |-> disk]
               /\ \A f \in Touched : Current(f)
    <2>1. \A f \in Touched : disk[f] = Payload(f) /\ disk[f] \in Made
      BY <1>1 DEF IInv, Vouched
    <2>2. manifest = [whole |-> TRUE, hashes |-> disk]
      BY <1>1 DEF IInv, Vouched
    <2> QED  BY <2>1, <2>2, VersionsReadable DEF Current, Payload
  <1>2. ASSUME IInv, run.report = "wrote" PROVE ~Raises /\ Verdict = "ok"
    <2>1. \A f \in Touched : Readable(disk[f]) /\ Matches(f)
      BY <1>2, VersionsReadable DEF IInv, Vouched, Matches
    <2>2. \A f \in Touched : Suite[f].bench => bench # "broken"
      BY <1>2 DEF IInv, Vouched
    <2> QED  BY <2>1, <2>2 DEF Raises, Verdict
  <1>3. IInv => RegenerationAgrees
    BY <1>1, <1>2 DEF RegenerationAgrees
  <1> QED  BY <1>3, Inductive, PTL

(* Without AOM_v0 no regeneration changes the numbers of an AOM fixture.   *)
THEOREM NumbersKept == Spec => []AomNumbersKept
  <1>1. IInv => AomNumbersKept
    BY DEF IInv, Pending, AomNumbersKept
  <1> QED  BY <1>1, Inductive, PTL

-------------------------------------------------------------------------------
(* Whether the lists of fixtures give the generators what they look up: a  *)
(* fact about the suite, whatever happens to its files.  The run shows it   *)
(* for the suite of the repository, as every header can be emitted from the *)
(* initial files.                                                          *)
Served == \A family \in DOMAIN Families : HeaderOf[family] = "emitted"

(* What a header report stands for: a file that does not load is still so,  *)
(* as whatever changes a file withdraws the report.                         *)
LEMMA HeaderStep ==
    ASSUME Served, IInv, NamesServed, [Next]_vars
    PROVE  NamesServed'
  <1>0. /\ run.phase # "idle" => run.report = "none"
        /\ run \in [phase : {"idle", "files", "manifest"}, todo : SUBSET Touched,
                    open : SUBSET Touched, payloads : [Touched -> Made], report : Reports]
    BY DEF IInv, Shape, TypeOK
  <1>1. ASSUME NEW r \in Reports \ {"unreadable", "truncated", "lookup failed"},
               run'.report = r
        PROVE  NamesServed'
    BY <1>1 DEF NamesServed
  <1>2. {"none", "wrote", "ok", "failed", "raised", "killed"}
            \subseteq Reports \ {"unreadable", "truncated", "lookup failed"}
    BY DEF Reports
  <1>3. CASE MoveBench \/ \E f \in Touched : EditProducer(f) \/ EditFixture(f)
    <2>1. run'.report = "none"
      BY <1>0, <1>3 DEF MoveBench, EditProducer, EditFixture, Reported
    <2> QED  BY <1>1, <1>2, <2>1
  <1>4. CASE GenerateRaises \/ Check
    <2>1. run'.report \in {"raised", "ok", "failed"}
      BY <1>0, <1>4 DEF GenerateRaises, Check, Reported, Verdict
    <2> QED  BY <1>1, <1>2, <2>1
  <1>5. CASE Regenerate
    <2>1. run'.report = "none"
      BY <1>5 DEF Regenerate
    <2> QED  BY <1>1, <1>2, <2>1
  <1>6. CASE FillManifest \/ Kill
    <2>1. run'.report \in {"wrote", "killed"}
      BY <1>0, <1>6 DEF FillManifest, Kill, Ended
    <2> QED  BY <1>1, <1>2, <2>1
  <1>7. CASE TruncateManifest \/ \E f \in Touched : Truncate(f) \/ Fill(f)
    <2>1. run.phase # "idle"
      BY <1>7 DEF TruncateManifest, Truncate, Fill, IInv, TypeOK, Shape
    <2>2. run'.report = "none"
      BY <1>0, <1>7, <2>1 DEF TruncateManifest, Truncate, Fill
    <2> QED  BY <1>1, <1>2, <2>2
  <1>8. ASSUME NEW family \in DOMAIN Families, EmitHeader(family) PROVE NamesServed'
    <2>1. HeaderOf[family] = "emitted"
      BY DEF Served
    <2>2. CASE \E f \in Families[family].fixtures \cap Touched : ~Readable(disk[f])
      <3>1. run'.report = "unreadable" /\ disk' = disk
        BY <1>0, <1>8, <2>2 DEF EmitHeader, Reported
      <3> QED  BY <2>2, <3>1 DEF NamesServed
    <2>3. CASE ~\E f \in Families[family].fixtures \cap Touched : ~Readable(disk[f])
      <3>1. run'.report = "emitted"
        BY <1>0, <1>8, <2>1, <2>3 DEF EmitHeader, Reported
      <3> QED  BY <3>1 DEF NamesServed
    <2> QED  BY <2>2, <2>3
  <1>9. CASE UNCHANGED vars
    BY <1>9 DEF NamesServed, vars
  <1> QED  BY <1>3, <1>4, <1>5, <1>6, <1>7, <1>8, <1>9 DEF Next

(* If the lists of fixtures serve their generators, every header that is    *)
(* emitted is whole, whichever files change, are lost or are rewritten, and *)
(* a generator only stops for a file that does not load.                    *)
THEOREM HeadersWhole == ASSUME Served PROVE Spec => []NamesServed
  <1>1. Init => NamesServed
    BY DEF Init, NamesServed
  <1>2. IInv /\ NamesServed /\ [Next]_vars => NamesServed'
    BY HeaderStep
  <1> QED  BY <1>1, <1>2, Inductive, PTL DEF Spec
===============================================================================
