---------------------------- MODULE ParityFixtures ----------------------------
(***************************************************************************)
(* The checked-in parity fixtures and the programs that work on them:      *)
(* generate-fixtures --regenerate and --check (cli) and the C++ header     *)
(* generator (cpp_header). A file's bytes are the version of the producer  *)
(* they came from, or one of the ways they can be something else.          *)
(***************************************************************************)
EXTENDS Integers

CONSTANTS
    Suite,       \* the fixtures of the suite, by identifier
    Touched,     \* those whose file and producer may change here
    Families,    \* the families of C++ tests: their fixtures and what is read of each
    MaxVersion   \* how often a producer changes; bounds the model only

ASSUME TouchedAssumption == Touched \subseteq DOMAIN Suite
ASSUME VersionAssumption == MaxVersion \in Nat

VARIABLES
    code,        \* the version of each producer: what it would write now
    bench,       \* the AOM_v0 reference beside the repository
    disk,        \* the bytes of each fixture file
    manifest,    \* manifest.json: whole or not, and the bytes it has hashed
    run          \* a regeneration at work, and the last report of any program

vars == <<code, bench, disk, manifest, run>>

Torn == -1          \* cut short by a kill
Missing == -2
Edited == -3        \* other numbers, in the layout _serialize writes
Reformatted == -4   \* the same numbers as Edited in another layout

Versions == 0..MaxVersion
Contents == Versions \cup {Torn, Missing, Edited, Reformatted}
Made == Versions \cup {Edited}     \* what a payload can be
Readable(c) == c \notin {Torn, Missing}
(* What json.load and _serialize make of the bytes. *)
Serialized(c) == IF c = Reformatted THEN Edited ELSE c

Benches == {"absent", "works", "broken"}
Reports == {"none", "wrote", "ok", "failed", "raised", "killed",
            "emitted", "unreadable", "truncated", "lookup failed"}

TypeOK ==
    /\ code \in [Touched -> Versions]
    /\ bench \in Benches
    /\ disk \in [Touched -> Contents]
    /\ manifest \in [whole : BOOLEAN, hashes : [Touched -> Contents]]
    /\ run \in [phase : {"idle", "files", "manifest"}, todo : SUBSET Touched,
                open : SUBSET Touched, payloads : [Touched -> Made], report : Reports]

NoPayloads == [f \in Touched |-> 0]

Init ==
    /\ code = [f \in Touched |-> 0]
    /\ bench \in Benches
    /\ disk = code
    /\ manifest = [whole |-> TRUE, hashes |-> disk]
    /\ run = [phase |-> "idle", todo |-> {}, open |-> {}, payloads |-> NoPayloads,
              report |-> "none"]

Idle == run.phase = "idle"
Reported(r) == run' = [run EXCEPT !.report = r]
-------------------------------------------------------------------------------
(* Between runs: a producer (or the NumPy below it) changes, the AOM       *)
(* checkout comes or goes, a file is edited, lost or checked out again.    *)

EditProducer(f) ==
    /\ Idle /\ code[f] < MaxVersion
    /\ code' = [code EXCEPT ![f] = @ + 1]
    /\ Reported("none") /\ UNCHANGED <<bench, disk, manifest>>

MoveBench ==
    /\ Idle
    /\ bench' \in Benches \ {bench}
    /\ Reported("none") /\ UNCHANGED <<code, disk, manifest>>

EditFixture(f) ==
    /\ Idle
    /\ \E c \in {0, Edited, Reformatted, Missing} \ {disk[f]} :
          disk' = [disk EXCEPT ![f] = c]
    /\ Reported("none") /\ UNCHANGED <<code, bench, manifest>>
-------------------------------------------------------------------------------
(* cli. _generate_all makes every payload before anything is written. An   *)
(* AOM producer that finds no AOM_v0 loads the file of the directory.      *)

FromDisk(f) == Suite[f].bench /\ bench = "absent"

PayloadVerbatim(f) == IF FromDisk(f) THEN disk[f] ELSE code[f]   \* mutant

Payload(f) == IF FromDisk(f) THEN Serialized(disk[f]) ELSE code[f]

\* selection.py is there but its import fails, or the file to fall back on does not load
Raises ==
    \E f \in Touched : \/ Suite[f].bench /\ bench = "broken"
                       \/ FromDisk(f) /\ ~Readable(disk[f])

GenerateRaises ==
    /\ Idle /\ Raises
    /\ Reported("raised") /\ UNCHANGED <<code, bench, disk, manifest>>

Regenerate ==
    /\ Idle /\ ~Raises
    /\ run' = [phase |-> "files", todo |-> Touched, open |-> {}, report |-> "none",
               payloads |-> [f \in Touched |-> Payload(f)]]
    /\ UNCHANGED <<code, bench, disk, manifest>>

\* write_bytes truncates the file, then writes it
Truncate(f) ==
    /\ run.open = {} /\ f \in run.todo
    /\ disk' = [disk EXCEPT ![f] = Torn]
    /\ run' = [run EXCEPT !.open = {f}]
    /\ UNCHANGED <<code, bench, manifest>>

Fill(f) ==
    /\ f \in run.open
    /\ disk' = [disk EXCEPT ![f] = run.payloads[f]]
    /\ run' = [run EXCEPT !.open = {}, !.todo = @ \ {f}]
    /\ UNCHANGED <<code, bench, manifest>>

TruncateManifest ==
    /\ run.phase = "files" /\ run.todo = {}
    /\ manifest' = [manifest EXCEPT !.whole = FALSE]
    /\ run' = [run EXCEPT !.phase = "manifest"]
    /\ UNCHANGED <<code, bench, disk>>

Ended(r) ==
    run' = [run EXCEPT !.phase = "idle", !.todo = {}, !.open = {}, !.payloads = NoPayloads,
                       !.report = r]

FillManifestMade ==   \* mutant
    /\ run.phase = "manifest"
    /\ manifest' = [whole |-> TRUE,
                    hashes |-> [f \in Touched |-> IF FromDisk(f) THEN manifest.hashes[f]
                                                 ELSE run.payloads[f]]]
    /\ Ended("wrote") /\ UNCHANGED <<code, bench, disk>>

FillManifest ==
    /\ run.phase = "manifest"
    /\ manifest' = [whole |-> TRUE, hashes |-> run.payloads]
    /\ Ended("wrote") /\ UNCHANGED <<code, bench, disk>>

\* a kill, or a write that fails: what was truncated stays so
Kill ==
    /\ ~Idle
    /\ Ended("killed") /\ UNCHANGED <<code, bench, disk, manifest>>

MatchesUnlessMissing(f) == disk[f] \in {Payload(f), Missing}   \* mutant

Matches(f) == disk[f] = Payload(f)

\* the manifest and files without a producer are not looked at
Verdict == IF \A f \in Touched : Matches(f) THEN "ok" ELSE "failed"

Check ==
    /\ Idle /\ ~Raises
    /\ Reported(Verdict) /\ UNCHANGED <<code, bench, disk, manifest>>
-------------------------------------------------------------------------------
(* cpp_header. A family's fixtures are loaded, then searched by name; a    *)
(* value of the other form fails, and floats asked for as whole numbers    *)
(* lose their fractions silently.                                          *)

Looked(have, want, optional) ==
    IF \E k \in DOMAIN want \ optional : k \notin DOMAIN have THEN "lookup failed"
    ELSE IF \E k \in DOMAIN want \cap DOMAIN have : (have[k] = "plain") # (want[k] = "plain")
         THEN "lookup failed"
    ELSE IF \E k \in DOMAIN want \cap DOMAIN have : have[k] = "floats" /\ want[k] = "ints"
         THEN "truncated"
    ELSE "emitted"

Emission(f, reads) ==
    LET found == {Looked(f.data, reads.data, reads.optional),
                  Looked(f.expected, reads.expected, reads.optional)}
    IN IF "lookup failed" \in found \/ ~(reads.params \subseteq f.params)
       THEN "lookup failed"
       ELSE IF "truncated" \in found THEN "truncated" ELSE "emitted"

HeaderOf ==
    [family \in DOMAIN Families |->
        LET F == Families[family]
            found == {Emission(Suite[f], F.reads) : f \in F.fixtures \cap DOMAIN Suite}
        IN IF ~(F.fixtures \subseteq DOMAIN Suite) THEN "unreadable"
           ELSE IF "lookup failed" \in found THEN "lookup failed"
           ELSE IF "truncated" \in found THEN "truncated" ELSE "emitted"]

\* a file outside Touched is as committed
EmitHeader(family) ==
    /\ Idle
    /\ Reported(IF \E f \in Families[family].fixtures \cap Touched : ~Readable(disk[f])
                THEN "unreadable" ELSE HeaderOf[family])
    /\ UNCHANGED <<code, bench, disk, manifest>>
-------------------------------------------------------------------------------
Next ==
    \/ MoveBench \/ GenerateRaises \/ Regenerate \/ TruncateManifest \/ FillManifest
    \/ Kill \/ Check
    \/ \E f \in Touched : EditProducer(f) \/ EditFixture(f) \/ Truncate(f) \/ Fill(f)
    \/ \E family \in DOMAIN Families : EmitHeader(family)

Spec == Init /\ [][Next]_vars
-------------------------------------------------------------------------------
(* What the files are worth when every producer that can run has run.      *)
Current(f) == Readable(disk[f]) /\ (~FromDisk(f) => disk[f] = code[f])

(* "OK: all fixtures match": every file is there and whole, and holds what *)
(* its producer makes now; a file compared with itself at least has the    *)
(* layout of a generated one (cli._check).                                 *)
CheckVouches ==
    run.report = "ok" => \A f \in Touched : Current(f) /\ disk[f] # Reformatted

(* "Wrote fixtures + manifest": the manifest has hashed the bytes that are *)
(* on disk, these are what the producers make, and a check that follows    *)
(* neither raises nor differs (cli._regenerate, cli._check).               *)
RegenerationAgrees ==
    run.report = "wrote" =>
        /\ manifest = [whole |-> TRUE, hashes |-> disk]
        /\ \A f \in Touched : Current(f)
        /\ ~Raises /\ Verdict = "ok"

(* Without AOM_v0 a regeneration goes over the AOM fixtures too, but it is *)
(* about to write the numbers they hold (suites._checked_in_fixture).      *)
AomNumbersKept ==
    run.phase = "files" =>
        \A f \in run.todo \ run.open : FromDisk(f) => run.payloads[f] = Serialized(disk[f])

(* Every family's own list of fixtures gives its generator every name it   *)
(* looks up, in the form it casts to: as long as the files load, the       *)
(* header is written whole (cpp_header.HEADER_SPECS).                      *)
NamesServed ==
    /\ run.report \notin {"lookup failed", "truncated"}
    /\ run.report = "unreadable" => \E f \in Touched : ~Readable(disk[f])
===============================================================================
