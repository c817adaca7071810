---------------------------- MODULE TestReports ----------------------------
(***************************************************************************)
(* The report of one test command: TestRunner.run_tests                    *)
(* (services/test_runner.py) writes it, ArtifactService.collect_artifact   *)
(* (services/artifact_service.py) reads it.  Both run in the server's pool *)
(* of threads, so several runs of the test and several collections overlap,*)
(* and the server may be killed between any two system calls.              *)
(*                                                                         *)
(* The report is written in place: opening it empties it, each writer has  *)
(* an offset of its own, and a write beyond the end of the file leaves a   *)
(* hole, which reads as NUL bytes.  Sizes are counted in blocks.           *)
(***************************************************************************)
EXTENDS Naturals, Sequences

CONSTANTS
    Runs,            \* calls of run_tests for this test
    Collects,        \* calls of collect_artifact for its report
    MaxBlocks,       \* bound: blocks of a report
    Limit,           \* max_output_bytes
    Sample,          \* ARTIFACT_BINARY_SAMPLE_BYTES
    MaxOutages,      \* bound: kills of the server
    Hole,            \* a block of NUL bytes
    NoFile,          \* the report does not exist
    NoRun            \* no run has opened the report

ASSUME ConstantsAssumption ==
    /\ MaxBlocks \in Nat \ {0}
    /\ Limit \in Nat
    /\ Sample \in Nat
    /\ MaxOutages \in Nat

Blocks == (Runs \X (1..MaxBlocks)) \cup {Hole}

ASSUME SentinelsAssumption ==
    /\ Hole \notin Runs \X (1..MaxBlocks)
    /\ NoFile \notin Seq(Blocks)
    /\ NoRun \notin Runs

VARIABLES
    report,      \* the file
    runPc,       \* the step of run_tests each run is at
    length,      \* blocks of the report of each run
    offset,      \* where each run writes next
    latest,      \* the run that opened the report last (history)
    overlapped,  \* runs that wrote while another did (history)
    colPc,       \* the step of collect_artifact each collection is at
    size,        \* its size_bytes
    data,        \* its sampled_bytes, as far as they are read
    answer,      \* what it returned or raised
    quiet,       \* nobody has written since its stat (history)
    outages      \* kills of the server

runVars == <<runPc, length, offset, latest, overlapped>>
colVars == <<colPc, size, data, answer>>
vars == <<report, runVars, colVars, quiet, outages>>

Smaller(a, b) == IF a < b THEN a ELSE b
Larger(a, b) == IF a < b THEN b ELSE a

(* The whole report of run r. *)
Report(r) == [i \in 1..length[r] |-> <<r, i>>]

Writing(r) == runPc[r] = "write"

(* Run r has opened the report; the others still write it, if any do. *)
Opened(r) ==
    /\ latest' = r
    /\ LET others == {o \in Runs \ {r} : Writing(o)}
       IN overlapped' = overlapped \cup others \cup (IF others = {} THEN {} ELSE {r})

-----------------------------------------------------------------------------
(* run_tests.                                                              *)

(***************************************************************************)
(* The command runs, as CommandContract allows: it is refused or cannot be *)
(* started or captured, or it ends, and the report is made of its result.  *)
(***************************************************************************)
RunCommand(r) ==
    /\ runPc[r] = "command"
    /\ \/ /\ runPc' = [runPc EXCEPT ![r] = "command_failed"]
          /\ UNCHANGED length
       \/ /\ runPc' = [runPc EXCEPT ![r] = "open"]
          /\ \E n \in 1..MaxBlocks : length' = [length EXCEPT ![r] = n]
    /\ UNCHANGED <<report, offset, latest, overlapped, colVars, quiet, outages>>

(* Somebody changes the report: no collection in progress is quiet. *)
Change(f) ==
    /\ report' = f
    /\ quiet' = [c \in Collects |-> FALSE]

(* Mutant: the report is opened without emptying it. *)
OpenKeeping(r) ==
    /\ runPc[r] = "open"
    /\ runPc' = [runPc EXCEPT ![r] = "write"]
    /\ Change(IF report = NoFile THEN <<>> ELSE report)
    /\ offset' = [offset EXCEPT ![r] = 0]
    /\ Opened(r)
    /\ UNCHANGED <<length, colVars, outages>>

(* Mutant: the report is given its size before it is written. *)
OpenSized(r) ==
    /\ runPc[r] = "open"
    /\ runPc' = [runPc EXCEPT ![r] = "write"]
    /\ Change([i \in 1..length[r] |-> Hole])
    /\ offset' = [offset EXCEPT ![r] = 0]
    /\ Opened(r)
    /\ UNCHANGED <<length, colVars, outages>>

(***************************************************************************)
(* The directory is made if need be, and the report opened and emptied.    *)
(* Opening may fail.                                                       *)
(***************************************************************************)
Open(r) ==
    /\ runPc[r] = "open"
    /\ runPc' = [runPc EXCEPT ![r] = "write"]
    /\ Change(<<>>)
    /\ offset' = [offset EXCEPT ![r] = 0]
    /\ Opened(r)
    /\ UNCHANGED <<length, colVars, outages>>

OpenFails(r) ==
    /\ runPc[r] = "open"
    /\ runPc' = [runPc EXCEPT ![r] = "open_failed"]
    /\ UNCHANGED <<report, length, offset, latest, overlapped, colVars, quiet, outages>>

(* The file after n blocks of run r are written at its offset. *)
Overwritten(r, n) ==
    LET end == offset[r] + n
    IN [i \in 1..Larger(end, Len(report)) |->
          IF i \in (offset[r] + 1)..end THEN <<r, i>>
          ELSE IF i <= Len(report) THEN report[i]
          ELSE Hole]

(* Mutant: after a short write all is written again. *)
WriteAll(r) ==
    /\ Writing(r)
    /\ offset[r] < length[r]
    /\ \E n \in 1..length[r] :
          /\ Change(Overwritten(r, n))
          /\ offset' = [offset EXCEPT ![r] = @ + n]
    /\ UNCHANGED <<runPc, length, latest, overlapped, colVars, outages>>

(* A write system call, of what is left or of a part of it. *)
Write(r) ==
    /\ Writing(r)
    /\ \E n \in 1..(length[r] - offset[r]) :
          /\ Change(Overwritten(r, n))
          /\ offset' = [offset EXCEPT ![r] = @ + n]
    /\ UNCHANGED <<runPc, length, latest, overlapped, colVars, outages>>

(* The file is closed once all is written, and run_tests returns. *)
Returns(r) ==
    /\ Writing(r)
    /\ offset[r] = length[r]
    /\ runPc' = [runPc EXCEPT ![r] = "done"]
    /\ UNCHANGED <<report, length, offset, latest, overlapped, colVars, quiet, outages>>

(* A write fails: OSError, the part written so far stays. *)
WriteFails(r) ==
    /\ Writing(r)
    /\ runPc' = [runPc EXCEPT ![r] = "write_failed"]
    /\ UNCHANGED <<report, length, offset, latest, overlapped, colVars, quiet, outages>>

RunTests(r) ==
    RunCommand(r) \/ Open(r) \/ OpenFails(r) \/ Write(r) \/ Returns(r) \/ WriteFails(r)

-----------------------------------------------------------------------------
(* collect_artifact.                                                       *)

Answer(c, what) ==
    /\ colPc' = [colPc EXCEPT ![c] = "done"]
    /\ answer' = [answer EXCEPT ![c] = what]

(* The report is looked up; that it was ever written is all that matters. *)
Resolve(c) ==
    /\ colPc[c] = "resolve"
    /\ IF report = NoFile THEN Answer(c, [kind |-> "not_found"])
       ELSE colPc' = [colPc EXCEPT ![c] = "stat"] /\ UNCHANGED answer
    /\ UNCHANGED <<report, runVars, size, data, quiet, outages>>

Stat(c) ==
    /\ colPc[c] = "stat"
    /\ colPc' = [colPc EXCEPT ![c] = "read"]
    /\ size' = [size EXCEPT ![c] = Len(report)]
    /\ quiet' = [quiet EXCEPT ![c] = TRUE]
    /\ UNCHANGED <<report, runVars, data, answer, outages>>

(* Mutant: the sample is not read when the limit is smaller. *)
ReadLimitOnly == Limit + 1

ReadLimit == Larger(Limit + 1, Sample)

(* A read system call, of any number of the blocks there are. *)
ReadSome(c) ==
    /\ colPc[c] = "read"
    /\ \E n \in 1..(Smaller(ReadLimit, Len(report)) - Len(data[c])) :
          data' = [data EXCEPT ![c] =
                      @ \o SubSeq(report, Len(@) + 1, Len(@) + n)]
    /\ UNCHANGED <<report, runVars, colPc, size, answer, quiet, outages>>

(* The result, before it is redacted. *)
Found(c) ==
    LET sample == SubSeq(data[c], 1, Smaller(Sample, Len(data[c])))
    IN IF \E i \in 1..Len(sample) : sample[i] = Hole THEN [kind |-> "binary"]
       ELSE [kind      |-> "artifact",
             content   |-> SubSeq(data[c], 1, Smaller(Limit, Len(data[c]))),
             truncated |-> size[c] > Limit]

(* All that was asked for is read, or the end of the file is reached. *)
Collected(c) ==
    /\ colPc[c] = "read"
    /\ Len(data[c]) >= Smaller(ReadLimit, Len(report))
    /\ Answer(c, Found(c))
    /\ UNCHANGED <<report, runVars, size, data, quiet, outages>>

CollectArtifact(c) == Resolve(c) \/ Stat(c) \/ ReadSome(c) \/ Collected(c)

-----------------------------------------------------------------------------

(***************************************************************************)
(* The server is killed: calls in progress end.  A run still at its        *)
(* command has left no trace, so it counts as not called yet.              *)
(***************************************************************************)
Crash ==
    /\ outages < MaxOutages
    /\ outages' = outages + 1
    /\ runPc' = [r \in Runs |-> IF runPc[r] \in {"open", "write"} THEN "killed" ELSE runPc[r]]
    /\ colPc' = [c \in Collects |-> IF colPc[c] = "resolve" THEN "resolve" ELSE "done"]
    /\ answer' = [c \in Collects |-> IF colPc[c] \in {"stat", "read"} THEN [kind |-> "killed"]
                                     ELSE answer[c]]
    /\ UNCHANGED <<report, length, offset, latest, overlapped, size, data, quiet>>

Finished ==
    /\ \A r \in Runs : runPc[r] \notin {"command", "open", "write"}
    /\ \A c \in Collects : colPc[c] = "done"
    /\ UNCHANGED vars

Init ==
    /\ report = NoFile
    /\ runPc = [r \in Runs |-> "command"]
    /\ length = [r \in Runs |-> 1]
    /\ offset = [r \in Runs |-> 0]
    /\ latest = NoRun
    /\ overlapped = {}
    /\ colPc = [c \in Collects |-> "resolve"]
    /\ size = [c \in Collects |-> 0]
    /\ data = [c \in Collects |-> <<>>]
    /\ answer = [c \in Collects |-> [kind |-> "none"]]
    /\ quiet = [c \in Collects |-> FALSE]
    /\ outages = 0

Next ==
    \/ \E r \in Runs : RunTests(r)
    \/ \E c \in Collects : CollectArtifact(c)
    \/ Crash
    \/ Finished

Spec == Init /\ [][Next]_vars

-----------------------------------------------------------------------------

(* Every variable has its type. *)
Answers ==
    [kind : {"none", "not_found", "binary", "killed"}]
        \cup [kind : {"artifact"}, content : Seq(Blocks), truncated : BOOLEAN]

TypeOK ==
    /\ report \in Seq(Blocks) \cup {NoFile}
    /\ runPc \in [Runs -> {"command", "open", "write", "done", "command_failed",
                           "open_failed", "write_failed", "killed"}]
    /\ length \in [Runs -> 1..MaxBlocks]
    /\ offset \in [Runs -> 0..MaxBlocks]
    /\ latest \in Runs \cup {NoRun}
    /\ overlapped \subseteq Runs
    /\ colPc \in [Collects -> {"resolve", "stat", "read", "done"}]
    /\ size \in [Collects -> Nat]
    /\ data \in [Collects -> Seq(Blocks)]
    /\ answer \in [Collects -> Answers]
    /\ quiet \in [Collects -> BOOLEAN]
    /\ outages \in Nat

(***************************************************************************)
(* The report_path a run returns leads to its own report, whole, as long   *)
(* as it is the last run that wrote it and wrote it alone; what is left of *)
(* earlier runs, of failed ones and of kills never shows.                  *)
(***************************************************************************)
LoneReportIsWhole ==
    latest # NoRun /\ latest \notin overlapped /\ runPc[latest] = "done"
        => report = Report(latest)

(***************************************************************************)
(* A collection during which nobody wrote returns what the report holds,   *)
(* cut at the limit and marked so exactly when it is cut, and refuses it   *)
(* exactly when its sample, which may be longer than the limit, has a hole.*)
(***************************************************************************)
Shown(f) ==
    IF \E i \in 1..Smaller(Sample, Len(f)) : f[i] = Hole THEN [kind |-> "binary"]
    ELSE [kind      |-> "artifact",
          content   |-> SubSeq(f, 1, Smaller(Limit, Len(f))),
          truncated |-> Limit < Len(f)]

QuietCollectIsExact ==
    \A c \in Collects :
        quiet[c] /\ answer[c].kind \in {"artifact", "binary"} => answer[c] = Shown(report)

(***************************************************************************)
(* A collection refuses a report as binary only if two runs wrote it at    *)
(* once: one run alone, complete or not, leaves no hole, and a reader      *)
(* never sees one before the data.                                         *)
(***************************************************************************)
BinaryOnlyByOverlap ==
    \A c \in Collects : answer[c].kind = "binary" => overlapped # {}

=============================================================================
