-------------------------- MODULE SubprocessCapture --------------------------
(***************************************************************************)
(* One call of run_bounded_subprocess                                      *)
(* (services/subprocess_capture.py): the thread that makes the call, the   *)
(* two daemon threads that drain the command's pipes, the command itself   *)
(* (the leader of a new process group) and the descendants it starts,      *)
(* which inherit its pipes.                                                *)
(*                                                                         *)
(* The calling thread is a program counter over the steps of the source.   *)
(* Time is abstract: a wait with a timeout may give up whenever what it    *)
(* waits for has not happened yet.                                         *)
(*                                                                         *)
(* Bytes are counted.  A pipe is read in order, so byte i of a stream is   *)
(* the i-th ever written to it, and a prefix is its length.                *)
(***************************************************************************)
EXTENDS Integers

CONSTANTS
    Leader,         \* the process Popen starts
    Descendants,    \* the processes the command may start
    MaxBytes,       \* max_output_bytes
    ChunkBytes,     \* READ_CHUNK_BYTES
    PipeBytes,      \* capacity of an operating-system pipe
    OutputBytes,    \* bound: the most the command writes to each stream
    Platforms       \* the hosts considered

Streams == {"stdout", "stderr"}

ASSUME ConstantsAssumption ==
    /\ Leader \notin Descendants
    /\ MaxBytes \in Nat \ {0}
    /\ ChunkBytes \in Nat \ {0}
    /\ PipeBytes \in Nat \ {0}
    /\ OutputBytes \in [Streams -> Nat]
    /\ Platforms \subseteq {"posix", "nogroup", "windows"}

VARIABLES
    platform,       \* the host: "nogroup" is one that has no os.killpg
    \* the calling thread
    pc,             \* the step of run_bounded_subprocess it is at
    timed_out,      \* its local of that name
    outcome,        \* how the call ended: what it returned or raised
    \* the processes
    proc,           \* life of each process
    fds,            \* the streams each process holds open for writing
    grouped,        \* the processes in the leader's process group
    doomed,         \* the processes a fatal signal is pending for
    code,           \* exit status of the leader
    \* the pipes and the threads that drain them
    written,        \* bytes ever written to each stream
    inPipe,         \* bytes in each pipe
    closed,         \* pipe.close() was called on our end
    reader,         \* state of each reader thread
    chunk,          \* bytes the current pipe.read() has gathered
    seen,           \* bytes pipe.read() has returned so far
    captured,       \* _PipeCapture.captured_bytes
    truncated       \* _PipeCapture.truncated

callVars == <<platform, pc, timed_out, outcome>>
procVars == <<proc, fds, grouped, doomed, code>>
pipeVars == <<written, inPipe, closed>>
readVars == <<reader, chunk, seen, captured, truncated>>
vars     == <<platform, pc, timed_out, outcome, proc, fds, grouped, doomed, code,
              written, inPipe, closed, reader, chunk, seen, captured, truncated>>

Procs == {Leader} \cup Descendants

Running == {p \in Procs : proc[p] = "running"}

Steps == {"start", "wait", "poll", "terminate", "grace", "killgroup", "wait2",
          "kill", "wait3", "join", "close_stdout", "close_stderr", "rejoin",
          "check", "done"}

Least(a, b) == IF a <= b THEN a ELSE b

-----------------------------------------------------------------------------
(* The command and its descendants: an environment the source only sees    *)
(* through wait(), signals and pipes.                                      *)

(***************************************************************************)
(* p starts q, which inherits some of p's pipes and p's process group      *)
(* unless it leaves it (setsid).  A fork does not escape a pending signal. *)
(***************************************************************************)
Spawn(p, q) ==
    /\ p \in Running \ doomed
    /\ proc[q] = "unborn"
    /\ proc' = [proc EXCEPT ![q] = "running"]
    /\ \E kept \in SUBSET fds[p] : fds' = [fds EXCEPT ![q] = kept]
    /\ grouped' \in {grouped} \cup (IF p \in grouped THEN {grouped \cup {q}} ELSE {})
    /\ UNCHANGED <<doomed, code, callVars, pipeVars, readVars>>

(***************************************************************************)
(* A byte is written.  On a pipe we have closed the writer only meets      *)
(* SIGPIPE, which is one of the causes of Exit.                            *)
(***************************************************************************)
Write(p, s) ==
    /\ p \in Running
    /\ s \in fds[p]
    /\ ~ closed[s]
    /\ inPipe[s] < PipeBytes
    /\ written[s] < OutputBytes[s]
    /\ inPipe' = [inPipe EXCEPT ![s] = @ + 1]
    /\ written' = [written EXCEPT ![s] = @ + 1]
    /\ UNCHANGED <<closed, callVars, procVars, readVars>>

CloseEnd(p, s) ==
    /\ p \in Running
    /\ s \in fds[p]
    /\ fds' = [fds EXCEPT ![p] = @ \ {s}]
    /\ UNCHANGED <<proc, grouped, doomed, code, callVars, pipeVars, readVars>>

Ends(p, how) ==
    /\ p \in Running
    /\ proc' = [proc EXCEPT ![p] = "exited"]
    /\ fds' = [fds EXCEPT ![p] = {}]
    /\ doomed' = doomed \ {p}
    /\ code' = IF p = Leader THEN how ELSE code
    /\ UNCHANGED <<grouped, callVars, pipeVars, readVars>>

Exit(p) == Ends(p, "own")

Die(p) == p \in doomed /\ Ends(p, "killed")

-----------------------------------------------------------------------------
(* The calling thread.                                                     *)

(* Popen succeeds and the collector starts its two threads. *)
Start ==
    /\ pc = "start"
    /\ pc' = "wait"
    /\ proc' = [proc EXCEPT ![Leader] = "running"]
    /\ fds' = [fds EXCEPT ![Leader] = Streams]
    /\ grouped' = {Leader}
    /\ reader' = [s \in Streams |-> "idle"]
    /\ UNCHANGED <<platform, timed_out, outcome, doomed, code, pipeVars, chunk, seen, captured, truncated>>

(* Popen raises OSError. *)
StartFails ==
    /\ pc = "start"
    /\ pc' = "done"
    /\ outcome' = "start_error"
    /\ UNCHANGED <<platform, timed_out, procVars, pipeVars, readVars>>

(* Mutant: forgets that poll() may have reaped the leader already. *)
LeaderEndedUnreapedOnly == proc[Leader] = "exited"

LeaderEnded == proc[Leader] \in {"exited", "reaped"}

(* What wait(), poll() and send_signal() do to a leader that has ended. *)
Reap == proc' = [proc EXCEPT ![Leader] = IF @ = "exited" THEN "reaped" ELSE @]

Goto(from, to) ==
    /\ pc = from
    /\ pc' = to
    /\ UNCHANGED <<platform, outcome>>

(* process.wait() at step from returns: the leader has ended. *)
WaitReturns(from, to) ==
    /\ Goto(from, to)
    /\ LeaderEnded
    /\ Reap
    /\ UNCHANGED <<timed_out, fds, grouped, doomed, code, pipeVars, readVars>>

(* process.wait(timeout) at step from gives up on a running leader. *)
WaitExpires(from, to) ==
    /\ Goto(from, to)
    /\ ~ LeaderEnded
    /\ timed_out' = TRUE
    /\ UNCHANGED <<procVars, pipeVars, readVars>>

Wait  == WaitReturns("wait", "join")   \/ WaitExpires("wait", "poll")
Grace == WaitReturns("grace", "wait2") \/ WaitExpires("grace", "killgroup")
Wait2 == WaitReturns("wait2", "join")  \/ WaitExpires("wait2", "kill")
Wait3 == WaitReturns("wait3", "join")

(* Mutant: the early return of _terminate_process_tree is missing. *)
PollWithoutReturn ==
    /\ Goto("poll", "terminate")
    /\ Reap
    /\ UNCHANGED <<timed_out, fds, grouped, doomed, code, pipeVars, readVars>>

(* The first statement of _terminate_process_tree. *)
Poll ==
    /\ Goto("poll", IF LeaderEnded THEN "wait2" ELSE "terminate")
    /\ Reap
    /\ UNCHANGED <<timed_out, fds, grouped, doomed, code, pipeVars, readVars>>

(* A fatal signal reaches the processes of targets that are still running. *)
Doom(targets) ==
    /\ doomed' = doomed \cup (targets \cap Running)
    /\ UNCHANGED <<timed_out, fds, grouped, code, pipeVars, readVars>>

(* SIGTERM: any process may have a handler or may ignore it. *)
SigTerm(targets) == \E obeying \in SUBSET targets : Doom(obeying)

(***************************************************************************)
(* Popen.terminate() and Popen.kill() poll first and do nothing to a       *)
(* leader that has ended; killpg(getpgid(pid)) signals the whole group     *)
(* and leaves the leader unreaped.                                         *)
(***************************************************************************)
SignalGroupTerm ==
    \/ platform = "posix"   /\ SigTerm(grouped)  /\ UNCHANGED proc
    \/ platform = "nogroup" /\ SigTerm({Leader}) /\ Reap

(* Mutant: the escalation kills the leader and not its group. *)
SignalLeaderKill == Doom({Leader}) /\ Reap

SignalGroupKill ==
    \/ platform = "posix"   /\ Doom(grouped)     /\ UNCHANGED proc
    \/ platform = "nogroup" /\ SigTerm({Leader}) /\ Reap

TerminatePosix == Goto("terminate", "grace") /\ SignalGroupTerm

KillGroup == Goto("killgroup", "wait2") /\ SignalGroupKill

(***************************************************************************)
(* taskkill /T /F ends some of the processes, whatever status it returns;  *)
(* when it is missing or overruns its own timeout the leader is killed     *)
(* too.                                                                    *)
(***************************************************************************)
TerminateWindows ==
    /\ platform = "windows"
    /\ Goto("terminate", "wait2")
    /\ \E found \in SUBSET Procs :
          \/ Doom(found) /\ UNCHANGED proc
          \/ Doom(found \cup {Leader}) /\ Reap

(* Mutant: the wait is repeated without process.kill(). *)
KillOmitted == Goto("kill", "wait3") /\ Doom({}) /\ UNCHANGED proc

(* process.kill() in run_bounded_subprocess. *)
Kill ==
    /\ Goto("kill", "wait3")
    /\ Doom({Leader})
    /\ Reap

-----------------------------------------------------------------------------
(* _OutputCollector.finish, on the calling thread.                         *)

ReaderDead(s) == reader[s] \in {"eof", "failed", "crashed"}

ReadersDead == \A s \in Streams : ReaderDead(s)

FinishStep(from, to) ==
    /\ Goto(from, to)
    /\ UNCHANGED <<timed_out, procVars, pipeVars, readVars>>

(* Mutant: the threads are assumed to have finished after the first join. *)
JoinUnchecked == FinishStep("join", "check")

Join == FinishStep("join", IF ReadersDead THEN "check" ELSE "close_stdout")

(***************************************************************************)
(* pipe.close() takes the lock of the buffered pipe, which a reader inside *)
(* pipe.read() holds until its read returns.                               *)
(***************************************************************************)
ClosePipe(from, s, to) ==
    /\ Goto(from, to)
    /\ reader[s] # "reading"
    /\ closed' = [closed EXCEPT ![s] = TRUE]
    /\ UNCHANGED <<timed_out, procVars, written, inPipe, readVars>>

ClosePipes ==
    \/ ClosePipe("close_stdout", "stdout", "close_stderr")
    \/ ClosePipe("close_stderr", "stderr", "rejoin")

Returns(how) ==
    /\ pc' = "done"
    /\ outcome' = how
    /\ UNCHANGED <<platform, timed_out, procVars, pipeVars, readVars>>

RejoinDone == ReadersDead /\ FinishStep("rejoin", "check")

(* A thread is still alive after the second join. *)
RejoinExpires ==
    /\ pc = "rejoin"
    /\ ~ ReadersDead
    /\ Returns("capture_error")

(* capture.error is set by OSError only, not by a reader that crashed. *)
Check ==
    /\ pc = "check"
    /\ Returns(IF \E s \in Streams : reader[s] = "failed" THEN "read_error" ELSE "ok")

Call ==
    \/ Start \/ StartFails
    \/ Wait \/ Poll \/ TerminatePosix \/ TerminateWindows
    \/ Grace \/ KillGroup \/ Wait2 \/ Kill \/ Wait3
    \/ Join \/ ClosePipes \/ RejoinDone \/ RejoinExpires \/ Check

-----------------------------------------------------------------------------
(* _read_limited_pipe, on the reader thread of stream s.                   *)

(* Mutant: a read that finds the pipe empty is taken for end of file. *)
AtEofWhenEmpty(s) == inPipe[s] = 0

AtEof(s) == inPipe[s] = 0 /\ \A p \in Procs : s \notin fds[p]

(* Mutant: the thread stops reading once it has all it keeps. *)
BeginReadWhileRoom(s) ==
    /\ reader[s] = "idle"
    /\ captured[s] < MaxBytes
    /\ reader' = [reader EXCEPT ![s] = IF closed[s] THEN "crashed" ELSE "reading"]
    /\ UNCHANGED <<callVars, procVars, pipeVars, chunk, seen, captured, truncated>>

(***************************************************************************)
(* pipe.read() is entered; on a pipe the calling thread has closed it      *)
(* raises ValueError, which no handler of the thread catches.              *)
(***************************************************************************)
BeginRead(s) ==
    /\ reader[s] = "idle"
    /\ reader' = [reader EXCEPT ![s] = IF closed[s] THEN "crashed" ELSE "reading"]
    /\ UNCHANGED <<callVars, procVars, pipeVars, chunk, seen, captured, truncated>>

(* Inside pipe.read(), holding its lock: bytes arrive. *)
Fill(s) ==
    LET n == Least(inPipe[s], ChunkBytes - chunk[s]) IN
    /\ reader[s] = "reading"
    /\ n > 0
    /\ chunk' = [chunk EXCEPT ![s] = @ + n]
    /\ inPipe' = [inPipe EXCEPT ![s] = @ - n]
    /\ UNCHANGED <<written, closed, callVars, procVars, reader, seen, captured, truncated>>

(***************************************************************************)
(* pipe.read() returns a full chunk, or what it has at end of file, and    *)
(* the loop body keeps some of its bytes.                                  *)
(***************************************************************************)
Keep(s, bytes, flag) ==
    /\ reader[s] = "reading"
    /\ \/ chunk[s] = ChunkBytes
       \/ chunk[s] > 0 /\ AtEof(s)
    /\ reader' = [reader EXCEPT ![s] = "idle"]
    /\ chunk' = [chunk EXCEPT ![s] = 0]
    /\ seen' = [seen EXCEPT ![s] = @ + chunk[s]]
    /\ captured' = [captured EXCEPT ![s] = @ + bytes]
    /\ truncated' = [truncated EXCEPT ![s] = @ \/ flag]
    /\ UNCHANGED <<callVars, procVars, pipeVars>>

(* Mutants: the chunk is not cut; a stream that just fits is flagged. *)
DeliverUncut(s) == Keep(s, chunk[s], FALSE)

DeliverFlagsFull(s) ==
    LET remaining == MaxBytes - captured[s] IN
    Keep(s, Least(chunk[s], remaining), chunk[s] >= remaining)

(* The loop body keeps what still fits. *)
Deliver(s) ==
    LET remaining == MaxBytes - captured[s] IN
    Keep(s, Least(chunk[s], remaining), chunk[s] > remaining)

(* The thread leaves the loop and its finally clause closes the pipe. *)
Leaves(s, how) ==
    /\ reader[s] = "reading"
    /\ reader' = [reader EXCEPT ![s] = how]
    /\ closed' = [closed EXCEPT ![s] = TRUE]
    /\ UNCHANGED <<written, inPipe, callVars, procVars, chunk, seen, captured, truncated>>

ReadEof(s) == chunk[s] = 0 /\ AtEof(s) /\ Leaves(s, "eof")

ReadFails(s) == Leaves(s, "failed")

Reader(s) == BeginRead(s) \/ Fill(s) \/ Deliver(s) \/ ReadEof(s)

-----------------------------------------------------------------------------

Init ==
    /\ platform \in Platforms
    /\ pc = "start"
    /\ timed_out = FALSE
    /\ outcome = "none"
    /\ proc = [p \in Procs |-> "unborn"]
    /\ fds = [p \in Procs |-> {}]
    /\ grouped = {}
    /\ doomed = {}
    /\ code = "none"
    /\ written = [s \in Streams |-> 0]
    /\ inPipe = [s \in Streams |-> 0]
    /\ closed = [s \in Streams |-> FALSE]
    /\ reader = [s \in Streams |-> "unstarted"]
    /\ chunk = [s \in Streams |-> 0]
    /\ seen = [s \in Streams |-> 0]
    /\ captured = [s \in Streams |-> 0]
    /\ truncated = [s \in Streams |-> FALSE]

Command ==
    \/ \E p \in Procs, q \in Descendants : Spawn(p, q)
    \/ \E p \in Procs, s \in Streams : Write(p, s) \/ CloseEnd(p, s)
    \/ \E p \in Procs : Exit(p) \/ Die(p)

Reading == \E s \in Streams : Reader(s) \/ ReadFails(s)

(* Nothing more happens once the call is over and its threads are too. *)
Finished ==
    /\ pc = "done"
    /\ UNCHANGED vars

Next == Call \/ Command \/ Reading \/ Finished

Spec == Init /\ [][Next]_vars

(***************************************************************************)
(* The threads are scheduled, timeouts expire, pipe.read() takes what is   *)
(* there, and a fatal signal kills.  Nothing is assumed of the command: it *)
(* need not write, close its pipes, or ever end.                           *)
(***************************************************************************)
Fairness ==
    /\ WF_vars(Call)
    /\ \A s \in Streams : WF_vars(Reader(s))
    /\ \A p \in Procs : WF_vars(Die(p))

FairSpec == Spec /\ Fairness

-----------------------------------------------------------------------------
(* What the call guarantees.                                               *)

(* Every variable has its type; _PipeCapture never holds more than MaxBytes. *)
TypeOK ==
    /\ platform \in Platforms
    /\ pc \in Steps
    /\ timed_out \in BOOLEAN
    /\ outcome \in {"none", "ok", "start_error", "capture_error", "read_error"}
    /\ proc \in [Procs -> {"unborn", "running", "exited", "reaped"}]
    /\ fds \in [Procs -> SUBSET Streams]
    /\ grouped \subseteq Procs
    /\ doomed \subseteq Procs
    /\ code \in {"none", "own", "killed"}
    /\ written \in [Streams -> Nat]
    /\ inPipe \in [Streams -> 0..PipeBytes]
    /\ closed \in [Streams -> BOOLEAN]
    /\ reader \in [Streams -> {"unstarted", "idle", "reading", "eof", "failed", "crashed"}]
    /\ chunk \in [Streams -> 0..ChunkBytes]
    /\ seen \in [Streams -> Nat]
    /\ captured \in [Streams -> 0..MaxBytes]
    /\ truncated \in [Streams -> BOOLEAN]

(***************************************************************************)
(* However the reads cut the stream, what a reader keeps is the longest    *)
(* prefix of what it read that fits, and it says so when it dropped some   *)
(* (the arithmetic of _read_limited_pipe).                                 *)
(***************************************************************************)
CaptureIsBoundedPrefix ==
    \A s \in Streams :
        /\ captured[s] = Least(seen[s], MaxBytes)
        /\ truncated[s] <=> seen[s] > MaxBytes

(***************************************************************************)
(* A full pipe, whose writer is blocked, only ever waits for its reader    *)
(* thread to be scheduled: a command that writes more than is kept is      *)
(* drained and not held up until its time limit.                           *)
(***************************************************************************)
FullPipeIsDrained ==
    \A s \in Streams : inPipe[s] = PipeBytes /\ ~ closed[s] => ENABLED Reader(s)

(***************************************************************************)
(* A stream of a result is complete, unless its thread has died of an      *)
(* exception it does not catch: no process can write to it any more, and   *)
(* the result holds everything any process wrote to it, or its first       *)
(* MaxBytes and the flag.  In particular no result is made of a stream     *)
(* whose read failed, or is still going on, when the other one ended well. *)
(***************************************************************************)
EofMeansComplete ==
    outcome = "ok" =>
        \A s \in Streams : reader[s] # "crashed" =>
            /\ \A p \in Procs : s \notin fds[p]
            /\ captured[s] = Least(written[s], MaxBytes)
            /\ truncated[s] <=> written[s] > MaxBytes

(***************************************************************************)
(* The same of every result that is returned: finish() raises unless both  *)
(* captures have finished, so an unflagged stream is complete.             *)
(***************************************************************************)
ReturnedMeansComplete ==
    outcome = "ok" =>
        \A s \in Streams : ~ truncated[s] => captured[s] = written[s]

(***************************************************************************)
(* No signal is sent once the leader has been reaped: from then on the     *)
(* operating system may give its pid, and its group, to somebody else      *)
(* (the poll() and wait() tests of _terminate_process_tree).               *)
(***************************************************************************)
SignalsOnlyWhileUnreaped ==
    [][doomed' \subseteq doomed \/ proc[Leader] # "reaped"]_vars

(* What the caller sees of the call: the variables of CommandContract. *)
Capture(s) == [bytes |-> captured[s], truncated |-> truncated[s]]

CallPhase ==
    IF pc = "start" THEN "ready"
    ELSE IF outcome = "none" THEN "running"
    ELSE IF outcome = "ok" THEN "returned" ELSE "raised"

CallResult ==
    IF outcome = "ok"
    THEN [exit_code |-> code, timed_out |-> timed_out,
          stdout |-> Capture("stdout"), stderr |-> Capture("stderr")]
    ELSE [exit_code |-> "none", timed_out |-> FALSE,
          stdout |-> [bytes |-> 0, truncated |-> FALSE],
          stderr |-> [bytes |-> 0, truncated |-> FALSE]]

Contract == INSTANCE CommandContract WITH phase <- CallPhase, result <- CallResult

(***************************************************************************)
(* The call is one of the calls CommandContract allows: a result appears   *)
(* once, is legal, and no reader thread changes it afterwards.             *)
(***************************************************************************)
ImplementsContract == Contract!ContractSpec

(***************************************************************************)
(* The leader is always waited for, even if it ignores SIGTERM and even    *)
(* where groups cannot be signalled: no command outlives its time limit    *)
(* for ever and none is left a zombie (run_bounded_subprocess).            *)
(***************************************************************************)
LeaderIsReaped == (pc = "wait") ~> (proc[Leader] = "reaped")

(***************************************************************************)
(* Once the call escalates to SIGKILL, nothing of the group survives: not  *)
(* a member that ignored SIGTERM, nor one that was being started.          *)
(***************************************************************************)
EscalationEndsGroup ==
    (pc = "killgroup" /\ platform = "posix") ~> (grouped \cap Running = {})

(***************************************************************************)
(* Once no process holds a pipe, whether or not the leader is alive, the   *)
(* call ends.                                                              *)
(***************************************************************************)
ReturnsOnceReleased ==
    (pc # "start" /\ \A p \in Procs : fds[p] = {}) ~> (pc = "done")

(* Every call ends, whatever the command does: it is subject to a timeout. *)
CallReturns == <>(pc = "done")

=============================================================================
