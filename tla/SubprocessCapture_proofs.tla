----------------------- MODULE SubprocessCapture_proofs -----------------------
(***************************************************************************)
(* Theorems about SubprocessCapture, for every set of descendants, every   *)
(* output limit, chunk and pipe size, and every kind of host.              *)
(***************************************************************************)
EXTENDS SubprocessCapture, TLAPS

LEMMA LeastFacts ==
    ASSUME NEW a \in Int, NEW b \in Int
    PROVE  /\ Least(a, b) \in Int
           /\ Least(a, b) <= a
           /\ Least(a, b) <= b
           /\ Least(a, b) = a \/ Least(a, b) = b
  BY DEF Least

-----------------------------------------------------------------------------

LEMMA TypeInit == Init => TypeOK
<1> SUFFICES ASSUME Init PROVE TypeOK
  OBVIOUS
<1>1. /\ MaxBytes \in Nat /\ ChunkBytes \in Nat /\ PipeBytes \in Nat
      /\ "start" \in Steps
  BY ConstantsAssumption DEF Steps
<1>2. /\ proc \in [Procs -> {"unborn", "running", "exited", "reaped"}]
      /\ fds \in [Procs -> SUBSET Streams]
  BY DEF Init
<1>3. /\ inPipe \in [Streams -> 0..PipeBytes] /\ chunk \in [Streams -> 0..ChunkBytes]
      /\ captured \in [Streams -> 0..MaxBytes]
      /\ written \in [Streams -> Nat] /\ seen \in [Streams -> Nat]
  BY <1>1 DEF Init
<1>4. /\ closed \in [Streams -> BOOLEAN] /\ truncated \in [Streams -> BOOLEAN]
      /\ reader \in [Streams -> {"unstarted", "idle", "reading", "eof", "failed", "crashed"}]
  BY DEF Init
<1> QED
  BY <1>1, <1>2, <1>3, <1>4 DEF Init, TypeOK

LEMMA TypeCall ==
    ASSUME TypeOK, Call PROVE TypeOK'
<1> USE ConstantsAssumption DEF TypeOK
<1>1. CASE Start
  BY <1>1 DEF Start, Procs, Steps, pipeVars
<1>2. CASE StartFails
  BY <1>2 DEF StartFails, Procs, Steps, pipeVars, procVars, readVars
<1>3. CASE Wait \/ Grace \/ Wait2 \/ Wait3
  <2>1. PICK from, to \in Steps : WaitReturns(from, to) \/ WaitExpires(from, to)
    BY <1>3 DEF Wait, Grace, Wait2, Wait3, Steps
  <2>2. CASE WaitReturns(from, to)
    BY <2>2 DEF WaitReturns, Goto, Reap, Procs, pipeVars, readVars
  <2>3. CASE WaitExpires(from, to)
    BY <2>3 DEF WaitExpires, Goto, pipeVars, procVars, readVars
  <2> QED
    BY <2>1, <2>2, <2>3
<1>4. CASE Poll
  BY <1>4 DEF Poll, Goto, Reap, Procs, Steps, pipeVars, procVars, readVars
<1>5. CASE TerminatePosix
  BY <1>5 DEF TerminatePosix, SignalGroupTerm, SigTerm, Doom, Running, Goto, Reap, Procs, Steps, pipeVars, readVars
<1>6. CASE TerminateWindows
  BY <1>6 DEF TerminateWindows, Doom, Running, Goto, Reap, Procs, Steps, pipeVars, readVars
<1>7. CASE KillGroup
  BY <1>7 DEF KillGroup, SignalGroupKill, SigTerm, Doom, Running, Goto, Reap, Procs, Steps, pipeVars, readVars
<1>8. CASE Kill
  BY <1>8 DEF Kill, Doom, Running, Goto, Reap, Procs, Steps, pipeVars, readVars
<1>9. CASE Join \/ RejoinDone
  BY <1>9 DEF Join, RejoinDone, FinishStep, Goto, Steps, pipeVars, procVars, readVars
<1>10. CASE ClosePipes
  <2>1. ASSUME NEW from, NEW s \in Streams, NEW to \in Steps, ClosePipe(from, s, to)
        PROVE  TypeOK'
    <3>1. /\ pc' = to /\ closed' = [closed EXCEPT ![s] = TRUE]
          /\ UNCHANGED <<platform, outcome, timed_out, procVars, written, inPipe, readVars>>
      BY <2>1 DEF ClosePipe, Goto
    <3>2. closed' \in [Streams -> BOOLEAN]
      BY <3>1
    <3> QED
      BY <3>1, <3>2 DEF procVars, readVars
  <2>2. /\ "stdout" \in Streams /\ "stderr" \in Streams
        /\ "close_stderr" \in Steps /\ "rejoin" \in Steps
    BY DEF Streams, Steps
  <2> QED
    BY <1>10, <2>1, <2>2 DEF ClosePipes
<1>11. CASE RejoinExpires \/ Check
  BY <1>11 DEF RejoinExpires, Check, Returns, Steps, pipeVars, procVars, readVars
<1> QED
  BY <1>1, <1>2, <1>3, <1>4, <1>5, <1>6, <1>7, <1>8, <1>9, <1>10, <1>11 DEF Call

LEMMA TypeCommand ==
    ASSUME TypeOK, Command PROVE TypeOK'
<1> USE ConstantsAssumption DEF TypeOK
<1>1. ASSUME NEW p \in Procs, NEW q \in Descendants, Spawn(p, q) PROVE TypeOK'
  BY <1>1 DEF Spawn, Procs, Running, callVars, pipeVars, readVars
<1>2. ASSUME NEW p \in Procs, NEW s \in Streams, Write(p, s) PROVE TypeOK'
  BY <1>2 DEF Write, callVars, procVars, readVars
<1>3. ASSUME NEW p \in Procs, NEW s \in Streams, CloseEnd(p, s) PROVE TypeOK'
  BY <1>3 DEF CloseEnd, callVars, pipeVars, readVars
<1>4. ASSUME NEW p \in Procs, Exit(p) \/ Die(p) PROVE TypeOK'
  BY <1>4 DEF Exit, Die, Ends, callVars, pipeVars, readVars
<1> QED
  BY <1>1, <1>2, <1>3, <1>4 DEF Command

LEMMA TypeReading ==
    ASSUME TypeOK, Reading PROVE TypeOK'
<1> USE ConstantsAssumption DEF TypeOK
<1> SUFFICES ASSUME NEW s \in Streams, Reader(s) \/ ReadFails(s) PROVE TypeOK'
  BY DEF Reading
<1>1. CASE BeginRead(s)
  <2>1. reader' \in [Streams -> {"unstarted", "idle", "reading", "eof", "failed", "crashed"}]
    BY <1>1 DEF BeginRead
  <2> QED
    BY <1>1, <2>1 DEF BeginRead, callVars, procVars, pipeVars
<1>2. CASE Fill(s)
  <2> DEFINE n == Least(inPipe[s], ChunkBytes - chunk[s])
  <2>1. n \in 1..inPipe[s] /\ n <= ChunkBytes - chunk[s]
    <3>1. inPipe[s] \in Nat /\ ChunkBytes - chunk[s] \in Int
      OBVIOUS
    <3> QED
      BY <1>2, <3>1, LeastFacts DEF Fill
  <2>2. chunk[s] + n \in 0..ChunkBytes /\ inPipe[s] - n \in 0..PipeBytes
    BY <2>1
  <2>3. chunk' \in [Streams -> 0..ChunkBytes] /\ inPipe' \in [Streams -> 0..PipeBytes]
    BY <1>2, <2>2 DEF Fill
  <2> QED
    BY <1>2, <2>3 DEF Fill, callVars, procVars
<1>3. CASE Deliver(s)
  <2> DEFINE n == Least(chunk[s], MaxBytes - captured[s])
  <2>1. n \in Int /\ 0 <= n /\ n <= MaxBytes - captured[s]
    <3>1. chunk[s] \in Nat /\ MaxBytes - captured[s] \in Nat
      OBVIOUS
    <3> QED
      BY <3>1 DEF Least
  <2>2. captured' \in [Streams -> 0..MaxBytes]
    BY <1>3, <2>1 DEF Deliver, Keep
  <2>3. seen' \in [Streams -> Nat] /\ truncated' \in [Streams -> BOOLEAN]
    BY <1>3 DEF Deliver, Keep
  <2> QED
    BY <1>3, <2>2, <2>3 DEF Deliver, Keep, callVars, procVars, pipeVars
<1>4. CASE ReadEof(s) \/ ReadFails(s)
  <2>1. PICK how \in {"eof", "failed"} : Leaves(s, how)
    BY <1>4 DEF ReadEof, ReadFails
  <2>2. reader' \in [Streams -> {"unstarted", "idle", "reading", "eof", "failed", "crashed"}]
    BY <2>1 DEF Leaves
  <2>3. closed' \in [Streams -> BOOLEAN]
    BY <2>1 DEF Leaves
  <2> QED
    BY <2>1, <2>2, <2>3 DEF Leaves, callVars, procVars
<1> QED
  BY <1>1, <1>2, <1>3, <1>4 DEF Reader

LEMMA TypeStep == TypeOK /\ [Next]_vars => TypeOK'
<1> SUFFICES ASSUME TypeOK, [Next]_vars PROVE TypeOK'
  OBVIOUS
<1>1. CASE UNCHANGED vars
  BY <1>1 DEF vars, TypeOK
<1>2. CASE Finished
  BY <1>1, <1>2 DEF Finished
<1> QED
  BY <1>1, <1>2, TypeCall, TypeCommand, TypeReading DEF Next

(* Every reachable state is well typed, so no capture exceeds MaxBytes. *)
THEOREM TypeCorrect == Spec => []TypeOK
  BY TypeInit, TypeStep, PTL DEF Spec

-----------------------------------------------------------------------------
(***************************************************************************)
(* The streams.  CaptureIsBoundedPrefix is inductive with TypeOK; that end *)
(* of file means complete needs two more facts: no byte is lost between    *)
(* the write and the capture, and nothing is written after end of file,    *)
(* because the reader has closed the pipe.  That no process holds the pipe *)
(* any more is an invariant of its own, NoWriterAtEof.                     *)
(***************************************************************************)
Conserved(s) == written[s] = seen[s] + chunk[s] + inPipe[s]

Prefix(s) ==
    /\ captured[s] = Least(seen[s], MaxBytes)
    /\ truncated[s] <=> seen[s] > MaxBytes

EofIsFinal(s) ==
    reader[s] = "eof" => closed[s] /\ chunk[s] = 0 /\ inPipe[s] = 0

StreamInv == \A s \in Streams : Conserved(s) /\ Prefix(s) /\ EofIsFinal(s)

LEMMA StreamInit == Init => StreamInv
  BY ConstantsAssumption DEF Init, StreamInv, Conserved, Prefix, EofIsFinal, Least

(* What one step may do to one stream. *)
LEMMA StreamCall ==
    ASSUME TypeOK, StreamInv, Call PROVE StreamInv'
<1>1. CASE Start
  BY <1>1 DEF Start, StreamInv, Conserved, Prefix, EofIsFinal, pipeVars
<1>2. CASE ClosePipes
  BY <1>2 DEF ClosePipes, ClosePipe, TypeOK, StreamInv, Conserved, Prefix, EofIsFinal, readVars
<1>3. CASE ~ Start /\ ~ ClosePipes
  <2>1. UNCHANGED <<pipeVars, readVars>>
    BY <1>3 DEF Call, StartFails, Wait, Poll, TerminatePosix, SignalGroupTerm,
       TerminateWindows, Grace, KillGroup, SignalGroupKill, Wait2, Kill, Wait3, Join,
       RejoinDone, RejoinExpires, Check, WaitReturns, WaitExpires, SigTerm, Doom,
       FinishStep, Returns
  <2> QED
    BY <2>1 DEF StreamInv, Conserved, Prefix, EofIsFinal, pipeVars, readVars
<1> QED
  BY <1>1, <1>2, <1>3

LEMMA StreamCommand ==
    ASSUME TypeOK, StreamInv, Command PROVE StreamInv'
<1>1. ASSUME NEW p \in Procs, NEW s \in Streams, Write(p, s) PROVE StreamInv'
  BY <1>1 DEF Write, TypeOK, StreamInv, Conserved, Prefix, EofIsFinal, readVars
<1>2. CASE UNCHANGED <<pipeVars, readVars>>
  BY <1>2 DEF StreamInv, Conserved, Prefix, EofIsFinal, pipeVars, readVars
<1> QED
  BY <1>1, <1>2 DEF Command, Spawn, CloseEnd, Exit, Die, Ends

LEMMA StreamReading ==
    ASSUME TypeOK, StreamInv, Reading PROVE StreamInv'
<1> SUFFICES ASSUME NEW s \in Streams, Reader(s) \/ ReadFails(s),
                    NEW t \in Streams
             PROVE  (Conserved(t) /\ Prefix(t) /\ EofIsFinal(t))'
  BY DEF Reading, StreamInv
<1>0. /\ Conserved(t) /\ Prefix(t) /\ EofIsFinal(t)
      /\ seen[t] \in Nat /\ chunk[t] \in Nat /\ inPipe[t] \in Nat /\ written[t] \in Nat
      /\ captured[t] \in Nat /\ MaxBytes \in Nat
  BY ConstantsAssumption DEF StreamInv, TypeOK
<1>1. CASE BeginRead(s)
  BY <1>0, <1>1 DEF BeginRead, TypeOK, Conserved, Prefix, EofIsFinal, pipeVars
<1>2. CASE Fill(s)
  <2>1. \E n \in Int : /\ chunk' = [chunk EXCEPT ![s] = @ + n]
                       /\ inPipe' = [inPipe EXCEPT ![s] = @ - n]
    <3>1. Least(inPipe[s], ChunkBytes - chunk[s]) \in Int
      BY ConstantsAssumption DEF Least, TypeOK
    <3> QED
      BY <1>2, <3>1 DEF Fill
  <2>2. Conserved(t)'
    <3>1. PICK n \in Int : /\ chunk' = [chunk EXCEPT ![s] = @ + n]
                          /\ inPipe' = [inPipe EXCEPT ![s] = @ - n]
      BY <2>1
    <3>2. /\ chunk'[t] + inPipe'[t] = chunk[t] + inPipe[t]
          /\ UNCHANGED <<seen, written>>
      BY <1>0, <1>2, <3>1 DEF Fill, TypeOK
    <3>3. chunk'[t] \in Int /\ inPipe'[t] \in Int
      BY <1>0, <3>1 DEF TypeOK
    <3> QED
      BY <1>0, <3>2, <3>3 DEF Conserved
  <2>3. Prefix(t)' /\ EofIsFinal(t)'
    BY <1>0, <1>2 DEF Fill, TypeOK, Prefix, EofIsFinal
  <2> QED
    BY <2>2, <2>3
<1>3. CASE Deliver(s)
  <2>1. CASE t = s
    <3>1. /\ seen'[s] = seen[s] + chunk[s]
          /\ chunk'[s] = 0
          /\ captured'[s] = captured[s] + Least(chunk[s], MaxBytes - captured[s])
          /\ truncated'[s] = (truncated[s] \/ chunk[s] > MaxBytes - captured[s])
          /\ reader'[s] = "idle"
          /\ UNCHANGED <<written, inPipe, closed>>
      BY <1>3 DEF Deliver, Keep, TypeOK, pipeVars
    <3>2. captured'[s] = Least(seen'[s], MaxBytes)
      BY <1>0, <2>1, <3>1 DEF Prefix, Least
    <3>3. truncated'[s] <=> seen'[s] > MaxBytes
      <4>1. CASE seen[s] > MaxBytes
        <5>1. truncated[s]
          BY <1>0, <2>1, <4>1 DEF Prefix
        <5>2. seen'[s] > MaxBytes
          BY <1>0, <2>1, <3>1, <4>1
        <5> QED
          BY <3>1, <5>1, <5>2
      <4>2. CASE ~ (seen[s] > MaxBytes)
        <5>1. ~ truncated[s] /\ captured[s] = seen[s]
          BY <1>0, <2>1, <4>2 DEF Prefix, Least
        <5>2. chunk[s] > MaxBytes - seen[s] <=> seen'[s] > MaxBytes
          BY <1>0, <2>1, <3>1
        <5> QED
          BY <3>1, <5>1, <5>2
      <4> QED
        BY <4>1, <4>2
    <3> QED
      BY <1>0, <2>1, <3>1, <3>2, <3>3 DEF Conserved, Prefix, EofIsFinal
  <2>2. CASE t # s
    BY <1>0, <1>3, <2>2 DEF Deliver, Keep, TypeOK, Conserved, Prefix, EofIsFinal, pipeVars
  <2> QED
    BY <2>1, <2>2
<1>4. CASE ReadEof(s) \/ ReadFails(s)
  BY <1>0, <1>4 DEF ReadEof, ReadFails, Leaves, AtEof, TypeOK, Conserved, Prefix, EofIsFinal
<1> QED
  BY <1>1, <1>2, <1>3, <1>4 DEF Reader

LEMMA StreamStep == TypeOK /\ StreamInv /\ [Next]_vars => StreamInv'
<1> SUFFICES ASSUME TypeOK, StreamInv, [Next]_vars PROVE StreamInv'
  OBVIOUS
<1>1. CASE UNCHANGED vars
  BY <1>1 DEF vars, StreamInv, Conserved, Prefix, EofIsFinal
<1>2. CASE Finished
  BY <1>1, <1>2 DEF Finished
<1> QED
  BY <1>1, <1>2, StreamCall, StreamCommand, StreamReading DEF Next

THEOREM StreamInvariant == Spec => []StreamInv
  BY TypeInit, TypeStep, StreamInit, StreamStep, PTL DEF Spec

(***************************************************************************)
(* Whatever the sizes of the chunks, a reader keeps exactly the longest    *)
(* prefix that fits, and flags exactly the streams it cut.                 *)
(***************************************************************************)
THEOREM PrefixCorrect == Spec => []CaptureIsBoundedPrefix
<1>1. StreamInv => CaptureIsBoundedPrefix
  BY DEF StreamInv, Prefix, CaptureIsBoundedPrefix
<1> QED
  BY <1>1, StreamInvariant, PTL

NoWriterAtEof ==
    \A s \in Streams : reader[s] = "eof" => \A p \in Procs : s \notin fds[p]

LEMMA NoWriterStep == TypeOK /\ NoWriterAtEof /\ [Next]_vars => NoWriterAtEof'
<1> SUFFICES ASSUME TypeOK, NoWriterAtEof, [Next]_vars,
                    NEW s \in Streams, reader'[s] = "eof",
                    NEW p \in Procs
             PROVE  s \notin fds'[p]
  BY DEF NoWriterAtEof
<1>1. CASE UNCHANGED <<fds, reader>>
  BY <1>1 DEF NoWriterAtEof
<1>2. CASE Start
  BY <1>2 DEF Start
<1>3. CASE Call /\ ~ Start
  BY <1>1, <1>3 DEF Call, StartFails, Wait, Poll, TerminatePosix, SignalGroupTerm,
     TerminateWindows, Grace, KillGroup, SignalGroupKill, Wait2, Kill, Wait3, Join,
     ClosePipes, ClosePipe, RejoinDone, RejoinExpires, Check, WaitReturns, WaitExpires,
     SigTerm, Doom, FinishStep, Returns, procVars, readVars
<1>4. CASE Command
  <2>1. reader' = reader
    BY <1>4 DEF Command, Spawn, Write, CloseEnd, Exit, Die, Ends, readVars
  <2>2. s \notin UNION {fds[q] : q \in Procs}
    BY <2>1 DEF NoWriterAtEof
  <2>3. \E q \in Procs : fds'[p] \subseteq fds[q]
    BY <1>4 DEF Command, Spawn, Write, CloseEnd, Exit, Die, Ends, procVars, TypeOK, Procs
  <2> QED
    BY <2>2, <2>3
<1>5. ASSUME NEW t \in Streams, Reader(t) \/ ReadFails(t) PROVE s \notin fds'[p]
  <2>1. fds' = fds
    BY <1>5 DEF Reader, BeginRead, Fill, Deliver, Keep, ReadEof, ReadFails, Leaves, procVars
  <2>2. CASE ReadEof(t) /\ t = s
    BY <2>1, <2>2 DEF ReadEof, AtEof
  <2>3. CASE ~ (ReadEof(t) /\ t = s)
    BY <1>5, <2>1, <2>3 DEF Reader, BeginRead, Fill, Deliver, Keep, ReadEof, ReadFails, Leaves,
       TypeOK, NoWriterAtEof
  <2> QED
    BY <2>2, <2>3
<1>6. CASE UNCHANGED vars
  BY <1>1, <1>6 DEF vars
<1> QED
  BY <1>2, <1>3, <1>4, <1>5, <1>6 DEF Next, Reading, Finished

LEMMA NoWriterInvariant == Spec => []NoWriterAtEof
<1>1. Init => NoWriterAtEof
  BY DEF Init, NoWriterAtEof
<1> QED
  BY <1>1, TypeInit, TypeStep, NoWriterStep, PTL DEF Spec

-----------------------------------------------------------------------------
(***************************************************************************)
(* The calling thread.  The call signals only after its time limit and     *)
(* only a leader it has not reaped; it returns only with both readers dead *)
(* and the leader reaped, so nothing can change the result.                *)
(***************************************************************************)
AfterLimit == {"poll", "terminate", "grace", "killgroup", "wait2", "kill", "wait3"}

AfterWait == {"join", "close_stdout", "close_stderr", "rejoin", "check"}

SignalsUnreaped == pc \in {"terminate", "killgroup"} => proc[Leader] # "reaped"

LimitMet == pc \in AfterLimit => timed_out

UntouchedInTime == ~ timed_out => doomed = {} /\ code # "killed"

EndHasCode == LeaderEnded => code # "none"

DoneHasOutcome == pc = "done" <=> outcome # "none"

ReapedAfterWait == pc \in AfterWait \/ outcome = "ok" => proc[Leader] = "reaped"

ReadersDeadAtEnd ==
    /\ pc = "check" \/ outcome = "ok" => ReadersDead
    /\ outcome = "ok" => \A s \in Streams : reader[s] # "failed"

CallInv ==
    /\ SignalsUnreaped
    /\ LimitMet
    /\ UntouchedInTime
    /\ EndHasCode
    /\ DoneHasOutcome
    /\ ReapedAfterWait
    /\ ReadersDeadAtEnd

LEMMA CallInit == Init => CallInv
  BY DEF Init, CallInv, SignalsUnreaped, LimitMet, UntouchedInTime, EndHasCode,
     DoneHasOutcome, ReapedAfterWait, ReadersDeadAtEnd, AfterLimit, AfterWait, LeaderEnded, Procs

LEMMA CallCall ==
    ASSUME TypeOK, CallInv, Call PROVE CallInv'
<1> Leader \in Procs
  BY DEF Procs
<1> USE DEF TypeOK, CallInv, SignalsUnreaped, LimitMet, UntouchedInTime, EndHasCode,
     DoneHasOutcome, ReapedAfterWait, ReadersDeadAtEnd, AfterLimit, AfterWait,
     LeaderEnded, ReadersDead, ReaderDead
<1>1. CASE Start
  BY <1>1 DEF Start
<1>2. CASE StartFails
  BY <1>2 DEF StartFails, procVars, readVars
<1>3. CASE Wait \/ Grace \/ Wait2 \/ Wait3
  BY <1>3 DEF Wait, Grace, Wait2, Wait3, WaitReturns, WaitExpires, Goto, Reap, procVars, readVars
<1>4. CASE Poll
  BY <1>4 DEF Poll, Goto, Reap, readVars
<1>5. CASE TerminatePosix
  BY <1>5 DEF TerminatePosix, SignalGroupTerm, SigTerm, Doom, Goto, Reap, readVars
<1>6. CASE TerminateWindows
  <2>1. pc = "terminate" /\ pc' = "wait2" /\ UNCHANGED <<timed_out, outcome, code, reader>>
    BY <1>6 DEF TerminateWindows, Doom, Goto, readVars
  <2>2. proc'[Leader] \in {proc[Leader], "reaped"} /\ (LeaderEnded' => LeaderEnded)
    BY <1>6 DEF TerminateWindows, Reap
  <2> QED
    BY <2>1, <2>2
<1>7. CASE KillGroup
  BY <1>7 DEF KillGroup, SignalGroupKill, SigTerm, Doom, Goto, Reap, readVars
<1>8. CASE Kill
  BY <1>8 DEF Kill, Doom, Goto, Reap, readVars
<1>9. CASE Join \/ RejoinDone
  BY <1>9 DEF Join, RejoinDone, FinishStep, Goto, procVars, readVars
<1>10. CASE ClosePipes
  BY <1>10 DEF ClosePipes, ClosePipe, Goto, procVars, readVars
<1>11. CASE RejoinExpires \/ Check
  BY <1>11 DEF RejoinExpires, Check, Returns, procVars, readVars
<1> QED
  BY <1>1, <1>2, <1>3, <1>4, <1>5, <1>6, <1>7, <1>8, <1>9, <1>10, <1>11 DEF Call

(* A leader that has been reaped stays so, with the code it had. *)
LEMMA ReapedIsFinal ==
    ASSUME TypeOK, Command, proc[Leader] = "reaped"
    PROVE  proc'[Leader] = "reaped" /\ code' = code
  BY ConstantsAssumption DEF TypeOK, Procs, Command, Spawn, Write, CloseEnd, Exit, Die, Ends, Running, procVars

LEMMA CallCommand ==
    ASSUME TypeOK, CallInv, Command PROVE CallInv'
<1>0. /\ UNCHANGED <<callVars, readVars>>
      /\ Leader \in Procs /\ Leader \notin Descendants
  BY ConstantsAssumption DEF Command, Spawn, Write, CloseEnd, Exit, Die, Ends, Procs
<1>1. doomed' \subseteq doomed
  BY DEF Command, Spawn, Write, CloseEnd, Exit, Die, Ends, procVars
<1>2. ~ LeaderEnded => proc'[Leader] # "reaped"
  BY <1>0 DEF TypeOK, LeaderEnded, Command, Spawn, Write, CloseEnd, Exit, Die, Ends, Running, procVars
<1>3. proc[Leader] # "reaped" => proc'[Leader] # "reaped"
  BY <1>0 DEF TypeOK, LeaderEnded, Command, Spawn, Write, CloseEnd, Exit, Die, Ends, Running, procVars
<1>4. EndHasCode'
  BY <1>0 DEF CallInv, EndHasCode, TypeOK, LeaderEnded, Command, Spawn, Write, CloseEnd, Exit, Die, Ends, Running, procVars
<1>5. UntouchedInTime'
  <2>1. doomed = {} => code' \in {code, "own"}
    BY DEF Command, Spawn, Write, CloseEnd, Exit, Die, Ends, procVars
  <2> QED
    BY <1>0, <1>1, <2>1 DEF CallInv, UntouchedInTime, callVars
<1>6. ReapedAfterWait'
  BY <1>0, ReapedIsFinal DEF CallInv, ReapedAfterWait, callVars
<1> QED
  BY <1>0, <1>3, <1>4, <1>5, <1>6 DEF CallInv, SignalsUnreaped, LimitMet, DoneHasOutcome,
     ReadersDeadAtEnd, ReadersDead, ReaderDead, callVars, readVars

LEMMA CallReading ==
    ASSUME TypeOK, CallInv, Reading PROVE CallInv'
<1>1. UNCHANGED <<callVars, procVars>>
  BY DEF Reading, Reader, BeginRead, Fill, Deliver, Keep, ReadEof, ReadFails, Leaves
<1>2. ReadersDead => reader' = reader
  BY DEF Reading, Reader, BeginRead, Fill, Deliver, Keep, ReadEof, ReadFails, Leaves,
     ReadersDead, ReaderDead
<1> QED
  BY <1>1, <1>2 DEF CallInv, SignalsUnreaped, LimitMet, UntouchedInTime, EndHasCode,
     DoneHasOutcome, ReapedAfterWait, ReadersDeadAtEnd, ReadersDead, ReaderDead, LeaderEnded,
     callVars, procVars

LEMMA CallStep == TypeOK /\ CallInv /\ [Next]_vars => CallInv'
<1> SUFFICES ASSUME TypeOK, CallInv, [Next]_vars PROVE CallInv'
  OBVIOUS
<1>1. CASE UNCHANGED vars
  BY <1>1 DEF vars, CallInv, SignalsUnreaped, LimitMet, UntouchedInTime, EndHasCode,
     DoneHasOutcome, ReapedAfterWait, ReadersDeadAtEnd, LeaderEnded, ReadersDead, ReaderDead
<1>2. CASE Finished
  BY <1>1, <1>2 DEF Finished
<1> QED
  BY <1>1, <1>2, CallCall, CallCommand, CallReading DEF Next

THEOREM CallInvariant == Spec => []CallInv
  BY TypeInit, TypeStep, CallInit, CallStep, PTL DEF Spec

(***************************************************************************)
(* A stream of a result has no writer left and holds everything that was   *)
(* ever written to it, up to the limit, unless its thread has crashed: the *)
(* other threads of a call that returns have met end of file.              *)
(***************************************************************************)
THEOREM EofComplete == Spec => []EofMeansComplete
<1>1. TypeOK /\ StreamInv /\ NoWriterAtEof /\ CallInv => EofMeansComplete
  <2> SUFFICES ASSUME TypeOK, StreamInv, NoWriterAtEof, CallInv, outcome = "ok",
                      NEW s \in Streams, reader[s] # "crashed"
               PROVE  /\ \A p \in Procs : s \notin fds[p]
                      /\ captured[s] = Least(written[s], MaxBytes)
                      /\ truncated[s] <=> written[s] > MaxBytes
    BY DEF EofMeansComplete
  <2>1. reader[s] = "eof"
    BY DEF CallInv, ReadersDeadAtEnd, ReadersDead, ReaderDead
  <2>2. written[s] = seen[s]
    BY <2>1 DEF StreamInv, Conserved, EofIsFinal, TypeOK
  <2> QED
    BY <2>1, <2>2 DEF StreamInv, Prefix, NoWriterAtEof
<1> QED
  BY <1>1, StreamInvariant, NoWriterInvariant, TypeCorrect, CallInvariant, PTL

(***************************************************************************)
(* No signal is sent once the leader has been reaped, so none can reach a  *)
(* process that was given its pid.                                         *)
(***************************************************************************)
THEOREM SignalSafety == Spec => SignalsOnlyWhileUnreaped
<1>1. TypeOK /\ CallInv /\ [Next]_vars =>
          [doomed' \subseteq doomed \/ proc[Leader] # "reaped"]_vars
  <2> SUFFICES ASSUME TypeOK, CallInv, Next
               PROVE  doomed' \subseteq doomed \/ proc[Leader] # "reaped"
    OBVIOUS
  <2>1. CASE TerminatePosix \/ TerminateWindows \/ KillGroup
    BY <2>1 DEF TerminatePosix, TerminateWindows, KillGroup, Goto, CallInv, SignalsUnreaped
  <2>2. CASE Kill
    BY <2>2 DEF Kill, Doom, Running
  <2>3. CASE ~ (TerminatePosix \/ TerminateWindows \/ KillGroup \/ Kill)
    BY <2>3 DEF Next, Call, Start, StartFails, Wait, Poll, Grace, Wait2, Wait3, Join,
       ClosePipes, ClosePipe, RejoinDone, RejoinExpires, Check, WaitReturns, WaitExpires,
       FinishStep, Returns, Command, Spawn, Write, CloseEnd, Exit, Die, Ends,
       Reading, Reader, BeginRead, Fill, Deliver, Keep, ReadEof, ReadFails, Leaves,
       Finished, procVars, vars
  <2> QED
    BY <2>1, <2>2, <2>3
<1> QED
  BY <1>1, TypeCorrect, CallInvariant, PTL DEF Spec, SignalsOnlyWhileUnreaped

-----------------------------------------------------------------------------
(* The call implements CommandContract. *)

LEMMA ContractInitially == Init => Contract!ContractInit
  BY DEF Init, Contract!ContractInit, Contract!NoResult, Contract!NoCapture, CallPhase, CallResult

(* The result that Check returns is legal. *)
LEMMA ReturnIsLegal ==
    ASSUME TypeOK, StreamInv, CallInv, Check, outcome' = "ok"
    PROVE  CallResult' \in Contract!LegalResults
<1>1. /\ pc = "check"
      /\ UNCHANGED <<timed_out, procVars, readVars>>
  BY DEF Check, Returns
<1>2. /\ code \in {"own", "killed"}
      /\ ~ timed_out => code = "own"
      /\ timed_out \in BOOLEAN
  BY <1>1 DEF CallInv, ReapedAfterWait, AfterWait, EndHasCode, LeaderEnded, UntouchedInTime, TypeOK
<1>3. ASSUME NEW s \in Streams
      PROVE  /\ Capture(s) \in Contract!Captured
             /\ Contract!FullIfTruncated(Capture(s))
  <2>1. captured[s] \in 0..MaxBytes /\ truncated[s] \in BOOLEAN /\ seen[s] \in Nat
    BY DEF TypeOK
  <2>2. truncated[s] => captured[s] = MaxBytes
    BY <2>1, ConstantsAssumption DEF StreamInv, Prefix, Least
  <2> QED
    BY <2>1, <2>2 DEF Capture, Contract!Captured, Contract!FullIfTruncated
<1> DEFINE r == [exit_code |-> code, timed_out |-> timed_out,
                 stdout |-> Capture("stdout"), stderr |-> Capture("stderr")]
<1>4. CallResult' = r
  BY <1>1 DEF CallResult, Capture, procVars, readVars
<1>5. r \in Contract!LegalResults
  BY <1>2, <1>3 DEF Contract!LegalResults, Contract!Results, Contract!ExitCodes, Streams
<1> QED
  BY <1>4, <1>5

(* A result that was returned does not change. *)
LEMMA ResultIsFinal ==
    ASSUME TypeOK, CallInv, Next, outcome = "ok"
    PROVE  UNCHANGED <<pc, outcome, CallResult>>
<1>1. pc = "done" /\ proc[Leader] = "reaped" /\ ReadersDead
  BY DEF CallInv, DoneHasOutcome, ReapedAfterWait, ReadersDeadAtEnd
<1>2. ~ Call
  BY <1>1 DEF Call, Start, StartFails, Wait, Poll, TerminatePosix, TerminateWindows, Grace,
     KillGroup, Wait2, Kill, Wait3, Join, ClosePipes, ClosePipe, RejoinDone, RejoinExpires,
     Check, WaitReturns, WaitExpires, FinishStep, Goto
<1>3. UNCHANGED <<pc, outcome, timed_out, code, captured, truncated>>
  <2>1. CASE Command
    BY <1>1, <2>1, ReapedIsFinal DEF Command, Spawn, Write, CloseEnd, Exit, Die, Ends, callVars, readVars
  <2>2. CASE Reading
    BY <1>1, <2>2 DEF Reading, Reader, BeginRead, Fill, Deliver, Keep, ReadEof, ReadFails,
       Leaves, ReadersDead, ReaderDead, callVars, procVars
  <2>3. CASE Finished
    BY <2>3 DEF Finished, vars
  <2> QED
    BY <1>2, <2>1, <2>2, <2>3 DEF Next
<1> QED
  BY <1>3 DEF CallResult, Capture

LEMMA ContractStep ==
    ASSUME TypeOK, StreamInv, CallInv, [Next]_vars
    PROVE  [Contract!ContractNext]_(Contract!contractVars)
<1> USE DEF Contract!contractVars, Contract!ContractNext
<1>1. CASE UNCHANGED vars
  BY <1>1 DEF vars, CallPhase, CallResult, Capture
<1>2. CASE Next /\ outcome = "ok"
  BY <1>2, ResultIsFinal DEF CallPhase
<1>3. CASE Start
  BY <1>3 DEF Start, CallPhase, CallResult, CallInv, DoneHasOutcome, Contract!Begin
<1>4. CASE StartFails
  BY <1>4 DEF StartFails, CallPhase, CallResult, CallInv, DoneHasOutcome, Contract!Raise
<1>5. CASE RejoinExpires
  BY <1>5 DEF RejoinExpires, Returns, CallPhase, CallResult, CallInv, DoneHasOutcome, Contract!Raise
<1>6. CASE Check
  <2>1. pc = "check" /\ outcome = "none" /\ pc' = "done" /\ outcome' \in {"ok", "read_error"}
    BY <1>6 DEF Check, Returns, CallInv, DoneHasOutcome
  <2>2. CASE outcome' = "ok"
    BY <1>6, <2>1, <2>2, ReturnIsLegal DEF CallPhase, Contract!Return
  <2>3. CASE outcome' = "read_error"
    BY <2>1, <2>3 DEF CallPhase, CallResult, Contract!Raise
  <2> QED
    BY <2>1, <2>2, <2>3
<1>7. CASE Next /\ outcome # "ok" /\ ~ (Start \/ StartFails \/ RejoinExpires \/ Check)
  <2>1. outcome' = outcome /\ (pc = "start" <=> pc' = "start")
    BY <1>7 DEF Next, Call, Wait, Poll, TerminatePosix, TerminateWindows, Grace, KillGroup,
       Wait2, Kill, Wait3, Join, ClosePipes, ClosePipe, RejoinDone, WaitReturns, WaitExpires,
       FinishStep, Goto, Command, Spawn, Write, CloseEnd, Exit, Die, Ends,
       Reading, Reader, BeginRead, Fill, Deliver, Keep, ReadEof, ReadFails, Leaves,
       Finished, callVars, vars
  <2> QED
    BY <1>7, <2>1 DEF CallPhase, CallResult
<1> QED
  BY <1>1, <1>2, <1>3, <1>4, <1>5, <1>6, <1>7

(***************************************************************************)
(* Every call is one that CommandContract allows, so a service that runs a *)
(* command may rely on the contract alone.                                 *)
(***************************************************************************)
THEOREM Implementation == Spec => ImplementsContract
<1>1. TypeOK /\ StreamInv /\ CallInv /\ [Next]_vars
        => [Contract!ContractNext]_(Contract!contractVars)
  BY ContractStep
<1> QED
  BY <1>1, ContractInitially, TypeCorrect, StreamInvariant, CallInvariant, PTL
     DEF Spec, ImplementsContract, Contract!ContractSpec

=============================================================================
