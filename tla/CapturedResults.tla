--------------------------- MODULE CapturedResults --------------------------
(***************************************************************************)
(* The values run_bounded_subprocess returns (CapturedProcessBytes), and   *)
(* those it may return.                                                    *)
(*                                                                         *)
(* Bytes are counted, not spelled out: both pipes are read first to last,  *)
(* so "the first n bytes of the stream" is the number n.                   *)
(***************************************************************************)
EXTENDS Naturals

CONSTANT MaxBytes    \* max_output_bytes, the bound on each captured stream

(***************************************************************************)
(* The exit code: "none" is Python's None, "own" a code the command chose  *)
(* or met by itself, "killed" the code of a process ended by a signal (or  *)
(* by taskkill) that the call sent.                                        *)
(***************************************************************************)
ExitCodes == {"none", "own", "killed"}

Captured == [bytes: 0..MaxBytes, truncated: BOOLEAN]

Results == [exit_code: ExitCodes, timed_out: BOOLEAN, stdout: Captured, stderr: Captured]

(***************************************************************************)
(* A truncated stream is full; the command has been waited for; and a      *)
(* command that met its time limit was not touched.                        *)
(***************************************************************************)
FullIfTruncated(c) == c.truncated => c.bytes = MaxBytes

LegalResults ==
    {r \in Results :
        /\ r.exit_code # "none"
        /\ ~ r.timed_out => r.exit_code = "own"
        /\ FullIfTruncated(r.stdout)
        /\ FullIfTruncated(r.stderr)}

=============================================================================
