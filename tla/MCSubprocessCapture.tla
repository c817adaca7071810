------------------------- MODULE MCSubprocessCapture -------------------------
(***************************************************************************)
(* Small instances of SubprocessCapture: one descendant, and a command     *)
(* that writes enough to stdout to fill, overflow and continue past one    *)
(* chunk, or nothing at all.                                               *)
(***************************************************************************)
EXTENDS SubprocessCapture

MCOutputBytes == [s \in Streams |-> IF s = "stdout" THEN 3 ELSE 0]

MCQuiet == [s \in Streams |-> 0]
=============================================================================
