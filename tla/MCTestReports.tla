--------------------------- MODULE MCTestReports ---------------------------
(***************************************************************************)
(* Runs of one test and collections of its report: reports shorter than,   *)
(* as long as and longer than the limit, and a sample beyond the limit.    *)
(***************************************************************************)
EXTENDS TestReports, TLC

Symmetry == Permutations(Runs)
=============================================================================
