--------------------------- MODULE CommandContract ---------------------------
(***************************************************************************)
(* What one call of run_bounded_subprocess promises its caller, whatever   *)
(* the command does and however the call is implemented: at most one       *)
(* result is ever returned, it is final, and it is one of LegalResults.    *)
(* The services that run commands (ProcessRunner, TestRunner, GitService)  *)
(* rely on this and on nothing else.                                       *)
(***************************************************************************)
EXTENDS CapturedResults

VARIABLES
    phase,    \* where the call is
    result    \* the CapturedProcessBytes returned, or the empty result

contractVars == <<phase, result>>

Phases == {"ready", "running", "returned", "raised"}

NoCapture == [bytes |-> 0, truncated |-> FALSE]

NoResult == [exit_code |-> "none", timed_out |-> FALSE,
             stdout |-> NoCapture, stderr |-> NoCapture]

ContractInit ==
    /\ phase = "ready"
    /\ result = NoResult

Begin ==
    /\ phase = "ready"
    /\ phase' = "running"
    /\ UNCHANGED result

Return ==
    /\ phase = "running"
    /\ phase' = "returned"
    /\ result' \in LegalResults

Raise ==
    /\ phase \in {"ready", "running"}
    /\ phase' = "raised"
    /\ UNCHANGED result

ContractNext == Begin \/ Return \/ Raise

ContractSpec == ContractInit /\ [][ContractNext]_contractVars

=============================================================================
