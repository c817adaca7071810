---------------------------- MODULE CommandPolicy ----------------------------
(***************************************************************************)
(* The two sets of rules for commands: the validators of the configuration *)
(* (config.py) and the checks before a command runs (security/commands.py).*)
(*                                                                         *)
(* A token is a word in a form; two tokens of different form differ:       *)
(*   "bare"           [A-Za-z0-9_.-]+                                      *)
(*   "odd"            with other characters, none of those below: "g++"    *)
(*   "padded"         a bare word with blanks before or after it           *)
(*   "trailed"        one with CR or LF among these blanks: "git\n"        *)
(*   "spaced"         blanks within                                        *)
(*   "path"           a slash or a backslash in it                         *)
(*   "operator"       one of SHELL_OPERATOR_TOKENS                         *)
(*   "substitution"   begins with "$(" or holds "`", and is no operator    *)
(*   "control"        NUL, CR or LF in it, and no bare word without blanks  *)
(*   "blank"          nothing, or blanks only                              *)
(***************************************************************************)
EXTENDS SequencesExt

Forms == {"bare", "odd", "padded", "trailed", "spaced", "path", "operator", "substitution",
          "control", "blank"}
AnyToken == [word: STRING, form: Forms]

Token(word, form) == [word |-> word, form |-> form]
Bare(word) == Token(word, "bare")

Strip(token) ==
    IF token.form \in {"padded", "trailed"} THEN [token EXCEPT !.form = "bare"] ELSE token

(* What the configuration accepts.  Executables are stripped before they are looked at, *)
(* and kept so: a line end after one is no control character in it.                     *)
ConfigurableExecutable(token) == Strip(token).form = "bare"
ConfigurableArgument(token) == token.form \notin {"control", "trailed", "operator"}
ConfigurableName(token) == token.form = "bare"

(* What may run. *)
RunnableExecutable(token) ==
    token.form \notin {"control", "trailed", "padded", "blank", "operator", "path", "spaced"}

RunnableArgument(token) == token.form \notin {"control", "trailed", "operator", "substitution"}

ValidTokens(command) ==
    /\ command # <<>>
    /\ RunnableExecutable(Head(command))
    /\ \A i \in 2..Len(command) : RunnableArgument(command[i])

Allowlisted(command, allowed) ==
    /\ ValidTokens(command)
    /\ \E i \in DOMAIN allowed : Head(command) = allowed[i].executable
=============================================================================
