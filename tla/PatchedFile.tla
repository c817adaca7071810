---------------------------- MODULE PatchedFile ----------------------------
(***************************************************************************)
(* What apply_patch promises about the file it patches, whoever else       *)
(* writes it and wherever the server stops: the file always holds one      *)
(* whole text; a call changes it at most once, in one step, to the patch   *)
(* of a text it held before; and a call that fails changes nothing.        *)
(*                                                                         *)
(* It does not promise that the patched text is the latest one.            *)
(***************************************************************************)
EXTENDS Naturals, Sequences

CONSTANTS
    Count(_, _),             \* occurrences of a block in a text
    ReplaceFirst(_, _, _),   \* the text with its first such block replaced
    Calls,           \* the calls of apply_patch
    MaxFileBytes,    \* max_file_size_bytes
    EditorTexts,     \* the texts other programs leave in the file
    NoText           \* the content of a file that does not exist

VARIABLES
    content,         \* the text the file holds
    held,            \* every text it has held
    asked,           \* what each call was asked to replace, and by what
    result           \* how each call ended

fileVars == <<content, held, asked, result>>

Failures == {"read_only", "precondition", "not_found", "not_file", "too_large",
             "binary", "write_failed", "os_error", "killed"}

Holds(t) ==
    /\ content' = t
    /\ held' = held \cup {t}

(* A call of apply_patch succeeds, with the patch of a text the file held. *)
Patch(c) ==
    /\ result[c] = "none"
    /\ result' = [result EXCEPT ![c] = "changed"]
    /\ \E t \in held \ {NoText} :
          LET patched == ReplaceFirst(t, asked[c].expected, asked[c].replacement) IN
          /\ Count(t, asked[c].expected) = 1
          /\ Len(patched) <= MaxFileBytes
          /\ Holds(patched)
    /\ UNCHANGED asked

(* Calls end without touching the file: nothing to do, an error, a kill. *)
EndUnchanged ==
    /\ \A c \in Calls :
          \/ result'[c] = result[c]
          \/ result[c] = "none" /\ result'[c] \in Failures \cup {"unchanged"}
    /\ UNCHANGED <<content, held, asked>>

(* Another program writes or removes the file. *)
Edit ==
    /\ \E t \in EditorTexts \cup {NoText} : Holds(t)
    /\ UNCHANGED <<asked, result>>

(* Power is lost: calls are killed, and recent writes to the directory too. *)
Revert ==
    /\ content' \in held
    /\ \A c \in Calls :
          \/ result'[c] = result[c]
          \/ result[c] = "none" /\ result'[c] = "killed"
    /\ UNCHANGED <<held, asked>>

FileInit ==
    /\ held = {content}
    /\ result = [c \in Calls |-> "none"]

FileNext == (\E c \in Calls : Patch(c)) \/ EndUnchanged \/ Edit \/ Revert

FileSpec == FileInit /\ [][FileNext]_fileVars

=============================================================================
