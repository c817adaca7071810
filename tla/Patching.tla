------------------------------ MODULE Patching ------------------------------
(***************************************************************************)
(* PatchingService.apply_patch (services/patching.py).  The server runs    *)
(* tools in a pool of threads, so several calls patch the same file at     *)
(* once; other programs write it too; the server may be killed, or the     *)
(* machine lose power, between any two system calls.                       *)
(*                                                                         *)
(* One file is modelled: calls on different files share nothing.  How a    *)
(* path is resolved is not modelled here; resolving fails exactly when the *)
(* file does not exist.                                                    *)
(*                                                                         *)
(* A file is an inode, whose data may not have reached the disk.  Power    *)
(* loss may leave the name of the file pointing to any inode it ever       *)
(* pointed to (the directory is not synced) and destroys data that was     *)
(* not synced.                                                             *)
(***************************************************************************)
EXTENDS TextBlocks

CONSTANTS
    Calls,           \* concurrent calls of apply_patch
    Requests,        \* the (expected_content, replacement_content) pairs asked
    Blocks,          \* what texts are made of
    Nul,             \* the block that makes a file binary
    Modes,           \* permission bits
    TempMode,        \* the mode mkstemp creates files with
    InitialTexts,    \* texts the file may hold at the start
    EditorTexts,     \* texts another program may write to it
    MaxFileBytes,    \* max_file_size_bytes
    MaxEdits,        \* bound: changes made by other programs
    MaxOutages,      \* bound: kills and power losses
    NoFile,          \* the file, or a temporary file, does not exist
    Torn             \* the data of a file that is not whole

Texts == Seq(Blocks)

ASSUME ConstantsAssumption ==
    /\ Requests \subseteq [expected : Texts, replacement : Texts]
    /\ Nul \in Blocks
    /\ TempMode \in Modes
    /\ InitialTexts \subseteq Texts
    /\ EditorTexts \subseteq Texts
    /\ MaxFileBytes \in Nat
    /\ MaxEdits \in Nat
    /\ MaxOutages \in Nat
    /\ NoFile \notin Texts
    /\ Torn \notin Texts

Files == [text : Texts \cup {Torn}, mode : Modes, synced : BOOLEAN]

ASSUME NoFileAssumption == NoFile \notin Files

VARIABLES
    read_only,   \* read_only_mode of the configuration
    target,      \* the file
    named,       \* every file the target's name has stood for
    temp,        \* the temporary file of each call
    pc,          \* the step of apply_patch each call is at
    asked,       \* its arguments
    original,    \* its original_text
    mode,        \* its original_mode
    result,      \* what it returned or raised
    edits,       \* changes other programs made
    outages      \* kills and power losses

callVars == <<pc, asked, original, mode, result>>
diskVars == <<target, named, temp>>
vars == <<read_only, target, named, temp, pc, asked, original, mode, result, edits, outages>>

Steps == {"call", "is_file", "stat_size", "read", "stat_mode", "mkstemp", "write",
          "fsync", "chmod", "replace", "cleanup", "done"}

Exists == target # NoFile

(* The name of the file is given to another file, or to none. *)
Name(f) ==
    /\ target' = f
    /\ named' = named \cup {f}

-----------------------------------------------------------------------------
(* The steps of a call.                                                    *)

Goto(c, from, to) ==
    /\ pc[c] = from
    /\ pc' = [pc EXCEPT ![c] = to]
    /\ UNCHANGED <<read_only, asked, edits, outages>>

End(c, from, how) ==
    /\ Goto(c, from, "done")
    /\ result' = [result EXCEPT ![c] = how]
    /\ UNCHANGED <<original, mode, diskVars>>

Proceed(c, from, to) ==
    /\ Goto(c, from, to)
    /\ UNCHANGED <<original, mode, result, diskVars>>

(* Read-only mode, the empty expected_content, and path resolution. *)
Enter(c) ==
    IF read_only THEN End(c, "call", "read_only")
    ELSE IF asked[c].expected = <<>> THEN End(c, "call", "precondition")
    ELSE IF ~ Exists THEN End(c, "call", "not_found")
    ELSE Proceed(c, "call", "is_file")

IsFile(c) ==
    IF Exists THEN Proceed(c, "is_file", "stat_size") ELSE End(c, "is_file", "not_file")

(* enforce_file_size; a stat of a file that is gone raises OSError. *)
StatSize(c) ==
    IF ~ Exists THEN End(c, "stat_size", "os_error")
    ELSE IF Len(target.text) > MaxFileBytes THEN End(c, "stat_size", "too_large")
    ELSE Proceed(c, "stat_size", "read")

(***************************************************************************)
(* The file is read, decoded, and the rest up to _atomic_write_text        *)
(* computed from what was read.                                            *)
(***************************************************************************)
Patched(c, t) == ReplaceFirst(t, asked[c].expected, asked[c].replacement)

(* Mutant: several matches are accepted. *)
VerdictAnyMatch(c, t) ==
    IF Count(t, asked[c].expected) = 0 THEN "precondition"
    ELSE IF Patched(c, t) = t THEN "unchanged"
    ELSE IF Len(Patched(c, t)) > MaxFileBytes THEN "too_large"
    ELSE "write"

Verdict(c, t) ==
    IF \E i \in 1..Len(t) : t[i] = Nul THEN "binary"
    ELSE IF Count(t, asked[c].expected) # 1 THEN "precondition"
    ELSE IF Patched(c, t) = t THEN "unchanged"
    ELSE IF Len(Patched(c, t)) > MaxFileBytes THEN "too_large"
    ELSE "write"

(* The file may be gone, or may not be read. *)
ReadFails(c) == End(c, "read", "os_error")

Read(c) ==
    /\ Exists
    /\ LET verdict == Verdict(c, target.text) IN
       IF verdict # "write" THEN End(c, "read", verdict)
       ELSE /\ Goto(c, "read", "stat_mode")
            /\ original' = [original EXCEPT ![c] = target.text]
            /\ UNCHANGED <<mode, result, diskVars>>

(* Mutant: a file that is gone is given no mode instead of an error. *)
StatModeIgnoresMissing(c) ==
    /\ Goto(c, "stat_mode", "mkstemp")
    /\ mode' = [mode EXCEPT ![c] = IF Exists THEN target.mode ELSE NoFile]
    /\ UNCHANGED <<original, result, diskVars>>

(* path.stat() is outside the try statement. *)
StatMode(c) ==
    IF ~ Exists THEN End(c, "stat_mode", "os_error")
    ELSE /\ Goto(c, "stat_mode", "mkstemp")
         /\ mode' = [mode EXCEPT ![c] = target.mode]
         /\ UNCHANGED <<original, result, diskVars>>

(* A step of _atomic_write_text writes the temporary file. *)
SetTemp(c, from, to, f) ==
    /\ Goto(c, from, to)
    /\ temp' = [temp EXCEPT ![c] = f]
    /\ UNCHANGED <<original, mode, result, target, named>>

MkStemp(c) ==
    SetTemp(c, "mkstemp", "write", [text |-> <<>>, mode |-> TempMode, synced |-> TRUE])

WriteTemp(c) ==
    SetTemp(c, "write", "fsync",
            [temp[c] EXCEPT !.text = Patched(c, original[c]), !.synced = FALSE])

(* Mutant: the temporary file is not synced. *)
FsyncOmitted(c) == Proceed(c, "fsync", "chmod")

Fsync(c) == SetTemp(c, "fsync", "chmod", [temp[c] EXCEPT !.synced = TRUE])

(* Mutant: the mode of the original is not restored. *)
ChmodOmitted(c) == Proceed(c, "chmod", "replace")

Chmod(c) == SetTemp(c, "chmod", "replace", [temp[c] EXCEPT !.mode = mode[c]])

Replace(c) ==
    /\ Goto(c, "replace", "done")
    /\ Name(temp[c])
    /\ temp' = [temp EXCEPT ![c] = NoFile]
    /\ result' = [result EXCEPT ![c] = "changed"]
    /\ UNCHANGED <<original, mode>>

(***************************************************************************)
(* Any system call of the try statement may fail.  A failed write may have *)
(* written a part.                                                         *)
(***************************************************************************)
WriteFails(c) ==
    \/ \E step \in {"mkstemp", "fsync", "chmod", "replace"} : Proceed(c, step, "cleanup")
    \/ SetTemp(c, "write", "cleanup", [temp[c] EXCEPT !.text = Torn, !.synced = FALSE])

(* Mutant: the handler does not remove the temporary file. *)
CleanupOmitted(c) ==
    /\ Goto(c, "cleanup", "done")
    /\ result' = [result EXCEPT ![c] = "write_failed"]
    /\ UNCHANGED <<original, mode, diskVars>>

(* The except clause; its own unlink may fail too. *)
Cleanup(c) ==
    \/ /\ Goto(c, "cleanup", "done")
       /\ temp' = [temp EXCEPT ![c] = NoFile]
       /\ result' = [result EXCEPT ![c] = "write_failed"]
       /\ UNCHANGED <<original, mode, target, named>>
    \/ /\ temp[c] # NoFile
       /\ End(c, "cleanup", "os_error")

ApplyPatch(c) ==
    \/ Enter(c) \/ IsFile(c) \/ StatSize(c) \/ ReadFails(c) \/ Read(c)
    \/ StatMode(c) \/ MkStemp(c) \/ WriteTemp(c) \/ Fsync(c) \/ Chmod(c) \/ Replace(c)
    \/ WriteFails(c) \/ Cleanup(c)

-----------------------------------------------------------------------------
(* The rest of the world.                                                  *)

(***************************************************************************)
(* Another program replaces, removes or re-creates the file, as a whole,   *)
(* or changes its mode.                                                    *)
(***************************************************************************)
Edit ==
    /\ edits < MaxEdits
    /\ edits' = edits + 1
    /\ \/ Name(NoFile)
       \/ \E t \in EditorTexts, m \in Modes : Name([text |-> t, mode |-> m, synced |-> TRUE])
    /\ UNCHANGED <<read_only, temp, callVars, outages>>

(* Calls in progress die with the server. *)
Killed ==
    /\ outages < MaxOutages
    /\ outages' = outages + 1
    /\ pc' = [c \in Calls |-> IF pc[c] \in {"call", "done"} THEN pc[c] ELSE "done"]
    /\ result' = [c \in Calls |-> IF pc[c] \in {"call", "done"} THEN result[c] ELSE "killed"]
    /\ UNCHANGED <<read_only, asked, original, mode, edits>>

Crash == Killed /\ UNCHANGED diskVars

(* What the disk still has of file f. *)
Survives(f) == IF f = NoFile \/ f.synced THEN f ELSE [f EXCEPT !.text = Torn]

PowerLoss ==
    /\ Killed
    /\ \E f \in named : Name(Survives(f))
    /\ temp' = [c \in Calls |-> IF temp[c] = NoFile THEN NoFile ELSE Survives(temp[c])]

Finished ==
    /\ \A c \in Calls : pc[c] = "done"
    /\ UNCHANGED vars

Init ==
    /\ read_only \in BOOLEAN
    /\ \E t \in InitialTexts, m \in Modes : target = [text |-> t, mode |-> m, synced |-> TRUE]
    /\ named = {target}
    /\ temp = [c \in Calls |-> NoFile]
    /\ pc = [c \in Calls |-> "call"]
    /\ asked \in [Calls -> Requests]
    /\ original = [c \in Calls |-> <<>>]
    /\ mode = [c \in Calls |-> TempMode]
    /\ result = [c \in Calls |-> "none"]
    /\ edits = 0
    /\ outages = 0

Next ==
    \/ \E c \in Calls : ApplyPatch(c)
    \/ Edit \/ Crash \/ PowerLoss
    \/ Finished

Spec == Init /\ [][Next]_vars

-----------------------------------------------------------------------------

(* Every variable has its type. *)
TypeOK ==
    /\ read_only \in BOOLEAN
    /\ target \in Files \cup {NoFile}
    /\ named \subseteq Files \cup {NoFile}
    /\ temp \in [Calls -> Files \cup {NoFile}]
    /\ pc \in [Calls -> Steps]
    /\ asked \in [Calls -> Requests]
    /\ original \in [Calls -> Texts]
    /\ mode \in [Calls -> Modes]
    /\ result \in [Calls -> {"none", "read_only", "precondition", "not_found", "not_file",
                             "too_large", "binary", "unchanged", "changed", "write_failed",
                             "os_error", "killed"}]
    /\ edits \in Nat
    /\ outages \in Nat

(***************************************************************************)
(* Nobody ever finds half a file: not while it is written, not after the   *)
(* server is killed, not after power is lost (the temporary file is synced *)
(* before the swap).                                                       *)
(***************************************************************************)
TargetIsWhole == target # NoFile => target.text # Torn

(***************************************************************************)
(* A call that ran to its end leaves no temporary file in the workspace,   *)
(* unless the removal itself failed or the server was killed.              *)
(***************************************************************************)
NoLitter ==
    \A c \in Calls :
        pc[c] = "done" /\ result[c] \notin {"os_error", "killed"} => temp[c] = NoFile

(***************************************************************************)
(* A patch that nobody disturbed is exact: if the file still has the text  *)
(* and the mode the call saw, it gets the patch of that text, of which the *)
(* expected content matched once, and keeps its mode.                      *)
(***************************************************************************)
Swaps(c) == pc[c] # "done" /\ result'[c] = "changed"

UndisturbedPatchIsExact ==
    [][\A c \in Calls :
          /\ Swaps(c)
          /\ Exists
          /\ target.text = original[c]
          /\ target.mode = mode[c]
          => /\ Count(target.text, asked[c].expected) = 1
             /\ target' = [target EXCEPT !.text = Patched(c, target.text), !.synced = TRUE]]_vars

(***************************************************************************)
(* apply_patch "replaces exactly one expected text block" of the file: the *)
(* text it swaps in is what its replacement makes of the text it swaps     *)
(* out, so that another patch made meanwhile is kept.  (Where the block is *)
(* not there any more the replacement makes nothing else of the text.)     *)
(***************************************************************************)
PatchesTheCurrentText ==
    [][\A c \in Calls :
          Swaps(c) => Exists /\ target'.text = Patched(c, target.text)]_vars

(***************************************************************************)
(* The calls implement PatchedFile: whole texts, one atomic change per     *)
(* successful call and none by a call that fails.                          *)
(***************************************************************************)
TextOf(f) == IF f = NoFile THEN NoFile ELSE f.text

File == INSTANCE PatchedFile WITH
    NoText  <- NoFile,
    content <- TextOf(target),
    held    <- {TextOf(f) : f \in named}

ImplementsPatchedFile == File!FileSpec

=============================================================================
