--------------------------- MODULE PathResolution ---------------------------
(***************************************************************************)
(* resolve_workspace_path (security/paths.py), one system call a step, in  *)
(* a file system that other programs change meanwhile.                     *)
(*                                                                         *)
(* Path.resolve(strict=True) is posixpath.realpath: it looks at one name   *)
(* after the other and keeps the links it is inside of and those it knows  *)
(* the end of.  A look is an lstat and, at a link, the readlink after it.  *)
(***************************************************************************)
EXTENDS FileTree

CONSTANTS
    Nodes,       \* what other programs put in the place of something
    Settled,     \* places at which they change nothing: the roots and what these are in
    MaxEdits     \* bound: changes they make

ASSUME NodesAssumption ==
    /\ Nodes \subseteq TreeNodes
    /\ <<>> \in Settled
    /\ MaxEdits \in Nat

VARIABLES
    fs,          \* the file system
    edits,       \* changes made
    walk         \* the resolution in progress

pathVars == <<fs, edits, walk>>

(***************************************************************************)
(* Other programs replace what is at a place, and all that is below it:    *)
(* with a directory, a file, a link, or nothing.                           *)
(***************************************************************************)
Edit ==
    /\ edits < MaxEdits
    /\ edits' = edits + 1
    /\ \E p \in DOMAIN fs \ Settled, n \in Nodes :
          /\ n # fs[p]
          /\ n # Nothing => IsDirectory(Node(fs, Front(p)))
          /\ fs' = [q \in DOMAIN fs |-> IF q = p THEN n
                                        ELSE IF IsPrefix(p, q) THEN Nothing ELSE fs[q]]
    /\ UNCHANGED walk

-----------------------------------------------------------------------------
(***************************************************************************)
(* The request.  A path is absolute or below the root; a blank one is the  *)
(* root; path.control says that there is a control character in it.        *)
(***************************************************************************)
Candidate(root, path) == IF path.absolute THEN path.names ELSE root \o path.names

Rejected(path) ==
    IF path.control THEN "PathSecurityError"
    ELSE IF ".." \in ToSet(path.names) THEN "PathTraversalError" ELSE "none"

(* The resolution of a path below root, as it begins. *)
Begun(root, path) ==
    [step    |-> IF Rejected(path) = "none" THEN "scan" ELSE "done",
     verdict |-> Rejected(path),
     root    |-> root,
     names   |-> Candidate(root, path),
     scanned |-> Len(root),               \* names that are known to be no links
     symlink |-> FALSE,                   \* had_symlink
     at      |-> <<>>,                    \* realpath: as far as the path is resolved
     rest    |-> Candidate(root, path),   \* the names left
     inside  |-> <<>>,                    \* links it is inside of, and how many names
                                          \*   are left when it comes out of them
     known   |-> <<>>,                    \* the ends of those it has come out of
     began   |-> edits]                   \* when it began (history)

NoWalk == [step |-> "none"]

(* _has_symlink_component: a link, or a name it may not look at, ends the scan. *)
Scan ==
    /\ walk.step = "scan"
    /\ LET next == Lstat(fs, SubSeq(walk.names, 1, walk.scanned + 1))
       IN walk' = IF ~ IsPrefix(walk.root, walk.names) \/ walk.scanned = Len(walk.names)
                     \/ next.kind = "EACCES"
                  THEN [walk EXCEPT !.step = "look"]
                  ELSE IF next.kind = "link"
                  THEN [walk EXCEPT !.step = "look", !.symlink = TRUE]
                  ELSE [walk EXCEPT !.scanned = @ + 1]

-----------------------------------------------------------------------------
(* Path.resolve(strict=True).                                              *)

InLink == walk.inside # <<>>
LinkEnds == InLink /\ Last(walk.inside).left = Len(walk.rest)

(* The names of a link's target are used up: its end is known. *)
LeaveLink ==
    /\ walk.step = "look"
    /\ LinkEnds
    /\ walk' = [walk EXCEPT !.inside = Front(@), !.known = Put(@, Last(walk.inside).link, walk.at)]

Going == walk.step = "look" /\ ~ LinkEnds /\ walk.rest # <<>>

(* ".." is taken off the path that is resolved so far, without a look. *)
GoUp ==
    /\ Going
    /\ Head(walk.rest) = ".."
    /\ walk' = [walk EXCEPT !.at = Up(@), !.rest = Tail(@)]

There == Append(walk.at, Head(walk.rest))
Look == Lstat(fs, There)
Looking == Going /\ Head(walk.rest) # ".."

GoOn ==
    /\ Looking
    /\ Look.kind \in {"file", "directory", "locked"}
    /\ walk' = [walk EXCEPT !.at = There, !.rest = Tail(@)]

(* A link it has come out of: its end is not looked up again. *)
KnownLink ==
    /\ Looking
    /\ Look.kind = "link"
    /\ There \in DOMAIN walk.known
    /\ walk' = [walk EXCEPT !.at = walk.known[There], !.rest = Tail(@)]

(* A link it is inside of: a stat() is to raise the error of the loop. *)
Again == \E i \in DOMAIN walk.inside : walk.inside[i].link = There
LookError == IF Look.kind = "link" /\ There \notin DOMAIN walk.known /\ Again
             THEN Stat(fs, There).kind ELSE Look.kind
Errors == {"none", "ENOENT", "ENOTDIR", "EACCES", "ELOOP"}

EnterLink ==
    /\ Looking
    /\ Look.kind = "link"
    /\ There \notin DOMAIN walk.known
    /\ LookError \notin Errors
    /\ walk' = [walk EXCEPT
          !.at = IF Look.to.absolute THEN <<>> ELSE @,
          !.rest = Look.to.names \o Tail(@),
          !.inside = Append(@, [link |-> There, left |-> Len(walk.rest) - 1])]

End(verdict) == walk' = [walk EXCEPT !.step = "done", !.verdict = verdict]

(***************************************************************************)
(* What is not there is WorkspacePathNotFoundError.  Of the other errors   *)
(* only a loop of links is caught, and only up to Python 3.12, where it is *)
(* RuntimeError.                                                           *)
(***************************************************************************)
LookFails(python) ==
    /\ Looking
    /\ LookError \in Errors
    /\ End(IF LookError \in {"none", "ENOENT"} THEN "WorkspacePathNotFoundError"
           ELSE IF LookError = "ELOOP" /\ python = "3.12" THEN "PathSecurityError"
           ELSE "OSError")

(* Mutant: a path that led through a link is not compared with the root. *)
ContainTrusting ==
    /\ walk.step = "look"
    /\ ~ InLink
    /\ walk.rest = <<>>
    /\ End(IF walk.symlink \/ IsPrefix(walk.root, walk.at) THEN "resolved" ELSE "PathEscapeError")

(* The resolved path is compared with the root. *)
Contain ==
    /\ walk.step = "look"
    /\ ~ InLink
    /\ walk.rest = <<>>
    /\ End(IF IsPrefix(walk.root, walk.at) THEN "resolved"
           ELSE IF walk.symlink THEN "SymlinkEscapeError" ELSE "PathEscapeError")

Resolve(python) ==
    /\ \/ Scan \/ LeaveLink \/ GoUp \/ GoOn \/ KnownLink \/ EnterLink
       \/ LookFails(python) \/ Contain
    /\ UNCHANGED <<fs, edits>>

-----------------------------------------------------------------------------
(***************************************************************************)
(* What a verdict means if nobody has changed anything since the call      *)
(* began, by the kernel's own walk of the path.  A path that is resolved   *)
(* is its own end: no link is on the way to it, so whatever is done to it  *)
(* is done below the root.  A refusal for the sake of a link takes a link  *)
(* on the way, and without one only an absolute path leads out of a root   *)
(* that is there and is its own end.  What is not there may be ENOTDIR or  *)
(* EACCES for the kernel, where the target of a link goes up from a file   *)
(* or from a directory that may not be searched.                           *)
(***************************************************************************)
LinkOnTheWay ==
    \E i \in (Len(walk.root) + 1)..Len(walk.names) :
       Lstat(fs, SubSeq(walk.names, 1, i)).kind = "link"

VerdictIsExact(python) ==
    LET end == Walked(fs, walk.names, TRUE)
        own == Walked(fs, walk.at, TRUE)
        root == Walked(fs, walk.root, TRUE)
        out == end.error = "" => ~ IsPrefix(walk.root, end.at)
    IN CASE walk.verdict = "resolved" ->
              /\ IsPrefix(walk.root, walk.at)
              /\ own.error = "" /\ own.at = walk.at
              /\ end.error = "" => end.at = walk.at
         [] walk.verdict = "SymlinkEscapeError" -> out /\ LinkOnTheWay
         [] walk.verdict = "PathEscapeError" ->
              out /\ (root.error = "" /\ root.at = walk.root => ~ IsPrefix(walk.root, walk.names))
         [] walk.verdict = "WorkspacePathNotFoundError" ->
              end.error \in {"ENOENT", "ENOTDIR", "EACCES"}
         [] walk.verdict = "OSError" ->
              end.error \in {"ENOTDIR", "EACCES"} \cup (IF python = "3.13" THEN {"ELOOP"} ELSE {})
         [] OTHER -> TRUE     \* of the request itself, or a loop of links
=============================================================================
