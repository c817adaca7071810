------------------------------ MODULE GitStatus ------------------------------
(***************************************************************************)
(* GitService.status (services/git_service.py): five git commands, one     *)
(* after the other, over a repository that other programs change while     *)
(* they run.  A command is a call of run_bounded_subprocess: it may return *)
(* any of LegalResults, or raise.                                          *)
(*                                                                         *)
(* A file has a content in the last commit, in the index and in the work   *)
(* tree.  Contents of different files differ, so git sees no renames; a    *)
(* merge is not going on.  git reads the index when it starts, each file   *)
(* of the work tree at a moment of its own, and the last commit at the end.*)
(***************************************************************************)
EXTENDS CapturedResults, SequencesExt, Ordering

CONSTANTS
    Files,           \* the names of files
    Contents,        \* what a file may contain
    Absent,          \* the content of a file that is not there
    Branches,
    Detached,        \* what HEAD is on when it is on no branch
    Repositories,    \* the repositories there may be at the start
    AnswerSize,      \* bytes of "true", the newline not counted
    BranchSize,      \* bytes of the name of a branch
    LineSize,        \* bytes of a line of git status
    SummarySize,     \* bytes of the line of git diff --shortstat
    MaxEdits         \* bound: changes other programs make

Texts == Contents \cup {Absent}

(* Where the workspace is: in a work tree, in a .git directory, in neither. *)
Places == {"work_tree", "git_dir", "none"}

(* What WORKSPACE_ROOT is; "denied": in a directory that may not be searched. *)
PathKinds == {"directory", "file", "missing", "denied"}

Snapshots ==
    [place : Places, branch : Branches \cup {Detached},
     head : [Files -> Texts], index : [Files -> Texts], work : [Files -> Texts]]

ASSUME GitAssumption ==
    /\ Repositories \subseteq Snapshots
    /\ IsFiniteSet(Files)
    /\ Absent \notin Contents
    /\ Detached \notin Branches
    /\ MaxBytes \in Nat \ {0}
    /\ {AnswerSize, BranchSize, LineSize, SummarySize} \subseteq Nat \ {0}
    /\ MaxEdits \in Nat

VARIABLES
    root,            \* what WORKSPACE_ROOT is
    repository,      \* the repository
    touched,         \* what was changed since the start (history)
    edits,           \* changes made
    git_executable,  \* whether shutil.which found git
    pc,              \* the step status() is at
    running,         \* whether the command of that step is running
    sight,           \* what that command has read of the repository
    unseen,          \* the files it has not looked at yet
    status,          \* the GitStatus so far
    answer           \* how the call ended

worldVars == <<root, repository, touched, edits>>
commandVars == <<running, sight, unseen>>
statusVars == <<git_executable, pc, running, sight, unseen, status, answer>>

NoStatus == [branch |-> Detached, staged |-> <<>>, modified |-> <<>>, untracked |-> <<>>,
             statistics |-> <<>>]

GitCommands == {"rev_parse", "branch", "porcelain", "diff", "diff_cached"}

-----------------------------------------------------------------------------
(* Other programs.                                                         *)

Change(facts, r) ==
    /\ edits < MaxEdits
    /\ edits' = edits + 1
    /\ touched' = touched \cup facts
    /\ repository' = r
    /\ repository # r
    /\ UNCHANGED root

WriteFile(f, t) == Change({f}, [repository EXCEPT !.work[f] = t])

(* git add, git rm --cached *)
Stage(f, t) ==
    /\ t \in {repository.work[f], Absent}
    /\ Change({f}, [repository EXCEPT !.index[f] = t])

Commit ==
    Change({f \in Files : repository.head[f] # repository.index[f]},
           [repository EXCEPT !.head = repository.index])

SwitchBranch(b) == Change({"branch"}, [repository EXCEPT !.branch = b])

(* git init; a .git directory, or what makes the workspace part of one, comes or goes. *)
Move(p) == Change({"place"}, [repository EXCEPT !.place = p])

MoveRoot(k) ==
    /\ edits < MaxEdits
    /\ edits' = edits + 1
    /\ touched' = touched \cup {"root"}
    /\ root' = k
    /\ root # k
    /\ UNCHANGED repository

EditWorld ==
    \/ \E f \in Files, t \in Texts : WriteFile(f, t) \/ Stage(f, t)
    \/ Commit
    \/ \E b \in Branches \cup {Detached} : SwitchBranch(b)
    \/ \E p \in Places : Move(p)
    \/ \E k \in PathKinds : MoveRoot(k)

-----------------------------------------------------------------------------
(* What git prints.                                                        *)

Tracked(s, f) == s.head[f] # Absent \/ s.index[f] # Absent

(* The two letters of the line of a file: its index, and its work tree. *)
Staged(s, f) == s.index[f] # s.head[f]
Modified(s, f) == s.index[f] # Absent /\ s.work[f] # s.index[f]
Untracked(s, f) == s.index[f] = Absent /\ s.work[f] # Absent

Letter(changed) == IF changed THEN "M" ELSE " "

LineOf(s, f) == [x |-> Letter(Staged(s, f)), y |-> Letter(Modified(s, f)), path |-> f]
NewLineOf(f) == [x |-> "?", y |-> "?", path |-> f]

Differing(s) == {f \in Files : Tracked(s, f) /\ (Staged(s, f) \/ Modified(s, f))}
New(s) == {f \in Files : Untracked(s, f)}

(***************************************************************************)
(* git status --porcelain=v1: a line for each file that differs somewhere, *)
(* and after them one for each file that is not in the index.  A file that *)
(* was taken out of the index and is still there gets a line of each kind. *)
(***************************************************************************)
Porcelain(s) ==
    [i \in 1..Cardinality(Differing(s)) |-> LineOf(s, SetToSeq(Differing(s))[i])]
    \o [i \in 1..Cardinality(New(s)) |-> NewLineOf(SetToSeq(New(s))[i])]

(* git diff --shortstat: the number of files that differ, or nothing. *)
Summary(n) == IF n = 0 THEN <<>> ELSE <<n>>

(* What a command that has read s prints, as a sequence of lines or parts. *)
Printed(c, s) ==
    CASE c = "rev_parse"   -> <<s.place = "work_tree">>
      [] c = "branch"      -> IF s.branch = Detached THEN <<>> ELSE <<s.branch>>
      [] c = "porcelain"   -> Porcelain(s)
      [] c = "diff"        -> Summary(Cardinality({f \in Files : Modified(s, f)}))
      [] c = "diff_cached" -> Summary(Cardinality({f \in Files : Staged(s, f)}))

PartSize(c) ==
    CASE c = "rev_parse"               -> AnswerSize
      [] c = "branch"                  -> BranchSize
      [] c = "porcelain"               -> LineSize
      [] c \in {"diff", "diff_cached"} -> SummarySize

(* What _read_limited_pipe keeps of n bytes. *)
Cut(n) == IF n <= MaxBytes THEN [bytes |-> n, truncated |-> FALSE]
          ELSE [bytes |-> MaxBytes, truncated |-> TRUE]

(* The whole lines, or parts, of the bytes that were kept. *)
KeptParts(c, text, r) == SubSeq(text, 1, r.stdout.bytes \div PartSize(c))

-----------------------------------------------------------------------------
(* status().                                                               *)

NoSight == [place |-> "none", branch |-> Detached, head |-> [f \in Files |-> Absent],
            index |-> [f \in Files |-> Absent], work |-> [f \in Files |-> Absent]]

Goto(from, to) ==
    /\ pc = from
    /\ pc' = to
    /\ UNCHANGED <<worldVars, git_executable>>

Answer(from, how) ==
    /\ Goto(from, "done")
    /\ answer' = how
    /\ UNCHANGED status

Proceed(from, to) ==
    /\ Goto(from, to)
    /\ UNCHANGED answer

(* Path.exists() and Path.is_dir() raise PermissionError for a path they may not look at. *)
Exists ==
    /\ CASE root = "denied"  -> Answer("exists", "os_error")
         [] root = "missing" -> Answer("exists", "not_repository")
         [] OTHER            -> Proceed("exists", "is_dir") /\ UNCHANGED status
    /\ UNCHANGED commandVars

IsDir ==
    /\ CASE root = "denied" -> Answer("is_dir", "os_error")
         [] root \in {"missing", "file"} \/ (root = "directory" /\ ~ git_executable) ->
                Answer("is_dir", "not_repository")
         [] OTHER -> Proceed("is_dir", "rev_parse") /\ UNCHANGED status
    /\ UNCHANGED commandVars

(* The command starts in the workspace root, and git reads the index. *)
Launch(c) ==
    /\ ~ running
    /\ root = "directory"
    /\ Proceed(c, c)
    /\ running' = TRUE
    /\ sight' = [repository EXCEPT !.work = NoSight.work, !.head = NoSight.head]
    /\ unseen' = IF c \in {"porcelain", "diff"} THEN Files ELSE {}
    /\ UNCHANGED status

(* git looks at a file of the work tree. *)
Look(f) ==
    /\ f \in unseen
    /\ unseen' = unseen \ {f}
    /\ sight' = [sight EXCEPT !.work[f] = repository.work[f]]
    /\ UNCHANGED <<worldVars, git_executable, pc, running, status, answer>>

Idle ==
    /\ running' = FALSE
    /\ sight' = NoSight
    /\ unseen' = {}

(* Starting or capturing the command fails: ProcessExecutionError. *)
CommandRaises(c) ==
    /\ Answer(c, "git_error")
    /\ Idle

(* Mutant: output that was cut is taken for the whole. *)
RejectedUnlessCut(r, zero) == r.timed_out \/ ~ zero

(* _run_git: timed out, cut, or failed. *)
Rejected(r, zero) ==
    \/ r.timed_out
    \/ r.stdout.truncated \/ r.stderr.truncated
    \/ ~ zero

(* The paths of the chosen lines, in the order of the lines. *)
PathsAt(lines, chosen) ==
    LET order == Sorted(chosen, Ascending(chosen)) IN [n \in DOMAIN order |-> lines[order[n]].path]

(* _parse_porcelain *)
Parse(lines) ==
    [status EXCEPT
        !.staged    = PathsAt(lines, {i \in DOMAIN lines : lines[i].x \notin {" ", "?"}}),
        !.modified  = PathsAt(lines, {i \in DOMAIN lines : lines[i].x # "?" /\ lines[i].y # " "}),
        !.untracked = PathsAt(lines, {i \in DOMAIN lines : lines[i].x = "?"})]

(* Mutant: an empty answer is not made None. *)
NotedRaw(c, text) ==
    CASE c = "branch"    -> [status EXCEPT !.branch = IF text = <<>> THEN text ELSE Head(text)]
      [] c = "porcelain" -> Parse(text)
      [] OTHER           -> [status EXCEPT !.statistics = @ \o text]

(* Mutant: the statistics of the index replace those of the work tree. *)
NotedLast(c, text) ==
    CASE c = "branch"    -> [status EXCEPT !.branch = IF text = <<>> THEN Detached ELSE Head(text)]
      [] c = "porcelain" -> Parse(text)
      [] OTHER           -> [status EXCEPT !.statistics = text]

(* What status() makes of the text of a command; no branch is Detached (None). *)
Noted(c, text) ==
    CASE c = "branch"    -> [status EXCEPT !.branch = IF text = <<>> THEN Detached ELSE Head(text)]
      [] c = "porcelain" -> Parse(text)
      [] OTHER           -> [status EXCEPT !.statistics = @ \o text]   \* _join_non_empty

Following == [branch |-> "porcelain", porcelain |-> "diff", diff |-> "diff_cached"]

(* _is_repository looks at neither the flags nor the reason of a failure. *)
AnswerReceived(text, r, zero) ==
    IF r.timed_out THEN Answer("rev_parse", "git_error")
    ELSE IF zero /\ text = <<TRUE>> THEN Proceed("rev_parse", "branch") /\ UNCHANGED status
    ELSE Answer("rev_parse", "not_repository")

TextReceived(c, text, r, zero) ==
    IF Rejected(r, zero) THEN Answer(c, "git_error")
    ELSE /\ status' = Noted(c, text)
         /\ IF c = "diff_cached" THEN Goto(c, "done") /\ answer' = "status"
            ELSE Proceed(c, Following[c])

(***************************************************************************)
(* The command ends.  If it ends well it has read all it needs, and what   *)
(* was captured is the beginning of what it printed; it may also fail, for *)
(* a reason of its own, at any time.                                       *)
(***************************************************************************)
Returns(c) ==
    LET s == [sight EXCEPT !.head = repository.head]
        text == Printed(c, s)
    IN  /\ pc = c
        /\ running
        /\ \E r \in LegalResults, zero \in BOOLEAN :
              /\ zero => /\ r.exit_code = "own"
                         /\ s.place # "none"
                         /\ unseen = {}
                         /\ r.stdout = Cut(Len(text) * PartSize(c))
              /\ IF c = "rev_parse" THEN AnswerReceived(KeptParts(c, text, r), r, zero)
                 ELSE TextReceived(c, KeptParts(c, text, r), r, zero)
        /\ Idle

Status ==
    \/ Exists
    \/ IsDir
    \/ \E c \in GitCommands : Launch(c) \/ CommandRaises(c) \/ Returns(c)
    \/ \E f \in Files : Look(f)

-----------------------------------------------------------------------------

GitInit ==
    /\ repository \in Repositories
    /\ touched = {}
    /\ edits = 0
    /\ running = FALSE
    /\ sight = NoSight
    /\ unseen = {}
    /\ status = NoStatus
    /\ answer = "none"

(* Every variable of the service and of its world has its type. *)
GitTypeOK ==
    /\ root \in PathKinds
    /\ repository \in Snapshots
    /\ edits \in 0..MaxEdits
    /\ git_executable \in BOOLEAN
    /\ running \in BOOLEAN
    /\ sight \in Snapshots
    /\ unseen \subseteq Files
    /\ status.branch \in Branches \cup {Detached}
    /\ {Range(status.staged), Range(status.modified), Range(status.untracked)} \subseteq SUBSET Files
    /\ answer \in {"none", "status", "not_repository", "git_error", "os_error"}

Lists(files, f, holds) ==
    Cardinality({i \in DOMAIN files : files[i] = f}) = IF holds THEN 1 ELSE 0

(***************************************************************************)
(* A file that nobody touched during the call is listed exactly as it is:  *)
(* once in each of the lists it belongs to, and in no other, whatever      *)
(* happened to other files and however little output the limit allows.     *)
(***************************************************************************)
StableFilesAreExact ==
    answer = "status" =>
        \A f \in Files \ touched :
            /\ Lists(status.staged, f, Staged(repository, f))
            /\ Lists(status.modified, f, Modified(repository, f))
            /\ Lists(status.untracked, f, Untracked(repository, f))

(***************************************************************************)
(* The branch is the one the repository is on if nobody switched it, and   *)
(* the statistics name the files that differ, first from the index, then   *)
(* from the last commit, if no file was touched.                           *)
(***************************************************************************)
StableSummaryIsExact ==
    answer = "status" =>
        /\ "branch" \notin touched => status.branch = repository.branch
        /\ touched \cap Files = {} =>
              status.statistics = Summary(Cardinality({f \in Files : Modified(repository, f)}))
                                  \o Summary(Cardinality({f \in Files : Staged(repository, f)}))

(***************************************************************************)
(* The workspace is reported to be no repository only if it is none.       *)
(* failure-catalog.md says that failures of the inspection are reported as *)
(* failures; _is_repository takes every failure of rev-parse but a timeout *)
(* for the answer that there is no repository.                             *)
(***************************************************************************)
RepositoryIsRecognised ==
    answer = "not_repository" /\ touched = {} =>
        root # "directory" \/ ~ git_executable \/ repository.place # "work_tree"

=============================================================================
