----------------------------- MODULE ListFiles -----------------------------
(***************************************************************************)
(* FileSystemService.list_files (services/filesystem.py): a recursive walk *)
(* over a tree that changes between any two of its system calls.           *)
(*                                                                         *)
(* The recursion of _walk_directory is a stack: one frame per directory    *)
(* being walked, with the children left to visit and its local truncated.  *)
(***************************************************************************)
EXTENDS WorkspaceTree, Integers

CONSTANT Requests    \* the arguments list_files is called with

ASSUME RequestsAssumption ==
    \A r \in Requests :
        /\ r.directory \in Paths
        /\ r.max_depth \in Int
        /\ r.max_results \in Int
        /\ r.pattern \subseteq Nat    \* the names fnmatch accepts

VARIABLES
    args,      \* the arguments of the call
    pc,        \* the step it is at
    stack,     \* the frames of _walk_directory, the innermost first
    current,   \* the directory to open or the child looked at
    value,     \* what the last _walk_directory returned
    entries,   \* the paths listed so far
    answer     \* how the call ended

listVars == <<args, pc, stack, current, value, entries, answer>>
vars == <<treeVars, listVars>>

Goto(from, to) ==
    /\ pc = from
    /\ pc' = to
    /\ UNCHANGED <<treeVars, args>>

Step(from, to) ==
    /\ Goto(from, to)
    /\ UNCHANGED <<stack, current, value, entries, answer>>

End(from, how) ==
    /\ Goto(from, "done")
    /\ answer' = how
    /\ UNCHANGED <<stack, current, value, entries>>

(* The arguments are checked. *)
Validate ==
    IF args.max_depth < 0 \/ args.max_results < 1 THEN End("call", "invalid")
    ELSE Step("call", "resolve")

(* resolve_workspace_path, of a path that leads nowhere else. *)
Resolve ==
    IF tree[args.directory] = "none" THEN End("resolve", "not_found")
    ELSE Step("resolve", "check_directory")

CheckDirectory ==
    IF tree[args.directory] # "directory" THEN End("check_directory", "not_directory")
    ELSE /\ Goto("check_directory", "open")
         /\ current' = args.directory
         /\ UNCHANGED <<stack, value, entries, answer>>

(* Mutant: the children are visited in the order iterdir() gives them. *)
OpenUnsorted ==
    IF ~ MayList(current) THEN End("open", "cannot_list")
    ELSE /\ Goto("open", "next")
         /\ stack' = <<[rest |-> Reverse(Children(current)), truncated |-> FALSE]>> \o stack
         /\ UNCHANGED <<current, value, entries, answer>>

(* _walk_directory begins: it lists the directory, if it is there and may be read. *)
Open ==
    IF ~ MayList(current) THEN End("open", "cannot_list")
    ELSE /\ Goto("open", "next")
         /\ stack' = <<[rest |-> Children(current), truncated |-> FALSE]>> \o stack
         /\ UNCHANGED <<current, value, entries, answer>>

(* _walk_directory returns v to its caller. *)
Leave(from, v) ==
    /\ Goto(from, "return")
    /\ stack' = Tail(stack)
    /\ value' = v
    /\ UNCHANGED <<current, entries, answer>>

(* The next round of the loop over the children, or its end. *)
NextChild ==
    /\ pc = "next"
    /\ LET frame == Head(stack) IN
       IF frame.rest = <<>> THEN Leave("next", frame.truncated)
       ELSE /\ Goto("next", IF Name(Head(frame.rest)) \in ExcludedNames
                            THEN "excluded_symlink" ELSE "is_symlink")
            /\ current' = Head(frame.rest)
            /\ stack' = <<[frame EXCEPT !.rest = Tail(@)]>> \o Tail(stack)
            /\ UNCHANGED <<value, entries, answer>>

(* An excluded name: directories are left out, links and files are not. *)
ExcludedSymlink ==
    Step("excluded_symlink", IF tree[current] = "symlink" THEN "is_symlink" ELSE "excluded_directory")

ExcludedDirectory ==
    Step("excluded_directory", IF tree[current] = "directory" THEN "next" ELSE "is_symlink")

Matches == Name(current) \in args.pattern

Full == Len(entries) >= args.max_results

(* Mutants: one entry too many; only matching directories are entered. *)
ListedBeyondLimit(from, kind) ==
    /\ pc = from
    /\ IF Matches /\ Len(entries) > args.max_results THEN Leave(from, TRUE)
       ELSE /\ Goto(from, IF kind = "directory" /\ Len(stack) - 1 < args.max_depth THEN "open" ELSE "next")
            /\ entries' = IF Matches THEN Append(entries, current) ELSE entries
            /\ UNCHANGED <<stack, current, value, answer>>

ListedIfMatching(from, kind) ==
    /\ pc = from
    /\ IF Matches /\ Full THEN Leave(from, TRUE)
       ELSE /\ Goto(from, IF Matches /\ kind = "directory" /\ Len(stack) - 1 < args.max_depth
                          THEN "open" ELSE "next")
            /\ entries' = IF Matches THEN Append(entries, current) ELSE entries
            /\ UNCHANGED <<stack, current, value, answer>>

(* The child is an entry of that kind: list it, and walk a directory. *)
Listed(from, kind) ==
    /\ pc = from
    /\ IF Matches /\ Full THEN Leave(from, TRUE)
       ELSE /\ Goto(from, IF kind = "directory" /\ Len(stack) - 1 < args.max_depth THEN "open" ELSE "next")
            /\ entries' = IF Matches THEN Append(entries, current) ELSE entries
            /\ UNCHANGED <<stack, current, value, answer>>

(* _entry_for_path: three looks at the child. *)
IsSymlink ==
    IF tree[current] = "symlink" THEN Listed("is_symlink", "symlink")
    ELSE Step("is_symlink", "is_directory")

IsDirectory ==
    IF tree[current] = "directory" THEN Listed("is_directory", "directory")
    ELSE Step("is_directory", "stat")

(* The size of a file; stat() of a path that is gone raises OSError. *)
Stat ==
    IF tree[current] = "none" THEN End("stat", "os_error") ELSE Listed("stat", "file")

(* Mutant: a caller forgets that a directory below it was cut. *)
ReturnUnflagged ==
    IF stack = <<>> THEN End("return", IF value THEN "truncated" ELSE "complete")
    ELSE Step("return", "next")

(* The caller of the walk that returned is told whether it was cut short. *)
Return ==
    IF stack = <<>> THEN End("return", IF value THEN "truncated" ELSE "complete")
    ELSE LET frame == Head(stack)
             flagged == frame.truncated \/ value
         IN IF Full /\ value THEN Leave("return", TRUE)
            ELSE /\ Goto("return", "next")
                 /\ stack' = <<[frame EXCEPT !.truncated = flagged]>> \o Tail(stack)
                 /\ UNCHANGED <<current, value, entries, answer>>

List ==
    \/ Validate \/ Resolve \/ CheckDirectory
    \/ Open \/ NextChild \/ ExcludedSymlink \/ ExcludedDirectory
    \/ IsSymlink \/ IsDirectory \/ Stat \/ Return

Finished ==
    /\ pc = "done"
    /\ UNCHANGED vars

Init ==
    /\ TreeInit
    /\ args \in Requests
    /\ pc = "call"
    /\ stack = <<>>
    /\ current = <<>>
    /\ value = FALSE
    /\ entries = <<>>
    /\ answer = "none"

Next == List \/ (Edit /\ UNCHANGED listVars) \/ Finished

Spec == Init /\ [][Next]_vars

-----------------------------------------------------------------------------

(* Every variable has its type; no listing is longer than asked for. *)
TypeOK ==
    /\ TreeTypeOK
    /\ args \in Requests
    /\ pc \in {"call", "resolve", "check_directory", "open", "next", "excluded_symlink",
               "excluded_directory", "is_symlink", "is_directory", "stat", "return", "done"}
    /\ \A i \in DOMAIN stack :
          stack[i].rest \in Seq(Paths) /\ stack[i].truncated \in BOOLEAN
    /\ current \in Paths
    /\ value \in BOOLEAN
    /\ entries \in Seq(Paths)
    /\ entries # <<>> => Len(entries) <= args.max_results
    /\ answer \in {"none", "invalid", "not_found", "not_directory", "cannot_list",
                   "os_error", "truncated", "complete"}

(***************************************************************************)
(* What list_files is to list, without walking: everything below the       *)
(* directory, not too deep, that matches and that no excluded directory    *)
(* hides.                                                                  *)
(***************************************************************************)
ToList ==
    {p \in Reachable(args.directory) :
        /\ Len(p) - Len(args.directory) <= args.max_depth + 1
        /\ Name(p) \in args.pattern}

(* The directories to look into that may not be listed. *)
Barred ==
    {d \in {args.directory} \cup Reachable(args.directory) :
        /\ Len(d) - Len(args.directory) <= args.max_depth
        /\ tree[d] = "directory" /\ d \in unreadable}

(* The listing gets to one of them: it is not full before. *)
IsBarred ==
    \E d \in Barred :
        Cardinality({p \in ToList : p = d \/ Precedes(p, d)}) <= args.max_results

Expected ==
    IF args.max_depth < 0 \/ args.max_results < 1 THEN "invalid"
    ELSE IF tree[args.directory] = "none" THEN "not_found"
    ELSE IF tree[args.directory] # "directory" THEN "not_directory"
    ELSE IF IsBarred THEN "cannot_list"
    ELSE IF Cardinality(ToList) > args.max_results THEN "truncated"
    ELSE "complete"

(***************************************************************************)
(* A listing of a tree nobody changes lists that, in order, up to the      *)
(* limit, and is marked truncated exactly when something was left out.     *)
(* It fails only for what was asked, or when it gets to a directory that   *)
(* may not be listed before it is full.                                    *)
(***************************************************************************)
QuietListingIsExact ==
    pc = "done" /\ touched = {} =>
        /\ answer = Expected
        /\ answer \in {"truncated", "complete"} =>
              LET all == InOrder(ToList)
              IN entries = IF answer = "complete" THEN all ELSE SubSeq(all, 1, args.max_results)

(***************************************************************************)
(* While the tree changes, the listing still covers all that does not: an  *)
(* entry that was there all the time is listed, unless the listing says it *)
(* is truncated and it comes after the last one listed.                    *)
(***************************************************************************)
StableEntriesAreListed ==
    answer \in {"truncated", "complete"} =>
        \A p \in ToList \cap Untouched :
            \/ \E i \in DOMAIN entries : entries[i] = p
            \/ answer = "truncated" /\ Precedes(Last(entries), p)

(***************************************************************************)
(* However the tree changes, nothing is listed twice and the order of the  *)
(* entries is that of the walk.                                            *)
(***************************************************************************)
EntriesAreOrdered ==
    \A i \in 1..(Len(entries) - 1) : Precedes(entries[i], entries[i + 1])

=============================================================================
