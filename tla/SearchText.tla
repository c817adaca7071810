----------------------------- MODULE SearchText -----------------------------
(***************************************************************************)
(* SearchService.search_text (services/search.py): it first lists the      *)
(* files to search, by a recursive walk, and then reads them one by one,   *)
(* while the tree changes between any two of its system calls.             *)
(*                                                                         *)
(* A file is known by what a search finds in it: whether it is too large,  *)
(* whether it is binary, and the sizes of its matching lines in order.     *)
(***************************************************************************)
EXTENDS WorkspaceTree, Integers

CONSTANTS
    Content,              \* what is in each kind of file
    Requests,             \* the arguments search_text is called with
    None,                 \* an argument that is not given
    ConfiguredOutputBytes \* max_output_bytes of the configuration

ASSUME SearchAssumption ==
    /\ Content \in [Files -> [too_large : BOOLEAN, binary : BOOLEAN, sizes : Seq(Nat)]]
    /\ ConfiguredOutputBytes \in Nat \ {0}
    /\ \A r \in Requests :
          /\ r.directory \in Paths
          /\ r.glob \subseteq Paths    \* the paths fnmatch accepts
          /\ r.empty_query \in BOOLEAN
          /\ r.result_limit \in Int
          /\ r.max_output_bytes \in Int \cup {None}

VARIABLES
    args,          \* the arguments of the call
    pc,            \* the step it is at
    stack,         \* children left to visit in each directory being walked
    current,       \* the directory, child or file looked at
    files,         \* the files to search
    matches,       \* matches so far: path, file found there, number in it
    output_bytes,
    searched,      \* searched_files
    skipped,       \* skipped_files
    answer         \* how the call ended

walkVars == <<stack, files>>
foundVars == <<matches, output_bytes, searched, skipped>>
searchVars == <<args, pc, stack, current, files, matches, output_bytes, searched, skipped, answer>>
vars == <<treeVars, searchVars>>

Total(sizes) ==
    LET sum[n \in 0..Len(sizes)] == IF n = 0 THEN 0 ELSE sum[n - 1] + sizes[n]
    IN sum[Len(sizes)]

Goto(from, to) ==
    /\ pc = from
    /\ pc' = to
    /\ UNCHANGED <<treeVars, args>>

Step(from, to) ==
    /\ Goto(from, to)
    /\ UNCHANGED <<walkVars, current, foundVars, answer>>

End(from, how) ==
    /\ Goto(from, "done")
    /\ answer' = how
    /\ UNCHANGED <<walkVars, current, foundVars>>

-----------------------------------------------------------------------------

(* Mutant: the limit of the call replaces the configured one. *)
OutputLimitAsAsked ==
    IF args.max_output_bytes = None THEN ConfiguredOutputBytes ELSE args.max_output_bytes

(* _effective_output_limit *)
OutputLimit ==
    IF args.max_output_bytes = None THEN ConfiguredOutputBytes
    ELSE IF args.max_output_bytes < ConfiguredOutputBytes THEN args.max_output_bytes
    ELSE ConfiguredOutputBytes

Invalid == args.empty_query \/ args.result_limit < 1 \/ OutputLimit < 1

Validate == IF Invalid THEN End("call", "invalid") ELSE Step("call", "resolve")

Resolve ==
    IF tree[args.directory] = "none" THEN End("resolve", "not_found")
    ELSE Step("resolve", "check_directory")

CheckDirectory ==
    IF tree[args.directory] # "directory" THEN End("check_directory", "not_directory")
    ELSE /\ Goto("check_directory", "open")
         /\ current' = args.directory
         /\ UNCHANGED <<walkVars, foundVars, answer>>

-----------------------------------------------------------------------------
(* _iter_searchable_files.                                                 *)

(* Mutant: the children are visited in the order iterdir() gives them. *)
OpenUnsorted ==
    IF ~ MayList(current) THEN End("open", "os_error")
    ELSE /\ Goto("open", "next_child")
         /\ stack' = <<Reverse(Children(current))>> \o stack
         /\ UNCHANGED <<current, files, foundVars, answer>>

(* iterdir() raises OSError if the directory is gone or must not be listed. *)
Open ==
    IF ~ MayList(current) THEN End("open", "os_error")
    ELSE /\ Goto("open", "next_child")
         /\ stack' = <<Children(current)>> \o stack
         /\ UNCHANGED <<current, files, foundVars, answer>>

NextChild ==
    /\ pc = "next_child"
    /\ IF Head(stack) = <<>>
       THEN /\ Goto("next_child", IF Len(stack) = 1 THEN "next_file" ELSE "next_child")
            /\ stack' = Tail(stack)
            /\ UNCHANGED current
       ELSE /\ Goto("next_child", "is_symlink")
            /\ current' = Head(Head(stack))
            /\ stack' = <<Tail(Head(stack))>> \o Tail(stack)
    /\ UNCHANGED <<files, foundVars, answer>>

IsSymlink == Step("is_symlink", IF tree[current] = "symlink" THEN "next_child" ELSE "is_directory")

(* Mutant: an excluded directory is searched. *)
IsDirectoryAlways == Step("is_directory", IF tree[current] = "directory" THEN "open" ELSE "is_file")

IsDirectory ==
    /\ pc = "is_directory"
    /\ Step("is_directory", IF tree[current] # "directory" THEN "is_file"
                            ELSE IF Name(current) \in ExcludedNames THEN "next_child"
                            ELSE "open")

IsFile == Step("is_file", IF tree[current] \in Files THEN "resolve_child" ELSE "next_child")

(***************************************************************************)
(* A child that is gone raises WorkspacePathNotFoundError, which is not    *)
(* the PathSecurityError that is caught: the search ends.                  *)
(***************************************************************************)
ResolveChild ==
    IF tree[current] = "none" THEN End("resolve_child", "not_found")
    ELSE /\ Goto("resolve_child", "next_child")
         /\ files' = IF current \in args.glob THEN Append(files, current) ELSE files
         /\ UNCHANGED <<stack, current, foundVars, answer>>

-----------------------------------------------------------------------------
(* The files are read.                                                     *)

NextFile ==
    IF files = <<>> THEN End("next_file", "complete")
    ELSE /\ Goto("next_file", "stat")
         /\ current' = Head(files)
         /\ files' = Tail(files)
         /\ UNCHANGED <<stack, foundVars, answer>>

(* Mutant: the first file that is skipped ends the search. *)
SkipEnds(from) ==
    End(from, "complete")

(* A file that is too large or binary. *)
Skip(from) ==
    /\ Goto(from, "next_file")
    /\ skipped' = skipped + 1
    /\ UNCHANGED <<walkVars, current, matches, output_bytes, searched, answer>>

(* enforce_file_size: a directory has a size too. *)
StatFile ==
    \/ tree[current] = "none" /\ End("stat", "os_error")
    \/ /\ \/ tree[current] = "directory"
          \/ tree[current] \in Files /\ Content[tree[current]].too_large
       /\ Skip("stat")
    \/ /\ \/ tree[current] = "directory"
          \/ tree[current] \in Files /\ ~ Content[tree[current]].too_large
       /\ Step("stat", "read")

(* The next n matches, of these sizes, fit both limits. *)
Fits(sizes, n) ==
    /\ Len(matches) + n <= args.result_limit
    /\ output_bytes + Total(SubSeq(sizes, 1, n)) <= OutputLimit

(* Mutant: the number of matches is not limited. *)
KeptUncounted(sizes) == CHOOSE n \in 0..Len(sizes) :
    /\ output_bytes + Total(SubSeq(sizes, 1, n)) <= OutputLimit
    /\ n < Len(sizes) => output_bytes + Total(SubSeq(sizes, 1, n + 1)) > OutputLimit

(* How many matches, of these sizes, are kept until one does not fit. *)
Kept(sizes) == CHOOSE n \in 0..Len(sizes) :
    /\ \A m \in 1..n : Fits(sizes, m)
    /\ n < Len(sizes) => ~ Fits(sizes, n + 1)

(***************************************************************************)
(* The file is read, decoded, and its lines looked at.  What is no file or *)
(* must not be opened raises an OSError that nothing catches.              *)
(***************************************************************************)
ReadFile ==
    /\ pc = "read"
    /\ IF tree[current] \notin Files \/ current \in unreadable THEN End("read", "os_error")
       ELSE IF Content[tree[current]].binary THEN Skip("read")
       ELSE LET sizes == Content[tree[current]].sizes
                n     == Kept(sizes)
            IN /\ searched' = searched + 1
               /\ matches' = matches \o [i \in 1..n |-> <<current, tree[current], i>>]
               /\ output_bytes' = output_bytes + Total(SubSeq(sizes, 1, n))
               /\ IF n = Len(sizes)
                  THEN Goto("read", "next_file") /\ UNCHANGED answer
                  ELSE Goto("read", "done") /\ answer' = "truncated"
               /\ UNCHANGED <<walkVars, current, skipped>>

Search ==
    \/ Validate \/ Resolve \/ CheckDirectory
    \/ Open \/ NextChild \/ IsSymlink \/ IsDirectory \/ IsFile \/ ResolveChild
    \/ NextFile \/ (pc = "stat" /\ StatFile) \/ ReadFile

Finished ==
    /\ pc = "done"
    /\ UNCHANGED vars

Init ==
    /\ TreeInit
    /\ args \in Requests
    /\ pc = "call"
    /\ stack = <<>>
    /\ current = <<>>
    /\ files = <<>>
    /\ matches = <<>>
    /\ output_bytes = 0
    /\ searched = 0
    /\ skipped = 0
    /\ answer = "none"

Next == Search \/ (Edit /\ UNCHANGED searchVars) \/ Finished

Spec == Init /\ [][Next]_vars

-----------------------------------------------------------------------------

Size(match) == Content[match[2]].sizes[match[3]]

(* Every variable has its type; the output keeps the configured limit. *)
TypeOK ==
    /\ TreeTypeOK
    /\ args \in Requests
    /\ pc \in {"call", "resolve", "check_directory", "open", "next_child", "is_symlink",
               "is_directory", "is_file", "resolve_child", "next_file", "stat", "read", "done"}
    /\ stack \in Seq(Seq(Paths))
    /\ current \in Paths
    /\ files \in Seq(Paths)
    /\ \A i \in DOMAIN matches :
          /\ matches[i] \in Paths \X Files \X Nat
          /\ matches[i][3] \in DOMAIN Content[matches[i][2]].sizes
    /\ output_bytes \in 0..ConfiguredOutputBytes
    /\ searched \in Nat
    /\ skipped \in Nat
    /\ answer \in {"none", "invalid", "not_found", "not_directory", "os_error",
                   "truncated", "complete"}

(***************************************************************************)
(* The limits of the call hold at every moment, and output_bytes is what   *)
(* the matches take, although they come from many files.                   *)
(***************************************************************************)
OutputIsBounded ==
    /\ output_bytes = Total([i \in DOMAIN matches |-> Size(matches[i])])
    /\ matches # <<>> => Len(matches) <= args.result_limit /\ output_bytes <= OutputLimit

(* What is to be searched, in order, and all that is to be found in it. *)
Searchable ==
    {p \in Reachable(args.directory) : tree[p] \in Files /\ p \in args.glob}

IsText(p) == ~ Content[tree[p]].too_large /\ ~ Content[tree[p]].binary

MatchesIn(p) ==
    IF IsText(p) THEN [i \in DOMAIN Content[tree[p]].sizes |-> <<p, tree[p], i>>] ELSE <<>>

Visited == InOrder(Searchable)

(* The directories to look into that must not be listed. *)
Barred ==
    {d \in {args.directory} \cup Reachable(args.directory) :
        tree[d] = "directory" /\ d \in unreadable}

(* The files to read that must not be opened. *)
Denied == {p \in Searchable : p \in unreadable /\ ~ Content[tree[p]].too_large}

(* All that is to be found in the first n files fits the limits. *)
FitsUpTo(n) ==
    LET before == FlattenSeq([i \in 1..n |-> MatchesIn(Visited[i])])
    IN /\ Len(before) <= args.result_limit
       /\ Total([i \in DOMAIN before |-> Size(before[i])]) <= OutputLimit

(* The search gets to a directory or a file that it is denied. *)
IsDenied ==
    \/ Barred # {}
    \/ \E n \in DOMAIN Visited : Visited[n] \in Denied /\ FitsUpTo(n - 1)

Expected ==
    IF Invalid THEN {"invalid"}
    ELSE IF tree[args.directory] = "none" THEN {"not_found"}
    ELSE IF tree[args.directory] # "directory" THEN {"not_directory"}
    ELSE IF IsDenied THEN {"os_error"}
    ELSE {"truncated", "complete"}

(***************************************************************************)
(* A search of a tree nobody changes finds what is there, in order, up to  *)
(* the first match that does not fit a limit; it is marked truncated       *)
(* exactly then, and counts the files it looked into.  It fails only for   *)
(* what was asked, or when there is a directory below that must not be     *)
(* listed, or a file that must not be opened before the limits are met.    *)
(***************************************************************************)
QuietSearchIsExact ==
    pc = "done" /\ touched = {} =>
        /\ answer \in Expected
        /\ answer \in {"truncated", "complete"} =>
              LET all     == FlattenSeq([i \in DOMAIN Visited |-> MatchesIn(Visited[i])])
                  found   == Len(matches)
                  texts   == {p \in Searchable : IsText(p)}
              IN /\ matches = SubSeq(all, 1, found)
                 /\ answer = "complete" =>
                       /\ found = Len(all)
                       /\ searched = Cardinality(texts)
                       /\ skipped = Cardinality(Searchable \ texts)
                 /\ answer = "truncated" =>
                       /\ found < Len(all)
                       /\ \/ found = args.result_limit
                          \/ output_bytes + Size(all[found + 1]) > OutputLimit
                       /\ Visited[searched + skipped] = all[found + 1][1]

(***************************************************************************)
(* While the tree changes, a search still finds what is in the files that  *)
(* do not, unless it says it is truncated and they come after, or hold,    *)
(* the last match it gives.                                                *)
(***************************************************************************)
StableMatchesAreFound ==
    answer \in {"truncated", "complete"} =>
        \A p \in Searchable \cap Untouched :
            \A i \in DOMAIN MatchesIn(p) :
                \/ MatchesIn(p)[i] \in ToSet(matches)
                \/ /\ answer = "truncated"
                   /\ matches # <<>> => ~ Precedes(p, Last(matches)[1])

(***************************************************************************)
(* However the tree changes, the matches come in the order of the walk,    *)
(* each once, and those of one file are the first ones of one state of it. *)
(***************************************************************************)
MatchesAreOrdered ==
    \A i \in 1..Len(matches) :
        LET m == matches[i] IN
        IF m[3] = 1 THEN i = 1 \/ Precedes(matches[i - 1][1], m[1])
        ELSE i > 1 /\ matches[i - 1] = <<m[1], m[2], m[3] - 1>>

=============================================================================
