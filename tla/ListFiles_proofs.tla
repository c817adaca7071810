-------------------------- MODULE ListFiles_proofs --------------------------
(***************************************************************************)
(* What a listing gives, for every tree, every request and any number of   *)
(* changes made while it is walked.                                        *)
(***************************************************************************)
EXTENDS ListFiles, Ordering_proofs

-----------------------------------------------------------------------------
(* The tree.                                                               *)

LEMMA PathsArePaths == Paths \subseteq Path /\ <<>> \in Paths
  BY PathsAssumption DEF Path

LEMMA TreeStands ==
    ASSUME TreeTypeOK
    PROVE  tree \in [Paths -> Kinds] /\ TreeOn(tree, Paths)
  BY PathsArePaths, PathsAssumption DEF TreeTypeOK, IsTree, TreeOn, Parent

LEMMA TheWayThere ==
    ASSUME TreeTypeOK, NEW p \in Paths, tree[p] # "none", NEW q \in Path, IsPrefix(q, p)
    PROVE  q \in Paths /\ tree[q] # "none" /\ (q # p => tree[q] = "directory")
  BY TreeStands, WayInTree

LEMMA ChildrenFacts ==
    ASSUME TreeTypeOK, NEW d \in Paths
    PROVE  /\ Children(d) \in Seq(Paths) /\ Children(d) \in Seq(Path)
           /\ Rising(Children(d))
           /\ \A n \in DOMAIN Children(d) : Children(d)[n] # <<>> /\ Front(Children(d)[n]) = d
           /\ \A x \in Range(Children(d)) : x \in Paths /\ x # <<>> /\ Front(x) = d /\ tree[x] # "none"
           /\ \A p \in Paths : IsStrictPrefix(d, p) /\ tree[p] # "none" =>
                 \E x \in Range(Children(d)) : IsPrefix(x, p)
<1>1. TreeOn(tree, Paths) /\ Children(d) = ChildrenOn(tree, Paths, d)
  BY TreeStands DEF Children, ChildrenOn, Parent
<1> QED
  BY <1>1, ChildrenInTree

(* Whatever other programs do, a tree remains. *)
LEMMA EditKeepsTree ==
    ASSUME TreeTypeOK, Edit
    PROVE  TreeTypeOK'
<1>1. PICK p \in Paths :
          Delete(p) \/ Protect(p) \/ \E k \in Files \cup {"directory"} : Put(p, k)
  BY DEF Edit
<1>2. /\ edits < MaxEdits /\ edits' = edits + 1 /\ touched' = touched \cup {p}
      /\ MaxEdits \in Nat /\ (Protect(p) \/ p # <<>>)
  BY <1>1, PathsAssumption DEF Delete, Put, Protect, Touch
<1>3. touched' \subseteq Paths /\ edits' \in 0..MaxEdits
  BY <1>2 DEF TreeTypeOK
<1>6. unreadable' \subseteq Paths
  BY <1>1 DEF Delete, Put, Protect, TreeTypeOK
<1>4. tree \in [Paths -> Kinds] /\ TreeOn(tree, Paths)
  BY TreeStands
<1>5. tree' \in [Paths -> Kinds] /\ TreeOn(tree', Paths)
  <2>3. CASE Protect(p)
    BY <1>4, <2>3 DEF Protect
  <2>1. CASE Delete(p)
    <3>0. p # <<>>
      BY <2>1 DEF Delete
    <3>1. tree' = [q \in Paths |-> IF IsPrefix(p, q) THEN "none" ELSE tree[q]]
      BY <2>1 DEF Delete, Below
    <3>2. TreeOn(tree', Paths)
      BY <3>0, <1>4, <3>1, PrunedTree
    <3> QED
      BY <1>4, <3>1, <3>2 DEF Kinds
  <2>2. ASSUME NEW k \in Files \cup {"directory"}, Put(p, k)
        PROVE  tree' \in [Paths -> Kinds] /\ TreeOn(tree', Paths)
    <3>1. /\ tree' = [tree EXCEPT ![p] = k] /\ tree[Front(p)] = "directory" /\ p # <<>>
          /\ tree[p] = "none" \/ tree[p] \in Files
      BY <2>2 DEF Put, Parent
    <3>2. tree[p] # "directory"
      BY <3>1, PathsAssumption
    <3>3. TreeOn(tree', Paths)
      BY <1>4, <3>1, <3>2, GrownTree
    <3> QED
      BY <1>4, <3>1, <3>3 DEF Kinds
  <2> QED
    BY <1>1, <2>1, <2>2, <2>3
<1> QED
  BY <1>3, <1>5, <1>6 DEF TreeTypeOK, IsTree, TreeOn, Parent

(* What is untouched was before, and all on the way to it is as it was. *)
LEMMA EditKeepsUntouched ==
    ASSUME TreeTypeOK, Edit
    PROVE  /\ touched' # {}
           /\ \A p \in Untouched' : p \in Untouched /\ p \in Paths
                 /\ \A q \in Paths : IsPrefix(q, p) => tree'[q] = tree[q]
<1>1. PICK x \in Paths : Delete(x) \/ Protect(x) \/ \E k \in Files \cup {"directory"} : Put(x, k)
  BY DEF Edit
<1>2. touched' = touched \cup {x}
  BY <1>1 DEF Delete, Put, Protect, Touch
<1>3. ASSUME NEW q \in Paths, ~ IsPrefix(x, q) PROVE tree'[q] = tree[q]
  <2>1. x # q
    BY <1>3, PathsArePaths, PrefixFacts
  <2> QED
    BY <1>1, <1>3, <2>1 DEF Delete, Put, Protect, Below, TreeTypeOK, IsTree
<1>4. ASSUME NEW p \in Paths, \A q \in touched \cup {x} : ~ IsPrefix(q, p),
             NEW q \in Paths, IsPrefix(q, p)
      PROVE  tree'[q] = tree[q]
  <2>1. ~ IsPrefix(x, q)
    BY <1>4, PathsArePaths, PrefixTransitive
  <2> QED
    BY <1>3, <2>1
<1>5. Untouched' = {p \in Paths : \A q \in touched \cup {x} : ~ IsPrefix(q, p)}
  BY <1>2 DEF Untouched
<1> QED
  BY <1>2, <1>4, <1>5 DEF Untouched

-----------------------------------------------------------------------------
(* The inductive invariant.                                                *)

(* The steps at which a child is looked at; those at which a walk goes on. *)
Listable == {"is_symlink", "is_directory", "stat"}
Looks == {"excluded_symlink", "excluded_directory"} \cup Listable
Walking == {"open", "next", "return"} \cup Looks

(* No frame is ever flagged: a walk that was cut short makes its callers return. *)
Frame == [rest : Seq(Paths), truncated : {FALSE}]

ListTypeInv ==
    /\ TreeTypeOK
    /\ args \in Requests
    /\ pc \in {"call", "resolve", "check_directory", "done"} \cup Walking
    /\ stack \in Seq(Frame)
    /\ current \in Paths
    /\ value \in BOOLEAN
    /\ entries \in Seq(Paths)
    /\ entries # <<>> => Len(entries) <= args.max_results
    /\ answer \in {"none", "invalid", "not_found", "not_directory", "cannot_list",
                   "os_error", "truncated", "complete"}

(* The walk was cut short. *)
Cut == (pc = "return" /\ value = TRUE) \/ answer = "truncated"

PhaseInv ==
    /\ pc # "done" => answer = "none"
    /\ pc \notin {"call", "done"} => args.max_depth >= 0 /\ args.max_results >= 1
    /\ pc \in {"call", "resolve", "check_directory"} => stack = <<>> /\ entries = <<>>
    /\ pc \in Looks \cup {"next"} => stack # <<>>
    /\ Cut => Full /\ args.max_results >= 1
    /\ answer \in {"truncated", "complete"} => stack = <<>>

(* The children still to come, by directory. *)
RestsOf(s) == [i \in 1..Len(s) |-> s[i].rest]
Rests == RestsOf(stack)

(* The walk is as deep as its stack, and no deeper than asked for. *)
DepthInv ==
    /\ InPlace(Rests, args.directory)
    /\ pc \in Walking => Len(stack) <= args.max_depth + 1
    /\ pc = "open" => Len(stack) <= args.max_depth /\ IsPrefix(args.directory, current)
    /\ pc \in Looks => IsStrictPrefix(args.directory, current)
    /\ pc \in Looks \cup {"open"} => Len(current) = Len(args.directory) + Len(stack)

(* What was listed comes before what is looked at, and that before what waits. *)
OrderInv ==
    /\ \A x \in Ahead(Rests) :
          /\ pc \in Looks \cup {"open"} => LeftOf(current, x)
          /\ pc \in {"next", "return"} => Precedes(current, x)
    /\ Rising(entries)
    /\ \A k \in DOMAIN entries :
          /\ pc \in Walking => entries[k] = current \/ Precedes(entries[k], current)
          /\ pc \in Looks => Precedes(entries[k], current)

(* The walk will get to these, unless they go. *)
Awaited ==
    {p \in Paths : \/ \E x \in Ahead(Rests) : IsPrefix(x, p)
                   \/ pc = "open" /\ IsStrictPrefix(current, p)
                   \/ pc \in Looks \ {"stat"} /\ IsPrefix(current, p)
                   \/ pc = "stat" /\ p = current}

(* These come after the place where the listing was cut short. *)
LeftOut == {p \in Paths : Cut /\ Precedes(Last(entries), p)}

(* Nothing that stays as it was is lost. *)
CoverInv ==
    /\ pc \in {"excluded_symlink", "excluded_directory"} => Name(current) \in ExcludedNames
    /\ pc \in Walking \/ answer \in {"truncated", "complete"} =>
          ToList \cap Untouched \subseteq Range(entries) \cup Awaited \cup LeftOut

(* A directory that may not be listed is still to be opened, unless the walk was cut. *)
BarredInv ==
    touched = {} /\ ~ Cut /\ (pc \in Walking \/ answer = "complete") =>
        \A d \in Barred : d \in Awaited \/ (pc = "open" /\ d = current)

(* Something was left out, and no directory that may not be listed comes before it. *)
LeftSome ==
    \E p \in ToList : /\ Precedes(Last(entries), p)
                      /\ \A d \in Barred : p = d \/ Precedes(p, d)

(* The paths hidden by no excluded directory on the way. *)
Visible ==
    {p \in Paths : \A q \in Paths :
        IsStrictPrefix(args.directory, q) /\ IsStrictPrefix(q, p) => ~ Excluded(q)}

(* As long as nothing changes, what the walk has come by is there and is to be listed. *)
QuietInv ==
    touched = {} =>
        /\ pc = "check_directory" => tree[args.directory] # "none"
        /\ pc \in Walking => tree[args.directory] = "directory"
        /\ \A x \in Ahead(Rests) : tree[x] # "none" /\ x \in Visible
        /\ pc = "open" => /\ tree[current] = "directory"
                          /\ current # args.directory => current \in Reachable(args.directory)
        /\ pc \in Looks => tree[current] # "none" /\ current \in Visible
        /\ pc \in Listable => ~ Excluded(current)
        /\ pc = "stat" => tree[current] # "directory"
        /\ Range(entries) \subseteq ToList
        /\ Cut => LeftSome

WalkInv ==
    ListTypeInv /\ PhaseInv /\ DepthInv /\ OrderInv /\ CoverInv /\ BarredInv /\ QuietInv

ListInv == WalkInv /\ QuietListingIsExact

-----------------------------------------------------------------------------
(* What the parts of a step change.                                        *)

LEMMA SameTree ==
    ASSUME ListTypeInv, UNCHANGED <<treeVars, args>>
    PROVE  /\ TreeTypeOK' /\ args' = args /\ args' \in Requests /\ touched' = touched /\ tree' = tree
           /\ ToList' = ToList /\ Untouched' = Untouched /\ Visible' = Visible
           /\ Reachable(args.directory)' = Reachable(args.directory)
           /\ Expected' = Expected /\ Barred' = Barred
<1>1. tree' = tree /\ unreadable' = unreadable /\ touched' = touched /\ edits' = edits /\ args' = args
  BY DEF treeVars
<1>2. TreeTypeOK'
  BY <1>1 DEF ListTypeInv, TreeTypeOK, IsTree, Parent
<1>3. \A q : Excluded(q)' <=> Excluded(q)
  BY <1>1 DEF Excluded
<1>4. Reachable(args.directory)' = Reachable(args.directory) /\ Visible' = Visible
  BY <1>1, <1>3 DEF Reachable, Visible
<1>5. ToList' = ToList
  BY <1>1, <1>4 DEF ToList
<1>7. Barred' = Barred
  BY <1>1, <1>4 DEF Barred
<1>8. IsBarred' <=> IsBarred
  BY <1>1, <1>5, <1>7 DEF IsBarred
<1>6. Untouched' = Untouched /\ Expected' = Expected
  BY <1>1, <1>5, <1>8 DEF Untouched, Expected
<1> QED
  BY <1>1, <1>2, <1>4, <1>5, <1>6, <1>7 DEF ListTypeInv

(* Of a directory that may not be listed. *)
LEMMA BarredFacts ==
    ASSUME ListTypeInv, NEW d \in Barred
    PROVE  /\ d \in Paths /\ d \in Path /\ tree[d] = "directory" /\ d \in unreadable
           /\ Len(d) \in Nat /\ Len(d) - Len(args.directory) <= args.max_depth
           /\ d = args.directory \/ d \in Reachable(args.directory)
<1>1. args.directory \in Paths
  BY RequestsAssumption DEF ListTypeInv
<1>2. d \in Paths
  BY <1>1 DEF Barred, Reachable
<1>3. d \in Path /\ Len(d) \in Nat
  BY <1>2, PathsArePaths, PathType
<1> QED
  BY <1>2, <1>3 DEF Barred

LEMMA Arguments ==
    ASSUME ListTypeInv
    PROVE  /\ args.directory \in Paths /\ args.directory \in Path
           /\ args.max_depth \in Int /\ args.max_results \in Int
           /\ current \in Path /\ Len(args.directory) \in Nat
  BY RequestsAssumption, PathsArePaths, PathType DEF ListTypeInv

LEMMA RestsOfType ==
    ASSUME NEW s \in Seq(Frame)
    PROVE  /\ Len(s) \in Nat /\ DOMAIN s = 1..Len(s) /\ \A i \in 1..Len(s) : s[i] \in Frame
           /\ RestsOf(s) \in Seq(Seq(Paths)) /\ Len(RestsOf(s)) = Len(s)
           /\ \A i \in 1..Len(s) : RestsOf(s)[i] = s[i].rest
<1>1. Len(s) \in Nat /\ DOMAIN s = 1..Len(s) /\ s \in [1..Len(s) -> Frame]
  BY LenProperties
<1>2. ASSUME NEW i \in 1..Len(s) PROVE s[i] \in Frame /\ s[i].rest \in Seq(Paths)
  <2>1. s[i] \in Frame
    BY <1>1
  <2> QED
    BY <2>1 DEF Frame
<1>3. RestsOf(s) \in [1..Len(s) -> Seq(Paths)]
  BY <1>2 DEF RestsOf
<1>4. RestsOf(s) \in Seq(Seq(Paths)) /\ Len(RestsOf(s)) = Len(s)
  BY <1>1, <1>3, FunctionIsSeq
<1> QED
  BY <1>1, <1>2, <1>4 DEF RestsOf

LEMMA FrameExcept ==
    ASSUME NEW frame \in Frame, NEW c \in Seq(Paths)
    PROVE  [frame EXCEPT !.rest = c] = [rest |-> c, truncated |-> FALSE]
<1> DEFINE new == [frame EXCEPT !.rest = c]
<1>1. new \in Frame /\ new.rest = c
  BY DEF Frame
<1> HIDE DEF new
<1>2. new = [rest |-> new.rest, truncated |-> FALSE]
  BY <1>1 DEF Frame
<1> QED
  BY <1>1, <1>2 DEF new

LEMMA RestsOfPush ==
    ASSUME NEW s \in Seq(Frame), NEW c \in Seq(Paths)
    PROVE  LET new == <<[rest |-> c, truncated |-> FALSE]>> \o s
           IN /\ new \in Seq(Frame) /\ Len(new) = Len(s) + 1 /\ new # <<>>
              /\ RestsOf(new) = <<c>> \o RestsOf(s)
<1> DEFINE frame == [rest |-> c, truncated |-> FALSE]
           new   == <<frame>> \o s
           both  == <<c>> \o RestsOf(s)
<1>1. frame \in Frame /\ frame.rest = c
  BY DEF Frame
<1> HIDE DEF frame
<1>2. /\ new \in Seq(Frame) /\ Len(s) \in Nat /\ Len(new) = Len(s) + 1 /\ new[1] = frame
      /\ \A i \in 1..Len(s) : new[i + 1] = s[i]
  BY <1>1, PushProperties
<1>3. /\ RestsOf(s) \in Seq(Seq(Paths)) /\ Len(RestsOf(s)) = Len(s)
      /\ \A i \in 1..Len(s) : RestsOf(s)[i] = s[i].rest
  BY RestsOfType
<1>4. /\ both \in Seq(Seq(Paths)) /\ Len(both) = Len(s) + 1 /\ both[1] = c
      /\ \A i \in 1..Len(s) : both[i + 1] = RestsOf(s)[i]
  BY <1>3, PushProperties
<1>5. new # <<>>
  BY <1>2, EmptySeq
<1> HIDE DEF new, both
<1>6. /\ RestsOf(new) \in Seq(Seq(Paths)) /\ Len(RestsOf(new)) = Len(s) + 1
      /\ \A i \in 1..(Len(s) + 1) : RestsOf(new)[i] = new[i].rest
  BY <1>2, RestsOfType
<1>7. ASSUME NEW i \in 1..(Len(s) + 1) PROVE RestsOf(new)[i] = both[i]
  <2>1. CASE i = 1
    BY <1>1, <1>2, <1>4, <1>6, <2>1
  <2>2. CASE i # 1
    <3>1. i - 1 \in 1..Len(s) /\ (i - 1) + 1 = i
      BY <1>2, <2>2, PlacesShift, Zenon
    <3>2. new[i] = s[i - 1] /\ both[i] = RestsOf(s)[i - 1]
      BY <1>2, <1>4, <3>1, Zenon
    <3>3. RestsOf(s)[i - 1] = s[i - 1].rest
      BY <1>3, <3>1, Zenon
    <3>4. RestsOf(new)[i] = new[i].rest
      BY <1>6, Zenon
    <3> QED
      BY <3>2, <3>3, <3>4, Zenon
  <2> QED
    BY <2>1, <2>2
<1>8. RestsOf(new) = both
  BY <1>4, <1>6, <1>7, SeqEqual
<1> QED
  BY <1>2, <1>5, <1>8 DEF new, both, frame

LEMMA RestsOfPop ==
    ASSUME NEW s \in Seq(Frame), s # <<>>
    PROVE  /\ Tail(s) \in Seq(Frame) /\ Len(s) \in Nat \ {0} /\ Len(Tail(s)) = Len(s) - 1
           /\ Head(s) \in Frame /\ Head(RestsOf(s)) = Head(s).rest /\ RestsOf(s) # <<>>
           /\ RestsOf(Tail(s)) = Tail(RestsOf(s))
<1>1. /\ Tail(s) \in Seq(Frame) /\ Len(s) \in Nat \ {0} /\ Len(Tail(s)) = Len(s) - 1
      /\ Head(s) \in Frame /\ Head(s) = s[1]
      /\ \A i \in 1..(Len(s) - 1) : Tail(s)[i] = s[i + 1]
  BY PopProperties
<1>2. /\ RestsOf(s) \in Seq(Seq(Paths)) /\ Len(RestsOf(s)) = Len(s)
      /\ \A i \in 1..Len(s) : RestsOf(s)[i] = s[i].rest
  BY RestsOfType
<1>3. RestsOf(s) # <<>>
  BY <1>1, <1>2, EmptySeq
<1>4. /\ Head(RestsOf(s)) = RestsOf(s)[1] /\ Tail(RestsOf(s)) \in Seq(Seq(Paths))
      /\ Len(Tail(RestsOf(s))) = Len(s) - 1
      /\ \A i \in 1..(Len(s) - 1) : Tail(RestsOf(s))[i] = RestsOf(s)[i + 1]
  BY <1>2, <1>3, PopProperties
<1>5. Head(RestsOf(s)) = Head(s).rest
  BY <1>1, <1>2, <1>4
<1>6. /\ RestsOf(Tail(s)) \in Seq(Seq(Paths)) /\ Len(RestsOf(Tail(s))) = Len(s) - 1
      /\ \A i \in 1..(Len(s) - 1) : RestsOf(Tail(s))[i] = Tail(s)[i].rest
  BY <1>1, RestsOfType
<1>7. ASSUME NEW i \in 1..(Len(s) - 1) PROVE RestsOf(Tail(s))[i] = Tail(RestsOf(s))[i]
  <2>1. i + 1 \in 1..Len(s)
    BY <1>1
  <2> QED
    BY <1>1, <1>2, <1>4, <1>6, <2>1
<1>8. RestsOf(Tail(s)) = Tail(RestsOf(s))
  BY <1>4, <1>6, <1>7, SeqEqual
<1> QED
  BY <1>1, <1>3, <1>5, <1>8

LEMMA RestsType ==
    ASSUME ListTypeInv
    PROVE  /\ Len(stack) \in Nat /\ DOMAIN stack = 1..Len(stack)
           /\ Rests \in Seq(Seq(Path)) /\ Rests \in Seq(Seq(Paths)) /\ Len(Rests) = Len(stack)
           /\ Ahead(Rests) \subseteq Paths /\ Ahead(Rests) \subseteq Path
<1>1. /\ Len(stack) \in Nat /\ DOMAIN stack = 1..Len(stack)
      /\ Rests \in Seq(Seq(Paths)) /\ Len(Rests) = Len(stack)
  BY RestsOfType DEF ListTypeInv, Rests
<1>2. \A i \in 1..Len(Rests) : Rests[i] \in Seq(Path)
  BY <1>1, ElementOfSeq, PathsArePaths, SeqMonotonic
<1>3. Rests \in [1..Len(Rests) -> Seq(Path)]
  BY <1>1, <1>2, LenProperties
<1>4. Rests \in Seq(Seq(Path))
  BY <1>1, <1>3, FunctionIsSeq
<1> QED
  BY <1>1, <1>4, AheadType, PathsArePaths

-----------------------------------------------------------------------------
(* The steps of a listing keep the invariant.                              *)

LEMMA LastEntry ==
    ASSUME ListTypeInv, Full, args.max_results >= 1
    PROVE  /\ Len(entries) \in DOMAIN entries /\ Last(entries) = entries[Len(entries)]
           /\ Last(entries) \in Path /\ Last(entries) \in Range(entries)
           /\ Len(entries) = args.max_results
<1>1. Len(entries) \in Nat /\ DOMAIN entries = 1..Len(entries) /\ entries \in Seq(Path)
  BY LenProperties, SeqMonotonic, PathsArePaths DEF ListTypeInv
<1>2. Len(entries) >= 1
  BY <1>1, Arguments DEF Full
<1>3. Len(entries) \in DOMAIN entries
  BY <1>1, <1>2
<1>4. entries # <<>>
  BY <1>2, EmptySeq
<1>5. Len(entries) <= args.max_results
  BY <1>4 DEF ListTypeInv
<1>6. Last(entries) = entries[Len(entries)]
  BY DEF Last
<1>7. entries[Len(entries)] \in Path
  BY <1>1, <1>3, ElementOfSeq
<1> QED
  BY <1>1, <1>3, <1>5, <1>6, <1>7, Arguments DEF Full, Range

(* The listing fails. *)
LEMMA EndKeeps ==
    ASSUME WalkInv, NEW from, from # "done", NEW how, End(from, how),
           how \in {"invalid", "not_found", "not_directory", "cannot_list", "os_error"}
    PROVE  WalkInv'
<1>1. /\ pc = from /\ pc' = "done" /\ UNCHANGED <<treeVars, args>> /\ answer' = how
      /\ stack' = stack /\ current' = current /\ value' = value /\ entries' = entries
  BY DEF End, Goto
<1>2. ListTypeInv
  BY DEF WalkInv
<1>3. /\ TreeTypeOK' /\ args' = args /\ args' \in Requests /\ touched' = touched /\ tree' = tree
      /\ ToList' = ToList /\ Visible' = Visible /\ Barred' = Barred
  BY <1>1, <1>2, SameTree
<1>4. Rests' = Rests
  BY <1>1 DEF Rests
<1>5. ListTypeInv'
  BY <1>1, <1>2, <1>3 DEF ListTypeInv
<1>6. PhaseInv' /\ ~ Cut'
  BY <1>1 DEF PhaseInv, Cut, Looks, Listable
<1>7. DepthInv'
  BY <1>1, <1>3, <1>4 DEF WalkInv, DepthInv, Walking, Looks, Listable
<1>8. OrderInv'
  BY <1>1, <1>4 DEF WalkInv, OrderInv, Walking, Looks, Listable
<1>9. CoverInv'
  BY <1>1 DEF CoverInv, Walking, Looks, Listable
<1>11. BarredInv'
  BY <1>1 DEF BarredInv, Walking, Looks, Listable
<1>10. QuietInv'
  BY <1>1, <1>3, <1>4, <1>6 DEF WalkInv, QuietInv, Walking, Looks, Listable
<1> QED
  BY <1>5, <1>6, <1>7, <1>8, <1>9, <1>10, <1>11 DEF WalkInv

(* A walk that was cut short returns: nothing before the last entry is left out. *)
LEMMA LeaveFlaggedKeeps ==
    ASSUME WalkInv, NEW from \in {"return"} \cup Listable, Leave(from, TRUE),
           stack # <<>>, Full, args.max_results >= 1,
           \A p \in ToList \cap Untouched : p \in Range(entries) \cup Awaited \cup LeftOut =>
              \/ p \in Range(entries)
              \/ \E x \in Ahead(Rests) : IsPrefix(x, p)
              \/ Precedes(Last(entries), p),
           touched = {} => LeftSome
    PROVE  WalkInv'
<1>1. /\ pc = from /\ pc' = "return" /\ UNCHANGED <<treeVars, args>> /\ answer' = answer
      /\ stack' = Tail(stack) /\ current' = current /\ value' = TRUE /\ entries' = entries
  BY DEF Leave, Goto
<1>2. ListTypeInv /\ pc \in Walking
  BY <1>1 DEF WalkInv, Walking, Looks
<1>3. /\ TreeTypeOK' /\ args' = args /\ args' \in Requests /\ touched' = touched /\ tree' = tree
      /\ ToList' = ToList /\ Visible' = Visible /\ Untouched' = Untouched
      /\ Barred' = Barred
  BY <1>1, <1>2, SameTree
<1>4. /\ stack' \in Seq(Frame) /\ Len(stack) \in Nat /\ Len(stack') = Len(stack) - 1
      /\ Rests # <<>> /\ Rests' = Tail(Rests)
  BY <1>1, <1>2, RestsOfPop DEF ListTypeInv, Rests
<1>5. /\ Rests \in Seq(Seq(Path)) /\ Ahead(Rests) \subseteq Path
      /\ args.directory \in Path /\ current \in Path /\ args.max_depth \in Int
  BY <1>2, RestsType, Arguments
<1>6. InPlace(Tail(Rests), args.directory) /\ Ahead(Tail(Rests)) \subseteq Ahead(Rests)
  BY <1>4, <1>5, LeaveWalk DEF WalkInv, DepthInv
<1>7. \A x \in Ahead(Rests) : Precedes(current, x)
  BY <1>1, <1>5, LeftPrecedes DEF WalkInv, OrderInv, Looks
<1>8. ListTypeInv'
  BY <1>1, <1>2, <1>3, <1>4 DEF ListTypeInv, Walking
<1>9. PhaseInv'
  BY <1>1, <1>2, <1>3 DEF WalkInv, PhaseInv, Cut, Full, Walking, Looks, Listable
<1>10. DepthInv'
  <2>1. Len(stack') <= args.max_depth + 1
    BY <1>2, <1>4, <1>5 DEF WalkInv, DepthInv
  <2> QED
    BY <1>1, <1>3, <1>4, <1>6, <2>1 DEF DepthInv, Looks, Listable
<1>11. OrderInv'
  BY <1>1, <1>2, <1>4, <1>6, <1>7 DEF WalkInv, OrderInv, Looks, Listable
<1>12. Last(entries) \in Path /\ (Last(entries) = current \/ Precedes(Last(entries), current))
  BY <1>2, LastEntry DEF WalkInv, OrderInv
<1>13. \A p \in ToList \cap Untouched : p \in Range(entries) \/ Precedes(Last(entries), p)
  <2>1. ASSUME NEW p \in ToList \cap Untouched, NEW x \in Ahead(Rests), IsPrefix(x, p)
        PROVE  Precedes(Last(entries), p)
    <3>1. p \in Path /\ x \in Path
      BY <1>5, PathsArePaths DEF ToList, Reachable
    <3>2. Precedes(current, x) /\ (x = p \/ Precedes(x, p))
      BY <1>7, <2>1, <3>1, PrefixFacts
    <3>3. Precedes(current, p)
      BY <1>5, <3>1, <3>2, PrecedesTransitive
    <3> QED
      BY <1>5, <1>12, <3>1, <3>3, PrecedesTransitive
  <2>2. ToList \cap Untouched \subseteq Range(entries) \cup Awaited \cup LeftOut
    BY <1>2 DEF WalkInv, CoverInv
  <2> QED
    BY <2>1, <2>2
<1>14. CoverInv'
  <2>1. LeftOut' = {p \in Paths : Precedes(Last(entries), p)}
    BY <1>1 DEF LeftOut, Cut
  <2>2. ToList \subseteq Paths
    BY DEF ToList, Reachable
  <2>3. (ToList \cap Untouched)' \subseteq Range(entries)' \cup Awaited' \cup LeftOut'
    BY <1>1, <1>3, <1>13, <2>1, <2>2
  <2> QED
    BY <1>1, <2>3 DEF CoverInv
<1>16. BarredInv'
  BY <1>1 DEF BarredInv, Cut
<1>17. LeftSome' <=> LeftSome
  BY <1>1, <1>3 DEF LeftSome
<1>15. QuietInv'
  BY <1>17, <1>1, <1>2, <1>3, <1>4, <1>6 DEF WalkInv, QuietInv, Looks, Listable
<1> QED
  BY <1>8, <1>9, <1>10, <1>11, <1>14, <1>15, <1>16 DEF WalkInv

(* A directory was walked to its end. *)
LEMMA LeaveUnflaggedKeeps ==
    ASSUME WalkInv, Leave("next", FALSE), Head(stack).rest = <<>>
    PROVE  WalkInv'
<1>1. /\ pc = "next" /\ pc' = "return" /\ UNCHANGED <<treeVars, args>> /\ answer' = answer
      /\ stack' = Tail(stack) /\ current' = current /\ value' = FALSE /\ entries' = entries
  BY DEF Leave, Goto
<1>2. ListTypeInv /\ pc \in Walking /\ stack # <<>> /\ answer = "none"
  BY <1>1 DEF WalkInv, Walking, Looks, PhaseInv
<1>3. /\ TreeTypeOK' /\ args' = args /\ args' \in Requests /\ touched' = touched /\ tree' = tree
      /\ ToList' = ToList /\ Visible' = Visible /\ Untouched' = Untouched
      /\ Barred' = Barred
  BY <1>1, <1>2, SameTree
<1>4. /\ stack' \in Seq(Frame) /\ Len(stack) \in Nat /\ Len(stack') = Len(stack) - 1
      /\ Rests # <<>> /\ Rests' = Tail(Rests) /\ Head(Rests) = <<>>
  BY <1>1, <1>2, RestsOfPop DEF ListTypeInv, Rests
<1>5. /\ Rests \in Seq(Seq(Path)) /\ args.directory \in Path /\ args.max_depth \in Int
  BY <1>2, RestsType, Arguments
<1>6. InPlace(Tail(Rests), args.directory) /\ Ahead(Tail(Rests)) = Ahead(Rests)
  <2>1. Range(Head(Rests)) = {}
    BY <1>4 DEF Range
  <2> QED
    BY <1>4, <1>5, <2>1, LeaveWalk DEF WalkInv, DepthInv
<1>7. ~ Cut /\ ~ Cut'
  BY <1>1, <1>2 DEF Cut
<1>8. ListTypeInv'
  BY <1>1, <1>2, <1>3, <1>4 DEF ListTypeInv, Walking
<1>9. PhaseInv'
  BY <1>1, <1>2, <1>3, <1>7 DEF WalkInv, PhaseInv, Walking, Looks, Listable
<1>10. DepthInv'
  <2>1. Len(stack') <= args.max_depth + 1
    BY <1>2, <1>4, <1>5 DEF WalkInv, DepthInv
  <2> QED
    BY <1>1, <1>3, <1>4, <1>6, <2>1 DEF DepthInv, Looks, Listable
<1>11. OrderInv'
  BY <1>1, <1>2, <1>4, <1>6 DEF WalkInv, OrderInv, Looks, Listable
<1>14. BarredInv'
  <2>1. Awaited' = {p \in Paths : \E x \in Ahead(Rests) : IsPrefix(x, p)}
    BY <1>1, <1>4, <1>6 DEF Awaited, Looks, Listable
  <2>2. Awaited = {p \in Paths : \E x \in Ahead(Rests) : IsPrefix(x, p)}
    BY <1>1 DEF Awaited, Looks, Listable
  <2>3. touched = {} => Barred \subseteq Awaited
    BY <1>1, <1>2, <1>7 DEF WalkInv, BarredInv
  <2> QED
    BY <1>3, <2>1, <2>2, <2>3 DEF BarredInv
<1>12. CoverInv'
  <2>1. Awaited' = {p \in Paths : \E x \in Ahead(Rests) : IsPrefix(x, p)}
    BY <1>1, <1>4, <1>6 DEF Awaited, Looks, Listable
  <2>2. Awaited = {p \in Paths : \E x \in Ahead(Rests) : IsPrefix(x, p)}
    BY <1>1 DEF Awaited, Looks, Listable
  <2>3. LeftOut = {}
    BY <1>7 DEF LeftOut
  <2>4. ToList \cap Untouched \subseteq Range(entries) \cup Awaited
    BY <1>2, <2>3 DEF WalkInv, CoverInv
  <2>5. (ToList \cap Untouched)' \subseteq Range(entries)' \cup Awaited' \cup LeftOut'
    BY <1>1, <1>3, <2>1, <2>2, <2>4
  <2> QED
    BY <1>1, <2>5 DEF CoverInv
<1>13. QuietInv'
  BY <1>1, <1>2, <1>3, <1>4, <1>6, <1>7 DEF WalkInv, QuietInv, Looks, Listable
<1> QED
  BY <1>8, <1>9, <1>10, <1>11, <1>12, <1>13, <1>14 DEF WalkInv

(* The steps before the walk. *)
LEMMA ValidateKeeps ==
    ASSUME WalkInv, Validate
    PROVE  WalkInv'
<1>1. CASE args.max_depth < 0 \/ args.max_results < 1
  BY <1>1, EndKeeps DEF Validate
<1>2. CASE ~ (args.max_depth < 0 \/ args.max_results < 1)
  <2>1. /\ pc = "call" /\ pc' = "resolve" /\ UNCHANGED <<treeVars, args>> /\ answer' = answer
        /\ stack' = stack /\ current' = current /\ value' = value /\ entries' = entries
    BY <1>2 DEF Validate, Step, Goto
  <2>2. ListTypeInv
    BY DEF WalkInv
  <2>3. /\ TreeTypeOK' /\ args' = args /\ args' \in Requests /\ touched' = touched /\ tree' = tree
        /\ ToList' = ToList /\ Visible' = Visible /\ Barred' = Barred
    BY <2>1, <2>2, SameTree
  <2>4. Rests' = Rests /\ args.max_depth \in Int /\ args.max_results \in Int
    BY <2>1, <2>2, Arguments DEF Rests
  <2>5. ListTypeInv'
    BY <2>1, <2>2, <2>3 DEF ListTypeInv
  <2>6. PhaseInv' /\ ~ Cut'
    BY <1>2, <2>1, <2>3, <2>4 DEF WalkInv, PhaseInv, Cut, Looks, Listable
  <2>7. DepthInv' /\ OrderInv'
    BY <2>1, <2>3, <2>4 DEF WalkInv, DepthInv, OrderInv, Walking, Looks, Listable
  <2>8. CoverInv'
    BY <2>1 DEF WalkInv, PhaseInv, CoverInv, Walking, Looks, Listable
  <2>10. BarredInv'
    BY <2>1 DEF WalkInv, PhaseInv, BarredInv, Walking, Looks, Listable
  <2>9. QuietInv'
    BY <2>1, <2>3, <2>4, <2>6 DEF WalkInv, QuietInv, Walking, Looks, Listable
  <2> QED
    BY <2>5, <2>6, <2>7, <2>8, <2>9, <2>10 DEF WalkInv
<1> QED
  BY <1>1, <1>2

LEMMA ResolveKeeps ==
    ASSUME WalkInv, Resolve
    PROVE  WalkInv'
<1>1. CASE tree[args.directory] = "none"
  BY <1>1, EndKeeps DEF Resolve
<1>2. CASE tree[args.directory] # "none"
  <2>1. /\ pc = "resolve" /\ pc' = "check_directory" /\ UNCHANGED <<treeVars, args>>
        /\ answer' = answer
        /\ stack' = stack /\ current' = current /\ value' = value /\ entries' = entries
    BY <1>2 DEF Resolve, Step, Goto
  <2>2. ListTypeInv
    BY DEF WalkInv
  <2>3. /\ TreeTypeOK' /\ args' = args /\ args' \in Requests /\ touched' = touched /\ tree' = tree
        /\ ToList' = ToList /\ Visible' = Visible /\ Barred' = Barred
    BY <2>1, <2>2, SameTree
  <2>4. Rests' = Rests
    BY <2>1 DEF Rests
  <2>5. ListTypeInv'
    BY <2>1, <2>2, <2>3 DEF ListTypeInv
  <2>6. PhaseInv' /\ ~ Cut'
    BY <2>1, <2>3 DEF WalkInv, PhaseInv, Cut, Looks, Listable
  <2>7. DepthInv' /\ OrderInv'
    BY <2>1, <2>3, <2>4 DEF WalkInv, DepthInv, OrderInv, Walking, Looks, Listable
  <2>8. CoverInv'
    BY <2>1 DEF WalkInv, PhaseInv, CoverInv, Walking, Looks, Listable
  <2>10. BarredInv'
    BY <2>1 DEF WalkInv, PhaseInv, BarredInv, Walking, Looks, Listable
  <2>9. QuietInv'
    BY <1>2, <2>1, <2>3, <2>4, <2>6 DEF WalkInv, QuietInv, Walking, Looks, Listable
  <2> QED
    BY <2>5, <2>6, <2>7, <2>8, <2>9, <2>10 DEF WalkInv
<1> QED
  BY <1>1, <1>2

(* The walk begins at the directory asked for: all there is to list is below it. *)
LEMMA CheckDirectoryKeeps ==
    ASSUME WalkInv, CheckDirectory
    PROVE  WalkInv'
<1>1. CASE tree[args.directory] # "directory"
  BY <1>1, EndKeeps DEF CheckDirectory
<1>2. CASE tree[args.directory] = "directory"
  <2>1. /\ pc = "check_directory" /\ pc' = "open" /\ UNCHANGED <<treeVars, args>>
        /\ answer' = answer /\ current' = args.directory
        /\ stack' = stack /\ value' = value /\ entries' = entries
    BY <1>2 DEF CheckDirectory, Goto
  <2>2. ListTypeInv
    BY DEF WalkInv
  <2>3. /\ TreeTypeOK' /\ args' = args /\ args' \in Requests /\ touched' = touched /\ tree' = tree
        /\ ToList' = ToList /\ Untouched' = Untouched /\ Visible' = Visible /\ Barred' = Barred
    BY <2>1, <2>2, SameTree
  <2>4. /\ Rests' = Rests /\ Rests = <<>> /\ stack = <<>> /\ entries = <<>> /\ Len(stack) = 0
        /\ answer = "none" /\ args.max_depth >= 0 /\ args.max_results >= 1
    <3>1. stack = <<>> /\ entries = <<>> /\ answer = "none" /\ args.max_depth >= 0 /\ args.max_results >= 1
      BY <2>1 DEF WalkInv, PhaseInv
    <3>2. Len(stack) = 0 /\ Len(Rests) = 0 /\ Rests \in Seq(Seq(Path))
      BY <2>2, <3>1, RestsType, EmptySeq
    <3> QED
      BY <2>1, <3>1, <3>2, EmptySeq DEF Rests
  <2>5. /\ args.directory \in Paths /\ args.directory \in Path /\ args.max_depth \in Int
        /\ Len(args.directory) \in Nat
    BY <2>2, Arguments
  <2>6. Ahead(Rests) = {}
    BY <2>4 DEF Ahead
  <2>7. ListTypeInv'
    BY <2>1, <2>2, <2>3, <2>5 DEF ListTypeInv, Walking
  <2>8. PhaseInv' /\ ~ Cut'
    BY <2>1, <2>3, <2>4 DEF PhaseInv, Cut, Looks, Listable
  <2>9. DepthInv'
    <3>1. InPlace(Rests, args.directory)
      BY DEF WalkInv, DepthInv
    <3>2. IsPrefix(args.directory, args.directory)
      BY <2>5, PrefixFacts
    <3>3. /\ Len(stack) <= args.max_depth + 1 /\ Len(stack) <= args.max_depth
          /\ Len(args.directory) = Len(args.directory) + Len(stack)
      BY <2>4, <2>5
    <3> QED
      BY <2>1, <2>3, <2>4, <3>1, <3>2, <3>3 DEF DepthInv, Looks, Listable
  <2>10. OrderInv'
    BY <2>1, <2>4, <2>6 DEF WalkInv, OrderInv
  <2>11. CoverInv'
    <3>1. ToList \subseteq Awaited'
      BY <2>1 DEF ToList, Reachable, Awaited
    <3>2. ToList' \cap Untouched' \subseteq Awaited'
      BY <2>3, <3>1
    <3> QED
      BY <2>1, <3>2 DEF CoverInv
  <2>13. BarredInv'
    <3>1. \A d \in Barred : d = args.directory \/ IsStrictPrefix(args.directory, d)
      BY <2>2, BarredFacts DEF Reachable
    <3>2. \A d \in Barred : d = current' \/ d \in Awaited'
      BY <2>1, <2>2, <3>1, BarredFacts DEF Awaited
    <3> QED
      BY <2>1, <2>3, <3>2 DEF BarredInv
  <2>12. QuietInv'
    <3>1. Range(entries) = {}
      BY <2>4 DEF Range
    <3> QED
      BY <1>2, <2>1, <2>3, <2>4, <2>6, <2>8, <3>1 DEF QuietInv, Walking, Looks, Listable
  <2> QED
    BY <2>7, <2>8, <2>9, <2>10, <2>11, <2>12, <2>13 DEF WalkInv
<1> QED
  BY <1>1, <1>2

(* A directory is listed: what was awaited below it is awaited below its children. *)
LEMMA OpenKeeps ==
    ASSUME WalkInv, Open
    PROVE  WalkInv'
<1>1. CASE ~ MayList(current)
  BY <1>1, EndKeeps DEF Open
<1>2. CASE MayList(current)
  <2> DEFINE c == Children(current)
  <2>1. /\ pc = "open" /\ pc' = "next" /\ UNCHANGED <<treeVars, args>> /\ answer' = answer
        /\ stack' = <<[rest |-> c, truncated |-> FALSE]>> \o stack
        /\ current' = current /\ value' = value /\ entries' = entries
    BY <1>2 DEF Open, Goto
  <2>0. tree[current] = "directory" /\ current \notin unreadable
    BY <1>2 DEF MayList
  <2>2. ListTypeInv /\ pc \in Walking /\ TreeTypeOK /\ current \in Paths
    BY <2>1 DEF WalkInv, ListTypeInv, Walking
  <2>3. /\ TreeTypeOK' /\ args' = args /\ args' \in Requests /\ touched' = touched /\ tree' = tree
        /\ ToList' = ToList /\ Untouched' = Untouched /\ Visible' = Visible /\ Barred' = Barred
    BY <2>1, <2>2, SameTree
  <2>4. /\ c \in Seq(Paths) /\ c \in Seq(Path) /\ Rising(c)
        /\ \A n \in DOMAIN c : c[n] # <<>> /\ Front(c[n]) = current
        /\ \A x \in Range(c) : x \in Paths /\ x # <<>> /\ Front(x) = current /\ tree[x] # "none"
        /\ \A p \in Paths : IsStrictPrefix(current, p) /\ tree[p] # "none" =>
              \E x \in Range(c) : IsPrefix(x, p)
    BY <2>2, ChildrenFacts
  <2> HIDE DEF c
  <2>5. /\ stack' \in Seq(Frame) /\ stack' # <<>> /\ Len(stack') = Len(stack) + 1
        /\ Rests' = <<c>> \o Rests
    BY <2>1, <2>2, <2>4, RestsOfPush DEF ListTypeInv, Rests
  <2>6. /\ Rests \in Seq(Seq(Path)) /\ Len(Rests) = Len(stack) /\ Len(stack) \in Nat
        /\ args.directory \in Path /\ current \in Path /\ args.max_depth \in Int
        /\ Ahead(Rests) \subseteq Path
    BY <2>2, RestsType, Arguments
  <2>7. /\ InPlace(Rests, args.directory) /\ Len(stack) <= args.max_depth
        /\ IsPrefix(args.directory, current) /\ Len(current) = Len(args.directory) + Len(stack)
        /\ \A x \in Ahead(Rests) : LeftOf(current, x)
    BY <2>1 DEF WalkInv, DepthInv, OrderInv
  <2>8. InPlace(Rests', args.directory) /\ Ahead(Rests') = Range(c) \cup Ahead(Rests)
    <3>1. Len(current) = Len(args.directory) + Len(Rests)
      BY <2>6, <2>7
    <3>2. Rests \in Seq(Seq(Path)) /\ args.directory \in Path /\ current \in Path
      BY <2>6
    <3>3. c \in Seq(Path) /\ Rising(c) /\ \A n \in DOMAIN c : c[n] # <<>> /\ Front(c[n]) = current
      BY <2>4
    <3>4. /\ InPlace(Rests, args.directory) /\ IsPrefix(args.directory, current)
          /\ \A x \in Ahead(Rests) : LeftOf(current, x)
      BY <2>7
    <3>5. MayEnter(current, c, Rests, args.directory)
      BY <3>1, <3>2, <3>3, <3>4, Zenon DEF MayEnter
    <3>6. InPlace(<<c>> \o Rests, args.directory) /\ Ahead(<<c>> \o Rests) = Range(c) \cup Ahead(Rests)
      BY <3>5, EnterWalk, Zenon
    <3> QED
      BY <2>5, <3>6
  <2>9. ~ Cut /\ ~ Cut'
    BY <2>1 DEF WalkInv, PhaseInv, Cut
  <2>10. ListTypeInv'
    BY <2>1, <2>2, <2>3, <2>5 DEF ListTypeInv, Walking
  <2>11. PhaseInv'
    BY <2>1, <2>3, <2>5, <2>9 DEF WalkInv, PhaseInv, Walking, Looks, Listable
  <2>12. DepthInv'
    <3>1. Len(stack') <= args.max_depth + 1
      BY <2>5, <2>6, <2>7
    <3> QED
      BY <2>1, <2>3, <2>8, <3>1 DEF DepthInv, Looks, Listable
  <2>13. OrderInv'
    <3>1. \A x \in Ahead(Rests) : Precedes(current, x)
      BY <2>6, <2>7, LeftPrecedes
    <3>2. \A x \in Range(c) : Precedes(current, x)
      BY <2>4, <2>6, ParentFacts, PathsArePaths, PrefixFacts
    <3>3. \A x \in Ahead(Rests') : Precedes(current', x)
      BY <2>1, <2>8, <3>1, <3>2
    <3> QED
      BY <2>1, <2>2, <3>3 DEF WalkInv, OrderInv, Looks, Listable
  <2>16. \A p \in Awaited : tree[p] # "none" => p \in Awaited'
    <3>1. Awaited = {p \in Paths : (\E x \in Ahead(Rests) : IsPrefix(x, p)) \/ IsStrictPrefix(current, p)}
      BY <2>1 DEF Awaited, Looks, Listable
    <3>2. {p \in Paths : \E x \in Range(c) \cup Ahead(Rests) : IsPrefix(x, p)} \subseteq Awaited'
      BY <2>8 DEF Awaited
    <3> QED
      BY <2>4, <3>1, <3>2
  <2>17. BarredInv'
    <3>1. \A d \in Barred : tree[d] # "none" /\ d # current
      BY <2>0, <2>2, BarredFacts
    <3>2. touched = {} => \A d \in Barred : d \in Awaited
      BY <2>2, <2>9, <3>1 DEF WalkInv, BarredInv
    <3> QED
      BY <2>3, <2>16, <3>1, <3>2 DEF BarredInv
  <2>14. CoverInv'
    <3>1. LeftOut = {}
      BY <2>9 DEF LeftOut
    <3>2. ToList \cap Untouched \subseteq Range(entries) \cup Awaited
      BY <2>2, <3>1 DEF WalkInv, CoverInv
    <3>5. \A p \in ToList : p \in Paths /\ tree[p] # "none"
      BY DEF ToList, Reachable
    <3>6. ToList \cap Awaited \subseteq Awaited'
      BY <2>16, <3>5
    <3>7. (ToList \cap Untouched)' \subseteq Range(entries)' \cup Awaited'
      BY <2>1, <2>3, <3>2, <3>6
    <3> QED
      BY <2>1, <3>7 DEF CoverInv
  <2>15. QuietInv'
    <3>1. ASSUME touched = {}, NEW x \in Range(c) PROVE tree[x] # "none" /\ x \in Visible
      <4>1. x \in Paths /\ x \in Path /\ x # <<>> /\ Front(x) = current /\ tree[x] # "none"
        BY <2>4, <3>1, PathsArePaths
      <4>2. ASSUME NEW q \in Paths, IsStrictPrefix(args.directory, q), IsStrictPrefix(q, x)
            PROVE  ~ Excluded(q)
        <5>1. q \in Path /\ IsPrefix(q, current)
          BY <4>1, <4>2, ParentFacts, PathsArePaths
        <5>2. current # args.directory
          <6>1. Len(args.directory) < Len(q) /\ Len(q) <= Len(current)
            BY <2>6, <4>2, <5>1, PrefixFacts, PrefixAt
          <6>2. Len(args.directory) \in Nat /\ Len(q) \in Nat /\ Len(current) \in Nat
            BY <2>6, <5>1, PathType
          <6> QED
            BY <6>1, <6>2
        <5>3. current \in Reachable(args.directory)
          BY <2>1, <3>1, <5>2 DEF WalkInv, QuietInv
        <5> QED
          BY <4>2, <5>1, <5>3 DEF Reachable
      <4> QED
        BY <4>1, <4>2 DEF Visible
    <3> QED
      BY <2>1, <2>2, <2>3, <2>8, <2>9, <3>1 DEF WalkInv, QuietInv, Looks, Listable
  <2> QED
    BY <2>10, <2>11, <2>12, <2>13, <2>14, <2>15, <2>17 DEF WalkInv
<1> QED
  BY <1>1, <1>2

(* The next child comes before all that waits. *)
LEMMA NextChildKeeps ==
    ASSUME WalkInv, NextChild
    PROVE  WalkInv'
<1> DEFINE frame == Head(stack)
<1>1. pc = "next" /\ stack # <<>> /\ ListTypeInv /\ pc \in Walking /\ answer = "none"
  BY DEF NextChild, WalkInv, PhaseInv, Walking, Looks
<1>2. /\ Tail(stack) \in Seq(Frame) /\ Len(stack) \in Nat \ {0} /\ Len(Tail(stack)) = Len(stack) - 1
      /\ frame \in Frame /\ Head(Rests) = frame.rest /\ Rests # <<>>
      /\ RestsOf(Tail(stack)) = Tail(Rests)
  BY <1>1, RestsOfPop DEF ListTypeInv, Rests
<1>3. frame.rest \in Seq(Paths) /\ frame.truncated = FALSE
      /\ frame = [rest |-> frame.rest, truncated |-> FALSE]
  BY <1>2 DEF Frame
<1>4. CASE frame.rest = <<>>
  BY <1>3, <1>4, LeaveUnflaggedKeeps DEF NextChild
<1>5. CASE frame.rest # <<>>
  <2> DEFINE x == Head(frame.rest)
             c == Tail(frame.rest)
  <2>1. /\ pc' = IF Name(x) \in ExcludedNames THEN "excluded_symlink" ELSE "is_symlink"
        /\ UNCHANGED <<treeVars, args>> /\ current' = x
        /\ stack' = <<[frame EXCEPT !.rest = Tail(@)]>> \o Tail(stack)
        /\ value' = value /\ entries' = entries /\ answer' = answer
    BY <1>5 DEF NextChild, Goto
  <2>2. c \in Seq(Paths) /\ x \in Paths
    BY <1>3, <1>5, PopProperties
  <2>3. [frame EXCEPT !.rest = Tail(@)] = [rest |-> c, truncated |-> FALSE]
    BY <1>2, <2>2, FrameExcept
  <2>4. /\ stack' \in Seq(Frame) /\ Len(stack') = Len(stack) /\ stack' # <<>>
        /\ Rests' = <<Tail(Head(Rests))>> \o Tail(Rests)
    <3>1. /\ stack' \in Seq(Frame) /\ Len(stack') = Len(Tail(stack)) + 1 /\ stack' # <<>>
          /\ RestsOf(stack') = <<c>> \o RestsOf(Tail(stack))
      BY <1>2, <2>1, <2>2, <2>3, RestsOfPush
    <3>2. Len(stack') = Len(stack) /\ c = Tail(Head(Rests))
      BY <1>2, <3>1
    <3> QED
      BY <1>2, <3>1, <3>2 DEF Rests
  <2>5. /\ TreeTypeOK' /\ args' = args /\ args' \in Requests /\ touched' = touched /\ tree' = tree
        /\ ToList' = ToList /\ Untouched' = Untouched /\ Visible' = Visible /\ Barred' = Barred
    BY <1>1, <2>1, SameTree
  <2>6. /\ Rests \in Seq(Seq(Path)) /\ Len(Rests) = Len(stack) /\ args.max_depth \in Int
        /\ args.directory \in Path /\ current \in Path /\ InPlace(Rests, args.directory)
    BY <1>1, RestsType, Arguments DEF WalkInv, DepthInv
  <2>7. x = Head(Head(Rests)) /\ Head(Rests) # <<>>
    BY <1>2, <1>5
  <2> HIDE DEF x, c, frame
  <2>8. /\ InPlace(Rests', args.directory) /\ Ahead(Rests) = {x} \cup Ahead(Rests')
        /\ \A y \in Ahead(Rests') : LeftOf(x, y)
        /\ x \in Path /\ IsStrictPrefix(args.directory, x)
        /\ Len(x) = Len(args.directory) + Len(stack)
    <3> DEFINE new == <<Tail(Head(Rests))>> \o Tail(Rests)
    <3>1. Rests \in Seq(Seq(Path)) /\ args.directory \in Path /\ InPlace(Rests, args.directory)
      BY <2>6
    <3>2. Rests # <<>> /\ Head(Rests) # <<>> /\ x = Head(Head(Rests))
      BY <1>2, <2>7
    <3>3. /\ InPlace(new, args.directory) /\ Ahead(Rests) = {x} \cup Ahead(new)
          /\ \A y \in Ahead(new) : LeftOf(x, y)
          /\ x \in Path /\ IsStrictPrefix(args.directory, x)
          /\ Len(x) = Len(args.directory) + Len(Rests)
      BY <3>1, <3>2, PickInWalk, Zenon
    <3> QED
      BY <2>4, <2>6, <3>3
  <2>9. pc' \in {"excluded_symlink", "is_symlink"}
        /\ (pc' = "excluded_symlink" <=> Name(x) \in ExcludedNames)
    BY <2>1
  <2>10. ~ Cut /\ ~ Cut'
    BY <1>1, <2>1, <2>9 DEF Cut
  <2>11. ListTypeInv'
    BY <1>1, <2>1, <2>2, <2>4, <2>5, <2>9 DEF ListTypeInv, Walking, Looks, Listable
  <2>12. PhaseInv'
    BY <1>1, <2>1, <2>4, <2>5, <2>9, <2>10 DEF WalkInv, PhaseInv, Walking, Looks, Listable
  <2>13. DepthInv'
    <3>1. Len(stack') <= args.max_depth + 1
      BY <1>1, <2>4 DEF WalkInv, DepthInv
    <3> QED
      BY <2>1, <2>4, <2>5, <2>8, <2>9, <3>1 DEF DepthInv
  <2>14. OrderInv'
    <3>1. Precedes(current, x)
      BY <1>1, <2>8 DEF WalkInv, OrderInv
    <3>2. ASSUME NEW k \in DOMAIN entries PROVE Precedes(entries[k], x)
      <4>1. entries[k] \in Path
        BY <1>1, ElementOfSeq, LenProperties, PathsArePaths DEF ListTypeInv
      <4>2. entries[k] = current \/ Precedes(entries[k], current)
        BY <1>1 DEF WalkInv, OrderInv
      <4> QED
        BY <2>6, <2>8, <3>1, <4>1, <4>2, PrecedesTransitive
    <3> QED
      BY <2>1, <2>8, <2>9, <3>2 DEF WalkInv, OrderInv
  <2>17. Awaited \subseteq Awaited'
    <3>1. Awaited = {p \in Paths : \E y \in Ahead(Rests) : IsPrefix(y, p)}
      BY <1>1 DEF Awaited, Looks, Listable
    <3> QED
      BY <2>1, <2>8, <2>9, <3>1 DEF Awaited, Looks, Listable
  <2>18. BarredInv'
    <3>1. touched = {} => Barred \subseteq Awaited
      BY <1>1, <2>10 DEF WalkInv, BarredInv
    <3> QED
      BY <2>5, <2>17, <3>1 DEF BarredInv
  <2>15. CoverInv'
    <3>3. LeftOut = {}
      BY <2>10 DEF LeftOut
    <3>4. ToList \cap Untouched \subseteq Range(entries) \cup Awaited
      BY <1>1, <3>3 DEF WalkInv, CoverInv
    <3>5. (ToList \cap Untouched)' \subseteq Range(entries)' \cup Awaited'
      BY <2>1, <2>5, <2>17, <3>4
    <3> QED
      BY <2>1, <2>9, <3>5 DEF CoverInv
  <2>16. QuietInv'
    <3>1. touched = {} => tree[x] # "none" /\ x \in Visible
      BY <2>8 DEF WalkInv, QuietInv
    <3>2. pc' = "is_symlink" => ~ Excluded(x)
      BY <2>9 DEF Excluded
    <3>3. pc' = "is_symlink" => ~ Excluded(current)'
      BY <2>1, <2>5, <3>2 DEF Excluded
    <3> QED
      BY <1>1, <2>1, <2>5, <2>8, <2>9, <2>10, <3>1, <3>3 DEF WalkInv, QuietInv, Looks, Listable
  <2> QED
    BY <2>11, <2>12, <2>13, <2>14, <2>15, <2>16, <2>18 DEF WalkInv
<1> QED
  BY <1>4, <1>5

(* Only a directory has something below it. *)
LEMMA NothingBelow ==
    ASSUME ListTypeInv, tree[current] # "directory"
    PROVE  \A p \in Paths : IsPrefix(current, p) /\ tree[p] # "none" => p = current
<1>1. TreeTypeOK /\ current \in Path
  BY Arguments DEF ListTypeInv
<1> QED
  BY <1>1, TheWayThere

(* A look at a child that leads to another look at it. *)
LEMMA LookKeeps ==
    ASSUME WalkInv, NEW from \in Looks \ {"stat"}, NEW to \in Looks, Step(from, to),
           to = "excluded_symlink" => from = "excluded_symlink",
           to = "excluded_directory" => from = "excluded_symlink",
           to \in Listable /\ touched = {} => ~ Excluded(current),
           to = "stat" => tree[current] # "directory"
    PROVE  WalkInv'
<1>1. /\ pc = from /\ pc' = to /\ UNCHANGED <<treeVars, args>> /\ answer' = answer
      /\ stack' = stack /\ current' = current /\ value' = value /\ entries' = entries
  BY DEF Step, Goto
<1>2. ListTypeInv /\ pc \in Walking /\ pc \in Looks \ {"stat"} /\ pc' \in Looks /\ answer = "none"
  BY <1>1 DEF WalkInv, PhaseInv, Walking, Looks, Listable
<1>3. /\ TreeTypeOK' /\ args' = args /\ args' \in Requests /\ touched' = touched /\ tree' = tree
      /\ ToList' = ToList /\ Untouched' = Untouched /\ Visible' = Visible /\ Barred' = Barred
  BY <1>1, <1>2, SameTree
<1>4. Rests' = Rests
  BY <1>1 DEF Rests
<1>5. ~ Cut /\ ~ Cut'
  BY <1>1, <1>2 DEF Cut, Looks, Listable
<1>6. pc' \in Walking /\ pc' \notin {"call", "resolve", "check_directory", "done", "open", "next", "return"}
  BY <1>2 DEF Walking, Looks, Listable
<1>7. ListTypeInv'
  BY <1>1, <1>2, <1>3, <1>6 DEF ListTypeInv
<1>8. PhaseInv'
  BY <1>1, <1>2, <1>3, <1>5, <1>6 DEF WalkInv, PhaseInv, Looks, Listable
<1>9. DepthInv'
  BY <1>1, <1>2, <1>3, <1>4, <1>6 DEF WalkInv, DepthInv
<1>10. OrderInv'
  BY <1>1, <1>2, <1>4, <1>6 DEF WalkInv, OrderInv
<1>13. \A p \in Awaited : tree[p] # "none" => p \in Awaited'
  <2>1. Awaited = {p \in Paths : (\E x \in Ahead(Rests) : IsPrefix(x, p)) \/ IsPrefix(current, p)}
    BY <1>2 DEF Awaited, Looks, Listable
  <2> QED
    <3>1. CASE to = "stat"
      BY <1>1, <1>2, <1>4, <2>1, <3>1, NothingBelow DEF Awaited
    <3>2. CASE to # "stat"
      BY <1>1, <1>2, <1>4, <2>1, <3>2 DEF Awaited
    <3> QED
      BY <3>1, <3>2
<1>14. BarredInv'
  <2>1. \A d \in Barred : tree[d] # "none"
    BY <1>2, BarredFacts
  <2>2. touched = {} => Barred \subseteq Awaited
    BY <1>2, <1>5 DEF WalkInv, BarredInv, Looks, Listable
  <2> QED
    BY <1>3, <1>13, <2>1, <2>2 DEF BarredInv
<1>11. CoverInv'
  <2>2. ToList \cap Awaited \subseteq Awaited'
    BY <1>13 DEF ToList, Reachable
  <2>3. LeftOut = {}
    BY <1>5 DEF LeftOut
  <2>4. ToList \cap Untouched \subseteq Range(entries) \cup Awaited
    BY <1>2, <2>3 DEF WalkInv, CoverInv
  <2>5. (ToList \cap Untouched)' \subseteq Range(entries)' \cup Awaited'
    BY <1>1, <1>3, <2>2, <2>4
  <2>6. pc' \in {"excluded_symlink", "excluded_directory"} => Name(current') \in ExcludedNames
    BY <1>1 DEF WalkInv, CoverInv
  <2> QED
    BY <2>5, <2>6 DEF CoverInv
<1>12. QuietInv'
  <2>1. pc' \in Listable /\ touched = {} => ~ Excluded(current)'
    BY <1>1, <1>3 DEF Excluded
  <2> QED
    BY <1>1, <1>2, <1>3, <1>4, <1>5, <1>6, <2>1 DEF WalkInv, QuietInv
<1> QED
  BY <1>7, <1>8, <1>9, <1>10, <1>11, <1>12, <1>14 DEF WalkInv

LEMMA ExcludedSymlinkKeeps ==
    ASSUME WalkInv, ExcludedSymlink
    PROVE  WalkInv'
<1>1. CASE tree[current] = "symlink"
  <2>1. Step("excluded_symlink", "is_symlink") /\ ~ Excluded(current)
    BY <1>1 DEF ExcludedSymlink, Excluded
  <2> QED
    BY <2>1, LookKeeps DEF Looks, Listable
<1>2. CASE tree[current] # "symlink"
  <2>1. Step("excluded_symlink", "excluded_directory")
    BY <1>2 DEF ExcludedSymlink
  <2> QED
    BY <2>1, LookKeeps DEF Looks, Listable
<1> QED
  BY <1>1, <1>2

(* An excluded directory is passed over: nothing below it is to be listed. *)
LEMMA ExcludedDirectoryKeeps ==
    ASSUME WalkInv, ExcludedDirectory
    PROVE  WalkInv'
<1>1. CASE tree[current] # "directory"
  <2>1. Step("excluded_directory", "is_symlink") /\ ~ Excluded(current)
    BY <1>1 DEF ExcludedDirectory, Excluded
  <2> QED
    BY <2>1, LookKeeps DEF Looks, Listable
<1>2. CASE tree[current] = "directory"
  <2>1. /\ pc = "excluded_directory" /\ pc' = "next" /\ UNCHANGED <<treeVars, args>>
        /\ answer' = answer
        /\ stack' = stack /\ current' = current /\ value' = value /\ entries' = entries
    BY <1>2 DEF ExcludedDirectory, Step, Goto
  <2>2. ListTypeInv /\ pc \in Walking /\ pc \in Looks \ {"stat"} /\ answer = "none"
    BY <2>1 DEF WalkInv, PhaseInv, Walking, Looks, Listable
  <2>3. /\ TreeTypeOK' /\ args' = args /\ args' \in Requests /\ touched' = touched /\ tree' = tree
        /\ ToList' = ToList /\ Untouched' = Untouched /\ Visible' = Visible /\ Barred' = Barred
    BY <2>1, <2>2, SameTree
  <2>4. Rests' = Rests /\ Ahead(Rests) \subseteq Path /\ current \in Path /\ current \in Paths
    BY <2>1, <2>2, RestsType, Arguments DEF Rests, ListTypeInv
  <2>5. ~ Cut /\ ~ Cut'
    BY <2>1, <2>2 DEF Cut
  <2>6. ListTypeInv'
    BY <2>1, <2>2, <2>3 DEF ListTypeInv, Walking
  <2>7. PhaseInv'
    BY <2>1, <2>2, <2>3, <2>5 DEF WalkInv, PhaseInv, Looks, Listable
  <2>8. DepthInv'
    BY <2>1, <2>2, <2>3, <2>4 DEF WalkInv, DepthInv, Looks, Listable
  <2>9. OrderInv'
    <3>1. \A x \in Ahead(Rests) : Precedes(current, x)
      BY <2>2, <2>4, LeftPrecedes DEF WalkInv, OrderInv
    <3> QED
      BY <2>1, <2>2, <2>4, <3>1 DEF WalkInv, OrderInv, Looks, Listable
  <2>12. Awaited = {p \in Paths : (\E x \in Ahead(Rests) : IsPrefix(x, p)) \/ IsPrefix(current, p)}
    BY <2>2 DEF Awaited, Looks, Listable
  <2>13. Awaited' = {p \in Paths : \E x \in Ahead(Rests) : IsPrefix(x, p)}
    BY <2>1, <2>4 DEF Awaited, Looks, Listable
  <2>14. Excluded(current) /\ IsStrictPrefix(args.directory, current)
    BY <1>2, <2>1, <2>2 DEF WalkInv, CoverInv, DepthInv, Excluded
  <2>15. BarredInv'
    <3>1. ASSUME NEW d \in Barred PROVE ~ IsPrefix(current, d)
      <4>1. /\ d \in Path /\ (d = args.directory \/ d \in Reachable(args.directory))
            /\ args.directory \in Path
        BY <2>2, BarredFacts, Arguments
      <4>2. IsPrefix(current, d) => d # args.directory
        <5>1. /\ Len(args.directory) < Len(current)
              /\ IsPrefix(current, args.directory) => Len(current) <= Len(args.directory)
          BY <2>4, <2>14, <4>1, PrefixFacts, PrefixAt
        <5>2. Len(args.directory) \in Nat /\ Len(current) \in Nat
          BY <2>4, <4>1, PathType
        <5> QED
          BY <5>1, <5>2
      <4> QED
        BY <2>4, <2>14, <4>1, <4>2 DEF Reachable
    <3>2. touched = {} => Barred \subseteq Awaited
      BY <2>1, <2>2, <2>5 DEF WalkInv, BarredInv
    <3>3. touched = {} => Barred \subseteq Awaited'
      BY <2>12, <2>13, <3>1, <3>2
    <3> QED
      BY <2>3, <3>3 DEF BarredInv
  <2>10. CoverInv'
    <3>4. \A p \in ToList : ~ IsPrefix(current, p)
      BY <2>4, <2>14 DEF ToList, Reachable
    <3>5. LeftOut = {}
      BY <2>5 DEF LeftOut
    <3>6. ToList \cap Untouched \subseteq Range(entries) \cup Awaited
      BY <2>2, <3>5 DEF WalkInv, CoverInv
    <3>7. (ToList \cap Untouched)' \subseteq Range(entries)' \cup Awaited'
      BY <2>1, <2>3, <2>12, <2>13, <3>4, <3>6
    <3> QED
      BY <2>1, <3>7 DEF CoverInv
  <2>11. QuietInv'
    BY <2>1, <2>2, <2>3, <2>4, <2>5 DEF WalkInv, QuietInv, Looks, Listable
  <2> QED
    BY <2>6, <2>7, <2>8, <2>9, <2>10, <2>11, <2>15 DEF WalkInv
<1> QED
  BY <1>1, <1>2

(* Of a child that is there when it may be an entry, as long as nothing changes. *)
LEMMA QuietEntry ==
    ASSUME WalkInv, pc \in Listable, touched = {}
    PROVE  /\ current \in Reachable(args.directory) /\ Matches => current \in ToList
           /\ current \in Reachable(args.directory)
<1>1. ListTypeInv /\ pc \in Walking /\ pc \in Looks
  BY DEF WalkInv, Walking, Looks
<1>2. /\ current \in Paths /\ current \in Path /\ args.directory \in Path /\ Len(stack) \in Nat
      /\ Len(args.directory) \in Nat /\ args.max_depth \in Int
  BY <1>1, Arguments, RestsType DEF ListTypeInv
<1>3. /\ IsStrictPrefix(args.directory, current) /\ Len(current) = Len(args.directory) + Len(stack)
      /\ Len(stack) <= args.max_depth + 1
  BY <1>1 DEF WalkInv, DepthInv
<1>4. tree[current] # "none" /\ current \in Visible /\ ~ Excluded(current)
  BY <1>1 DEF WalkInv, QuietInv
<1>5. ASSUME NEW q \in Paths, IsStrictPrefix(args.directory, q), IsPrefix(q, current)
      PROVE  ~ Excluded(q)
  <2>1. q = current \/ IsStrictPrefix(q, current)
    BY <1>2, <1>5, PathsArePaths, PrefixFacts
  <2> QED
    BY <1>4, <1>5, <2>1 DEF Visible
<1>6. current \in Reachable(args.directory)
  BY <1>2, <1>3, <1>4, <1>5 DEF Reachable
<1>7. Len(current) - Len(args.directory) <= args.max_depth + 1
  BY <1>2, <1>3
<1> QED
  BY <1>6, <1>7 DEF ToList, Matches

LEMMA EntryAdded ==
    ASSUME WalkInv, pc \in Listable, ~ (Matches /\ Full), NEW new,
           new = IF Matches THEN Append(entries, current) ELSE entries
    PROVE  /\ new \in Seq(Paths) /\ (new # <<>> => Len(new) <= args.max_results)
           /\ Rising(new)
           /\ \A k \in DOMAIN new : new[k] = current \/ Precedes(new[k], current)
           /\ Range(new) = Range(entries) \cup (IF Matches THEN {current} ELSE {})
<1>1. /\ ListTypeInv /\ pc \in Looks /\ entries \in Seq(Paths) /\ current \in Paths
      /\ entries # <<>> => Len(entries) <= args.max_results
  BY DEF WalkInv, ListTypeInv, Looks
<1>2. Rising(entries) /\ \A k \in DOMAIN entries : Precedes(entries[k], current)
  BY <1>1 DEF WalkInv, OrderInv
<1>3. /\ entries \in Seq(Path) /\ Len(entries) \in Nat /\ DOMAIN entries = 1..Len(entries)
      /\ current \in Path /\ args.max_results \in Int
  BY <1>1, Arguments, LenProperties, SeqMonotonic, PathsArePaths
<1>4. CASE ~ Matches
  BY <1>1, <1>2, <1>4
<1>5. CASE Matches
  <2>1. ~ Full /\ new = Append(entries, current)
    BY <1>5
  <2>2. /\ new \in Seq(Paths) /\ Len(new) = Len(entries) + 1
        /\ \A k \in 1..Len(entries) : new[k] = entries[k]
        /\ new[Len(entries) + 1] = current
    BY <1>1, <2>1, AppendProperties
  <2>3. Len(new) <= args.max_results
    BY <1>3, <2>1, <2>2 DEF Full
  <2>4. Rising(new)
    BY <1>2, <1>3, <2>1, RisingAppend
  <2>5. DOMAIN new = 1..(Len(entries) + 1)
    BY <2>2, LenProperties
  <2>6. \A k \in DOMAIN new : k = Len(entries) + 1 \/ k \in 1..Len(entries)
    BY <1>3, <2>5
  <2>7. \A k \in DOMAIN new : new[k] = current \/ Precedes(new[k], current)
    BY <1>2, <1>3, <2>2, <2>6
  <2>8. Range(new) = Range(entries) \cup {current}
    <3>1. \A k \in 1..Len(entries) : k \in DOMAIN new
      BY <1>3, <2>5
    <3>2. Len(entries) + 1 \in DOMAIN new
      BY <1>3, <2>5
    <3> QED
      BY <1>3, <2>2, <2>6, <3>1, <3>2 DEF Range
  <2> QED
    BY <1>5, <2>2, <2>3, <2>4, <2>7, <2>8
<1> QED
  BY <1>4, <1>5

(* What is to be listed at or below the child is listed, awaited, or left out last. *)
LEMMA ListedKeeps ==
    ASSUME WalkInv, NEW from \in Listable, NEW kind, Listed(from, kind),
           kind = "directory" => tree[current] = "directory",
           kind # "directory" /\ from # "stat" => tree[current] # "directory",
           from = "stat" => kind # "directory"
    PROVE  WalkInv'
<1>1. /\ pc = from /\ pc \in Listable /\ pc \in Looks /\ pc \in Walking /\ ListTypeInv
      /\ stack # <<>> /\ answer = "none" /\ args.max_depth >= 0 /\ args.max_results >= 1
  <2>1. pc = from
    BY DEF Listed
  <2> QED
    BY <2>1 DEF WalkInv, PhaseInv, Walking, Looks, Listable
<1>2. /\ Rests \in Seq(Seq(Path)) /\ Len(stack) \in Nat /\ Ahead(Rests) \subseteq Path
      /\ args.directory \in Path /\ current \in Path /\ current \in Paths
      /\ args.max_depth \in Int /\ Len(args.directory) \in Nat
  BY <1>1, RestsType, Arguments DEF ListTypeInv
<1>3. Awaited \subseteq {p \in Paths : (\E x \in Ahead(Rests) : IsPrefix(x, p)) \/ IsPrefix(current, p)}
  <2>1. IsPrefix(current, current)
    BY <1>2, PrefixFacts
  <2> QED
    BY <1>1, <2>1 DEF Awaited, Looks, Listable
<1>4. ToList \subseteq Paths /\ ToList \subseteq Path
  BY PathsArePaths DEF ToList, Reachable
<1>5. ~ Cut
  BY <1>1 DEF Cut, Listable
<1>6. CASE Matches /\ Full
  <2>1. Leave(from, TRUE)
    BY <1>6 DEF Listed
  <2>2. Last(entries) \in Path /\ Precedes(Last(entries), current)
    BY <1>1, <1>6, LastEntry DEF WalkInv, OrderInv
  <2>3. \A p \in Path : IsPrefix(current, p) => Precedes(Last(entries), p)
    <3>1. ASSUME NEW p \in Path, IsPrefix(current, p) PROVE Precedes(Last(entries), p)
      <4>1. current = p \/ Precedes(current, p)
        BY <1>2, <3>1, PrefixFacts
      <4> QED
        BY <1>2, <2>2, <4>1, PrecedesTransitive
    <3> QED
      BY <3>1
  <2>4. LeftOut = {}
    BY <1>5 DEF LeftOut
  <2>5. ASSUME touched = {} PROVE LeftSome
    <3>1. current \in ToList
      BY <1>1, <1>6, <2>5, QuietEntry
    <3>2. ASSUME NEW d \in Barred PROVE current = d \/ Precedes(current, d)
      <4>1. d \in Path /\ d \in Awaited
        BY <1>1, <1>5, <2>5, BarredFacts DEF WalkInv, BarredInv, Looks, Listable
      <4>2. CASE IsPrefix(current, d)
        BY <1>2, <4>1, <4>2, PrefixFacts
      <4>3. ASSUME NEW x \in Ahead(Rests), IsPrefix(x, d) PROVE Precedes(current, d)
        <5>1. x \in Path /\ Precedes(current, x)
          BY <1>1, <1>2, <4>3, LeftPrecedes DEF WalkInv, OrderInv
        <5>2. x = d \/ Precedes(x, d)
          BY <4>1, <4>3, <5>1, PrefixFacts
        <5> QED
          BY <1>2, <4>1, <5>1, <5>2, PrecedesTransitive
      <4> QED
        BY <1>3, <4>1, <4>2, <4>3
    <3> QED
      BY <2>2, <3>1, <3>2 DEF LeftSome
  <2>6. \A p \in ToList \cap Untouched : p \in Range(entries) \cup Awaited \cup LeftOut =>
              \/ p \in Range(entries)
              \/ \E x \in Ahead(Rests) : IsPrefix(x, p)
              \/ Precedes(Last(entries), p)
    BY <1>3, <1>4, <2>3, <2>4
  <2> QED
    BY <1>1, <1>6, <2>1, <2>5, <2>6, LeaveFlaggedKeeps
<1>7. CASE ~ (Matches /\ Full)
  <2>1. /\ pc' = IF kind = "directory" /\ Len(stack) - 1 < args.max_depth THEN "open" ELSE "next"
        /\ UNCHANGED <<treeVars, args>> /\ answer' = answer
        /\ entries' = IF Matches THEN Append(entries, current) ELSE entries
        /\ stack' = stack /\ current' = current /\ value' = value
    BY <1>7 DEF Listed, Goto
  <2>2. /\ pc' \in {"open", "next"}
        /\ pc' = "open" <=> kind = "directory" /\ Len(stack) <= args.max_depth
    BY <1>2, <2>1
  <2>3. /\ TreeTypeOK' /\ args' = args /\ args' \in Requests /\ touched' = touched /\ tree' = tree
        /\ ToList' = ToList /\ Untouched' = Untouched /\ Visible' = Visible /\ Barred' = Barred
        /\ Reachable(args.directory)' = Reachable(args.directory)
    BY <1>1, <2>1, SameTree
  <2>4. /\ entries' \in Seq(Paths) /\ (entries' # <<>> => Len(entries') <= args.max_results)
        /\ Rising(entries')
        /\ \A k \in DOMAIN entries' : entries'[k] = current \/ Precedes(entries'[k], current)
        /\ Range(entries') = Range(entries) \cup (IF Matches THEN {current} ELSE {})
    BY <1>1, <1>7, <2>1, EntryAdded
  <2>5. Rests' = Rests
    BY <2>1 DEF Rests
  <2>6. ~ Cut'
    BY <1>1, <2>1, <2>2 DEF Cut
  <2>7. ListTypeInv'
    BY <1>1, <2>1, <2>2, <2>3, <2>4 DEF ListTypeInv, Walking
  <2>8. PhaseInv'
    BY <1>1, <2>1, <2>2, <2>3, <2>6 DEF PhaseInv, Looks, Listable
  <2>9. DepthInv'
    <3>1. /\ InPlace(Rests, args.directory) /\ Len(stack) <= args.max_depth + 1
          /\ IsStrictPrefix(args.directory, current)
          /\ Len(current) = Len(args.directory) + Len(stack)
      BY <1>1 DEF WalkInv, DepthInv
    <3>2. IsPrefix(args.directory, current)
      BY <1>2, <3>1, PrefixFacts
    <3> QED
      BY <2>1, <2>2, <2>3, <2>5, <3>1, <3>2 DEF DepthInv, Looks, Listable
  <2>10. OrderInv'
    <3>1. \A x \in Ahead(Rests) : LeftOf(current, x) /\ Precedes(current, x)
      BY <1>1, <1>2, LeftPrecedes DEF WalkInv, OrderInv
    <3> QED
      BY <2>1, <2>2, <2>4, <2>5, <3>1 DEF OrderInv, Looks, Listable
  <2>13. \A p \in Paths, x \in Ahead(Rests) : IsPrefix(x, p) => p \in Awaited'
    BY <2>5 DEF Awaited
  <2>14. BarredInv'
    <3>1. ASSUME touched = {}, NEW d \in Barred
          PROVE  d \in Awaited' \/ (pc' = "open" /\ d = current')
      <4>1. /\ d \in Path /\ d \in Paths /\ tree[d] = "directory" /\ d \in Awaited
            /\ Len(d) \in Nat /\ Len(d) - Len(args.directory) <= args.max_depth
        BY <1>1, <1>5, <3>1, BarredFacts DEF WalkInv, BarredInv, Looks, Listable
      <4>2. CASE \E x \in Ahead(Rests) : IsPrefix(x, d)
        BY <2>13, <4>1, <4>2
      <4>3. ASSUME IsPrefix(current, d) PROVE d \in Awaited' \/ (pc' = "open" /\ d = current')
        <5>1. tree[current] = "directory"
          <6>1. tree[current] # "directory" => d = current
            BY <1>1, <4>1, <4>3, NothingBelow
          <6> QED
            BY <4>1, <6>1
        <5>2. from # "stat"
          BY <1>1, <3>1, <5>1 DEF WalkInv, QuietInv
        <5>3. Len(current) <= Len(d) /\ Len(current) = Len(args.directory) + Len(stack)
          BY <1>1, <1>2, <4>1, <4>3, PrefixAt DEF WalkInv, DepthInv
        <5>4. Len(stack) <= args.max_depth
          BY <1>2, <4>1, <5>3
        <5>5. pc' = "open"
          BY <2>2, <5>1, <5>2, <5>4
        <5>6. d = current \/ IsStrictPrefix(current, d)
          BY <1>2, <4>1, <4>3, PrefixFacts
        <5> QED
          BY <2>1, <4>1, <5>5, <5>6 DEF Awaited
      <4> QED
        BY <1>3, <4>1, <4>2, <4>3
    <3> QED
      BY <2>3, <3>1 DEF BarredInv
  <2>11. CoverInv'
    <3>1. ASSUME NEW p \in ToList, NEW x \in Ahead(Rests), IsPrefix(x, p) PROVE p \in Awaited'
      BY <1>4, <2>13, <3>1
    <3>2. ASSUME NEW p \in ToList, IsPrefix(current, p), p # current, from # "stat"
          PROVE  p \in Awaited'
      <4>0. p \in Paths /\ tree[p] # "none"
        BY DEF ToList, Reachable
      <4>1. kind = "directory" /\ IsStrictPrefix(current, p) /\ p \in Path
        BY <1>1, <1>2, <1>4, <3>2, <4>0, PrefixFacts, NothingBelow
      <4>2. Len(current) < Len(p) /\ Len(p) \in Nat /\ Len(p) - Len(args.directory) <= args.max_depth + 1
        BY <1>2, <4>1, PrefixFacts, PathType DEF ToList
      <4>3. Len(current) = Len(args.directory) + Len(stack)
        BY <1>1 DEF WalkInv, DepthInv
      <4>4. Len(stack) <= args.max_depth
        BY <1>2, <4>2, <4>3
      <4> QED
        BY <1>4, <2>1, <2>2, <4>1, <4>4 DEF Awaited
    <3>3. current \in ToList => Matches
      BY DEF ToList, Matches
    <3>4. \A p \in ToList \cap Awaited : p \in Range(entries') \/ p \in Awaited'
      <4>1. ASSUME NEW p \in ToList \cap Awaited, from = "stat"
            PROVE  (\E x \in Ahead(Rests) : IsPrefix(x, p)) \/ p = current
        BY <1>1, <4>1 DEF Awaited, Looks, Listable
      <4> QED
        BY <1>3, <2>4, <3>1, <3>2, <3>3, <4>1
    <3>5. LeftOut = {}
      BY <1>5 DEF LeftOut
    <3>6. ToList \cap Untouched \subseteq Range(entries) \cup Awaited
      BY <1>1, <3>5 DEF WalkInv, CoverInv
    <3>7. (ToList \cap Untouched)' \subseteq Range(entries)' \cup Awaited'
      BY <2>3, <2>4, <3>4, <3>6
    <3> QED
      BY <2>2, <3>7 DEF CoverInv
  <2>12. QuietInv'
    <3>1. touched = {} => Range(entries') \subseteq ToList /\ current \in Reachable(args.directory)
      BY <1>1, <2>4, QuietEntry DEF WalkInv, QuietInv
    <3> QED
      BY <1>1, <2>1, <2>2, <2>3, <2>5, <2>6, <3>1 DEF WalkInv, QuietInv, Walking, Looks, Listable
  <2> QED
    BY <2>7, <2>8, <2>9, <2>10, <2>11, <2>12, <2>14 DEF WalkInv
<1> QED
  BY <1>6, <1>7

LEMMA IsSymlinkKeeps ==
    ASSUME WalkInv, IsSymlink
    PROVE  WalkInv'
<1>1. ListTypeInv
  BY DEF WalkInv
<1>2. CASE tree[current] = "symlink"
  <2>1. Listed("is_symlink", "symlink") /\ tree[current] # "directory"
    BY <1>2 DEF IsSymlink
  <2> QED
    BY <2>1, ListedKeeps DEF Listable
<1>3. CASE tree[current] # "symlink"
  <2>1. Step("is_symlink", "is_directory") /\ pc = "is_symlink"
    BY <1>3 DEF IsSymlink, Step, Goto
  <2>2. touched = {} => ~ Excluded(current)
    BY <2>1 DEF WalkInv, QuietInv, Listable
  <2> QED
    BY <2>1, <2>2, LookKeeps DEF Looks, Listable
<1> QED
  BY <1>2, <1>3

LEMMA IsDirectoryKeeps ==
    ASSUME WalkInv, IsDirectory
    PROVE  WalkInv'
<1>1. ListTypeInv
  BY DEF WalkInv
<1>2. CASE tree[current] = "directory"
  <2>1. Listed("is_directory", "directory")
    BY <1>2 DEF IsDirectory
  <2> QED
    BY <1>2, <2>1, ListedKeeps DEF Listable
<1>3. CASE tree[current] # "directory"
  <2>1. Step("is_directory", "stat") /\ pc = "is_directory"
    BY <1>3 DEF IsDirectory, Step, Goto
  <2>2. touched = {} => ~ Excluded(current)
    BY <2>1 DEF WalkInv, QuietInv, Listable
  <2> QED
    BY <1>3, <2>1, <2>2, LookKeeps DEF Looks, Listable
<1> QED
  BY <1>2, <1>3

LEMMA StatKeeps ==
    ASSUME WalkInv, Stat
    PROVE  WalkInv'
<1>1. CASE tree[current] = "none"
  BY <1>1, EndKeeps DEF Stat
<1>2. CASE tree[current] # "none"
  <2>1. Listed("stat", "file")
    BY <1>2 DEF Stat
  <2> QED
    BY <2>1, ListedKeeps DEF Listable
<1> QED
  BY <1>1, <1>2

LEMMA HeadAndTail ==
    ASSUME NEW S, NEW s \in Seq(S), s # <<>>
    PROVE  <<Head(s)>> \o Tail(s) = s
<1> DEFINE both == <<Head(s)>> \o Tail(s)
<1>1. /\ Head(s) \in S /\ Head(s) = s[1] /\ Tail(s) \in Seq(S)
      /\ Len(s) \in Nat \ {0} /\ Len(Tail(s)) = Len(s) - 1
      /\ \A i \in 1..(Len(s) - 1) : Tail(s)[i] = s[i + 1]
  BY PopProperties
<1>2. /\ both \in Seq(S) /\ Len(both) = Len(Tail(s)) + 1 /\ both[1] = Head(s)
      /\ \A i \in 1..Len(Tail(s)) : both[i + 1] = Tail(s)[i]
  BY <1>1, PushProperties
<1> HIDE DEF both
<1>3. ASSUME NEW i \in 1..Len(s) PROVE both[i] = s[i]
  <2>1. i = 1 \/ (i - 1 \in 1..(Len(s) - 1) /\ (i - 1) + 1 = i)
    BY <1>1
  <2> QED
    BY <1>1, <1>2, <2>1
<1>4. Len(both) = Len(s)
  BY <1>1, <1>2
<1> QED
  BY <1>2, <1>3, <1>4, SeqEqual DEF both

(* The walk ends, or goes on in the directory it came from. *)
LEMMA ReturnKeeps ==
    ASSUME WalkInv, Return
    PROVE  WalkInv'
<1>1. /\ pc = "return" /\ pc \in Walking /\ ListTypeInv /\ answer = "none"
      /\ value \in BOOLEAN
      /\ value = TRUE => Full
      /\ args.max_results >= 1 /\ args.max_depth >= 0
  <2>1. pc = "return"
    BY DEF Return, End, Leave, Goto
  <2> QED
    BY <2>1 DEF WalkInv, ListTypeInv, PhaseInv, Cut, Walking
<1>2. /\ Rests \in Seq(Seq(Path)) /\ Len(Rests) = Len(stack) /\ Ahead(Rests) \subseteq Path
  BY <1>1, RestsType
<1>3. ToList \cap Untouched \subseteq Range(entries) \cup Awaited \cup LeftOut
  BY <1>1 DEF WalkInv, CoverInv
<1>4. Awaited = {p \in Paths : \E x \in Ahead(Rests) : IsPrefix(x, p)}
  BY <1>1 DEF Awaited, Looks, Listable
<1>5. CASE stack = <<>>
  <2>1. /\ pc' = "done" /\ UNCHANGED <<treeVars, args>>
        /\ answer' = IF value THEN "truncated" ELSE "complete"
        /\ stack' = stack /\ current' = current /\ value' = value /\ entries' = entries
    BY <1>1, <1>5 DEF Return, End, Goto
  <2>2. /\ TreeTypeOK' /\ args' = args /\ args' \in Requests /\ touched' = touched /\ tree' = tree
        /\ ToList' = ToList /\ Untouched' = Untouched /\ Visible' = Visible /\ Barred' = Barred
    BY <1>1, <2>1, SameTree
  <2>3. Rests' = Rests /\ Ahead(Rests) = {}
    <3>1. Len(Rests) = 0
      BY <1>2, <1>5, EmptySeq
    <3>2. Rests = <<>>
      BY <1>2, <3>1, EmptySeq
    <3> QED
      BY <2>1, <3>2 DEF Rests, Ahead
  <2>4. Cut' <=> Cut
    BY <1>1, <2>1 DEF Cut
  <2>5. ListTypeInv'
    BY <1>1, <2>1, <2>2 DEF ListTypeInv
  <2>6. PhaseInv'
    BY <1>1, <1>5, <2>1, <2>2, <2>4 DEF WalkInv, PhaseInv, Full, Looks, Listable
  <2>7. DepthInv'
    BY <2>1, <2>2, <2>3 DEF WalkInv, DepthInv, Walking, Looks, Listable
  <2>8. OrderInv'
    BY <2>1, <2>3 DEF WalkInv, OrderInv, Walking, Looks, Listable
  <2>9. CoverInv'
    <3>1. LeftOut' = LeftOut /\ Awaited = {}
      BY <1>4, <2>1, <2>3, <2>4 DEF LeftOut
    <3>2. (ToList \cap Untouched)' \subseteq Range(entries)' \cup LeftOut'
      BY <1>3, <2>1, <2>2, <3>1
    <3> QED
      BY <2>1, <3>2 DEF CoverInv
  <2>11. BarredInv'
    <3>1. touched = {} /\ ~ Cut => Barred \subseteq Awaited
      BY <1>1 DEF WalkInv, BarredInv
    <3>2. Awaited = {}
      BY <1>4, <2>3
    <3> QED
      BY <2>2, <2>4, <3>1, <3>2 DEF BarredInv
  <2>12. LeftSome' <=> LeftSome
    BY <2>1, <2>2 DEF LeftSome
  <2>10. QuietInv'
    BY <1>1, <2>1, <2>2, <2>3, <2>4, <2>12 DEF WalkInv, QuietInv, Walking, Looks, Listable
  <2> QED
    BY <2>5, <2>6, <2>7, <2>8, <2>9, <2>10, <2>11 DEF WalkInv
<1>6. CASE stack # <<>> /\ Full /\ value = TRUE
  <2>1. Leave("return", TRUE)
    BY <1>1, <1>6 DEF Return
  <2>2. touched = {} => LeftSome
    BY <1>1, <1>6 DEF WalkInv, QuietInv, Cut
  <2>3. \A p \in ToList \cap Untouched : p \in Range(entries) \cup Awaited \cup LeftOut =>
              \/ p \in Range(entries)
              \/ \E x \in Ahead(Rests) : IsPrefix(x, p)
              \/ Precedes(Last(entries), p)
    BY <1>4 DEF LeftOut
  <2> QED
    BY <1>1, <1>6, <2>1, <2>2, <2>3, LeaveFlaggedKeeps
<1>7. CASE stack # <<>> /\ value = FALSE
  <2>1. /\ pc' = "next" /\ UNCHANGED <<treeVars, args>> /\ answer' = answer
        /\ stack' = <<[Head(stack) EXCEPT !.truncated = Head(stack).truncated \/ value]>> \o Tail(stack)
        /\ current' = current /\ value' = value /\ entries' = entries
    BY <1>7 DEF Return, Goto
  <2>2. stack' = stack
    <3>1. Head(stack) \in Frame /\ stack \in Seq(Frame)
      BY <1>1, <1>7, RestsOfPop DEF ListTypeInv
    <3>2. [Head(stack) EXCEPT !.truncated = Head(stack).truncated \/ value] = Head(stack)
      <4>1. ASSUME NEW f \in Frame PROVE [f EXCEPT !.truncated = f.truncated \/ value] = f
        <5>1. f.truncated = FALSE /\ f = [rest |-> f.rest, truncated |-> FALSE]
          BY DEF Frame
        <5>2. (f.truncated \/ value) = FALSE
          BY <1>7, <5>1
        <5> DEFINE g == [f EXCEPT !.truncated = FALSE]
        <5>3. g \in Frame /\ g.rest = f.rest
          BY DEF Frame
        <5> HIDE DEF g
        <5>4. g = [rest |-> g.rest, truncated |-> FALSE]
          BY <5>3 DEF Frame
        <5> QED
          BY <5>1, <5>2, <5>3, <5>4 DEF g
      <4> QED
        BY <3>1, <4>1
    <3> QED
      BY <1>7, <2>1, <3>1, <3>2, HeadAndTail
  <2>3. /\ TreeTypeOK' /\ args' = args /\ args' \in Requests /\ touched' = touched /\ tree' = tree
        /\ ToList' = ToList /\ Untouched' = Untouched /\ Visible' = Visible /\ Barred' = Barred
    BY <1>1, <2>1, SameTree
  <2>4. Rests' = Rests /\ ~ Cut /\ ~ Cut'
    BY <1>1, <1>7, <2>1, <2>2 DEF Rests, Cut
  <2>5. ListTypeInv'
    BY <1>1, <2>1, <2>2, <2>3 DEF ListTypeInv, Walking
  <2>6. PhaseInv'
    BY <1>1, <1>7, <2>1, <2>2, <2>3, <2>4 DEF PhaseInv, Looks, Listable
  <2>7. DepthInv'
    BY <1>1, <2>1, <2>2, <2>3, <2>4 DEF WalkInv, DepthInv, Walking, Looks, Listable
  <2>8. OrderInv'
    BY <1>1, <2>1, <2>4 DEF WalkInv, OrderInv, Walking, Looks, Listable
  <2>11. Awaited \subseteq Awaited'
    BY <1>4, <2>4 DEF Awaited
  <2>12. BarredInv'
    <3>1. touched = {} => Barred \subseteq Awaited
      BY <1>1, <2>4 DEF WalkInv, BarredInv
    <3> QED
      BY <2>3, <2>11, <3>1 DEF BarredInv
  <2>9. CoverInv'
    <3>1. LeftOut = {}
      BY <2>4 DEF LeftOut
    <3>3. (ToList \cap Untouched)' \subseteq Range(entries)' \cup Awaited'
      BY <1>3, <2>1, <2>3, <2>11, <3>1
    <3> QED
      BY <2>1, <3>3 DEF CoverInv
  <2>10. QuietInv'
    BY <1>1, <2>1, <2>3, <2>4 DEF WalkInv, QuietInv, Walking, Looks, Listable
  <2> QED
    BY <2>5, <2>6, <2>7, <2>8, <2>9, <2>10, <2>12 DEF WalkInv
<1> QED
  BY <1>1, <1>5, <1>6, <1>7

(* A change made elsewhere: what stays as it was is to be listed as before. *)
LEMMA EditKeeps ==
    ASSUME WalkInv, Edit, UNCHANGED listVars
    PROVE  WalkInv' /\ touched' # {}
<1>1. /\ args' = args /\ pc' = pc /\ stack' = stack /\ current' = current /\ value' = value
      /\ entries' = entries /\ answer' = answer
  BY DEF listVars
<1>2. ListTypeInv /\ TreeTypeOK
  BY DEF WalkInv, ListTypeInv
<1>3. /\ touched' # {}
      /\ \A p \in Untouched' : p \in Untouched /\ p \in Paths
            /\ \A q \in Paths : IsPrefix(q, p) => tree'[q] = tree[q]
  BY <1>2, EditKeepsUntouched
<1>4. ListTypeInv'
  BY <1>1, <1>2, EditKeepsTree DEF ListTypeInv
<1>5. Rests' = Rests /\ (Cut' <=> Cut)
  BY <1>1 DEF Rests, Cut
<1>6. PhaseInv' /\ DepthInv' /\ OrderInv'
  BY <1>1, <1>5 DEF WalkInv, PhaseInv, DepthInv, OrderInv, Full
<1>7. ToList' \cap Untouched' \subseteq ToList \cap Untouched
  <2>1. SUFFICES ASSUME NEW p \in ToList', p \in Untouched' PROVE p \in ToList
    BY <1>3
  <2>2. /\ p \in Paths /\ IsStrictPrefix(args.directory, p) /\ tree'[p] # "none"
        /\ \A q \in Paths : IsStrictPrefix(args.directory, q) /\ IsPrefix(q, p) => ~ Excluded(q)'
        /\ Len(p) - Len(args.directory) <= args.max_depth + 1 /\ Name(p) \in args.pattern
    BY <1>1, <2>1 DEF ToList, Reachable
  <2>3. \A q \in Paths : IsPrefix(q, p) => (Excluded(q)' <=> Excluded(q))
    BY <1>3, <2>1 DEF Excluded
  <2>4. tree[p] # "none"
    <3>1. IsPrefix(p, p)
      BY <2>2, PathsArePaths, PrefixFacts
    <3> QED
      BY <1>3, <2>1, <2>2, <3>1
  <2> QED
    BY <2>2, <2>3, <2>4 DEF ToList, Reachable
<1>8. CoverInv'
  <2>1. Awaited' = Awaited /\ LeftOut' = LeftOut
    BY <1>1, <1>5 DEF Awaited, LeftOut
  <2> QED
    BY <1>1, <1>7, <2>1 DEF WalkInv, CoverInv
<1>9. QuietInv' /\ BarredInv'
  BY <1>3 DEF QuietInv, BarredInv
<1> QED
  BY <1>3, <1>4, <1>6, <1>8, <1>9 DEF WalkInv

-----------------------------------------------------------------------------
(* What a listing of a tree nobody changes is when the walk comes to its end. *)

LEMMA ListedExactly ==
    ASSUME WalkInv, pc = "return", stack = <<>>, touched = {}
    PROVE  /\ value = FALSE => Expected = "complete" /\ entries = InOrder(ToList)
           /\ value = TRUE => /\ Expected = "truncated"
                              /\ entries = SubSeq(InOrder(ToList), 1, args.max_results)
<1>1. /\ ListTypeInv /\ pc \in Walking /\ args.max_depth >= 0 /\ args.max_results >= 1
      /\ tree[args.directory] = "directory" /\ answer = "none" /\ TreeTypeOK
  BY DEF WalkInv, PhaseInv, QuietInv, Walking, ListTypeInv
<1>2. args.max_results \in Int /\ args.max_depth \in Int
  BY <1>1, Arguments
<1>3. ToList \subseteq Path /\ ToList \subseteq Paths /\ IsFiniteSet(ToList)
  <2>1. ToList \subseteq Paths /\ ToList \subseteq {p \in Paths : tree[p] # "none"}
    BY DEF ToList, Reachable
  <2> QED
    BY <1>1, <2>1, FS_Subset, PathsArePaths DEF TreeTypeOK, IsTree
<1>4. /\ Range(entries) \subseteq ToList /\ Rising(entries)
      /\ Cut => LeftSome
  BY DEF WalkInv, OrderInv, QuietInv
<1>9. Awaited = {}
  <2>1. Ahead(Rests) = {}
    <3>1. Len(Rests) = 0 /\ Rests \in Seq(Seq(Path))
      BY <1>1, RestsType, EmptySeq
    <3>2. Rests = <<>>
      BY <3>1, EmptySeq
    <3> QED
      BY <3>2 DEF Ahead
  <2> QED
    BY <2>1 DEF Awaited, Looks, Listable
<1>5. ToList \subseteq Range(entries) \cup LeftOut
  <2>3. Untouched = Paths
    BY DEF Untouched
  <2> QED
    BY <1>1, <1>3, <1>9, <2>3 DEF WalkInv, CoverInv
<1>6. /\ Len(entries) \in Nat /\ DOMAIN entries = 1..Len(entries)
      /\ entries \in Seq(ToList)
  <2>1. Len(entries) \in Nat /\ DOMAIN entries = 1..Len(entries) /\ entries \in [1..Len(entries) -> Paths]
    BY <1>1, LenProperties DEF ListTypeInv
  <2>2. \A k \in 1..Len(entries) : entries[k] \in ToList
    BY <1>4, <2>1 DEF Range
  <2>3. entries \in [1..Len(entries) -> ToList]
    BY <2>1, <2>2
  <2> QED
    BY <2>1, <2>3, FunctionIsSeq
<1>7. ASSUME value = FALSE PROVE Expected = "complete" /\ entries = InOrder(ToList)
  <2>1. ~ Cut /\ LeftOut = {}
    BY <1>1, <1>7 DEF Cut, LeftOut
  <2>2. \A x \in ToList : \E k \in 1..Len(entries) : entries[k] = x
    BY <1>5, <1>6, <2>1 DEF Range
  <2>3. entries = InOrder(ToList)
    BY <1>3, <1>4, <1>6, <2>2, InOrderUnique
  <2>4. Cardinality(ToList) = Len(entries)
    BY <1>3, <2>3, InOrderProperties
  <2>5. Len(entries) <= args.max_results
    <3>1. entries = <<>> => Len(entries) = 0
      BY EmptySeq
    <3>2. entries # <<>> => Len(entries) <= args.max_results
      BY <1>1 DEF ListTypeInv
    <3> QED
      BY <1>1, <1>2, <3>1, <3>2
  <2>7. ~ IsBarred
    BY <1>1, <1>9, <2>1 DEF WalkInv, BarredInv, IsBarred
  <2>6. ~ (Cardinality(ToList) > args.max_results)
    BY <1>2, <1>6, <2>4, <2>5
  <2> QED
    BY <1>1, <1>2, <2>3, <2>6, <2>7 DEF Expected
<1>8. ASSUME value = TRUE
      PROVE  Expected = "truncated" /\ entries = SubSeq(InOrder(ToList), 1, args.max_results)
  <2>1. Cut /\ Full
    BY <1>8 DEF WalkInv, PhaseInv, Cut
  <2>2. /\ Len(entries) \in DOMAIN entries /\ Last(entries) = entries[Len(entries)]
        /\ Len(entries) = args.max_results
    BY <1>1, <2>1, LastEntry
  <2>3. entries # <<>>
    BY <1>6, <2>2, EmptySeq
  <2>4. \A x \in ToList : x \in Range(entries) \/ Precedes(entries[Len(entries)], x)
    BY <1>5, <2>2 DEF LeftOut
  <2>5. PICK q \in ToList : /\ Precedes(entries[Len(entries)], q)
                             /\ \A d \in Barred : q = d \/ Precedes(q, d)
    BY <1>4, <2>1, <2>2 DEF LeftSome
  <2>6. entries = SubSeq(InOrder(ToList), 1, Len(entries)) /\ Cardinality(ToList) > Len(entries)
    BY <1>3, <1>4, <1>6, <2>3, <2>4, <2>5, FirstInOrder
  <2>7. ASSUME NEW d \in Barred
        PROVE  Cardinality({p \in ToList : p = d \/ Precedes(p, d)}) > args.max_results
    <3> DEFINE S == {p \in ToList : p = d \/ Precedes(p, d)}
    <3>1. d \in Path /\ q \in Path /\ (q = d \/ Precedes(q, d)) /\ q \in S
      BY <1>1, <1>3, <2>5, <2>7, BarredFacts
    <3>2. \A k \in 1..Len(entries) : entries[k] \in S
      <4>1. ASSUME NEW k \in 1..Len(entries) PROVE Precedes(entries[k], q)
        <5>1. entries[k] \in Path /\ entries[Len(entries)] \in Path /\ Len(entries) \in 1..Len(entries)
          BY <1>3, <1>6, <2>2, ElementOfSeq
        <5>2. k = Len(entries) \/ Precedes(entries[k], entries[Len(entries)])
          <6>1. \A n \in Nat : \A i \in 1..n : i = n \/ i < n
            OBVIOUS
          <6>2. k = Len(entries) \/ k < Len(entries)
            BY <1>6, <6>1
          <6> QED
            BY <1>4, <5>1, <6>2 DEF Rising
        <5> QED
          BY <2>5, <3>1, <5>1, <5>2, PrecedesTransitive
      <4>2. ASSUME NEW k \in 1..Len(entries) PROVE entries[k] \in ToList /\ entries[k] \in Path
        BY <1>3, <1>6, ElementOfSeq
      <4> QED
        BY <3>1, <4>1, <4>2, PrecedesTransitive
    <3>3. entries \in Seq(S)
      <4>1. entries \in [1..Len(entries) -> S]
        BY <1>6, <3>2, LenProperties
      <4> QED
        BY <1>6, <4>1, FunctionIsSeq
    <3>4. IsFiniteSet(S) /\ S \subseteq Path /\ \A x \in S : x \in Range(entries) \/ Precedes(entries[Len(entries)], x)
      BY <1>3, <2>4, FS_Subset
    <3>5. Cardinality(S) > Len(entries)
      BY <1>4, <2>3, <2>5, <3>1, <3>3, <3>4, FirstInOrder
    <3> QED
      BY <2>2, <3>5
  <2>8. ~ IsBarred
    <3>1. ASSUME NEW d \in Barred
          PROVE  ~ (Cardinality({p \in ToList : p = d \/ Precedes(p, d)}) <= args.max_results)
      <4>1. Cardinality({p \in ToList : p = d \/ Precedes(p, d)}) \in Nat
        BY <1>3, FS_Subset, FS_CardinalityType
      <4> QED
        BY <1>2, <2>7, <4>1
    <3> QED
      BY <3>1 DEF IsBarred
  <2> QED
    BY <1>1, <1>2, <2>2, <2>6, <2>8 DEF Expected
<1> QED
  BY <1>7, <1>8

(* At a directory that may not be listed, what comes before it is listed already. *)
LEMMA NoFurther ==
    ASSUME WalkInv, pc = "open", ~ MayList(current), touched = {}
    PROVE  IsBarred
<1>1. ListTypeInv /\ pc \in Walking /\ TreeTypeOK /\ answer = "none" /\ args.max_results >= 1
  BY DEF WalkInv, PhaseInv, Walking, ListTypeInv
<1>2. /\ args.max_results \in Int /\ args.max_depth \in Int /\ current \in Path /\ current \in Paths
      /\ args.directory \in Path /\ Len(args.directory) \in Nat /\ Len(stack) \in Nat
      /\ Ahead(Rests) \subseteq Path
  BY <1>1, Arguments, RestsType DEF ListTypeInv
<1>3. current \in Barred
  <2>1. tree[current] = "directory" /\ current \in unreadable
    BY DEF WalkInv, QuietInv, MayList
  <2>2. current = args.directory \/ current \in Reachable(args.directory)
    BY DEF WalkInv, QuietInv
  <2>3. Len(current) - Len(args.directory) <= args.max_depth
    BY <1>1, <1>2 DEF WalkInv, DepthInv
  <2> QED
    BY <2>1, <2>2, <2>3 DEF Barred
<1> DEFINE S == {p \in ToList : p = current \/ Precedes(p, current)}
<1>4. S \subseteq Range(entries)
  <2>1. SUFFICES ASSUME NEW p \in S, p \in Awaited PROVE FALSE
    <3>1. LeftOut = {} /\ Untouched = Paths
      BY <1>1 DEF LeftOut, Cut, Untouched
    <3>2. ToList \subseteq Paths
      BY DEF ToList, Reachable
    <3> QED
      BY <1>1, <3>1, <3>2 DEF WalkInv, CoverInv
  <2>2. p \in Path
    BY <2>1, PathsArePaths DEF Awaited
  <2>3. Precedes(current, p)
    <3>1. CASE IsStrictPrefix(current, p)
      BY <1>2, <2>2, <3>1, PrefixFacts
    <3>2. ASSUME NEW x \in Ahead(Rests), IsPrefix(x, p) PROVE Precedes(current, p)
      <4>1. x \in Path /\ Precedes(current, x)
        BY <1>2, <3>2, LeftPrecedes DEF WalkInv, OrderInv
      <4>2. x = p \/ Precedes(x, p)
        BY <2>2, <3>2, <4>1, PrefixFacts
      <4> QED
        BY <1>2, <2>2, <4>1, <4>2, PrecedesTransitive
    <3> QED
      BY <2>1, <3>1, <3>2 DEF Awaited, Looks, Listable
  <2> QED
    BY <1>2, <2>1, <2>2, <2>3, PrecedesTransitive, PrecedesIrreflexive
<1>5. Cardinality(S) <= args.max_results /\ IsFiniteSet(Range(entries))
  <2> DEFINE R == Range(entries)
  <2>1. /\ entries \in Seq(Paths) /\ Len(entries) \in Nat /\ DOMAIN entries = 1..Len(entries)
        /\ Rising(entries) /\ Len(entries) <= args.max_results
    <3>1. entries = <<>> => Len(entries) = 0
      BY EmptySeq
    <3> QED
      BY <1>1, <1>2, <3>1, LenProperties DEF WalkInv, OrderInv, ListTypeInv
  <2>2. R \subseteq Path /\ R \subseteq ToList
    BY PathsArePaths DEF WalkInv, QuietInv, ToList, Reachable
  <2>3. IsFiniteSet(ToList)
    <3>1. ToList \subseteq {p \in Paths : tree[p] # "none"}
      BY DEF ToList, Reachable
    <3> QED
      BY <1>1, <3>1, FS_Subset DEF TreeTypeOK, IsTree
  <2>4. IsFiniteSet(R)
    BY <2>2, <2>3, FS_Subset
  <2>5. entries \in Seq(R) /\ \A x \in R : \E n \in 1..Len(entries) : entries[n] = x
    <3>1. entries \in [1..Len(entries) -> R]
      BY <2>1, LenProperties DEF Range
    <3> QED
      BY <2>1, <3>1, FunctionIsSeq DEF Range
  <2> HIDE DEF R
  <2>6. entries = InOrder(R)
    BY <2>1, <2>2, <2>4, <2>5, InOrderUnique
  <2>7. Cardinality(R) = Len(entries)
    BY <2>2, <2>4, <2>6, InOrderProperties
  <2>8. Cardinality(S) <= Cardinality(R) /\ Cardinality(S) \in Nat
    BY <1>4, <2>4, FS_Subset, FS_CardinalityType DEF R
  <2> QED
    BY <1>2, <2>1, <2>4, <2>7, <2>8 DEF R
<1> QED
  BY <1>3, <1>5 DEF IsBarred

(* A listing that ends, ends as is to be expected if nothing was changed. *)
LEMMA ExactAtTheEnd ==
    ASSUME WalkInv, List
    PROVE  QuietListingIsExact'
<1>1. ListTypeInv
  BY DEF WalkInv
<1>2. UNCHANGED <<treeVars, args>>
  BY DEF List, Validate, Resolve, CheckDirectory, Open, NextChild, ExcludedSymlink,
         ExcludedDirectory, IsSymlink, IsDirectory, Stat, Return, Step, End, Leave, Listed, Goto
<1>3. /\ args' = args /\ touched' = touched /\ tree' = tree
      /\ ToList' = ToList /\ Expected' = Expected
  BY <1>1, <1>2, SameTree
<1>4. SUFFICES ASSUME pc' = "done", touched = {}
               PROVE  /\ answer' = Expected
                      /\ answer' \in {"truncated", "complete"} =>
                            entries' = IF answer' = "complete" THEN InOrder(ToList)
                                       ELSE SubSeq(InOrder(ToList), 1, args.max_results)
  BY <1>3 DEF QuietListingIsExact
<1>5. CASE Validate
  BY <1>4, <1>5 DEF Validate, Step, End, Goto, Expected
<1>6. CASE Resolve
  <2>1. pc = "resolve" /\ answer' = "not_found" /\ tree[args.directory] = "none"
    BY <1>4, <1>6 DEF Resolve, Step, End, Goto
  <2>2. args.max_depth >= 0 /\ args.max_results >= 1 /\ args.max_depth \in Int /\ args.max_results \in Int
    BY <1>1, <2>1, Arguments DEF WalkInv, PhaseInv
  <2> QED
    BY <2>1, <2>2 DEF Expected
<1>7. CASE CheckDirectory
  <2>1. /\ pc = "check_directory" /\ answer' = "not_directory"
        /\ tree[args.directory] # "directory"
    BY <1>4, <1>7 DEF CheckDirectory, End, Goto
  <2>2. /\ args.max_depth >= 0 /\ args.max_results >= 1 /\ args.max_depth \in Int /\ args.max_results \in Int
        /\ tree[args.directory] # "none"
    BY <1>1, <1>4, <2>1, Arguments DEF WalkInv, PhaseInv, QuietInv
  <2> QED
    BY <2>1, <2>2 DEF Expected
<1>8. CASE Open
  <2>1. pc = "open" /\ ~ MayList(current) /\ answer' = "cannot_list" /\ pc \in Walking
    BY <1>4, <1>8 DEF Open, End, Goto, Walking
  <2>2. IsBarred
    BY <1>4, <2>1, NoFurther
  <2>3. /\ args.max_depth >= 0 /\ args.max_results >= 1 /\ args.max_depth \in Int
        /\ args.max_results \in Int /\ tree[args.directory] = "directory"
    BY <1>1, <1>4, <2>1, Arguments DEF WalkInv, PhaseInv, QuietInv
  <2> QED
    BY <2>1, <2>2, <2>3 DEF Expected
<1>9. CASE Stat
  <2>1. pc = "stat" /\ tree[current] = "none"
    BY <1>4, <1>9 DEF Stat, Listed, Leave, End, Goto
  <2> QED
    BY <1>4, <2>1 DEF WalkInv, QuietInv, Looks, Listable
<1>10. CASE Return
  <2>1. /\ pc = "return" /\ stack = <<>> /\ entries' = entries
        /\ answer' = IF value THEN "truncated" ELSE "complete"
    BY <1>4, <1>10 DEF Return, Leave, End, Goto
  <2>2. value \in BOOLEAN
    BY <1>1 DEF ListTypeInv
  <2> QED
    BY <1>4, <2>1, <2>2, ListedExactly
<1>11. CASE NextChild \/ ExcludedSymlink \/ ExcludedDirectory \/ IsSymlink \/ IsDirectory
  BY <1>4, <1>11 DEF NextChild, ExcludedSymlink, ExcludedDirectory, IsSymlink, IsDirectory,
                     Step, Leave, Listed, Goto
<1> QED
  BY <1>5, <1>6, <1>7, <1>8, <1>9, <1>10, <1>11 DEF List

-----------------------------------------------------------------------------

LEMMA InitListInv == Init => ListInv
<1> SUFFICES ASSUME Init PROVE ListInv
  OBVIOUS
<1>1. /\ tree \in Trees /\ unreadable \in Denials /\ touched = {} /\ edits = 0 /\ args \in Requests /\ pc = "call"
      /\ stack = <<>> /\ current = <<>> /\ value = FALSE /\ entries = <<>> /\ answer = "none"
  BY DEF Init, TreeInit
<1>2. TreeTypeOK
  BY <1>1, PathsAssumption DEF TreeTypeOK
<1>3. ListTypeInv
  BY <1>1, <1>2, PathsArePaths, EmptySeq DEF ListTypeInv
<1>4. ~ Cut /\ PhaseInv
  BY <1>1 DEF PhaseInv, Cut, Looks, Listable
<1>5. Rests = <<>> /\ Ahead(Rests) = {} /\ Range(entries) = {}
  <2>1. Len(stack) = 0
    BY <1>1, EmptySeq
  <2>2. Rests \in Seq(Seq(Path)) /\ Len(Rests) = 0
    BY <1>3, <2>1, RestsType
  <2>3. Rests = <<>>
    BY <2>2, EmptySeq
  <2> QED
    BY <1>1, <2>3 DEF Ahead, Range
<1>6. DepthInv
  <2>1. InPlace(<<>>, args.directory)
    BY DEF InPlace
  <2> QED
    BY <1>1, <1>5, <2>1 DEF DepthInv, Walking, Looks, Listable
<1>7. OrderInv
  <2>1. Rising(entries)
    <3>1. Len(entries) = 0
      BY <1>1, EmptySeq
    <3> QED
      BY <3>1 DEF Rising
  <2> QED
    BY <1>1, <1>5, <2>1 DEF OrderInv, Walking, Looks, Listable
<1>8. CoverInv
  BY <1>1 DEF CoverInv, Walking, Looks, Listable
<1>9. QuietInv /\ BarredInv
  BY <1>1, <1>4, <1>5 DEF QuietInv, BarredInv, Walking, Looks, Listable
<1>10. QuietListingIsExact
  BY <1>1 DEF QuietListingIsExact
<1> QED
  BY <1>3, <1>4, <1>6, <1>7, <1>8, <1>9, <1>10 DEF ListInv, WalkInv

LEMMA StutterKeeps ==
    ASSUME ListInv, UNCHANGED vars
    PROVE  ListInv'
<1>1. /\ UNCHANGED <<treeVars, args>> /\ pc' = pc /\ stack' = stack /\ current' = current
      /\ value' = value /\ entries' = entries /\ answer' = answer
  BY DEF vars, listVars
<1>2. ListTypeInv
  BY DEF ListInv, WalkInv
<1>3. /\ TreeTypeOK' /\ args' = args /\ touched' = touched /\ tree' = tree
      /\ ToList' = ToList /\ Untouched' = Untouched /\ Visible' = Visible /\ Barred' = Barred
      /\ Reachable(args.directory)' = Reachable(args.directory) /\ Expected' = Expected /\ Barred' = Barred
  BY <1>1, <1>2, SameTree
<1>4. Rests' = Rests /\ (Cut' <=> Cut)
  BY <1>1 DEF Rests, Cut
<1>5. Awaited' = Awaited /\ LeftOut' = LeftOut
  BY <1>1, <1>4 DEF Awaited, LeftOut
<1>6. ListTypeInv'
  BY <1>1, <1>2, <1>3 DEF ListTypeInv
<1>7. PhaseInv' /\ DepthInv' /\ OrderInv'
  BY <1>1, <1>3, <1>4 DEF ListInv, WalkInv, PhaseInv, DepthInv, OrderInv, Full
<1>8. CoverInv'
  BY <1>1, <1>3, <1>5 DEF ListInv, WalkInv, CoverInv
<1>11. BarredInv'
  BY <1>1, <1>3, <1>4, <1>5 DEF ListInv, WalkInv, BarredInv
<1>12. LeftSome' <=> LeftSome
  BY <1>1, <1>3 DEF LeftSome
<1>9. QuietInv'
  <2>1. Excluded(current)' <=> Excluded(current)
    BY <1>1, <1>3 DEF Excluded
  <2> QED
    BY <1>1, <1>3, <1>4, <1>12, <2>1 DEF ListInv, WalkInv, QuietInv
<1>10. QuietListingIsExact'
  BY <1>1, <1>3 DEF ListInv, QuietListingIsExact
<1> QED
  BY <1>6, <1>7, <1>8, <1>9, <1>10, <1>11 DEF ListInv, WalkInv

LEMMA NextListInv == ListInv /\ [Next]_vars => ListInv'
<1> SUFFICES ASSUME ListInv, [Next]_vars PROVE ListInv'
  OBVIOUS
<1>1. WalkInv
  BY DEF ListInv
<1>2. CASE List
  <2>1. WalkInv'
    BY <1>1, <1>2, ValidateKeeps, ResolveKeeps, CheckDirectoryKeeps, OpenKeeps, NextChildKeeps,
       ExcludedSymlinkKeeps, ExcludedDirectoryKeeps, IsSymlinkKeeps, IsDirectoryKeeps,
       StatKeeps, ReturnKeeps DEF List
  <2> QED
    BY <1>1, <1>2, <2>1, ExactAtTheEnd DEF ListInv
<1>3. CASE Edit /\ UNCHANGED listVars
  BY <1>1, <1>3, EditKeeps DEF ListInv, QuietListingIsExact
<1>4. CASE Finished \/ UNCHANGED vars
  BY <1>4, StutterKeeps DEF Finished
<1> QED
  BY <1>2, <1>3, <1>4 DEF Next

THEOREM Invariance == Spec => []ListInv
  BY InitListInv, NextListInv, PTL DEF Spec

-----------------------------------------------------------------------------
(***************************************************************************)
(* list_files never gets into a state its types do not allow, and no       *)
(* listing is longer than max_results.                                     *)
(***************************************************************************)
THEOREM TypeCorrect == Spec => []TypeOK
<1>1. ListInv => TypeOK
  <2> SUFFICES ASSUME ListInv PROVE TypeOK
    OBVIOUS
  <2>1. ListTypeInv
    BY DEF ListInv, WalkInv
  <2>2. \A i \in DOMAIN stack : stack[i].rest \in Seq(Paths) /\ stack[i].truncated \in BOOLEAN
    BY <2>1, RestsOfType DEF ListTypeInv, Frame
  <2> QED
    BY <2>1, <2>2 DEF TypeOK, ListTypeInv, Walking, Looks, Listable
<1> QED
  BY Invariance, <1>1, PTL

(***************************************************************************)
(* However the tree changes while _walk_directory is at work, nothing is   *)
(* listed twice and the entries come in the order of the walk.             *)
(***************************************************************************)
THEOREM EntriesKeepTheOrder == Spec => []EntriesAreOrdered
<1>1. ListInv => EntriesAreOrdered
  <2> SUFFICES ASSUME ListInv, NEW i \in 1..(Len(entries) - 1)
               PROVE  Precedes(entries[i], entries[i + 1])
    BY DEF EntriesAreOrdered
  <2>1. Rising(entries) /\ Len(entries) \in Nat
    BY LenProperties DEF ListInv, WalkInv, OrderInv, ListTypeInv
  <2>2. i \in 1..Len(entries) /\ i + 1 \in 1..Len(entries) /\ i < i + 1
    BY <2>1
  <2> QED
    BY <2>1, <2>2 DEF Rising
<1> QED
  BY Invariance, <1>1, PTL

(***************************************************************************)
(* What was there all the time is listed, unless the listing says it was   *)
(* truncated and it comes after the last entry.                            *)
(***************************************************************************)
THEOREM NothingStableIsMissed == Spec => []StableEntriesAreListed
<1>1. ListInv => StableEntriesAreListed
  <2> SUFFICES ASSUME ListInv, answer \in {"truncated", "complete"}, NEW p \in ToList \cap Untouched
               PROVE  \/ \E i \in DOMAIN entries : entries[i] = p
                      \/ answer = "truncated" /\ Precedes(Last(entries), p)
    BY DEF StableEntriesAreListed
  <2>1. p \in Range(entries) \cup Awaited \cup LeftOut /\ ListTypeInv
    BY DEF ListInv, WalkInv, CoverInv
  <2>2. pc = "done"
    BY DEF ListInv, WalkInv, PhaseInv
  <2>3. p \in LeftOut => answer = "truncated" /\ Precedes(Last(entries), p)
    BY <2>2 DEF LeftOut, Cut
  <2>4. p \notin Awaited
    <3>1. stack = <<>>
      BY <2>2 DEF ListInv, WalkInv, PhaseInv
    <3>2. Len(Rests) = 0 /\ Rests \in Seq(Seq(Path))
      BY <2>1, <3>1, RestsType, EmptySeq
    <3>3. Rests = <<>>
      BY <3>2, EmptySeq
    <3> QED
      BY <2>2, <3>3 DEF Awaited, Ahead, Looks, Listable
  <2> QED
    BY <2>1, <2>3, <2>4 DEF Range
<1> QED
  BY Invariance, <1>1, PTL

(***************************************************************************)
(* A listing of a tree nobody changes is what was asked for, in order, up  *)
(* to max_results, and truncated exactly when something was left out.      *)
(***************************************************************************)
THEOREM QuietListingExact == Spec => []QuietListingIsExact
<1>1. ListInv => QuietListingIsExact
  BY DEF ListInv
<1> QED
  BY Invariance, <1>1, PTL
=============================================================================
