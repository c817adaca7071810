------------------------- MODULE SearchText_proofs -------------------------
(***************************************************************************)
(* What a search gives, for every tree, every request, every content of    *)
(* the files and any number of changes made while it walks and reads.      *)
(***************************************************************************)
EXTENDS SearchText, Ordering_proofs

-----------------------------------------------------------------------------
(* Sums.                                                                   *)

Summed(f, sizes) == f = [n \in 0..Len(sizes) |-> IF n = 0 THEN 0 ELSE f[n - 1] + sizes[n]]

LEMMA SumsExist ==
    ASSUME NEW sizes \in Seq(Nat)
    PROVE  \E f : Summed(f, sizes)
<1> DEFINE N == Len(sizes)
           Up(f, m) == f = [n \in 0..m |-> IF n = 0 THEN 0 ELSE f[n - 1] + sizes[n]]
           S == {m \in 0..N : \E f : Up(f, m)}
<1>1. N \in Nat
  BY LenProperties
<1>2. 0 \in S
  <2> DEFINE f == [n \in 0..0 |-> 0]
  <2>1. f = [n \in 0..0 |-> IF n = 0 THEN 0 ELSE f[n - 1] + sizes[n]]
    OBVIOUS
  <2>2. Up(f, 0)
    BY <2>1
  <2> HIDE DEF f, Up
  <2> QED
    BY <1>1, <2>2
<1>3. ASSUME NEW m \in 0..N, m # N, m \in S PROVE m + 1 \in S
  <2>1. PICK f : Up(f, m)
    BY <1>3
  <2> DEFINE g == [n \in 0..(m + 1) |-> IF n = m + 1 THEN f[m] + sizes[m + 1] ELSE f[n]]
  <2>2. ASSUME NEW n \in 0..(m + 1) PROVE g[n] = IF n = 0 THEN 0 ELSE g[n - 1] + sizes[n]
    <3>1. CASE n = m + 1
      BY <1>1, <3>1
    <3>2. CASE n # m + 1
      <4>1. n \in 0..m /\ (n # 0 => n - 1 \in 0..m)
        BY <1>1, <3>2
      <4>2. f[n] = IF n = 0 THEN 0 ELSE f[n - 1] + sizes[n]
        BY <2>1, <4>1
      <4> QED
        BY <3>2, <4>1, <4>2
    <3> QED
      BY <3>1, <3>2
  <2>3. g = [n \in 0..(m + 1) |-> g[n]]
    OBVIOUS
  <2> HIDE DEF g
  <2>4. g = [n \in 0..(m + 1) |-> IF n = 0 THEN 0 ELSE g[n - 1] + sizes[n]]
    BY <2>2, <2>3
  <2>5. m + 1 \in 0..N
    BY <1>1, <1>3
  <2> QED
    BY <2>4, <2>5
<1> HIDE DEF S
<1>4. N \in S
  <2>1. \A n \in 0..N : n \in S
    BY <1>1, <1>2, <1>3, StepByStep
  <2> QED
    BY <1>1, <2>1
<1> QED
  BY <1>4 DEF S, Summed

(* Whatever adds the sizes up one by one ends with their total. *)
LEMMA TotalIs ==
    ASSUME NEW sizes \in Seq(Nat), NEW f, f[0] = 0,
           \A n \in 1..Len(sizes) : f[n] = f[n - 1] + sizes[n]
    PROVE  Total(sizes) = f[Len(sizes)] /\ \A n \in 0..Len(sizes) : f[n] \in Nat
<1> DEFINE g == CHOOSE h : Summed(h, sizes)
           N == Len(sizes)
           S == {n \in 0..N : f[n] = g[n] /\ f[n] \in Nat}
<1>1. N \in Nat /\ \A n \in 1..N : sizes[n] \in Nat
  BY LenProperties, ElementOfSeq
<1>2. Summed(g, sizes)
  BY SumsExist
<1>3. Total(sizes) = g[N]
  BY DEF Total, Summed
<1> HIDE DEF g
<1>4. g[0] = 0 /\ \A n \in 1..N : g[n] = g[n - 1] + sizes[n]
  <2>1. \A n \in 0..N : g[n] = IF n = 0 THEN 0 ELSE g[n - 1] + sizes[n]
    BY <1>2 DEF Summed
  <2> QED
    BY <1>1, <2>1
<1>5. 0 \in S
  BY <1>1, <1>4
<1>6. ASSUME NEW n \in 0..N, n # N, n \in S PROVE n + 1 \in S
  <2>1. n + 1 \in 1..N /\ (n + 1) - 1 = n
    BY <1>1, <1>6
  <2>2. f[n + 1] = f[n] + sizes[n + 1] /\ g[n + 1] = g[n] + sizes[n + 1] /\ sizes[n + 1] \in Nat
    BY <1>1, <1>4, <2>1
  <2> QED
    BY <1>6, <2>1, <2>2
<1> HIDE DEF S
<1>7. \A n \in 0..N : n \in S
  BY <1>1, <1>5, <1>6, StepByStep
<1> QED
  BY <1>1, <1>3, <1>7 DEF S

LEMMA TotalProperties ==
    ASSUME NEW s \in Seq(Nat), NEW t \in Seq(Nat)
    PROVE  Total(s) \in Nat /\ Total(s \o t) = Total(s) + Total(t)
<1>1. /\ s \o t \in Seq(Nat) /\ Len(s) \in Nat /\ Len(t) \in Nat /\ Len(s \o t) = Len(s) + Len(t)
      /\ \A i \in 1..(Len(s) + Len(t)) : (s \o t)[i] = IF i <= Len(s) THEN s[i] ELSE t[i - Len(s)]
  BY ConcatProperties, LenProperties
<1>2. PICK f : Summed(f, s \o t)
  BY <1>1, SumsExist
<1>3. f[0] = 0 /\ \A n \in 1..(Len(s) + Len(t)) : f[n] = f[n - 1] + (s \o t)[n]
  <2>1. \A n \in 0..(Len(s) + Len(t)) : f[n] = IF n = 0 THEN 0 ELSE f[n - 1] + (s \o t)[n]
    BY <1>1, <1>2 DEF Summed
  <2> QED
    BY <1>1, <2>1
<1>4. Total(s \o t) = f[Len(s) + Len(t)] /\ \A n \in 0..(Len(s) + Len(t)) : f[n] \in Nat
  BY <1>1, <1>3, TotalIs
<1>5. Total(s) = f[Len(s)]
  <2>1. ASSUME NEW n \in 1..Len(s) PROVE f[n] = f[n - 1] + s[n]
    <3>1. n \in 1..(Len(s) + Len(t)) /\ (s \o t)[n] = s[n]
      BY <1>1
    <3> QED
      BY <1>3, <3>1
  <2> QED
    BY <1>3, <2>1, TotalIs
<1>6. Total(t) = f[Len(s) + Len(t)] - f[Len(s)]
  <2> DEFINE g == [n \in 0..Len(t) |-> f[Len(s) + n] - f[Len(s)]]
  <2>1. g[0] = 0
    BY <1>1, <1>4
  <2>2. ASSUME NEW n \in 1..Len(t) PROVE g[n] = g[n - 1] + t[n]
    <3>1. /\ Len(s) + n \in 1..(Len(s) + Len(t)) /\ (Len(s) + n) - 1 = Len(s) + (n - 1)
          /\ ~ (Len(s) + n <= Len(s)) /\ (Len(s) + n) - Len(s) = n
          /\ n \in 0..Len(t) /\ n - 1 \in 0..Len(t) /\ Len(s) \in 0..(Len(s) + Len(t))
          /\ Len(s) + (n - 1) \in 0..(Len(s) + Len(t))
      BY <1>1
    <3>2. f[Len(s) + n] = f[Len(s) + (n - 1)] + t[n]
      BY <1>1, <1>3, <3>1
    <3>3. t[n] \in Nat /\ f[Len(s)] \in Nat /\ f[Len(s) + (n - 1)] \in Nat
      BY <1>4, <3>1, ElementOfSeq
    <3> QED
      BY <3>1, <3>2, <3>3, SMTT(30)
  <2>3. g[Len(t)] = f[Len(s) + Len(t)] - f[Len(s)]
    BY <1>1
  <2> HIDE DEF g
  <2> QED
    BY <2>1, <2>2, <2>3, TotalIs
<1>7. Len(s) \in 0..(Len(s) + Len(t)) /\ Len(s) + Len(t) \in 0..(Len(s) + Len(t))
  BY <1>1
<1> QED
  BY <1>4, <1>5, <1>6, <1>7

LEMMA TotalOfFew ==
    /\ Total(<<>>) = 0
    /\ \A x \in Nat : Total(<<x>>) = x
<1>1. Total(<<>>) = 0
  <2> DEFINE f == [n \in {0} |-> 0]
  <2>1. <<>> \in Seq(Nat) /\ Len(<<>>) = 0 /\ f[0] = 0
    BY EmptySeq
  <2> HIDE DEF f
  <2>2. \A n \in 1..Len(<<>>) : f[n] = f[n - 1] + <<>>[n]
    BY <2>1
  <2>3. Total(<<>>) = f[Len(<<>>)]
    BY <2>1, <2>2, TotalIs
  <2> QED
    BY <2>1, <2>3
<1>2. ASSUME NEW x \in Nat PROVE Total(<<x>>) = x
  <2> DEFINE f == [n \in 0..1 |-> IF n = 0 THEN 0 ELSE x]
  <2>1. <<x>> \in Seq(Nat) /\ Len(<<x>>) = 1 /\ <<x>>[1] = x
    OBVIOUS
  <2>2. f[0] = 0 /\ f[1] = x
    OBVIOUS
  <2> HIDE DEF f
  <2>3. \A n \in 1..Len(<<x>>) : f[n] = f[n - 1] + <<x>>[n]
    BY <2>1, <2>2
  <2> QED
    BY <2>1, <2>2, <2>3, TotalIs
<1> QED
  BY <1>1, <1>2

(* The first n + 1 sizes are the first n and one more. *)
LEMMA TotalOfFirst ==
    ASSUME NEW sizes \in Seq(Nat), NEW n \in 0..Len(sizes)
    PROVE  /\ SubSeq(sizes, 1, n) \in Seq(Nat) /\ Len(SubSeq(sizes, 1, n)) = n
           /\ \A i \in 1..n : SubSeq(sizes, 1, n)[i] = sizes[i]
           /\ Total(SubSeq(sizes, 1, n)) \in Nat
           /\ n < Len(sizes) =>
                 Total(SubSeq(sizes, 1, n + 1)) = Total(SubSeq(sizes, 1, n)) + sizes[n + 1]
<1>1. Len(sizes) \in Nat /\ sizes \in Path
  BY LenProperties DEF Path
<1>2. \A m \in 0..Len(sizes) : /\ SubSeq(sizes, 1, m) \in Seq(Nat) /\ Len(SubSeq(sizes, 1, m)) = m
                               /\ \A i \in 1..m : SubSeq(sizes, 1, m)[i] = sizes[i]
  BY <1>1, Beginning DEF Path, Agree
<1>3. Total(SubSeq(sizes, 1, n)) \in Nat
  BY <1>2, TotalProperties
<1>4. ASSUME n < Len(sizes)
      PROVE  Total(SubSeq(sizes, 1, n + 1)) = Total(SubSeq(sizes, 1, n)) + sizes[n + 1]
  <2> DEFINE a == SubSeq(sizes, 1, n)
             b == SubSeq(sizes, 1, n + 1)
             x == sizes[n + 1]
  <2>1. n + 1 \in 0..Len(sizes) /\ n + 1 \in 1..Len(sizes) /\ n \in Nat
    BY <1>1, <1>4
  <2>2. x \in Nat
    BY <2>1, ElementOfSeq
  <2>3. /\ a \in Seq(Nat) /\ Len(a) = n /\ b \in Seq(Nat) /\ Len(b) = n + 1
        /\ \A i \in 1..n : a[i] = sizes[i]
        /\ \A i \in 1..(n + 1) : b[i] = sizes[i]
    BY <1>2, <2>1
  <2> HIDE DEF a, b, x
  <2>4. /\ a \o <<x>> \in Seq(Nat) /\ Len(a \o <<x>>) = n + 1
        /\ \A i \in 1..(n + 1) : (a \o <<x>>)[i] = IF i <= n THEN a[i] ELSE <<x>>[i - n]
    BY <2>1, <2>2, <2>3, ConcatProperties
  <2>5. ASSUME NEW i \in 1..(n + 1) PROVE (a \o <<x>>)[i] = b[i]
    <3>1. CASE i <= n
      <4>1. i \in 1..n
        BY <2>1, <3>1
      <4>2. (a \o <<x>>)[i] = a[i]
        BY <2>4, <3>1
      <4> QED
        BY <2>3, <4>1, <4>2
    <3>2. CASE ~ (i <= n)
      BY <2>1, <2>3, <2>4, <3>2 DEF x
    <3> QED
      BY <3>1, <3>2
  <2>6. a \o <<x>> = b
    BY <2>3, <2>4, <2>5, SeqEqual
  <2>7. <<x>> \in Seq(Nat) /\ Total(<<x>>) = x
    BY <2>2, TotalOfFew
  <2>8. Total(a \o <<x>>) = Total(a) + Total(<<x>>)
    BY <2>3, <2>7, TotalProperties
  <2> QED
    BY <2>6, <2>7, <2>8 DEF a, b, x
<1> QED
  BY <1>2, <1>3, <1>4

-----------------------------------------------------------------------------
(* Sequences of sequences, one after the other.                            *)

(* What the first n hold, all hold at the same places. *)
LEMMA FlattenBegins ==
    ASSUME NEW S, NEW s \in Seq(Seq(S)), NEW n \in 0..Len(s)
    PROVE  LET t == FlattenSeq(SubSeq(s, 1, n))
               all == FlattenSeq(s)
           IN /\ t \in Seq(S) /\ all \in Seq(S) /\ Len(t) <= Len(all)
              /\ \A k \in 1..Len(t) : t[k] = all[k]
<1> DEFINE F(m) == FlattenSeq(SubSeq(s, 1, m))
           T == {m \in n..Len(s) : Len(F(n)) <= Len(F(m)) /\ \A k \in 1..Len(F(n)) : F(n)[k] = F(m)[k]}
<1>1. Len(s) \in Nat /\ \A m \in 1..Len(s) : s[m] \in Seq(S)
  BY LenProperties, ElementOfSeq
<1>2. /\ F(Len(s)) = FlattenSeq(s)
      /\ \A m \in 0..Len(s) : F(m) \in Seq(S) /\ Len(F(m)) \in Nat
      /\ \A m \in 1..Len(s) : F(m) = F(m - 1) \o s[m]
  BY FlattenFirst, LenProperties
<1> HIDE DEF F
<1>3. n \in T
  BY <1>1, <1>2
<1>4. ASSUME NEW m \in n..Len(s), m # Len(s), m \in T PROVE m + 1 \in T
  <2>1. /\ m + 1 \in 1..Len(s) /\ m + 1 \in n..Len(s) /\ (m + 1) - 1 = m /\ m \in 0..Len(s)
        /\ m + 1 \in 0..Len(s)
    BY <1>1, <1>4
  <2>2. F(m + 1) = F(m) \o s[m + 1] /\ F(m) \in Seq(S) /\ s[m + 1] \in Seq(S)
    BY <1>1, <1>2, <2>1
  <2>3. /\ Len(F(m + 1)) = Len(F(m)) + Len(s[m + 1]) /\ Len(s[m + 1]) \in Nat
        /\ \A k \in 1..Len(F(m)) : F(m + 1)[k] = F(m)[k]
    BY <2>2, ConcatProperties, LenProperties
  <2>4. Len(F(n)) \in Nat /\ Len(F(m)) \in Nat /\ Len(F(n)) <= Len(F(m))
    BY <1>2, <1>4, <2>1
  <2>5. \A k \in 1..Len(F(n)) : k \in 1..Len(F(m)) /\ F(n)[k] = F(m)[k]
    BY <1>4, <2>4
  <2> QED
    BY <2>1, <2>3, <2>4, <2>5
<1> HIDE DEF T
<1>5. \A m \in n..Len(s) : m \in T
  <2>1. n \in Nat
    BY <1>1
  <2> QED
    BY <1>1, <1>3, <1>4, <2>1, StepByStep
<1>6. Len(s) \in T
  BY <1>1, <1>5
<1>7. Len(s) \in 0..Len(s)
  BY <1>1
<1> QED
  BY <1>2, <1>6, <1>7 DEF T, F

-----------------------------------------------------------------------------
(* The tree.                                                               *)

LEMMA PathsArePaths == Paths \subseteq Path /\ <<>> \in Paths
  BY PathsAssumption DEF Path

LEMMA TreeStands ==
    ASSUME TreeTypeOK
    PROVE  tree \in [Paths -> Kinds] /\ TreeOn(tree, Paths)
  BY PathsArePaths, PathsAssumption DEF TreeTypeOK, IsTree, TreeOn, Parent

LEMMA TheWayThere ==
    ASSUME TreeTypeOK, NEW p \in Paths, tree[p] # "none", NEW q \in Path, IsPrefix(q, p)
    PROVE  q \in Paths /\ tree[q] # "none" /\ (q # p => tree[q] = "directory")
  BY TreeStands, WayInTree

LEMMA ChildrenFacts ==
    ASSUME TreeTypeOK, NEW d \in Paths
    PROVE  /\ Children(d) \in Seq(Paths) /\ Children(d) \in Seq(Path)
           /\ Rising(Children(d))
           /\ \A n \in DOMAIN Children(d) : Children(d)[n] # <<>> /\ Front(Children(d)[n]) = d
           /\ \A x \in Range(Children(d)) : x \in Paths /\ x # <<>> /\ Front(x) = d /\ tree[x] # "none"
           /\ \A p \in Paths : IsStrictPrefix(d, p) /\ tree[p] # "none" =>
                 \E x \in Range(Children(d)) : IsPrefix(x, p)
<1>1. TreeOn(tree, Paths) /\ Children(d) = ChildrenOn(tree, Paths, d)
  BY TreeStands DEF Children, ChildrenOn, Parent
<1> QED
  BY <1>1, ChildrenInTree

(* Whatever other programs do, a tree remains. *)
LEMMA EditKeepsTree ==
    ASSUME TreeTypeOK, Edit
    PROVE  TreeTypeOK'
<1>1. PICK p \in Paths :
          Delete(p) \/ Protect(p) \/ \E k \in Files \cup {"directory"} : Put(p, k)
  BY DEF Edit
<1>2. /\ edits < MaxEdits /\ edits' = edits + 1 /\ touched' = touched \cup {p}
      /\ MaxEdits \in Nat /\ (Protect(p) \/ p # <<>>)
  BY <1>1, PathsAssumption DEF Delete, Put, Protect, Touch
<1>3. touched' \subseteq Paths /\ edits' \in 0..MaxEdits
  BY <1>2 DEF TreeTypeOK
<1>6. unreadable' \subseteq Paths
  BY <1>1 DEF Delete, Put, Protect, TreeTypeOK
<1>4. tree \in [Paths -> Kinds] /\ TreeOn(tree, Paths)
  BY TreeStands
<1>5. tree' \in [Paths -> Kinds] /\ TreeOn(tree', Paths)
  <2>3. CASE Protect(p)
    BY <1>4, <2>3 DEF Protect
  <2>1. CASE Delete(p)
    <3>0. p # <<>>
      BY <2>1 DEF Delete
    <3>1. tree' = [q \in Paths |-> IF IsPrefix(p, q) THEN "none" ELSE tree[q]]
      BY <2>1 DEF Delete, Below
    <3>2. TreeOn(tree', Paths)
      BY <3>0, <1>4, <3>1, PrunedTree
    <3> QED
      BY <1>4, <3>1, <3>2 DEF Kinds
  <2>2. ASSUME NEW k \in Files \cup {"directory"}, Put(p, k)
        PROVE  tree' \in [Paths -> Kinds] /\ TreeOn(tree', Paths)
    <3>1. /\ tree' = [tree EXCEPT ![p] = k] /\ tree[Front(p)] = "directory" /\ p # <<>>
          /\ tree[p] = "none" \/ tree[p] \in Files
      BY <2>2 DEF Put, Parent
    <3>2. tree[p] # "directory"
      BY <3>1, PathsAssumption
    <3>3. TreeOn(tree', Paths)
      BY <1>4, <3>1, <3>2, GrownTree
    <3> QED
      BY <1>4, <3>1, <3>3 DEF Kinds
  <2> QED
    BY <1>1, <2>1, <2>2, <2>3
<1> QED
  BY <1>3, <1>5, <1>6 DEF TreeTypeOK, IsTree, TreeOn, Parent

(* What is untouched was before, and all on the way to it is as it was. *)
LEMMA EditKeepsUntouched ==
    ASSUME TreeTypeOK, Edit
    PROVE  /\ touched' # {}
           /\ \A p \in Untouched' : p \in Untouched /\ p \in Paths
                 /\ \A q \in Paths : IsPrefix(q, p) => tree'[q] = tree[q]
<1>1. PICK x \in Paths : Delete(x) \/ Protect(x) \/ \E k \in Files \cup {"directory"} : Put(x, k)
  BY DEF Edit
<1>2. touched' = touched \cup {x}
  BY <1>1 DEF Delete, Put, Protect, Touch
<1>3. ASSUME NEW q \in Paths, ~ IsPrefix(x, q) PROVE tree'[q] = tree[q]
  <2>1. x # q
    BY <1>3, PathsArePaths, PrefixFacts
  <2> QED
    BY <1>1, <1>3, <2>1 DEF Delete, Put, Protect, Below, TreeTypeOK, IsTree
<1>4. ASSUME NEW p \in Paths, \A q \in touched \cup {x} : ~ IsPrefix(q, p),
             NEW q \in Paths, IsPrefix(q, p)
      PROVE  tree'[q] = tree[q]
  <2>1. ~ IsPrefix(x, q)
    BY <1>4, PathsArePaths, PrefixTransitive
  <2> QED
    BY <1>3, <2>1
<1>5. Untouched' = {p \in Paths : \A q \in touched \cup {x} : ~ IsPrefix(q, p)}
  BY <1>2 DEF Untouched
<1> QED
  BY <1>2, <1>4, <1>5 DEF Untouched

-----------------------------------------------------------------------------
(* The inductive invariant.                                                *)

(* The steps at which a child is looked at; those of the walk; those of the reading. *)
Looks == {"is_symlink", "is_directory", "is_file", "resolve_child"}
Walking == {"open", "next_child"} \cup Looks
Held == {"stat", "read"}
Reading == {"next_file"} \cup Held

Match == Paths \X Files \X Nat

SearchTypeInv ==
    /\ TreeTypeOK
    /\ args \in Requests
    /\ pc \in {"call", "resolve", "check_directory", "done"} \cup Walking \cup Reading
    /\ stack \in Seq(Seq(Paths))
    /\ current \in Paths
    /\ files \in Seq(Paths)
    /\ matches \in Seq(Match)
    /\ \A i \in DOMAIN matches : matches[i][3] \in DOMAIN Content[matches[i][2]].sizes
    /\ output_bytes \in Nat
    /\ searched \in Nat
    /\ skipped \in Nat
    /\ answer \in {"none", "invalid", "not_found", "not_directory", "os_error",
                   "truncated", "complete"}

Ended == answer \in {"truncated", "complete"}

PhaseInv ==
    /\ pc # "done" => answer = "none"
    /\ pc \notin {"call", "done"} => ~ Invalid
    /\ pc \in {"call", "resolve", "check_directory"} => stack = <<>> /\ files = <<>>
    /\ pc \in Looks \cup {"next_child"} => stack # <<>>
    /\ pc \in Reading \/ Ended => stack = <<>>
    /\ pc \notin Reading \cup {"done"} => matches = <<>> /\ searched = 0 /\ skipped = 0

(* The walk is as deep as its stack. *)
DepthInv ==
    /\ InPlace(stack, args.directory)
    /\ pc = "open" => IsPrefix(args.directory, current)
    /\ pc \in Looks => IsStrictPrefix(args.directory, current)
    /\ pc \in Looks \cup {"open"} => Len(current) = Len(args.directory) + Len(stack)

(* What is looked at comes before what waits to be looked at. *)
WaitingInOrder ==
    \A x \in Ahead(stack) :
        /\ pc \in Looks \cup {"open"} => LeftOf(current, x)
        /\ pc = "next_child" => Precedes(current, x)

(* The files to search come before what is looked at, and after what is read. *)
FilesInOrder ==
    /\ Rising(files)
    /\ \A k \in DOMAIN files :
          /\ pc \in Walking => files[k] = current \/ Precedes(files[k], current)
          /\ pc \in Looks => Precedes(files[k], current)
          /\ pc \in Held => Precedes(current, files[k])

(* What was matched comes before what is read, and that before the rest. *)
MatchesInOrder ==
    /\ \A m \in DOMAIN matches :
          /\ pc \in Held => Precedes(matches[m][1], current)
          /\ pc = "next_file" => \A k \in DOMAIN files : Precedes(matches[m][1], files[k])
    /\ MatchesAreOrdered

OrderInv == WaitingInOrder /\ FilesInOrder /\ MatchesInOrder

(* The search will get to these, unless they go. *)
Awaited ==
    {p \in Paths : \/ \E x \in Ahead(stack) : IsPrefix(x, p)
                   \/ pc = "open" /\ IsStrictPrefix(current, p)
                   \/ pc \in {"is_symlink", "is_directory"} /\ IsPrefix(current, p)
                   \/ pc \in {"is_file", "resolve_child"} \cup Held /\ p = current
                   \/ pc # "done" /\ p \in Range(files)}

(* All that is in these was found. *)
Done ==
    {p \in Searchable : pc \notin Walking /\ Range(MatchesIn(p)) \subseteq Range(matches)}

(* These do not come before the place where the search was cut short. *)
LeftOut ==
    {p \in Paths : answer = "truncated" /\ (matches # <<>> => ~ Precedes(p, Last(matches)[1]))}

(* Nothing that stays as it was is lost. *)
CoverInv ==
    pc \in Walking \cup Reading \/ Ended =>
        Searchable \cap Untouched \subseteq Awaited \cup Done \cup LeftOut

(* The paths hidden by no excluded directory on the way. *)
Visible ==
    {p \in Paths : \A q \in Paths :
        IsStrictPrefix(args.directory, q) /\ IsStrictPrefix(q, p) => ~ Excluded(q)}

(* As long as nothing changes, what the walk has come by is there and is to be searched. *)
QuietWalkInv ==
    touched = {} =>
        /\ pc = "check_directory" => tree[args.directory] # "none"
        /\ pc \in Walking \cup Reading => tree[args.directory] = "directory"
        /\ \A x \in Ahead(stack) : tree[x] # "none" /\ x \in Visible
        /\ pc = "open" => /\ tree[current] = "directory"
                          /\ current # args.directory => current \in Reachable(args.directory)
        /\ pc \in Looks => tree[current] # "none" /\ current \in Visible
        /\ pc = "is_file" => tree[current] # "directory"
        /\ pc = "resolve_child" => tree[current] \in Files
        /\ pc \in Walking => Range(files) \subseteq Searchable

(* The directories the walk will get to, if they stay, are at or below these. *)
ToWalk ==
    {p \in Paths : \/ \E x \in Ahead(stack) : IsPrefix(x, p)
                   \/ pc \in {"open", "is_symlink", "is_directory"} /\ IsPrefix(current, p)}

(* A directory that must not be listed is still to be opened. *)
BarredInv ==
    touched = {} /\ (pc \in Walking \cup Reading \/ Ended) => Barred \subseteq ToWalk

(* What is in each file to search; what the first n hold. *)
AllMatches == [i \in DOMAIN Visited |-> MatchesIn(Visited[i])]
First(n) == {Visited[i] : i \in 1..n}
Texts == {p \in Searchable : IsText(p)}

(* ... and what is read is the next file in order. *)
QuietReadInv ==
    touched = {} /\ pc \in Reading =>
        LET n == searched + skipped
            next == IF pc \in Held THEN n + 2 ELSE n + 1
        IN /\ n <= Len(Visited)
           /\ pc \in Held => n + 1 <= Len(Visited) /\ current = Visited[n + 1]
           /\ pc = "read" => ~ Content[tree[current]].too_large
           /\ \A i \in 1..n : Visited[i] \notin Denied
           /\ files = SubSeq(Visited, next, Len(Visited))
           /\ matches = FlattenSeq(SubSeq(AllMatches, 1, n))
           /\ searched = Cardinality(First(n) \cap Texts)
           /\ skipped = Cardinality(First(n) \ Texts)

WalkInv == SearchTypeInv /\ PhaseInv /\ DepthInv /\ OrderInv /\ CoverInv /\ QuietWalkInv

SearchInv == WalkInv /\ BarredInv /\ OutputIsBounded /\ QuietReadInv /\ QuietSearchIsExact

-----------------------------------------------------------------------------
(* What the parts of a step change.                                        *)

LEMMA SameTree ==
    ASSUME SearchTypeInv, UNCHANGED <<treeVars, args>>
    PROVE  /\ TreeTypeOK' /\ args' = args /\ args' \in Requests /\ touched' = touched /\ tree' = tree
           /\ Searchable' = Searchable /\ Untouched' = Untouched /\ Visible' = Visible
           /\ Reachable(args.directory)' = Reachable(args.directory)
           /\ (Invalid' <=> Invalid) /\ OutputLimit' = OutputLimit
           /\ (\A p : MatchesIn(p)' = MatchesIn(p))
           /\ unreadable' = unreadable /\ Barred' = Barred /\ Denied' = Denied
           /\ Expected' = Expected
<1>1. tree' = tree /\ unreadable' = unreadable /\ touched' = touched /\ edits' = edits /\ args' = args
  BY DEF treeVars
<1>2. TreeTypeOK'
  BY <1>1 DEF SearchTypeInv, TreeTypeOK, IsTree, Parent
<1>3. \A q : Excluded(q)' <=> Excluded(q)
  BY <1>1 DEF Excluded
<1>4. Reachable(args.directory)' = Reachable(args.directory) /\ Visible' = Visible
  BY <1>1, <1>3 DEF Reachable, Visible
<1>5. Searchable' = Searchable /\ Untouched' = Untouched
  BY <1>1, <1>4 DEF Searchable, Untouched
<1>6. OutputLimit' = OutputLimit /\ (Invalid' <=> Invalid)
  BY <1>1 DEF OutputLimit, Invalid
<1>7. \A p : MatchesIn(p)' = MatchesIn(p)
  BY <1>1 DEF MatchesIn, IsText
<1>8. Barred' = Barred /\ Denied' = Denied
  BY <1>1, <1>4, <1>5 DEF Barred, Denied
<1>9. Visited' = Visited
  BY <1>5 DEF Visited
<1>10. \A n : FitsUpTo(n)' <=> FitsUpTo(n)
  BY <1>1, <1>6, <1>7, <1>9 DEF FitsUpTo, Size
<1>11. Expected' = Expected
  BY <1>1, <1>6, <1>8, <1>9, <1>10 DEF Expected, IsDenied
<1> QED
  BY <1>1, <1>2, <1>4, <1>5, <1>6, <1>7, <1>8, <1>11 DEF SearchTypeInv

LEMMA Arguments ==
    ASSUME SearchTypeInv
    PROVE  /\ args.directory \in Paths /\ args.directory \in Path
           /\ args.result_limit \in Int /\ args.max_output_bytes \in Int \cup {None}
           /\ current \in Path /\ Len(args.directory) \in Nat
           /\ ConfiguredOutputBytes \in Nat \ {0}
           /\ \A k \in Files : Content[k].sizes \in Seq(Nat)
  BY SearchAssumption, PathsArePaths, PathType DEF SearchTypeInv

LEMMA StackType ==
    ASSUME NEW s \in Seq(Seq(Paths))
    PROVE  /\ Len(s) \in Nat /\ DOMAIN s = 1..Len(s) /\ s \in Seq(Seq(Path))
           /\ Ahead(s) \subseteq Paths /\ Ahead(s) \subseteq Path
<1>1. Len(s) \in Nat /\ DOMAIN s = 1..Len(s)
  BY LenProperties
<1>2. \A i \in 1..Len(s) : s[i] \in Seq(Path)
  BY <1>1, ElementOfSeq, PathsArePaths, SeqMonotonic
<1>3. s \in [1..Len(s) -> Seq(Path)]
  BY <1>1, <1>2, LenProperties
<1>4. s \in Seq(Seq(Path))
  BY <1>1, <1>3, FunctionIsSeq
<1> QED
  BY <1>1, <1>4, AheadType, PathsArePaths

LEMMA NothingAhead == Ahead(<<>>) = {}
  BY DEF Ahead

LEMMA NothingMatched ==
    ASSUME matches' = <<>>
    PROVE  MatchesInOrder'
<1>1. DOMAIN matches' = {} /\ Len(matches') = 0
  BY EmptySeq
<1> QED
  BY <1>1 DEF MatchesInOrder, MatchesAreOrdered

LEMMA FilesType ==
    ASSUME SearchTypeInv
    PROVE  /\ files \in Seq(Path) /\ Len(files) \in Nat /\ DOMAIN files = 1..Len(files)
           /\ \A k \in DOMAIN files : files[k] \in Path /\ files[k] \in Paths
           /\ Range(files) \subseteq Paths
<1>1. files \in Seq(Path) /\ Len(files) \in Nat /\ DOMAIN files = 1..Len(files)
  BY LenProperties, SeqMonotonic, PathsArePaths DEF SearchTypeInv
<1>2. \A k \in 1..Len(files) : files[k] \in Paths
  BY ElementOfSeq DEF SearchTypeInv
<1> QED
  BY <1>1, <1>2, PathsArePaths DEF Range

-----------------------------------------------------------------------------
(* The steps of the walk keep the invariant.                               *)

(* The search fails. *)
LEMMA EndKeeps ==
    ASSUME WalkInv, NEW from, from # "done", NEW how, End(from, how),
           how \in {"invalid", "not_found", "not_directory", "os_error"}
    PROVE  WalkInv'
<1>1. /\ pc = from /\ pc' = "done" /\ UNCHANGED <<treeVars, args>> /\ answer' = how
      /\ stack' = stack /\ current' = current /\ files' = files /\ matches' = matches
      /\ output_bytes' = output_bytes /\ searched' = searched /\ skipped' = skipped
  BY DEF End, Goto, walkVars, foundVars
<1>2. SearchTypeInv
  BY DEF WalkInv
<1>3. /\ TreeTypeOK' /\ args' = args /\ args' \in Requests /\ touched' = touched /\ tree' = tree
      /\ Searchable' = Searchable /\ Visible' = Visible
  BY <1>1, <1>2, SameTree
<1>4. ~ Ended'
  BY <1>1 DEF Ended
<1>5. SearchTypeInv'
  BY <1>1, <1>2, <1>3 DEF SearchTypeInv
<1>6. PhaseInv'
  BY <1>1, <1>4 DEF PhaseInv, Looks, Reading, Held
<1>7. DepthInv'
  BY <1>1, <1>3 DEF WalkInv, DepthInv, Looks
<1>8. OrderInv'
  BY <1>1 DEF WalkInv, OrderInv, WaitingInOrder, FilesInOrder, MatchesInOrder, MatchesAreOrdered,
              Walking, Looks, Held
<1>9. CoverInv'
  BY <1>1, <1>4 DEF CoverInv, Walking, Looks, Reading, Held
<1>10. QuietWalkInv'
  BY <1>1, <1>3 DEF WalkInv, QuietWalkInv, Walking, Looks, Reading, Held
<1> QED
  BY <1>5, <1>6, <1>7, <1>8, <1>9, <1>10 DEF WalkInv

(* The steps before the walk. *)
LEMMA ValidateKeeps ==
    ASSUME WalkInv, Validate
    PROVE  WalkInv'
<1>1. CASE Invalid
  BY <1>1, EndKeeps DEF Validate
<1>2. CASE ~ Invalid
  <2>1. /\ pc = "call" /\ pc' = "resolve" /\ UNCHANGED <<treeVars, args>> /\ answer' = answer
        /\ stack' = stack /\ current' = current /\ files' = files /\ matches' = matches
        /\ output_bytes' = output_bytes /\ searched' = searched /\ skipped' = skipped
    BY <1>2 DEF Validate, Step, Goto, walkVars, foundVars
  <2>2. SearchTypeInv
    BY DEF WalkInv
  <2>3. /\ TreeTypeOK' /\ args' = args /\ args' \in Requests /\ touched' = touched /\ tree' = tree
        /\ Searchable' = Searchable /\ Visible' = Visible /\ (Invalid' <=> Invalid)
    BY <2>1, <2>2, SameTree
  <2>4. SearchTypeInv'
    BY <2>1, <2>2, <2>3 DEF SearchTypeInv
  <2>5. PhaseInv'
    BY <1>2, <2>1, <2>3 DEF WalkInv, PhaseInv, Ended, Looks, Reading, Held
  <2>6. DepthInv'
    BY <2>1, <2>3 DEF WalkInv, DepthInv, Looks
  <2>7. OrderInv'
    BY <2>1 DEF WalkInv, OrderInv, WaitingInOrder, FilesInOrder, MatchesInOrder, MatchesAreOrdered,
                Walking, Looks, Held
  <2>8. CoverInv'
    BY <2>1 DEF WalkInv, PhaseInv, CoverInv, Ended, Walking, Looks, Reading, Held
  <2>9. QuietWalkInv'
    BY <2>1, <2>3 DEF WalkInv, QuietWalkInv, Walking, Looks, Reading, Held
  <2> QED
    BY <2>4, <2>5, <2>6, <2>7, <2>8, <2>9 DEF WalkInv
<1> QED
  BY <1>1, <1>2

LEMMA ResolveKeeps ==
    ASSUME WalkInv, Resolve
    PROVE  WalkInv'
<1>1. CASE tree[args.directory] = "none"
  BY <1>1, EndKeeps DEF Resolve
<1>2. CASE tree[args.directory] # "none"
  <2>1. /\ pc = "resolve" /\ pc' = "check_directory" /\ UNCHANGED <<treeVars, args>>
        /\ answer' = answer
        /\ stack' = stack /\ current' = current /\ files' = files /\ matches' = matches
        /\ output_bytes' = output_bytes /\ searched' = searched /\ skipped' = skipped
    BY <1>2 DEF Resolve, Step, Goto, walkVars, foundVars
  <2>2. SearchTypeInv
    BY DEF WalkInv
  <2>3. /\ TreeTypeOK' /\ args' = args /\ args' \in Requests /\ touched' = touched /\ tree' = tree
        /\ Searchable' = Searchable /\ Visible' = Visible /\ (Invalid' <=> Invalid)
    BY <2>1, <2>2, SameTree
  <2>4. SearchTypeInv'
    BY <2>1, <2>2, <2>3 DEF SearchTypeInv
  <2>5. PhaseInv'
    BY <2>1, <2>3 DEF WalkInv, PhaseInv, Ended, Looks, Reading, Held
  <2>6. DepthInv'
    BY <2>1, <2>3 DEF WalkInv, DepthInv, Looks
  <2>7. OrderInv'
    BY <2>1 DEF WalkInv, OrderInv, WaitingInOrder, FilesInOrder, MatchesInOrder, MatchesAreOrdered,
                Walking, Looks, Held
  <2>8. CoverInv'
    BY <2>1 DEF WalkInv, PhaseInv, CoverInv, Ended, Walking, Looks, Reading, Held
  <2>9. QuietWalkInv'
    BY <1>2, <2>1, <2>3 DEF WalkInv, QuietWalkInv, Walking, Looks, Reading, Held
  <2> QED
    BY <2>4, <2>5, <2>6, <2>7, <2>8, <2>9 DEF WalkInv
<1> QED
  BY <1>1, <1>2

(* The walk begins at the directory asked for: all there is to search is below it. *)
LEMMA CheckDirectoryKeeps ==
    ASSUME WalkInv, CheckDirectory
    PROVE  WalkInv'
<1>1. CASE tree[args.directory] # "directory"
  BY <1>1, EndKeeps DEF CheckDirectory
<1>2. CASE tree[args.directory] = "directory"
  <2>1. /\ pc = "check_directory" /\ pc' = "open" /\ UNCHANGED <<treeVars, args>>
        /\ answer' = answer /\ current' = args.directory
        /\ stack' = stack /\ files' = files /\ matches' = matches
        /\ output_bytes' = output_bytes /\ searched' = searched /\ skipped' = skipped
    BY <1>2 DEF CheckDirectory, Goto, walkVars, foundVars
  <2>2. SearchTypeInv
    BY DEF WalkInv
  <2>3. /\ TreeTypeOK' /\ args' = args /\ args' \in Requests /\ touched' = touched /\ tree' = tree
        /\ Searchable' = Searchable /\ Untouched' = Untouched /\ Visible' = Visible
        /\ (Invalid' <=> Invalid)
    BY <2>1, <2>2, SameTree
  <2>4. /\ stack = <<>> /\ files = <<>> /\ matches = <<>> /\ Len(stack) = 0 /\ answer = "none"
        /\ ~ Invalid /\ searched = 0 /\ skipped = 0
    BY <2>1, EmptySeq DEF WalkInv, PhaseInv, Reading, Held
  <2>5. args.directory \in Paths /\ args.directory \in Path /\ Len(args.directory) \in Nat
    BY <2>2, Arguments
  <2>6. Ahead(stack) = {} /\ DOMAIN files = {} /\ Range(files) = {} /\ Len(files) = 0
    BY <2>4, NothingAhead, EmptySeq DEF Range
  <2>7. SearchTypeInv'
    BY <2>1, <2>2, <2>3, <2>5 DEF SearchTypeInv, Walking
  <2>8. PhaseInv'
    BY <2>1, <2>3, <2>4 DEF PhaseInv, Ended, Looks, Reading, Held
  <2>9. DepthInv'
    <3>1. InPlace(stack, args.directory)
      BY DEF WalkInv, DepthInv
    <3>2. IsPrefix(args.directory, args.directory)
      BY <2>5, PrefixFacts
    <3>3. Len(args.directory) = Len(args.directory) + Len(stack)
      BY <2>4, <2>5
    <3> QED
      BY <2>1, <2>3, <3>1, <3>2, <3>3 DEF DepthInv, Looks
  <2>10. OrderInv'
    <3>1. WaitingInOrder' /\ FilesInOrder'
      BY <2>1, <2>6 DEF WaitingInOrder, FilesInOrder, Rising
    <3> QED
      BY <2>1, <2>4, <3>1, NothingMatched DEF OrderInv
  <2>11. CoverInv'
    <3>1. Searchable \subseteq Awaited'
      BY <2>1 DEF Searchable, Reachable, Awaited
    <3>2. Searchable' \cap Untouched' \subseteq Awaited'
      BY <2>3, <3>1
    <3> QED
      BY <3>2 DEF CoverInv
  <2>12. QuietWalkInv'
    BY <1>2, <2>1, <2>3, <2>6 DEF QuietWalkInv, Walking, Looks, Reading, Held
  <2> QED
    BY <2>7, <2>8, <2>9, <2>10, <2>11, <2>12 DEF WalkInv
<1> QED
  BY <1>1, <1>2


(* What waits when a directory was listed. *)
LEMMA OpenedAhead ==
    ASSUME WalkInv, pc = "open"
    PROVE  /\ InPlace(<<Children(current)>> \o stack, args.directory)
           /\ Ahead(<<Children(current)>> \o stack) = Range(Children(current)) \cup Ahead(stack)
<1> DEFINE c == Children(current)
<1>1. SearchTypeInv /\ TreeTypeOK /\ current \in Paths /\ stack \in Seq(Seq(Paths))
  BY DEF WalkInv, SearchTypeInv
<1>2. stack \in Seq(Seq(Path)) /\ args.directory \in Path /\ current \in Path
  BY <1>1, StackType, Arguments
<1>3. c \in Seq(Path) /\ Rising(c) /\ \A n \in DOMAIN c : c[n] # <<>> /\ Front(c[n]) = current
  BY <1>1, ChildrenFacts
<1>4. /\ InPlace(stack, args.directory) /\ IsPrefix(args.directory, current)
      /\ Len(current) = Len(args.directory) + Len(stack)
      /\ \A x \in Ahead(stack) : LeftOf(current, x)
  BY DEF WalkInv, DepthInv, OrderInv, WaitingInOrder
<1> HIDE DEF c
<1>5. MayEnter(current, c, stack, args.directory)
  BY <1>2, <1>3, <1>4, Zenon DEF MayEnter
<1>6. InPlace(<<c>> \o stack, args.directory) /\ Ahead(<<c>> \o stack) = Range(c) \cup Ahead(stack)
  BY <1>5, EnterWalk, Zenon
<1> QED
  BY <1>6 DEF c

(* A directory is listed: what was awaited below it is awaited below its children. *)
LEMMA OpenKeeps ==
    ASSUME WalkInv, Open
    PROVE  WalkInv'
<1>1. CASE ~ MayList(current)
  BY <1>1, EndKeeps DEF Open
<1>2. CASE MayList(current)
  <2> DEFINE c == Children(current)
  <2>1. /\ pc = "open" /\ pc' = "next_child" /\ UNCHANGED <<treeVars, args>> /\ answer' = answer
        /\ stack' = <<c>> \o stack /\ current' = current /\ files' = files /\ matches' = matches
        /\ output_bytes' = output_bytes /\ searched' = searched /\ skipped' = skipped
    BY <1>2 DEF Open, Goto, foundVars
  <2>2. SearchTypeInv /\ TreeTypeOK /\ current \in Paths /\ stack \in Seq(Seq(Paths))
    BY DEF WalkInv, SearchTypeInv
  <2>3. /\ TreeTypeOK' /\ args' = args /\ args' \in Requests /\ touched' = touched /\ tree' = tree
        /\ Searchable' = Searchable /\ Untouched' = Untouched /\ Visible' = Visible
        /\ (Invalid' <=> Invalid)
    BY <2>1, <2>2, SameTree
  <2>4. /\ c \in Seq(Paths) /\ c \in Seq(Path) /\ Rising(c)
        /\ \A n \in DOMAIN c : c[n] # <<>> /\ Front(c[n]) = current
        /\ \A x \in Range(c) : x \in Paths /\ x # <<>> /\ Front(x) = current /\ tree[x] # "none"
        /\ \A p \in Paths : IsStrictPrefix(current, p) /\ tree[p] # "none" =>
              \E x \in Range(c) : IsPrefix(x, p)
    BY <2>2, ChildrenFacts
  <2>0. /\ InPlace(<<c>> \o stack, args.directory)
        /\ Ahead(<<c>> \o stack) = Range(c) \cup Ahead(stack)
    BY <2>1, OpenedAhead
  <2> HIDE DEF c
  <2>5. stack' \in Seq(Seq(Paths)) /\ stack' # <<>>
    <3>1. stack' \in Seq(Seq(Paths)) /\ Len(stack) \in Nat /\ Len(stack') = Len(stack) + 1
      BY <2>1, <2>2, <2>4, PushProperties
    <3> QED
      BY <3>1, EmptySeq
  <2>6. /\ stack \in Seq(Seq(Path)) /\ Ahead(stack) \subseteq Path
        /\ args.directory \in Path /\ current \in Path
    BY <2>2, StackType, Arguments
  <2>7. /\ InPlace(stack, args.directory)
        /\ IsPrefix(args.directory, current) /\ Len(current) = Len(args.directory) + Len(stack)
        /\ \A x \in Ahead(stack) : LeftOf(current, x)
        /\ matches = <<>> /\ answer = "none"
    BY <2>1 DEF WalkInv, DepthInv, OrderInv, WaitingInOrder, PhaseInv, Reading, Held
  <2>8. InPlace(stack', args.directory) /\ Ahead(stack') = Range(c) \cup Ahead(stack)
    BY <2>0, <2>1
  <2>9. SearchTypeInv'
    BY <2>1, <2>2, <2>3, <2>5 DEF SearchTypeInv, Walking
  <2>10. PhaseInv'
    BY <2>1, <2>3, <2>5, <2>7 DEF WalkInv, PhaseInv, Ended, Looks, Reading, Held
  <2>11. DepthInv'
    BY <2>1, <2>3, <2>8 DEF DepthInv, Looks
  <2>12. OrderInv'
    <3>1. \A x \in Ahead(stack) : Precedes(current, x)
      BY <2>6, <2>7, LeftPrecedes
    <3>2. \A x \in Range(c) : Precedes(current, x)
      BY <2>4, <2>6, ParentFacts, PathsArePaths, PrefixFacts
    <3>3. \A x \in Ahead(stack') : Precedes(current, x)
      BY <2>8, <3>1, <3>2
    <3>4. WaitingInOrder'
      BY <2>1, <3>3 DEF WaitingInOrder, Looks
    <3>5. FilesInOrder'
      BY <2>1 DEF WalkInv, OrderInv, FilesInOrder, Walking, Looks, Held
    <3> QED
      BY <2>1, <2>7, <3>4, <3>5, NothingMatched DEF OrderInv
  <2>13. CoverInv'
    <3>1. LeftOut = {} /\ Done = {}
      BY <2>1, <2>7 DEF LeftOut, Done, Walking
    <3>2. Searchable \cap Untouched \subseteq Awaited
      BY <2>1, <3>1 DEF WalkInv, CoverInv, Walking
    <3>3. Awaited = {p \in Paths : \/ \E x \in Ahead(stack) : IsPrefix(x, p)
                                   \/ IsStrictPrefix(current, p)
                                   \/ p \in Range(files)}
      BY <2>1 DEF Awaited, Held
    <3>4. {p \in Paths : (\E x \in Range(c) \cup Ahead(stack) : IsPrefix(x, p)) \/ p \in Range(files)}
             \subseteq Awaited'
      BY <2>1, <2>8 DEF Awaited
    <3>5. \A p \in Searchable : p \in Paths /\ tree[p] # "none"
      BY DEF Searchable, Reachable
    <3>6. Searchable \cap Awaited \subseteq Awaited'
      BY <2>4, <3>3, <3>4, <3>5
    <3>7. (Searchable \cap Untouched)' \subseteq Awaited'
      BY <2>3, <3>2, <3>6
    <3> QED
      BY <3>7 DEF CoverInv
  <2>14. QuietWalkInv'
    <3>1. ASSUME touched = {}, NEW x \in Range(c) PROVE tree[x] # "none" /\ x \in Visible
      <4>1. x \in Paths /\ x \in Path /\ x # <<>> /\ Front(x) = current /\ tree[x] # "none"
        BY <2>4, <3>1, PathsArePaths
      <4>2. ASSUME NEW q \in Paths, IsStrictPrefix(args.directory, q), IsStrictPrefix(q, x)
            PROVE  ~ Excluded(q)
        <5>1. q \in Path /\ IsPrefix(q, current)
          BY <4>1, <4>2, ParentFacts, PathsArePaths
        <5>2. current # args.directory
          <6>1. Len(args.directory) < Len(q) /\ Len(q) <= Len(current)
            BY <2>6, <4>2, <5>1, PrefixFacts, PrefixAt
          <6>2. Len(args.directory) \in Nat /\ Len(q) \in Nat /\ Len(current) \in Nat
            BY <2>6, <5>1, PathType
          <6> QED
            BY <6>1, <6>2
        <5>3. current \in Reachable(args.directory)
          BY <2>1, <3>1, <5>2 DEF WalkInv, QuietWalkInv
        <5> QED
          BY <4>2, <5>1, <5>3 DEF Reachable
      <4> QED
        BY <4>1, <4>2 DEF Visible
    <3> QED
      BY <2>1, <2>3, <2>8, <3>1 DEF WalkInv, QuietWalkInv, Walking, Looks, Reading, Held
  <2> QED
    BY <2>9, <2>10, <2>11, <2>12, <2>13, <2>14 DEF WalkInv
<1> QED
  BY <1>1, <1>2

(* The next child comes before all that waits. *)
LEMMA PickKeeps ==
    ASSUME WalkInv, NextChild, Head(stack) # <<>>
    PROVE  WalkInv'
<1> DEFINE x == Head(Head(stack))
           c == Tail(Head(stack))
<1>1. /\ pc = "next_child" /\ pc' = "is_symlink" /\ UNCHANGED <<treeVars, args>>
      /\ answer' = answer /\ current' = x /\ stack' = <<c>> \o Tail(stack)
      /\ files' = files /\ matches' = matches
      /\ output_bytes' = output_bytes /\ searched' = searched /\ skipped' = skipped
  BY DEF NextChild, Goto, foundVars
<1>2. /\ SearchTypeInv /\ stack \in Seq(Seq(Paths)) /\ stack # <<>> /\ answer = "none"
      /\ matches = <<>>
  BY <1>1 DEF WalkInv, SearchTypeInv, PhaseInv, Reading, Held
<1>3. /\ Head(stack) \in Seq(Paths) /\ Tail(stack) \in Seq(Seq(Paths))
      /\ Len(stack) \in Nat \ {0} /\ Len(Tail(stack)) = Len(stack) - 1
  BY <1>2, PopProperties
<1>4. c \in Seq(Paths) /\ x \in Paths
  BY <1>3, PopProperties
<1>5. stack' \in Seq(Seq(Paths)) /\ Len(stack') = Len(stack) /\ stack' # <<>>
  <2>1. stack' \in Seq(Seq(Paths)) /\ Len(stack') = Len(Tail(stack)) + 1
    BY <1>1, <1>3, <1>4, PushProperties
  <2>2. Len(stack') = Len(stack)
    BY <1>3, <2>1
  <2> QED
    BY <1>3, <2>1, <2>2, EmptySeq
<1>6. /\ TreeTypeOK' /\ args' = args /\ args' \in Requests /\ touched' = touched /\ tree' = tree
      /\ Searchable' = Searchable /\ Untouched' = Untouched /\ Visible' = Visible
      /\ (Invalid' <=> Invalid)
  BY <1>1, <1>2, SameTree
<1>7. /\ stack \in Seq(Seq(Path)) /\ args.directory \in Path /\ current \in Path
      /\ InPlace(stack, args.directory)
  BY <1>2, StackType, Arguments DEF WalkInv, DepthInv
<1>8. /\ InPlace(stack', args.directory) /\ Ahead(stack) = {x} \cup Ahead(stack')
      /\ \A y \in Ahead(stack') : LeftOf(x, y)
      /\ x \in Path /\ IsStrictPrefix(args.directory, x)
      /\ Len(x) = Len(args.directory) + Len(stack)
  <2>1. x = Head(Head(stack)) /\ stack' = <<Tail(Head(stack))>> \o Tail(stack)
    BY <1>1
  <2> HIDE DEF x, c
  <2> DEFINE new == <<Tail(Head(stack))>> \o Tail(stack)
  <2>2. /\ InPlace(new, args.directory) /\ Ahead(stack) = {x} \cup Ahead(new)
        /\ \A y \in Ahead(new) : LeftOf(x, y)
        /\ x \in Path /\ IsStrictPrefix(args.directory, x)
        /\ Len(x) = Len(args.directory) + Len(stack)
    BY <1>2, <1>7, <2>1, PickInWalk, Zenon
  <2> QED
    BY <2>1, <2>2
<1> HIDE DEF x, c
<1>9. SearchTypeInv'
  BY <1>1, <1>2, <1>4, <1>5, <1>6 DEF SearchTypeInv, Walking, Looks
<1>10. PhaseInv'
  BY <1>1, <1>2, <1>5, <1>6 DEF WalkInv, PhaseInv, Ended, Looks, Reading, Held
<1>11. DepthInv'
  BY <1>1, <1>5, <1>6, <1>8 DEF DepthInv
<1>12. OrderInv'
  <2>1. Precedes(current, x)
    BY <1>1, <1>8 DEF WalkInv, OrderInv, WaitingInOrder
  <2>2. ASSUME NEW k \in DOMAIN files PROVE Precedes(files[k], x)
    <3>1. files[k] \in Path
      BY <1>2, FilesType
    <3>2. files[k] = current \/ Precedes(files[k], current)
      BY <1>1 DEF WalkInv, OrderInv, FilesInOrder, Walking
    <3> QED
      BY <1>7, <1>8, <2>1, <3>1, <3>2, PrecedesTransitive
  <2>3. FilesInOrder'
    BY <1>1, <2>2 DEF WalkInv, OrderInv, FilesInOrder, Held
  <2>4. WaitingInOrder'
    BY <1>1, <1>8 DEF WaitingInOrder
  <2> QED
    BY <1>1, <1>2, <2>3, <2>4, NothingMatched DEF OrderInv
<1>13. CoverInv'
  <2>1. LeftOut = {} /\ Done = {}
    BY <1>1, <1>2 DEF LeftOut, Done, Walking
  <2>2. Searchable \cap Untouched \subseteq Awaited
    BY <1>1, <2>1 DEF WalkInv, CoverInv, Walking
  <2>3. Awaited = {p \in Paths : (\E y \in Ahead(stack) : IsPrefix(y, p)) \/ p \in Range(files)}
    BY <1>1 DEF Awaited, Held
  <2>4. Awaited \subseteq Awaited'
    BY <1>1, <1>8, <2>3 DEF Awaited
  <2>5. (Searchable \cap Untouched)' \subseteq Awaited'
    BY <1>6, <2>2, <2>4
  <2> QED
    BY <2>5 DEF CoverInv
<1>14. QuietWalkInv'
  <2>1. touched = {} => tree[x] # "none" /\ x \in Visible
    BY <1>8 DEF WalkInv, QuietWalkInv
  <2> QED
    BY <1>1, <1>6, <1>8, <2>1 DEF WalkInv, QuietWalkInv, Walking, Looks, Reading, Held
<1> QED
  BY <1>9, <1>10, <1>11, <1>12, <1>13, <1>14 DEF WalkInv

(* A directory was walked to its end; with the last one, the walk has found its files. *)
LEMMA LeaveKeeps ==
    ASSUME WalkInv, NextChild, Head(stack) = <<>>
    PROVE  WalkInv'
<1>1. /\ pc = "next_child" /\ pc' = IF Len(stack) = 1 THEN "next_file" ELSE "next_child"
      /\ UNCHANGED <<treeVars, args>>
      /\ answer' = answer /\ current' = current /\ stack' = Tail(stack)
      /\ files' = files /\ matches' = matches
      /\ output_bytes' = output_bytes /\ searched' = searched /\ skipped' = skipped
  BY DEF NextChild, Goto, foundVars
<1>2. /\ SearchTypeInv /\ stack \in Seq(Seq(Paths)) /\ stack # <<>> /\ answer = "none"
      /\ matches = <<>> /\ ~ Invalid
  BY <1>1 DEF WalkInv, SearchTypeInv, PhaseInv, Reading, Held
<1>3. /\ Tail(stack) \in Seq(Seq(Paths)) /\ Len(stack) \in Nat \ {0}
      /\ Len(Tail(stack)) = Len(stack) - 1
  BY <1>2, PopProperties
<1>4. /\ TreeTypeOK' /\ args' = args /\ args' \in Requests /\ touched' = touched /\ tree' = tree
      /\ Searchable' = Searchable /\ Untouched' = Untouched /\ Visible' = Visible
      /\ (Invalid' <=> Invalid)
  BY <1>1, <1>2, SameTree
<1>5. stack \in Seq(Seq(Path)) /\ args.directory \in Path /\ InPlace(stack, args.directory)
  BY <1>2, StackType, Arguments DEF WalkInv, DepthInv
<1>6. InPlace(stack', args.directory) /\ Ahead(stack') = Ahead(stack)
  <2>1. Range(Head(stack)) = {}
    BY DEF Range
  <2>2. InPlace(Tail(stack), args.directory) /\ Ahead(stack) = Range(Head(stack)) \cup Ahead(Tail(stack))
    BY <1>2, <1>5, LeaveWalk, Zenon
  <2> QED
    BY <1>1, <2>1, <2>2
<1>7. (pc' = "next_file" <=> stack' = <<>>) /\ pc' \in {"next_child", "next_file"}
  <2>1. stack' \in Seq(Seq(Paths)) /\ Len(stack') = Len(stack) - 1
    BY <1>1, <1>3
  <2>2. stack' = <<>> <=> Len(stack') = 0
    BY <2>1, EmptySeq
  <2>3. Len(stack) = 1 <=> Len(stack') = 0
    BY <1>3, <2>1
  <2> QED
    BY <1>1, <2>2, <2>3
<1>8. SearchTypeInv'
  BY <1>1, <1>2, <1>3, <1>4, <1>7 DEF SearchTypeInv, Walking, Reading
<1>9. PhaseInv'
  BY <1>1, <1>2, <1>4, <1>7 DEF WalkInv, PhaseInv, Ended, Looks, Reading, Held
<1>10. DepthInv'
  BY <1>1, <1>4, <1>6, <1>7 DEF DepthInv, Looks
<1>11. OrderInv'
  <2>1. WaitingInOrder'
    BY <1>1, <1>6, <1>7 DEF WalkInv, OrderInv, WaitingInOrder, Looks
  <2>2. FilesInOrder'
    BY <1>1, <1>7 DEF WalkInv, OrderInv, FilesInOrder, Walking, Looks, Held
  <2> QED
    BY <1>1, <1>2, <2>1, <2>2, NothingMatched DEF OrderInv
<1>12. CoverInv'
  <2>1. LeftOut = {} /\ Done = {}
    BY <1>1, <1>2 DEF LeftOut, Done, Walking
  <2>2. Searchable \cap Untouched \subseteq Awaited
    BY <1>1, <2>1 DEF WalkInv, CoverInv, Walking
  <2>3. Awaited = {p \in Paths : (\E y \in Ahead(stack) : IsPrefix(y, p)) \/ p \in Range(files)}
    BY <1>1 DEF Awaited, Held
  <2>4. Awaited \subseteq Awaited'
    BY <1>1, <1>6, <1>7, <2>3 DEF Awaited
  <2>5. (Searchable \cap Untouched)' \subseteq Awaited'
    BY <1>4, <2>2, <2>4
  <2> QED
    BY <2>5 DEF CoverInv
<1>13. QuietWalkInv'
  BY <1>1, <1>4, <1>6, <1>7 DEF WalkInv, QuietWalkInv, Walking, Looks, Reading, Held
<1> QED
  BY <1>8, <1>9, <1>10, <1>11, <1>12, <1>13 DEF WalkInv

(* Only a directory has something below it. *)
LEMMA NothingBelow ==
    ASSUME SearchTypeInv, tree[current] # "directory"
    PROVE  \A p \in Searchable : IsPrefix(current, p) => p = current
<1>1. TreeTypeOK /\ current \in Path
  BY Arguments DEF SearchTypeInv
<1> QED
  BY <1>1, TheWayThere DEF Searchable, Reachable

(* A look at a child that leads to another look at it. *)
LEMMA LookKeeps ==
    ASSUME WalkInv, NEW from \in Looks, NEW to \in Looks, Step(from, to),
           to \in {"is_symlink", "is_directory"} => from \in {"is_symlink", "is_directory"},
           to \in {"is_file", "resolve_child"} /\ from \notin {"is_file", "resolve_child"} =>
               \A p \in Searchable : IsPrefix(current, p) => p = current,
           to = "is_file" => tree[current] # "directory",
           to = "resolve_child" => tree[current] \in Files
    PROVE  WalkInv'
<1>1. /\ pc = from /\ pc' = to /\ UNCHANGED <<treeVars, args>> /\ answer' = answer
      /\ stack' = stack /\ current' = current /\ files' = files /\ matches' = matches
      /\ output_bytes' = output_bytes /\ searched' = searched /\ skipped' = skipped
  BY DEF Step, Goto, walkVars, foundVars
<1>2. /\ SearchTypeInv /\ pc \in Looks /\ pc' \in Looks /\ answer = "none" /\ matches = <<>>
      /\ stack # <<>> /\ ~ Invalid /\ searched = 0 /\ skipped = 0
  BY <1>1 DEF WalkInv, PhaseInv, Looks, Reading, Held
<1>3. /\ TreeTypeOK' /\ args' = args /\ args' \in Requests /\ touched' = touched /\ tree' = tree
      /\ Searchable' = Searchable /\ Untouched' = Untouched /\ Visible' = Visible
      /\ (Invalid' <=> Invalid)
  BY <1>1, <1>2, SameTree
<1>4. /\ pc' \in Walking /\ pc \in Walking
      /\ pc' \notin {"call", "resolve", "check_directory", "done", "open", "next_child"}
      /\ pc' \notin Reading /\ pc' \notin Held
      /\ pc \notin {"done", "open", "next_child"} /\ pc \notin Held
  BY <1>2 DEF Walking, Looks, Reading, Held
<1>5. SearchTypeInv'
  BY <1>1, <1>2, <1>3, <1>4 DEF SearchTypeInv
<1>6. PhaseInv'
  BY <1>1, <1>2, <1>3, <1>4 DEF PhaseInv, Ended
<1>7. DepthInv'
  BY <1>1, <1>2, <1>3, <1>4 DEF WalkInv, DepthInv
<1>8. OrderInv'
  <2>1. WaitingInOrder'
    BY <1>1, <1>2, <1>4 DEF WalkInv, OrderInv, WaitingInOrder
  <2>2. FilesInOrder'
    BY <1>1, <1>2, <1>4 DEF WalkInv, OrderInv, FilesInOrder
  <2> QED
    BY <1>1, <1>2, <2>1, <2>2, NothingMatched DEF OrderInv
<1>9. CoverInv'
  <2>1. LeftOut = {} /\ Done = {}
    BY <1>2, <1>4 DEF LeftOut, Done
  <2>2. Searchable \cap Untouched \subseteq Awaited
    BY <1>4, <2>1 DEF WalkInv, CoverInv
  <2>3. Searchable \cap Awaited \subseteq Awaited'
    <3>1. ASSUME NEW p \in Searchable, p \in Awaited PROVE p \in Awaited'
      <4>1. p \in Paths
        BY <3>1 DEF Awaited
      <4>2. CASE (\E x \in Ahead(stack) : IsPrefix(x, p)) \/ p \in Range(files)
        BY <1>1, <1>4, <4>1, <4>2 DEF Awaited
      <4>3. CASE pc \in {"is_symlink", "is_directory"} /\ IsPrefix(current, p)
        BY <1>1, <1>2, <4>1, <4>3 DEF Awaited, Looks
      <4>4. CASE pc \in {"is_file", "resolve_child"} /\ p = current
        BY <1>1, <1>2, <4>1, <4>4 DEF Awaited, Looks
      <4> QED
        BY <1>2, <1>4, <3>1, <4>2, <4>3, <4>4 DEF Awaited
    <3> QED
      BY <3>1
  <2>4. (Searchable \cap Untouched)' \subseteq Awaited'
    BY <1>3, <2>2, <2>3
  <2> QED
    BY <2>4 DEF CoverInv
<1>10. QuietWalkInv'
  BY <1>1, <1>2, <1>3, <1>4 DEF WalkInv, QuietWalkInv
<1> QED
  BY <1>5, <1>6, <1>7, <1>8, <1>9, <1>10 DEF WalkInv

(* A child is left behind: what is to be searched at or below it is among the files. *)
LEMMA PassedKeeps ==
    ASSUME WalkInv, NEW from \in Looks, Goto(from, "next_child"),
           UNCHANGED <<stack, current, foundVars, answer>>,
           files' = files \/ files' = Append(files, current),
           files' # files /\ touched = {} => current \in Searchable,
           \A p \in Searchable :
               IsPrefix(current, p) /\ (from \in {"is_file", "resolve_child"} => p = current)
                   => p \in Range(files')
    PROVE  WalkInv'
<1>1. /\ pc = from /\ pc' = "next_child" /\ UNCHANGED <<treeVars, args>> /\ answer' = answer
      /\ stack' = stack /\ current' = current /\ matches' = matches
      /\ output_bytes' = output_bytes /\ searched' = searched /\ skipped' = skipped
  BY DEF Goto, foundVars
<1>2. /\ SearchTypeInv /\ pc \in Looks /\ answer = "none" /\ matches = <<>>
      /\ stack # <<>> /\ ~ Invalid /\ searched = 0 /\ skipped = 0
  BY <1>1 DEF WalkInv, PhaseInv, Looks, Reading, Held
<1>3. /\ TreeTypeOK' /\ args' = args /\ args' \in Requests /\ touched' = touched /\ tree' = tree
      /\ Searchable' = Searchable /\ Untouched' = Untouched /\ Visible' = Visible
      /\ (Invalid' <=> Invalid)
  BY <1>1, <1>2, SameTree
<1>4. /\ pc \in Walking /\ pc \notin {"done", "open", "next_child"} /\ pc \notin Held
  BY <1>2 DEF Walking, Looks, Reading, Held
<1>5. /\ Ahead(stack) \subseteq Path /\ current \in Path /\ current \in Paths
      /\ files \in Seq(Path) /\ Len(files) \in Nat /\ DOMAIN files = 1..Len(files)
      /\ files \in Seq(Paths)
  BY <1>2, StackType, Arguments, FilesType DEF SearchTypeInv
<1>6. /\ Rising(files) /\ \A k \in DOMAIN files : Precedes(files[k], current)
      /\ \A x \in Ahead(stack) : LeftOf(current, x)
  BY <1>2 DEF WalkInv, OrderInv, FilesInOrder, WaitingInOrder
<1>7. /\ files' \in Seq(Paths) /\ Rising(files')
      /\ \A k \in DOMAIN files' : files'[k] = current \/ Precedes(files'[k], current)
      /\ Range(files) \subseteq Range(files')
      /\ touched = {} /\ Range(files) \subseteq Searchable => Range(files') \subseteq Searchable
  <2>1. CASE files' = files
    BY <1>5, <1>6, <2>1
  <2>2. CASE files' = Append(files, current) /\ files' # files
    <3>1. /\ files' \in Seq(Paths) /\ Len(files') = Len(files) + 1
          /\ \A k \in 1..Len(files) : files'[k] = files[k]
          /\ files'[Len(files) + 1] = current
      <4> DEFINE new == Append(files, current)
      <4>1. files \in Seq(Paths) /\ current \in Paths
        BY <1>5
      <4>2. /\ new \in Seq(Paths) /\ Len(new) = Len(files) + 1
            /\ \A k \in 1..Len(files) : new[k] = files[k]
            /\ new[Len(files) + 1] = current
        BY <4>1, AppendProperties
      <4> HIDE DEF new
      <4>3. files' = new
        BY <2>2 DEF new
      <4> QED
        BY <4>2, <4>3
    <3>2. Rising(files')
      BY <1>5, <1>6, <2>2, RisingAppend
    <3>3. DOMAIN files' = 1..(Len(files) + 1)
      BY <3>1, LenProperties
    <3>4. \A k \in DOMAIN files' : k = Len(files) + 1 \/ k \in DOMAIN files
      BY <1>5, <3>3
    <3>5. \A k \in DOMAIN files' : files'[k] = current \/ (k \in DOMAIN files /\ files'[k] = files[k])
      BY <1>5, <3>1, <3>4
    <3>6. Range(files) \subseteq Range(files')
      BY <1>5, <3>1, <3>3 DEF Range
    <3> QED
      BY <1>6, <2>2, <3>1, <3>2, <3>5, <3>6 DEF Range
  <2> QED
    BY <2>1, <2>2
<1>8. SearchTypeInv'
  BY <1>1, <1>2, <1>3, <1>7 DEF SearchTypeInv, Walking
<1>9. PhaseInv'
  BY <1>1, <1>2, <1>3 DEF PhaseInv, Ended, Looks, Reading, Held
<1>10. DepthInv'
  BY <1>1, <1>3 DEF WalkInv, DepthInv, Looks
<1>11. OrderInv'
  <2>1. \A x \in Ahead(stack) : Precedes(current, x)
    BY <1>5, <1>6, LeftPrecedes
  <2>2. WaitingInOrder'
    BY <1>1, <2>1 DEF WaitingInOrder, Looks
  <2>3. FilesInOrder'
    BY <1>1, <1>7 DEF FilesInOrder, Looks, Held
  <2> QED
    BY <1>1, <1>2, <2>2, <2>3, NothingMatched DEF OrderInv
<1>12. CoverInv'
  <2>1. LeftOut = {} /\ Done = {}
    BY <1>2, <1>4 DEF LeftOut, Done
  <2>2. Searchable \cap Untouched \subseteq Awaited
    BY <1>4, <2>1 DEF WalkInv, CoverInv
  <2>3. ASSUME NEW p \in Searchable, p \in Awaited PROVE p \in Awaited'
    <3>1. p \in Paths /\ IsPrefix(current, current)
      BY <1>5, <2>3, PrefixFacts DEF Awaited
    <3>2. CASE \E x \in Ahead(stack) : IsPrefix(x, p)
      BY <1>1, <3>1, <3>2 DEF Awaited
    <3>3. CASE p \in Range(files')
      BY <1>1, <3>1, <3>3 DEF Awaited
    <3>4. CASE pc \in {"is_symlink", "is_directory"} /\ IsPrefix(current, p)
      BY <1>1, <3>3, <3>4
    <3>5. CASE pc \in {"is_file", "resolve_child"} /\ p = current
      BY <1>1, <3>1, <3>3, <3>5
    <3> QED
      BY <1>2, <1>4, <1>7, <2>3, <3>2, <3>3, <3>4, <3>5 DEF Awaited
  <2>4. (Searchable \cap Untouched)' \subseteq Awaited'
    BY <1>3, <2>2, <2>3
  <2> QED
    BY <2>4 DEF CoverInv
<1>13. QuietWalkInv'
  <2>1. touched = {} => Range(files') \subseteq Searchable
    BY <1>4, <1>7 DEF WalkInv, QuietWalkInv
  <2> QED
    BY <1>1, <1>2, <1>3, <1>4, <2>1 DEF WalkInv, QuietWalkInv, Walking, Looks, Reading, Held
<1> QED
  BY <1>8, <1>9, <1>10, <1>11, <1>12, <1>13 DEF WalkInv

LEMMA IsSymlinkKeeps ==
    ASSUME WalkInv, IsSymlink
    PROVE  WalkInv'
<1>1. SearchTypeInv
  BY DEF WalkInv
<1>2. CASE tree[current] = "symlink"
  <2>1. /\ Goto("is_symlink", "next_child") /\ files' = files
        /\ UNCHANGED <<stack, current, foundVars, answer>>
    BY <1>2 DEF IsSymlink, Step, walkVars
  <2>2. \A p \in Searchable : ~ IsPrefix(current, p)
    <3>1. tree[current] # "directory" /\ tree[current] \notin Files
      BY <1>2, PathsAssumption
    <3> QED
      BY <1>1, <3>1, NothingBelow DEF Searchable
  <2> QED
    BY <2>1, <2>2, PassedKeeps DEF Looks
<1>3. CASE tree[current] # "symlink"
  <2>1. Step("is_symlink", "is_directory")
    BY <1>3 DEF IsSymlink
  <2> QED
    BY <2>1, LookKeeps DEF Looks
<1> QED
  BY <1>2, <1>3

LEMMA IsFileKeeps ==
    ASSUME WalkInv, IsFile
    PROVE  WalkInv'
<1>1. CASE tree[current] \in Files
  <2>1. Step("is_file", "resolve_child")
    BY <1>1 DEF IsFile
  <2> QED
    BY <1>1, <2>1, LookKeeps DEF Looks
<1>2. CASE tree[current] \notin Files
  <2>1. /\ Goto("is_file", "next_child") /\ files' = files
        /\ UNCHANGED <<stack, current, foundVars, answer>>
    BY <1>2 DEF IsFile, Step, walkVars
  <2>2. \A p \in Searchable : p # current
    BY <1>2 DEF Searchable
  <2> QED
    BY <2>1, <2>2, PassedKeeps DEF Looks
<1> QED
  BY <1>1, <1>2

(* Of a child that is there, as long as nothing changes. *)
LEMMA QuietChild ==
    ASSUME WalkInv, pc \in Looks, touched = {}, ~ Excluded(current)
    PROVE  current \in Reachable(args.directory)
<1>1. SearchTypeInv /\ IsStrictPrefix(args.directory, current)
      /\ tree[current] # "none" /\ current \in Visible
  BY DEF WalkInv, DepthInv, QuietWalkInv
<1>2. current \in Paths /\ current \in Path
  BY <1>1, Arguments DEF SearchTypeInv
<1>3. ASSUME NEW q \in Paths, IsStrictPrefix(args.directory, q), IsPrefix(q, current)
      PROVE  ~ Excluded(q)
  <2>1. q = current \/ IsStrictPrefix(q, current)
    BY <1>2, <1>3, PathsArePaths, PrefixFacts
  <2> QED
    BY <1>1, <1>3, <2>1 DEF Visible
<1> QED
  BY <1>1, <1>2, <1>3 DEF Reachable

LEMMA ResolveChildKeeps ==
    ASSUME WalkInv, ResolveChild
    PROVE  WalkInv'
<1>1. CASE tree[current] = "none"
  BY <1>1, EndKeeps DEF ResolveChild
<1>2. CASE tree[current] # "none"
  <2>1. /\ Goto("resolve_child", "next_child") /\ pc = "resolve_child"
        /\ UNCHANGED <<stack, current, foundVars, answer>>
        /\ files' = IF current \in args.glob THEN Append(files, current) ELSE files
    BY <1>2 DEF ResolveChild, Goto
  <2>2. SearchTypeInv /\ pc \in Looks
    BY <2>1 DEF WalkInv, Looks
  <2>3. touched = {} /\ current \in args.glob => current \in Searchable
    <3>1. SUFFICES ASSUME touched = {}, current \in args.glob PROVE current \in Searchable
      OBVIOUS
    <3>2. tree[current] \in Files
      BY <2>1, <3>1 DEF WalkInv, QuietWalkInv
    <3>3. ~ Excluded(current)
      BY <3>2, PathsAssumption DEF Excluded
    <3>4. current \in Reachable(args.directory)
      BY <2>2, <3>1, <3>3, QuietChild
    <3> QED
      BY <3>1, <3>2, <3>4 DEF Searchable
  <2>4. current \in args.glob => current \in Range(files')
    <3>1. files \in Seq(Paths) /\ current \in Paths
      BY <2>2 DEF SearchTypeInv
    <3>2. current \in args.glob => /\ files' \in Seq(Paths) /\ Len(files') = Len(files) + 1
                                   /\ files'[Len(files) + 1] = current
      BY <2>1, <3>1, AppendProperties
    <3>3. Len(files) \in Nat /\ (files' \in Seq(Paths) => DOMAIN files' = 1..Len(files'))
      BY <3>1, LenProperties
    <3>4. current \in args.glob => Len(files) + 1 \in DOMAIN files'
      BY <3>2, <3>3
    <3> QED
      BY <3>2, <3>4 DEF Range
  <2>5. \A p \in Searchable : p = current => p \in Range(files')
    BY <2>4 DEF Searchable
  <2>6. files' = files \/ files' = Append(files, current)
    BY <2>1
  <2>7. files' # files /\ touched = {} => current \in Searchable
    BY <2>1, <2>3
  <2>8. "resolve_child" \in Looks
    BY DEF Looks
  <2> QED
    BY <2>1, <2>5, <2>6, <2>7, <2>8, PassedKeeps
<1> QED
  BY <1>1, <1>2

(* A directory is walked next, unless it is excluded: then nothing below it is to be searched. *)
LEMMA IsDirectoryKeeps ==
    ASSUME WalkInv, IsDirectory
    PROVE  WalkInv'
<1>1. /\ pc = "is_directory" /\ SearchTypeInv /\ pc \in Looks /\ answer = "none" /\ matches = <<>>
      /\ stack # <<>> /\ ~ Invalid /\ searched = 0 /\ skipped = 0
  BY DEF IsDirectory, WalkInv, PhaseInv, Looks, Reading, Held
<1>2. CASE tree[current] # "directory"
  <2>1. Step("is_directory", "is_file")
    BY <1>2 DEF IsDirectory
  <2> QED
    BY <1>1, <1>2, <2>1, NothingBelow, LookKeeps DEF Looks
<1>3. CASE tree[current] = "directory" /\ Name(current) \in ExcludedNames
  <2>1. /\ Goto("is_directory", "next_child") /\ files' = files
        /\ UNCHANGED <<stack, current, foundVars, answer>>
    BY <1>3 DEF IsDirectory, Step, walkVars
  <2>2. Excluded(current) /\ IsStrictPrefix(args.directory, current) /\ current \in Paths
    BY <1>1, <1>3 DEF WalkInv, DepthInv, Excluded, SearchTypeInv
  <2>3. \A p \in Searchable : ~ IsPrefix(current, p)
    BY <2>2 DEF Searchable, Reachable
  <2> QED
    BY <2>1, <2>3, PassedKeeps DEF Looks
<1>4. CASE tree[current] = "directory" /\ Name(current) \notin ExcludedNames
  <2>1. /\ pc' = "open" /\ UNCHANGED <<treeVars, args>> /\ answer' = answer
        /\ stack' = stack /\ current' = current /\ files' = files /\ matches' = matches
        /\ output_bytes' = output_bytes /\ searched' = searched /\ skipped' = skipped
    BY <1>4 DEF IsDirectory, Step, Goto, walkVars, foundVars
  <2>2. /\ TreeTypeOK' /\ args' = args /\ args' \in Requests /\ touched' = touched /\ tree' = tree
        /\ Searchable' = Searchable /\ Untouched' = Untouched /\ Visible' = Visible
        /\ Reachable(args.directory)' = Reachable(args.directory)
        /\ (Invalid' <=> Invalid)
    BY <1>1, <2>1, SameTree
  <2>3. current \in Path /\ current \in Paths /\ args.directory \in Path
    BY <1>1, Arguments DEF SearchTypeInv
  <2>4. SearchTypeInv'
    BY <1>1, <2>1, <2>2 DEF SearchTypeInv, Walking
  <2>5. PhaseInv'
    BY <1>1, <2>1, <2>2 DEF PhaseInv, Ended, Looks, Reading, Held
  <2>6. DepthInv'
    <3>1. /\ InPlace(stack, args.directory) /\ IsStrictPrefix(args.directory, current)
          /\ Len(current) = Len(args.directory) + Len(stack)
      BY <1>1 DEF WalkInv, DepthInv
    <3>2. IsPrefix(args.directory, current)
      BY <2>3, <3>1, PrefixFacts
    <3> QED
      BY <2>1, <2>2, <3>1, <3>2 DEF DepthInv, Looks
  <2>7. OrderInv'
    <3>1. WaitingInOrder'
      BY <1>1, <2>1 DEF WalkInv, OrderInv, WaitingInOrder
    <3>2. FilesInOrder'
      BY <1>1, <2>1 DEF WalkInv, OrderInv, FilesInOrder, Walking, Looks, Held
    <3> QED
      BY <1>1, <2>1, <3>1, <3>2, NothingMatched DEF OrderInv
  <2>8. CoverInv'
    <3>1. LeftOut = {} /\ Done = {}
      BY <1>1 DEF LeftOut, Done, Walking
    <3>2. Searchable \cap Untouched \subseteq Awaited
      BY <1>1, <3>1 DEF WalkInv, CoverInv, Walking
    <3>3. ASSUME NEW p \in Searchable, p \in Awaited PROVE p \in Awaited'
      <4>1. p \in Paths /\ p \in Path
        BY <3>3, PathsArePaths DEF Awaited
      <4>2. \/ \E x \in Ahead(stack) : IsPrefix(x, p)
            \/ IsPrefix(current, p)
            \/ p \in Range(files)
        BY <1>1, <3>3 DEF Awaited, Held
      <4>3. p # current
        BY <1>4, PathsAssumption DEF Searchable
      <4>4. IsPrefix(current, p) => IsStrictPrefix(current, p)
        BY <2>3, <4>1, <4>3, PrefixFacts
      <4> QED
        BY <2>1, <4>1, <4>2, <4>4 DEF Awaited
    <3>4. (Searchable \cap Untouched)' \subseteq Awaited'
      BY <2>2, <3>2, <3>3
    <3> QED
      BY <3>4 DEF CoverInv
  <2>9. QuietWalkInv'
    <3>1. touched = {} => current \in Reachable(args.directory)
      BY <1>1, <1>4, QuietChild DEF Excluded
    <3> QED
      BY <1>1, <1>4, <2>1, <2>2, <3>1 DEF WalkInv, QuietWalkInv, Walking, Looks, Reading, Held
  <2> QED
    BY <2>4, <2>5, <2>6, <2>7, <2>8, <2>9 DEF WalkInv
<1> QED
  BY <1>2, <1>3, <1>4

-----------------------------------------------------------------------------
(* The first of a sequence, and the rest.                                  *)

LEMMA FirstAndRest ==
    ASSUME NEW S, NEW s \in Seq(S), s # <<>>
    PROVE  Range(s) = {Head(s)} \cup Range(Tail(s))
<1>1. /\ Head(s) = s[1] /\ Len(s) \in Nat \ {0} /\ Tail(s) \in Seq(S)
      /\ DOMAIN Tail(s) = 1..(Len(s) - 1) /\ DOMAIN s = 1..Len(s)
      /\ \A i \in 1..(Len(s) - 1) : Tail(s)[i] = s[i + 1]
  BY PopProperties
<1>2. \A k \in DOMAIN s : k = 1 \/ (k - 1 \in DOMAIN Tail(s) /\ (k - 1) + 1 = k)
  BY <1>1
<1>3. Range(s) \subseteq {Head(s)} \cup Range(Tail(s))
  <2>1. ASSUME NEW k \in DOMAIN s PROVE s[k] \in {Head(s)} \cup Range(Tail(s))
    BY <1>1, <1>2 DEF Range
  <2> QED
    BY <2>1 DEF Range
<1>4. Head(s) \in Range(s)
  <2>1. 1 \in DOMAIN s
    BY <1>1
  <2> QED
    BY <1>1, <2>1 DEF Range
<1>5. Range(Tail(s)) \subseteq Range(s)
  <2>1. ASSUME NEW k \in DOMAIN Tail(s) PROVE Tail(s)[k] \in Range(s)
    <3>1. k + 1 \in DOMAIN s /\ Tail(s)[k] = s[k + 1]
      BY <1>1
    <3> QED
      BY <3>1 DEF Range
  <2> QED
    BY <2>1 DEF Range
<1> QED
  BY <1>3, <1>4, <1>5

LEMMA RisingRest ==
    ASSUME NEW s \in Seq(Path), s # <<>>, Rising(s)
    PROVE  Rising(Tail(s)) /\ \A k \in DOMAIN Tail(s) : Precedes(Head(s), Tail(s)[k])
<1>1. /\ Head(s) = s[1] /\ Len(s) \in Nat \ {0} /\ Len(Tail(s)) = Len(s) - 1
      /\ DOMAIN Tail(s) = 1..(Len(s) - 1)
      /\ \A i \in 1..(Len(s) - 1) : Tail(s)[i] = s[i + 1]
  BY PopProperties
<1>2. \A m, n \in 1..Len(s) : m < n => Precedes(s[m], s[n])
  BY DEF Rising
<1>3. ASSUME NEW m \in 1..Len(Tail(s)), NEW n \in 1..Len(Tail(s)), m < n
      PROVE  Precedes(Tail(s)[m], Tail(s)[n])
  <2>1. m + 1 \in 1..Len(s) /\ n + 1 \in 1..Len(s) /\ m + 1 < n + 1
        /\ m \in 1..(Len(s) - 1) /\ n \in 1..(Len(s) - 1)
    BY <1>1, <1>3
  <2> QED
    BY <1>1, <1>2, <2>1
<1>4. ASSUME NEW k \in DOMAIN Tail(s) PROVE Precedes(Head(s), Tail(s)[k])
  <2>1. k + 1 \in 1..Len(s) /\ 1 \in 1..Len(s) /\ 1 < k + 1 /\ k \in 1..(Len(s) - 1)
    BY <1>1
  <2> QED
    BY <1>1, <1>2, <2>1
<1> QED
  BY <1>3, <1>4 DEF Rising

LEMMA Remainder ==
    ASSUME NEW S, NEW s \in Seq(S), NEW m \in 1..(Len(s) + 1)
    PROVE  LET r == SubSeq(s, m, Len(s))
           IN /\ r = <<>> <=> m = Len(s) + 1
              /\ r # <<>> => m <= Len(s) /\ Head(r) = s[m] /\ Tail(r) = SubSeq(s, m + 1, Len(s))
<1> DEFINE r == SubSeq(s, m, Len(s))
           t == SubSeq(s, m + 1, Len(s))
<1>1. Len(s) \in Nat /\ \A i \in 1..Len(s) : s[i] \in S
  BY LenProperties, ElementOfSeq
<1>2. m \in Int /\ Len(s) \in Int /\ m + 1 \in Int /\ (\A i \in m..Len(s) : s[i] \in S)
      /\ (\A i \in (m + 1)..Len(s) : s[i] \in S)
  BY <1>1
<1>3. /\ r \in Seq(S) /\ Len(r) = IF m <= Len(s) THEN Len(s) - m + 1 ELSE 0
      /\ \A i \in 1..(Len(s) - m + 1) : r[i] = s[m + i - 1]
  BY <1>2, SubSeqProperties
<1>4. /\ t \in Seq(S) /\ Len(t) = IF m + 1 <= Len(s) THEN Len(s) - (m + 1) + 1 ELSE 0
      /\ \A i \in 1..(Len(s) - (m + 1) + 1) : t[i] = s[(m + 1) + i - 1]
  BY <1>2, SubSeqProperties
<1> HIDE DEF r, t
<1>5. r = <<>> <=> m = Len(s) + 1
  <2>1. r = <<>> <=> Len(r) = 0
    BY <1>3, EmptySeq
  <2> QED
    BY <1>1, <1>3, <2>1
<1>6. ASSUME r # <<>> PROVE m <= Len(s) /\ Head(r) = s[m] /\ Tail(r) = t
  <2>1. m <= Len(s) /\ Len(r) = Len(s) - m + 1
    BY <1>1, <1>3, <1>5, <1>6
  <2>2. /\ Head(r) = r[1] /\ Tail(r) \in Seq(S) /\ Len(Tail(r)) = Len(r) - 1
        /\ \A i \in 1..(Len(r) - 1) : Tail(r)[i] = r[i + 1]
    BY <1>3, <1>6, PopProperties
  <2>3. Head(r) = s[m]
    <3>1. 1 \in 1..(Len(s) - m + 1) /\ m + 1 - 1 = m
      BY <1>1, <2>1
    <3> QED
      BY <1>3, <2>2, <3>1
  <2>4. Len(Tail(r)) = Len(t)
    <3>1. Len(Tail(r)) = Len(s) - m
      BY <1>1, <2>1, <2>2
    <3>2. CASE m + 1 <= Len(s)
      BY <1>1, <1>4, <3>1, <3>2
    <3>3. CASE ~ (m + 1 <= Len(s))
      <4>1. Len(t) = 0
        BY <1>4, <3>3
      <4>2. m \in Nat /\ m <= Len(s) /\ ~ (m + 1 <= Len(s))
        BY <1>1, <2>1, <3>3
      <4>3. Len(s) - m = 0
        BY <1>1, <4>2
      <4> QED
        BY <3>1, <4>1, <4>3
    <3> QED
      BY <3>2, <3>3
  <2>5. ASSUME NEW i \in 1..Len(t) PROVE Tail(r)[i] = t[i]
    <3>1. /\ i \in 1..(Len(r) - 1) /\ i + 1 \in 1..(Len(s) - m + 1)
          /\ i \in 1..(Len(s) - (m + 1) + 1) /\ m + (i + 1) - 1 = (m + 1) + i - 1
      BY <1>1, <1>4, <2>1
    <3> QED
      BY <1>3, <1>4, <2>2, <3>1
  <2>6. Tail(r) = t
    BY <1>4, <2>2, <2>4, <2>5, SeqEqual
  <2> QED
    BY <2>1, <2>3, <2>6
<1> QED
  BY <1>5, <1>6 DEF r, t

-----------------------------------------------------------------------------
(* The steps of the reading keep the invariant of the walk.                *)

(* What there is to search, and to find. *)
LEMMA SearchableFacts ==
    ASSUME SearchTypeInv
    PROVE  /\ Searchable \subseteq Paths /\ Searchable \subseteq Path /\ IsFiniteSet(Searchable)
           /\ \A p \in Searchable : /\ tree[p] \in Files /\ tree[p] # "none" /\ tree[p] # "directory"
                                    /\ Content[tree[p]].sizes \in Seq(Nat)
           /\ \A p \in Searchable : MatchesIn(p) \in Seq(Match)
           /\ touched = {} => Untouched = Paths
<1>1. Searchable \subseteq Paths /\ Searchable \subseteq {p \in Paths : tree[p] # "none"}
  BY DEF Searchable, Reachable
<1>2. IsFiniteSet({p \in Paths : tree[p] # "none"})
  BY DEF SearchTypeInv, TreeTypeOK, IsTree
<1>3. Searchable \subseteq Path /\ IsFiniteSet(Searchable)
  BY <1>1, <1>2, FS_Subset, PathsArePaths
<1>4. ASSUME NEW p \in Searchable
      PROVE  /\ tree[p] \in Files /\ tree[p] # "none" /\ tree[p] # "directory"
             /\ Content[tree[p]].sizes \in Seq(Nat)
  BY SearchAssumption, PathsAssumption DEF Searchable
<1>5. ASSUME NEW p \in Searchable PROVE MatchesIn(p) \in Seq(Match)
  <2> DEFINE sizes == Content[tree[p]].sizes
             found == [i \in DOMAIN sizes |-> <<p, tree[p], i>>]
  <2>1. Len(sizes) \in Nat /\ DOMAIN sizes = 1..Len(sizes)
    BY <1>4, LenProperties
  <2>2. \A i \in 1..Len(sizes) : <<p, tree[p], i>> \in Match
    BY <1>1, <1>4, <2>1 DEF Match
  <2>3. found \in [1..Len(sizes) -> Match]
    BY <2>1, <2>2
  <2>4. found \in Seq(Match)
    BY <2>1, <2>3, FunctionIsSeq
  <2> HIDE DEF found
  <2>5. MatchesIn(p) = found \/ MatchesIn(p) = <<>>
    BY DEF MatchesIn, found
  <2> QED
    BY <2>4, <2>5, EmptySeq
<1>6. touched = {} => Untouched = Paths
  BY DEF Untouched
<1> QED
  BY <1>1, <1>3, <1>4, <1>5, <1>6

LEMMA MatchesType ==
    ASSUME SearchTypeInv
    PROVE  /\ Len(matches) \in Nat /\ DOMAIN matches = 1..Len(matches)
           /\ \A m \in DOMAIN matches : /\ matches[m] \in Match /\ matches[m][1] \in Paths
                                        /\ matches[m][1] \in Path /\ matches[m][2] \in Files
           /\ matches # <<>> => Len(matches) \in DOMAIN matches /\ Last(matches) = matches[Len(matches)]
<1>1. matches \in Seq(Match) /\ Len(matches) \in Nat /\ DOMAIN matches = 1..Len(matches)
  BY LenProperties DEF SearchTypeInv
<1>2. \A m \in 1..Len(matches) : matches[m] \in Match
  BY <1>1, ElementOfSeq
<1>3. matches # <<>> => Len(matches) # 0
  BY <1>1, EmptySeq
<1> QED
  BY <1>1, <1>2, <1>3, PathsArePaths DEF Match, Last

(* What is awaited while the files are read. *)
LEMMA AwaitedReading ==
    ASSUME WalkInv, pc \in Reading
    PROVE  /\ Awaited = Range(files) \cup (IF pc \in Held THEN {current} ELSE {})
           /\ LeftOut = {} /\ answer = "none" /\ ~ Invalid /\ stack = <<>> /\ SearchTypeInv
           /\ Searchable \cap Untouched \subseteq Awaited \cup Done
           /\ Done = {p \in Searchable : Range(MatchesIn(p)) \subseteq Range(matches)}
<1>1. SearchTypeInv /\ answer = "none" /\ stack = <<>> /\ ~ Invalid
      /\ pc \notin Walking /\ pc # "done"
  BY DEF WalkInv, PhaseInv, Reading, Held, Walking, Looks
<1>2. Ahead(stack) = {} /\ Range(files) \subseteq Paths /\ current \in Paths
  BY <1>1, NothingAhead, FilesType DEF SearchTypeInv
<1>3. Awaited = Range(files) \cup (IF pc \in Held THEN {current} ELSE {})
  BY <1>1, <1>2 DEF Awaited, Reading, Held
<1>4. LeftOut = {} /\ Done = {p \in Searchable : Range(MatchesIn(p)) \subseteq Range(matches)}
  BY <1>1 DEF LeftOut, Done
<1>5. Searchable \cap Untouched \subseteq Awaited \cup Done
  BY <1>4 DEF WalkInv, CoverInv
<1> QED
  BY <1>1, <1>3, <1>4, <1>5

LEMMA NextFileKeeps ==
    ASSUME WalkInv, NextFile
    PROVE  WalkInv'
<1>1. /\ pc = "next_file" /\ UNCHANGED <<treeVars, args>>
      /\ stack' = stack /\ matches' = matches
      /\ output_bytes' = output_bytes /\ searched' = searched /\ skipped' = skipped
  BY DEF NextFile, End, Goto, walkVars, foundVars
<1>2. pc \in Reading /\ SearchTypeInv /\ answer = "none" /\ ~ Invalid /\ stack = <<>>
  BY <1>1, AwaitedReading DEF Reading
<1>3. /\ TreeTypeOK' /\ args' = args /\ args' \in Requests /\ touched' = touched /\ tree' = tree
      /\ Searchable' = Searchable /\ Untouched' = Untouched /\ Visible' = Visible
      /\ (Invalid' <=> Invalid) /\ (\A p : MatchesIn(p)' = MatchesIn(p))
  BY <1>1, <1>2, SameTree
<1>4. Searchable \cap Untouched \subseteq Range(files) \cup Done
  BY <1>1, <1>2, AwaitedReading DEF Held
<1>5. /\ files \in Seq(Path) /\ files \in Seq(Paths) /\ Rising(files) /\ MatchesAreOrdered
      /\ \A m \in DOMAIN matches : \A k \in DOMAIN files : Precedes(matches[m][1], files[k])
      /\ Ahead(stack) = {}
  BY <1>1, <1>2, FilesType, NothingAhead DEF WalkInv, OrderInv, FilesInOrder, MatchesInOrder, SearchTypeInv
<1>6. CASE files = <<>>
  <2>1. pc' = "done" /\ answer' = "complete" /\ files' = files /\ current' = current
    BY <1>6 DEF NextFile, End, Goto, walkVars
  <2>2. SearchTypeInv'
    BY <1>1, <1>2, <1>3, <2>1 DEF SearchTypeInv
  <2>3. PhaseInv'
    BY <1>1, <1>2, <2>1 DEF PhaseInv, Looks, Reading, Held
  <2>4. DepthInv'
    BY <1>1, <1>3, <2>1 DEF WalkInv, DepthInv, Looks
  <2>5. OrderInv'
    BY <1>1, <1>5, <2>1 DEF OrderInv, WaitingInOrder, FilesInOrder, MatchesInOrder,
                            MatchesAreOrdered, Walking, Looks, Held
  <2>6. CoverInv'
    <3>1. Range(files) = {}
      BY <1>6 DEF Range
    <3>2. Done' = Done
      BY <1>1, <1>3, <2>1 DEF Done, Walking, Looks
    <3>3. (Searchable \cap Untouched)' \subseteq Done'
      BY <1>3, <1>4, <3>1, <3>2
    <3> QED
      BY <3>3 DEF CoverInv
  <2>7. QuietWalkInv'
    BY <1>1, <1>3, <1>5, <2>1 DEF QuietWalkInv, Walking, Looks, Reading, Held
  <2> QED
    BY <2>2, <2>3, <2>4, <2>5, <2>6, <2>7 DEF WalkInv
<1>7. CASE files # <<>>
  <2>1. pc' = "stat" /\ answer' = answer /\ files' = Tail(files) /\ current' = Head(files)
    BY <1>7 DEF NextFile, Goto
  <2>2. Head(files) \in Paths /\ Tail(files) \in Seq(Paths)
    BY <1>5, <1>7, PopProperties
  <2>3. Range(files) = {Head(files)} \cup Range(Tail(files))
    BY <1>5, <1>7, FirstAndRest
  <2>4. Rising(Tail(files)) /\ \A k \in DOMAIN Tail(files) : Precedes(Head(files), Tail(files)[k])
    BY <1>5, <1>7, RisingRest
  <2>5. SearchTypeInv'
    BY <1>1, <1>2, <1>3, <2>1, <2>2 DEF SearchTypeInv, Reading, Held
  <2>6. PhaseInv'
    BY <1>1, <1>2, <1>3, <2>1 DEF PhaseInv, Ended, Looks, Reading, Held
  <2>7. DepthInv'
    BY <1>1, <1>3, <2>1 DEF WalkInv, DepthInv, Looks
  <2>8. OrderInv'
    <3>1. \A m \in DOMAIN matches : Precedes(matches[m][1], Head(files))
      <4>1. 1 \in DOMAIN files /\ Head(files) = files[1]
        BY <1>5, <1>7, PopProperties
      <4> QED
        BY <1>5, <4>1
    <3>2. MatchesInOrder'
      BY <1>1, <1>5, <2>1, <3>1 DEF MatchesInOrder, MatchesAreOrdered, Held
    <3>3. FilesInOrder'
      BY <2>1, <2>4 DEF FilesInOrder, Walking, Looks
    <3>4. WaitingInOrder'
      BY <1>1, <1>5 DEF WaitingInOrder
    <3> QED
      BY <3>2, <3>3, <3>4 DEF OrderInv
  <2>9. CoverInv'
    <3>1. Done' = Done
      BY <1>1, <1>3, <2>1 DEF Done, Walking, Looks
    <3>2. Range(files) \subseteq Awaited'
      <4>1. Range(Tail(files)) \subseteq Paths
        BY <1>2, <2>3, FilesType
      <4> QED
        BY <2>1, <2>2, <2>3, <4>1 DEF Awaited, Held
    <3>3. (Searchable \cap Untouched)' \subseteq Awaited' \cup Done'
      BY <1>3, <1>4, <3>1, <3>2
    <3> QED
      BY <3>3 DEF CoverInv
  <2>10. QuietWalkInv'
    BY <1>1, <1>2, <1>3, <1>5, <2>1 DEF WalkInv, QuietWalkInv, Walking, Looks, Reading, Held
  <2> QED
    BY <2>5, <2>6, <2>7, <2>8, <2>9, <2>10 DEF WalkInv
<1> QED
  BY <1>6, <1>7

(* A file is left behind in which there is nothing to be found. *)
LEMMA SkipKeeps ==
    ASSUME WalkInv, NEW from \in Held, Skip(from),
           current \in Searchable => MatchesIn(current) = <<>>
    PROVE  WalkInv'
<1>1. /\ pc = from /\ pc' = "next_file" /\ UNCHANGED <<treeVars, args>>
      /\ stack' = stack /\ files' = files /\ current' = current /\ matches' = matches
      /\ output_bytes' = output_bytes /\ searched' = searched /\ skipped' = skipped + 1
      /\ answer' = answer
  BY DEF Skip, Goto, walkVars
<1>2. pc \in Reading /\ pc \in Held /\ SearchTypeInv /\ answer = "none" /\ ~ Invalid /\ stack = <<>>
  BY <1>1, AwaitedReading DEF Reading
<1>3. /\ TreeTypeOK' /\ args' = args /\ args' \in Requests /\ touched' = touched /\ tree' = tree
      /\ Searchable' = Searchable /\ Untouched' = Untouched /\ Visible' = Visible
      /\ (Invalid' <=> Invalid) /\ (\A p : MatchesIn(p)' = MatchesIn(p))
  BY <1>1, <1>2, SameTree
<1>4. Searchable \cap Untouched \subseteq Range(files) \cup {current} \cup Done
  BY <1>2, AwaitedReading
<1>5. /\ Rising(files) /\ MatchesAreOrdered
      /\ \A m \in DOMAIN matches : Precedes(matches[m][1], current)
      /\ \A k \in DOMAIN files : Precedes(current, files[k])
      /\ Ahead(stack) = {}
  BY <1>2, NothingAhead DEF WalkInv, OrderInv, FilesInOrder, MatchesInOrder
<1>6. SearchTypeInv'
  BY <1>1, <1>2, <1>3 DEF SearchTypeInv, Reading
<1>7. PhaseInv'
  BY <1>1, <1>2, <1>3 DEF PhaseInv, Ended, Looks, Reading, Held
<1>8. DepthInv'
  BY <1>1, <1>3 DEF WalkInv, DepthInv, Looks
<1>9. OrderInv'
  <2>1. ASSUME NEW m \in DOMAIN matches, NEW k \in DOMAIN files
        PROVE  Precedes(matches[m][1], files[k])
    <3>1. matches[m][1] \in Path /\ files[k] \in Path /\ current \in Path
      BY <1>2, MatchesType, FilesType, Arguments
    <3> QED
      BY <1>5, <3>1, PrecedesTransitive
  <2>2. MatchesInOrder'
    BY <1>1, <1>5, <2>1 DEF MatchesInOrder, MatchesAreOrdered, Held
  <2>3. FilesInOrder' /\ WaitingInOrder'
    BY <1>1, <1>5 DEF FilesInOrder, WaitingInOrder, Walking, Looks, Held
  <2> QED
    BY <2>2, <2>3 DEF OrderInv
<1>10. CoverInv'
  <2>1. Done' = {p \in Searchable : Range(MatchesIn(p)) \subseteq Range(matches)}
    BY <1>1, <1>3 DEF Done, Walking, Looks
  <2>2. Done = {p \in Searchable : Range(MatchesIn(p)) \subseteq Range(matches)}
    BY <1>2, AwaitedReading
  <2>3. current \in Searchable => current \in Done'
    <3>1. Range(<<>>) = {}
      BY DEF Range
    <3> QED
      BY <2>1, <3>1
  <2>4. Range(files) \subseteq Awaited'
    BY <1>1, <1>2, FilesType DEF Awaited
  <2>5. (Searchable \cap Untouched)' \subseteq Awaited' \cup Done'
    BY <1>3, <1>4, <2>1, <2>2, <2>3, <2>4
  <2> QED
    BY <2>5 DEF CoverInv
<1>11. QuietWalkInv'
  BY <1>1, <1>2, <1>3, <1>5 DEF WalkInv, QuietWalkInv, Walking, Looks, Reading, Held
<1> QED
  BY <1>6, <1>7, <1>8, <1>9, <1>10, <1>11 DEF WalkInv

LEMMA StatFileKeeps ==
    ASSUME WalkInv, pc = "stat", StatFile
    PROVE  WalkInv'
<1>1. CASE tree[current] = "none" /\ End("stat", "os_error")
  BY <1>1, EndKeeps
<1>2. CASE /\ tree[current] = "directory" \/ (tree[current] \in Files /\ Content[tree[current]].too_large)
           /\ Skip("stat")
  <2>1. current \in Searchable => MatchesIn(current) = <<>>
    <3>1. current \in Searchable => tree[current] # "directory"
      BY SearchableFacts DEF WalkInv
    <3> QED
      BY <1>2, <3>1 DEF MatchesIn, IsText
  <2> QED
    BY <1>2, <2>1, SkipKeeps DEF Held
<1>3. CASE Step("stat", "read")
  <2>1. /\ pc = "stat" /\ pc' = "read" /\ UNCHANGED <<treeVars, args>>
        /\ stack' = stack /\ files' = files /\ current' = current /\ matches' = matches
        /\ output_bytes' = output_bytes /\ searched' = searched /\ skipped' = skipped
        /\ answer' = answer
    BY <1>3 DEF Step, Goto, walkVars, foundVars
  <2>2. pc \in Reading /\ pc \in Held /\ SearchTypeInv /\ answer = "none" /\ ~ Invalid /\ stack = <<>>
    <3>1. pc \in Reading /\ pc \in Held
      BY <2>1 DEF Reading, Held
    <3> QED
      BY <3>1, AwaitedReading
  <2>3. /\ TreeTypeOK' /\ args' = args /\ args' \in Requests /\ touched' = touched /\ tree' = tree
        /\ Searchable' = Searchable /\ Untouched' = Untouched /\ Visible' = Visible
        /\ (Invalid' <=> Invalid) /\ (\A p : MatchesIn(p)' = MatchesIn(p))
    BY <2>1, <2>2, SameTree
  <2>4. Ahead(stack) = {} /\ pc' \in Held /\ pc' \in Reading
    BY <2>1, <2>2, NothingAhead DEF Reading, Held
  <2>5. SearchTypeInv'
    BY <2>1, <2>2, <2>3 DEF SearchTypeInv, Reading, Held
  <2>6. PhaseInv'
    BY <2>1, <2>2, <2>3 DEF PhaseInv, Ended, Looks, Reading, Held
  <2>7. DepthInv'
    BY <2>1, <2>3 DEF WalkInv, DepthInv, Looks
  <2>8. OrderInv'
    BY <2>1, <2>2, <2>4 DEF WalkInv, OrderInv, WaitingInOrder, FilesInOrder, MatchesInOrder,
                            MatchesAreOrdered, Walking, Looks
  <2>9. CoverInv'
    <3>1. Done' = {p \in Searchable : Range(MatchesIn(p)) \subseteq Range(matches)}
      BY <2>1, <2>3 DEF Done, Walking, Looks
    <3>2. /\ Done = {p \in Searchable : Range(MatchesIn(p)) \subseteq Range(matches)}
          /\ Searchable \cap Untouched \subseteq Range(files) \cup {current} \cup Done
      BY <2>2, AwaitedReading
    <3>3. Range(files) \cup {current} \subseteq Awaited'
      <4>1. Range(files) \subseteq Paths /\ current \in Paths
        BY <2>2, FilesType DEF SearchTypeInv
      <4> QED
        BY <2>1, <4>1 DEF Awaited, Held
    <3>4. (Searchable \cap Untouched)' \subseteq Awaited' \cup Done'
      BY <2>3, <3>1, <3>2, <3>3
    <3> QED
      BY <3>4 DEF CoverInv
  <2>10. QuietWalkInv'
    BY <2>1, <2>2, <2>3, <2>4 DEF WalkInv, QuietWalkInv, Walking, Looks, Reading, Held
  <2> QED
    BY <2>5, <2>6, <2>7, <2>8, <2>9, <2>10 DEF WalkInv
<1> QED
  BY <1>1, <1>2, <1>3 DEF StatFile

-----------------------------------------------------------------------------
(* A file is read.                                                         *)

(* There is a first match that does not fit, or all fit. *)
LEMMA KeptFacts ==
    ASSUME NEW sizes \in Seq(Nat), NEW n, n = Kept(sizes)
    PROVE  /\ n \in 0..Len(sizes)
           /\ \A m \in 1..n : Fits(sizes, m)
           /\ n < Len(sizes) => ~ Fits(sizes, n + 1)
<1> DEFINE T == {m \in 1..Len(sizes) : ~ Fits(sizes, m)}
<1>1. Len(sizes) \in Nat
  BY LenProperties
<1>2. \E k \in 0..Len(sizes) : /\ \A m \in 1..k : Fits(sizes, m)
                               /\ k < Len(sizes) => ~ Fits(sizes, k + 1)
  <2>1. CASE T = {}
    <3>1. \A m \in 1..Len(sizes) : Fits(sizes, m)
      BY <2>1
    <3>2. Len(sizes) \in 0..Len(sizes) /\ ~ (Len(sizes) < Len(sizes))
      BY <1>1
    <3> QED
      BY <3>1, <3>2
  <2>2. CASE T # {}
    <3>1. PICK m \in T : \A j \in T : m <= j
      <4>1. T \subseteq Nat
        OBVIOUS
      <4> QED
        BY <2>2, <4>1, LeastNatural
    <3>2. m \in 1..Len(sizes) /\ ~ Fits(sizes, m)
      OBVIOUS
    <3>3. ASSUME NEW j \in 1..(m - 1) PROVE Fits(sizes, j)
      <4>1. j \in 1..Len(sizes) /\ ~ (m <= j)
        BY <1>1, <3>2
      <4> QED
        BY <3>1, <4>1
    <3>4. m - 1 \in 0..Len(sizes) /\ (m - 1) + 1 = m
      BY <1>1, <3>2
    <3> QED
      BY <3>2, <3>3, <3>4
  <2> QED
    BY <2>1, <2>2
<1> QED
  BY <1>2 DEF Kept

(* The first n matches in a file. *)
Found(p, k, n) == [i \in 1..n |-> <<p, k, i>>]

(* What the matches are when the first n of the current file are put after them. *)
GrownBy(new, n) ==
    /\ Found(current, tree[current], n) \in Seq(Match)
    /\ new \in Seq(Match) /\ Len(new) = Len(matches) + n /\ Len(matches) \in Nat /\ n \in Nat
    /\ DOMAIN new = 1..(Len(matches) + n)
    /\ \A m \in 1..Len(matches) : new[m] = matches[m]
    /\ \A j \in 1..n : new[Len(matches) + j] = <<current, tree[current], j>>
    /\ \A m \in DOMAIN new : m \in 1..Len(matches) \/ \E j \in 1..n : m = Len(matches) + j

LEMMA MatchesGrow ==
    ASSUME SearchTypeInv, tree[current] \in Files, NEW n \in 0..Len(Content[tree[current]].sizes),
           NEW new, new = matches \o Found(current, tree[current], n)
    PROVE  GrownBy(new, n)
<1> DEFINE found == Found(current, tree[current], n)
<1>1. Content[tree[current]].sizes \in Seq(Nat) /\ current \in Paths
  BY Arguments DEF SearchTypeInv
<1>2. n \in Nat
  BY <1>1, LenProperties
<1>3. found \in [1..n -> Match]
  <2>1. \A i \in 1..n : <<current, tree[current], i>> \in Match
    BY <1>1, <1>2 DEF Match
  <2> QED
    BY <2>1 DEF Found
<1>4. found \in Seq(Match) /\ Len(found) = n
  BY <1>2, <1>3, FunctionIsSeq
<1>5. \A j \in 1..n : found[j] = <<current, tree[current], j>>
  BY DEF Found
<1> HIDE DEF found
<1>6. matches \in Seq(Match) /\ Len(matches) \in Nat
  BY MatchesType DEF SearchTypeInv
<1>7. /\ new \in Seq(Match) /\ Len(new) = Len(matches) + Len(found)
      /\ \A i \in 1..(Len(matches) + Len(found)) :
            new[i] = IF i <= Len(matches) THEN matches[i] ELSE found[i - Len(matches)]
  <2>1. new = matches \o found
    BY DEF found
  <2>2. matches \o found \in Seq(Match)
    BY <1>4, <1>6
  <2>3. /\ Len(matches \o found) = Len(matches) + Len(found)
        /\ \A i \in 1..(Len(matches) + Len(found)) :
              (matches \o found)[i] = IF i <= Len(matches) THEN matches[i] ELSE found[i - Len(matches)]
    BY <1>4, <1>6, ConcatProperties
  <2> QED
    BY <2>1, <2>2, <2>3
<1>8. Len(new) = Len(matches) + n /\ DOMAIN new = 1..(Len(matches) + n)
  BY <1>4, <1>7, LenProperties
<1>9. ASSUME NEW m \in 1..Len(matches) PROVE new[m] = matches[m]
  <2>1. m \in 1..(Len(matches) + Len(found)) /\ m <= Len(matches)
    BY <1>2, <1>4, <1>6
  <2> QED
    BY <1>7, <2>1
<1>10. ASSUME NEW j \in 1..n PROVE new[Len(matches) + j] = <<current, tree[current], j>>
  <2>1. /\ Len(matches) + j \in 1..(Len(matches) + Len(found)) /\ ~ (Len(matches) + j <= Len(matches))
        /\ (Len(matches) + j) - Len(matches) = j
    BY <1>2, <1>4, <1>6
  <2> QED
    BY <1>5, <1>7, <2>1
<1>11. ASSUME NEW m \in DOMAIN new
       PROVE  m \in 1..Len(matches) \/ \E j \in 1..n : m = Len(matches) + j
  <2>1. m \in 1..(Len(matches) + n)
    BY <1>8
  <2>2. m \in 1..Len(matches) \/ (m - Len(matches) \in 1..n /\ m = Len(matches) + (m - Len(matches)))
    BY <1>2, <1>6, <2>1
  <2> QED
    BY <2>2
<1> QED
  BY <1>2, <1>4, <1>6, <1>7, <1>8, <1>9, <1>10, <1>11 DEF found, GrownBy

(* MatchesAreOrdered, of any sequence of matches, place by place. *)
Follows(s, i) ==
    IF s[i][3] = 1 THEN i = 1 \/ Precedes(s[i - 1][1], s[i][1])
    ELSE i > 1 /\ s[i - 1] = <<s[i][1], s[i][2], s[i][3] - 1>>

LEMMA OrderGrows ==
    ASSUME SearchTypeInv, tree[current] \in Files, NEW n \in 0..Len(Content[tree[current]].sizes),
           NEW new, new = matches \o Found(current, tree[current], n),
           MatchesAreOrdered, \A m \in DOMAIN matches : Precedes(matches[m][1], current)
    PROVE  /\ \A i \in 1..Len(new) : Follows(new, i)
           /\ \A m \in DOMAIN new : new[m][1] = current \/ Precedes(new[m][1], current)
<1> DEFINE N == Len(matches)
           k == tree[current]
<1>1. /\ Len(new) = N + n /\ N \in Nat /\ n \in Nat /\ DOMAIN new = 1..(N + n)
      /\ \A m \in 1..N : new[m] = matches[m]
      /\ \A j \in 1..n : new[N + j] = <<current, k, j>>
      /\ \A m \in DOMAIN new : m \in 1..N \/ \E j \in 1..n : m = N + j
  <2>1. GrownBy(new, n)
    BY MatchesGrow
  <2> QED
    BY <2>1 DEF GrownBy
<1>2. DOMAIN matches = 1..N
  BY MatchesType
<1>3. \A i \in 1..N : Follows(matches, i)
  BY DEF MatchesAreOrdered, Follows
<1> HIDE DEF N, k
<1>4. ASSUME NEW m \in DOMAIN new PROVE new[m][1] = current \/ Precedes(new[m][1], current)
  <2>1. CASE m \in 1..N
    <3>1. new[m] = matches[m] /\ m \in DOMAIN matches
      BY <1>1, <1>2, <2>1
    <3> QED
      BY <3>1
  <2>2. ASSUME NEW j \in 1..n, m = N + j PROVE new[m][1] = current
    <3>1. new[m] = <<current, k, j>>
      BY <1>1, <2>2
    <3> QED
      BY <3>1
  <2> QED
    BY <1>1, <2>1, <2>2
<1>5. ASSUME NEW i \in 1..(N + n) PROVE Follows(new, i)
  <2>1. CASE i \in 1..N
    <3>1. i = 1 \/ i - 1 \in 1..N
      BY <1>1, <2>1
    <3>2. new[i] = matches[i] /\ (i # 1 => new[i - 1] = matches[i - 1])
      BY <1>1, <2>1, <3>1
    <3>3. Follows(matches, i)
      BY <1>3, <2>1
    <3> QED
      BY <1>1, <3>2, <3>3, SMTT(30) DEF Follows
  <2>2. ASSUME NEW j \in 1..n, i = N + j PROVE Follows(new, i)
    <3>1. new[i] = <<current, k, j>>
      BY <1>1, <2>2
    <3>2. new[i][1] = current /\ new[i][2] = k /\ new[i][3] = j
      BY <3>1
    <3>3. CASE j = 1
      <4>1. i = 1 \/ (i - 1 = N /\ N \in 1..N)
        BY <1>1, <2>2, <3>3
      <4>2. N \in 1..N => Precedes(new[N][1], current)
        <5>1. N \in 1..N => new[N] = matches[N] /\ Precedes(matches[N][1], current)
          BY <1>1, <1>2
        <5> QED
          BY <5>1
      <4> QED
        BY <3>2, <3>3, <4>1, <4>2 DEF Follows
    <3>4. CASE j # 1
      <4>1. j - 1 \in 1..n /\ i - 1 = N + (j - 1) /\ i > 1
        BY <1>1, <2>2, <3>4
      <4>2. new[i - 1] = <<current, k, j - 1>>
        BY <1>1, <4>1
      <4> QED
        BY <3>2, <3>4, <4>1, <4>2 DEF Follows
    <3> QED
      BY <3>3, <3>4
  <2>3. i \in 1..N \/ \E j \in 1..n : i = N + j
    BY <1>1
  <2> QED
    BY <2>1, <2>2, <2>3
<1> QED
  BY <1>1, <1>4, <1>5

(* A file is read from which n matches are kept. *)
Reads(n) ==
    LET sizes == Content[tree[current]].sizes IN
    /\ pc = "read" /\ UNCHANGED <<treeVars, args>>
    /\ tree[current] \in Files /\ current \notin unreadable /\ ~ Content[tree[current]].binary
    /\ n \in 0..Len(sizes)
    /\ \A m \in 1..n : Fits(sizes, m)
    /\ n < Len(sizes) => ~ Fits(sizes, n + 1)
    /\ stack' = stack /\ files' = files /\ current' = current /\ skipped' = skipped
    /\ searched' = searched + 1
    /\ matches' = matches \o Found(current, tree[current], n)
    /\ output_bytes' = output_bytes + Total(SubSeq(sizes, 1, n))
    /\ \/ n = Len(sizes) /\ pc' = "next_file" /\ answer' = answer
       \/ n < Len(sizes) /\ pc' = "done" /\ answer' = "truncated"

LEMMA ReadFileIs ==
    ASSUME SearchTypeInv, ReadFile
    PROVE  \/ (tree[current] \notin Files \/ current \in unreadable) /\ End("read", "os_error")
           \/ /\ tree[current] \in Files /\ current \notin unreadable
              /\ Content[tree[current]].binary /\ Skip("read")
           \/ \E n : Reads(n)
<1>1. CASE tree[current] \notin Files \/ current \in unreadable
  BY <1>1 DEF ReadFile
<1>2. CASE tree[current] \in Files /\ current \notin unreadable /\ Content[tree[current]].binary
  BY <1>2 DEF ReadFile
<1>3. CASE tree[current] \in Files /\ current \notin unreadable /\ ~ Content[tree[current]].binary
  <2> DEFINE sizes == Content[tree[current]].sizes
             n == Kept(sizes)
  <2>1. sizes \in Seq(Nat) /\ Len(sizes) \in Nat
    BY <1>3, Arguments, LenProperties
  <2>2. /\ n \in 0..Len(sizes)
        /\ \A m \in 1..n : Fits(sizes, m)
        /\ n < Len(sizes) => ~ Fits(sizes, n + 1)
    BY <2>1, KeptFacts
  <2>3. /\ pc = "read" /\ searched' = searched + 1
        /\ matches' = matches \o [i \in 1..n |-> <<current, tree[current], i>>]
        /\ output_bytes' = output_bytes + Total(SubSeq(sizes, 1, n))
        /\ IF n = Len(sizes)
           THEN Goto("read", "next_file") /\ UNCHANGED answer
           ELSE Goto("read", "done") /\ answer' = "truncated"
        /\ UNCHANGED <<walkVars, current, skipped>>
    BY <1>3 DEF ReadFile
  <2> HIDE DEF n
  <2>4. n = Len(sizes) \/ n < Len(sizes)
    BY <2>1, <2>2
  <2>5. matches' = matches \o Found(current, tree[current], n)
    BY <2>3 DEF Found
  <2>6. UNCHANGED <<treeVars, args>> /\ stack' = stack /\ files' = files /\ current' = current
        /\ skipped' = skipped
    BY <2>3 DEF Goto, walkVars
  <2>7. \/ n = Len(sizes) /\ pc' = "next_file" /\ answer' = answer
        \/ n < Len(sizes) /\ pc' = "done" /\ answer' = "truncated"
    BY <2>3, <2>4 DEF Goto
  <2>8. Reads(n)
    BY <1>3, <2>2, <2>3, <2>5, <2>6, <2>7 DEF Reads
  <2> QED
    BY <2>8
<1> QED
  BY <1>1, <1>2, <1>3

LEMMA ReadsKeeps ==
    ASSUME WalkInv, NEW n, Reads(n)
    PROVE  WalkInv'
<1> DEFINE k == tree[current]
           sizes == Content[k].sizes
<1>1. /\ pc = "read" /\ UNCHANGED <<treeVars, args>> /\ k \in Files /\ ~ Content[k].binary
      /\ n \in 0..Len(sizes)
      /\ stack' = stack /\ files' = files /\ current' = current /\ skipped' = skipped
      /\ searched' = searched + 1
      /\ matches' = matches \o Found(current, k, n)
      /\ output_bytes' = output_bytes + Total(SubSeq(sizes, 1, n))
      /\ \/ n = Len(sizes) /\ pc' = "next_file" /\ answer' = answer
         \/ n < Len(sizes) /\ pc' = "done" /\ answer' = "truncated"
  BY DEF Reads
<1>2. pc \in Reading /\ pc \in Held /\ SearchTypeInv /\ answer = "none" /\ ~ Invalid /\ stack = <<>>
  <2>1. pc \in Reading /\ pc \in Held
    BY <1>1 DEF Reading, Held
  <2> QED
    BY <2>1, AwaitedReading
<1>3. /\ TreeTypeOK' /\ args' = args /\ args' \in Requests /\ touched' = touched /\ tree' = tree
      /\ Searchable' = Searchable /\ Untouched' = Untouched /\ Visible' = Visible
      /\ (Invalid' <=> Invalid) /\ (\A p : MatchesIn(p)' = MatchesIn(p))
  BY <1>1, <1>2, SameTree
<1>4. Searchable \cap Untouched \subseteq Range(files) \cup {current} \cup Done
  BY <1>2, AwaitedReading
<1>5. /\ Rising(files) /\ MatchesAreOrdered
      /\ \A m \in DOMAIN matches : Precedes(matches[m][1], current)
      /\ \A i \in DOMAIN files : Precedes(current, files[i])
      /\ Ahead(stack) = {}
  BY <1>2, NothingAhead DEF WalkInv, OrderInv, FilesInOrder, MatchesInOrder
<1>6. /\ sizes \in Seq(Nat) /\ Len(sizes) \in Nat /\ DOMAIN sizes = 1..Len(sizes) /\ n \in Nat
      /\ Total(SubSeq(sizes, 1, n)) \in Nat
  <2>1. sizes \in Seq(Nat)
    BY <1>1, <1>2, Arguments
  <2> QED
    BY <1>1, <2>1, LenProperties, TotalOfFirst
<1>7. GrownBy(matches', n)
  BY <1>1, <1>2, MatchesGrow
<1>8. /\ matches' \in Seq(Match) /\ Len(matches') = Len(matches) + n /\ Len(matches) \in Nat
      /\ DOMAIN matches' = 1..(Len(matches) + n)
      /\ \A m \in 1..Len(matches) : matches'[m] = matches[m]
      /\ \A j \in 1..n : matches'[Len(matches) + j] = <<current, k, j>>
      /\ \A m \in DOMAIN matches' : m \in 1..Len(matches) \/ \E j \in 1..n : m = Len(matches) + j
  BY <1>7 DEF GrownBy
<1>9. /\ \A i \in 1..Len(matches') : Follows(matches', i)
      /\ \A m \in DOMAIN matches' : matches'[m][1] = current \/ Precedes(matches'[m][1], current)
  BY <1>1, <1>2, <1>5, OrderGrows
<1> HIDE DEF k, sizes
<1>10. SearchTypeInv'
  <2>1. \A i \in DOMAIN matches' : matches'[i][3] \in DOMAIN Content[matches'[i][2]].sizes
    <3>1. ASSUME NEW i \in 1..Len(matches) PROVE matches'[i][3] \in DOMAIN Content[matches'[i][2]].sizes
      BY <1>2, <1>8, <3>1, MatchesType DEF SearchTypeInv
    <3>2. ASSUME NEW j \in 1..n, NEW i, i = Len(matches) + j
          PROVE  matches'[i][3] \in DOMAIN Content[matches'[i][2]].sizes
      <4>1. matches'[i] = <<current, k, j>>
        BY <1>8, <3>2
      <4>2. matches'[i][2] = k /\ matches'[i][3] = j
        BY <4>1
      <4>3. j \in DOMAIN sizes
        <5>1. n \in 0..Len(sizes) /\ Len(sizes) \in Nat /\ DOMAIN sizes = 1..Len(sizes)
          BY <1>1, <1>6
        <5>2. j \in 1..Len(sizes)
          BY <5>1
        <5> QED
          BY <5>1, <5>2
      <4> QED
        BY <4>2, <4>3 DEF sizes
    <3> QED
      BY <1>8, <3>1, <3>2
  <2>2. output_bytes' \in Nat /\ searched' \in Nat
    <3>1. output_bytes \in Nat /\ searched \in Nat
      BY <1>2 DEF SearchTypeInv
    <3> DEFINE more == Total(SubSeq(sizes, 1, n))
    <3>2. more \in Nat /\ output_bytes' = output_bytes + more /\ searched' = searched + 1
      BY <1>1, <1>6
    <3> HIDE DEF more
    <3> QED
      BY <3>1, <3>2
  <2> QED
    BY <1>1, <1>2, <1>3, <1>8, <2>1, <2>2 DEF SearchTypeInv, Reading
<1>11. PhaseInv'
  BY <1>1, <1>2, <1>3 DEF PhaseInv, Ended, Looks, Reading, Held
<1>12. DepthInv'
  BY <1>1, <1>3 DEF WalkInv, DepthInv, Looks
<1>13. \A p \in Path : p = current \/ p \in Range(files) =>
           \A m \in DOMAIN matches' : ~ Precedes(p, matches'[m][1])
                                      /\ (p \in Range(files) => Precedes(matches'[m][1], p))
  <2>1. SUFFICES ASSUME NEW p \in Path, p = current \/ p \in Range(files), NEW m \in DOMAIN matches'
                 PROVE  ~ Precedes(p, matches'[m][1])
                        /\ (p \in Range(files) => Precedes(matches'[m][1], p))
    OBVIOUS
  <2>2. matches'[m][1] \in Path /\ current \in Path
    <3>1. matches'[m] \in Match
      BY <1>8, ElementOfSeq
    <3> QED
      BY <1>2, <3>1, Arguments, PathsArePaths DEF Match
  <2>3. p \in Range(files) => Precedes(current, p)
    BY <1>5 DEF Range
  <2>4. matches'[m][1] = current \/ Precedes(matches'[m][1], current)
    BY <1>9
  <2>5. matches'[m][1] = p \/ Precedes(matches'[m][1], p)
    BY <2>1, <2>2, <2>3, <2>4, PrecedesTransitive
  <2>6. ~ Precedes(p, matches'[m][1])
    BY <2>2, <2>5, PrecedesTransitive, PrecedesIrreflexive
  <2>7. p \in Range(files) => Precedes(matches'[m][1], p)
    BY <2>1, <2>2, <2>3, <2>4, PrecedesTransitive
  <2> QED
    BY <2>6, <2>7
<1>14. OrderInv'
  <2>1. MatchesAreOrdered'
    BY <1>9 DEF MatchesAreOrdered, Follows
  <2>2. ASSUME NEW m \in DOMAIN matches', NEW i \in DOMAIN files
        PROVE  Precedes(matches'[m][1], files[i])
    <3>1. files[i] \in Path /\ files[i] \in Range(files)
      BY <1>2, FilesType DEF Range
    <3> QED
      BY <1>13, <3>1
  <2>3. MatchesInOrder'
    BY <1>1, <2>1, <2>2 DEF MatchesInOrder, Held
  <2>4. FilesInOrder' /\ WaitingInOrder'
    BY <1>1, <1>5 DEF FilesInOrder, WaitingInOrder, Walking, Looks, Held
  <2> QED
    BY <2>3, <2>4 DEF OrderInv
<1>15. CoverInv'
  <2>1. Done' = {p \in Searchable : Range(MatchesIn(p)) \subseteq Range(matches')}
    BY <1>1, <1>3 DEF Done, Walking, Looks
  <2>2. Done \subseteq Done'
    <3>1. Range(matches) \subseteq Range(matches')
      <4>1. DOMAIN matches = 1..Len(matches) /\ \A m \in 1..Len(matches) : m \in DOMAIN matches'
        BY <1>2, <1>6, <1>8, MatchesType
      <4> QED
        BY <1>8, <4>1 DEF Range
    <3>2. Done = {p \in Searchable : Range(MatchesIn(p)) \subseteq Range(matches)}
      BY <1>2, AwaitedReading
    <3> QED
      BY <2>1, <3>1, <3>2
  <2>3. CASE n = Len(sizes)
    <3>1. current \in Searchable => current \in Done'
      <4>1. ASSUME NEW x \in Range(MatchesIn(current)) PROVE x \in Range(matches')
        <5>1. PICK i \in DOMAIN MatchesIn(current) : x = MatchesIn(current)[i]
          BY <4>1 DEF Range
        <5>2. i \in 1..n /\ x = <<current, k, i>>
          <6>1. CASE IsText(current)
            <7>1. MatchesIn(current) = [j \in DOMAIN sizes |-> <<current, k, j>>]
              BY <6>1 DEF MatchesIn, sizes, k
            <7> QED
              BY <1>6, <2>3, <5>1, <7>1
          <6>2. CASE ~ IsText(current)
            <7>1. MatchesIn(current) = <<>> /\ DOMAIN <<>> = {}
              BY <6>2 DEF MatchesIn
            <7> QED
              BY <5>1, <7>1
          <6> QED
            BY <6>1, <6>2
        <5>3. Len(matches) + i \in DOMAIN matches' /\ matches'[Len(matches) + i] = x
          BY <1>6, <1>8, <5>2
        <5> QED
          BY <5>3 DEF Range
      <4> QED
        BY <2>1, <4>1
    <3>2. Range(files) \subseteq Awaited'
      BY <1>1, <1>2, <2>3, FilesType DEF Awaited
    <3>3. (Searchable \cap Untouched)' \subseteq Awaited' \cup Done'
      BY <1>3, <1>4, <2>2, <3>1, <3>2
    <3> QED
      BY <3>3 DEF CoverInv
  <2>4. CASE n # Len(sizes)
    <3>1. answer' = "truncated"
      BY <1>1, <2>4
    <3>2. Range(files) \cup {current} \subseteq LeftOut'
      <4>1. SUFFICES ASSUME NEW p \in Range(files) \cup {current} PROVE p \in LeftOut'
        OBVIOUS
      <4>2. p \in Paths /\ p \in Path
        BY <1>2, <4>1, FilesType, PathsArePaths DEF SearchTypeInv
      <4>3. matches' # <<>> => Last(matches') = matches'[Len(matches')] /\ Len(matches') \in DOMAIN matches'
        <5>1. matches' # <<>> => Len(matches') # 0
          BY <1>8, EmptySeq
        <5> QED
          BY <1>6, <1>8, <5>1 DEF Last
      <4>4. matches' # <<>> => ~ Precedes(p, Last(matches')[1])
        BY <1>13, <4>1, <4>2, <4>3
      <4> QED
        BY <3>1, <4>2, <4>4 DEF LeftOut
    <3>3. (Searchable \cap Untouched)' \subseteq Done' \cup LeftOut'
      BY <1>3, <1>4, <2>2, <3>2
    <3> QED
      BY <3>3 DEF CoverInv
  <2> QED
    BY <2>3, <2>4
<1>16. QuietWalkInv'
  BY <1>1, <1>2, <1>3, <1>5 DEF WalkInv, QuietWalkInv, Walking, Looks, Reading, Held
<1> QED
  BY <1>10, <1>11, <1>12, <1>14, <1>15, <1>16 DEF WalkInv

LEMMA ReadFileKeeps ==
    ASSUME WalkInv, ReadFile
    PROVE  WalkInv'
<1>1. SearchTypeInv
  BY DEF WalkInv
<1>2. CASE End("read", "os_error")
  BY <1>2, EndKeeps
<1>3. CASE Content[tree[current]].binary /\ Skip("read")
  BY <1>3, SkipKeeps DEF MatchesIn, IsText, Held
<1>4. CASE \E n : Reads(n)
  BY <1>4, ReadsKeeps
<1> QED
  BY <1>1, <1>2, <1>3, <1>4, ReadFileIs

-----------------------------------------------------------------------------
(* Other programs, and steps that change nothing.                          *)

LEMMA EditKeeps ==
    ASSUME WalkInv, Edit, UNCHANGED searchVars
    PROVE  WalkInv' /\ touched' # {}
<1>1. /\ args' = args /\ pc' = pc /\ stack' = stack /\ current' = current /\ files' = files
      /\ matches' = matches /\ output_bytes' = output_bytes /\ searched' = searched
      /\ skipped' = skipped /\ answer' = answer
  BY DEF searchVars
<1>2. SearchTypeInv /\ TreeTypeOK
  BY DEF WalkInv, SearchTypeInv
<1>3. /\ touched' # {}
      /\ \A p \in Untouched' : p \in Untouched /\ p \in Paths
            /\ \A q \in Paths : IsPrefix(q, p) => tree'[q] = tree[q]
  BY <1>2, EditKeepsUntouched
<1>4. SearchTypeInv'
  BY <1>1, <1>2, EditKeepsTree DEF SearchTypeInv
<1>5. Invalid' <=> Invalid
  BY <1>1 DEF Invalid, OutputLimit
<1>6. PhaseInv' /\ DepthInv'
  BY <1>1, <1>5 DEF WalkInv, PhaseInv, DepthInv, Ended
<1>7. OrderInv'
  BY <1>1 DEF WalkInv, OrderInv, WaitingInOrder, FilesInOrder, MatchesInOrder, MatchesAreOrdered
<1>8. \A p \in Searchable' \cap Untouched' : p \in Searchable /\ p \in Untouched /\ tree'[p] = tree[p]
  <2>1. SUFFICES ASSUME NEW p \in Searchable', p \in Untouched'
                 PROVE  p \in Searchable /\ tree'[p] = tree[p]
    BY <1>3
  <2>2. /\ p \in Paths /\ IsStrictPrefix(args.directory, p) /\ tree'[p] # "none"
        /\ \A q \in Paths : IsStrictPrefix(args.directory, q) /\ IsPrefix(q, p) => ~ Excluded(q)'
        /\ tree'[p] \in Files /\ p \in args.glob
    BY <1>1, <2>1 DEF Searchable, Reachable
  <2>3. \A q \in Paths : IsPrefix(q, p) => (Excluded(q)' <=> Excluded(q))
    BY <1>3, <2>1 DEF Excluded
  <2>4. tree'[p] = tree[p]
    <3>1. IsPrefix(p, p)
      BY <2>2, PathsArePaths, PrefixFacts
    <3> QED
      BY <1>3, <2>1, <2>2, <3>1
  <2> QED
    BY <2>2, <2>3, <2>4 DEF Searchable, Reachable
<1>9. CoverInv'
  <2>1. Awaited' = Awaited /\ LeftOut' = LeftOut /\ (Ended' <=> Ended)
    BY <1>1 DEF Awaited, LeftOut, Ended
  <2>2. \A p \in Searchable' \cap Untouched' : p \in Done => p \in Done'
    <3>1. SUFFICES ASSUME NEW p \in Searchable' \cap Untouched', p \in Done PROVE p \in Done'
      OBVIOUS
    <3>2. tree'[p] = tree[p]
      BY <1>8
    <3>3. MatchesIn(p)' = MatchesIn(p)
      BY <3>2 DEF MatchesIn, IsText
    <3>4. pc' \notin Walking /\ Range(MatchesIn(p))' \subseteq Range(matches')
      BY <1>1, <3>1, <3>3 DEF Done, Range
    <3> QED
      BY <3>1, <3>4 DEF Done
  <2>3. (pc \in Walking \cup Reading \/ Ended) => Searchable' \cap Untouched' \subseteq Awaited' \cup Done' \cup LeftOut'
    BY <1>8, <2>1, <2>2 DEF WalkInv, CoverInv
  <2> QED
    BY <1>1, <2>1, <2>3 DEF CoverInv
<1>10. QuietWalkInv'
  BY <1>3 DEF QuietWalkInv
<1> QED
  BY <1>3, <1>4, <1>6, <1>7, <1>9, <1>10 DEF WalkInv

LEMMA StutterKeeps ==
    ASSUME SearchInv, UNCHANGED vars
    PROVE  SearchInv'
<1>1. /\ UNCHANGED <<treeVars, args>> /\ pc' = pc /\ stack' = stack /\ current' = current
      /\ files' = files /\ matches' = matches /\ output_bytes' = output_bytes
      /\ searched' = searched /\ skipped' = skipped /\ answer' = answer
  BY DEF vars, searchVars
<1>2. SearchTypeInv
  BY DEF SearchInv, WalkInv
<1>3. /\ TreeTypeOK' /\ args' = args /\ args' \in Requests /\ touched' = touched /\ tree' = tree
      /\ Searchable' = Searchable /\ Untouched' = Untouched /\ Visible' = Visible
      /\ Reachable(args.directory)' = Reachable(args.directory)
      /\ (Invalid' <=> Invalid) /\ OutputLimit' = OutputLimit
      /\ (\A p : MatchesIn(p)' = MatchesIn(p))
  BY <1>1, <1>2, SameTree
<1>4. SearchTypeInv'
  BY <1>1, <1>2, <1>3 DEF SearchTypeInv
<1>5. PhaseInv' /\ DepthInv'
  BY <1>1, <1>3 DEF SearchInv, WalkInv, PhaseInv, DepthInv, Ended
<1>6. OrderInv'
  BY <1>1 DEF SearchInv, WalkInv, OrderInv, WaitingInOrder, FilesInOrder, MatchesInOrder,
              MatchesAreOrdered
<1>7. CoverInv'
  <2>1. Awaited' = Awaited /\ LeftOut' = LeftOut /\ (Ended' <=> Ended)
    BY <1>1 DEF Awaited, LeftOut, Ended
  <2>2. Done' = Done
    BY <1>1, <1>3 DEF Done
  <2> QED
    BY <1>1, <1>3, <2>1, <2>2 DEF SearchInv, WalkInv, CoverInv
<1>8. QuietWalkInv'
  BY <1>1, <1>3 DEF SearchInv, WalkInv, QuietWalkInv
<1>14. BarredInv'
  <2>1. ToWalk' = ToWalk /\ (Ended' <=> Ended)
    BY <1>1 DEF ToWalk, Ended
  <2>2. Barred' = Barred
    BY <1>1, <1>2, SameTree
  <2> QED
    BY <1>1, <1>3, <2>1, <2>2 DEF SearchInv, BarredInv
<1>15. Denied' = Denied
  BY <1>1, <1>2, SameTree
<1>9. OutputIsBounded'
  BY <1>1, <1>3 DEF SearchInv, OutputIsBounded, Size
<1>10. Visited' = Visited /\ Texts' = Texts
  BY <1>3 DEF Visited, Texts, IsText
<1>11. AllMatches' = AllMatches /\ \A i : First(i)' = First(i)
  BY <1>3, <1>10 DEF AllMatches, First
<1>12. QuietReadInv'
  BY <1>1, <1>3, <1>10, <1>11, <1>15 DEF SearchInv, QuietReadInv
<1>13. QuietSearchIsExact'
  <2>1. Expected' = Expected
    BY <1>1, <1>2, SameTree
  <2>2. \A m : Size(m)' = Size(m)
    BY DEF Size
  <2> QED
    BY <1>1, <1>3, <1>10, <2>1, <2>2 DEF SearchInv, QuietSearchIsExact, IsText
<1> QED
  BY <1>4, <1>5, <1>6, <1>7, <1>8, <1>9, <1>12, <1>13, <1>14 DEF SearchInv, WalkInv

-----------------------------------------------------------------------------
(* The limits of the output.                                               *)

(* Only the reading of a file finds anything. *)
LEMMA OnlyReadsFind ==
    ASSUME SearchTypeInv, Search
    PROVE  /\ UNCHANGED <<treeVars, args>>
           /\ (matches' = matches /\ output_bytes' = output_bytes) \/ \E n : Reads(n)
<1>1. CASE ReadFile
  BY <1>1, ReadFileIs DEF End, Skip, Reads, Goto, foundVars
<1>2. CASE \/ Validate \/ Resolve \/ CheckDirectory \/ Open \/ NextChild \/ IsSymlink
           \/ IsDirectory \/ IsFile \/ ResolveChild \/ NextFile \/ (pc = "stat" /\ StatFile)
  BY <1>2 DEF Validate, Resolve, CheckDirectory, Open, NextChild, IsSymlink, IsDirectory, IsFile,
              ResolveChild, NextFile, StatFile, Step, End, Skip, Goto, foundVars
<1> QED
  BY <1>1, <1>2 DEF Search

SizesOf(ms) == [i \in DOMAIN ms |-> Size(ms[i])]

LEMMA SizesType ==
    ASSUME SearchTypeInv
    PROVE  /\ SizesOf(matches) \in Seq(Nat) /\ Len(SizesOf(matches)) = Len(matches)
           /\ \A i \in 1..Len(matches) : SizesOf(matches)[i] = Size(matches[i])
<1>1. Len(matches) \in Nat /\ DOMAIN matches = 1..Len(matches)
  BY MatchesType
<1>2. ASSUME NEW i \in 1..Len(matches) PROVE Size(matches[i]) \in Nat
  <2>1. matches[i][2] \in Files /\ matches[i][3] \in DOMAIN Content[matches[i][2]].sizes
    BY <1>1, MatchesType DEF SearchTypeInv
  <2>2. Content[matches[i][2]].sizes \in Seq(Nat)
    BY <2>1, Arguments
  <2> QED
    BY <2>1, <2>2, ElementOfSeq, LenProperties DEF Size
<1>3. SizesOf(matches) \in [1..Len(matches) -> Nat]
  BY <1>1, <1>2 DEF SizesOf
<1> QED
  BY <1>1, <1>3, FunctionIsSeq DEF SizesOf

LEMMA BoundedKept ==
    ASSUME WalkInv, OutputIsBounded, NEW n, Reads(n)
    PROVE  OutputIsBounded'
<1> DEFINE k == tree[current]
           sizes == Content[k].sizes
           kept == SubSeq(sizes, 1, n)
           new == matches \o Found(current, k, n)
<1>1. /\ pc = "read" /\ UNCHANGED <<treeVars, args>> /\ k \in Files
      /\ n \in 0..Len(sizes) /\ \A m \in 1..n : Fits(sizes, m)
      /\ matches' = new /\ output_bytes' = output_bytes + Total(kept)
  BY DEF Reads
<1>2. SearchTypeInv /\ SearchTypeInv'
  BY ReadsKeeps DEF WalkInv
<1>3. sizes \in Seq(Nat) /\ Len(sizes) \in Nat /\ DOMAIN sizes = 1..Len(sizes)
  BY <1>1, <1>2, Arguments, LenProperties
<1>4. /\ kept \in Seq(Nat) /\ Len(kept) = n /\ \A i \in 1..n : kept[i] = sizes[i]
      /\ Total(kept) \in Nat
  BY <1>1, <1>3, TotalOfFirst
<1>5. GrownBy(new, n)
  BY <1>1, <1>2, MatchesGrow
<1>6. /\ Len(new) = Len(matches) + n /\ Len(matches) \in Nat /\ n \in Nat
      /\ DOMAIN new = 1..(Len(matches) + n)
      /\ \A m \in 1..Len(matches) : new[m] = matches[m]
      /\ \A j \in 1..n : new[Len(matches) + j] = <<current, k, j>>
      /\ \A m \in DOMAIN new : m \in 1..Len(matches) \/ \E j \in 1..n : m = Len(matches) + j
  BY <1>5 DEF GrownBy
<1>7. /\ SizesOf(matches) \in Seq(Nat) /\ Len(SizesOf(matches)) = Len(matches)
      /\ \A i \in 1..Len(matches) : SizesOf(matches)[i] = Size(matches[i])
  BY <1>2, SizesType
<1>8. \A j \in 1..n : Size(<<current, k, j>>) = sizes[j]
  BY DEF Size
<1> HIDE DEF new, kept, sizes, k
<1>9. SizesOf(new) = SizesOf(matches) \o kept
  <2>1. /\ SizesOf(matches) \o kept \in Seq(Nat) /\ Len(SizesOf(matches) \o kept) = Len(matches) + n
        /\ \A i \in 1..(Len(matches) + n) : (SizesOf(matches) \o kept)[i] =
              IF i <= Len(matches) THEN SizesOf(matches)[i] ELSE kept[i - Len(matches)]
    <3> DEFINE a == SizesOf(matches)
    <3>1. a \in Seq(Nat) /\ kept \in Seq(Nat) /\ Len(a) = Len(matches) /\ Len(kept) = n
      BY <1>4, <1>7
    <3> HIDE DEF a
    <3>2. /\ a \o kept \in Seq(Nat) /\ Len(a \o kept) = Len(a) + Len(kept)
          /\ \A i \in 1..(Len(a) + Len(kept)) : (a \o kept)[i] =
                IF i <= Len(a) THEN a[i] ELSE kept[i - Len(a)]
      BY <3>1, ConcatProperties
    <3>3. /\ a \o kept \in Seq(Nat) /\ Len(a \o kept) = Len(matches) + n
          /\ \A i \in 1..(Len(matches) + n) : (a \o kept)[i] =
                IF i <= Len(matches) THEN a[i] ELSE kept[i - Len(matches)]
      BY <3>1, <3>2
    <3> QED
      BY <3>3 DEF a
  <2>2. ASSUME NEW i \in DOMAIN new PROVE Size(new[i]) = (SizesOf(matches) \o kept)[i]
    <3>1. CASE i \in 1..Len(matches)
      <4>1. i \in 1..(Len(matches) + n) /\ i <= Len(matches) /\ new[i] = matches[i]
        BY <1>6, <3>1
      <4> QED
        BY <1>7, <2>1, <3>1, <4>1
    <3>2. ASSUME NEW j \in 1..n, i = Len(matches) + j
          PROVE  Size(new[i]) = (SizesOf(matches) \o kept)[i]
      <4>1. i \in 1..(Len(matches) + n) /\ ~ (i <= Len(matches)) /\ i - Len(matches) = j
        BY <1>6, <3>2
      <4>2. new[i] = <<current, k, j>>
        BY <1>6, <3>2
      <4>3. (SizesOf(matches) \o kept)[i] = kept[j]
        BY <2>1, <4>1
      <4> QED
        BY <1>4, <1>8, <4>2, <4>3
    <3> QED
      BY <1>6, <3>1, <3>2
  <2>3. SizesOf(new) \in [1..(Len(matches) + n) -> Nat]
    <3>1. \A i \in 1..(Len(matches) + n) : (SizesOf(matches) \o kept)[i] \in Nat
      BY <2>1, ElementOfSeq
    <3> QED
      BY <1>6, <2>2, <3>1 DEF SizesOf
  <2>4. SizesOf(new) \in Seq(Nat) /\ Len(SizesOf(new)) = Len(matches) + n
    BY <1>6, <2>3, FunctionIsSeq
  <2>5. \A i \in 1..(Len(matches) + n) : SizesOf(new)[i] = (SizesOf(matches) \o kept)[i]
    BY <1>6, <2>2 DEF SizesOf
  <2> QED
    BY <2>1, <2>4, <2>5, SeqEqual
<1>10. output_bytes' = Total(SizesOf(new))
  <2>1. output_bytes = Total(SizesOf(matches))
    BY DEF OutputIsBounded, SizesOf
  <2>2. Total(SizesOf(matches) \o kept) = Total(SizesOf(matches)) + Total(kept)
    BY <1>4, <1>7, TotalProperties
  <2> QED
    BY <1>1, <1>9, <2>1, <2>2
<1>11. ASSUME new # <<>> PROVE Len(new) <= args.result_limit /\ output_bytes' <= OutputLimit
  <2>1. CASE n = 0
    <3>1. Total(kept) = 0
      <4>1. kept = <<>>
        BY <1>4, <2>1, EmptySeq
      <4> QED
        BY <4>1, TotalOfFew
    <3>2. output_bytes \in Nat
      BY <1>2 DEF SearchTypeInv
    <3>3. Len(new) = Len(matches) /\ output_bytes' = output_bytes
      BY <1>1, <1>6, <2>1, <3>1, <3>2
    <3>4. matches # <<>>
      <4>1. Len(new) # 0
        <5>1. new \in Seq(Match)
          BY <1>5 DEF GrownBy
        <5> QED
          BY <1>11, <5>1, EmptySeq
      <4>2. Len(matches) # 0
        BY <3>3, <4>1
      <4> QED
        BY <4>2, EmptySeq
    <3> QED
      BY <3>3, <3>4 DEF OutputIsBounded
  <2>2. CASE n # 0
    <3>1. Fits(sizes, n)
      <4>1. n \in 1..n
        BY <1>6, <2>2
      <4> QED
        BY <1>1, <4>1
    <3> QED
      BY <1>1, <1>6, <3>1 DEF Fits, kept
  <2> QED
    BY <2>1, <2>2
<1>12. OutputLimit' = OutputLimit /\ args' = args /\ \A m : Size(m)' = Size(m)
  BY <1>1, <1>2, SameTree DEF Size
<1>13. output_bytes' = Total([i \in DOMAIN matches' |-> Size(matches'[i])])
  BY <1>1, <1>10 DEF SizesOf
<1> QED
  BY <1>1, <1>11, <1>12, <1>13 DEF OutputIsBounded

LEMMA BoundedKeeps ==
    ASSUME WalkInv, OutputIsBounded, Search
    PROVE  OutputIsBounded'
<1>1. SearchTypeInv
  BY DEF WalkInv
<1>2. CASE matches' = matches /\ output_bytes' = output_bytes
  <2>1. OutputLimit' = OutputLimit /\ args' = args
    BY <1>1, OnlyReadsFind, SameTree
  <2> QED
    BY <1>2, <2>1 DEF OutputIsBounded, Size
<1> QED
  BY <1>1, <1>2, OnlyReadsFind, BoundedKept

-----------------------------------------------------------------------------
(* The search of a tree nobody changes.                                    *)

LEMMA VisitedFacts ==
    ASSUME SearchTypeInv
    PROVE  /\ Visited \in Seq(Searchable) /\ Visited \in Seq(Path) /\ Len(Visited) \in Nat
           /\ \A i \in 1..Len(Visited) : Visited[i] \in Searchable
           /\ First(0) = {} /\ First(Len(Visited)) = Searchable
           /\ \A n \in 0..Len(Visited) : IsFiniteSet(First(n))
           /\ \A n \in 0..Len(Visited) : n < Len(Visited) =>
                 /\ First(n + 1) = First(n) \cup {Visited[n + 1]}
                 /\ Visited[n + 1] \notin First(n)
           /\ AllMatches \in Seq(Seq(Match)) /\ Len(AllMatches) = Len(Visited)
           /\ \A i \in 1..Len(Visited) : AllMatches[i] = MatchesIn(Visited[i])
<1>1. /\ Searchable \subseteq Path /\ IsFiniteSet(Searchable)
      /\ \A p \in Searchable : MatchesIn(p) \in Seq(Match)
  BY SearchableFacts
<1>2. /\ Visited \in Seq(Searchable) /\ Rising(Visited)
      /\ \A x \in Searchable : \E n \in 1..Len(Visited) : Visited[n] = x
  BY <1>1, InOrderProperties DEF Visited
<1>3. Len(Visited) \in Nat /\ DOMAIN Visited = 1..Len(Visited)
  BY <1>2, LenProperties
<1> DEFINE v == Visited
<1> HIDE DEF v
<1>4. /\ v \in Seq(Searchable) /\ Rising(v) /\ Len(v) \in Nat /\ v = Visited
      /\ \A x \in Searchable : \E n \in 1..Len(v) : v[n] = x
  BY <1>2, <1>3 DEF v
<1>5. \A i \in 1..Len(v) : v[i] \in Searchable
  BY <1>4, ElementOfSeq
<1>6. v \in Seq(Path)
  BY <1>1, <1>4, SeqMonotonic
<1>7. First(0) = {} /\ First(Len(v)) = Searchable
  BY <1>4, <1>5 DEF First
<1>8. ASSUME NEW n \in 0..Len(v) PROVE IsFiniteSet(First(n))
  <2>1. First(n) \subseteq Searchable
    BY <1>4, <1>5 DEF First
  <2> QED
    BY <1>1, <2>1, FS_Subset
<1>9. ASSUME NEW n \in 0..Len(v), n < Len(v)
      PROVE  First(n + 1) = First(n) \cup {v[n + 1]} /\ v[n + 1] \notin First(n)
  <2>1. n \in Nat /\ n + 1 \in 1..Len(v)
    BY <1>4, <1>9
  <2>2. \A i \in 1..(n + 1) : i \in 1..n \/ i = n + 1
    BY <2>1
  <2>3. \A i \in 1..n : i \in 1..(n + 1)
    BY <2>1
  <2>4. First(n) = {v[i] : i \in 1..n} /\ First(n + 1) = {v[i] : i \in 1..(n + 1)}
    BY <1>4 DEF First
  <2>5. First(n + 1) = First(n) \cup {v[n + 1]}
    BY <2>1, <2>2, <2>3, <2>4
  <2>6. ASSUME NEW i \in 1..n PROVE v[i] # v[n + 1]
    <3>1. i \in 1..Len(v) /\ i < n + 1
      BY <1>4, <2>1
    <3>2. Precedes(v[i], v[n + 1]) /\ v[i] \in Path
      BY <1>1, <1>4, <1>5, <2>1, <3>1 DEF Rising
    <3> QED
      BY <3>2, PrecedesIrreflexive
  <2> QED
    BY <2>4, <2>5, <2>6
<1>10. /\ AllMatches \in Seq(Seq(Match)) /\ Len(AllMatches) = Len(v)
       /\ \A i \in 1..Len(v) : AllMatches[i] = MatchesIn(v[i])
  <2>1. AllMatches = [i \in 1..Len(v) |-> MatchesIn(v[i])]
    BY <1>3, <1>4 DEF AllMatches
  <2>2. \A i \in 1..Len(v) : MatchesIn(v[i]) \in Seq(Match)
    BY <1>1, <1>5
  <2>3. AllMatches \in [1..Len(v) -> Seq(Match)]
    BY <2>1, <2>2
  <2>4. Len(v) \in Nat
    BY <1>4
  <2> DEFINE S == Seq(Match)
  <2>5. AllMatches \in [1..Len(v) -> S]
    BY <2>3
  <2> HIDE DEF S
  <2>6. AllMatches \in Seq(S) /\ Len(AllMatches) = Len(v)
    BY <2>4, <2>5, FunctionIsSeq
  <2>7. \A i \in 1..Len(v) : AllMatches[i] = MatchesIn(v[i])
    BY <2>1
  <2> QED
    BY <2>6, <2>7 DEF S
<1> QED
  BY <1>4, <1>5, <1>6, <1>7, <1>8, <1>9, <1>10

(* The files looked into are counted one by one. *)
LEMMA OneMore ==
    ASSUME SearchTypeInv, NEW n \in 0..Len(Visited), n < Len(Visited)
    PROVE  /\ Visited[n + 1] \in Texts =>
                 /\ Cardinality(First(n + 1) \cap Texts) = Cardinality(First(n) \cap Texts) + 1
                 /\ First(n + 1) \ Texts = First(n) \ Texts
           /\ Visited[n + 1] \notin Texts =>
                 /\ Cardinality(First(n + 1) \ Texts) = Cardinality(First(n) \ Texts) + 1
                 /\ First(n + 1) \cap Texts = First(n) \cap Texts
<1> DEFINE x == Visited[n + 1]
<1>1. First(n + 1) = First(n) \cup {x} /\ x \notin First(n) /\ IsFiniteSet(First(n))
  BY VisitedFacts
<1> HIDE DEF x
<1>2. IsFiniteSet(First(n) \cap Texts) /\ IsFiniteSet(First(n) \ Texts)
  BY <1>1, FS_Subset
<1>3. CASE x \in Texts
  <2>1. First(n + 1) \cap Texts = (First(n) \cap Texts) \cup {x} /\ x \notin First(n) \cap Texts
        /\ First(n + 1) \ Texts = First(n) \ Texts
    BY <1>1, <1>3
  <2> QED
    BY <1>2, <1>3, <2>1, FS_AddElement DEF x
<1>4. CASE x \notin Texts
  <2>1. First(n + 1) \ Texts = (First(n) \ Texts) \cup {x} /\ x \notin First(n) \ Texts
        /\ First(n + 1) \cap Texts = First(n) \cap Texts
    BY <1>1, <1>4
  <2> QED
    BY <1>2, <1>4, <2>1, FS_AddElement DEF x
<1> QED
  BY <1>3, <1>4

LEMMA SameFiles ==
    ASSUME SearchTypeInv, UNCHANGED <<treeVars, args>>
    PROVE  /\ Visited' = Visited /\ Texts' = Texts /\ AllMatches' = AllMatches
           /\ \A n : First(n)' = First(n)
<1>1. tree' = tree /\ Searchable' = Searchable /\ \A p : MatchesIn(p)' = MatchesIn(p)
  BY SameTree
<1>2. Visited' = Visited /\ Texts' = Texts
  BY <1>1 DEF Visited, Texts, IsText
<1> QED
  BY <1>1, <1>2 DEF AllMatches, First

(* What was found and counted in the first n files. *)
ReadTo(n) ==
    /\ matches = FlattenSeq(SubSeq(AllMatches, 1, n))
    /\ searched = Cardinality(First(n) \cap Texts)
    /\ skipped = Cardinality(First(n) \ Texts)

(* When the walk ends, what is to be searched is exactly the files it found. *)
LEMMA QuietWalkEnds ==
    ASSUME WalkInv, NextChild, pc' = "next_file", touched = {}
    PROVE  files = Visited
<1>1. pc = "next_child" /\ Len(stack) = 1 /\ Head(stack) = <<>>
  BY DEF NextChild, Goto
<1>2. SearchTypeInv /\ stack \in Seq(Seq(Paths)) /\ stack # <<>> /\ answer = "none" /\ pc \in Walking
  BY <1>1 DEF WalkInv, PhaseInv, SearchTypeInv, Walking, Looks
<1>3. Ahead(stack) = {}
  <2>1. DOMAIN stack = {1} /\ stack[1] = <<>>
    <3>1. Head(stack) = stack[1] /\ DOMAIN stack = 1..Len(stack)
      BY <1>2, PopProperties
    <3> QED
      BY <1>1, <3>1
  <2> QED
    BY <2>1 DEF Ahead, Range
<1>4. Searchable \subseteq Range(files)
  <2>1. LeftOut = {} /\ Done = {} /\ Awaited = Range(files) \cap Paths
    BY <1>1, <1>2, <1>3 DEF LeftOut, Done, Awaited, Held
  <2>2. Untouched = Paths /\ Searchable \subseteq Paths
    BY <1>2, SearchableFacts
  <2> QED
    BY <1>2, <2>1, <2>2 DEF WalkInv, CoverInv
<1>5. Range(files) \subseteq Searchable /\ Rising(files)
  BY <1>2 DEF WalkInv, QuietWalkInv, OrderInv, FilesInOrder
<1>6. Len(files) \in Nat /\ DOMAIN files = 1..Len(files) /\ files \in [1..Len(files) -> Paths]
  BY <1>2, FilesType, LenProperties DEF SearchTypeInv
<1>7. files \in Seq(Searchable)
  <2>1. \A i \in 1..Len(files) : files[i] \in Searchable
    BY <1>5, <1>6 DEF Range
  <2>2. files \in [1..Len(files) -> Searchable]
    BY <1>6, <2>1
  <2> QED
    BY <1>6, <2>2, FunctionIsSeq
<1>8. \A x \in Searchable : \E i \in 1..Len(files) : files[i] = x
  BY <1>4, <1>6 DEF Range
<1> QED
  BY <1>2, <1>5, <1>7, <1>8, SearchableFacts, InOrderUnique DEF Visited

(* What is being read, or is to be read next, is the next file in order. *)
LEMMA QuietReading ==
    ASSUME WalkInv, QuietReadInv, touched = {}, pc \in Reading, NEW n, n = searched + skipped
    PROVE  /\ n \in 0..Len(Visited) /\ ReadTo(n) /\ (\A i \in 1..n : Visited[i] \notin Denied)
           /\ pc = "next_file" => files = SubSeq(Visited, n + 1, Len(Visited))
           /\ pc \in Held => /\ n < Len(Visited) /\ current = Visited[n + 1]
                             /\ files = SubSeq(Visited, n + 2, Len(Visited))
                             /\ current \in Searchable
           /\ pc = "read" => ~ Content[tree[current]].too_large
<1>1. SearchTypeInv /\ searched \in Nat /\ skipped \in Nat /\ n \in Nat
  BY DEF WalkInv, SearchTypeInv
<1>2. Len(Visited) \in Nat /\ \A i \in 1..Len(Visited) : Visited[i] \in Searchable
  BY <1>1, VisitedFacts
<1>3. /\ n <= Len(Visited) /\ (\A i \in 1..n : Visited[i] \notin Denied)
      /\ pc \in Held => n + 1 <= Len(Visited) /\ current = Visited[n + 1]
      /\ pc = "read" => ~ Content[tree[current]].too_large
      /\ files = SubSeq(Visited, IF pc \in Held THEN n + 2 ELSE n + 1, Len(Visited))
      /\ matches = FlattenSeq(SubSeq(AllMatches, 1, n))
      /\ searched = Cardinality(First(n) \cap Texts)
      /\ skipped = Cardinality(First(n) \ Texts)
  BY DEF QuietReadInv
<1>4. n \in 0..Len(Visited) /\ (pc \in Held => n < Len(Visited) /\ n + 1 \in 1..Len(Visited))
  BY <1>1, <1>2, <1>3
<1>5. pc = "next_file" => pc \notin Held
  BY DEF Held
<1>6. pc = "next_file" => files = SubSeq(Visited, n + 1, Len(Visited))
  BY <1>3, <1>5
<1>7. pc \in Held => files = SubSeq(Visited, n + 2, Len(Visited))
  BY <1>3
<1> QED
  BY <1>2, <1>3, <1>4, <1>6, <1>7 DEF ReadTo

(* A file is passed: the next one is read. *)
LEMMA QuietPassed ==
    ASSUME WalkInv, QuietReadInv, touched = {}, pc \in Held, pc' = "next_file",
           UNCHANGED <<treeVars, args>>, files' = files,
           matches' = matches \o MatchesIn(current), current \notin Denied,
           \/ current \in Texts /\ searched' = searched + 1 /\ skipped' = skipped
           \/ current \notin Texts /\ skipped' = skipped + 1 /\ searched' = searched
    PROVE  QuietReadInv'
<1> DEFINE n == searched + skipped
<1>1. SearchTypeInv /\ pc \in Reading /\ searched \in Nat /\ skipped \in Nat
  BY DEF WalkInv, SearchTypeInv, Reading
<1>2. searched' + skipped' = n + 1 /\ n \in Nat
  BY <1>1
<1> HIDE DEF n
<1>3. /\ n \in 0..Len(Visited) /\ ReadTo(n) /\ n < Len(Visited) /\ current = Visited[n + 1]
      /\ \A i \in 1..n : Visited[i] \notin Denied
      /\ files = SubSeq(Visited, n + 2, Len(Visited))
  BY <1>1, QuietReading DEF n
<1>4. /\ Len(Visited) \in Nat /\ AllMatches \in Seq(Seq(Match)) /\ Len(AllMatches) = Len(Visited)
      /\ \A i \in 1..Len(Visited) : AllMatches[i] = MatchesIn(Visited[i])
  BY <1>1, VisitedFacts
<1>5. n + 1 \in 1..Len(Visited) /\ (n + 1) - 1 = n /\ (n + 1) + 1 = n + 2 /\ n + 1 <= Len(Visited)
  BY <1>2, <1>3, <1>4
<1>6. matches' = FlattenSeq(SubSeq(AllMatches, 1, n + 1))
  <2>1. \A i \in 1..Len(AllMatches) :
           FlattenSeq(SubSeq(AllMatches, 1, i)) = FlattenSeq(SubSeq(AllMatches, 1, i - 1)) \o AllMatches[i]
    BY <1>4, FlattenFirst
  <2>2. FlattenSeq(SubSeq(AllMatches, 1, n + 1)) = FlattenSeq(SubSeq(AllMatches, 1, n)) \o AllMatches[n + 1]
    BY <1>4, <1>5, <2>1
  <2>3. AllMatches[n + 1] = MatchesIn(current) /\ matches = FlattenSeq(SubSeq(AllMatches, 1, n))
    BY <1>3, <1>4, <1>5 DEF ReadTo
  <2> QED
    BY <2>2, <2>3
<1>7. searched' = Cardinality(First(n + 1) \cap Texts) /\ skipped' = Cardinality(First(n + 1) \ Texts)
  BY <1>1, <1>3, OneMore DEF ReadTo
<1>11. \A i \in 1..(n + 1) : Visited[i] \notin Denied
  <2>1. \A i \in 1..(n + 1) : i \in 1..n \/ i = n + 1
    BY <1>2
  <2> QED
    BY <1>3, <2>1
<1>12. Denied' = Denied
  BY <1>1, SameTree
<1>8. Visited' = Visited /\ Texts' = Texts /\ AllMatches' = AllMatches
  BY <1>1, SameFiles
<1>9. pc' \notin Held /\ pc' # "read"
  BY DEF Held
<1>10. First(searched + skipped)' = First(n + 1)
  BY <1>2, <1>8 DEF First
<1> QED
  BY <1>2, <1>3, <1>5, <1>6, <1>7, <1>8, <1>9, <1>10, <1>11, <1>12 DEF QuietReadInv, First

(* A file that is too large or binary is passed. *)
LEMMA QuietSkipped ==
    ASSUME WalkInv, QuietReadInv, touched = {}, NEW from \in Held, Skip(from),
           current \in Searchable => ~ IsText(current) /\ current \notin Denied
    PROVE  QuietReadInv'
<1>1. /\ pc \in Held /\ pc' = "next_file" /\ UNCHANGED <<treeVars, args>> /\ files' = files
      /\ matches' = matches /\ searched' = searched /\ skipped' = skipped + 1
  BY DEF Skip, Goto, walkVars
<1>2. SearchTypeInv /\ pc \in Reading
  BY <1>1 DEF WalkInv, Reading
<1>3. current \in Searchable
  BY <1>1, <1>2, QuietReading
<1>4. MatchesIn(current) = <<>> /\ current \notin Texts /\ current \notin Denied
  BY <1>3 DEF MatchesIn, Texts
<1>5. matches' = matches \o MatchesIn(current)
  <2>1. matches \in Seq(Match)
    BY <1>2 DEF SearchTypeInv
  <2>2. matches \o <<>> = matches
    BY <2>1, ConcatEmptySeq
  <2> QED
    BY <1>1, <1>4, <2>2
<1> QED
  BY <1>1, <1>4, <1>5, QuietPassed

(* All that is in a file is found. *)
LEMMA QuietAllRead ==
    ASSUME WalkInv, QuietReadInv, touched = {}, NEW n, Reads(n), pc' = "next_file"
    PROVE  QuietReadInv'
<1>1. /\ pc = "read" /\ UNCHANGED <<treeVars, args>> /\ files' = files /\ skipped' = skipped
      /\ searched' = searched + 1 /\ ~ Content[tree[current]].binary
      /\ current \notin Denied
      /\ n = Len(Content[tree[current]].sizes)
      /\ matches' = matches \o Found(current, tree[current], n)
  BY DEF Reads, Denied
<1>2. pc \in Held /\ pc \in Reading /\ SearchTypeInv
  BY <1>1 DEF Held, Reading, WalkInv
<1>3. current \in Searchable /\ ~ Content[tree[current]].too_large
  BY <1>1, <1>2, QuietReading
<1>4. current \in Texts /\ IsText(current)
  BY <1>1, <1>3 DEF Texts, IsText
<1>5. MatchesIn(current) = Found(current, tree[current], n)
  <2>1. DOMAIN Content[tree[current]].sizes = 1..n
    BY <1>1, <1>2, <1>3, SearchableFacts, LenProperties
  <2> QED
    BY <1>4, <2>1 DEF MatchesIn, Found
<1> QED
  BY <1>1, <1>2, <1>4, <1>5, QuietPassed

LEMMA QuietKeeps ==
    ASSUME WalkInv, WalkInv', QuietReadInv, Search
    PROVE  QuietReadInv'
<1>1. SearchTypeInv /\ UNCHANGED <<treeVars, args>>
  BY OnlyReadsFind DEF WalkInv
<1>2. touched' = touched
  BY <1>1 DEF treeVars
<1>3. SUFFICES ASSUME touched = {}, pc' \in Reading PROVE QuietReadInv'
  BY <1>2 DEF QuietReadInv
<1>4. /\ Visited' = Visited /\ Texts' = Texts /\ AllMatches' = AllMatches
      /\ \A n : First(n)' = First(n)
  BY <1>1, SameFiles
<1>11. Denied' = Denied
  BY <1>1, SameTree
<1>5. /\ Visited \in Seq(Path) /\ Len(Visited) \in Nat /\ First(0) = {}
      /\ AllMatches \in Seq(Seq(Match)) /\ Len(AllMatches) = Len(Visited)
  BY <1>1, VisitedFacts
<1>6. CASE NextChild
  <2>1. pc' = "next_file" /\ pc = "next_child" /\ files' = files
        /\ matches' = matches /\ searched' = searched /\ skipped' = skipped
    BY <1>3, <1>6 DEF NextChild, Goto, foundVars, Reading, Held
  <2>2. files = Visited
    BY <1>3, <1>6, <2>1, QuietWalkEnds
  <2>3. matches = <<>> /\ searched = 0 /\ skipped = 0
    BY <2>1 DEF WalkInv, PhaseInv, Reading, Held
  <2>4. FlattenSeq(SubSeq(AllMatches, 1, 0)) = <<>>
    BY <1>5, FlattenFirst
  <2>5. SubSeq(Visited, 1, Len(Visited)) = Visited
    BY <1>5, Beginning
  <2>6. Cardinality(First(0) \cap Texts) = 0 /\ Cardinality(First(0) \ Texts) = 0
    BY <1>5, FS_EmptySet
  <2>7. First(searched + skipped)' = First(0) /\ searched' + skipped' = 0
    BY <1>4, <2>1, <2>3 DEF First
  <2>8. pc' \notin Held /\ pc' # "read"
    BY <2>1 DEF Held
  <2> QED
    BY <1>4, <1>5, <1>11, <2>1, <2>2, <2>3, <2>4, <2>5, <2>6, <2>7, <2>8 DEF QuietReadInv, First
<1>7. CASE NextFile
  <2>1. /\ pc = "next_file" /\ files # <<>> /\ pc' = "stat" /\ current' = Head(files)
        /\ files' = Tail(files) /\ matches' = matches /\ searched' = searched /\ skipped' = skipped
    BY <1>3, <1>7 DEF NextFile, End, Goto, foundVars, Reading, Held
  <2> DEFINE n == searched + skipped
  <2>2. searched \in Nat /\ skipped \in Nat /\ n \in Nat /\ pc \in Reading
    BY <1>1, <2>1 DEF SearchTypeInv, Reading
  <2> HIDE DEF n
  <2>3. n \in 0..Len(Visited) /\ ReadTo(n) /\ files = SubSeq(Visited, n + 1, Len(Visited))
        /\ \A i \in 1..n : Visited[i] \notin Denied
    BY <1>3, <2>1, <2>2, QuietReading DEF n
  <2>4. n + 1 \in 1..(Len(Visited) + 1) /\ (n + 1) + 1 = n + 2
    BY <1>5, <2>2, <2>3
  <2>5. n + 1 <= Len(Visited) /\ Head(files) = Visited[n + 1]
        /\ Tail(files) = SubSeq(Visited, n + 2, Len(Visited))
    BY <1>5, <2>1, <2>3, <2>4, Remainder
  <2>6. pc' \in Held /\ pc' # "read" /\ n <= Len(Visited)
    BY <1>5, <2>1, <2>3 DEF Held
  <2>7. First(searched + skipped)' = First(n) /\ searched' + skipped' = n
    BY <1>4, <2>1 DEF First, n
  <2> QED
    BY <1>4, <1>11, <2>1, <2>3, <2>5, <2>6, <2>7 DEF QuietReadInv, ReadTo, First
<1>8. CASE pc = "stat" /\ StatFile
  <2>1. pc \in Held /\ pc \in Reading
    BY <1>8 DEF Held, Reading
  <2>2. CASE Skip("stat") /\ (tree[current] = "directory" \/ (tree[current] \in Files /\ Content[tree[current]].too_large))
    <3>1. current \in Searchable => ~ IsText(current) /\ current \notin Denied
      BY <1>1, <2>2, SearchableFacts DEF IsText, Denied
    <3> QED
      BY <1>3, <2>2, <3>1, QuietSkipped DEF Held
  <2>3. CASE Step("stat", "read") /\ (tree[current] = "directory" \/ (tree[current] \in Files /\ ~ Content[tree[current]].too_large))
    <3>1. /\ pc' = "read" /\ current' = current /\ files' = files /\ matches' = matches
          /\ searched' = searched /\ skipped' = skipped
      BY <2>3 DEF Step, Goto, walkVars, foundVars
    <3>2. current \in Searchable
      BY <1>3, <2>1, QuietReading
    <3>3. ~ Content[tree[current]].too_large
      BY <1>1, <2>3, <3>2, SearchableFacts
    <3>4. pc' \in Held
      BY <3>1 DEF Held
    <3>5. tree' = tree /\ searched' + skipped' = searched + skipped
      BY <1>1, <3>1 DEF treeVars
    <3>6. First(searched + skipped)' = First(searched + skipped)
      BY <1>4, <3>1 DEF First
    <3> QED
      BY <1>3, <1>4, <1>11, <2>1, <3>1, <3>3, <3>4, <3>5, <3>6 DEF QuietReadInv, First
  <2>4. ~ (tree[current] = "none" /\ End("stat", "os_error"))
    BY <1>3 DEF End, Goto, Reading, Held
  <2> QED
    BY <1>8, <2>2, <2>3, <2>4 DEF StatFile
<1>9. CASE ReadFile
  <2>1. CASE Skip("read") /\ Content[tree[current]].binary /\ current \notin unreadable
    <3>1. current \in Searchable => ~ IsText(current) /\ current \notin Denied
      BY <2>1 DEF IsText, Denied
    <3> QED
      BY <1>3, <2>1, <3>1, QuietSkipped DEF Held
  <2>2. ASSUME NEW n, Reads(n) PROVE QuietReadInv'
    <3>1. pc' = "next_file"
      BY <1>3, <2>2 DEF Reads, Reading, Held
    <3> QED
      BY <1>3, <2>2, <3>1, QuietAllRead
  <2>3. ~ End("read", "os_error")
    BY <1>3 DEF End, Goto, Reading, Held
  <2> QED
    BY <1>1, <1>9, <2>1, <2>2, <2>3, ReadFileIs
<1>10. CASE \/ Validate \/ Resolve \/ CheckDirectory \/ Open \/ IsSymlink \/ IsDirectory
            \/ IsFile \/ ResolveChild
  BY <1>3, <1>10 DEF Validate, Resolve, CheckDirectory, Open, IsSymlink, IsDirectory, IsFile,
                     ResolveChild, Step, End, Goto, Reading, Held
<1> QED
  BY <1>6, <1>7, <1>8, <1>9, <1>10 DEF Search

(* A search that looked into all the files is complete. *)
LEMMA QuietComplete ==
    ASSUME WalkInv, QuietReadInv, touched = {}, pc = "next_file", files = <<>>
    PROVE  LET all == FlattenSeq(AllMatches)
           IN /\ all \in Seq(Match) /\ matches = all
              /\ searched = Cardinality(Texts) /\ skipped = Cardinality(Searchable \ Texts)
              /\ \A i \in 1..Len(Visited) : Visited[i] \notin Denied
<1> DEFINE n == searched + skipped
<1>1. SearchTypeInv /\ pc \in Reading /\ searched \in Nat /\ skipped \in Nat /\ n \in Nat
  BY DEF WalkInv, SearchTypeInv, Reading
<1> HIDE DEF n
<1>2. /\ n \in 0..Len(Visited) /\ ReadTo(n) /\ files = SubSeq(Visited, n + 1, Len(Visited))
      /\ \A i \in 1..n : Visited[i] \notin Denied
  BY <1>1, QuietReading DEF n
<1>3. /\ Visited \in Seq(Path) /\ Len(Visited) \in Nat /\ First(Len(Visited)) = Searchable
      /\ AllMatches \in Seq(Seq(Match)) /\ Len(AllMatches) = Len(Visited)
  BY <1>1, VisitedFacts
<1>4. n = Len(Visited)
  <2>1. n + 1 \in 1..(Len(Visited) + 1)
    BY <1>1, <1>2, <1>3
  <2>2. n + 1 = Len(Visited) + 1
    BY <1>2, <1>3, <2>1, Remainder
  <2> QED
    BY <1>1, <1>3, <2>2
<1>5. /\ FlattenSeq(SubSeq(AllMatches, 1, n)) = FlattenSeq(AllMatches)
      /\ FlattenSeq(SubSeq(AllMatches, 1, n)) \in Seq(Match)
  BY <1>2, <1>3, <1>4, FlattenFirst
<1>6. Searchable \cap Texts = Texts
  BY DEF Texts
<1> QED
  BY <1>2, <1>3, <1>4, <1>5, <1>6 DEF ReadTo

(* A search that is cut short gives all up to the first match that does not fit. *)
LEMMA QuietTruncated ==
    ASSUME WalkInv, QuietReadInv, OutputIsBounded', touched = {}, NEW n, Reads(n), pc' = "done"
    PROVE  LET all == FlattenSeq(AllMatches)
               found == Len(matches')
           IN /\ found < Len(all) /\ matches' = SubSeq(all, 1, found)
              /\ \/ found = args.result_limit
                 \/ output_bytes' + Size(all[found + 1]) > OutputLimit
              /\ Visited[searched' + skipped'] = all[found + 1][1]
<1> DEFINE k == tree[current]
           sizes == Content[k].sizes
           i == searched + skipped
           all == FlattenSeq(AllMatches)
           before == FlattenSeq(SubSeq(AllMatches, 1, i))
           after == FlattenSeq(SubSeq(AllMatches, 1, i + 1))
           new == matches \o Found(current, k, n)
<1>1. /\ pc = "read" /\ UNCHANGED <<treeVars, args>> /\ k \in Files /\ ~ Content[k].binary
      /\ n \in 0..Len(sizes) /\ n < Len(sizes) /\ ~ Fits(sizes, n + 1)
      /\ skipped' = skipped /\ searched' = searched + 1
      /\ matches' = new /\ output_bytes' = output_bytes + Total(SubSeq(sizes, 1, n))
      /\ answer' = "truncated"
  BY DEF Reads
<1>2. pc \in Held /\ pc \in Reading /\ SearchTypeInv /\ ~ Invalid
      /\ searched \in Nat /\ skipped \in Nat /\ output_bytes \in Nat
  <2>1. pc \in Held /\ pc \in Reading /\ pc \notin {"call", "done"}
    BY <1>1 DEF Held, Reading
  <2> QED
    BY <2>1 DEF WalkInv, PhaseInv, SearchTypeInv
<1>3. /\ i \in 0..Len(Visited) /\ ReadTo(i) /\ i < Len(Visited) /\ current = Visited[i + 1]
      /\ current \in Searchable /\ ~ Content[k].too_large
  BY <1>1, <1>2, QuietReading
<1>4. /\ Len(Visited) \in Nat /\ AllMatches \in Seq(Seq(Match)) /\ Len(AllMatches) = Len(Visited)
      /\ \A j \in 1..Len(Visited) : AllMatches[j] = MatchesIn(Visited[j])
  BY <1>2, VisitedFacts
<1>5. sizes \in Seq(Nat) /\ Len(sizes) \in Nat /\ DOMAIN sizes = 1..Len(sizes)
  BY <1>1, <1>2, Arguments, LenProperties
<1>6. GrownBy(new, n)
  BY <1>1, <1>2, MatchesGrow
<1>7. /\ new \in Seq(Match) /\ Len(new) = Len(matches) + n /\ Len(matches) \in Nat /\ n \in Nat
      /\ \A m \in 1..Len(matches) : new[m] = matches[m]
      /\ \A j \in 1..n : new[Len(matches) + j] = <<current, k, j>>
      /\ \A m \in 1..(Len(matches) + n) : m \in 1..Len(matches) \/ \E j \in 1..n : m = Len(matches) + j
  BY <1>6 DEF GrownBy
<1>8. matches = before /\ searched' + skipped' = i + 1
  <2>1. matches = before
    BY <1>2, <1>3 DEF ReadTo
  <2>2. searched' + skipped' = (searched + 1) + skipped
    BY <1>1
  <2>3. (searched + 1) + skipped = (searched + skipped) + 1
    BY <1>2
  <2> QED
    BY <2>1, <2>2, <2>3
<1>9. MatchesIn(current) = [j \in 1..Len(sizes) |-> <<current, k, j>>]
      /\ MatchesIn(current) \in Seq(Match) /\ Len(MatchesIn(current)) = Len(sizes)
  <2>1. MatchesIn(current) = [j \in 1..Len(sizes) |-> <<current, k, j>>]
    BY <1>1, <1>3, <1>5 DEF MatchesIn, IsText
  <2>2. MatchesIn(current) \in Seq(Match)
    BY <1>2, <1>3, SearchableFacts
  <2>3. DOMAIN MatchesIn(current) = 1..Len(sizes)
    BY <2>1
  <2> QED
    BY <1>5, <2>1, <2>2, <2>3, LenProperties
<1>10. i \in Nat /\ i + 1 \in 1..Len(AllMatches) /\ (i + 1) - 1 = i /\ i + 1 \in 0..Len(AllMatches)
       /\ AllMatches[i + 1] = MatchesIn(current)
  BY <1>2, <1>3, <1>4
<1>11. after = before \o MatchesIn(current)
  <2>1. \A j \in 1..Len(AllMatches) :
           FlattenSeq(SubSeq(AllMatches, 1, j)) = FlattenSeq(SubSeq(AllMatches, 1, j - 1)) \o AllMatches[j]
    BY <1>4, FlattenFirst
  <2> QED
    BY <1>10, <2>1
<1>12. /\ after \in Seq(Match) /\ all \in Seq(Match) /\ Len(after) <= Len(all)
       /\ \A j \in 1..Len(after) : after[j] = all[j]
  BY <1>4, <1>10, FlattenBegins
<1>13. ~ (args.result_limit < 1) /\ args.result_limit \in Int
  BY <1>2, Arguments DEF Invalid
<1>14. output_bytes' = output_bytes + Total(SubSeq(sizes, 1, n))
       /\ Total(SubSeq(sizes, 1, n + 1)) = Total(SubSeq(sizes, 1, n)) + sizes[n + 1]
       /\ Total(SubSeq(sizes, 1, n)) \in Nat /\ sizes[n + 1] \in Nat
  <2>1. n + 1 \in 1..Len(sizes)
    BY <1>1, <1>5
  <2> QED
    BY <1>1, <1>5, <2>1, TotalOfFirst, ElementOfSeq
<1>15. \A j : Size(<<current, k, j>>) = sizes[j]
  BY DEF Size
<1>16. ~ Fits(sizes, n + 1) <=>
          \/ ~ (Len(matches) + (n + 1) <= args.result_limit)
          \/ ~ (output_bytes + Total(SubSeq(sizes, 1, n + 1)) <= OutputLimit)
  BY DEF Fits
<1>17. OutputLimit \in Int
  BY <1>2, Arguments DEF OutputLimit
<1>18. matches' # <<>> => Len(matches') <= args.result_limit
  BY <1>1 DEF OutputIsBounded
<1> HIDE DEF i, all, before, after, new, sizes, k
<1>19. /\ Len(after) = Len(matches) + Len(sizes)
       /\ \A j \in 1..(Len(matches) + Len(sizes)) :
             after[j] = IF j <= Len(matches) THEN matches[j] ELSE MatchesIn(current)[j - Len(matches)]
  <2>1. matches \in Seq(Match) /\ after = matches \o MatchesIn(current)
    BY <1>2, <1>8, <1>11 DEF SearchTypeInv
  <2>2. /\ Len(matches \o MatchesIn(current)) = Len(matches) + Len(MatchesIn(current))
        /\ \A j \in 1..(Len(matches) + Len(MatchesIn(current))) :
             (matches \o MatchesIn(current))[j] =
                IF j <= Len(matches) THEN matches[j] ELSE MatchesIn(current)[j - Len(matches)]
    BY <1>9, <2>1, ConcatProperties
  <2>3. Len(MatchesIn(current)) = Len(sizes)
    BY <1>9
  <2> QED
    BY <2>1, <2>2, <2>3
<1>20. Len(new) < Len(after) /\ Len(new) < Len(all) /\ Len(new) + 1 \in 1..Len(after)
       /\ Len(after) \in Nat /\ Len(all) \in Nat /\ Len(new) \in 0..Len(all)
  <2>1. Len(new) < Len(after) /\ Len(after) \in Nat /\ Len(new) \in Nat
    BY <1>1, <1>5, <1>7, <1>19
  <2>2. Len(all) \in Nat
    BY <1>12, LenProperties
  <2> QED
    BY <1>12, <2>1, <2>2
<1>21. ASSUME NEW m \in 1..Len(new) PROVE new[m] = all[m]
  <2>1. m \in 1..(Len(matches) + n) /\ m \in 1..Len(after) /\ m \in 1..(Len(matches) + Len(sizes))
    BY <1>1, <1>5, <1>7, <1>19, <1>20
  <2>2. CASE m \in 1..Len(matches)
    <3>1. m <= Len(matches)
      BY <2>2
    <3> QED
      BY <1>7, <1>12, <1>19, <2>1, <2>2, <3>1
  <2>3. ASSUME NEW j \in 1..n, m = Len(matches) + j PROVE new[m] = all[m]
    <3>1. ~ (m <= Len(matches)) /\ m - Len(matches) = j /\ j \in 1..Len(sizes)
      <4>1. n \in 0..Len(sizes) /\ Len(sizes) \in Nat /\ Len(matches) \in Nat /\ j \in 1..n
        BY <1>1, <1>5, <1>7
      <4>2. j \in 1..Len(sizes) /\ j \in Nat /\ j > 0
        BY <4>1
      <4> QED
        BY <2>3, <4>1, <4>2
    <3>2. new[m] = <<current, k, j>>
      BY <1>7, <2>3
    <3>3. after[m] = MatchesIn(current)[j]
      BY <1>19, <2>1, <3>1
    <3>4. MatchesIn(current)[j] = <<current, k, j>>
      BY <1>9, <3>1
    <3> QED
      BY <1>12, <2>1, <3>2, <3>3, <3>4
  <2> QED
    BY <1>7, <2>1, <2>2, <2>3
<1>22. all[Len(new) + 1] = <<current, k, n + 1>>
  <2> DEFINE m == Len(new) + 1
  <2>1. /\ m \in 1..Len(after) /\ m \in 1..(Len(matches) + Len(sizes)) /\ ~ (m <= Len(matches))
        /\ m - Len(matches) = n + 1 /\ n + 1 \in 1..Len(sizes)
    BY <1>1, <1>5, <1>7, <1>19, <1>20
  <2> HIDE DEF m
  <2>2. after[m] = MatchesIn(current)[n + 1]
    BY <1>19, <2>1
  <2>3. MatchesIn(current)[n + 1] = <<current, k, n + 1>>
    BY <1>9, <2>1
  <2> QED
    BY <1>12, <2>1, <2>2, <2>3 DEF m
<1>23. new = SubSeq(all, 1, Len(new))
  <2> DEFINE part == SubSeq(all, 1, Len(new))
  <2>1. part \in Seq(Match) /\ Len(part) = Len(new) /\ \A m \in 1..Len(new) : part[m] = all[m]
    BY <1>12, <1>20, FirstOf
  <2> HIDE DEF part
  <2>2. \A m \in 1..Len(new) : new[m] = part[m]
    BY <1>21, <2>1
  <2>3. new = part
    BY <1>7, <2>1, <2>2, SeqEqual
  <2> QED
    BY <2>3 DEF part
<1>24. Len(new) = args.result_limit \/ output_bytes' + sizes[n + 1] > OutputLimit
  <2>1. CASE ~ (output_bytes + Total(SubSeq(sizes, 1, n + 1)) <= OutputLimit)
    <3> DEFINE a == Total(SubSeq(sizes, 1, n))
               b == Total(SubSeq(sizes, 1, n + 1))
               c == sizes[n + 1]
    <3>1. /\ a \in Nat /\ c \in Nat /\ b = a + c /\ output_bytes' = output_bytes + a
          /\ ~ (output_bytes + b <= OutputLimit)
      BY <1>14, <2>1
    <3> HIDE DEF a, b, c
    <3>2. output_bytes' + c > OutputLimit
      BY <1>2, <1>17, <3>1
    <3> QED
      BY <3>2 DEF c
  <2>2. CASE ~ (Len(matches) + (n + 1) <= args.result_limit)
    <3>1. Len(new) + 1 > args.result_limit
      BY <1>7, <1>13, <2>2
    <3>2. Len(new) <= args.result_limit
      <4>1. CASE new = <<>>
        <5>1. Len(new) = 0
          BY <4>1, EmptySeq
        <5> QED
          BY <1>13, <5>1
      <4>2. CASE new # <<>>
        BY <1>1, <1>18, <4>2
      <4> QED
        BY <4>1, <4>2
    <3> QED
      BY <1>7, <1>13, <3>1, <3>2
  <2> QED
    BY <1>1, <1>16, <2>1, <2>2
<1>25. Size(all[Len(new) + 1]) = sizes[n + 1] /\ all[Len(new) + 1][1] = current
  <2>1. <<current, k, n + 1>>[1] = current
    OBVIOUS
  <2> QED
    BY <1>15, <1>22, <2>1
<1>26. /\ Len(matches') < Len(all) /\ matches' = SubSeq(all, 1, Len(matches'))
       /\ \/ Len(matches') = args.result_limit
          \/ output_bytes' + Size(all[Len(matches') + 1]) > OutputLimit
       /\ Visited[searched' + skipped'] = all[Len(matches') + 1][1]
  BY <1>1, <1>3, <1>8, <1>20, <1>23, <1>24, <1>25
<1> QED
  BY <1>26 DEF all

-----------------------------------------------------------------------------
(* What the search is denied.                                              *)

LEMMA NothingBarred ==
    ASSUME WalkInv, BarredInv, touched = {}, pc \in Reading
    PROVE  Barred = {}
<1>1. stack = <<>> /\ pc \notin {"open", "is_symlink", "is_directory"}
  BY DEF WalkInv, PhaseInv, Reading, Held
<1>2. ToWalk = {}
  BY <1>1, NothingAhead DEF ToWalk
<1> QED
  BY <1>2 DEF BarredInv

(* As long as nothing changes, the walk gets to every directory it may look into. *)
LEMMA BarredKeeps ==
    ASSUME WalkInv, BarredInv, Search
    PROVE  BarredInv'
<1>1. SearchTypeInv /\ UNCHANGED <<treeVars, args>>
  BY OnlyReadsFind DEF WalkInv
<1>2. touched' = touched /\ Barred' = Barred
  BY <1>1, SameTree
<1>3. SUFFICES ASSUME touched = {}, pc' \in Walking \cup Reading \/ Ended', NEW d \in Barred
               PROVE  d \in ToWalk'
  BY <1>2 DEF BarredInv
<1>4. /\ d \in Paths /\ d \in Path /\ tree[d] = "directory" /\ tree[d] # "none" /\ d \in unreadable
      /\ d = args.directory \/ d \in Reachable(args.directory)
      /\ args.directory \in Path /\ current \in Path /\ current \in Paths
      /\ TreeTypeOK /\ Len(args.directory) \in Nat
  <2>1. args.directory \in Paths
    BY <1>1, Arguments
  <2>2. d \in Paths
    BY <2>1 DEF Barred, Reachable
  <2> QED
    BY <1>1, <2>2, Arguments, PathsArePaths DEF Barred, SearchTypeInv
<1>5. pc \in Walking \cup Reading => d \in ToWalk
  BY <1>3 DEF BarredInv
<1>6. CASE Validate \/ Resolve
  <2>1. pc \in {"call", "resolve"} /\ pc' \in {"resolve", "check_directory", "done"} /\ ~ Ended'
    BY <1>6 DEF Validate, Resolve, Step, End, Goto, WalkInv, PhaseInv, Ended
  <2> QED
    BY <1>3, <2>1 DEF Walking, Looks, Reading, Held
<1>7. CASE CheckDirectory
  <2>1. pc' = "open" /\ current' = args.directory
    BY <1>3, <1>7 DEF CheckDirectory, End, Goto, Ended, Walking, Looks, Reading, Held
  <2>2. IsPrefix(args.directory, d)
    BY <1>4, PrefixFacts DEF Reachable
  <2> QED
    BY <1>4, <2>1, <2>2 DEF ToWalk
<1>8. CASE Open
  <2>1. /\ pc = "open" /\ MayList(current) /\ stack' = <<Children(current)>> \o stack
    BY <1>3, <1>8 DEF Open, End, Goto, Ended, Walking, Looks, Reading, Held
  <2>2. Ahead(stack') = Range(Children(current)) \cup Ahead(stack)
    BY <2>1, OpenedAhead
  <2>3. d # current
    BY <1>4, <2>1 DEF MayList
  <2>4. (\E x \in Ahead(stack) : IsPrefix(x, d)) \/ IsPrefix(current, d)
    BY <1>5, <2>1 DEF ToWalk, Walking
  <2>5. IsPrefix(current, d) => IsStrictPrefix(current, d)
    BY <1>4, <2>3, PrefixFacts
  <2>6. IsStrictPrefix(current, d) => \E x \in Range(Children(current)) : IsPrefix(x, d)
    BY <1>4, ChildrenFacts
  <2> QED
    BY <1>4, <2>2, <2>4, <2>5, <2>6 DEF ToWalk
<1>9. CASE NextChild
  <2>1. pc = "next_child" /\ stack # <<>> /\ stack \in Seq(Seq(Path)) /\ InPlace(stack, args.directory)
    BY <1>1, <1>9, StackType DEF NextChild, WalkInv, PhaseInv, DepthInv, SearchTypeInv
  <2>2. PICK y \in Ahead(stack) : IsPrefix(y, d)
    BY <1>5, <2>1 DEF ToWalk, Walking
  <2>3. CASE Head(stack) = <<>>
    <3>1. stack' = Tail(stack) /\ Range(Head(stack)) = {}
      BY <1>9, <2>3 DEF NextChild, Range
    <3>2. Ahead(stack) = Range(Head(stack)) \cup Ahead(Tail(stack))
      BY <1>4, <2>1, LeaveWalk, Zenon
    <3> QED
      BY <1>4, <2>2, <3>1, <3>2 DEF ToWalk
  <2>4. CASE Head(stack) # <<>>
    <3> DEFINE x == Head(Head(stack))
               rest == <<Tail(Head(stack))>> \o Tail(stack)
    <3>1. pc' = "is_symlink" /\ current' = x /\ stack' = rest
      BY <1>9, <2>4 DEF NextChild, Goto
    <3>2. Ahead(stack) = {x} \cup Ahead(rest)
      BY <1>4, <2>1, <2>4, PickInWalk, Zenon
    <3> HIDE DEF x, rest
    <3> QED
      BY <1>4, <2>2, <3>1, <3>2 DEF ToWalk
  <2> QED
    BY <2>3, <2>4
<1>10. CASE IsSymlink \/ IsDirectory
  <2>1. /\ pc \in {"is_symlink", "is_directory"} /\ stack' = stack /\ current' = current
        /\ tree[current] = "directory" =>
              pc' \in {"is_directory", "open"} \/ (Name(current) \in ExcludedNames /\ pc = "is_directory")
    BY <1>10 DEF IsSymlink, IsDirectory, Step, Goto, walkVars
  <2>2. (\E x \in Ahead(stack) : IsPrefix(x, d)) \/ IsPrefix(current, d)
    BY <1>5, <2>1 DEF ToWalk, Walking, Looks
  <2>3. CASE \E x \in Ahead(stack) : IsPrefix(x, d)
    BY <1>4, <2>1, <2>3 DEF ToWalk
  <2>4. CASE IsPrefix(current, d)
    <3>1. tree[current] = "directory"
      BY <1>4, <2>4, TheWayThere
    <3>2. Name(current) \notin ExcludedNames
      <4>1. IsStrictPrefix(args.directory, current)
        BY <2>1 DEF WalkInv, DepthInv, Looks
      <4>2. d # args.directory
        <5>1. Len(args.directory) < Len(current)
          BY <1>4, <4>1, PrefixFacts
        <5>2. Len(current) <= Len(d) /\ Len(current) \in Nat /\ Len(d) \in Nat
          BY <1>4, <2>4, PrefixAt, PathType
        <5> QED
          BY <1>4, <5>1, <5>2
      <4>3. ~ Excluded(current)
        BY <1>4, <2>4, <4>1, <4>2 DEF Reachable
      <4> QED
        BY <3>1, <4>3 DEF Excluded
    <3> QED
      BY <1>4, <2>1, <2>4, <3>1, <3>2 DEF ToWalk
  <2> QED
    BY <2>2, <2>3, <2>4
<1>11. CASE IsFile \/ ResolveChild \/ NextFile \/ (pc = "stat" /\ StatFile) \/ ReadFile
  <2>1. pc \in {"is_file", "resolve_child"} \cup Reading /\ stack' = stack
    <3>1. CASE ReadFile
      <4>1. pc = "read"
        BY <3>1 DEF ReadFile
      <4> QED
        BY <1>1, <3>1, <4>1, ReadFileIs DEF Reads, End, Skip, walkVars, Reading, Held
    <3> QED
      BY <1>11, <3>1 DEF IsFile, ResolveChild, NextFile, StatFile, Step, End, Skip, Goto, walkVars,
                         Reading, Held
  <2>2. \E x \in Ahead(stack) : IsPrefix(x, d)
    BY <1>5, <2>1 DEF ToWalk, Walking, Looks, Reading, Held
  <2> QED
    BY <1>4, <2>1, <2>2 DEF ToWalk
<1> QED
  BY <1>6, <1>7, <1>8, <1>9, <1>10, <1>11 DEF Search

(* The first sizes are not more than all of them. *)
LEMMA TotalGrows ==
    ASSUME NEW sizes \in Seq(Nat), NEW n \in 0..Len(sizes)
    PROVE  Total(SubSeq(sizes, 1, n)) <= Total(sizes)
<1> DEFINE T(m) == Total(SubSeq(sizes, 1, m))
           S == {m \in n..Len(sizes) : T(n) <= T(m)}
<1>1. Len(sizes) \in Nat /\ n \in Nat
  BY LenProperties
<1>2. \A m \in 0..Len(sizes) : /\ T(m) \in Nat
                               /\ m < Len(sizes) => T(m + 1) = T(m) + sizes[m + 1] /\ sizes[m + 1] \in Nat
  BY <1>1, TotalOfFirst, ElementOfSeq
<1> HIDE DEF T
<1>3. n \in S
  BY <1>1, <1>2
<1>4. ASSUME NEW m \in n..Len(sizes), m # Len(sizes), m \in S PROVE m + 1 \in S
  <2>1. m \in 0..Len(sizes) /\ m < Len(sizes) /\ m + 1 \in n..Len(sizes)
    BY <1>1, <1>4
  <2>2. T(m + 1) = T(m) + sizes[m + 1] /\ sizes[m + 1] \in Nat /\ T(m) \in Nat /\ T(n) \in Nat
    BY <1>2, <2>1
  <2> QED
    BY <1>4, <2>1, <2>2
<1> HIDE DEF S
<1>5. \A m \in n..Len(sizes) : m \in S
  BY <1>1, <1>3, <1>4, StepByStep
<1>6. T(n) <= T(Len(sizes))
  BY <1>1, <1>5 DEF S
<1>7. SubSeq(sizes, 1, Len(sizes)) = sizes
  BY <1>1, FirstOf
<1> QED
  BY <1>6, <1>7 DEF T

(* Matches there are. *)
Real == {m \in Match : m[3] \in DOMAIN Content[m[2]].sizes}

LEMMA SizesJoin ==
    ASSUME NEW s \in Seq(Real), NEW t \in Seq(Real)
    PROVE  /\ SizesOf(s) \in Seq(Nat) /\ Len(SizesOf(s)) = Len(s)
           /\ SizesOf(s \o t) = SizesOf(s) \o SizesOf(t)
<1>1. \A m \in Real : Size(m) \in Nat
  <2>1. SUFFICES ASSUME NEW m \in Real PROVE Size(m) \in Nat
    OBVIOUS
  <2>2. m[2] \in Files /\ m[3] \in DOMAIN Content[m[2]].sizes
    BY DEF Real, Match
  <2>3. Content[m[2]].sizes \in Seq(Nat)
    BY <2>2, SearchAssumption
  <2> QED
    BY <2>2, <2>3, ElementOfSeq, LenProperties DEF Size
<1>2. ASSUME NEW r \in Seq(Real)
      PROVE  /\ SizesOf(r) \in Seq(Nat) /\ Len(SizesOf(r)) = Len(r) /\ Len(r) \in Nat
             /\ \A i \in 1..Len(r) : SizesOf(r)[i] = Size(r[i])
  <2>1. Len(r) \in Nat /\ DOMAIN r = 1..Len(r) /\ \A i \in 1..Len(r) : r[i] \in Real
    BY LenProperties, ElementOfSeq
  <2>2. SizesOf(r) \in [1..Len(r) -> Nat]
    BY <1>1, <2>1 DEF SizesOf
  <2> QED
    BY <2>1, <2>2, FunctionIsSeq DEF SizesOf
<1>3. /\ s \o t \in Seq(Real) /\ Len(s \o t) = Len(s) + Len(t)
      /\ \A i \in 1..(Len(s) + Len(t)) : (s \o t)[i] = IF i <= Len(s) THEN s[i] ELSE t[i - Len(s)]
  BY ConcatProperties
<1>4. /\ SizesOf(s) \in Seq(Nat) /\ Len(SizesOf(s)) = Len(s) /\ Len(s) \in Nat
      /\ SizesOf(t) \in Seq(Nat) /\ Len(SizesOf(t)) = Len(t) /\ Len(t) \in Nat
      /\ SizesOf(s \o t) \in Seq(Nat) /\ Len(SizesOf(s \o t)) = Len(s) + Len(t)
      /\ \A i \in 1..Len(s) : SizesOf(s)[i] = Size(s[i])
      /\ \A i \in 1..Len(t) : SizesOf(t)[i] = Size(t[i])
      /\ \A i \in 1..(Len(s) + Len(t)) : SizesOf(s \o t)[i] = Size((s \o t)[i])
  BY <1>2, <1>3
<1>5. /\ SizesOf(s) \o SizesOf(t) \in Seq(Nat) /\ Len(SizesOf(s) \o SizesOf(t)) = Len(s) + Len(t)
      /\ \A i \in 1..(Len(s) + Len(t)) :
            (SizesOf(s) \o SizesOf(t))[i] = IF i <= Len(s) THEN SizesOf(s)[i] ELSE SizesOf(t)[i - Len(s)]
  <2> DEFINE f == SizesOf(s)
             g == SizesOf(t)
  <2>1. f \in Seq(Nat) /\ Len(f) = Len(s) /\ g \in Seq(Nat) /\ Len(g) = Len(t)
    BY <1>4
  <2> HIDE DEF f, g
  <2>2. /\ f \o g \in Seq(Nat) /\ Len(f \o g) = Len(f) + Len(g)
        /\ \A i \in 1..(Len(f) + Len(g)) : (f \o g)[i] = IF i <= Len(f) THEN f[i] ELSE g[i - Len(f)]
    BY <2>1, ConcatProperties
  <2> QED
    BY <2>1, <2>2 DEF f, g
<1>6. ASSUME NEW i \in 1..(Len(s) + Len(t)) PROVE SizesOf(s \o t)[i] = (SizesOf(s) \o SizesOf(t))[i]
  <2>1. CASE i <= Len(s)
    <3>1. i \in 1..Len(s)
      BY <1>4, <2>1
    <3> QED
      BY <1>3, <1>4, <1>5, <2>1, <3>1
  <2>2. CASE ~ (i <= Len(s))
    <3>1. i - Len(s) \in 1..Len(t)
      BY <1>4, <2>2
    <3> QED
      BY <1>3, <1>4, <1>5, <2>2, <3>1
  <2> QED
    BY <2>1, <2>2
<1> QED
  BY <1>4, <1>5, <1>6, SeqEqual

(* All that is to be found in the first n files. *)
FoundIn(n) == FlattenSeq(SubSeq(AllMatches, 1, n))

LEMMA FoundInFacts ==
    ASSUME SearchTypeInv
    PROVE  /\ \A n \in 0..Len(Visited) : /\ FoundIn(n) \in Seq(Real)
                                         /\ FitsUpTo(n) <=> /\ Len(FoundIn(n)) <= args.result_limit
                                                            /\ Total(SizesOf(FoundIn(n))) <= OutputLimit
           /\ \A n \in 0..Len(Visited) : n < Len(Visited) =>
                 FoundIn(n + 1) = FoundIn(n) \o MatchesIn(Visited[n + 1])
           /\ \A p \in Searchable : MatchesIn(p) \in Seq(Real)
<1>1. /\ Len(Visited) \in Nat /\ DOMAIN Visited = 1..Len(Visited) /\ Len(AllMatches) = Len(Visited)
      /\ \A i \in 1..Len(Visited) : Visited[i] \in Searchable /\ AllMatches[i] = MatchesIn(Visited[i])
  BY VisitedFacts, LenProperties
<1>2. ASSUME NEW p \in Searchable PROVE MatchesIn(p) \in Seq(Real)
  <2>1. MatchesIn(p) \in Seq(Match) /\ Content[tree[p]].sizes \in Seq(Nat) /\ tree[p] \in Files
    BY SearchableFacts
  <2>2. DOMAIN MatchesIn(p) = 1..Len(MatchesIn(p)) /\ Len(MatchesIn(p)) \in Nat
        /\ \A i \in 1..Len(MatchesIn(p)) : MatchesIn(p)[i] \in Match
    BY <2>1, LenProperties, ElementOfSeq
  <2>3. ASSUME NEW i \in 1..Len(MatchesIn(p)) PROVE MatchesIn(p)[i] \in Real
    <3>1. MatchesIn(p) # <<>>
      BY <2>2, <2>3, EmptySeq
    <3>2. MatchesIn(p) = [j \in DOMAIN Content[tree[p]].sizes |-> <<p, tree[p], j>>]
      BY <3>1 DEF MatchesIn
    <3>3. i \in DOMAIN Content[tree[p]].sizes
      BY <2>2, <3>2
    <3>4. MatchesIn(p)[i] = <<p, tree[p], i>>
      BY <3>2, <3>3
    <3> QED
      BY <2>2, <3>3, <3>4 DEF Real
  <2>4. MatchesIn(p) \in [1..Len(MatchesIn(p)) -> Real]
    BY <2>1, <2>2, <2>3, LenProperties
  <2> QED
    BY <2>2, <2>4, FunctionIsSeq
<1> DEFINE S == Seq(Real)
<1>3. AllMatches \in Seq(S)
  <2>1. AllMatches \in [1..Len(Visited) -> S]
    BY <1>1, <1>2 DEF AllMatches
  <2> HIDE DEF S
  <2> QED
    BY <1>1, <2>1, FunctionIsSeq
<1>4. ASSUME NEW n \in 0..Len(Visited)
      PROVE  /\ FoundIn(n) \in Seq(Real)
             /\ FitsUpTo(n) <=> /\ Len(FoundIn(n)) <= args.result_limit
                                /\ Total(SizesOf(FoundIn(n))) <= OutputLimit
  <2>1. FoundIn(n) \in Seq(Real)
    BY <1>1, <1>3, FlattenFirst DEF FoundIn
  <2> DEFINE a == [i \in 1..n |-> MatchesIn(Visited[i])]
             b == SubSeq(AllMatches, 1, n)
  <2>2. n \in Nat /\ \A i \in 1..n : i \in 1..Len(Visited)
    BY <1>1
  <2>3. a \in Seq(S) /\ Len(a) = n /\ \A i \in 1..n : a[i] = AllMatches[i]
    <3>1. a \in [1..n -> S]
      BY <1>1, <1>2, <2>2
    <3>2. \A i \in 1..n : a[i] = AllMatches[i]
      BY <1>1, <2>2
    <3> HIDE DEF a, S
    <3> QED
      BY <2>2, <3>1, <3>2, FunctionIsSeq
  <2> HIDE DEF S
  <2>4. b \in Seq(S) /\ Len(b) = n /\ \A i \in 1..n : b[i] = AllMatches[i]
    BY <1>1, <1>3, FirstOf
  <2> HIDE DEF a, b
  <2>5. a = b
    BY <2>3, <2>4, SeqEqual
  <2> QED
    BY <2>1, <2>5 DEF FitsUpTo, FoundIn, SizesOf, a, b
<1>5. ASSUME NEW n \in 0..Len(Visited), n < Len(Visited)
      PROVE  FoundIn(n + 1) = FoundIn(n) \o MatchesIn(Visited[n + 1])
  <2>1. n + 1 \in 1..Len(AllMatches) /\ (n + 1) - 1 = n
    BY <1>1, <1>5
  <2> QED
    BY <1>1, <1>3, <2>1, FlattenFirst DEF FoundIn
<1> QED
  BY <1>2, <1>4, <1>5

(* What fits up to a file, fits up to the files before it. *)
LEMMA FitsBefore ==
    ASSUME SearchTypeInv, NEW a \in 0..Len(Visited), NEW b \in a..Len(Visited), FitsUpTo(b)
    PROVE  FitsUpTo(a)
<1> DEFINE S == {m \in a..Len(Visited) : FitsUpTo(m) => FitsUpTo(a)}
<1>1. Len(Visited) \in Nat /\ a \in Nat
  BY VisitedFacts
<1>2. a \in S
  BY <1>1
<1>3. ASSUME NEW m \in a..Len(Visited), m # Len(Visited), m \in S PROVE m + 1 \in S
  <2>1. m \in 0..Len(Visited) /\ m < Len(Visited) /\ m + 1 \in a..Len(Visited)
        /\ m + 1 \in 0..Len(Visited) /\ m + 1 \in 1..Len(Visited)
    BY <1>1, <1>3
  <2> DEFINE s == FoundIn(m)
             t == MatchesIn(Visited[m + 1])
  <2>2. s \in Seq(Real) /\ t \in Seq(Real) /\ FoundIn(m + 1) = s \o t
    BY <2>1, FoundInFacts, VisitedFacts
  <2> HIDE DEF s, t
  <2>3. /\ Len(s \o t) = Len(s) + Len(t) /\ Len(s) \in Nat /\ Len(t) \in Nat
        /\ SizesOf(s) \in Seq(Nat) /\ SizesOf(t) \in Seq(Nat)
        /\ SizesOf(s \o t) = SizesOf(s) \o SizesOf(t)
    BY <2>2, SizesJoin, ConcatProperties, LenProperties
  <2>4. /\ Total(SizesOf(s)) \in Nat /\ Total(SizesOf(t)) \in Nat
        /\ Total(SizesOf(s \o t)) = Total(SizesOf(s)) + Total(SizesOf(t))
    BY <2>3, TotalProperties
  <2>5. FitsUpTo(m + 1) => Len(s \o t) <= args.result_limit /\ Total(SizesOf(s \o t)) <= OutputLimit
    BY <2>1, <2>2, FoundInFacts
  <2>6. args.result_limit \in Int /\ OutputLimit \in Int
    BY Arguments DEF OutputLimit
  <2>7. FitsUpTo(m + 1) => Len(s) <= args.result_limit /\ Total(SizesOf(s)) <= OutputLimit
    <3> DEFINE u == Total(SizesOf(s))
               v == Total(SizesOf(t))
               w == Total(SizesOf(s \o t))
    <3>1. u \in Nat /\ v \in Nat /\ w = u + v
      BY <2>4
    <3>2. FitsUpTo(m + 1) => Len(s) + Len(t) <= args.result_limit /\ w <= OutputLimit
      BY <2>3, <2>5
    <3>3. Len(s) \in Nat /\ Len(t) \in Nat
      BY <2>3
    <3> HIDE DEF u, v, w
    <3>4. Len(s) + Len(t) <= args.result_limit => Len(s) <= args.result_limit
      BY <2>6, <3>3
    <3>5. w <= OutputLimit => u <= OutputLimit
      BY <2>6, <3>1
    <3>6. FitsUpTo(m + 1) => Len(s) <= args.result_limit /\ u <= OutputLimit
      BY <3>2, <3>4, <3>5
    <3> QED
      BY <3>6 DEF u
  <2>8. Len(s) <= args.result_limit /\ Total(SizesOf(s)) <= OutputLimit => FitsUpTo(m)
    BY <2>1, FoundInFacts DEF s
  <2> QED
    BY <1>3, <2>1, <2>7, <2>8
<1> HIDE DEF S
<1>4. \A m \in a..Len(Visited) : m \in S
  BY <1>1, <1>2, <1>3, StepByStep
<1> QED
  BY <1>4 DEF S

(* A file that must not be opened: what was found before it fits the limits. *)
LEMMA DeniedHere ==
    ASSUME WalkInv, QuietReadInv, OutputIsBounded, touched = {}, pc = "read",
           tree[current] \notin Files \/ current \in unreadable
    PROVE  IsDenied
<1> DEFINE n == searched + skipped
<1>1. /\ SearchTypeInv /\ pc \in Reading /\ pc \in Held /\ searched \in Nat /\ skipped \in Nat
      /\ ~ Invalid /\ pc \notin {"call", "done"}
  BY DEF WalkInv, PhaseInv, SearchTypeInv, Reading, Held
<1>2. /\ n \in 0..Len(Visited) /\ ReadTo(n) /\ n < Len(Visited) /\ current = Visited[n + 1]
      /\ current \in Searchable /\ ~ Content[tree[current]].too_large
  BY <1>1, QuietReading
<1> HIDE DEF n
<1>3. Visited[n + 1] \in Denied
  BY <1>2 DEF Denied, Searchable
<1>4. matches = FoundIn(n)
  BY <1>2 DEF ReadTo, FoundIn
<1>5. args.result_limit \in Int /\ OutputLimit \in Int /\ args.result_limit >= 1 /\ OutputLimit >= 1
  <2>1. args.result_limit \in Int /\ OutputLimit \in Int
    BY <1>1, Arguments DEF OutputLimit
  <2> QED
    BY <1>1, <2>1 DEF Invalid
<1>6. Len(matches) <= args.result_limit /\ Total(SizesOf(matches)) <= OutputLimit
  <2>1. CASE matches = <<>>
    <3>1. Len(matches) = 0
      BY <2>1, EmptySeq
    <3>2. SizesOf(matches) \in Seq(Nat) /\ Len(SizesOf(matches)) = 0
      BY <1>1, <3>1, SizesType
    <3>3. Total(SizesOf(matches)) = 0
      BY <3>2, EmptySeq, TotalOfFew
    <3> QED
      BY <1>5, <3>1, <3>3
  <2>2. CASE matches # <<>>
    BY <2>2 DEF OutputIsBounded, SizesOf
  <2> QED
    BY <2>1, <2>2
<1>7. FitsUpTo(n)
  BY <1>1, <1>2, <1>4, <1>6, FoundInFacts
<1>8. n + 1 \in DOMAIN Visited /\ (n + 1) - 1 = n
  <2>1. Len(Visited) \in Nat /\ DOMAIN Visited = 1..Len(Visited)
    BY <1>1, VisitedFacts, LenProperties
  <2> QED
    BY <1>2, <2>1
<1> QED
  BY <1>3, <1>7, <1>8 DEF IsDenied

(* A search that is cut short does not get to a file that must not be opened. *)
LEMMA NotDenied ==
    ASSUME WalkInv, QuietReadInv, OutputIsBounded, touched = {}, NEW n, Reads(n), pc' = "done",
           Barred = {}
    PROVE  ~ IsDenied
<1> DEFINE i == searched + skipped
           sizes == Content[tree[current]].sizes
<1>1. /\ pc = "read" /\ tree[current] \in Files /\ ~ Content[tree[current]].binary
      /\ current \notin unreadable
      /\ n \in 0..Len(sizes) /\ n < Len(sizes) /\ ~ Fits(sizes, n + 1)
  BY DEF Reads
<1>2. /\ SearchTypeInv /\ pc \in Reading /\ pc \in Held /\ searched \in Nat /\ skipped \in Nat
      /\ output_bytes \in Nat /\ matches \in Seq(Match) /\ Len(matches) \in Nat
  BY <1>1, LenProperties DEF WalkInv, SearchTypeInv, Reading, Held
<1>3. /\ i \in 0..Len(Visited) /\ ReadTo(i) /\ i < Len(Visited) /\ current = Visited[i + 1]
      /\ current \in Searchable /\ ~ Content[tree[current]].too_large
      /\ \A j \in 1..i : Visited[j] \notin Denied
  BY <1>1, <1>2, QuietReading
<1> HIDE DEF i
<1>4. Len(Visited) \in Nat /\ DOMAIN Visited = 1..Len(Visited)
  BY <1>2, VisitedFacts, LenProperties
<1>5. sizes \in Seq(Nat) /\ Len(sizes) \in Nat /\ DOMAIN sizes = 1..Len(sizes)
  BY <1>1, <1>2, Arguments, LenProperties
<1>6. ~ FitsUpTo(i + 1)
  <2> DEFINE t == MatchesIn(current)
  <2>1. matches = FoundIn(i) /\ i + 1 \in 0..Len(Visited)
    BY <1>3, <1>4 DEF ReadTo, FoundIn
  <2>2. matches \in Seq(Real) /\ t \in Seq(Real) /\ FoundIn(i + 1) = matches \o t
    BY <1>2, <1>3, <2>1, FoundInFacts
  <2>3. t = [j \in 1..Len(sizes) |-> <<current, tree[current], j>>]
    BY <1>1, <1>3, <1>5 DEF MatchesIn, IsText
  <2>4. Len(t) = Len(sizes)
    BY <1>5, <2>2, <2>3, LenProperties
  <2>5. SizesOf(t) = sizes
    <3>1. \A j \in 1..Len(sizes) : Size(t[j]) = sizes[j] /\ j \in DOMAIN t
      BY <2>3 DEF Size
    <3>2. SizesOf(t) \in Seq(Nat) /\ Len(SizesOf(t)) = Len(sizes)
      BY <2>2, <2>4, SizesJoin
    <3>3. \A j \in 1..Len(sizes) : SizesOf(t)[j] = sizes[j]
      BY <3>1 DEF SizesOf
    <3> HIDE DEF t, sizes
    <3> QED
      BY <1>5, <3>2, <3>3, SeqEqual
  <2> HIDE DEF t, sizes
  <2>6. Len(matches \o t) = Len(matches) + Len(sizes)
    <3>1. matches \in Seq(Real) /\ t \in Seq(Real)
      BY <2>2
    <3>2. Len(matches \o t) = Len(matches) + Len(t)
      BY <3>1, ConcatProperties
    <3> QED
      BY <2>4, <3>2
  <2>7. Total(SizesOf(matches \o t)) = output_bytes + Total(sizes) /\ Total(sizes) \in Nat
    <3>1. SizesOf(matches \o t) = SizesOf(matches) \o sizes /\ SizesOf(matches) \in Seq(Nat)
      BY <2>2, <2>5, SizesJoin
    <3>2. output_bytes = Total(SizesOf(matches))
      BY DEF OutputIsBounded, SizesOf
    <3> QED
      BY <1>5, <3>1, <3>2, TotalProperties
  <2>8. n + 1 \in 0..Len(sizes) /\ n \in Nat
    BY <1>1, <1>5
  <2>9. Total(SubSeq(sizes, 1, n + 1)) <= Total(sizes) /\ Total(SubSeq(sizes, 1, n + 1)) \in Nat
    BY <1>5, <2>8, TotalGrows, TotalOfFirst
  <2>10. args.result_limit \in Int /\ OutputLimit \in Int
    BY <1>2, Arguments DEF OutputLimit
  <2>11. \/ ~ (Len(matches) + (n + 1) <= args.result_limit)
         \/ ~ (output_bytes + Total(SubSeq(sizes, 1, n + 1)) <= OutputLimit)
    BY <1>1 DEF Fits
  <2>12. \/ ~ (Len(matches) + Len(sizes) <= args.result_limit)
         \/ ~ (output_bytes + Total(sizes) <= OutputLimit)
    BY <1>2, <1>5, <2>7, <2>8, <2>9, <2>10, <2>11
  <2> QED
    BY <1>2, <2>1, <2>2, <2>6, <2>7, <2>12, FoundInFacts
<1>7. ASSUME NEW m \in DOMAIN Visited, Visited[m] \in Denied PROVE ~ FitsUpTo(m - 1)
  <2>1. m \in Nat /\ m \notin 1..i /\ m # i + 1
    BY <1>1, <1>3, <1>4, <1>7 DEF Denied
  <2>2. i + 1 \in 0..Len(Visited) /\ m - 1 \in (i + 1)..Len(Visited)
    BY <1>3, <1>4, <1>7, <2>1
  <2> QED
    BY <1>2, <1>6, <2>2, FitsBefore
<1> QED
  BY <1>7 DEF IsDenied

(* How the search should end, in terms of how it ends. *)
ExactResult(how, ms, bytes, texts, others) ==
    LET all == FlattenSeq(AllMatches)
    IN /\ how \in Expected
       /\ how \in {"truncated", "complete"} => ms = SubSeq(all, 1, Len(ms))
       /\ how = "complete" =>
             /\ Len(ms) = Len(all)
             /\ texts = Cardinality(Texts)
             /\ others = Cardinality(Searchable \ Texts)
       /\ how = "truncated" =>
             /\ Len(ms) < Len(all)
             /\ Len(ms) = args.result_limit \/ bytes + Size(all[Len(ms) + 1]) > OutputLimit
             /\ Visited[texts + others] = all[Len(ms) + 1][1]

LEMMA ExactResultIs ==
    ASSUME SearchTypeInv, UNCHANGED <<treeVars, args>>,
           pc' = "done" /\ touched = {} =>
              ExactResult(answer', matches', output_bytes', searched', skipped')
    PROVE  QuietSearchIsExact'
<1>1. /\ args' = args /\ touched' = touched /\ tree' = tree /\ Searchable' = Searchable
      /\ (Invalid' <=> Invalid) /\ OutputLimit' = OutputLimit
  BY SameTree
<1>2. Visited' = Visited /\ Texts' = Texts /\ AllMatches' = AllMatches
  BY SameFiles
<1>3. Expected' = Expected /\ \A m : Size(m)' = Size(m)
  BY SameTree DEF Size
<1>4. /\ AllMatches' = [i \in DOMAIN Visited |-> MatchesIn(Visited[i])]'
      /\ Texts' = {p \in Searchable : IsText(p)}'
  BY DEF AllMatches, Texts
<1> QED
  BY <1>1, <1>2, <1>3, <1>4 DEF QuietSearchIsExact, ExactResult

(* A search that ends, ends as is to be expected if nothing was changed. *)
LEMMA ExactAtTheEnd ==
    ASSUME WalkInv, BarredInv, QuietReadInv, OutputIsBounded, OutputIsBounded', Search
    PROVE  QuietSearchIsExact'
<1>1. SearchTypeInv /\ UNCHANGED <<treeVars, args>>
  BY OnlyReadsFind DEF WalkInv
<1>2. SUFFICES ASSUME pc' = "done", touched = {}
               PROVE  ExactResult(answer', matches', output_bytes', searched', skipped')
  BY <1>1, ExactResultIs
<1>3. pc \in Reading => ~ Invalid /\ tree[args.directory] = "directory"
  BY <1>2 DEF WalkInv, PhaseInv, QuietWalkInv, Reading, Held
<1>4. CASE Validate
  BY <1>2, <1>4 DEF Validate, Step, End, Goto, Expected, ExactResult
<1>5. CASE Resolve
  <2>1. pc = "resolve" /\ answer' = "not_found" /\ tree[args.directory] = "none"
    BY <1>2, <1>5 DEF Resolve, Step, End, Goto
  <2>2. ~ Invalid
    BY <2>1 DEF WalkInv, PhaseInv
  <2> QED
    BY <2>1, <2>2 DEF Expected, ExactResult
<1>6. CASE CheckDirectory
  <2>1. pc = "check_directory" /\ answer' = "not_directory" /\ tree[args.directory] # "directory"
    BY <1>2, <1>6 DEF CheckDirectory, End, Goto
  <2>2. ~ Invalid /\ tree[args.directory] # "none"
    BY <1>2, <2>1 DEF WalkInv, PhaseInv, QuietWalkInv
  <2> QED
    BY <2>1, <2>2 DEF Expected, ExactResult
<1>7. CASE Open
  <2>1. pc = "open" /\ ~ MayList(current) /\ answer' = "os_error" /\ pc \in Walking
    BY <1>2, <1>7 DEF Open, End, Goto, Walking
  <2>2. ~ Invalid /\ tree[args.directory] = "directory"
    BY <1>2, <2>1 DEF WalkInv, PhaseInv, QuietWalkInv
  <2>3. current \in Barred
    BY <1>2, <2>1 DEF WalkInv, QuietWalkInv, MayList, Barred
  <2> QED
    BY <2>1, <2>2, <2>3 DEF Expected, IsDenied, ExactResult
<1>8. CASE ResolveChild
  <2>1. pc = "resolve_child" /\ tree[current] = "none"
    BY <1>2, <1>8 DEF ResolveChild, End, Goto
  <2>2. tree[current] \in Files
    BY <1>2, <2>1 DEF WalkInv, QuietWalkInv
  <2> QED
    BY <2>1, <2>2, PathsAssumption
<1>9. CASE NextFile
  <2>1. /\ pc = "next_file" /\ files = <<>> /\ answer' = "complete" /\ matches' = matches
        /\ searched' = searched /\ skipped' = skipped
    BY <1>2, <1>9 DEF NextFile, End, Goto, foundVars
  <2> DEFINE all == FlattenSeq(AllMatches)
  <2>5. \A i \in 1..Len(Visited) : Visited[i] \notin Denied
    BY <1>2, <2>1, QuietComplete
  <2>6. Barred = {} /\ DOMAIN Visited = 1..Len(Visited)
    BY <1>1, <1>2, <2>1, NothingBarred, VisitedFacts, LenProperties DEF Reading
  <2>2. answer' \in Expected
    BY <1>3, <2>1, <2>5, <2>6 DEF Expected, Reading, IsDenied
  <2>3. /\ all \in Seq(Match) /\ matches = all
        /\ searched = Cardinality(Texts) /\ skipped = Cardinality(Searchable \ Texts)
    BY <1>2, <2>1, QuietComplete
  <2> HIDE DEF all
  <2>4. all = SubSeq(all, 1, Len(all))
    <3>1. Len(all) \in 0..Len(all)
      BY <2>3, LenProperties
    <3> QED
      BY <2>3, <3>1, FirstOf
  <2> QED
    BY <2>1, <2>2, <2>3, <2>4 DEF ExactResult, all
<1>10. CASE pc = "stat" /\ StatFile
  <2>1. tree[current] = "none"
    BY <1>2, <1>10 DEF StatFile, Skip, Step, Goto
  <2>2. pc \in Held /\ pc \in Reading
    BY <1>10 DEF Held, Reading
  <2>3. current \in Searchable
    BY <1>2, <2>2, QuietReading
  <2> QED
    BY <1>1, <2>1, <2>3, PathsAssumption DEF Searchable
<1>11. CASE ReadFile
  <2>1. CASE (tree[current] \notin Files \/ current \in unreadable) /\ End("read", "os_error")
    <3>1. pc = "read" /\ pc \in Reading /\ answer' = "os_error"
      BY <2>1 DEF End, Goto, Held, Reading
    <3>2. IsDenied
      BY <1>2, <2>1, <3>1, DeniedHere
    <3> QED
      BY <1>3, <3>1, <3>2 DEF Expected, ExactResult
  <2>2. ASSUME NEW n, Reads(n)
        PROVE  ExactResult(answer', matches', output_bytes', searched', skipped')
    <3>1. pc = "read" /\ answer' = "truncated"
      BY <1>2, <2>2 DEF Reads
    <3>3. Barred = {}
      BY <1>2, <3>1, NothingBarred DEF Reading, Held
    <3>4. ~ IsDenied
      BY <1>2, <2>2, <3>3, NotDenied
    <3>2. answer' \in Expected
      BY <1>3, <3>1, <3>4 DEF Expected, Reading, Held
    <3> QED
      BY <1>2, <2>2, <3>1, <3>2, QuietTruncated DEF ExactResult
  <2>3. ~ Skip("read")
    BY <1>2 DEF Skip, Goto
  <2> QED
    BY <1>1, <1>11, <2>1, <2>2, <2>3, ReadFileIs
<1>12. CASE NextChild \/ IsSymlink \/ IsDirectory \/ IsFile
  BY <1>2, <1>12 DEF NextChild, IsSymlink, IsDirectory, IsFile, Step, Goto
<1> QED
  BY <1>4, <1>5, <1>6, <1>7, <1>8, <1>9, <1>10, <1>11, <1>12 DEF Search

-----------------------------------------------------------------------------

LEMMA InitSearchInv == Init => SearchInv
<1> SUFFICES ASSUME Init PROVE SearchInv
  OBVIOUS
<1>1. /\ tree \in Trees /\ unreadable \in Denials /\ touched = {} /\ edits = 0 /\ args \in Requests /\ pc = "call"
      /\ stack = <<>> /\ current = <<>> /\ files = <<>> /\ matches = <<>> /\ output_bytes = 0
      /\ searched = 0 /\ skipped = 0 /\ answer = "none"
  BY DEF Init, TreeInit
<1>2. TreeTypeOK
  BY <1>1, PathsAssumption DEF TreeTypeOK
<1>3. DOMAIN matches = {} /\ Len(matches) = 0 /\ Len(files) = 0 /\ DOMAIN files = {}
  BY <1>1, EmptySeq
<1>4. SearchTypeInv
  BY <1>1, <1>2, <1>3, PathsArePaths, EmptySeq DEF SearchTypeInv
<1>5. PhaseInv
  BY <1>1 DEF PhaseInv, Looks, Reading, Held, Ended
<1>6. DepthInv
  <2>1. InPlace(<<>>, args.directory)
    BY DEF InPlace
  <2> QED
    BY <1>1, <2>1 DEF DepthInv, Looks
<1>7. Ahead(stack) = {}
  BY <1>1, NothingAhead
<1>8. OrderInv
  BY <1>1, <1>3, <1>7 DEF OrderInv, WaitingInOrder, FilesInOrder, Rising, MatchesInOrder,
                          MatchesAreOrdered
<1>9. CoverInv
  BY <1>1 DEF CoverInv, Walking, Looks, Reading, Held, Ended
<1>10. QuietWalkInv
  BY <1>1, <1>7 DEF QuietWalkInv, Walking, Looks, Reading, Held
<1>11. OutputIsBounded
  <2>1. SizesOf(matches) = <<>>
    <3>1. SizesOf(matches) \in Seq(Nat) /\ Len(SizesOf(matches)) = 0
      BY <1>3, <1>4, SizesType
    <3> QED
      BY <3>1, EmptySeq
  <2>2. Total([i \in DOMAIN matches |-> Size(matches[i])]) = 0
    BY <2>1, TotalOfFew DEF SizesOf
  <2> QED
    BY <1>1, <2>2 DEF OutputIsBounded
<1>12. QuietReadInv /\ QuietSearchIsExact /\ BarredInv
  BY <1>1 DEF BarredInv, Walking, Looks, Ended, QuietReadInv, QuietSearchIsExact, Reading, Held
<1> QED
  BY <1>4, <1>5, <1>6, <1>8, <1>9, <1>10, <1>11, <1>12 DEF SearchInv, WalkInv

LEMMA SearchKeeps ==
    ASSUME WalkInv, Search
    PROVE  WalkInv'
<1>1. CASE NextChild
  <2>1. CASE Head(stack) = <<>>
    BY <1>1, <2>1, LeaveKeeps
  <2>2. CASE Head(stack) # <<>>
    BY <1>1, <2>2, PickKeeps
  <2> QED
    BY <2>1, <2>2
<1>2. CASE Validate \/ Resolve \/ CheckDirectory \/ Open
  BY <1>2, ValidateKeeps, ResolveKeeps, CheckDirectoryKeeps, OpenKeeps
<1>3. CASE IsSymlink \/ IsDirectory \/ IsFile \/ ResolveChild
  BY <1>3, IsSymlinkKeeps, IsDirectoryKeeps, IsFileKeeps, ResolveChildKeeps
<1>4. CASE NextFile \/ (pc = "stat" /\ StatFile) \/ ReadFile
  BY <1>4, NextFileKeeps, StatFileKeeps, ReadFileKeeps
<1> QED
  BY <1>1, <1>2, <1>3, <1>4 DEF Search

LEMMA NextSearchInv == SearchInv /\ [Next]_vars => SearchInv'
<1> SUFFICES ASSUME SearchInv, [Next]_vars PROVE SearchInv'
  OBVIOUS
<1>1. WalkInv /\ BarredInv /\ OutputIsBounded /\ QuietReadInv
  BY DEF SearchInv
<1>2. CASE Search
  <2>1. WalkInv'
    BY <1>1, <1>2, SearchKeeps
  <2>2. OutputIsBounded'
    BY <1>1, <1>2, BoundedKeeps
  <2>3. QuietReadInv'
    BY <1>1, <1>2, <2>1, QuietKeeps
  <2>4. QuietSearchIsExact'
    BY <1>1, <1>2, <2>2, ExactAtTheEnd
  <2>5. BarredInv'
    BY <1>1, <1>2, BarredKeeps
  <2> QED
    BY <2>1, <2>2, <2>3, <2>4, <2>5 DEF SearchInv
<1>3. CASE Edit /\ UNCHANGED searchVars
  <2>1. WalkInv' /\ touched' # {}
    BY <1>1, <1>3, EditKeeps
  <2>2. matches' = matches /\ output_bytes' = output_bytes /\ args' = args
    BY <1>3 DEF searchVars
  <2>3. OutputIsBounded'
    BY <1>1, <2>2 DEF OutputIsBounded, Size, OutputLimit
  <2>4. QuietReadInv' /\ QuietSearchIsExact' /\ BarredInv'
    BY <2>1 DEF BarredInv, QuietReadInv, QuietSearchIsExact
  <2> QED
    BY <2>1, <2>3, <2>4 DEF SearchInv
<1>4. CASE Finished \/ UNCHANGED vars
  BY <1>4, StutterKeeps DEF Finished
<1> QED
  BY <1>2, <1>3, <1>4 DEF Next

THEOREM Invariance == Spec => []SearchInv
  BY InitSearchInv, NextSearchInv, PTL DEF Spec

-----------------------------------------------------------------------------
(***************************************************************************)
(* search_text never gets into a state its types do not allow, and never   *)
(* returns more than max_output_bytes of the configuration, whatever the   *)
(* call asks for.                                                          *)
(***************************************************************************)
THEOREM TypeCorrect == Spec => []TypeOK
<1>1. SearchInv => TypeOK
  <2> SUFFICES ASSUME SearchInv PROVE TypeOK
    OBVIOUS
  <2>1. SearchTypeInv /\ OutputIsBounded
    BY DEF SearchInv, WalkInv
  <2>2. output_bytes \in Nat /\ ConfiguredOutputBytes \in Nat /\ output_bytes <= ConfiguredOutputBytes
    <3>1. output_bytes \in Nat /\ ConfiguredOutputBytes \in Nat /\ args.max_output_bytes \in Int \cup {None}
      BY <2>1, Arguments DEF SearchTypeInv
    <3>2. CASE matches = <<>>
      <4>1. Len(matches) = 0
        BY <3>2, EmptySeq
      <4>2. SizesOf(matches) \in Seq(Nat) /\ Len(SizesOf(matches)) = 0
        BY <2>1, <4>1, SizesType
      <4>3. Total(SizesOf(matches)) = 0
        BY <4>2, EmptySeq, TotalOfFew
      <4>4. output_bytes = 0
        BY <2>1, <4>3 DEF OutputIsBounded, SizesOf
      <4> QED
        BY <3>1, <4>4
    <3>3. CASE matches # <<>>
      <4>1. output_bytes <= OutputLimit
        BY <2>1, <3>3 DEF OutputIsBounded
      <4>2. OutputLimit \in Int /\ OutputLimit <= ConfiguredOutputBytes
        BY <3>1 DEF OutputLimit
      <4> QED
        BY <3>1, <4>1, <4>2
    <3> QED
      BY <3>1, <3>2, <3>3
  <2>3. \A i \in DOMAIN matches : matches[i] \in Paths \X Files \X Nat
    BY <2>1, MatchesType DEF Match
  <2> QED
    BY <2>1, <2>2, <2>3 DEF TypeOK, SearchTypeInv, Walking, Looks, Reading, Held
<1> QED
  BY Invariance, <1>1, PTL

(***************************************************************************)
(* However the tree changes, no search returns more matches than           *)
(* result_limit or more output than the limit of the call, and             *)
(* output_bytes adds up what the matches take.                             *)
(***************************************************************************)
THEOREM OutputBounded == Spec => []OutputIsBounded
<1>1. SearchInv => OutputIsBounded
  BY DEF SearchInv
<1> QED
  BY Invariance, <1>1, PTL

(***************************************************************************)
(* However the tree changes while search_text reads, the matches come in   *)
(* the order of the walk, each once, and those of a file are its first.    *)
(***************************************************************************)
THEOREM MatchesKeepTheOrder == Spec => []MatchesAreOrdered
<1>1. SearchInv => MatchesAreOrdered
  BY DEF SearchInv, WalkInv, OrderInv, MatchesInOrder
<1> QED
  BY Invariance, <1>1, PTL

(***************************************************************************)
(* What stays as it was during the search is found, unless the search says *)
(* it was truncated and it does not come before the last match.            *)
(***************************************************************************)
THEOREM NothingStableIsOverlooked == Spec => []StableMatchesAreFound
<1>1. SearchInv => StableMatchesAreFound
  <2> SUFFICES ASSUME SearchInv, answer \in {"truncated", "complete"},
                      NEW p \in Searchable \cap Untouched, NEW i \in DOMAIN MatchesIn(p)
               PROVE  \/ MatchesIn(p)[i] \in ToSet(matches)
                      \/ /\ answer = "truncated"
                         /\ matches # <<>> => ~ Precedes(p, Last(matches)[1])
    BY DEF StableMatchesAreFound
  <2>1. SearchTypeInv /\ Ended /\ pc = "done" /\ stack = <<>>
    BY DEF SearchInv, WalkInv, PhaseInv, Ended
  <2>2. p \in Awaited \cup Done \cup LeftOut
    BY <2>1 DEF SearchInv, WalkInv, CoverInv
  <2>3. p \notin Awaited
    BY <2>1, NothingAhead DEF Awaited, Held
  <2>4. p \in Done => MatchesIn(p)[i] \in Range(matches)
    BY DEF Done, Range
  <2>5. ToSet(matches) = Range(matches)
    BY DEF ToSet, Range
  <2> QED
    BY <2>2, <2>3, <2>4, <2>5 DEF LeftOut
<1> QED
  BY Invariance, <1>1, PTL

(***************************************************************************)
(* A search of a tree nobody changes gives what is there, in order, up to  *)
(* the first match that does not fit a limit; it is marked truncated       *)
(* exactly then, and counts the files it looked into.  It fails only for   *)
(* what was asked, or when it gets to a directory that must not be listed  *)
(* or a file that must not be opened.                                      *)
(***************************************************************************)
THEOREM QuietSearchExact == Spec => []QuietSearchIsExact
<1>1. SearchInv => QuietSearchIsExact
  BY DEF SearchInv
<1> QED
  BY Invariance, <1>1, PTL
=============================================================================
