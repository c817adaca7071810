-------------------------- MODULE ToolCalls_proofs --------------------------
(***************************************************************************)
(* What a server has when it starts, which commands it runs, that it       *)
(* resolves paths as the kernel walks them, that what it shows holds no    *)
(* secret, begins as the whole output does and is all of it unless a limit *)
(* is reported, and that a read shows the lines asked for: for all file    *)
(* systems, configurations, requests and outputs, and any number of        *)
(* changes of the file system.                                             *)
(***************************************************************************)
EXTENDS ToolCalls, Ordering_proofs

-----------------------------------------------------------------------------
(* Places.                                                                 *)

(* The first n names of a path. *)
Way(p, n) == SubSeq(p, 1, n)

LEMMA PlaceType ==
    ASSUME NEW p \in Places
    PROVE  Len(p) \in Nat /\ DOMAIN p = 1..Len(p) /\ \A k \in 1..Len(p) : p[k] \in STRING
<1>1. Len(p) \in Nat /\ p \in [1..Len(p) -> STRING] /\ DOMAIN p = 1..Len(p)
  BY LenProperties DEF Places
<1> QED
  BY <1>1

LEMMA PlacesEqual ==
    ASSUME NEW p \in Places, NEW q \in Places, Len(p) = Len(q), \A k \in 1..Len(p) : p[k] = q[k]
    PROVE  p = q
  BY SeqEqual DEF Places

LEMMA WayFacts ==
    ASSUME NEW p \in Places, NEW n \in 0..Len(p)
    PROVE  /\ Way(p, n) \in Places /\ Len(Way(p, n)) = n
           /\ \A k \in 1..n : Way(p, n)[k] = p[k]
           /\ n = Len(p) => Way(p, n) = p
           /\ n = 0 => Way(p, n) = <<>>
<1>1. Len(p) \in Nat /\ n \in Int /\ \A k \in 1..n : p[k] \in STRING
  BY PlaceType
<1>2. /\ Way(p, n) \in Places
      /\ Len(Way(p, n)) = IF 1 <= n THEN n - 1 + 1 ELSE 0
      /\ \A k \in 1..n - 1 + 1 : Way(p, n)[k] = p[1 + k - 1]
  BY <1>1, SubSeqProperties DEF Places, Way
<1>3. Len(Way(p, n)) = n /\ \A k \in 1..n : Way(p, n)[k] = p[k]
  BY <1>1, <1>2
<1>4. n = Len(p) => Way(p, n) = p
  BY SubSeqFull DEF Places, Way
<1>5. n = 0 => Way(p, n) = <<>>
  BY <1>2, <1>3, EmptySeq DEF Places
<1> QED
  BY <1>2, <1>3, <1>4, <1>5

LEMMA WayOfWay ==
    ASSUME NEW p \in Places, NEW n \in 0..Len(p), NEW m \in 0..n
    PROVE  Way(Way(p, n), m) = Way(p, m)
<1>1. Len(p) \in Nat
  BY PlaceType
<1>2. Way(p, n) \in Places /\ Len(Way(p, n)) = n /\ \A k \in 1..n : Way(p, n)[k] = p[k]
  BY WayFacts
<1>3. m \in 0..Len(Way(p, n)) /\ m \in 0..Len(p) /\ \A k \in 1..m : k \in 1..n
  BY <1>1, <1>2
<1>4. /\ Way(p, m) \in Places /\ Len(Way(p, m)) = m /\ \A k \in 1..m : Way(p, m)[k] = p[k]
  BY <1>3, WayFacts
<1>5. /\ Way(Way(p, n), m) \in Places /\ Len(Way(Way(p, n), m)) = m
      /\ \A k \in 1..m : Way(Way(p, n), m)[k] = Way(p, n)[k]
  BY <1>2, <1>3, WayFacts
<1> QED
  BY <1>2, <1>3, <1>4, <1>5, PlacesEqual

LEMMA PrefixIs ==
    ASSUME NEW p \in Places, NEW q \in Places
    PROVE  IsPrefix(p, q) <=> Len(p) <= Len(q) /\ Way(q, Len(p)) = p
<1>1. Len(p) \in Nat /\ Len(p) \in 0..Len(p)
  BY PlaceType
<1>2. Way(p, Len(p)) = p
  BY <1>1, WayFacts
<1> QED
  BY <1>2 DEF IsPrefix, Way

(* What Append does with sequences of elements of S. *)
Appends(S) ==
    \A s \in Seq(S), x \in S :
       /\ Append(s, x) \in Seq(S) /\ Len(Append(s, x)) = Len(s) + 1
       /\ Append(s, x)[Len(s) + 1] = x
       /\ \A k \in 1..Len(s) : Append(s, x)[k] = s[k]

LEMMA AppendIs ==
    ASSUME NEW S
    PROVE  Appends(S)
  BY AppendProperties DEF Appends

LEMMA GrowFacts ==
    ASSUME NEW p \in Places, NEW x \in STRING
    PROVE  /\ Append(p, x) \in Places /\ Len(Append(p, x)) = Len(p) + 1
           /\ Append(p, x)[Len(p) + 1] = x /\ \A k \in 1..Len(p) : Append(p, x)[k] = p[k]
           /\ \A n \in 0..Len(p) : Way(Append(p, x), n) = Way(p, n)
           /\ Way(Append(p, x), Len(p) + 1) = Append(p, x)
<1> DEFINE q == Append(p, x)
<1>0. p \in Seq(STRING) /\ Len(p) \in Nat
  BY PlaceType DEF Places
<1>1. /\ Len(p) \in Nat /\ q \in Places /\ Len(q) = Len(p) + 1 /\ q[Len(p) + 1] = x
      /\ \A k \in 1..Len(p) : q[k] = p[k]
  <2>1. /\ Append(p, x) \in Seq(STRING) /\ Len(Append(p, x)) = Len(p) + 1
        /\ Append(p, x)[Len(p) + 1] = x
        /\ \A k \in 1..Len(p) : Append(p, x)[k] = p[k]
    <3>1. Appends(STRING)
      BY AppendIs
    <3> QED
      BY <1>0, <3>1 DEF Appends
  <2> QED
    BY <1>0, <2>1 DEF Places
<1> HIDE DEF q
<1>2. ASSUME NEW n \in 0..Len(p) PROVE Way(q, n) = Way(p, n)
  <2>1. n \in 0..Len(q) /\ \A k \in 1..n : k \in 1..Len(p)
    BY <1>1
  <2>2. Way(p, n) \in Places /\ Len(Way(p, n)) = n /\ \A k \in 1..n : Way(p, n)[k] = p[k]
    BY WayFacts
  <2>3. Way(q, n) \in Places /\ Len(Way(q, n)) = n /\ \A k \in 1..n : Way(q, n)[k] = q[k]
    BY <1>1, <2>1, WayFacts
  <2> QED
    BY <1>1, <2>1, <2>2, <2>3, PlacesEqual
<1>3. Way(q, Len(p) + 1) = q
  <2>1. Len(q) \in 0..Len(q)
    BY <1>1
  <2>2. Way(q, Len(q)) = q
    BY <1>1, <2>1, WayFacts
  <2> QED
    BY <1>1, <2>2
<1> QED
  BY <1>1, <1>2, <1>3 DEF q

LEMMA NextOnTheWay ==
    ASSUME NEW p \in Places, NEW n \in 0..(Len(p) - 1)
    PROVE  Append(Way(p, n), p[n + 1]) = Way(p, n + 1)
<1>1. Len(p) \in Nat
  BY PlaceType
<1>2. n \in Nat /\ n \in 0..Len(p) /\ n + 1 \in 0..Len(p) /\ n + 1 \in 1..Len(p)
  BY <1>1
<1>3. Way(p, n) \in Places /\ Len(Way(p, n)) = n /\ \A k \in 1..n : Way(p, n)[k] = p[k]
  BY <1>2, WayFacts
<1>4. /\ Way(p, n + 1) \in Places /\ Len(Way(p, n + 1)) = n + 1
      /\ \A k \in 1..(n + 1) : Way(p, n + 1)[k] = p[k]
  BY <1>2, WayFacts
<1>5. p[n + 1] \in STRING
  BY <1>2, PlaceType
<1> DEFINE w == Way(p, n)
           x == p[n + 1]
           q == Append(w, x)
<1>6a. w \in Places /\ x \in STRING /\ Len(w) = n
  BY <1>3, <1>5
<1>6b. /\ Append(w, x) \in Places /\ Len(Append(w, x)) = Len(w) + 1
       /\ Append(w, x)[Len(w) + 1] = x /\ \A k \in 1..Len(w) : Append(w, x)[k] = w[k]
  BY <1>6a, GrowFacts, Zenon
<1>6. /\ q \in Places /\ Len(q) = n + 1 /\ q[n + 1] = p[n + 1] /\ \A k \in 1..n : q[k] = Way(p, n)[k]
  BY <1>6a, <1>6b
<1> HIDE DEF q
<1>7. ASSUME NEW k \in 1..(n + 1) PROVE q[k] = Way(p, n + 1)[k]
  <2>1. k = n + 1 \/ k \in 1..n
    BY <1>2
  <2> QED
    BY <1>3, <1>4, <1>6, <2>1
<1>8. q = Way(p, n + 1)
  BY <1>4, <1>6, <1>7, PlacesEqual
<1> QED
  BY <1>8 DEF q

LEMMA ParentIs ==
    ASSUME NEW p \in Places, p # <<>>
    PROVE  /\ Len(p) \in Nat /\ Len(p) # 0 /\ Len(p) - 1 \in 0..Len(p)
           /\ Front(p) = Way(p, Len(p) - 1) /\ Front(p) \in Places /\ Len(Front(p)) = Len(p) - 1
<1>1. Len(p) \in Nat /\ Len(p) # 0
  BY PlaceType, EmptySeq DEF Places
<1>2. Len(p) - 1 \in 0..Len(p)
  BY <1>1
<1>3. Front(p) = Way(p, Len(p) - 1)
  BY DEF Front, Way
<1> DEFINE n == Len(p) - 1
<1>4. n \in 0..Len(p)
  BY <1>2
<1> HIDE DEF n
<1>5. Way(p, n) \in Places /\ Len(Way(p, n)) = n
  BY <1>4, WayFacts
<1> QED
  BY <1>1, <1>2, <1>3, <1>5 DEF n

-----------------------------------------------------------------------------
(* Trees.                                                                  *)

TreeTyped(tree) ==
    DOMAIN tree \subseteq Places /\ (\A p \in DOMAIN tree : tree[p] \in TreeNodes) /\ IsTree(tree)

LEMMA NodeKinds ==
    ASSUME NEW node \in TreeNodes
    PROVE  /\ node.kind \in {"none", "directory", "locked", "file", "link"}
           /\ node.kind = "none" <=> node = Nothing
           /\ node.kind = "file" => node.bytes \in Seq(STRING) /\ node.readable \in BOOLEAN
           /\ node.kind = "link" => node.to.absolute \in BOOLEAN /\ node.to.names \in Places
  BY DEF TreeNodes, Nothing, Directory, LockedDirectory

LEMMA NodeType ==
    ASSUME NEW tree, TreeTyped(tree), NEW p
    PROVE  Node(tree, p) \in TreeNodes
  BY DEF TreeTyped, Node, TreeNodes

LEMMA RootIsDirectory ==
    ASSUME NEW tree, TreeTyped(tree)
    PROVE  Node(tree, <<>>).kind = "directory"
  BY DEF TreeTyped, IsTree, Node, Directory

(* Whatever is put in the place of something, the rest stays a tree. *)
LEMMA EditKeepsTree ==
    ASSUME TreeTyped(fs), Edit
    PROVE  TreeTyped(fs')
<1>1. PICK p \in DOMAIN fs \ Settled, n \in Nodes :
         /\ n # Nothing => IsDirectory(Node(fs, Front(p)))
         /\ fs' = [q \in DOMAIN fs |-> IF q = p THEN n
                                       ELSE IF IsPrefix(p, q) THEN Nothing ELSE fs[q]]
  BY DEF Edit
<1>2. p \in Places /\ p # <<>> /\ n \in TreeNodes /\ Nothing \in TreeNodes
  BY NodesAssumption DEF TreeTyped, TreeNodes
<1>3. DOMAIN fs' = DOMAIN fs /\ fs'[p] = n
  BY <1>1
<1>4. \A q \in DOMAIN fs : fs'[q] \in TreeNodes
  BY <1>1, <1>2 DEF TreeTyped
<1>5. Len(p) \in Nat /\ Len(p) # 0
  BY <1>2, ParentIs
<1>6. ASSUME NEW q \in Places, q # <<>>, q # p, ~ IsPrefix(p, q)
      PROVE  Front(q) # p /\ ~ IsPrefix(p, Front(q))
  <2>1. /\ Len(q) \in Nat /\ Len(q) - 1 \in 0..Len(q)
        /\ Front(q) = Way(q, Len(q) - 1) /\ Front(q) \in Places /\ Len(Front(q)) = Len(q) - 1
    BY <1>6, ParentIs
  <2>2. SUFFICES ASSUME IsPrefix(p, Front(q)) PROVE FALSE
    <3>1. Front(q) = p => IsPrefix(p, Front(q))
      BY <1>2, <1>5, WayFacts, PrefixIs
    <3> QED
      BY <3>1
  <2>3. Len(p) <= Len(q) - 1 /\ Way(Front(q), Len(p)) = p
    BY <1>2, <2>1, <2>2, PrefixIs
  <2> DEFINE m == Len(p)
             k == Len(q) - 1
  <2>4. k \in 0..Len(q) /\ m \in 0..k /\ Way(Way(q, k), m) = p /\ m <= Len(q)
    BY <1>5, <2>1, <2>3
  <2> HIDE DEF m, k
  <2>5. Way(q, m) = p
    BY <2>4, WayOfWay
  <2>6. IsPrefix(p, q)
    BY <1>2, <2>4, <2>5, PrefixIs DEF m
  <2> QED
    BY <1>6, <2>6
<1>7. ASSUME NEW q \in DOMAIN fs, q # p, ~ IsPrefix(p, q) PROVE Node(fs', q) = Node(fs, q)
  BY <1>1, <1>3, <1>7 DEF Node
<1>8. \A q \in Places : q \notin DOMAIN fs => Node(fs', q) = Nothing /\ Node(fs, q) = Nothing
  BY <1>3 DEF Node
<1>9. <<>> \in DOMAIN fs /\ fs'[<<>>] = Directory
  <2>1. <<>> \in DOMAIN fs /\ fs[<<>>] = Directory
    BY DEF TreeTyped, IsTree
  <2>2. ~ IsPrefix(p, <<>>)
    <3>1. <<>> \in Places /\ Len(<<>>) = 0
      BY EmptySeq DEF Places
    <3>2. ~ (Len(p) <= Len(<<>>))
      BY <1>5, <3>1
    <3> QED
      BY <1>2, <3>1, <3>2, PrefixIs
  <2> QED
    BY <1>1, <1>2, <2>1, <2>2
<1>10. ASSUME NEW q \in DOMAIN fs, q # <<>>, fs'[q] # Nothing
       PROVE  Node(fs', Front(q)).kind \in {"directory", "locked"}
  <2>1. q \in Places /\ Front(q) \in Places
    BY <1>10, ParentIs DEF TreeTyped
  <2>2. CASE q = p
    <3>1. IsDirectory(Node(fs, Front(p)))
      BY <1>1, <1>3, <1>10, <2>2
    <3>2. Front(p) # p /\ ~ IsPrefix(p, Front(p))
      <4>1. Len(Front(p)) = Len(p) - 1
        BY <1>2, ParentIs
      <4>2. ~ (Len(p) <= Len(Front(p))) /\ Len(p) # Len(Front(p))
        BY <1>5, <4>1
      <4> QED
        BY <1>2, <2>1, <2>2, <4>2, PrefixIs
    <3>3. Node(fs', Front(p)) = Node(fs, Front(p))
      BY <1>7, <1>8, <2>1, <2>2, <3>2
    <3> QED
      BY <2>2, <3>1, <3>3 DEF IsDirectory
  <2>3. CASE q # p
    <3>1. ~ IsPrefix(p, q) /\ fs[q] # Nothing
      BY <1>1, <1>10, <2>3
    <3>2. Node(fs, Front(q)).kind \in {"directory", "locked"}
      BY <1>10, <3>1 DEF TreeTyped, IsTree
    <3>3. Node(fs', Front(q)) = Node(fs, Front(q))
      BY <1>6, <1>7, <1>8, <1>10, <2>1, <2>3, <3>1
    <3> QED
      BY <3>2, <3>3
  <2> QED
    BY <2>2, <2>3
<1>11. IsTree(fs')
  BY <1>3, <1>9, <1>10 DEF IsTree
<1> QED
  BY <1>3, <1>4, <1>11 DEF TreeTyped

-----------------------------------------------------------------------------
(* The kernel's walk.                                                      *)

Errs == {"EACCES", "ENOTDIR", "ENOENT"}
Walks == [at: Places, rest: Places, error: Errs \cup {""}, last: BOOLEAN]
Start0(names, last) == [at |-> <<>>, rest |-> names, error |-> "", last |-> last]

(* f has the walk after each number of names. *)
Walks0(f, N, tree, names, last) ==
    f = [n \in 0..N |-> IF n = 0 THEN Start0(names, last) ELSE WalkStep(tree, f[n - 1])]

LEMMA MaxNamesType == MaxNames \in Nat
  BY DEF MaxNames

LEMMA WalksExist ==
    ASSUME NEW N \in Nat, NEW tree, NEW names, NEW last
    PROVE  \E f : Walks0(f, N, tree, names, last)
<1> DEFINE S == {m \in 0..N : \E f : Walks0(f, m, tree, names, last)}
<1>1. 0 \in S
  <2> DEFINE f == [n \in 0..0 |-> Start0(names, last)]
  <2>1. f = [n \in 0..0 |-> IF n = 0 THEN Start0(names, last) ELSE WalkStep(tree, f[n - 1])]
    OBVIOUS
  <2>2. Walks0(f, 0, tree, names, last)
    BY <2>1 DEF Walks0
  <2> HIDE DEF f
  <2> QED
    BY <2>2
<1>2. ASSUME NEW m \in 0..N, m # N, m \in S PROVE m + 1 \in S
  <2>1. PICK f : Walks0(f, m, tree, names, last)
    BY <1>2
  <2> DEFINE g == [n \in 0..(m + 1) |-> IF n = m + 1 THEN WalkStep(tree, f[m]) ELSE f[n]]
  <2>2. ASSUME NEW n \in 0..(m + 1)
        PROVE  g[n] = IF n = 0 THEN Start0(names, last) ELSE WalkStep(tree, g[n - 1])
    <3>1. CASE n = m + 1
      <4>1. m \in 0..(m + 1) /\ m # m + 1 /\ n - 1 = m /\ n # 0
        BY <3>1
      <4> QED
        BY <3>1, <4>1
    <3>2. CASE n # m + 1
      <4>1. n \in 0..m /\ (n # 0 => n - 1 \in 0..(m + 1) /\ n - 1 # m + 1)
        BY <3>2
      <4>2. f[n] = IF n = 0 THEN Start0(names, last) ELSE WalkStep(tree, f[n - 1])
        BY <2>1, <4>1 DEF Walks0
      <4> QED
        BY <3>2, <4>1, <4>2
    <3> QED
      BY <3>1, <3>2
  <2>3. g = [n \in 0..(m + 1) |-> g[n]]
    OBVIOUS
  <2> HIDE DEF g
  <2>4. Walks0(g, m + 1, tree, names, last)
    BY <2>2, <2>3 DEF Walks0
  <2>5. m + 1 \in 0..N
    BY <1>2
  <2> QED
    BY <2>4, <2>5
<1> HIDE DEF S
<1>3. \A n \in 0..N : n \in S
  BY <1>1, <1>2, StepByStep
<1> QED
  BY <1>3 DEF S

(* A walk is what is left of it after MaxNames names. *)
EndOf(end) == IF end.error = "" /\ end.rest # <<>> THEN [end EXCEPT !.error = "ELOOP"] ELSE end

LEMMA WalkedIs ==
    ASSUME NEW tree, NEW names, NEW last
    PROVE  \E f : /\ f[0] = Start0(names, last)
                  /\ \A n \in 1..MaxNames : f[n] = WalkStep(tree, f[n - 1])
                  /\ Walked(tree, names, last) = EndOf(f[MaxNames])
<1> DEFINE f == CHOOSE g : Walks0(g, MaxNames, tree, names, last)
<1>1. Walks0(f, MaxNames, tree, names, last)
  BY WalksExist, MaxNamesType
<1>2. Walked(tree, names, last) = EndOf(f[MaxNames])
  BY DEF Walked, EndOf, Walks0, Start0
<1> HIDE DEF f
<1>3. \A n \in 0..MaxNames : f[n] = IF n = 0 THEN Start0(names, last) ELSE WalkStep(tree, f[n - 1])
  BY <1>1 DEF Walks0
<1>4. f[0] = Start0(names, last) /\ \A n \in 1..MaxNames : f[n] = WalkStep(tree, f[n - 1])
  BY <1>3, MaxNamesType
<1> QED
  BY <1>2, <1>4

LEMMA StepType ==
    ASSUME NEW tree, TreeTyped(tree), NEW w \in Walks
    PROVE  WalkStep(tree, w) \in Walks /\ WalkStep(tree, w).last = w.last
<1> DEFINE name == Head(w.rest)
           rest == Tail(w.rest)
           here == Node(tree, w.at)
           next == Append(w.at, name)
           node == Node(tree, next)
<1>1. w.at \in Places /\ w.rest \in Places
  BY DEF Walks
<1>2. w.rest = <<>> \/ w.error # "" => WalkStep(tree, w) = w
  BY DEF WalkStep
<1>3. ASSUME ~ (w.rest = <<>> \/ w.error # "")
      PROVE  WalkStep(tree, w) \in Walks /\ WalkStep(tree, w).last = w.last
  <2>1. name \in STRING /\ rest \in Places
    BY <1>1, <1>3, HeadTailProperties DEF Places
  <2>2. next \in Places /\ Up(w.at) \in Places
    BY <1>1, <2>1, GrowFacts, ParentIs DEF Up
  <2>3. node \in TreeNodes
    BY NodeType
  <2>4. node.kind = "link" => node.to.names \o rest \in Places /\ <<>> \in Places
    BY <2>1, <2>3, NodeKinds, ConcatProperties, EmptySeq DEF Places
  <2> HIDE DEF name, rest, here, next, node
  <2>5. node.kind = "link" => Follow(w, node, rest) \in Walks /\ Follow(w, node, rest).last = w.last
    BY <2>4 DEF Follow, Walks
  <2>6. \/ WalkStep(tree, w) \in {[w EXCEPT !.error = e] : e \in Errs}
        \/ WalkStep(tree, w) = [w EXCEPT !.at = Up(w.at), !.rest = rest]
        \/ node.kind = "link" /\ WalkStep(tree, w) = Follow(w, node, rest)
        \/ WalkStep(tree, w) = [w EXCEPT !.at = next, !.rest = rest]
    BY <1>3 DEF WalkStep, name, rest, here, next, node, Errs
  <2> QED
    BY <2>1, <2>2, <2>5, <2>6 DEF Walks
<1> QED
  BY <1>2, <1>3

-----------------------------------------------------------------------------
(* Places on the way to which there are directories only, and no link.     *)

Things == {"file", "directory", "locked"}

Solid(tree, p) ==
    /\ p \in Places /\ Len(p) <= MaxNames
    /\ \A k \in 1..Len(p) : p[k] # ".." /\ Node(tree, Way(p, k)).kind \in Things
    /\ \A k \in 0..(Len(p) - 1) : Node(tree, Way(p, k)).kind = "directory"

LEMMA SolidRoot ==
    ASSUME NEW tree
    PROVE  Solid(tree, <<>>)
<1>1. <<>> \in Places /\ Len(<<>>) = 0
  BY EmptySeq DEF Places
<1> QED
  BY <1>1, MaxNamesType DEF Solid

LEMMA SolidWay ==
    ASSUME NEW tree, NEW p, Solid(tree, p), NEW n \in 0..Len(p)
    PROVE  Solid(tree, Way(p, n))
<1>1. p \in Places /\ Len(p) \in Nat
  BY PlaceType DEF Solid
<1>2. /\ Way(p, n) \in Places /\ Len(Way(p, n)) = n /\ \A k \in 1..n : Way(p, n)[k] = p[k]
      /\ \A k \in 0..n : Way(Way(p, n), k) = Way(p, k)
  BY <1>1, WayFacts, WayOfWay
<1>3. /\ Len(p) <= MaxNames /\ n <= MaxNames
      /\ \A k \in 1..n : k \in 1..Len(p) /\ k \in 0..n
      /\ \A k \in 0..(n - 1) : k \in 0..(Len(p) - 1) /\ k \in 0..n
  BY <1>1, MaxNamesType DEF Solid
<1> QED
  BY <1>2, <1>3 DEF Solid

LEMMA SolidUp ==
    ASSUME NEW tree, NEW p, Solid(tree, p)
    PROVE  Solid(tree, Up(p)) /\ Len(Up(p)) <= Len(p)
<1>1. p \in Places /\ Len(p) \in Nat
  BY PlaceType DEF Solid
<1>2. CASE p = <<>>
  BY <1>1, <1>2 DEF Up
<1>3. CASE p # <<>>
  <2> DEFINE n == Len(p) - 1
  <2>1. n \in 0..Len(p) /\ Up(p) = Way(p, n) /\ n <= Len(p)
    BY <1>1, <1>3, ParentIs DEF Up
  <2> HIDE DEF n
  <2>2. Len(Way(p, n)) = n
    BY <1>1, <2>1, WayFacts
  <2> QED
    BY <2>1, <2>2, SolidWay
<1> QED
  BY <1>2, <1>3

LEMMA SolidGrow ==
    ASSUME NEW tree, NEW p, Solid(tree, p), Len(p) < MaxNames, NEW x \in STRING, x # "..",
           Node(tree, p).kind = "directory", Node(tree, Append(p, x)).kind \in Things
    PROVE  Solid(tree, Append(p, x)) /\ Len(Append(p, x)) = Len(p) + 1
<1>1. p \in Places /\ Len(p) \in Nat
  BY PlaceType DEF Solid
<1> DEFINE q == Append(p, x)
<1>2. /\ q \in Places /\ Len(q) = Len(p) + 1 /\ q[Len(p) + 1] = x /\ \A k \in 1..Len(p) : q[k] = p[k]
      /\ \A n \in 0..Len(p) : Way(q, n) = Way(p, n)
      /\ Way(q, Len(p) + 1) = q
  BY <1>1, GrowFacts
<1>3. Way(p, Len(p)) = p
  BY <1>1, WayFacts
<1>4. /\ \A k \in 1..(Len(p) + 1) : k = Len(p) + 1 \/ (k \in 1..Len(p) /\ k \in 0..Len(p))
      /\ \A k \in 0..((Len(p) + 1) - 1) : k \in 0..Len(p) /\ (k = Len(p) \/ k \in 0..(Len(p) - 1))
      /\ Len(p) + 1 <= MaxNames
  BY <1>1, MaxNamesType
<1>5. Node(tree, q).kind \in Things
  OBVIOUS
<1> HIDE DEF q
<1>6. ASSUME NEW k \in 1..Len(q) PROVE q[k] # ".." /\ Node(tree, Way(q, k)).kind \in Things
  BY <1>2, <1>4, <1>5 DEF Solid
<1>7. ASSUME NEW k \in 0..(Len(q) - 1) PROVE Node(tree, Way(q, k)).kind = "directory"
  BY <1>2, <1>3, <1>4 DEF Solid
<1>8. Solid(tree, q) /\ Len(q) = Len(p) + 1
  BY <1>2, <1>4, <1>6, <1>7 DEF Solid
<1> QED
  BY <1>8 DEF q

(* A walk that follows every link stays on solid ground, one name further at most. *)
LEMMA StepSolid ==
    ASSUME NEW tree, TreeTyped(tree), NEW w \in Walks, w.last, Solid(tree, w.at),
           Len(w.at) < MaxNames
    PROVE  LET at == WalkStep(tree, w).at IN Solid(tree, at) /\ Len(at) <= Len(w.at) + 1
<1> DEFINE name == Head(w.rest)
           rest == Tail(w.rest)
           here == Node(tree, w.at)
           next == Append(w.at, name)
           node == Node(tree, next)
           at == WalkStep(tree, w).at
<1>1. w.at \in Places /\ w.rest \in Places /\ Len(w.at) \in Nat
  BY PlaceType DEF Walks
<1>2. \/ at = w.at
      \/ at = Up(w.at)
      \/ at = <<>>
      \/ /\ at = next /\ w.rest # <<>> /\ here.kind = "directory" /\ name # ".."
         /\ node # Nothing /\ ~ (node.kind = "link" /\ (rest # <<>> \/ w.last))
  <2> HIDE DEF name, rest, here, next, node
  <2>1. \/ WalkStep(tree, w) = w
        \/ WalkStep(tree, w) \in {[w EXCEPT !.error = e] : e \in Errs}
        \/ WalkStep(tree, w) = [w EXCEPT !.at = Up(w.at), !.rest = rest]
        \/ WalkStep(tree, w) = Follow(w, node, rest)
        \/ /\ WalkStep(tree, w) = [w EXCEPT !.at = next, !.rest = rest]
           /\ w.rest # <<>> /\ here.kind = "directory" /\ name # ".."
           /\ node # Nothing /\ ~ (node.kind = "link" /\ (rest # <<>> \/ w.last))
    BY DEF WalkStep, name, rest, here, next, node, Errs
  <2>2. Follow(w, node, rest).at \in {<<>>, w.at}
    BY DEF Follow, Walks
  <2> QED
    BY <2>1, <2>2 DEF Walks
<1>3. CASE at = w.at \/ at = Up(w.at)
  <2>1. Solid(tree, at) /\ Len(at) <= Len(w.at)
    BY <1>1, <1>3, SolidUp
  <2>2. Len(at) \in Nat
    BY <2>1, PlaceType DEF Solid
  <2> QED
    BY <1>1, <2>1, <2>2
<1>4. CASE at = <<>>
  <2>1. Len(<<>>) = 0
    BY EmptySeq
  <2> QED
    BY <1>1, <1>4, <2>1, SolidRoot
<1>5. CASE /\ at = next /\ w.rest # <<>> /\ here.kind = "directory" /\ name # ".."
           /\ node # Nothing /\ ~ (node.kind = "link" /\ (rest # <<>> \/ w.last))
  <2>1. name \in STRING
    BY <1>1, <1>5, HeadTailProperties DEF Places
  <2>2. node \in TreeNodes
    BY NodeType
  <2>3. node.kind \in Things
    BY <1>5, <2>2, NodeKinds DEF Things
  <2>4. Solid(tree, next) /\ Len(next) = Len(w.at) + 1
    BY <1>5, <2>1, <2>3, SolidGrow
  <2> QED
    BY <1>1, <1>5, <2>4
<1> QED
  BY <1>2, <1>3, <1>4, <1>5

(* Where the kernel's walk of a path ends. *)
LEMMA WalkedFacts ==
    ASSUME NEW tree, TreeTyped(tree), NEW names \in Places, NEW last \in BOOLEAN
    PROVE  LET w == Walked(tree, names, last)
           IN /\ w.at \in Places /\ w.error \in Errs \cup {"", "ELOOP"}
              /\ last => Solid(tree, w.at)
<1>1. PICK f : /\ f[0] = Start0(names, last)
               /\ \A n \in 1..MaxNames : f[n] = WalkStep(tree, f[n - 1])
               /\ Walked(tree, names, last) = EndOf(f[MaxNames])
  BY WalkedIs
<1> DEFINE S == {n \in 0..MaxNames :
                   /\ f[n] \in Walks /\ f[n].last = last
                   /\ last => Solid(tree, f[n].at) /\ Len(f[n].at) <= n}
<1>2. 0 \in S
  <2>1. <<>> \in Places /\ Len(<<>>) = 0
    BY EmptySeq DEF Places
  <2>2. Start0(names, last) \in Walks
    BY <2>1 DEF Start0, Walks
  <2>3. Start0(names, last).at = <<>> /\ Start0(names, last).last = last
    BY DEF Start0
  <2> QED
    BY <1>1, <2>1, <2>2, <2>3, SolidRoot, MaxNamesType
<1>3. ASSUME NEW n \in 0..MaxNames, n # MaxNames, n \in S PROVE n + 1 \in S
  <2>1. n + 1 \in 1..MaxNames /\ (n + 1) - 1 = n /\ n + 1 \in 0..MaxNames /\ n < MaxNames /\ n \in Nat
    BY <1>3, MaxNamesType
  <2> DEFINE w == f[n]
             v == f[n + 1]
  <2>2. v = WalkStep(tree, w)
    BY <1>1, <2>1
  <2>3. w \in Walks /\ w.last = last /\ (last => Solid(tree, w.at) /\ Len(w.at) <= n)
    BY <1>3
  <2>4. v \in Walks /\ v.last = last
    BY <2>2, <2>3, StepType
  <2>5. ASSUME last PROVE Solid(tree, v.at) /\ Len(v.at) <= n + 1
    <3>1. Len(w.at) \in Nat
      BY <2>3, PlaceType DEF Walks
    <3>2. Len(w.at) < MaxNames
      BY <2>1, <2>3, <2>5, <3>1, MaxNamesType
    <3>3. Solid(tree, v.at) /\ Len(v.at) <= Len(w.at) + 1
      BY <2>2, <2>3, <2>5, <3>2, StepSolid
    <3>4. Len(v.at) \in Nat
      BY <3>3, PlaceType DEF Solid
    <3>5. Len(w.at) <= n
      BY <2>3, <2>5
    <3> QED
      BY <2>1, <3>1, <3>3, <3>4, <3>5
  <2> QED
    BY <2>1, <2>4, <2>5
<1> HIDE DEF S
<1>4. \A n \in 0..MaxNames : n \in S
  BY <1>2, <1>3, MaxNamesType, StepByStep
<1>5. f[MaxNames] \in Walks /\ (last => Solid(tree, f[MaxNames].at))
  BY <1>4, MaxNamesType DEF S
<1> DEFINE end == f[MaxNames]
<1> HIDE DEF end
<1>6. EndOf(end).at = end.at /\ EndOf(end).error \in Errs \cup {"", "ELOOP"}
  BY <1>5 DEF EndOf, Walks, end
<1>7. end.at \in Places /\ (last => Solid(tree, end.at))
  BY <1>5 DEF Walks, end
<1> QED
  BY <1>1, <1>6, <1>7 DEF end

(* The names of a path after the first n. *)
Left(p, n) == SubSeq(p, n + 1, Len(p))

LEMMA LeftFacts ==
    ASSUME NEW p \in Places
    PROVE  /\ Left(p, 0) = p /\ Left(p, Len(p)) = <<>>
           /\ \A n \in 0..(Len(p) - 1) :
                 Left(p, n) # <<>> /\ Head(Left(p, n)) = p[n + 1] /\ Tail(Left(p, n)) = Left(p, n + 1)
<1>1. p \in Seq(STRING) /\ Len(p) \in Nat
  BY PlaceType DEF Places
<1>2. Left(p, 0) = p
  BY <1>1, SubSeqFull DEF Left
<1>3. Left(p, Len(p)) = <<>>
  BY <1>1, SubSeqEmpty DEF Left
<1>4. ASSUME NEW n \in 0..(Len(p) - 1)
      PROVE  Left(p, n) # <<>> /\ Head(Left(p, n)) = p[n + 1] /\ Tail(Left(p, n)) = Left(p, n + 1)
  <2>1. n + 1 \in 1..Len(p) /\ Len(p) \in (n + 1)..Len(p) /\ n \in Nat
    BY <1>1
  <2>2. /\ Head(SubSeq(p, n + 1, Len(p))) = p[n + 1]
        /\ Tail(SubSeq(p, n + 1, Len(p))) = SubSeq(p, (n + 1) + 1, Len(p))
    BY <1>1, <2>1, HeadTailOfSubSeq
  <2>3. Len(SubSeq(p, n + 1, Len(p))) = Len(p) - (n + 1) + 1
    <3>1. \A i \in (n + 1)..Len(p) : p[i] \in STRING
      BY <2>1, PlaceType, SMTT(30)
    <3> QED
      BY <1>1, <2>1, <3>1, SubSeqProperties
  <2>4. Left(p, n) # <<>>
    <3>1. Len(p) - (n + 1) + 1 # 0
      BY <1>1, <2>1
    <3>2. Len(<<>>) = 0
      BY EmptySeq
    <3> QED
      BY <2>3, <3>1, <3>2 DEF Left
  <2> QED
    BY <2>2, <2>4 DEF Left
<1> QED
  BY <1>2, <1>3, <1>4

(* f has a walk, name by name. *)
Steps(f, tree) == \A n \in 1..MaxNames : f[n] = WalkStep(tree, f[n - 1])

(* And that walk has passed the first n names of p. *)
Passes(f, p, n) ==
    f[n] \in Walks /\ f[n].at = Way(p, n) /\ f[n].rest = Left(p, n) /\ f[n].error = ""

(* The kernel passes names that are no links one by one. *)
LEMMA KernelPasses ==
    ASSUME NEW tree, TreeTyped(tree), NEW p \in Places, NEW last \in BOOLEAN,
           NEW m \in 0..Len(p), m <= MaxNames,
           \A k \in 1..m : p[k] # ".." /\ Node(tree, Way(p, k)).kind \in Things,
           \A k \in 0..(m - 1) : Node(tree, Way(p, k)).kind = "directory",
           NEW f, f[0] = Start0(p, last), Steps(f, tree)
    PROVE  Passes(f, p, m)
<1> DEFINE S == {n \in 0..m : Passes(f, p, n)}
<1>0. Len(p) \in Nat /\ m \in Nat
  BY PlaceType
<1>1. 0 \in S
  <2>1. Way(p, 0) = <<>> /\ Left(p, 0) = p /\ <<>> \in Places
    BY <1>0, WayFacts, LeftFacts, EmptySeq DEF Places
  <2>2. Start0(p, last) \in Walks
    BY <2>1 DEF Start0, Walks
  <2>3. /\ Start0(p, last).at = <<>> /\ Start0(p, last).rest = p /\ Start0(p, last).error = ""
    BY DEF Start0
  <2> QED
    <3> DEFINE s == Start0(p, last)
    <3>1. f[0] = s /\ s \in Walks /\ s.at = Way(p, 0) /\ s.rest = Left(p, 0) /\ s.error = ""
      BY <2>1, <2>2, <2>3
    <3> HIDE DEF s
    <3>2. Passes(f, p, 0)
      BY <3>1 DEF Passes
    <3>3. 0 \in 0..m
      BY <1>0
    <3> QED
      BY <3>2, <3>3
<1>2. ASSUME NEW n \in 0..m, n # m, n \in S PROVE n + 1 \in S
  <2>1. /\ n + 1 \in 1..m /\ n \in 0..(m - 1) /\ n + 1 \in 1..MaxNames /\ (n + 1) - 1 = n
        /\ n \in 0..(Len(p) - 1) /\ n + 1 \in 0..m
    BY <1>0, <1>2, MaxNamesType
  <2> DEFINE w == f[n]
             q == Way(p, n + 1)
             r == Left(p, n + 1)
  <2>2. f[n + 1] = WalkStep(tree, w)
    BY <2>1 DEF Steps
  <2>3. w \in Walks /\ w.at = Way(p, n) /\ w.rest = Left(p, n) /\ w.error = ""
    BY <1>2 DEF Passes
  <2>4. /\ w.rest # <<>> /\ Head(w.rest) = p[n + 1] /\ Tail(w.rest) = Left(p, n + 1)
        /\ Append(w.at, p[n + 1]) = Way(p, n + 1)
    <3>1. /\ Left(p, n) # <<>> /\ Head(Left(p, n)) = p[n + 1]
          /\ Tail(Left(p, n)) = Left(p, n + 1)
      BY <2>1, LeftFacts, Zenon
    <3>2. Append(Way(p, n), p[n + 1]) = Way(p, n + 1)
      BY <2>1, NextOnTheWay, Zenon
    <3> QED
      BY <2>3, <3>1, <3>2, Zenon
  <2>5. /\ Node(tree, w.at).kind = "directory" /\ p[n + 1] # ".."
        /\ Node(tree, Way(p, n + 1)).kind \in Things
    BY <2>1, <2>3
  <2>6. Node(tree, Way(p, n + 1)) # Nothing /\ Node(tree, Way(p, n + 1)).kind # "link"
    BY <2>5 DEF Things, Nothing
  <2> HIDE DEF w, q, r
  <2>7. WalkStep(tree, w) = [w EXCEPT !.at = q, !.rest = r]
    BY <2>3, <2>4, <2>5, <2>6 DEF WalkStep, q, r
  <2>8. WalkStep(tree, w) \in Walks
    BY <2>3, StepType
  <2>9. WalkStep(tree, w).at = q /\ WalkStep(tree, w).rest = r /\ WalkStep(tree, w).error = ""
    BY <2>3, <2>7 DEF Walks
  <2> QED
    BY <2>1, <2>2, <2>8, <2>9 DEF Passes, q, r
<1> HIDE DEF S
<1>3. \A n \in 0..m : n \in S
  BY <1>0, <1>1, <1>2, StepByStep
<1> QED
  BY <1>0, <1>3 DEF S

(* A walk that has ended, or failed, stays so. *)
Ended(f, m) == f[m].rest = <<>> \/ f[m].error # ""

LEMMA KernelRests ==
    ASSUME NEW tree, NEW m \in 0..MaxNames, NEW f, Steps(f, tree), Ended(f, m)
    PROVE  f[MaxNames] = f[m]
<1> DEFINE Same(n) == f[n] = f[m]
           S == {n \in m..MaxNames : Same(n)}
<1>0. m \in Nat /\ MaxNames \in Nat /\ m <= MaxNames
  BY MaxNamesType
<1>a. m \in m..MaxNames /\ MaxNames \in m..MaxNames
  BY <1>0
<1>1. m \in S
  BY <1>a
<1>2. ASSUME NEW n \in m..MaxNames, n # MaxNames, n \in S PROVE n + 1 \in S
  <2> HIDE DEF S, Same
  <2>1. n + 1 \in 1..MaxNames /\ (n + 1) - 1 = n /\ n + 1 \in m..MaxNames
    BY <1>0, <1>2
  <2> USE DEF S, Same
  <2>2. f[n + 1] = WalkStep(tree, f[m])
    BY <1>2, <2>1 DEF Steps
  <2>3. WalkStep(tree, f[m]) = f[m]
    BY DEF WalkStep, Ended
  <2> QED
    BY <2>1, <2>2, <2>3
<1> HIDE DEF S, Same
<1>3. \A n \in m..MaxNames : n \in S
  BY <1>0, <1>1, <1>2, StepByStep
<1>4. MaxNames \in S
  BY <1>a, <1>3
<1> QED
  BY <1>4 DEF S, Same

(* A place without links on the way is where the kernel's walk to it ends. *)
LEMMA SolidIsItself ==
    ASSUME NEW tree, TreeTyped(tree), NEW p, Solid(tree, p), NEW last \in BOOLEAN
    PROVE  Walked(tree, p, last).at = p /\ Walked(tree, p, last).error = ""
<1>1. PICK f : /\ f[0] = Start0(p, last)
               /\ Steps(f, tree)
               /\ Walked(tree, p, last) = EndOf(f[MaxNames])
  BY WalkedIs DEF Steps
<1> DEFINE m == Len(p)
<1>2. p \in Places /\ m \in Nat /\ m \in 0..m /\ m <= MaxNames /\ m \in 0..MaxNames
  BY PlaceType, MaxNamesType DEF Solid
<1>3. Passes(f, p, m)
  BY <1>1, <1>2, KernelPasses DEF Solid
<1>4. Way(p, m) = p /\ Left(p, m) = <<>>
  BY <1>2, WayFacts, LeftFacts
<1> HIDE DEF m
<1>6. f[m].rest = <<>> /\ f[m].error = "" /\ f[m].at = p
  BY <1>3, <1>4 DEF Passes
<1>7. f[MaxNames] = f[m]
  BY <1>1, <1>2, <1>6, KernelRests DEF Ended
<1> QED
  BY <1>1, <1>6, <1>7 DEF EndOf

-----------------------------------------------------------------------------
(* Sources of the configuration.                                           *)

KeyRecords == [field: STRING, value: FileValues]

(* The greatest of some of the numbers up to n. *)
LEMMA GreatestIs ==
    ASSUME NEW n \in Nat, NEW T, T \subseteq 0..n, T # {}
    PROVE  Max(T) \in T /\ \A k \in T : k <= Max(T)
<1> DEFINE U == {m \in 0..n : \A k \in T : k <= m}
<1>1. \A k \in T : k \in Nat /\ k <= n
  OBVIOUS
<1>2. U \subseteq Nat /\ n \in U
  BY <1>1
<1>3. PICK m \in U : \A j \in U : m <= j
  BY <1>2, LeastNatural
<1>4. m \in Nat /\ m <= n /\ \A k \in T : k <= m
  BY <1>3
<1>5. m \in T
  <2>1. SUFFICES ASSUME m \notin T PROVE FALSE
    OBVIOUS
  <2>2. \A k \in T : k <= m - 1 /\ k >= 0
    BY <1>1, <1>4, <2>1
  <2>3. m # 0
    <3>1. PICK k \in T : TRUE
      OBVIOUS
    <3> QED
      BY <1>1, <1>4, <2>2, <3>1
  <2>4. m - 1 \in 0..n
    BY <1>4, <2>3
  <2>5. m - 1 \in U
    BY <2>2, <2>4
  <2> QED
    BY <1>3, <1>4, <2>4, <2>5
<1>6. \E x \in T : \A y \in T : x >= y
  BY <1>1, <1>4, <1>5
<1>7. Max(T) \in T /\ \A y \in T : Max(T) >= y
  BY <1>6 DEF Max
<1> QED
  BY <1>1, <1>7

LEMMA MaxIs ==
    ASSUME NEW n \in Nat, NEW T, T \subseteq 1..n, T # {}
    PROVE  Max(T) \in T /\ \A k \in T : k <= Max(T)
<1>1. T \subseteq 0..n
  OBVIOUS
<1> QED
  BY <1>1, GreatestIs

(* f is the dictionary after each of the first n keys. *)
Raws(f, n, keys) ==
    f = [k \in 0..n |-> IF k = 0 THEN <<>> ELSE Put(f[k - 1], keys[k].field, keys[k].value)]

LEMMA RawsExist ==
    ASSUME NEW N \in Nat, NEW keys
    PROVE  \E f : Raws(f, N, keys)
<1> DEFINE S == {m \in 0..N : \E f : Raws(f, m, keys)}
<1>1. 0 \in S
  <2> DEFINE f == [k \in 0..0 |-> <<>>]
  <2>1. f = [k \in 0..0 |-> IF k = 0 THEN <<>> ELSE Put(f[k - 1], keys[k].field, keys[k].value)]
    OBVIOUS
  <2>2. Raws(f, 0, keys)
    BY <2>1 DEF Raws
  <2> HIDE DEF f
  <2> QED
    BY <2>2
<1>2. ASSUME NEW m \in 0..N, m # N, m \in S PROVE m + 1 \in S
  <2>1. PICK f : Raws(f, m, keys)
    BY <1>2
  <2> DEFINE next(d) == Put(d, keys[m + 1].field, keys[m + 1].value)
             g == [k \in 0..(m + 1) |-> IF k = m + 1 THEN next(f[m]) ELSE f[k]]
  <2>2. ASSUME NEW k \in 0..(m + 1)
        PROVE  g[k] = IF k = 0 THEN <<>> ELSE Put(g[k - 1], keys[k].field, keys[k].value)
    <3>1. CASE k = m + 1
      <4>1. m \in 0..(m + 1) /\ m # m + 1 /\ k - 1 = m /\ k # 0
        BY <3>1
      <4> QED
        BY <3>1, <4>1
    <3>2. CASE k # m + 1
      <4>1. k \in 0..m /\ (k # 0 => k - 1 \in 0..(m + 1) /\ k - 1 # m + 1)
        BY <3>2
      <4>2. f[k] = IF k = 0 THEN <<>> ELSE Put(f[k - 1], keys[k].field, keys[k].value)
        BY <2>1, <4>1 DEF Raws
      <4> QED
        BY <3>2, <4>1, <4>2
    <3> QED
      BY <3>1, <3>2
  <2>3. g = [k \in 0..(m + 1) |-> g[k]]
    OBVIOUS
  <2> HIDE DEF g
  <2>4. Raws(g, m + 1, keys)
    BY <2>2, <2>3 DEF Raws
  <2>5. m + 1 \in 0..N
    BY <1>2
  <2> QED
    BY <2>4, <2>5
<1> HIDE DEF S
<1>3. \A n \in 0..N : n \in S
  BY <1>1, <1>2, StepByStep
<1> QED
  BY <1>3 DEF S

(* d has the fields of the first n keys, each with the value of the last of them. *)
LastWins(d, n, keys) ==
    /\ DOMAIN d = {keys[i].field : i \in 1..n}
    /\ \A i \in 1..n :
          (\A j \in 1..n : keys[j].field = keys[i].field => j <= i) => d[keys[i].field] = keys[i].value

LEMMA PutWins ==
    ASSUME NEW keys, NEW n \in Nat, NEW d, LastWins(d, n, keys)
    PROVE  LastWins(Put(d, keys[n + 1].field, keys[n + 1].value), n + 1, keys)
<1> DEFINE x == keys[n + 1].field
           v == keys[n + 1].value
           e == Put(d, x, v)
<1>1. /\ DOMAIN e = DOMAIN d \cup {x} /\ e[x] = v
      /\ \A y \in DOMAIN d : y # x => e[y] = d[y]
  BY DEF Put
<1> HIDE DEF e
<1>2. \A i : i \in 1..(n + 1) <=> i \in 1..n \/ i = n + 1
  OBVIOUS
<1>3. DOMAIN e = {keys[i].field : i \in 1..(n + 1)}
  BY <1>1, <1>2 DEF LastWins
<1>4. ASSUME NEW i \in 1..(n + 1), \A j \in 1..(n + 1) : keys[j].field = keys[i].field => j <= i
      PROVE  e[keys[i].field] = keys[i].value
  <2>1. CASE i = n + 1
    BY <1>1, <2>1
  <2>2. CASE i # n + 1
    <3>1. i \in 1..n /\ n + 1 \in 1..(n + 1) /\ ~ (n + 1 <= i)
      BY <2>2
    <3>2. keys[i].field # x
      BY <1>4, <3>1
    <3>3. d[keys[i].field] = keys[i].value
      BY <1>2, <1>4, <3>1 DEF LastWins
    <3>4. keys[i].field \in DOMAIN d
      BY <3>1 DEF LastWins
    <3> QED
      BY <1>1, <3>2, <3>3, <3>4
  <2> QED
    BY <2>1, <2>2
<1>5. LastWins(e, n + 1, keys)
  BY <1>3, <1>4 DEF LastWins
<1> QED
  BY <1>5 DEF e

(* _normalize_config_keys keeps, of the spellings of a field, the last. *)
LEMMA NormalisedFacts ==
    ASSUME NEW keys \in Seq(KeyRecords)
    PROVE  LastWins(Normalised(keys), Len(keys), keys)
<1> DEFINE N == Len(keys)
           f == CHOOSE g : Raws(g, N, keys)
<1>0. N \in Nat
  OBVIOUS
<1>1. Raws(f, N, keys)
  BY <1>0, RawsExist
<1>2. Normalised(keys) = f[N]
  BY DEF Normalised, Raws
<1> HIDE DEF f, N
<1>3. f[0] = <<>> /\ \A n \in 1..N : f[n] = Put(f[n - 1], keys[n].field, keys[n].value)
  <2>1. \A n \in 0..N :
           f[n] = IF n = 0 THEN <<>> ELSE Put(f[n - 1], keys[n].field, keys[n].value)
    BY <1>1 DEF Raws
  <2> QED
    BY <1>0, <2>1
<1> DEFINE S == {n \in 0..N : LastWins(f[n], n, keys)}
<1>4. 0 \in S
  <2>1. DOMAIN <<>> = {} /\ 1..0 = {}
    OBVIOUS
  <2>2. LastWins(<<>>, 0, keys)
    BY <2>1 DEF LastWins
  <2> QED
    BY <1>0, <1>3, <2>2
<1>5. ASSUME NEW n \in 0..N, n # N, n \in S PROVE n + 1 \in S
  <2>1. n \in Nat /\ n + 1 \in 1..N /\ (n + 1) - 1 = n /\ n + 1 \in 0..N
    BY <1>0, <1>5
  <2>2. f[n + 1] = Put(f[n], keys[n + 1].field, keys[n + 1].value)
    BY <1>3, <2>1
  <2>3. LastWins(f[n + 1], n + 1, keys)
    BY <1>5, <2>1, <2>2, PutWins
  <2> QED
    BY <2>1, <2>3
<1> HIDE DEF S
<1>6. \A n \in 0..N : n \in S
  BY <1>0, <1>4, <1>5, StepByStep
<1> QED
  BY <1>0, <1>2, <1>6 DEF S, N

(* What load_config validates: the sources of the input over the defaults. *)
AllValues == Over(Merged(input.file.keys, input.env), Defaults)

LEMMA FieldNames ==
    Fields = {"workspace_root", "read_only_mode", "max_file_size_bytes", "max_command_seconds",
              "max_output_bytes", "allowed_commands", "test_commands", "artifact_directory",
              "secret_patterns", "log_level"}
  BY DEF Fields, Defaults

(* The value of every field comes from the strongest of its sources. *)
LEMMA AllIsSource ==
    ASSUME IsScenario(input)
    PROVE  /\ DOMAIN AllValues = Fields \cup {input.file.keys[i].field : i \in DOMAIN input.file.keys}
           /\ \A f \in Fields : AllValues[f] = Source(f)
<1> DEFINE keys == input.file.keys
           env == input.env
           N == Len(keys)
           d == Normalised(keys)
<1>1. /\ keys \in Seq(KeyRecords) /\ DOMAIN env \subseteq Fields
  BY DEF IsScenario, KeyRecords
<1>2. N \in Nat /\ DOMAIN keys = 1..N
  BY <1>1
<1>3. LastWins(d, N, keys)
  BY <1>1, NormalisedFacts
<1>4. DOMAIN Parsed(env) = DOMAIN env /\ \A f \in DOMAIN env : Parsed(env)[f] = ParseEnvValue(f, env[f])
  BY DEF Parsed
<1>5. /\ DOMAIN AllValues = DOMAIN env \cup DOMAIN d \cup Fields
      /\ \A f \in Fields : AllValues[f] = IF f \in DOMAIN env THEN ParseEnvValue(f, env[f])
                                          ELSE IF f \in DOMAIN d THEN d[f] ELSE Defaults[f]
  BY <1>4 DEF AllValues, Merged, Over, Fields
<1> HIDE DEF keys, env, N, d
<1>6. DOMAIN d = {keys[i].field : i \in DOMAIN keys}
  BY <1>2, <1>3 DEF LastWins
<1>7. ASSUME NEW f \in DOMAIN d
      PROVE  LET uses == {i \in DOMAIN keys : keys[i].field = f}
             IN uses # {} /\ d[f] = keys[Max(uses)].value
  <2> DEFINE uses == {i \in DOMAIN keys : keys[i].field = f}
             m == Max(uses)
  <2>1. uses \subseteq 1..N /\ uses # {}
    BY <1>2, <1>6
  <2> HIDE DEF uses
  <2>2. m \in uses /\ \A k \in uses : k <= m
    BY <1>2, <2>1, MaxIs
  <2> HIDE DEF m
  <2>3. m \in 1..N /\ keys[m].field = f /\ \A j \in 1..N : keys[j].field = f => j <= m
    BY <1>2, <2>2 DEF uses
  <2>4. d[keys[m].field] = keys[m].value
    BY <1>3, <2>3 DEF LastWins
  <2> QED
    BY <2>1, <2>3, <2>4 DEF uses, m
<1>8. \A f : f \notin DOMAIN d => {i \in DOMAIN keys : keys[i].field = f} = {}
  BY <1>6
<1>9. ASSUME NEW f \in Fields PROVE AllValues[f] = Source(f)
  BY <1>5, <1>7, <1>8 DEF Source, keys, env
<1> QED
  BY <1>1, <1>5, <1>6, <1>9 DEF keys, env

(* A path that a source gives is one. *)
(* Where the value of a field is from. *)
LEMMA SourceIs ==
    ASSUME IsScenario(input), NEW f \in Fields
    PROVE  \/ /\ f \in DOMAIN input.env /\ input.env[f] \in EnvValues
              /\ Source(f) = ParseEnvValue(f, input.env[f])
           \/ f \notin DOMAIN input.env /\ (Source(f) \in FileValues \/ Source(f) = Defaults[f])
<1> DEFINE keys == input.file.keys
           uses == {i \in DOMAIN keys : keys[i].field = f}
<1>1. CASE f \in DOMAIN input.env
  BY <1>1 DEF Source, IsScenario
<1>2. CASE f \notin DOMAIN input.env /\ uses # {}
  <2>1. keys \in Seq(KeyRecords)
    BY DEF IsScenario, KeyRecords
  <2>2. Len(keys) \in Nat /\ DOMAIN keys = 1..Len(keys) /\ \A i \in DOMAIN keys : keys[i] \in KeyRecords
    BY <2>1
  <2>3. Max(uses) \in uses
    BY <1>2, <2>2, MaxIs
  <2>4. keys[Max(uses)].value \in FileValues
    BY <2>2, <2>3 DEF KeyRecords
  <2>5. Source(f) = keys[Max(uses)].value
    BY <1>2 DEF Source
  <2> QED
    BY <1>2, <2>4, <2>5
<1>3. CASE f \notin DOMAIN input.env /\ uses = {}
  BY <1>3 DEF Source
<1> QED
  BY <1>1, <1>2, <1>3

LEMMA SourcePath ==
    ASSUME IsScenario(input), NEW f \in {"workspace_root", "artifact_directory"}, Is(Source(f), "path")
    PROVE  Source(f).path.names \in Places
<1> DEFINE v == Source(f)
<1>1. v \in EnvValues \cup FileValues \/ v = Defaults[f]
  BY SourceIs, FieldNames DEF ParseEnvValue
<1>2. Defaults[f].path.names \in Places
  <2>1. <<"cwd">> \in Places /\ <<"artifacts">> \in Places
    BY LiteralsAssumption, SMT DEF Places
  <2>2. /\ Defaults.workspace_root.path.names = <<"cwd">>
        /\ Defaults.artifact_directory.path.names = <<"artifacts">>
    BY SMT DEF Defaults, PathOf, Cwd
  <2> QED
    BY <2>1, <2>2, SMT
<1> HIDE DEF v
<1>3. v \in EnvValues \cup FileValues /\ Is(v, "path") => v.path.names \in Places
  BY DEF EnvValues, FileValues, Is, PathTexts
<1> QED
  BY <1>1, <1>2, <1>3 DEF v

(* A value is written in one form. *)
LEMMA SourceNumber ==
    ASSUME IsScenario(input), NEW f \in DOMAIN Ceilings
    PROVE  ~ (Is(Source(f), "number") /\ Is(Source(f), "numeral"))
<1> DEFINE v == Source(f)
<1>1. f \in {"max_file_size_bytes", "max_command_seconds", "max_output_bytes"}
  BY SMT DEF Ceilings
<1>2. v \in EnvValues \cup FileValues \/ v = Defaults[f]
  BY <1>1, SourceIs, FieldNames DEF ParseEnvValue
<1>3. ~ Is(Defaults[f], "numeral")
  BY <1>1, SMT DEF Defaults, Is
<1> HIDE DEF v
<1>4. v \in EnvValues \cup FileValues => ~ (Is(v, "number") /\ Is(v, "numeral"))
  BY DEF EnvValues, FileValues, Is
<1> QED
  BY <1>2, <1>3, <1>4 DEF v

(* Only a variable is no value at all. *)
LEMMA SourceHasValue ==
    ASSUME IsScenario(input), NEW f \in Fields, f \notin DOMAIN input.env
    PROVE  ~ Is(Source(f), "error")
<1> DEFINE v == Source(f)
<1>1. v \in FileValues \/ v = Defaults[f]
  BY SourceIs
<1>2. ~ Is(Defaults[f], "error")
  BY FieldNames, SMT DEF Defaults, Is
<1> HIDE DEF v
<1>3. v \in FileValues => ~ Is(v, "error")
  BY DEF FileValues, Is
<1> QED
  BY <1>1, <1>2, <1>3 DEF v

-----------------------------------------------------------------------------
(* Where a path of the configuration leads.                                *)

(* What lstat() answers at a place. *)
LEMMA LookIs ==
    ASSUME NEW tree, TreeTyped(tree), NEW p \in Places, NEW last \in BOOLEAN
    PROVE  LET w == Walked(tree, p, last)
               found == Found(tree, w)
           IN \/ w.error = "" /\ found = Node(tree, w.at) /\ found \in TreeNodes
              \/ w.error \in Errs \cup {"ELOOP"} /\ found = [kind |-> w.error]
<1> DEFINE w == Walked(tree, p, last)
<1>1. w.error \in Errs \cup {"", "ELOOP"}
  BY WalkedFacts
<1>2. Node(tree, w.at) \in TreeNodes
  BY NodeType
<1> HIDE DEF w
<1>3. Found(tree, w) = IF w.error = "" THEN Node(tree, w.at) ELSE [kind |-> w.error]
  BY DEF Found
<1>4. "" \notin Errs \cup {"ELOOP"}
  BY DEF Errs
<1> QED
  BY <1>1, <1>2, <1>3, <1>4 DEF w

KnownTyped(known) == \A p \in DOMAIN known : known[p] \in Places

LEMMA BelowIsPlace ==
    ASSUME NEW base \in Places, NEW path, path.names \in Places
    PROVE  (IF path.absolute THEN path.names ELSE base \o path.names) \in Places
  BY ConcatProperties DEF Places

RealFields == {"at", "rest", "inside", "known", "looped"}

(* lstat() has seen no link on the way to a place. *)
Straight(tree, p) ==
    \A k \in 1..Len(p) : p[k] # ".." /\ Lstat(tree, Way(p, k)).kind # "link"

(* What realpath holds are places, and straight ones unless a link led into itself. *)
RealTyped(tree, w) ==
    /\ DOMAIN w = RealFields
    /\ w.at \in Places /\ w.rest \in Places /\ KnownTyped(w.known)
    /\ w.looped \/ (Straight(tree, w.at) /\ \A p \in DOMAIN w.known : Straight(tree, w.known[p]))

LEMMA StraightUp ==
    ASSUME NEW tree, NEW p \in Places, Straight(tree, p)
    PROVE  Straight(tree, Up(p))
<1>1. CASE p = <<>>
  BY <1>1 DEF Up
<1>2. CASE p # <<>>
  <2> DEFINE n == Len(p) - 1
  <2>1. n \in 0..Len(p) /\ Up(p) = Way(p, n) /\ Len(p) \in Nat
    BY <1>2, ParentIs DEF Up
  <2>2. \A k \in 1..n : k \in 0..n /\ k \in 1..Len(p)
    BY <2>1
  <2> HIDE DEF n
  <2>3. /\ Len(Way(p, n)) = n /\ (\A k \in 1..n : Way(p, n)[k] = p[k])
        /\ \A k \in 0..n : Way(Way(p, n), k) = Way(p, k)
    BY <2>1, WayFacts, WayOfWay
  <2> QED
    BY <2>1, <2>2, <2>3 DEF Straight
<1> QED
  BY <1>1, <1>2

LEMMA StraightGrow ==
    ASSUME NEW tree, NEW p \in Places, Straight(tree, p), NEW x \in STRING, x # "..",
           Lstat(tree, Append(p, x)).kind # "link"
    PROVE  Straight(tree, Append(p, x))
<1> DEFINE q == Append(p, x)
           m == Len(p)
<1>1. m \in Nat
  BY PlaceType
<1>2. /\ Len(q) = m + 1 /\ q[m + 1] = x /\ \A k \in 1..m : q[k] = p[k]
      /\ (\A n \in 0..m : Way(q, n) = Way(p, n)) /\ Way(q, m + 1) = q
  BY GrowFacts
<1>3. Lstat(tree, q).kind # "link"
  OBVIOUS
<1> HIDE DEF q
<1>4. \A k \in 1..(m + 1) : k = m + 1 \/ (k \in 1..m /\ k \in 0..m)
  BY <1>1
<1>5. Straight(tree, q)
  BY <1>2, <1>3, <1>4 DEF Straight
<1> QED
  BY <1>5 DEF q

(* One look. *)
LEMMA RealStepTyped ==
    ASSUME NEW python, NEW tree, TreeTyped(tree), NEW w, RealTyped(tree, w)
    PROVE  RealTyped(tree, RealStep(python, tree, w))
<1> DEFINE v == RealStep(python, tree, w)
           next == NextPlace(w)
           found == Lstat(tree, next)
           linked == found.kind = "link" /\ ~ (w.looped /\ python = "3.12")
           known == Put(w.known, Last(w.inside).link, w.at)
           inside == Front(w.inside)
           rest == Tail(w.rest)
<1> SUFFICES RealTyped(tree, v)
  OBVIOUS
<1>1. \/ v = w
      \/ v = [w EXCEPT !.inside = inside, !.known = known]
      \/ /\ w.rest # <<>>
         /\ \/ Head(w.rest) = ".." /\ v = [w EXCEPT !.at = Up(w.at), !.rest = rest]
            \/ Head(w.rest) # ".." /\ ~ linked /\ v = [w EXCEPT !.at = next, !.rest = rest]
            \/ next \in DOMAIN w.known /\ v = [w EXCEPT !.at = w.known[next], !.rest = rest]
            \/ Head(w.rest) # ".." /\ v = [w EXCEPT !.at = next, !.rest = rest, !.looped = TRUE]
            \/ Head(w.rest) # ".." /\ found.kind = "link" /\ v = Enters(w, found)
  BY DEF RealStep
<1>2. w.rest # <<>> => Head(w.rest) \in STRING /\ rest \in Places
  BY HeadTailProperties DEF RealTyped, Places
<1>3. w.rest # <<>> => next \in Places
  BY <1>2, GrowFacts DEF RealTyped, NextPlace
<1>4. Up(w.at) \in Places /\ (w.looped \/ Straight(tree, Up(w.at)))
  BY ParentIs, StraightUp DEF RealTyped, Up
<1> HIDE DEF v
<1>5. ASSUME w.rest # <<>>, NEW b \in Places, w.looped \/ Straight(tree, b),
             v = [w EXCEPT !.at = b, !.rest = rest]
      PROVE  RealTyped(tree, v)
  <2>1. rest \in Places
    BY <1>2, <1>5
  <2> HIDE DEF rest
  <2> QED
    BY <1>5, <2>1 DEF RealTyped, RealFields
<1>6. CASE v = w
  BY <1>6
<1>7. CASE v = [w EXCEPT !.inside = inside, !.known = known]
  <2>1. KnownTyped(known)
    BY DEF Put, KnownTyped, RealTyped
  <2>2. w.looped \/ \A p \in DOMAIN known : Straight(tree, known[p])
    BY DEF Put, RealTyped
  <2> HIDE DEF known, inside
  <2> QED
    BY <1>7, <2>1, <2>2 DEF RealTyped, RealFields
<1>8. CASE w.rest # <<>> /\ Head(w.rest) = ".." /\ v = [w EXCEPT !.at = Up(w.at), !.rest = rest]
  BY <1>4, <1>5, <1>8
<1>9. CASE w.rest # <<>> /\ Head(w.rest) # ".." /\ ~ linked /\ v = [w EXCEPT !.at = next, !.rest = rest]
  <2>1. w.looped \/ found.kind # "link"
    BY <1>9
  <2>2. w.looped \/ Straight(tree, w.at)
    BY DEF RealTyped
  <2>3. found.kind # "link" /\ Straight(tree, w.at) => Straight(tree, next)
    BY <1>2, <1>9, StraightGrow DEF RealTyped, NextPlace
  <2> QED
    BY <1>3, <1>5, <1>9, <2>1, <2>2, <2>3
<1>10. CASE w.rest # <<>> /\ next \in DOMAIN w.known /\ v = [w EXCEPT !.at = w.known[next], !.rest = rest]
  BY <1>5, <1>10 DEF RealTyped, KnownTyped
<1>11. CASE /\ w.rest # <<>> /\ Head(w.rest) # ".."
            /\ v = [w EXCEPT !.at = next, !.rest = rest, !.looped = TRUE]
  <2>1. next \in Places /\ rest \in Places
    BY <1>2, <1>3, <1>11
  <2> HIDE DEF next, rest
  <2> QED
    BY <1>11, <2>1 DEF RealTyped, RealFields
<1>12. CASE w.rest # <<>> /\ Head(w.rest) # ".." /\ found.kind = "link" /\ v = Enters(w, found)
  <2>1. found.to.names \in Places
    <3>1. found = Found(tree, Walked(tree, next, FALSE)) /\ next \in Places
      BY <1>3, <1>12 DEF Lstat
    <3>2. found \in TreeNodes \/ \E e \in Errs \cup {"ELOOP"} : found = [kind |-> e]
      BY <3>1, LookIs, Zenon
    <3>3. found \in TreeNodes
      BY <1>12, <3>2 DEF Errs
    <3> QED
      BY <1>12, <3>3, NodeKinds
  <2> DEFINE u == found.to.names \o rest
             b == IF found.to.absolute THEN <<>> ELSE w.at
             in == Append(w.inside, [link |-> next, left |-> Len(w.rest) - 1])
  <2>2. u \in Places
    BY <1>2, <1>12, <2>1, ConcatProperties DEF Places
  <2>3. <<>> \in Places /\ Straight(tree, <<>>)
    BY EmptySeq DEF Places, Straight
  <2>4. b \in Places /\ (w.looped \/ Straight(tree, b))
    BY <2>3 DEF RealTyped
  <2>5. v = [w EXCEPT !.at = b, !.rest = u, !.inside = in]
    BY <1>12 DEF Enters
  <2> HIDE DEF u, b, in
  <2> QED
    BY <2>2, <2>4, <2>5 DEF RealTyped, RealFields
<1> QED
  BY <1>1, <1>6, <1>7, <1>8, <1>9, <1>10, <1>11, <1>12

(* f has realpath after each number of looks. *)
Looks0(f, N, python, tree, w) ==
    f = [n \in 0..N |-> IF n = 0 THEN w ELSE RealStep(python, tree, f[n - 1])]

LEMMA LooksExist ==
    ASSUME NEW N \in Nat, NEW python, NEW tree, NEW w
    PROVE  \E f : Looks0(f, N, python, tree, w)
<1> DEFINE S == {m \in 0..N : \E f : Looks0(f, m, python, tree, w)}
<1>1. 0 \in S
  <2> DEFINE f == [n \in 0..0 |-> w]
  <2>1. f = [n \in 0..0 |-> IF n = 0 THEN w ELSE RealStep(python, tree, f[n - 1])]
    OBVIOUS
  <2>2. Looks0(f, 0, python, tree, w)
    BY <2>1 DEF Looks0
  <2> HIDE DEF f
  <2> QED
    BY <2>2
<1>2. ASSUME NEW m \in 0..N, m # N, m \in S PROVE m + 1 \in S
  <2>1. PICK f : Looks0(f, m, python, tree, w)
    BY <1>2
  <2> DEFINE g == [n \in 0..(m + 1) |-> IF n = m + 1 THEN RealStep(python, tree, f[m]) ELSE f[n]]
  <2>2. ASSUME NEW n \in 0..(m + 1)
        PROVE  g[n] = IF n = 0 THEN w ELSE RealStep(python, tree, g[n - 1])
    <3>1. CASE n = m + 1
      <4>1. m \in 0..(m + 1) /\ m # m + 1 /\ n - 1 = m /\ n # 0
        BY <3>1
      <4> QED
        BY <3>1, <4>1
    <3>2. CASE n # m + 1
      <4>1. n \in 0..m /\ (n # 0 => n - 1 \in 0..(m + 1) /\ n - 1 # m + 1)
        BY <3>2
      <4>2. f[n] = IF n = 0 THEN w ELSE RealStep(python, tree, f[n - 1])
        BY <2>1, <4>1 DEF Looks0
      <4> QED
        BY <3>2, <4>1, <4>2
    <3> QED
      BY <3>1, <3>2
  <2>3. g = [n \in 0..(m + 1) |-> g[n]]
    OBVIOUS
  <2> HIDE DEF g
  <2>4. Looks0(g, m + 1, python, tree, w)
    BY <2>2, <2>3 DEF Looks0
  <2>5. m + 1 \in 0..N
    BY <1>2
  <2> QED
    BY <2>4, <2>5
<1> HIDE DEF S
<1>3. \A n \in 0..N : n \in S
  BY <1>1, <1>2, StepByStep
<1> QED
  BY <1>3 DEF S

LEMMA LookedIs ==
    ASSUME NEW python, NEW tree, NEW w
    PROVE  \E f : /\ f[0] = w
                  /\ \A n \in 1..MaxNames : f[n] = RealStep(python, tree, f[n - 1])
                  /\ Looked(python, tree, w) = f[MaxNames]
<1> DEFINE f == CHOOSE g : Looks0(g, MaxNames, python, tree, w)
<1>1. Looks0(f, MaxNames, python, tree, w)
  BY LooksExist, MaxNamesType
<1>2. Looked(python, tree, w) = f[MaxNames]
  BY DEF Looked, Looks0
<1> HIDE DEF f
<1>3. \A n \in 0..MaxNames : f[n] = IF n = 0 THEN w ELSE RealStep(python, tree, f[n - 1])
  BY <1>1 DEF Looks0
<1>4. f[0] = w /\ \A n \in 1..MaxNames : f[n] = RealStep(python, tree, f[n - 1])
  BY <1>3, MaxNamesType
<1> QED
  BY <1>2, <1>4

LEMMA LookedTyped ==
    ASSUME NEW python, NEW tree, TreeTyped(tree), NEW w, RealTyped(tree, w)
    PROVE  RealTyped(tree, Looked(python, tree, w))
<1>1. PICK f : /\ f[0] = w
               /\ \A n \in 1..MaxNames : f[n] = RealStep(python, tree, f[n - 1])
               /\ Looked(python, tree, w) = f[MaxNames]
  BY LookedIs
<1> DEFINE Typed(n) == RealTyped(tree, f[n])
           S == {n \in 0..MaxNames : Typed(n)}
<1>2. Typed(0) /\ 0 \in 0..MaxNames
  BY <1>1, MaxNamesType
<1>3. ASSUME NEW n \in 0..MaxNames, n # MaxNames, Typed(n) PROVE Typed(n + 1) /\ n + 1 \in 0..MaxNames
  <2> HIDE DEF Typed
  <2>1. n + 1 \in 1..MaxNames /\ (n + 1) - 1 = n /\ n + 1 \in 0..MaxNames
    BY <1>3, MaxNamesType
  <2>2. f[n + 1] = RealStep(python, tree, f[n])
    BY <1>1, <2>1
  <2> USE DEF Typed
  <2> QED
    BY <1>3, <2>1, <2>2, RealStepTyped
<1> HIDE DEF Typed
<1>4. 0 \in S /\ \A n \in 0..MaxNames : n # MaxNames /\ n \in S => n + 1 \in S
  BY <1>2, <1>3
<1> HIDE DEF S
<1>5. \A n \in 0..MaxNames : n \in S
  BY <1>4, MaxNamesType, StepByStep
<1>6. MaxNames \in 0..MaxNames
  BY MaxNamesType
<1> QED
  BY <1>1, <1>5, <1>6 DEF S, Typed

LEMMA RealPathTyped ==
    ASSUME NEW python, NEW tree, TreeTyped(tree), NEW names \in Places
    PROVE  RealTyped(tree, RealPath(python, tree, names))
<1> DEFINE w == Unresolved(names)
           half == Looked(python, tree, w)
<1>1. <<>> \in Places /\ Straight(tree, <<>>) /\ DOMAIN <<>> = {}
  BY EmptySeq DEF Places, Straight
<1>2. RealTyped(tree, w)
  BY <1>1 DEF RealTyped, RealFields, Unresolved, KnownTyped
<1> HIDE DEF w
<1>3. RealTyped(tree, half)
  BY <1>2, LookedTyped
<1> HIDE DEF half
<1>4. RealTyped(tree, Looked(python, tree, half))
  BY <1>3, LookedTyped
<1>5. RealPath(python, tree, names) \in {half, Looked(python, tree, half)}
  BY DEF RealPath, half, w
<1> QED
  BY <1>3, <1>4, <1>5

LEMMA PlaceIs ==
    ASSUME NEW python, NEW tree, TreeTyped(tree), NEW base \in Places, NEW path, path.names \in Places
    PROVE  /\ NamesFrom(base, path) \in Places
           /\ RealTyped(tree, Place(python, tree, base, path))
           /\ Place(python, tree, base, path).at \in Places
<1>1. NamesFrom(base, path) \in Places
  BY BelowIsPlace DEF NamesFrom
<1>2. RealTyped(tree, Place(python, tree, base, path))
  BY <1>1, RealPathTyped DEF Place
<1> QED
  BY <1>1, <1>2 DEF RealTyped

-----------------------------------------------------------------------------
(* load_config.                                                            *)

LEMMA ValidIs ==
    ASSUME NEW python, NEW tree, NEW v
    PROVE  /\ Valid(python, tree, "workspace_root", v) =>
                 Is(v, "path") /\ IsRoot(tree, Place(python, tree, Cwd, v.path))
           /\ Valid(python, tree, "artifact_directory", v) => Is(v, "path")
           /\ Valid(python, tree, "allowed_commands", v) =>
                 \A i \in DOMAIN v.list : AllowedValid(v.list[i])
           /\ Valid(python, tree, "test_commands", v) =>
                 (\A i \in DOMAIN v.list : TestValid(v.list[i])) /\ NamesUnique(v.list)
<1>1. /\ Valid(python, tree, "workspace_root", v) =>
            Is(v, "path") /\ IsRoot(tree, Place(python, tree, Cwd, v.path))
      /\ Valid(python, tree, "artifact_directory", v) => Is(v, "path")
  BY SMT DEF Valid, Ceilings
<1>2. Valid(python, tree, "allowed_commands", v) => \A i \in DOMAIN v.list : AllowedValid(v.list[i])
  BY SMT DEF Valid, Ceilings
<1>3. Valid(python, tree, "test_commands", v) =>
         (\A i \in DOMAIN v.list : TestValid(v.list[i])) /\ NamesUnique(v.list)
  BY SMT DEF Valid, Ceilings
<1> QED
  BY <1>1, <1>2, <1>3

LEMMA UnknownIsInvalid ==
    ASSUME NEW python, NEW tree, NEW v, NEW f, f \notin Fields
    PROVE  ~ Valid(python, tree, f, v)
  BY SMT DEF Valid, Ceilings, Fields, Defaults

LEMMA KeptIs ==
    ASSUME NEW python, NEW tree, NEW v
    PROVE  /\ Kept(python, tree, "workspace_root", v) = Place(python, tree, Cwd, v.path).at
           /\ Kept(python, tree, "artifact_directory", v) = v.path
           /\ Kept(python, tree, "allowed_commands", v) = [i \in DOMAIN v.list |-> KeptAllowed(v.list[i])]
           /\ Kept(python, tree, "test_commands", v) = [i \in DOMAIN v.list |-> KeptTest(v.list[i])]
<1>1. Kept(python, tree, "workspace_root", v) = Place(python, tree, Cwd, v.path).at
  BY SMT DEF Kept, Ceilings
<1>2. Kept(python, tree, "artifact_directory", v) = v.path
  BY SMT DEF Kept, Ceilings
<1>3. Kept(python, tree, "allowed_commands", v) = [i \in DOMAIN v.list |-> KeptAllowed(v.list[i])]
  BY SMT DEF Kept, Ceilings
<1>4. Kept(python, tree, "test_commands", v) = [i \in DOMAIN v.list |-> KeptTest(v.list[i])]
  BY SMT DEF Kept, Ceilings
<1> QED
  BY <1>1, <1>2, <1>3, <1>4

(* What load_config makes of the input. *)
Outcome == Loaded(input.python, input.fs, input.file, input.env)
KeptValues == [f \in Fields |-> Kept(input.python, input.fs, f, AllValues[f])]
RootFound == Place(input.python, input.fs, Cwd, AllValues.workspace_root.path)
ArtifactsFound ==
    Place(input.python, input.fs, KeptValues.workspace_root, KeptValues.artifact_directory)
Served == Over([status |-> "serving"], [KeptValues EXCEPT !.artifact_directory = ArtifactsFound.at])

WhyCrashed ==
    \/ input.file.is = "unreadable"
    \/ ~ IsText(AllValues.log_level)
    \/ Is(AllValues.workspace_root, "path") /\ Raises(input.python, input.fs, RootFound)
    \/ /\ \A f \in DOMAIN AllValues : Valid(input.python, input.fs, f, AllValues[f])
       /\ Raises(input.python, input.fs, ArtifactsFound)

EnvBroken == \E f \in DOMAIN input.env : Is(Parsed(input.env)[f], "error")

WhyRefused ==
    \/ input.file.is \in {"missing", "malformed", "no_table"}
    \/ EnvBroken
    \/ \E f \in DOMAIN AllValues : ~ Valid(input.python, input.fs, f, AllValues[f])
    \/ /\ \A f \in DOMAIN AllValues : Valid(input.python, input.fs, f, AllValues[f])
       /\ ~ IsRoot(input.fs, ArtifactsFound)

WhyServed ==
    /\ ~ EnvBroken
    /\ \A f \in DOMAIN AllValues : Valid(input.python, input.fs, f, AllValues[f])
    /\ IsRoot(input.fs, ArtifactsFound)

LEMMA OutcomeIs ==
    \/ Outcome = Crashed /\ WhyCrashed
    \/ Outcome = Refused /\ WhyRefused
    \/ Outcome = Served /\ WhyServed
<1> DEFINE python == input.python
           tree == input.fs
           raw == Merged(input.file.keys, input.env)
<1>1. \/ Outcome = Crashed /\ input.file.is = "unreadable"
      \/ Outcome = Refused /\ input.file.is \in {"missing", "malformed", "no_table"}
      \/ Outcome = Refused /\ EnvBroken
      \/ Outcome = Validated(python, tree, raw) /\ ~ EnvBroken
  BY DEF Outcome, Loaded, EnvBroken
<1>2. Validated(python, tree, raw) =
         IF \/ ~ IsText(AllValues.log_level)
            \/ Is(AllValues.workspace_root, "path") /\ Raises(python, tree, RootFound)
         THEN Crashed
         ELSE IF \E f \in DOMAIN AllValues : ~ Valid(python, tree, f, AllValues[f]) THEN Refused
         ELSE IF Raises(python, tree, ArtifactsFound) THEN Crashed
         ELSE IF ~ IsRoot(tree, ArtifactsFound) THEN Refused
         ELSE Served
  BY DEF Validated, AllValues, RootFound, ArtifactsFound, KeptValues, Served
<1> HIDE DEF python, tree, raw
<1>3. \/ Validated(python, tree, raw) = Crashed /\ WhyCrashed
      \/ Validated(python, tree, raw) = Refused /\ WhyRefused
      \/ /\ Validated(python, tree, raw) = Served
         /\ \A f \in DOMAIN AllValues : Valid(input.python, input.fs, f, AllValues[f])
         /\ IsRoot(input.fs, ArtifactsFound)
  BY <1>2 DEF WhyCrashed, WhyRefused, python, tree
<1> QED
  BY <1>1, <1>3 DEF WhyCrashed, WhyRefused, WhyServed

LEMMA ServedIs ==
    /\ Served.status = "serving"
    /\ \A f \in Fields \ {"artifact_directory"} : Served[f] = KeptValues[f]
    /\ Served.artifact_directory = ArtifactsFound.at
<1>1. "artifact_directory" \in Fields /\ "status" \notin Fields
  BY FieldNames
<1> DEFINE kept == [KeptValues EXCEPT !.artifact_directory = ArtifactsFound.at]
<1>2. /\ DOMAIN kept = Fields /\ kept.artifact_directory = ArtifactsFound.at
      /\ \A f \in Fields \ {"artifact_directory"} : kept[f] = KeptValues[f]
  BY <1>1 DEF KeptValues
<1> HIDE DEF kept
<1>3. Served = Over([status |-> "serving"], kept)
  BY DEF Served, kept
<1> QED
  BY <1>1, <1>2, <1>3 DEF Over

LEMMA CwdIsPlace == Cwd \in Places
  BY LiteralsAssumption, SMT DEF Cwd, Places

LEMMA FoundIs ==
    ASSUME IsScenario(input)
    PROVE  /\ RootFound = RootPlace /\ ArtifactsFound = ArtifactPlace
           /\ KeptValues.workspace_root = RootFound.at
           /\ KeptValues.artifact_directory = Source("artifact_directory").path
<1>1. /\ AllValues.workspace_root = Source("workspace_root")
      /\ AllValues.artifact_directory = Source("artifact_directory")
      /\ "workspace_root" \in Fields /\ "artifact_directory" \in Fields
  BY AllIsSource, FieldNames
<1>2. /\ KeptValues.workspace_root = RootFound.at
      /\ KeptValues.artifact_directory = Source("artifact_directory").path
  BY <1>1, KeptIs DEF KeptValues, RootFound
<1> QED
  BY <1>1, <1>2 DEF RootFound, RootPlace, ArtifactsFound, ArtifactPlace

(* The commands of a server that has started: bare names, no operators. *)
CommandsConfigured ==
    /\ \A i \in DOMAIN config.allowed_commands :
          config.allowed_commands[i].executable.form = "bare"
    /\ \A i \in DOMAIN config.test_commands :
          LET tokens == config.test_commands[i].command
          IN /\ tokens \in Seq(AnyToken) /\ tokens # <<>> /\ Head(tokens).form = "bare"
             /\ \A k \in 2..Len(tokens) : tokens[k].form \notin {"control", "trailed", "operator"}
    /\ \A i, j \in DOMAIN config.test_commands :
          config.test_commands[i].name = config.test_commands[j].name => i = j

(* A list that a source gives is one of items. *)
LEMMA SourceList ==
    ASSUME IsScenario(input), Is(Source("test_commands"), "list")
    PROVE  Source("test_commands").list \in Seq(Items)
<1> DEFINE f == "test_commands"
           keys == input.file.keys
           uses == {i \in DOMAIN keys : keys[i].field = f}
<1>1. CASE f \in DOMAIN input.env
  <2> DEFINE v == input.env[f]
  <2>1. Source(f) = ParseEnvValue(f, v)
    BY <1>1 DEF Source
  <2>2. v \in EnvValues
    BY <1>1 DEF IsScenario
  <2> HIDE DEF v
  <2>3. ParseEnvValue("test_commands", v) =
           IF Is(v, "broken") THEN [error |-> "test_commands"]
           ELSE IF Is(v, "json") THEN [list |-> v.json] ELSE [error |-> "test_commands"]
    BY DEF ParseEnvValue
  <2>4. Is(v, "json") => v.json \in Seq(Items)
    BY <2>2 DEF EnvValues, Is
  <2>5. Is(ParseEnvValue("test_commands", v), "list") =>
           ParseEnvValue("test_commands", v).list \in Seq(Items)
    BY <2>3, <2>4 DEF Is
  <2> QED
    BY <2>1, <2>5
<1>2. CASE f \notin DOMAIN input.env /\ uses # {}
  <2>1. keys \in Seq(KeyRecords)
    BY DEF IsScenario, KeyRecords
  <2>2. Len(keys) \in Nat /\ DOMAIN keys = 1..Len(keys) /\ \A i \in DOMAIN keys : keys[i] \in KeyRecords
    BY <2>1
  <2>3. Max(uses) \in uses
    BY <1>2, <2>2, MaxIs
  <2>4. keys[Max(uses)].value \in FileValues
    BY <2>2, <2>3 DEF KeyRecords
  <2>5. Source(f) = keys[Max(uses)].value
    BY <1>2 DEF Source
  <2> DEFINE v == keys[Max(uses)].value
  <2> HIDE DEF v
  <2>6. v \in FileValues /\ Is(v, "list") => v.list \in Seq(Items)
    BY DEF FileValues, Is
  <2> QED
    BY <2>4, <2>5, <2>6 DEF v
<1>3. CASE f \notin DOMAIN input.env /\ uses = {}
  <2>1. Source(f) = Defaults[f]
    BY <1>3 DEF Source
  <2>2. Defaults.test_commands.list = <<>> /\ <<>> \in Seq(Items)
    BY SMT DEF Defaults
  <2> QED
    BY <2>1, <2>2
<1> QED
  BY <1>1, <1>2, <1>3

LEMMA KeptTestIs ==
    ASSUME NEW item \in Items, TestValid(item)
    PROVE  LET tokens == KeptTest(item).command
           IN /\ tokens \in Seq(AnyToken) /\ tokens # <<>> /\ Head(tokens).form = "bare"
              /\ \A k \in 2..Len(tokens) : tokens[k].form \notin {"control", "trailed", "operator"}
              /\ KeptTest(item).name = item.name
<1> DEFINE c == item.command
           head == KeptExecutable(Head(c))
           tail == Tail(c)
           tokens == <<head>> \o tail
<1>1. c \in Seq(AnyToken) /\ c # <<>> /\ "command" \in DOMAIN item
  BY DEF TestValid, Is, Items
<1>2. Head(c) \in AnyToken /\ tail \in Seq(AnyToken)
  BY <1>1
<1>3. head \in AnyToken /\ head.form = "bare"
  BY <1>2 DEF TestValid, ConfigurableExecutable, KeptExecutable, Strip, AnyToken, Forms
<1>4. \A k \in DOMAIN tail : tail[k].form \notin {"control", "trailed", "operator"}
  BY DEF TestValid, ArgumentsValid, ConfigurableArgument
<1>5. KeptTest(item).command = tokens
  BY <1>1 DEF KeptTest
<1>6. KeptTest(item).name = item.name
  BY DEF KeptTest
<1> HIDE DEF c, head, tail
<1>7. <<head>> \in Seq(AnyToken) /\ Len(<<head>>) = 1 /\ <<head>>[1] = head
  BY <1>3
<1>8. /\ tokens \in Seq(AnyToken) /\ Len(tokens) = 1 + Len(tail)
      /\ tokens[1] = head
      /\ \A k \in 1..Len(tail) : tokens[1 + k] = tail[k]
  BY <1>2, <1>7, ConcatProperties
<1>9. Len(tail) \in Nat /\ DOMAIN tail = 1..Len(tail)
  BY <1>2
<1> HIDE DEF tokens
<1>10. tokens # <<>> /\ Head(tokens) = head
  BY <1>8, <1>9
<1>11. ASSUME NEW k \in 2..Len(tokens) PROVE tokens[k].form \notin {"control", "trailed", "operator"}
  <2>1. k - 1 \in 1..Len(tail) /\ 1 + (k - 1) = k
    BY <1>8, <1>9
  <2> QED
    BY <1>4, <1>8, <1>9, <2>1
<1> QED
  BY <1>3, <1>5, <1>6, <1>8, <1>10, <1>11

LEMMA ServedCommands ==
    ASSUME IsScenario(input), config = Served, WhyServed
    PROVE  CommandsConfigured
<1>1. \A f \in Fields \ {"artifact_directory"} : config[f] = Kept(input.python, input.fs, f, AllValues[f])
  BY ServedIs DEF KeptValues
<1>2. /\ "allowed_commands" \in Fields \ {"artifact_directory"}
      /\ "test_commands" \in Fields \ {"artifact_directory"}
  BY FieldNames
<1>3. AllValues.allowed_commands = Source("allowed_commands") /\ AllValues.test_commands = Source("test_commands")
  BY <1>2, AllIsSource
<1> DEFINE allowed == Source("allowed_commands").list
           tests == Source("test_commands").list
<1>4. /\ config.allowed_commands = [i \in DOMAIN allowed |-> KeptAllowed(allowed[i])]
      /\ config.test_commands = [i \in DOMAIN tests |-> KeptTest(tests[i])]
  BY <1>1, <1>2, <1>3, KeptIs
<1>5. /\ Valid(input.python, input.fs, "allowed_commands", Source("allowed_commands"))
      /\ Valid(input.python, input.fs, "test_commands", Source("test_commands"))
  BY <1>2, <1>3, AllIsSource DEF WhyServed
<1>6. /\ \A i \in DOMAIN allowed : AllowedValid(allowed[i])
      /\ \A i \in DOMAIN tests : TestValid(tests[i])
      /\ NamesUnique(tests)
  BY <1>5, ValidIs
<1>7. tests \in Seq(Items)
  <2>1. Is(Source("test_commands"), "list")
    BY <1>5, SMT DEF Valid, Ceilings
  <2> QED
    BY <2>1, SourceList
<1>8. \A i \in DOMAIN tests : tests[i] \in Items
  BY <1>7
<1> HIDE DEF allowed, tests
<1>9. ASSUME NEW i \in DOMAIN config.allowed_commands
      PROVE  config.allowed_commands[i].executable.form = "bare"
  <2> DEFINE item == allowed[i]
  <2>1. AllowedValid(item) /\ config.allowed_commands[i] = KeptAllowed(item)
    BY <1>4, <1>6, <1>9
  <2> HIDE DEF item
  <2>2. KeptAllowed(item).executable = Strip(item.executable) /\ Strip(item.executable).form = "bare"
    BY <2>1 DEF KeptAllowed, KeptExecutable, AllowedValid, ConfigurableExecutable, Is
  <2> QED
    BY <2>1, <2>2
<1>10. ASSUME NEW i \in DOMAIN config.test_commands
       PROVE  LET tokens == config.test_commands[i].command
              IN /\ tokens \in Seq(AnyToken) /\ tokens # <<>> /\ Head(tokens).form = "bare"
                 /\ \A k \in 2..Len(tokens) : tokens[k].form \notin {"control", "trailed", "operator"}
                 /\ config.test_commands[i].name = tests[i].name
  BY <1>4, <1>6, <1>8, <1>10, KeptTestIs
<1>11. \A i, j \in DOMAIN config.test_commands :
          config.test_commands[i].name = config.test_commands[j].name => i = j
  BY <1>4, <1>6, <1>10 DEF NamesUnique
<1> QED
  BY <1>9, <1>10, <1>11 DEF CommandsConfigured

LEMMA ServedRoots ==
    ASSUME IsScenario(input), config = Served, WhyServed
    PROVE  config.workspace_root \in Places /\ config.artifact_directory \in Places
<1>1. "workspace_root" \in Fields \ {"artifact_directory"} /\ "artifact_directory" \in Fields
  BY FieldNames
<1>2. config.workspace_root = RootPlace.at /\ config.artifact_directory = ArtifactPlace.at
  BY <1>1, ServedIs, FoundIs
<1>3. /\ Valid(input.python, input.fs, "workspace_root", Source("workspace_root"))
      /\ Valid(input.python, input.fs, "artifact_directory", Source("artifact_directory"))
  BY <1>1, AllIsSource DEF WhyServed
<1>4. Source("workspace_root").path.names \in Places /\ Source("artifact_directory").path.names \in Places
  BY <1>3, ValidIs, SourcePath
<1>5. TreeTyped(input.fs)
  BY DEF TreeTyped, IsScenario
<1>6. RootPlace.at \in Places
  BY <1>4, <1>5, CwdIsPlace, PlaceIs DEF RootPlace
<1>7. ArtifactPlace.at \in Places
  BY <1>4, <1>5, <1>6, PlaceIs DEF ArtifactPlace
<1> QED
  BY <1>2, <1>6, <1>7

-----------------------------------------------------------------------------
(* The configuration, for good.                                            *)

Steps0 == {"resolve", "is", "run", "stat", "read", "answered"}

(***************************************************************************)
(* Until the server has started the file system is the one it is given;    *)
(* from then on the configuration is what it made of that.                 *)
(***************************************************************************)
ConfigInv ==
    /\ input \in Scenarios
    /\ pc \in {"start", "not_started", "idle"} \cup Steps0
    /\ config.status \in {"none", "serving", "ConfigError", "exception"}
    /\ pc \in {"start", "not_started"} <=> config.status # "serving"
    /\ pc = "start" => fs = input.fs /\ config.status = "none"
    /\ pc # "start" => config = Outcome
    /\ config.status = "serving" =>
          /\ CommandsConfigured
          /\ config.workspace_root \in Places /\ config.artifact_directory \in Places

(* After the start nothing changes what the server was given and has. *)
LEMMA OtherSteps ==
    ASSUME Next, pc # "start"
    PROVE  /\ input' = input /\ config' = config
           /\ pc' = pc \/ (pc \in {"idle"} \cup Steps0 /\ pc' \in Steps0)
<1>1. ~ Start
  BY DEF Start
<1>2. CASE CallRunCommand
  BY <1>2 DEF CallRunCommand, BeginPath, Raise, Steps0
<1>3. CASE CallRunTests
  BY <1>3 DEF CallRunTests, BeginPath, Raise, Steps0
<1>4. CASE CallReadOrCollect
  BY <1>4 DEF CallReadOrCollect, BeginPath, Raise, Steps0
<1>5. CASE ResolvePath
  BY <1>5 DEF ResolvePath, callVars
<1>6. CASE Resolved
  BY <1>6 DEF Resolved, Raise, Steps0
<1>7. CASE CheckKind
  BY <1>7 DEF CheckKind, Raise, Steps0
<1>8. CASE Run
  BY <1>8 DEF Run, Raise, Answer, Steps0
<1>9. CASE ReportFails
  BY <1>9 DEF ReportFails, Raise, Steps0
<1>10. CASE StatSize
  BY <1>10 DEF StatSize, Raise, Steps0
<1>11. CASE Read
  BY <1>11 DEF Read, FileRead, ArtifactRead, Raise, Answer, Steps0
<1>12. CASE Others
  BY <1>12 DEF Others, callVars
<1>13. CASE Finished
  BY <1>13 DEF Finished, vars, callVars
<1> QED
  BY <1>1, <1>2, <1>3, <1>4, <1>5, <1>6, <1>7, <1>8, <1>9, <1>10, <1>11, <1>12, <1>13 DEF Next

LEMMA ConfigStays ==
    ASSUME ConfigInv, input' = input, config' = config
    PROVE  /\ Outcome' = Outcome
           /\ config.status = "serving" =>
                 /\ CommandsConfigured'
                 /\ config'.workspace_root \in Places /\ config'.artifact_directory \in Places
<1>1. Outcome' = Outcome
  BY DEF Outcome
<1>2. config.status = "serving" => CommandsConfigured'
  BY DEF ConfigInv, CommandsConfigured
<1> QED
  BY <1>1, <1>2 DEF ConfigInv

(* A configuration that is served is Served, and for good reasons. *)
LEMMA ServingIs ==
    ASSUME config = Outcome, config.status = "serving"
    PROVE  config = Served /\ WhyServed
<1>1. Crashed.status # "serving" /\ Refused.status # "serving"
  BY DEF Crashed, Refused
<1> QED
  BY <1>1, OutcomeIs

LEMMA StartGives ==
    ASSUME IsScenario(input), config = Outcome
    PROVE  /\ config.status \in {"serving", "ConfigError", "exception"}
           /\ config.status = "serving" =>
                 /\ CommandsConfigured
                 /\ config.workspace_root \in Places /\ config.artifact_directory \in Places
<1>1. /\ Crashed.status = "exception" /\ Refused.status = "ConfigError"
      /\ Served.status = "serving"
  BY ServedIs DEF Crashed, Refused
<1>2. config.status = "serving" =>
         /\ CommandsConfigured
         /\ config.workspace_root \in Places /\ config.artifact_directory \in Places
  BY ServingIs, ServedCommands, ServedRoots
<1> QED
  BY <1>1, <1>2, OutcomeIs

LEMMA StartIs ==
    IsScenario(input) /\ config = Outcome =>
       /\ config.status \in {"serving", "ConfigError", "exception"}
       /\ config.status = "serving" =>
             /\ CommandsConfigured
             /\ config.workspace_root \in Places /\ config.artifact_directory \in Places
  BY StartGives

THEOREM ConfigurationKept == Spec => []ConfigInv
<1>1. Init => ConfigInv
  BY DEF Init, ConfigInv
<1>2. ConfigInv /\ [Next]_vars => ConfigInv'
  <2> SUFFICES ASSUME ConfigInv, [Next]_vars PROVE ConfigInv'
    OBVIOUS
  <2>1. CASE UNCHANGED vars
    <3>1. input' = input /\ config' = config /\ pc' = pc /\ fs' = fs
      BY <2>1 DEF vars, callVars, pathVars
    <3> QED
      BY <3>1, ConfigStays DEF ConfigInv
  <2>2. CASE Start
    <3>1. IsScenario(input) /\ fs = input.fs /\ pc = "start"
      BY <2>2, ScenariosAssumption DEF ConfigInv, Start
    <3>2. /\ input' = input /\ config' = Outcome
          /\ pc' = IF config'.status = "serving" THEN "idle" ELSE "not_started"
      BY <2>2, <3>1 DEF Start, Outcome
    <3>3. IsScenario(input)' /\ config' = Outcome'
      BY <3>1, <3>2 DEF Outcome
    <3>4. (IsScenario(input) /\ config = Outcome =>
             /\ config.status \in {"serving", "ConfigError", "exception"}
             /\ config.status = "serving" =>
                   /\ CommandsConfigured
                   /\ config.workspace_root \in Places /\ config.artifact_directory \in Places)'
      BY StartIs, PTL
    <3> QED
      BY <3>2, <3>3, <3>4 DEF ConfigInv
  <2>3. CASE Next /\ ~ Start
    <3>1. pc # "start"
      <4>1. ~ (pc = "start" /\ Next /\ ~ Start)
        BY DEF Next, CallRunCommand, CallRunTests, CallReadOrCollect, ResolvePath, Resolved,
               CheckKind, Run, ReportFails, StatSize, Read, Others, Finished
      <4> QED
        BY <2>3, <4>1
    <3>2. /\ input' = input /\ config' = config
          /\ pc' = pc \/ (pc \in {"idle"} \cup Steps0 /\ pc' \in Steps0)
      BY <2>3, <3>1, OtherSteps
    <3>3. /\ pc' \in {"start", "not_started", "idle"} \cup Steps0 /\ pc' # "start"
          /\ pc' \in {"start", "not_started"} <=> pc \in {"start", "not_started"}
      BY <3>1, <3>2 DEF ConfigInv, Steps0
    <3> QED
      BY <3>1, <3>2, <3>3, ConfigStays DEF ConfigInv
  <2> QED
    BY <2>1, <2>2, <2>3
<1> QED
  BY <1>1, <1>2, PTL DEF Spec

-----------------------------------------------------------------------------
(* The tree and the resolution.                                            *)

LEMMA TreeStays ==
    ASSUME TreeTyped(fs), [Next]_vars
    PROVE  TreeTyped(fs')
<1>1. CASE Others
  <2>1. Edit
    BY <1>1 DEF Others
  <2> QED
    BY <2>1, EditKeepsTree
<1>2. CASE ~ Others
  <2>1. fs' = fs
    BY <1>2 DEF Next, Start, CallRunCommand, CallRunTests, CallReadOrCollect, ResolvePath, Resolve,
       Resolved, CheckKind, Run, ReportFails, StatSize, Read, Finished, vars, callVars, pathVars
  <2> QED
    BY <2>1
<1> QED
  BY <1>1, <1>2

LEMMA TreeKept == Spec => []TreeTyped(fs)
<1>1. Init => TreeTyped(fs)
  BY ScenariosAssumption DEF Init, IsScenario, TreeTyped
<1>2. TreeTyped(fs) /\ [Next]_vars => TreeTyped(fs)'
  BY TreeStays
<1> QED
  BY <1>1, <1>2, PTL DEF Spec

WalkFields ==
    {"step", "verdict", "root", "names", "scanned", "symlink", "at", "rest", "inside", "known", "began"}

(***************************************************************************)
(* What a resolution holds are places; one that is done has a verdict, and *)
(* "resolved" only for a place below the root.                             *)
(***************************************************************************)
WalkTyped(w) ==
    /\ DOMAIN w = WalkFields
    /\ w.step \in {"scan", "look", "done"} /\ w.verdict \in Verdicts
    /\ w.step = "done" => w.verdict # "none"
    /\ w.root \in Places /\ w.names \in Places /\ w.at \in Places /\ w.rest \in Places
    /\ KnownTyped(w.known)

WalkOK == walk = NoWalk \/ WalkTyped(walk)

LEMMA RootIsPlace ==
    ASSUME ConfigInv, TreeTyped(fs), pc = "idle"
    PROVE  Root \in Places /\ Candidate(Root, Request.path) \in Places
<1>1. /\ config.workspace_root \in Places /\ config.artifact_directory \in Places
      /\ IsScenario(input)
  BY ScenariosAssumption DEF ConfigInv
<1>2. /\ Request.path.names \in Places
      /\ Request.tool = "collect_artifact" => Request.category \in STRING
  BY <1>1 DEF IsScenario, IsRequest, Request
<1> DEFINE place == IF Request.tool = "collect_artifact"
                    THEN Append(config.artifact_directory, Request.category)
                    ELSE config.workspace_root
<1>3. place \in Places
  BY <1>1, <1>2, GrowFacts
<1> HIDE DEF place
<1>4. RealPath(input.python, fs, place).at \in Places
  BY <1>3, RealPathTyped DEF RealTyped
<1>5. Root \in Places
  BY <1>4 DEF Root, place
<1>6. Candidate(Root, Request.path) \in Places
  BY <1>2, <1>5, BelowIsPlace DEF Candidate
<1> QED
  BY <1>5, <1>6

LEMMA BegunTyped ==
    ASSUME NEW root \in Places, NEW path, Candidate(root, path) \in Places
    PROVE  WalkTyped(Begun(root, path))
<1> DEFINE names == Candidate(root, path)
           verdict == Rejected(path)
           w == Begun(root, path)
<1>1. verdict \in {"none", "PathSecurityError", "PathTraversalError"}
  BY DEF Rejected
<1>2. names \in Places
  OBVIOUS
<1> HIDE DEF names, verdict
<1>3. /\ DOMAIN w = WalkFields
      /\ w.step = IF verdict = "none" THEN "scan" ELSE "done"
      /\ w.verdict = verdict /\ w.root = root /\ w.names = names /\ w.at = <<>> /\ w.rest = names
      /\ w.known = <<>>
  BY DEF Begun, WalkFields, names, verdict
<1> HIDE DEF w
<1>4. <<>> \in Places /\ DOMAIN <<>> = {}
  BY EmptySeq DEF Places
<1>5. KnownTyped(w.known)
  BY <1>3, <1>4 DEF KnownTyped
<1>6. w.verdict \in Verdicts /\ w.step \in {"scan", "look", "done"} /\ (w.step = "done" => w.verdict # "none")
  BY <1>1, <1>3 DEF Verdicts, PathSecurityErrors
<1>7. WalkTyped(w)
  BY <1>2, <1>3, <1>4, <1>5, <1>6 DEF WalkTyped
<1> QED
  BY <1>7 DEF w

LEMMA NextName ==
    ASSUME NEW w, WalkTyped(w), w.rest # <<>>
    PROVE  /\ Head(w.rest) \in STRING /\ Tail(w.rest) \in Places
           /\ Append(w.at, Head(w.rest)) \in Places /\ Up(w.at) \in Places
<1>1. w.at \in Places /\ w.rest \in Places
  BY DEF WalkTyped
<1>2. Head(w.rest) \in STRING /\ Tail(w.rest) \in Places
  BY <1>1, HeadTailProperties DEF Places
<1> QED
  BY <1>1, <1>2, GrowFacts, ParentIs DEF Up

LEMMA StepInBounds ==
    ASSUME WalkTyped(walk), TreeTyped(fs), NEW python, Resolve(python)
    PROVE  WalkTyped(walk')
<1>1. CASE Scan
  <2>1. \/ walk' = [walk EXCEPT !.step = "look"]
        \/ walk' = [walk EXCEPT !.step = "look", !.symlink = TRUE]
        \/ walk' = [walk EXCEPT !.scanned = walk.scanned + 1]
    BY <1>1 DEF Scan
  <2>2. walk.step = "scan"
    BY <1>1 DEF Scan
  <2> QED
    BY <2>1, <2>2 DEF WalkTyped, WalkFields
<1>2. CASE LeaveLink
  <2> DEFINE known == Put(walk.known, Last(walk.inside).link, walk.at)
             inside == Front(walk.inside)
  <2>1. walk' = [walk EXCEPT !.inside = inside, !.known = known] /\ walk.step = "look"
    BY <1>2 DEF LeaveLink
  <2>2. KnownTyped(known)
    BY DEF Put, KnownTyped, WalkTyped
  <2> HIDE DEF known, inside
  <2> QED
    BY <2>1, <2>2 DEF WalkTyped, WalkFields
<1>3. ASSUME Going, NEW at \in Places, walk' = [walk EXCEPT !.at = at, !.rest = Tail(walk.rest)]
      PROVE  WalkTyped(walk')
  <2> DEFINE rest == Tail(walk.rest)
  <2>1. rest \in Places
    BY <1>3, NextName DEF Going
  <2>2. walk' = [walk EXCEPT !.at = at, !.rest = rest]
    BY <1>3
  <2> HIDE DEF rest
  <2> QED
    BY <2>1, <2>2 DEF WalkTyped, WalkFields
<1>4. CASE GoUp
  BY <1>3, <1>4, NextName DEF GoUp, Going
<1>5. CASE GoOn
  BY <1>3, <1>5, NextName DEF GoOn, Looking, Going, There
<1>6. CASE KnownLink
  <2>1. walk.known[There] \in Places
    BY <1>6 DEF KnownLink, WalkTyped, KnownTyped
  <2> QED
    BY <1>3, <1>6, <2>1 DEF KnownLink, Looking
<1>7. CASE EnterLink
  <2>1. Going /\ Look.kind = "link" /\ There \in Places /\ Tail(walk.rest) \in Places
    BY <1>7, NextName DEF EnterLink, Looking, Going, There
  <2>2. Look \in TreeNodes
    <3>1. Look = Found(fs, Walked(fs, There, FALSE))
      BY DEF Look, Lstat
    <3>2. Look \in TreeNodes \/ \E e \in Errs \cup {"ELOOP"} : Look = [kind |-> e]
      BY <2>1, <3>1, LookIs, Zenon
    <3> QED
      BY <2>1, <3>2 DEF Errs
  <2>3. Look.to.names \in Places
    BY <2>1, <2>2, NodeKinds
  <2> DEFINE rest == Look.to.names \o Tail(walk.rest)
             at == IF Look.to.absolute THEN <<>> ELSE walk.at
             inside == Append(walk.inside, [link |-> There, left |-> Len(walk.rest) - 1])
  <2>4. rest \in Places /\ at \in Places
    BY <2>1, <2>3, ConcatProperties, EmptySeq DEF Places, WalkTyped
  <2>5. walk' = [walk EXCEPT !.at = at, !.rest = rest, !.inside = inside]
    BY <1>7 DEF EnterLink
  <2> HIDE DEF rest, at, inside
  <2> QED
    BY <2>4, <2>5 DEF WalkTyped, WalkFields
<1>8. ASSUME NEW verdict \in Verdicts \ {"none"}, End(verdict) PROVE WalkTyped(walk')
  BY <1>8 DEF End, WalkTyped, WalkFields
<1>9. CASE LookFails(python)
  <2>1. \E verdict \in {"WorkspacePathNotFoundError", "PathSecurityError", "OSError"} : End(verdict)
    BY <1>9 DEF LookFails
  <2> QED
    BY <1>8, <2>1 DEF Verdicts, PathSecurityErrors
<1>10. CASE Contain
  <2>1. \E verdict \in {"resolved", "SymlinkEscapeError", "PathEscapeError"} : End(verdict)
    BY <1>10 DEF Contain
  <2> QED
    BY <1>8, <2>1 DEF Verdicts, PathSecurityErrors
<1> QED
  BY <1>1, <1>2, <1>4, <1>5, <1>6, <1>7, <1>9, <1>10 DEF Resolve

(* The path begins to be resolved, or its root is a loop of links. *)
LEMMA BeginIs ==
    ASSUME BeginPath
    PROVE  \/ pc' = "resolve" /\ walk' = Begun(Root, Request.path) /\ answer' = answer
           \/ /\ pc' = "answered" /\ walk' = walk
              /\ answer'.kind = "masked" /\ answer'.error = "RuntimeError" /\ input.python = "3.12"
<1>1. CASE EndLoops(input.python, fs, Root)
  <2>1. Raise("RuntimeError") /\ walk' = walk /\ input.python = "3.12"
    BY <1>1 DEF BeginPath, EndLoops
  <2> QED
    BY <2>1 DEF Raise, WorkbenchMcpErrors
<1>2. CASE ~ EndLoops(input.python, fs, Root)
  BY <1>2 DEF BeginPath
<1> QED
  BY <1>1, <1>2

LEMMA WalkStays ==
    ASSUME ConfigInv, TreeTyped(fs), WalkOK, [Next]_vars
    PROVE  WalkOK'
<1>1. CASE walk' = walk
  BY <1>1 DEF WalkOK
<1>2. CASE pc = "idle" /\ BeginPath
  <2>1. walk' = Begun(Root, Request.path) \/ walk' = walk
    BY <1>2, BeginIs
  <2>2. WalkTyped(Begun(Root, Request.path))
    BY <1>2, RootIsPlace, BegunTyped
  <2> QED
    BY <1>1, <2>1, <2>2 DEF WalkOK
<1>3. CASE ResolvePath
  <2>1. Resolve(input.python)
    BY <1>3 DEF ResolvePath
  <2>2. walk # NoWalk
    BY <2>1 DEF Resolve, Scan, LeaveLink, GoUp, GoOn, KnownLink, EnterLink, LookFails, Contain,
                Looking, Going, NoWalk
  <2> QED
    BY <2>1, <2>2, StepInBounds DEF WalkOK
<1>4. walk' = walk \/ (pc = "idle" /\ BeginPath) \/ ResolvePath
  BY DEF Next, Start, CallRunCommand, CallRunTests, CallReadOrCollect, Edit, Others,
     Resolved, CheckKind, Run, ReportFails, StatSize, Read, Finished, vars, callVars, pathVars
<1> QED
  BY <1>1, <1>2, <1>3, <1>4

LEMMA WalkKept == Spec => []WalkOK
<1>1. Init => WalkOK
  BY DEF Init, WalkOK
<1>2. ConfigInv /\ TreeTyped(fs) /\ WalkOK /\ [Next]_vars => WalkOK'
  BY WalkStays
<1> QED
  BY <1>1, <1>2, ConfigurationKept, TreeKept, PTL DEF Spec

-----------------------------------------------------------------------------
(* The call.                                                               *)

Commands == {"run_command", "run_tests"}

TestsRefused == \A i \in Selected : ~ ValidTokens(config.test_commands[i].command)

ApprovedCommand ==
    /\ Head(command).form = "bare"
    /\ \A i \in 2..Len(command) : RunnableArgument(command[i])
    /\ Request.tool = "run_command" =>
          \E i \in DOMAIN config.allowed_commands :
             config.allowed_commands[i].executable = Head(command)
    /\ Request.tool = "run_tests" => ~ TestsRefused

(* An answer once a command is approved or a file is asked for. *)
WellAnswered ==
    /\ answer.kind \in {"result", "tool_error", "masked"}
    /\ answer.kind \in {"tool_error", "masked"} => answer.error # "CommandSecurityError"
    /\ answer.kind = "masked" =>
          answer.error = "OSError" \/ (answer.error = "RuntimeError" /\ input.python = "3.12")

(***************************************************************************)
(* A command that is there has been approved, and only then; a test that   *)
(* is refused was not, and nothing else is refused with that error.        *)
(***************************************************************************)
CallInv ==
    /\ pc \in {"is", "run", "stat", "read"} => walk # NoWalk /\ walk.verdict = "resolved"
    /\ pc \in {"start", "not_started", "idle"} => command = <<>> /\ walk = NoWalk
    /\ pc \in {"resolve", "is", "run", "stat", "read"} /\ Request.tool \in Commands => command # <<>>
    /\ pc = "run" => Request.tool \in Commands
    /\ command # <<>> => Request.tool \in Commands /\ ApprovedCommand
    /\ pc # "answered" => answer.kind = "none"
    /\ pc = "answered" =>
          \/ WellAnswered /\ (Request.tool \in Commands => command # <<>>)
          \/ /\ answer.kind = "tool_error" /\ answer.error = "CommandSecurityError"
             /\ command = <<>>
             /\ Request.tool = "run_tests" => TestsRefused
    /\ edits \in 0..MaxEdits
    /\ size \in Nat

ErrorsAfter ==
    {"OSError", "PathSecurityError", "PathTraversalError", "PathEscapeError", "SymlinkEscapeError",
     "WorkspacePathNotFoundError", "WorkspaceFileError", "FileTooLargeError", "BinaryFileError",
     "ArtifactAccessError", "ProcessExecutionError"}

LEMMA RaiseIs ==
    ASSUME NEW e \in ErrorsAfter, Raise(e)
    PROVE  pc' = "answered" /\ WellAnswered'
<1>1. e # "CommandSecurityError" /\ (e \notin WorkbenchMcpErrors => e = "OSError")
  BY DEF ErrorsAfter, WorkbenchMcpErrors
<1> QED
  BY <1>1 DEF Raise, WellAnswered

LEMMA ResultIs ==
    ASSUME NEW shown, NEW made, NEW cut, NEW timed_out, Answer(Result(shown, made, cut, timed_out))
    PROVE  pc' = "answered" /\ WellAnswered'
  BY DEF Answer, Result, WellAnswered

(* How far a call comes in one step once it is accepted. *)
Onward ==
    \/ pc' = pc /\ answer' = answer /\ (pc # "resolve" => walk' = walk)
    \/ pc' = "answered" /\ WellAnswered'
    \/ /\ answer' = answer /\ walk' = walk /\ walk # NoWalk /\ walk.verdict = "resolved"
       /\ \/ pc = "resolve" /\ pc' = "is"
          \/ pc = "is" /\ pc' = "run" /\ Request.tool \in Commands
          \/ pc' \in {"stat", "read"}

LEMMA HereIsFile ==
    ASSUME TreeTyped(fs), WalkTyped(walk), Here.kind = "file"
    PROVE  Here.bytes \in Seq(STRING)
<1>1. Here = Found(fs, Walked(fs, walk.at, TRUE)) /\ walk.at \in Places
  BY DEF Here, Stat, WalkTyped
<1>2. Here \in TreeNodes \/ \E e \in Errs \cup {"ELOOP"} : Here = [kind |-> e]
  BY <1>1, LookIs, Zenon
<1>3. Here \in TreeNodes
  BY <1>2 DEF Errs
<1> QED
  BY <1>3, NodeKinds

LEMMA SizesType ==
    ASSUME TreeTyped(fs), WalkTyped(walk), NEW bytes \in Sizes(Here)
    PROVE  bytes \in Nat
<1>3. Here.kind = "file" => Len(Here.bytes) \in Nat
  BY HereIsFile, LenProperties
<1>4. 1 \in Nat /\ Ceilings.max_file_size_bytes + 1 \in Nat
  BY SMT DEF Ceilings
<1>5. \/ Here.kind = "file" /\ bytes = Len(Here.bytes)
      \/ bytes \in {1, Ceilings.max_file_size_bytes + 1}
  BY DEF Sizes
<1> QED
  BY <1>3, <1>4, <1>5, SMT

LEMMA AfterCall ==
    ASSUME CallInv, ConfigInv, WalkOK, TreeTyped(fs), Next, pc \in {"resolve", "is", "run", "stat", "read"}
    PROVE  /\ input' = input /\ config' = config /\ command' = command
           /\ edits' \in 0..MaxEdits /\ size' \in Nat
           /\ Onward
<1>0. edits \in 0..MaxEdits /\ size \in Nat
  BY DEF CallInv
<1>1. CASE ResolvePath
  BY <1>0, <1>1 DEF ResolvePath, Resolve, callVars, Onward
<1>2. CASE Resolved
  <2>1. walk.step = "done" /\ walk # NoWalk /\ walk.verdict \in Verdicts \ {"none"}
    BY <1>2 DEF Resolved, NoWalk, WalkOK, WalkTyped
  <2>2. CASE pc' = "is" /\ answer' = answer
    <3>1. walk.verdict = "resolved"
      BY <1>2, <2>2 DEF Resolved, Raise
    <3> QED
      BY <1>0, <1>2, <2>1, <2>2, <3>1 DEF Resolved, pathVars, Onward
  <2>3. CASE ~ (pc' = "is" /\ answer' = answer)
    <3>1. \/ walk.verdict # "resolved" /\ Raise(walk.verdict)
          \/ Raise("ArtifactAccessError")
      BY <1>2, <2>3 DEF Resolved
    <3>2. PICK e \in ErrorsAfter : Raise(e)
      BY <2>1, <3>1 DEF ErrorsAfter, Verdicts, PathSecurityErrors
    <3> QED
      BY <1>0, <1>2, <3>2, RaiseIs DEF Resolved, pathVars, Onward
  <2> QED
    BY <2>2, <2>3
<1>3. CASE CheckKind
  <2>1. walk # NoWalk /\ walk.verdict = "resolved"
    BY <1>3 DEF CheckKind, CallInv
  <2>2. \/ pc' = "run" /\ answer' = answer /\ Request.tool \in Commands
        \/ pc' = "stat" /\ answer' = answer
        \/ \E e \in {"OSError", "PathSecurityError", "WorkspaceFileError", "ArtifactAccessError"} : Raise(e)
    BY <1>3 DEF CheckKind, Commands
  <2>3. (\E e \in ErrorsAfter : Raise(e)) => pc' = "answered" /\ WellAnswered'
    BY RaiseIs
  <2>4. {"OSError", "PathSecurityError", "WorkspaceFileError", "ArtifactAccessError"} \subseteq ErrorsAfter
    BY DEF ErrorsAfter
  <2>5. pc = "is" /\ UNCHANGED <<input, config, command, size, pathVars>>
    BY <1>3 DEF CheckKind
  <2> QED
    BY <1>0, <2>1, <2>2, <2>3, <2>4, <2>5 DEF pathVars, Onward
<1>4. CASE Run
  <2>1. UNCHANGED <<input, config, command, size, pathVars>>
    BY <1>4 DEF Run
  <2>2. pc' = "answered" /\ WellAnswered'
    <3>1. \/ Raise("ProcessExecutionError")
          \/ \E shown, made, cut, timed_out : Answer(Result(shown, made, cut, timed_out))
      BY <1>4, Zenon DEF Run
    <3>2. "ProcessExecutionError" \in ErrorsAfter
      BY DEF ErrorsAfter
    <3> QED
      BY <3>1, <3>2, RaiseIs, ResultIs
  <2> QED
    BY <1>0, <2>1, <2>2 DEF pathVars, Onward
<1>5. CASE ReportFails
  <2>1. "OSError" \in ErrorsAfter
    BY DEF ErrorsAfter
  <2> QED
    BY <1>0, <1>5, <2>1, RaiseIs DEF ReportFails, pathVars, Onward
<1>6. CASE StatSize
  <2>1. walk # NoWalk /\ walk.verdict = "resolved" /\ WalkTyped(walk)
    BY <1>6 DEF StatSize, CallInv, WalkOK
  <2>2. UNCHANGED <<input, config, command, pathVars>>
    BY <1>6 DEF StatSize
  <2>3. {"OSError", "FileTooLargeError"} \subseteq ErrorsAfter
    BY DEF ErrorsAfter
  <2>4. size' \in Nat
    BY <1>0, <1>6, <2>1, SizesType DEF StatSize
  <2>5. Raise("OSError") \/ Raise("FileTooLargeError") \/ (pc' = "read" /\ answer' = answer)
    BY <1>6 DEF StatSize
  <2> QED
    BY <1>0, <2>1, <2>2, <2>3, <2>4, <2>5, RaiseIs DEF pathVars, Onward
<1>7. CASE Read
  <2>1. UNCHANGED <<input, config, command, size, pathVars>>
    BY <1>7 DEF Read
  <2>2. pc' = "answered" /\ WellAnswered'
    <3>1. \/ Raise("OSError") \/ Raise("BinaryFileError") \/ Raise("ArtifactAccessError")
          \/ \E shown, made, cut, timed_out : Answer(Result(shown, made, cut, timed_out))
      BY <1>7, Zenon DEF Read, FileRead, ArtifactRead
    <3>2. {"OSError", "BinaryFileError", "ArtifactAccessError"} \subseteq ErrorsAfter
      BY DEF ErrorsAfter
    <3> QED
      BY <3>1, <3>2, RaiseIs, ResultIs
  <2> QED
    BY <1>0, <2>1, <2>2 DEF pathVars, Onward
<1>8. CASE Others
  BY <1>0, <1>8, NodesAssumption DEF Others, Edit, callVars, Onward
<1>9. ~ Start /\ ~ CallRunCommand /\ ~ CallRunTests /\ ~ CallReadOrCollect /\ ~ Finished
  BY DEF Start, CallRunCommand, CallRunTests, CallReadOrCollect, Finished
<1> QED
  BY <1>1, <1>2, <1>3, <1>4, <1>5, <1>6, <1>7, <1>8, <1>9 DEF Next

(* A call that is refused or accepted. *)
LEMMA AtCall ==
    ASSUME CallInv, ConfigInv, pc = "idle", CallRunCommand \/ CallRunTests \/ CallReadOrCollect
    PROVE  CallInv'
<1>1. /\ command = <<>> /\ answer.kind = "none" /\ edits \in 0..MaxEdits /\ size \in Nat
      /\ CommandsConfigured
  BY DEF CallInv, ConfigInv
<1>2. input' = input /\ config' = config /\ size' = size /\ edits' = edits
  BY DEF CallRunCommand, CallRunTests, CallReadOrCollect
<1>3. ASSUME command' = command, answer'.error = "CommandSecurityError", answer'.kind = "tool_error",
             pc' = "answered", Request.tool = "run_tests" => TestsRefused
      PROVE  CallInv'
  <2>1. (Request.tool = "run_tests" => TestsRefused)'
    BY <1>2, <1>3 DEF TestsRefused, Selected, Request
  <2> QED
    BY <1>1, <1>2, <1>3, <2>1 DEF CallInv
<1>4. ASSUME (pc' = "resolve" /\ answer' = answer) \/ (pc' = "answered" /\ WellAnswered'),
             Request.tool \in Commands, command' # <<>>, ApprovedCommand'
      PROVE  CallInv'
  BY <1>1, <1>2, <1>4 DEF CallInv, Request
<1>5. Raise("CommandSecurityError") =>
         pc' = "answered" /\ answer'.error = "CommandSecurityError" /\ answer'.kind = "tool_error"
  BY DEF Raise, WorkbenchMcpErrors
<1>6. ASSUME BeginPath PROVE (pc' = "resolve" /\ answer' = answer) \/ (pc' = "answered" /\ WellAnswered')
  BY <1>2, <1>6, BeginIs DEF WellAnswered
<1>7. CASE CallRunCommand
  <2>1. Request.tool = "run_command"
    BY <1>7 DEF CallRunCommand
  <2>2. CASE Allowlisted(Request.command, config.allowed_commands)
    <3>1. command' = Request.command /\ BeginPath
      BY <1>7, <2>2 DEF CallRunCommand
    <3>2. PICK i \in DOMAIN config.allowed_commands :
             Head(Request.command) = config.allowed_commands[i].executable
      BY <2>2 DEF Allowlisted
    <3>3. Head(Request.command).form = "bare"
      BY <1>1, <3>2 DEF CommandsConfigured
    <3>4. Request.command # <<>> /\ \A k \in 2..Len(Request.command) : RunnableArgument(Request.command[k])
      BY <2>2 DEF Allowlisted, ValidTokens
    <3>5. ApprovedCommand'
      BY <1>2, <2>1, <3>1, <3>2, <3>3, <3>4 DEF ApprovedCommand, Request
    <3> QED
      BY <1>4, <1>6, <2>1, <3>1, <3>4, <3>5 DEF Commands
  <2>3. CASE ~ Allowlisted(Request.command, config.allowed_commands)
    BY <1>3, <1>5, <1>7, <2>1, <2>3 DEF CallRunCommand
  <2> QED
    BY <2>2, <2>3
<1>8. CASE CallRunTests
  <2>1. Request.tool = "run_tests"
    BY <1>8 DEF CallRunTests
  <2>2. CASE \E i \in Selected : ValidTokens(config.test_commands[i].command)
    <3>1. BeginPath
      BY <1>8, <2>2 DEF CallRunTests
    <3>2. PICK i \in Selected : command' = config.test_commands[i].command
      BY <1>8, <2>2 DEF CallRunTests
    <3>3. PICK j \in Selected : ValidTokens(config.test_commands[j].command)
      BY <2>2
    <3>4. i = j /\ i \in DOMAIN config.test_commands
      BY <1>1, <3>2, <3>3 DEF CommandsConfigured, Selected
    <3>5. ValidTokens(command')
      BY <3>2, <3>3, <3>4
    <3>6. Head(command').form = "bare"
      BY <1>1, <3>2, <3>4 DEF CommandsConfigured
    <3>7. (~ TestsRefused)'
      BY <1>2, <2>2 DEF TestsRefused, Selected, Request
    <3>8. command' # <<>> /\ ApprovedCommand'
      BY <1>2, <2>1, <3>5, <3>6, <3>7 DEF ApprovedCommand, ValidTokens, Request
    <3> QED
      BY <1>4, <1>6, <2>1, <3>1, <3>8 DEF Commands
  <2>3. CASE ~ \E i \in Selected : ValidTokens(config.test_commands[i].command)
    BY <1>3, <1>5, <1>8, <2>3 DEF CallRunTests, TestsRefused
  <2> QED
    BY <2>2, <2>3
<1>9. CASE CallReadOrCollect
  <2>1. Request.tool \notin Commands /\ BeginPath /\ command' = command
    BY <1>9 DEF CallReadOrCollect, Commands
  <2> QED
    BY <1>1, <1>2, <1>6, <2>1 DEF CallInv, Request
<1> QED
  BY <1>7, <1>8, <1>9

LEMMA ApprovalStays ==
    ASSUME input' = input, config' = config, command' = command
    PROVE  /\ ApprovedCommand' <=> ApprovedCommand
           /\ TestsRefused' <=> TestsRefused
           /\ Request' = Request
<1>1. Request' = Request
  BY DEF Request
<1>2. TestsRefused' <=> TestsRefused
  BY DEF TestsRefused, Selected, Request
<1>3. ApprovedCommand' <=> ApprovedCommand
  BY <1>1, <1>2 DEF ApprovedCommand
<1> QED
  BY <1>1, <1>2, <1>3

LEMMA CallStays ==
    ASSUME CallInv, ConfigInv, WalkOK, TreeTyped(fs), [Next]_vars
    PROVE  CallInv'
<1>1. CASE UNCHANGED vars
  <2>1. /\ input' = input /\ config' = config /\ command' = command /\ pc' = pc /\ walk' = walk
        /\ answer' = answer /\ edits' = edits /\ size' = size
    BY <1>1 DEF vars, callVars, pathVars
  <2>2. WellAnswered' <=> WellAnswered
    BY <2>1 DEF WellAnswered
  <2> QED
    BY <2>1, <2>2, ApprovalStays DEF CallInv
<1>2. CASE Next /\ pc \in {"resolve", "is", "run", "stat", "read"}
  <2>1. /\ input' = input /\ config' = config /\ command' = command
        /\ edits' \in 0..MaxEdits /\ size' \in Nat /\ Onward
    BY <1>2, AfterCall
  <2>2. /\ ApprovedCommand' <=> ApprovedCommand
        /\ TestsRefused' <=> TestsRefused /\ Request' = Request
    BY <2>1, ApprovalStays
  <2>3. Request.tool \in Commands => command # <<>>
    BY <1>2 DEF CallInv
  <2>4. answer.kind = "none" /\ (command # <<>> => Request.tool \in Commands /\ ApprovedCommand)
    BY <1>2 DEF CallInv
  <2>5. pc' \in {"resolve", "is", "run", "stat", "read", "answered"}
    BY <1>2, <2>1 DEF Onward
  <2>6. (pc \in {"is", "run", "stat", "read"} => walk # NoWalk /\ walk.verdict = "resolved")'
    BY <1>2, <2>1 DEF CallInv, Onward
  <2>7. (pc = "run" => Request.tool \in Commands)'
    <3>1. pc = "run" => Request.tool \in Commands
      BY DEF CallInv
    <3> QED
      BY <2>1, <3>1 DEF Onward, Request
  <2>8. (pc # "answered" => answer.kind = "none")'
    BY <1>2, <2>1, <2>4 DEF Onward
  <2>9. (pc = "answered" => WellAnswered)'
    BY <1>2, <2>1 DEF Onward
  <2>10. (Request.tool \in Commands => command # <<>>)'
    BY <2>1, <2>3 DEF Request
  <2>11. (command # <<>> => Request.tool \in Commands /\ ApprovedCommand)'
    BY <2>1, <2>2, <2>4 DEF Request
  <2>12. (pc \notin {"start", "not_started", "idle"})'
    BY <2>5
  <2> QED
    BY <2>1, <2>6, <2>7, <2>8, <2>9, <2>10, <2>11, <2>12 DEF CallInv
<1>3. CASE Next /\ pc = "start"
  <2>1. Start
    BY <1>3 DEF Next, CallRunCommand, CallRunTests, CallReadOrCollect, ResolvePath, Resolved,
          CheckKind, Run, ReportFails, StatSize, Read, Others, Finished
  <2>2. /\ command' = command /\ answer' = answer /\ size' = size /\ edits' = edits
        /\ walk' = walk /\ pc' \in {"idle", "not_started"}
    BY <2>1 DEF Start, pathVars
  <2> QED
    BY <1>3, <2>2 DEF CallInv
<1>4. CASE Next /\ pc = "idle"
  <2>1. CallRunCommand \/ CallRunTests \/ CallReadOrCollect \/ Others
    BY <1>4 DEF Next, Start, ResolvePath, Resolved,
          CheckKind, Run, ReportFails, StatSize, Read, Finished
  <2>2. CASE Others
    <3>1. /\ command' = command /\ answer' = answer /\ size' = size /\ pc' = pc
          /\ walk' = walk /\ edits < MaxEdits /\ edits' = edits + 1
      BY <2>2 DEF Others, Edit, callVars
    <3> QED
      BY <1>4, <3>1, NodesAssumption DEF CallInv
  <2> QED
    BY <1>4, <2>1, <2>2, AtCall
<1>5. CASE Next /\ pc \in {"answered", "not_started"}
  <2>1. Finished
    BY <1>5 DEF Next, Start, CallRunCommand, CallRunTests, CallReadOrCollect, ResolvePath, Resolved,
          CheckKind, Run, ReportFails, StatSize, Read, Others
  <2> QED
    BY <1>1, <2>1 DEF Finished
<1> QED
  BY <1>1, <1>2, <1>3, <1>4, <1>5 DEF ConfigInv, Steps0

LEMMA CallKept == Spec => []CallInv
<1>1. Init => CallInv
  BY NodesAssumption DEF Init, CallInv, NoAnswer
<1>2. ConfigInv /\ TreeTyped(fs) /\ WalkOK /\ CallInv /\ [Next]_vars => CallInv'
  BY CallStays
<1> QED
  BY <1>1, <1>2, ConfigurationKept, TreeKept, WalkKept, PTL DEF Spec

(* Types, for all file systems, sources, requests and changes. *)
THEOREM TypeCorrect == Spec => []TypeOK
<1>1. ConfigInv /\ TreeTyped(fs) /\ WalkOK /\ CallInv => TypeOK
  <2> SUFFICES ASSUME ConfigInv, TreeTyped(fs), WalkOK, CallInv PROVE TypeOK
    OBVIOUS
  <2>1. /\ answer.kind \in {"none", "result", "tool_error", "masked"}
        /\ answer.kind = "masked" =>
              answer.error = "OSError" \/ (answer.error = "RuntimeError" /\ input.python = "3.12")
    BY DEF CallInv, WellAnswered
  <2>2. walk # NoWalk => walk.step \in {"scan", "look", "done"} /\ walk.verdict \in Verdicts
    BY DEF WalkOK, WalkTyped
  <2>3. /\ pc \in {"is", "run", "stat", "read"} => walk.verdict = "resolved"
        /\ pc = "run" => command # <<>>
        /\ edits \in 0..MaxEdits /\ size \in Nat
    BY DEF CallInv
  <2>4. IsTree(fs)
    BY DEF TreeTyped
  <2>5. /\ pc \in {"start", "not_started", "idle", "resolve", "is", "run", "stat", "read", "answered"}
        /\ config.status \in {"none", "serving", "ConfigError", "exception"}
        /\ pc \in {"start", "not_started"} <=> config.status # "serving"
    BY DEF ConfigInv, Steps0
  <2> QED
    BY <2>1, <2>2, <2>3, <2>4, <2>5 DEF TypeOK
<1> QED
  BY <1>1, ConfigurationKept, TreeKept, WalkKept, CallKept, PTL

(* What a test that may not run has in it. *)
LEMMA RefusedTest ==
    ASSUME CommandsConfigured, NEW i \in DOMAIN config.test_commands
    PROVE  LET tokens == config.test_commands[i].command
           IN ~ ValidTokens(tokens) <=> \E j \in DOMAIN tokens : tokens[j].form = "substitution"
<1> DEFINE tokens == config.test_commands[i].command
<1>1. /\ tokens \in Seq(AnyToken) /\ tokens # <<>> /\ Head(tokens).form = "bare"
      /\ \A k \in 2..Len(tokens) : tokens[k].form \notin {"control", "trailed", "operator"}
  BY DEF CommandsConfigured
<1> HIDE DEF tokens
<1>2. Len(tokens) \in Nat /\ DOMAIN tokens = 1..Len(tokens) /\ Head(tokens) = tokens[1]
  BY <1>1
<1>3. RunnableExecutable(Head(tokens))
  BY <1>1 DEF RunnableExecutable
<1>4. ~ ValidTokens(tokens) <=> \E k \in 2..Len(tokens) : tokens[k].form = "substitution"
  BY <1>1, <1>3 DEF ValidTokens, RunnableArgument
<1>5. tokens[1].form # "substitution"
  BY <1>1, <1>2
<1>6. \A k : k \in 1..Len(tokens) <=> k \in 2..Len(tokens) \/ (k = 1 /\ 1 <= Len(tokens))
  BY <1>2
<1>7. (\E k \in 2..Len(tokens) : tokens[k].form = "substitution") <=>
         \E k \in DOMAIN tokens : tokens[k].form = "substitution"
  BY <1>2, <1>5, <1>6
<1> QED
  BY <1>4, <1>7 DEF tokens

(* Only what is approved runs, and every configured test that may run does. *)
THEOREM CommandsCorrect == Spec => []CommandsAreApproved
<1>1. ConfigInv /\ CallInv => CommandsAreApproved
  <2> SUFFICES ASSUME ConfigInv, CallInv PROVE CommandsAreApproved
    OBVIOUS
  <2>1. ASSUME command # <<>>
        PROVE  /\ Head(command).form = "bare"
               /\ \A i \in 2..Len(command) :
                     command[i].form \notin {"control", "trailed", "operator", "substitution"}
               /\ Request.tool = "run_command" =>
                     \E i \in DOMAIN config.allowed_commands :
                        config.allowed_commands[i].executable = Head(command)
    BY <2>1 DEF CallInv, ApprovedCommand, RunnableArgument
  <2>2. ASSUME Request.tool = "run_tests", answer.kind = "tool_error"
        PROVE  answer.error = "CommandSecurityError" <=>
                  \A i \in Selected :
                     \E j \in DOMAIN config.test_commands[i].command :
                        config.test_commands[i].command[j].form = "substitution"
    <3>1. pc = "answered" /\ CommandsConfigured
      BY <2>2 DEF CallInv, ConfigInv
    <3>2. answer.error = "CommandSecurityError" <=> TestsRefused
      BY <2>2, <3>1 DEF CallInv, WellAnswered, ApprovedCommand, Commands
    <3>3. \A i \in Selected : i \in DOMAIN config.test_commands
      BY DEF Selected
    <3>4. TestsRefused <=>
             \A i \in Selected :
                \E j \in DOMAIN config.test_commands[i].command :
                   config.test_commands[i].command[j].form = "substitution"
      BY <3>1, <3>3, RefusedTest DEF TestsRefused
    <3> QED
      BY <3>2, <3>4
  <2> QED
    BY <2>1, <2>2 DEF CommandsAreApproved
<1> QED
  BY <1>1, ConfigurationKept, CallKept, PTL

-----------------------------------------------------------------------------
(* Where an accepted path leads.                                           *)

LEMMA StepsType ==
    ASSUME NEW tree, TreeTyped(tree), NEW p \in Places, NEW last \in BOOLEAN,
           NEW f, f[0] = Start0(p, last), Steps(f, tree)
    PROVE  \A n \in 0..MaxNames : f[n] \in Walks /\ f[n].last = last
<1> DEFINE Typed(n) == f[n] \in Walks /\ f[n].last = last
           S == {n \in 0..MaxNames : Typed(n)}
<1>1. Typed(0)
  <2> DEFINE s == Start0(p, last)
  <2>1. s \in Walks
    BY EmptySeq DEF Start0, Walks, Places
  <2>2. s.last = last /\ f[0] = s
    BY DEF Start0
  <2> HIDE DEF s
  <2> QED
    BY <2>1, <2>2
<1>2. ASSUME NEW n \in 0..MaxNames, n # MaxNames, Typed(n) PROVE Typed(n + 1) /\ n + 1 \in 0..MaxNames
  <2> HIDE DEF Typed
  <2>1. n + 1 \in 1..MaxNames /\ (n + 1) - 1 = n /\ n + 1 \in 0..MaxNames
    BY <1>2, MaxNamesType
  <2>2. f[n + 1] = WalkStep(tree, f[n])
    BY <2>1 DEF Steps
  <2> USE DEF Typed
  <2> QED
    BY <1>2, <2>1, <2>2, StepType
<1> HIDE DEF Typed
<1>3. 0 \in S /\ \A n \in 0..MaxNames : n # MaxNames /\ n \in S => n + 1 \in S
  BY <1>1, <1>2, MaxNamesType
<1> HIDE DEF S
<1>4. \A n \in 0..MaxNames : n \in S
  BY <1>3, MaxNamesType, StepByStep
<1> QED
  BY <1>4 DEF S, Typed

(* The kernel has no name left to walk, or an error. *)
Arrived(w) == w.rest = <<>> \/ w.error # ""

LEMMA WalkedBySteps ==
    ASSUME NEW tree, NEW names, NEW last
    PROVE  \E f : /\ f[0] = Start0(names, last)
                  /\ Steps(f, tree)
                  /\ Walked(tree, names, last) = EndOf(f[MaxNames])
<1>1. PICK f : /\ f[0] = Start0(names, last)
               /\ \A n \in 1..MaxNames : f[n] = WalkStep(tree, f[n - 1])
               /\ Walked(tree, names, last) = EndOf(f[MaxNames])
  BY WalkedIs
<1>2. Steps(f, tree)
  BY <1>1 DEF Steps
<1> QED
  BY <1>1, <1>2

(* What lstat() says of the next name of a place without links on the way. *)
LEMMA LookSees ==
    ASSUME NEW tree, TreeTyped(tree), NEW at, Solid(tree, at), NEW x \in STRING, x # ".."
    PROVE  LET p == Append(at, x)
               found == Lstat(tree, p)
           IN IF Node(tree, at).kind = "directory" /\ Len(at) < MaxNames
              THEN IF Node(tree, p) = Nothing THEN found.kind = "ENOENT" ELSE found = Node(tree, p)
              ELSE found.kind \in {"EACCES", "ENOTDIR", "ELOOP"}
<1> DEFINE p == Append(at, x)
           m == Len(at)
           node == Node(tree, p)
           here == Node(tree, at)
           found == Lstat(tree, p)
<1>1. at \in Places /\ m \in Nat /\ m <= MaxNames /\ MaxNames \in Nat
  BY PlaceType, MaxNamesType DEF Solid
<1>2. /\ p \in Places /\ Len(p) = m + 1 /\ p[m + 1] = x /\ \A k \in 1..m : p[k] = at[k]
      /\ \A n \in 0..m : Way(p, n) = Way(at, n)
      /\ Way(p, m + 1) = p /\ Way(at, m) = at
  BY <1>1, GrowFacts, WayFacts
<1> DEFINE last == FALSE
<1>3. last \in BOOLEAN /\ ~ last /\ found = Found(tree, Walked(tree, p, last))
  BY DEF Lstat
<1> HIDE DEF p, last, node, here, found
<1>4. PICK f : /\ f[0] = Start0(p, last)
               /\ Steps(f, tree)
               /\ Walked(tree, p, last) = EndOf(f[MaxNames])
  BY WalkedBySteps, Zenon
<1>5. Passes(f, p, m)
  <2>1. m \in 0..Len(p) /\ (\A k \in 1..m : k \in 0..m) /\ (\A k \in 0..(m - 1) : k \in 0..m)
    BY <1>1, <1>2
  <2>2. \A k \in 1..m : p[k] # ".." /\ Node(tree, Way(p, k)).kind \in Things
    BY <1>2, <2>1 DEF Solid
  <2>3. \A k \in 0..(m - 1) : Node(tree, Way(p, k)).kind = "directory"
    BY <1>2, <2>1 DEF Solid
  <2> QED
    BY <1>1, <1>2, <1>3, <1>4, <2>1, <2>2, <2>3, KernelPasses
<1>6. /\ Left(p, m) # <<>> /\ Head(Left(p, m)) = x /\ Tail(Left(p, m)) = <<>>
  <2>1. m \in 0..(Len(p) - 1)
    BY <1>1, <1>2
  <2>2. Left(p, m + 1) = <<>>
    BY <1>2, LeftFacts
  <2> QED
    BY <1>2, <2>1, <2>2, LeftFacts
<1> DEFINE w == f[m]
<1>7. /\ w \in Walks /\ w.at = at /\ w.rest # <<>> /\ Head(w.rest) = x /\ Tail(w.rest) = <<>>
      /\ w.error = "" /\ ~ w.last
  <2>1. m \in 0..MaxNames /\ m \in 0..m
    BY <1>1
  <2>2. f[m].last = last
    BY <1>2, <1>3, <1>4, <2>1, StepsType
  <2>3. f[m].at = at /\ f[m] \in Walks /\ f[m].rest = Left(p, m) /\ f[m].error = ""
    BY <1>2, <1>5, <2>1 DEF Passes
  <2> QED
    BY <1>3, <1>6, <2>2, <2>3
<1>8. CASE m = MaxNames
  <2>1. Walked(tree, p, last) = [w EXCEPT !.error = "ELOOP"]
    BY <1>4, <1>7, <1>8 DEF EndOf
  <2>2. Walked(tree, p, last).error = "ELOOP"
    BY <1>7, <2>1 DEF Walks
  <2>3. found.kind = "ELOOP"
    BY <1>3, <2>2 DEF Found
  <2> QED
    BY <1>1, <1>8, <2>3 DEF p, node, here, found
<1>9. CASE m # MaxNames
  <2>1. m < MaxNames /\ m + 1 \in 1..MaxNames /\ (m + 1) - 1 = m /\ m + 1 \in 0..MaxNames
    BY <1>1, <1>9
  <2> DEFINE v == f[m + 1]
             end == Walked(tree, p, last)
  <2>2. v = WalkStep(tree, w)
    BY <1>4, <2>1 DEF Steps
  <2>3. v = IF here.kind = "locked" THEN [w EXCEPT !.error = "EACCES"]
            ELSE IF here.kind # "directory" THEN [w EXCEPT !.error = "ENOTDIR"]
            ELSE IF node = Nothing THEN [w EXCEPT !.error = "ENOENT"]
            ELSE [w EXCEPT !.at = p, !.rest = <<>>]
    BY <1>7, <2>2 DEF WalkStep, p, node, here
  <2>4. end = EndOf(f[MaxNames])
    BY <1>4
  <2> HIDE DEF w, v, end
  <2>5. Arrived(v) => end = EndOf(v)
    BY <1>4, <2>1, <2>4, KernelRests DEF Arrived, Ended, v
  <2>6. ASSUME NEW e, e \in {"EACCES", "ENOTDIR", "ENOENT"}, v = [w EXCEPT !.error = e]
        PROVE  found.kind = e
    <3>1. v.error = e
      BY <1>7, <2>6 DEF Walks
    <3>2. e # ""
      BY <2>6
    <3>3. end = v
      BY <2>5, <3>1, <3>2 DEF EndOf, Arrived
    <3> QED
      BY <1>3, <3>1, <3>2, <3>3 DEF Found, end
  <2>7. CASE here.kind # "directory"
    <3>1. found.kind = "EACCES" \/ found.kind = "ENOTDIR"
      BY <2>3, <2>6, <2>7
    <3> QED
      BY <2>7, <3>1 DEF p, here, found
  <2>8. CASE here.kind = "directory" /\ node = Nothing
    <3>1. found.kind = "ENOENT"
      BY <2>3, <2>6, <2>8
    <3> QED
      BY <2>1, <2>8, <3>1 DEF p, here, node, found
  <2>9. CASE here.kind = "directory" /\ node # Nothing
    <3>1. v = [w EXCEPT !.at = p, !.rest = <<>>]
      BY <2>3, <2>9
    <3>2. v.at = p /\ v.rest = <<>> /\ v.error = ""
      BY <1>7, <3>1 DEF Walks
    <3>3. end = v
      BY <2>5, <3>2 DEF EndOf, Arrived
    <3>4. found = node
      BY <1>3, <3>2, <3>3 DEF Found, end, node
    <3> QED
      BY <2>1, <2>9, <3>4 DEF p, here, node, found
  <2> QED
    BY <2>7, <2>8, <2>9
<1> QED
  BY <1>8, <1>9

(* lstat() finds a thing that is no link only at the end of a way without links. *)
LEMMA LookAhead ==
    ASSUME NEW tree, TreeTyped(tree), NEW at, Solid(tree, at), NEW x \in STRING, x # "..",
           Lstat(tree, Append(at, x)).kind \in Things
    PROVE  Solid(tree, Append(at, x)) /\ Node(tree, at).kind = "directory"
<1>1. Node(tree, at).kind = "directory" /\ Len(at) < MaxNames /\ Node(tree, Append(at, x)).kind \in Things
  <2> DEFINE p == Append(at, x)
             found == Lstat(tree, p)
             open == Node(tree, at).kind = "directory" /\ Len(at) < MaxNames
  <2>1. IF open
        THEN IF Node(tree, p) = Nothing THEN found.kind = "ENOENT" ELSE found = Node(tree, p)
        ELSE found.kind \in {"EACCES", "ENOTDIR", "ELOOP"}
    BY LookSees
  <2>2. found.kind \in Things /\ Things \cap {"EACCES", "ENOTDIR", "ELOOP", "ENOENT"} = {}
    BY DEF Things
  <2>3. open => Node(tree, at).kind = "directory" /\ Len(at) < MaxNames
    OBVIOUS
  <2> HIDE DEF p, found, open
  <2>4. open /\ Node(tree, p).kind \in Things
    BY <2>1, <2>2
  <2> QED
    BY <2>3, <2>4 DEF p
<1> QED
  BY <1>1, SolidGrow

(***************************************************************************)
(* While nobody changes anything no link is on the way to the place that a *)
(* resolution has come to, nor to the end of a link it has come out of; a  *)
(* path that is resolved is below its root.                                *)
(***************************************************************************)
KnownSolid(tree, known) == \A p \in DOMAIN known : Solid(tree, known[p])

WayInv ==
    walk # NoWalk =>
       /\ walk.began \in Nat /\ walk.began <= edits
       /\ walk.verdict = "resolved" => walk.step = "done" /\ IsPrefix(walk.root, walk.at)
       /\ walk.began = edits => Solid(fs, walk.at) /\ KnownSolid(fs, walk.known)

LEMMA WayBegins ==
    ASSUME walk' = Begun(Root, Request.path), edits \in Nat, edits' = edits
    PROVE  WayInv'
<1> DEFINE w == Begun(Root, Request.path)
           verdict == Rejected(Request.path)
<1>1. verdict \in {"none", "PathSecurityError", "PathTraversalError"}
  BY DEF Rejected
<1>2. w.began = edits /\ w.verdict = verdict /\ w.at = <<>> /\ w.known = <<>>
  BY DEF Begun
<1>3. walk' = w
  OBVIOUS
<1> HIDE DEF w, verdict
<1>4. \A tree : KnownSolid(tree, <<>>)
  BY DEF KnownSolid
<1> QED
  BY <1>1, <1>2, <1>3, <1>4, SolidRoot DEF WayInv

LEMMA WayGoesOn ==
    ASSUME WalkTyped(walk), TreeTyped(fs), WayInv, NEW python, Resolve(python)
    PROVE  WayInv'
<1>1. fs' = fs /\ edits' = edits /\ walk # NoWalk /\ walk.step \in {"scan", "look"}
  BY DEF Resolve, Scan, LeaveLink, GoUp, GoOn, KnownLink, EnterLink, LookFails, Contain,
         Looking, Going, NoWalk
<1>2. walk.began \in Nat /\ walk.began <= edits /\ walk.verdict # "resolved"
  BY <1>1 DEF WayInv
<1> DEFINE Quiet0 == walk.began = edits
<1>3. Quiet0 => Solid(fs, walk.at) /\ KnownSolid(fs, walk.known)
  BY <1>1 DEF WayInv
<1>4. ASSUME walk'.began = walk.began, walk'.verdict = walk.verdict, 
             Quiet0 => Solid(fs, walk'.at) /\ KnownSolid(fs, walk'.known)
      PROVE  WayInv'
  BY <1>1, <1>2, <1>4 DEF WayInv
<1>5. ASSUME NEW at, Quiet0 => Solid(fs, at), walk' = [walk EXCEPT !.at = at, !.rest = Tail(walk.rest)]
      PROVE  WayInv'
  <2>1. /\ walk'.began = walk.began /\ walk'.verdict = walk.verdict /\ walk'.at = at
        /\ walk'.known = walk.known
    BY <1>5 DEF WalkTyped, WalkFields
  <2> QED
    BY <1>3, <1>4, <1>5, <2>1
<1>6. CASE Scan
  <2>1. \/ walk' = [walk EXCEPT !.step = "look"]
        \/ walk' = [walk EXCEPT !.step = "look", !.symlink = TRUE]
        \/ walk' = [walk EXCEPT !.scanned = walk.scanned + 1]
    BY <1>6 DEF Scan
  <2>2. /\ walk'.began = walk.began /\ walk'.verdict = walk.verdict /\ walk'.at = walk.at
        /\ walk'.known = walk.known
    BY <2>1 DEF WalkTyped, WalkFields
  <2> QED
    BY <1>3, <1>4, <2>2
<1>7. CASE LeaveLink
  <2> DEFINE known == Put(walk.known, Last(walk.inside).link, walk.at)
             inside == Front(walk.inside)
  <2>1. walk' = [walk EXCEPT !.inside = inside, !.known = known]
    BY <1>7 DEF LeaveLink
  <2>2. Quiet0 => KnownSolid(fs, known)
    BY <1>3 DEF Put, KnownSolid
  <2> HIDE DEF known, inside
  <2>3. /\ walk'.began = walk.began /\ walk'.verdict = walk.verdict /\ walk'.at = walk.at
        /\ walk'.known = known
    BY <2>1 DEF WalkTyped, WalkFields
  <2> QED
    BY <1>3, <1>4, <2>2, <2>3
<1>8. CASE GoUp
  <2>1. walk' = [walk EXCEPT !.at = Up(walk.at), !.rest = Tail(walk.rest)]
    BY <1>8 DEF GoUp
  <2> QED
    BY <1>3, <1>5, <2>1, SolidUp
<1>9. CASE GoOn
  <2>1. walk' = [walk EXCEPT !.at = There, !.rest = Tail(walk.rest)]
    BY <1>9 DEF GoOn
  <2>2. walk.rest # <<>> /\ Head(walk.rest) # ".." /\ Head(walk.rest) \in STRING
    BY <1>9, NextName DEF GoOn, Looking, Going
  <2>3. Lstat(fs, Append(walk.at, Head(walk.rest))).kind \in Things
    BY <1>9 DEF GoOn, Look, There, Things
  <2>4. Quiet0 => Solid(fs, There)
    BY <1>3, <2>2, <2>3, LookAhead DEF There
  <2> QED
    BY <1>5, <2>1, <2>4
<1>10. CASE KnownLink
  <2>1. /\ walk' = [walk EXCEPT !.at = walk.known[There], !.rest = Tail(walk.rest)]
        /\ There \in DOMAIN walk.known
    BY <1>10 DEF KnownLink
  <2>2. Quiet0 => Solid(fs, walk.known[There])
    BY <1>3, <2>1 DEF KnownSolid
  <2> QED
    BY <1>5, <2>1, <2>2
<1>11. CASE EnterLink
  <2> DEFINE rest == Look.to.names \o Tail(walk.rest)
             at == IF Look.to.absolute THEN <<>> ELSE walk.at
             inside == Append(walk.inside, [link |-> There, left |-> Len(walk.rest) - 1])
  <2>1. walk' = [walk EXCEPT !.at = at, !.rest = rest, !.inside = inside]
    BY <1>11 DEF EnterLink
  <2>2. Quiet0 => Solid(fs, at)
    BY <1>3, SolidRoot
  <2> HIDE DEF rest, at, inside
  <2>3. /\ walk'.began = walk.began /\ walk'.verdict = walk.verdict /\ walk'.at = at
        /\ walk'.known = walk.known
    BY <2>1 DEF WalkTyped, WalkFields
  <2> QED
    BY <1>3, <1>4, <2>2, <2>3
<1>12. ASSUME NEW verdict, End(verdict), verdict = "resolved" => IsPrefix(walk.root, walk.at)
       PROVE  WayInv'
  <2>1. /\ walk'.began = walk.began /\ walk'.verdict = verdict /\ walk'.at = walk.at
        /\ walk'.known = walk.known /\ walk'.step = "done" /\ walk'.root = walk.root
    BY <1>12 DEF End, WalkTyped, WalkFields
  <2> QED
    BY <1>1, <1>2, <1>3, <1>12, <2>1 DEF WayInv
<1>13. CASE LookFails(python)
  <2>1. \E verdict \in {"WorkspacePathNotFoundError", "PathSecurityError", "OSError"} : End(verdict)
    BY <1>13 DEF LookFails
  <2> QED
    BY <1>12, <2>1
<1>14. CASE Contain
  BY <1>12, <1>14 DEF Contain
<1> QED
  BY <1>6, <1>7, <1>8, <1>9, <1>10, <1>11, <1>13, <1>14 DEF Resolve

LEMMA WayStays ==
    ASSUME ConfigInv, CallInv, TreeTyped(fs), WalkOK, WayInv, [Next]_vars
    PROVE  WayInv'
<1>0. edits \in Nat
  BY NodesAssumption DEF CallInv
<1>1. CASE walk' = walk /\ fs' = fs /\ edits' = edits
  BY <1>1 DEF WayInv
<1>2. CASE pc = "idle" /\ BeginPath /\ edits' = edits /\ fs' = fs
  BY <1>0, <1>1, <1>2, BeginIs, WayBegins
<1>3. CASE ResolvePath
  <2>1. Resolve(input.python)
    BY <1>3 DEF ResolvePath
  <2>2. walk # NoWalk
    BY <2>1 DEF Resolve, Scan, LeaveLink, GoUp, GoOn, KnownLink, EnterLink, LookFails, Contain,
                Looking, Going, NoWalk
  <2> QED
    BY <2>1, <2>2, WayGoesOn DEF WalkOK
<1>4. CASE Others
  <2>1. walk' = walk /\ edits' = edits + 1
    BY <1>4 DEF Others, Edit
  <2>2. walk # NoWalk => walk.began # edits + 1 /\ walk.began <= edits + 1
    BY <1>0 DEF WayInv
  <2> QED
    BY <2>1, <2>2 DEF WayInv
<1>5. \/ walk' = walk /\ fs' = fs /\ edits' = edits
      \/ pc = "idle" /\ BeginPath /\ edits' = edits /\ fs' = fs
      \/ ResolvePath \/ Others
  BY DEF Next, Start, CallRunCommand, CallRunTests, CallReadOrCollect,
     Resolved, CheckKind, Run, ReportFails, StatSize, Read, Finished, vars, callVars, pathVars
<1> QED
  BY <1>1, <1>2, <1>3, <1>4, <1>5

LEMMA WayKept == Spec => []WayInv
<1>1. Init => WayInv
  BY DEF Init, WayInv
<1>2. ConfigInv /\ CallInv /\ TreeTyped(fs) /\ WalkOK /\ WayInv /\ [Next]_vars => WayInv'
  BY WayStays
<1> QED
  BY <1>1, <1>2, ConfigurationKept, TreeKept, WalkKept, CallKept, PTL DEF Spec

(***************************************************************************)
(* A path that resolve_workspace_path returns is below the root and, while *)
(* nobody changes anything, is where the kernel itself ends when it is     *)
(* given that path: no link leads anywhere else.                           *)
(***************************************************************************)
AcceptedPathIsItself ==
    walk.step = "done" /\ walk.verdict = "resolved" =>
       /\ IsPrefix(walk.root, walk.at)
       /\ Quiet => \A last \in BOOLEAN : LET own == Walked(fs, walk.at, last)
                                         IN own.error = "" /\ own.at = walk.at

THEOREM PathStaysInside == Spec => []AcceptedPathIsItself
<1>1. TreeTyped(fs) /\ WalkOK /\ WayInv => AcceptedPathIsItself
  <2> SUFFICES ASSUME TreeTyped(fs), WayInv, walk.step = "done", walk.verdict = "resolved"
               PROVE  /\ IsPrefix(walk.root, walk.at)
                      /\ Quiet => \A last \in BOOLEAN : LET own == Walked(fs, walk.at, last)
                                                        IN own.error = "" /\ own.at = walk.at
    BY DEF AcceptedPathIsItself
  <2>1. walk # NoWalk
    BY DEF NoWalk
  <2>2. IsPrefix(walk.root, walk.at) /\ (Quiet => Solid(fs, walk.at))
    BY <2>1 DEF WayInv, Quiet
  <2>3. ASSUME Quiet, NEW last \in BOOLEAN
        PROVE  Walked(fs, walk.at, last).error = "" /\ Walked(fs, walk.at, last).at = walk.at
    <3> DEFINE at == walk.at
               tree == fs
    <3>1. Solid(tree, at) /\ TreeTyped(tree) /\ last \in BOOLEAN
      BY <2>2, <2>3
    <3> HIDE DEF at, tree
    <3>2. Walked(tree, at, last).at = at /\ Walked(tree, at, last).error = ""
      BY <3>1, SolidIsItself, Zenon
    <3> QED
      BY <3>2 DEF at, tree
  <2> QED
    BY <2>2, <2>3
<1> QED
  BY <1>1, TreeKept, WalkKept, WayKept, PTL
-----------------------------------------------------------------------------
(* What is not flagged.                                                    *)

LEMMA LimitType ==
    ASSUME ConfigInv, config.status = "serving"
    PROVE  Limit \in Nat
<1> DEFINE f == "max_output_bytes"
           python == input.python
           tree == input.fs
           v == Source(f)
<1>1. f \in Fields \ {"artifact_directory"}
  BY FieldNames
<1>2. config = Served /\ WhyServed /\ IsScenario(input)
  BY ServingIs, ScenariosAssumption DEF ConfigInv
<1>3. f \in DOMAIN AllValues /\ AllValues[f] = v /\ Limit = Kept(python, tree, f, AllValues[f])
  BY <1>1, <1>2, AllIsSource, ServedIs DEF KeptValues, Limit
<1>4. Valid(python, tree, f, v) /\ Limit = Kept(python, tree, f, v)
  BY <1>2, <1>3 DEF WhyServed
<1> HIDE DEF v, tree, python
<1>5. Valid(python, tree, f, v) => \/ Is(v, "number") /\ v.number \in 1..Ceilings[f]
                                   \/ Is(v, "numeral") /\ v.numeral \in 1..Ceilings[f]
  BY SMT DEF Valid, Ceilings
<1>6. Kept(python, tree, f, v) = IF Is(v, "number") THEN v.number ELSE v.numeral
  BY SMT DEF Kept, Ceilings
<1>7. Is(v, "number") => ~ Is(v, "numeral")
  BY <1>2, SourceNumber, SMT DEF Ceilings, v
<1>8. \A top : \A n \in 1..top : n \in Nat
  OBVIOUS
<1> QED
  BY <1>4, <1>5, <1>6, <1>7, <1>8

LEMMA CutIsAll ==
    ASSUME NEW stream \in Seq(STRING), NEW n \in Nat, Len(stream) <= n
    PROVE  Cut(stream, n) = stream
<1>1. Len(stream) \in Nat
  BY LenProperties
<1>2. (IF n < Len(stream) THEN n ELSE Len(stream)) = Len(stream)
  BY <1>1
<1> QED
  BY <1>2, SubSeqFull DEF Cut

(* What the capture does not flag is all there was. *)
LEMMA WholeIsAll ==
    ASSUME NEW stream \in Seq(STRING), Limit \in Nat, ~ Whole(stream).truncated
    PROVE  Cut(stream, Whole(stream).bytes) = stream
<1>0. Whole(stream).truncated <=> Len(stream) > Limit
  BY Zenon DEF Whole
<1>1. Len(stream) \in Nat /\ Len(stream) <= Limit
  <2>1. Len(stream) \in Nat
    BY LenProperties
  <2>2. ~ (Len(stream) > Limit)
    BY <1>0
  <2> QED
    BY <2>1, <2>2
<1>2. Whole(stream).bytes = Len(stream)
  BY <1>1 DEF Whole
<1> QED
  BY <1>1, <1>2, CutIsAll

(* A result whose texts lack nothing they are not flagged for. *)
Complete(result) ==
    result.kind = "result" /\ ~ result.timed_out =>
       \A i \in DOMAIN result.cut : ~ result.cut[i] => result.shown[i] = Sanitise(Patterns, All(i))

LEMMA RaisedComplete ==
    ASSUME NEW e, Raise(e)
    PROVE  Complete(answer')
  BY DEF Raise, Complete

LEMMA TruncatedOrAll ==
    ASSUME NEW text, NEW max, ~ Truncated(text, max)
    PROVE  Truncate(text, max) = text
  BY DEF Truncate, Truncated

LEMMA RunIsComplete ==
    ASSUME Run, Request.tool = "run_command", Limit \in Nat, IsScenario(input)
    PROVE  Complete(answer')
<1>1. CASE Raise("ProcessExecutionError")
  BY <1>1, RaisedComplete
<1>2. CASE ~ Raise("ProcessExecutionError")
  <2>1. PICK captured \in Captures :
           LET output == Output(captured)
               made == <<output.stdout, output.stderr>>
               cut == <<output.stdout_truncated, output.stderr_truncated>>
           IN Answer(Result(Sanitised(made), made, cut, captured.timed_out))
    BY <1>2, Zenon DEF Run
  <2> DEFINE out == Redact(Patterns, Decode(Cut(input.stdout, captured.stdout.bytes)))
             err == Redact(Patterns, Decode(Cut(input.stderr, captured.stderr.bytes)))
             left == Limit - Utf8Size(Truncate(out, Limit))
             shown == <<Sanitise(Patterns, Truncate(out, Limit)), Sanitise(Patterns, Truncate(err, left))>>
             cut == <<Truncated(out, Limit) \/ captured.stdout.truncated,
                      Truncated(err, left) \/ captured.stderr.truncated>>
  <2>2. /\ Output(captured).stdout = Truncate(out, Limit)
        /\ Output(captured).stderr = Truncate(err, left)
        /\ Output(captured).stdout_truncated = (Truncated(out, Limit) \/ captured.stdout.truncated)
        /\ Output(captured).stderr_truncated = (Truncated(err, left) \/ captured.stderr.truncated)
    BY DEF Output, OutputPair
  <2>3. Sanitised(<<Truncate(out, Limit), Truncate(err, left)>>) = shown
    BY DEF Sanitised
  <2>4. answer'.shown = shown /\ answer'.cut = cut /\ answer'.timed_out = captured.timed_out
    BY <2>1, <2>2, <2>3 DEF Answer, Result
  <2>5. input.stdout \in Seq(STRING) /\ input.stderr \in Seq(STRING)
    BY DEF IsScenario
  <2>6. ~ captured.timed_out => captured.stdout = Whole(input.stdout) /\ captured.stderr = Whole(input.stderr)
    BY <2>1 DEF Captures
  <2>7. All(1) = Redact(Patterns, Decode(input.stdout)) /\ All(2) = Redact(Patterns, Decode(input.stderr))
    BY DEF All, Sources
  <2>8. ASSUME ~ captured.timed_out, ~ cut[1] PROVE shown[1] = Sanitise(Patterns, All(1))
    <3>1. out = Redact(Patterns, Decode(input.stdout))
      BY <2>5, <2>6, <2>8, WholeIsAll
    <3>2. Truncate(out, Limit) = out
      BY <2>8, TruncatedOrAll
    <3> QED
      BY <2>7, <3>1, <3>2
  <2>9. ASSUME ~ captured.timed_out, ~ cut[2] PROVE shown[2] = Sanitise(Patterns, All(2))
    <3>1. err = Redact(Patterns, Decode(input.stderr))
      BY <2>5, <2>6, <2>9, WholeIsAll
    <3>2. Truncate(err, left) = err
      BY <2>9, TruncatedOrAll
    <3> QED
      BY <2>7, <3>1, <3>2
  <2>10. DOMAIN cut = {1, 2}
    OBVIOUS
  <2> HIDE DEF shown, cut
  <2> QED
    BY <2>4, <2>8, <2>9, <2>10 DEF Complete
<1> QED
  BY <1>1, <1>2

LEMMA ReadIsComplete ==
    ASSUME Read, Request.tool = "collect_artifact", Limit \in Nat, TreeTyped(fs), WalkTyped(walk),
           Here.kind = "file" => size = Len(Here.bytes)
    PROVE  Complete(answer')
<1>1. CASE \E e : Raise(e)
  BY <1>1, RaisedComplete
<1>2. CASE ~ \E e : Raise(e)
  <2> DEFINE bytes == Here.bytes
             text == Redact(Patterns, Decode(Cut(bytes, Limit)))
             made == <<Truncate(text, Limit)>>
             cut == <<size > Limit \/ Truncated(text, Limit)>>
  <2>1. Here.kind = "file" /\ Answer(Result(Sanitised(made), made, cut, FALSE))
    BY <1>2 DEF Read, ArtifactRead
  <2>2. bytes \in Seq(STRING) /\ size = Len(bytes)
    BY <2>1, HereIsFile
  <2>3. Len(bytes) \in Nat
    BY <2>2, LenProperties
  <2>4. All(1) = Redact(Patterns, Decode(bytes))
    BY DEF All, Sources
  <2>5. answer'.shown[1] = Sanitise(Patterns, Truncate(text, Limit))
        /\ DOMAIN answer'.cut = {1} /\ answer'.cut[1] = (size > Limit \/ Truncated(text, Limit))
    BY <2>1 DEF Answer, Result, Sanitised
  <2>6. ASSUME ~ answer'.cut[1] PROVE answer'.shown[1] = Sanitise(Patterns, All(1))
    <3>1. Len(bytes) <= Limit /\ ~ Truncated(text, Limit)
      <4>1. ~ (size > Limit) /\ ~ Truncated(text, Limit)
        BY <2>5, <2>6, Zenon
      <4> QED
        BY <2>2, <2>3, <4>1
    <3>2. Cut(bytes, Limit) = bytes
      BY <2>2, <3>1, CutIsAll
    <3>3. Truncate(text, Limit) = text
      BY <3>1, TruncatedOrAll
    <3> QED
      BY <2>4, <2>5, <3>2, <3>3
  <2> QED
    BY <2>5, <2>6 DEF Complete
<1> QED
  BY <1>1, <1>2

(* What is read has the size that was looked up, unless somebody interferes. *)
SizeInv == pc = "read" /\ Quiet /\ Here.kind = "file" => size = Len(Here.bytes)

(* Only a call that runs no command reads. *)
ReadInv == pc \in {"stat", "read"} => Request.tool \notin Commands

OutputInv == ReadInv /\ SizeInv /\ UnflaggedOutputIsComplete

LEMMA OutputStays ==
    ASSUME ConfigInv, CallInv, TreeTyped(fs), WalkOK, WayInv, OutputInv, [Next]_vars
    PROVE  OutputInv'
<1>1. CASE UNCHANGED vars
  <2>1. /\ input' = input /\ config' = config /\ pc' = pc /\ walk' = walk /\ fs' = fs
        /\ answer' = answer /\ edits' = edits /\ size' = size
    BY <1>1 DEF vars, callVars, pathVars
  <2>2. Here' = Here /\ Request' = Request /\ (Quiet' <=> Quiet)
    BY <2>1 DEF Here, Request, Quiet
  <2>3. \A i : All(i)' = All(i)
    BY <2>1, <2>2 DEF All, Sources, Patterns
  <2>4. UnflaggedOutputIsComplete'
    BY <2>1, <2>2, <2>3 DEF OutputInv, UnflaggedOutputIsComplete, Answered, Patterns
  <2> QED
    BY <2>1, <2>2, <2>4 DEF OutputInv, ReadInv, SizeInv
<1>2. CASE pc' \notin {"answered", "stat", "read"} /\ CallInv'
  BY <1>2 DEF OutputInv, ReadInv, SizeInv, UnflaggedOutputIsComplete, Answered, CallInv
<1>3. CASE Others
  <2>1. edits \in Nat /\ walk' = walk /\ edits' = edits + 1 /\ pc' = pc /\ answer' = answer /\ pc # "answered"
    BY <1>3, NodesAssumption DEF CallInv, Others, Edit, callVars
  <2>2. ~ Quiet'
    BY <2>1 DEF Quiet, WayInv
  <2>3. Request' = Request
    BY <1>3 DEF Others, callVars, Request
  <2> QED
    BY <2>1, <2>2, <2>3 DEF OutputInv, ReadInv, SizeInv, UnflaggedOutputIsComplete
<1>4. CASE StatSize
  <2>1. UNCHANGED <<input, config, command, pathVars>> /\ pc = "stat" /\ answer.kind = "none"
    BY <1>4 DEF StatSize, CallInv
  <2>2. Here' = Here /\ Request' = Request
    BY <2>1 DEF pathVars, Here, Request
  <2>3. SizeInv'
    <3>1. pc' = "read" => \E bytes \in Sizes(Here) : size' = bytes
      BY <1>4 DEF StatSize, Raise
    <3>2. Here.kind = "file" => Sizes(Here) = {Len(Here.bytes)}
      BY DEF Sizes
    <3> QED
      BY <2>2, <3>1, <3>2 DEF SizeInv
  <2>4. answer'.kind # "result"
    BY <1>4, <2>1 DEF StatSize, Raise
  <2> QED
    BY <2>1, <2>2, <2>3, <2>4 DEF OutputInv, ReadInv, UnflaggedOutputIsComplete, Answered
<1>5. ASSUME pc' = "answered", answer'.kind # "result"
      PROVE  OutputInv'
  BY <1>5 DEF OutputInv, ReadInv, SizeInv, UnflaggedOutputIsComplete, Answered
<1>6. ASSUME Run \/ Read, pc' = "answered",
             Request.tool \in {"run_command", "collect_artifact"} /\ Quiet => Complete(answer')
      PROVE  OutputInv'
  <2>1. UNCHANGED <<input, config, command, size, pathVars>>
    BY <1>6 DEF Run, Read
  <2>2. Here' = Here /\ Request' = Request /\ (Quiet' <=> Quiet)
    BY <2>1 DEF pathVars, Here, Request, Quiet
  <2>3. \A i : All(i)' = All(i)
    BY <2>1, <2>2 DEF All, Sources, Patterns
  <2>4. UnflaggedOutputIsComplete'
    BY <1>6, <2>1, <2>2, <2>3 DEF UnflaggedOutputIsComplete, Answered, Complete, Patterns
  <2> QED
    BY <1>6, <2>4 DEF OutputInv, ReadInv, SizeInv
<1>7. CASE Run \/ Read
  <2>1. Limit \in Nat /\ IsScenario(input)
    BY <1>7, LimitType, ScenariosAssumption DEF ConfigInv, Run, Read
  <2>2. pc' = "answered"
    BY <1>7 DEF Run, Read, FileRead, ArtifactRead, Raise, Answer
  <2>3. CASE Run
    <3>1. Request.tool \in Commands
      BY <2>3 DEF CallInv, Run
    <3> QED
      BY <1>6, <2>1, <2>2, <2>3, <3>1, RunIsComplete DEF Commands
  <2>4. CASE Read
    <3>1. pc = "read"
      BY <2>4 DEF Read
    <3>2. WalkTyped(walk)
      BY <3>1 DEF CallInv, WalkOK
    <3>3. Request.tool # "run_command"
      BY <3>1 DEF OutputInv, ReadInv, Commands
    <3> QED
      BY <1>6, <2>1, <2>2, <2>4, <3>1, <3>2, <3>3, ReadIsComplete DEF OutputInv, SizeInv
  <2> QED
    BY <1>7, <2>3, <2>4
<1>8. CASE CheckKind
  <2>1. UNCHANGED <<input, config, command, size, pathVars>> /\ answer.kind = "none"
    BY <1>8 DEF CheckKind, CallInv
  <2>2. CASE \E e : Raise(e)
    BY <1>5, <2>2 DEF Raise
  <2>3. CASE ~ \E e : Raise(e)
    <3>1. pc' \in {"run", "stat"} /\ answer' = answer
          /\ (pc' = "stat" => Request.tool \notin Commands)
      BY <1>8, <2>3 DEF CheckKind, Commands
    <3> QED
      BY <2>1, <3>1 DEF OutputInv, ReadInv, SizeInv, UnflaggedOutputIsComplete, Answered, Request
  <2> QED
    BY <2>2, <2>3
<1>9. CASE /\ CallRunCommand \/ CallRunTests \/ CallReadOrCollect \/ Resolved \/ ReportFails
           /\ \E e : Raise(e)
  BY <1>5, <1>9 DEF Raise
<1>10. CASE \/ Start \/ ResolvePath
            \/ /\ CallRunCommand \/ CallRunTests \/ CallReadOrCollect \/ Resolved \/ ReportFails
               /\ ~ \E e : Raise(e)
  <2> SUFFICES pc' \in {"idle", "not_started", "resolve", "is"}
    BY <1>2, CallStays
  <2>1. CASE Start \/ ResolvePath \/ Resolved \/ ReportFails
    BY <1>10, <2>1 DEF Start, ResolvePath, Resolved, ReportFails, callVars
  <2>2. CASE CallRunCommand \/ CallRunTests \/ CallReadOrCollect
    <3>1. BeginPath /\ (~ \E e : Raise(e)) => pc' = "resolve"
      BY DEF BeginPath
    <3>2. BeginPath \/ Raise("CommandSecurityError")
      BY <2>2 DEF CallReadOrCollect, CallRunCommand, CallRunTests
    <3>3. ~ \E e : Raise(e)
      BY <1>10, <2>2 DEF CallReadOrCollect, CallRunCommand, CallRunTests, Start, ResolvePath
    <3> QED
      BY <3>1, <3>2, <3>3
  <2> QED
    BY <1>10, <2>1, <2>2
<1>11. Finished => UNCHANGED vars
  BY DEF Finished
<1> QED
  BY <1>1, <1>3, <1>4, <1>7, <1>8, <1>9, <1>10, <1>11 DEF Next

LEMMA OutputKept == Spec => []OutputInv
<1>1. Init => OutputInv
  BY DEF Init, OutputInv, ReadInv, SizeInv, UnflaggedOutputIsComplete, Answered, NoAnswer
<1>2. ConfigInv /\ CallInv /\ TreeTyped(fs) /\ WalkOK /\ WayInv /\ OutputInv /\ [Next]_vars => OutputInv'
  BY OutputStays
<1> QED
  BY <1>1, <1>2, ConfigurationKept, TreeKept, WalkKept, CallKept, WayKept, PTL DEF Spec

(***************************************************************************)
(* A text that is shown and not flagged as truncated is all there was, for *)
(* every output, limit, artifact and pattern.                              *)
(***************************************************************************)
THEOREM OutputComplete == Spec => []UnflaggedOutputIsComplete
<1>1. OutputInv => UnflaggedOutputIsComplete
  BY DEF OutputInv
<1> QED
  BY <1>1, OutputKept, PTL

-----------------------------------------------------------------------------
(* Texts.                                                                  *)

(* Those that are written into a text are named: no prover knows that they are strings. *)
Character == STRING \cup {"w", "u", "n", "m", "l"}

Text == Seq(Character)

(* What holds of n if it holds of all that come after it holds from a to b. *)
LEMMA FromTheEnd ==
    ASSUME NEW a \in Int, NEW b \in Int, NEW S,
           \A n \in a..b : (\A m \in (n + 1)..b : m \in S) => n \in S
    PROVE  \A n \in a..b : n \in S
<1> DEFINE T == {k \in 0..(b - a) : b - k \notin S}
<1>1. SUFFICES ASSUME NEW n \in a..b, n \notin S PROVE FALSE
  OBVIOUS
<1>2. b - n \in 0..(b - a) /\ b - (b - n) = n
  OBVIOUS
<1>3. T \subseteq Nat /\ T # {}
  <2>1. b - n \in T
    BY <1>1, <1>2
  <2>2. b - a \in Int /\ \A k \in 0..(b - a) : k \in Nat
    OBVIOUS
  <2> QED
    BY <2>1, <2>2, Zenon
<1>4. PICK k \in T : \A j \in T : k <= j
  BY <1>3, LeastNatural
<1>5. b - k \in a..b /\ b - k \notin S
  BY <1>4
<1>6. ASSUME NEW m \in (b - k + 1)..b PROVE m \in S
  <2>1. b - m \in 0..(b - a) /\ ~ (k <= b - m) /\ b - (b - m) = m
    BY <1>4, <1>5
  <2> QED
    BY <1>4, <2>1
<1> QED
  BY <1>5, <1>6

LEMMA TextIs ==
    ASSUME NEW s \in Text
    PROVE  Len(s) \in Nat /\ DOMAIN s = 1..Len(s) /\ \A i \in 1..Len(s) : s[i] \in Character
  BY DEF Text

LEMMA TextsEqual ==
    ASSUME NEW s \in Text, NEW t \in Text, Len(s) = Len(t), \A i \in 1..Len(s) : s[i] = t[i]
    PROVE  s = t
  BY SeqEqual DEF Text

LEMMA JoinIs ==
    ASSUME NEW s \in Text, NEW t \in Text
    PROVE  /\ s \o t \in Text /\ Len(s \o t) = Len(s) + Len(t)
           /\ \A i \in 1..Len(s) : (s \o t)[i] = s[i]
           /\ \A i \in 1..Len(t) : (s \o t)[Len(s) + i] = t[i]
           /\ \A i \in 1..Len(s \o t) : \/ i \in 1..Len(s) /\ (s \o t)[i] = s[i]
                                        \/ i - Len(s) \in 1..Len(t) /\ (s \o t)[i] = t[i - Len(s)]
<1>1. Len(s) \in Nat /\ Len(t) \in Nat
  BY TextIs
<1>2. /\ s \o t \in Text /\ Len(s \o t) = Len(s) + Len(t)
      /\ \A i \in 1 .. Len(s) + Len(t) : (s \o t)[i] = IF i <= Len(s) THEN s[i] ELSE t[i - Len(s)]
  BY ConcatProperties DEF Text
<1>3. \A i \in 1..Len(t) : Len(s) + i \in 1..(Len(s) + Len(t)) /\ ~ (Len(s) + i <= Len(s)) /\ (Len(s) + i) - Len(s) = i
  BY <1>1
<1>4. \A i \in 1..(Len(s) + Len(t)) : IF i <= Len(s) THEN i \in 1..Len(s) ELSE i - Len(s) \in 1..Len(t)
  BY <1>1
<1>5. \A i \in 1..Len(s) : i \in 1..(Len(s) + Len(t)) /\ i <= Len(s)
  BY <1>1
<1> QED
  BY <1>2, <1>3, <1>4, <1>5

LEMMA CutIs ==
    ASSUME NEW s \in Text, NEW n \in Nat
    PROVE  /\ Cut(s, n) \in Text
           /\ Len(Cut(s, n)) \in Nat /\ Len(Cut(s, n)) <= Len(s) /\ Len(Cut(s, n)) <= n
           /\ Len(Cut(s, n)) = IF n < Len(s) THEN n ELSE Len(s)
           /\ \A i \in 1..Len(Cut(s, n)) : Cut(s, n)[i] = s[i]
<1> DEFINE k == IF n < Len(s) THEN n ELSE Len(s)
<1>1. k \in 0..Len(s) /\ k <= n /\ Len(s) \in Nat
  BY TextIs
<1> HIDE DEF k
<1>2. SubSeq(s, 1, k) \in Text /\ Len(SubSeq(s, 1, k)) = k /\ \A i \in 1..k : SubSeq(s, 1, k)[i] = s[i]
  BY <1>1, FirstOf DEF Text
<1>3. Cut(s, n) = SubSeq(s, 1, k)
  BY DEF Cut, k
<1> QED
  BY <1>1, <1>2, <1>3 DEF k

(* f is the text from each place on, rewritten. *)
Rewriting(f, head, next) ==
    /\ f[Len(head) + 1] = <<>>
    /\ \A i \in 1..Len(head) : f[i] = head[i] \o f[next[i]]
    /\ \A i \in 1..(Len(head) + 1) : f[i] \in Text

(* What takes the place of each character, and where it goes on. *)
Rewrite(head, next) ==
    /\ head \in Seq(Text)
    /\ next \in [1..Len(head) -> Int]
    /\ \A i \in 1..Len(head) : next[i] \in (i + 1)..(Len(head) + 1)

IsMade(f, head, next) ==
    f = [i \in 1..(Len(head) + 1) |-> IF i > Len(head) THEN <<>> ELSE head[i] \o f[next[i]]]

LEMMA RewritingExists ==
    ASSUME NEW head, NEW next, Rewrite(head, next)
    PROVE  \E f : IsMade(f, head, next)
<1> DEFINE N == Len(head)
           Down(f, m) == f = [i \in m..(N + 1) |-> IF i > N THEN <<>> ELSE head[i] \o f[next[i]]]
           S == {m \in 1..(N + 1) : \E f : Down(f, m)}
<1>1. N \in Nat
  BY LenProperties DEF Rewrite
<1>2. ASSUME NEW m \in 1..(N + 1), \A k \in (m + 1)..(N + 1) : k \in S PROVE m \in S
  <2>1. CASE m = N + 1
    <3> DEFINE f == [i \in (N + 1)..(N + 1) |-> <<>>]
    <3>1. f = [i \in m..(N + 1) |-> IF i > N THEN <<>> ELSE head[i] \o f[next[i]]]
      <4>1. \A i \in (N + 1)..(N + 1) : i > N
        BY <1>1
      <4> QED
        BY <2>1, <4>1, Zenon
    <3>2. Down(f, m)
      BY <3>1
    <3> HIDE DEF f, Down
    <3> QED
      BY <3>2
  <2>2. CASE m # N + 1
    <3>1. m + 1 \in (m + 1)..(N + 1) /\ m \in 1..N
      BY <1>1, <2>2
    <3>2. PICK f : Down(f, m + 1)
      BY <1>2, <3>1
    <3> DEFINE g == [i \in m..(N + 1) |-> IF i = m THEN head[m] \o f[next[m]] ELSE f[i]]
    <3>3. ASSUME NEW i \in m..(N + 1) PROVE g[i] = IF i > N THEN <<>> ELSE head[i] \o g[next[i]]
      <4>1. i \in 1..N => next[i] \in (i + 1)..(N + 1) /\ next[i] # m /\ next[i] \in m..(N + 1)
        BY <1>1 DEF Rewrite
      <4>2. CASE i = m
        <5>1. next[m] \in m..(N + 1) /\ next[m] # m /\ ~ (m > N) /\ m \in m..(N + 1)
          BY <1>1, <3>1, <4>1, <4>2
        <5>2. g[m] = head[m] \o f[next[m]] /\ g[next[m]] = f[next[m]]
          BY <5>1
        <5> HIDE DEF g
        <5> QED
          BY <4>2, <5>1, <5>2
      <4>3. CASE i # m
        <5>1. i \in (m + 1)..(N + 1) /\ (~ (i > N) => i \in 1..N)
          BY <1>1, <4>3
        <5>2. f[i] = IF i > N THEN <<>> ELSE head[i] \o f[next[i]]
          BY <3>2, <5>1
        <5>3. g[i] = f[i]
          BY <4>3
        <5>4. CASE i > N
          BY <5>2, <5>3, <5>4
        <5>5. CASE ~ (i > N)
          <6>1. g[next[i]] = f[next[i]]
            BY <4>1, <5>1, <5>5
          <6> HIDE DEF g
          <6> QED
            BY <5>2, <5>3, <5>5, <6>1
        <5> QED
          BY <5>4, <5>5
      <4> QED
        BY <4>2, <4>3
    <3>4. g = [i \in m..(N + 1) |-> g[i]]
      OBVIOUS
    <3> HIDE DEF g
    <3>5. Down(g, m)
      BY <3>3, <3>4
    <3> QED
      BY <3>5
  <2> QED
    BY <2>1, <2>2
<1> HIDE DEF S
<1>3. \A m \in 1..(N + 1) : m \in S
  <2>1. 1 \in Int /\ N + 1 \in Int
    BY <1>1
  <2>2. \A m \in 1..(N + 1) : (\A k \in (m + 1)..(N + 1) : k \in S) => m \in S
    BY <1>2
  <2> QED
    BY <2>1, <2>2, FromTheEnd, Zenon
<1>4. 1 \in 1..(N + 1)
  BY <1>1
<1> QED
  BY <1>3, <1>4 DEF S, IsMade

LEMMA RewrittenIs ==
    ASSUME NEW head, NEW next, Rewrite(head, next)
    PROVE  \E f : Rewriting(f, head, next) /\ Rewritten(head, next) = f[1]
<1> DEFINE N == Len(head)
           f == CHOOSE g : IsMade(g, head, next)
           S == {i \in 1..(N + 1) : f[i] \in Text}
<1>1. f = [i \in 1..(N + 1) |-> IF i > N THEN <<>> ELSE head[i] \o f[next[i]]]
  <2>1. IsMade(f, head, next)
    BY RewritingExists, Zenon
  <2> HIDE DEF f
  <2> QED
    BY <2>1 DEF IsMade
<1>2. Rewritten(head, next) = f[1]
  BY DEF Rewritten, IsMade
<1> HIDE DEF f
<1>3. N \in Nat /\ \A i \in 1..N : head[i] \in Text
  BY LenProperties, ElementOfSeq DEF Rewrite
<1>4. f[N + 1] = <<>>
  BY <1>1, <1>3
<1>5. ASSUME NEW i \in 1..N PROVE f[i] = head[i] \o f[next[i]]
  <2>1. i \in 1..(N + 1) /\ ~ (i > N)
    BY <1>3
  <2>2. f[i] = IF i > N THEN <<>> ELSE head[i] \o f[next[i]]
    BY <1>1, <2>1, Zenon
  <2> QED
    BY <2>1, <2>2, Zenon
<1>6. ASSUME NEW i \in 1..(N + 1), \A k \in (i + 1)..(N + 1) : k \in S PROVE i \in S
  <2>1. CASE i = N + 1
    <3>1. <<>> \in Text
      BY EmptySeq DEF Text
    <3> QED
      BY <1>4, <2>1, <3>1
  <2>2. CASE i # N + 1
    <3>1. i \in 1..N /\ next[i] \in (i + 1)..(N + 1)
      BY <1>3, <2>2 DEF Rewrite
    <3>2. f[next[i]] \in Text
      BY <1>6, <3>1
    <3>3. head[i] \o f[next[i]] \in Text
      BY <1>3, <3>1, <3>2, JoinIs
    <3> QED
      BY <1>5, <3>1, <3>3
  <2> QED
    BY <2>1, <2>2
<1>7. \A i \in 1..(N + 1) : i \in S
  <2> HIDE DEF S
  <2>1. 1 \in Int /\ N + 1 \in Int
    BY <1>3
  <2>2. \A i \in 1..(N + 1) : (\A k \in (i + 1)..(N + 1) : k \in S) => i \in S
    BY <1>6
  <2> QED
    BY <2>1, <2>2, FromTheEnd, Zenon
<1>8. Rewriting(f, head, next)
  BY <1>4, <1>5, <1>7 DEF Rewriting
<1> QED
  BY <1>2, <1>8

-----------------------------------------------------------------------------
(* Secrets.                                                                *)

(* The value of a secret that begins at i is what is at j..e. *)
IsValue(text, i, j, e) ==
    /\ j \in (i + 1)..Len(text) /\ e \in j..Len(text)
    /\ \A b \in (i + 1)..(j - 1) : text[b] \in Blanks
    /\ \A b \in j..e : text[b] \notin Blanks
    /\ e = Len(text) \/ text[e + 1] \in Blanks

LEMMA ValueEndIs ==
    ASSUME NEW text \in Text, NEW i \in 1..Len(text), NEW j, NEW e, IsValue(text, i, j, e)
    PROVE  ValueEnd(text, i) = e
<1> DEFINE starts == {k \in (i + 1)..Len(text) :
                         text[k] \notin Blanks /\ \A b \in (i + 1)..(k - 1) : text[b] \in Blanks}
           ends(k) == {n \in k..Len(text) : \A b \in k..n : text[b] \notin Blanks}
<1>1. Len(text) \in Nat /\ j \in (i + 1)..Len(text) /\ e \in j..Len(text)
  BY TextIs DEF IsValue
<1>2. starts = {j}
  <2>1. j \in starts
    <3>1. j \in j..e
      BY <1>1
    <3> QED
      BY <1>1, <3>1 DEF IsValue
  <2>2. ASSUME NEW k \in starts PROVE k = j
    <3>1. k \in (i + 1)..Len(text) /\ text[k] \notin Blanks /\ \A b \in (i + 1)..(k - 1) : text[b] \in Blanks
      OBVIOUS
    <3>2. j \in (i + 1)..Len(text) /\ text[j] \notin Blanks /\ \A b \in (i + 1)..(j - 1) : text[b] \in Blanks
      BY <2>1
    <3> HIDE DEF starts
    <3>3. ~ (k \in (i + 1)..(j - 1)) /\ ~ (j \in (i + 1)..(k - 1))
      BY <3>1, <3>2
    <3> QED
      BY <1>1, <3>1, <3>3
  <2> HIDE DEF starts
  <2> QED
    BY <2>1, <2>2
<1>3. e \in ends(j)
  BY <1>1 DEF IsValue
<1>4. ASSUME NEW n \in ends(j) PROVE n <= e
  <2>1. n \in j..Len(text) /\ \A b \in j..n : text[b] \notin Blanks
    OBVIOUS
  <2>2. n > e => e + 1 \in j..n /\ e # Len(text)
    BY <1>1, <2>1
  <2>3. ~ (n > e)
    BY <2>1, <2>2 DEF IsValue
  <2> QED
    BY <1>1, <2>1, <2>3
<1>5. ends(j) \subseteq 1..Len(text)
  BY <1>1
<1>6. UNION {ends(k) : k \in starts} = ends(j)
  <2> HIDE DEF starts, ends
  <2> QED
    BY <1>2
<1>7. ValueEnd(text, i) = Max(ends(j))
  <2>1. ValueEnd(text, i) = IF starts = {} THEN i ELSE Max(UNION {ends(k) : k \in starts})
    BY DEF ValueEnd
  <2> HIDE DEF starts, ends
  <2> QED
    BY <1>2, <1>6, <2>1
<1> HIDE DEF ends
<1>8. Max(ends(j)) \in ends(j) /\ \A n \in ends(j) : n <= Max(ends(j))
  BY <1>1, <1>3, <1>5, MaxIs
<1>9. Max(ends(j)) <= e /\ e <= Max(ends(j)) /\ Max(ends(j)) \in 1..Len(text)
  BY <1>3, <1>4, <1>5, <1>8
<1> QED
  BY <1>1, <1>7, <1>9

LEMMA HasValue ==
    ASSUME NEW text \in Text, NEW i \in 1..Len(text),
           \E k \in (i + 1)..Len(text) : text[k] \notin Blanks
    PROVE  \E j, e : IsValue(text, i, j, e)
<1>1. Len(text) \in Nat
  BY TextIs
<1> DEFINE J == {k \in (i + 1)..Len(text) : text[k] \notin Blanks}
<1>2. J \subseteq Nat /\ J # {}
  OBVIOUS
<1>3. PICK j \in J : \A k \in J : j <= k
  BY <1>2, LeastNatural
<1>4. j \in (i + 1)..Len(text) /\ text[j] \notin Blanks
  OBVIOUS
<1>5. ASSUME NEW b \in (i + 1)..(j - 1) PROVE text[b] \in Blanks
  <2>1. b \in (i + 1)..Len(text) /\ ~ (j <= b)
    BY <1>1, <1>4
  <2> QED
    BY <1>3, <2>1
<1> DEFINE E == {n \in j..Len(text) : n = Len(text) \/ text[n + 1] \in Blanks}
<1> HIDE DEF J
<1>6. E \subseteq Nat /\ E # {}
  <2>1. Len(text) \in E
    BY <1>1, <1>4
  <2>2. \A n \in j..Len(text) : n \in Nat
    BY <1>4
  <2> QED
    BY <2>1, <2>2, Zenon
<1>7. PICK e \in E : \A n \in E : e <= n
  BY <1>6, LeastNatural
<1>8. e \in j..Len(text) /\ (e = Len(text) \/ text[e + 1] \in Blanks)
  OBVIOUS
<1>9. ASSUME NEW b \in j..e PROVE text[b] \notin Blanks
  <2>1. CASE b = j
    BY <1>4, <2>1
  <2>2. CASE b # j
    <3>1. b - 1 \in j..Len(text) /\ ~ (e <= b - 1) /\ (b - 1) + 1 = b
      BY <1>1, <1>4, <1>8, <2>2
    <3>2. b - 1 \notin E
      BY <1>7, <3>1
    <3> QED
      BY <3>1, <3>2
  <2> QED
    BY <2>1, <2>2
<1> QED
  BY <1>4, <1>5, <1>8, <1>9 DEF IsValue

LEMMA HasNoValue ==
    ASSUME NEW text \in Text, NEW i \in 1..Len(text),
           \A k \in (i + 1)..Len(text) : text[k] \in Blanks
    PROVE  ValueEnd(text, i) = i
  BY DEF ValueEnd

LEMMA SecretIs ==
    ASSUME NEW text \in Text, NEW i \in 1..Len(text)
    PROVE  /\ ValueEnd(text, i) \in i..Len(text)
           /\ ValueEnd(text, i) > i <=> \E k \in (i + 1)..Len(text) : text[k] \notin Blanks
<1>1. Len(text) \in Nat
  BY TextIs
<1>2. CASE \E k \in (i + 1)..Len(text) : text[k] \notin Blanks
  <2>1. PICK j, e : IsValue(text, i, j, e)
    BY <1>2, HasValue
  <2>2. ValueEnd(text, i) = e /\ j \in (i + 1)..Len(text) /\ e \in j..Len(text)
    BY <2>1, ValueEndIs DEF IsValue
  <2>3. e \in i..Len(text) /\ e > i
    BY <1>1, <2>2
  <2> QED
    BY <1>2, <2>2, <2>3
<1>3. CASE ~ \E k \in (i + 1)..Len(text) : text[k] \notin Blanks
  <2>1. ValueEnd(text, i) = i
    BY <1>3, HasNoValue
  <2> QED
    BY <1>1, <1>3, <2>1
<1> QED
  BY <1>2, <1>3

(* Nothing but blanks follows the beginning of a secret. *)
Clean(s) == \A i \in 1..Len(s) : s[i] = "k" => \A j \in (i + 1)..Len(s) : s[j] \in Blanks

Blank(s) == \A i \in 1..Len(s) : s[i] \in Blanks

LEMMA CleanIs ==
    ASSUME NEW text \in Text
    PROVE  ~ ShowsSecret(text) <=> Clean(text)
<1>1. Len(text) \in Nat /\ DOMAIN text = 1..Len(text)
  BY TextIs
<1>2. ASSUME NEW i \in 1..Len(text)
      PROVE  IsSecret(text, i) <=> text[i] = "k" /\ \E k \in (i + 1)..Len(text) : text[k] \notin Blanks
  BY SecretIs DEF IsSecret
<1> QED
  BY <1>1, <1>2 DEF ShowsSecret, Clean

LEMMA CutIsClean ==
    ASSUME NEW s \in Text, NEW n \in Nat, Clean(s)
    PROVE  Clean(Cut(s, n))
<1>1. /\ Len(s) \in Nat /\ Len(Cut(s, n)) \in Nat /\ Len(Cut(s, n)) <= Len(s)
      /\ \A i \in 1..Len(Cut(s, n)) : Cut(s, n)[i] = s[i]
  BY CutIs, TextIs
<1>2. \A i \in 1..Len(Cut(s, n)) : i \in 1..Len(s) /\
         \A j \in (i + 1)..Len(Cut(s, n)) : j \in (i + 1)..Len(s) /\ j \in 1..Len(Cut(s, n))
  BY <1>1
<1> QED
  BY <1>1, <1>2 DEF Clean

LEMMA JoinIsClean ==
    ASSUME NEW s \in Text, NEW t \in Text, Clean(t),
           \/ \A i \in 1..Len(s) : s[i] # "k"
           \/ s = <<"k">> /\ Blank(t)
    PROVE  Clean(s \o t)
<1> DEFINE u == s \o t
<1>1. /\ Len(s) \in Nat /\ Len(t) \in Nat /\ Len(u) = Len(s) + Len(t)
      /\ \A i \in 1..Len(u) : \/ i \in 1..Len(s) /\ u[i] = s[i]
                              \/ i - Len(s) \in 1..Len(t) /\ u[i] = t[i - Len(s)]
  BY JoinIs, TextIs
<1>2. SUFFICES ASSUME NEW i \in 1..Len(u), u[i] = "k", NEW j \in (i + 1)..Len(u)
               PROVE  u[j] \in Blanks
  BY DEF Clean
<1> HIDE DEF u
<1>3. j \in 1..Len(u)
  BY <1>1
<1>4. CASE i - Len(s) \in 1..Len(t) /\ u[i] = t[i - Len(s)]
  <2>1. j - Len(s) \in ((i - Len(s)) + 1)..Len(t) /\ ~ (j \in 1..Len(s))
    BY <1>1, <1>4
  <2>2. t[j - Len(s)] \in Blanks
    BY <1>2, <1>4, <2>1 DEF Clean
  <2> QED
    BY <1>1, <1>3, <2>1, <2>2
<1>5. CASE i \in 1..Len(s) /\ u[i] = s[i]
  <2>1. s = <<"k">> /\ Blank(t)
    BY <1>2, <1>5
  <2>2. Len(s) = 1
    BY <2>1
  <2>3. ~ (j \in 1..Len(s))
    BY <1>5, <2>2
  <2>4. j - Len(s) \in 1..Len(t) /\ u[j] = t[j - Len(s)]
    BY <1>1, <1>3, <2>3
  <2> QED
    BY <2>1, <2>4 DEF Blank
<1> QED
  BY <1>1, <1>4, <1>5

LEMMA JoinIsBlank ==
    ASSUME NEW s \in Text, NEW t \in Text, Blank(s), Blank(t)
    PROVE  Blank(s \o t)
  BY JoinIs DEF Blank

LEMMA RewrittenIsText ==
    ASSUME NEW head, NEW next, Rewrite(head, next)
    PROVE  Rewritten(head, next) \in Text
<1>1. PICK f : Rewriting(f, head, next) /\ Rewritten(head, next) = f[1]
  BY RewrittenIs
<1>2. 1 \in 1..(Len(head) + 1)
  BY LenProperties DEF Rewrite
<1> QED
  BY <1>1, <1>2 DEF Rewriting

(* Only the beginning of a secret that blanks follow is kept, and blanks give way to blanks. *)
LEMMA RewrittenIsClean ==
    ASSUME NEW text \in Text, NEW head, NEW next, Rewrite(head, next), Len(head) = Len(text),
           \A i \in 1..Len(text) : text[i] \in Blanks => Blank(head[i]),
           \A i \in 1..Len(text) :
              \/ \A n \in 1..Len(head[i]) : head[i][n] # "k"
              \/ head[i] = <<"k">> /\ \A j \in (i + 1)..Len(text) : text[j] \in Blanks
    PROVE  Clean(Rewritten(head, next))
<1> DEFINE N == Len(text)
<1>1. PICK f : Rewriting(f, head, next) /\ Rewritten(head, next) = f[1]
  BY RewrittenIs
<1> DEFINE Rest(i) == \A j \in i..N : text[j] \in Blanks
           S == {i \in 1..(N + 1) : Clean(f[i]) /\ (Rest(i) => Blank(f[i]))}
<1>2. N \in Nat /\ \A i \in 1..N : head[i] \in Text
  BY TextIs, ElementOfSeq DEF Rewrite
<1>3. ASSUME NEW i \in 1..(N + 1), \A k \in (i + 1)..(N + 1) : k \in S PROVE i \in S
  <2>1. CASE i = N + 1
    <3>1. f[i] = <<>>
      BY <1>1, <2>1 DEF Rewriting
    <3>2. Clean(<<>>) /\ Blank(<<>>)
      BY DEF Clean, Blank
    <3> QED
      BY <3>1, <3>2
  <2>2. CASE i # N + 1
    <3> DEFINE n == next[i]
    <3>1. i \in 1..N /\ n \in (i + 1)..(N + 1)
      BY <1>2, <2>2 DEF Rewrite
    <3>2. f[i] = head[i] \o f[n]
      BY <1>1, <3>1 DEF Rewriting
    <3>3. f[n] \in Text /\ head[i] \in Text
      BY <1>1, <1>2, <3>1 DEF Rewriting
    <3> HIDE DEF n
    <3>4. Clean(f[n]) /\ (Rest(n) => Blank(f[n]))
      BY <1>3, <3>1
    <3>5. (\A j \in (i + 1)..N : text[j] \in Blanks) => Rest(n)
      BY <1>2, <3>1
    <3>6. Clean(f[i])
      <4>1. \/ \A m \in 1..Len(head[i]) : head[i][m] # "k"
            \/ head[i] = <<"k">> /\ Blank(f[n])
        BY <3>1, <3>4, <3>5
      <4> QED
        BY <3>2, <3>3, <3>4, <4>1, JoinIsClean
    <3>7. ASSUME Rest(i) PROVE Blank(f[i])
      <4>1. \A j \in (i + 1)..N : j \in i..N
        BY <3>1
      <4>2. i \in i..N
        BY <1>2, <3>1
      <4>3. Blank(f[n]) /\ Blank(head[i])
        BY <3>1, <3>4, <3>5, <3>7, <4>1, <4>2
      <4> QED
        BY <3>2, <3>3, <4>3, JoinIsBlank
    <3> QED
      BY <3>6, <3>7
  <2> QED
    BY <2>1, <2>2
<1> HIDE DEF S
<1>4. \A i \in 1..(N + 1) : i \in S
  <2>1. 1 \in Int /\ N + 1 \in Int
    BY <1>2
  <2>2. \A i \in 1..(N + 1) : (\A k \in (i + 1)..(N + 1) : k \in S) => i \in S
    BY <1>3
  <2> QED
    BY <2>1, <2>2, FromTheEnd, Zenon
<1>5. 1 \in 1..(N + 1)
  BY <1>2
<1> QED
  BY <1>1, <1>4, <1>5 DEF S

LEMMA OneElement ==
    ASSUME NEW S, NEW x \in S
    PROVE  <<x>> \in Seq(S) /\ Len(<<x>>) = 1 /\ <<x>>[1] = x
  OBVIOUS

LEMMA SeqOfMore ==
    ASSUME NEW S, NEW T, S \subseteq T, NEW s \in Seq(S)
    PROVE  s \in Seq(T)
<1>1. Len(s) \in Nat /\ s \in [1..Len(s) -> S]
  BY LenProperties
<1>2. s \in [1..Len(s) -> T]
  BY <1>1
<1> QED
  BY <1>1, <1>2, FunctionIsSeq

LEMMA OneCharacter ==
    ASSUME NEW c \in Character
    PROVE  <<c>> \in Text /\ Len(<<c>>) = 1 /\ <<c>>[1] = c /\ (c \in Blanks => Blank(<<c>>))
<1>1. <<c>> \in Text /\ Len(<<c>>) = 1 /\ <<c>>[1] = c
  BY OneElement DEF Text
<1>2. \A i \in 1..1 : i = 1
  OBVIOUS
<1> QED
  BY <1>1, <1>2 DEF Blank

(* What is replaced goes on after itself. *)
LEMMA RewriteIs ==
    ASSUME NEW text \in Text, NEW new \in Text, NEW found, NEW after,
           \A i \in found : after[i] \in (i + 1)..(Len(text) + 1)
    PROVE  LET head == [i \in DOMAIN text |-> IF i \in found THEN new ELSE <<text[i]>>]
               next == [i \in DOMAIN text |-> IF i \in found THEN after[i] ELSE i + 1]
           IN /\ Rewrite(head, next) /\ Len(head) = Len(text)
              /\ \A i \in 1..Len(text) : head[i] = IF i \in found THEN new ELSE <<text[i]>>
<1> DEFINE head == [i \in DOMAIN text |-> IF i \in found THEN new ELSE <<text[i]>>]
           next == [i \in DOMAIN text |-> IF i \in found THEN after[i] ELSE i + 1]
           N == Len(text)
<1>1. N \in Nat /\ DOMAIN text = 1..N /\ \A i \in 1..N : text[i] \in Character
  BY TextIs
<1> HIDE DEF N
<1>2. \A i \in 1..N : <<text[i]>> \in Text
  BY <1>1, OneCharacter
<1>3. head \in [1..N -> Text]
  BY <1>1, <1>2
<1>4. head \in Seq(Text) /\ Len(head) = N
  <2> HIDE DEF head
  <2> QED
    BY <1>1, <1>3, FunctionIsSeq
<1>5. \A i \in 1..N : next[i] \in (i + 1)..(N + 1) /\ next[i] \in Int
  <2>1. \A i \in 1..N : i + 1 \in (i + 1)..(N + 1)
    BY <1>1
  <2>2. \A i \in 1..N : next[i] \in (i + 1)..(N + 1)
    BY <1>1, <2>1 DEF N
  <2> HIDE DEF next
  <2> QED
    BY <2>2
<1>6. next \in [1..N -> Int]
  BY <1>1, <1>5
<1>7. \A i \in 1..N : head[i] = IF i \in found THEN new ELSE <<text[i]>>
  BY <1>1
<1> QED
  BY <1>4, <1>5, <1>6, <1>7 DEF Rewrite, N

LEMMA DecodeIsText ==
    ASSUME NEW bytes \in Text
    PROVE  Decode(bytes) \in Text
<1> DEFINE N == Len(bytes)
           whole == {i \in 1..(N - 1) : bytes[i] = "w1" /\ bytes[i + 1] = "w2"}
           head == [i \in DOMAIN bytes |-> IF i \in whole THEN <<"w">>
                                           ELSE IF bytes[i] \in Halves THEN <<"u">> ELSE <<bytes[i]>>]
           next == [i \in DOMAIN bytes |-> IF i \in whole THEN i + 2 ELSE i + 1]
<1>1. N \in Nat /\ DOMAIN bytes = 1..N /\ \A i \in 1..N : bytes[i] \in Character
  BY TextIs
<1>2. Decode(bytes) = Rewritten(head, next)
  BY DEF Decode
<1> HIDE DEF N
<1>3. \A c \in Character : <<c>> \in Text
  BY OneCharacter
<1>4. head \in [1..N -> Text]
  <2>1. \A i \in 1..N : <<bytes[i]>> \in Text
    BY <1>1, <1>3
  <2>2. <<"w">> \in Text /\ <<"u">> \in Text
    BY <1>3 DEF Character
  <2> HIDE DEF whole
  <2> QED
    BY <1>1, <2>1, <2>2
<1>5. head \in Seq(Text) /\ Len(head) = N
  <2> HIDE DEF head
  <2> QED
    BY <1>1, <1>4, FunctionIsSeq
<1>6. ASSUME NEW i \in 1..N PROVE next[i] \in (i + 1)..(N + 1)
  <2>1. next[i] = IF i \in whole THEN i + 2 ELSE i + 1
    BY <1>1
  <2>2. i \in whole => i \in 1..(N - 1)
    OBVIOUS
  <2> HIDE DEF whole, next
  <2> QED
    BY <1>1, <2>1, <2>2
<1>7. next \in [1..N -> Int]
  BY <1>1
<1>8. Rewrite(head, next)
  <2> HIDE DEF head, next
  <2> QED
    BY <1>5, <1>6, <1>7 DEF Rewrite
<1> QED
  BY <1>2, <1>8, RewrittenIsText

LEMMA MarkerIs == Marker \in Text /\ Blanks = {" ", "n"} /\ \A n \in 1..Len(Marker) : Marker[n] = "m"
<1>1. Marker \in Seq({"m"})
  BY TextAssumption
<1>2. \A n \in 1..Len(Marker) : Marker[n] \in {"m"}
  BY <1>1, ElementOfSeq
<1>3. {"m"} \subseteq Character
  BY DEF Character
<1>4. Marker \in Seq(Character)
  BY <1>1, <1>3, SeqOfMore
<1> QED
  BY <1>2, <1>4 DEF Text, Blanks

(* A text that is redacted is clean. *)
LEMMA RedactIs ==
    ASSUME NEW patterns, NEW text \in Text
    PROVE  Redact(patterns, text) \in Text /\ (patterns # <<>> => Clean(Redact(patterns, text)))
<1> DEFINE N == Len(text)
           secret == {i \in DOMAIN text : IsSecret(text, i)}
           after == [i \in DOMAIN text |-> ValueEnd(text, i) + 1]
           head == [i \in DOMAIN text |-> IF i \in secret THEN Marker ELSE <<text[i]>>]
           next == [i \in DOMAIN text |-> IF i \in secret THEN after[i] ELSE i + 1]
<1>1. N \in Nat /\ DOMAIN text = 1..N /\ \A i \in 1..N : text[i] \in Character
  BY TextIs
<1>2. Redact(patterns, text) = IF patterns = <<>> THEN text ELSE Rewritten(head, next)
  <2>1. next = [i \in DOMAIN text |-> IF i \in secret THEN ValueEnd(text, i) + 1 ELSE i + 1]
    OBVIOUS
  <2> HIDE DEF next
  <2> QED
    BY <2>1 DEF Redact
<1>3. \A i \in 1..N : i \in secret <=> text[i] = "k" /\ \E k \in (i + 1)..N : text[k] \notin Blanks
  BY <1>1, SecretIs DEF IsSecret
<1>4. \A i \in secret : after[i] \in (i + 1)..(N + 1)
  <2> SUFFICES ASSUME NEW i \in secret PROVE after[i] \in (i + 1)..(N + 1)
    OBVIOUS
  <2>1. i \in 1..N /\ after[i] = ValueEnd(text, i) + 1 /\ ValueEnd(text, i) > i
    BY <1>1 DEF IsSecret
  <2>2. ValueEnd(text, i) \in i..N
    BY <2>1, SecretIs
  <2> HIDE DEF after
  <2> QED
    BY <1>1, <2>1, <2>2
<1>5. Marker \in Text /\ \A n \in 1..Len(Marker) : Marker[n] # "k"
  BY MarkerIs
<1>6. /\ Rewrite(head, next) /\ Len(head) = N
      /\ \A i \in 1..N : head[i] = IF i \in secret THEN Marker ELSE <<text[i]>>
  <2> HIDE DEF secret, after
  <2> QED
    BY <1>4, <1>5, RewriteIs, SMTT(60)
<1> HIDE DEF secret, head, next
<1>7. ASSUME NEW i \in 1..N, text[i] \in Blanks PROVE Blank(head[i])
  <2>1. i \notin secret
    BY <1>3, <1>7 DEF Blanks
  <2> QED
    BY <1>1, <1>6, <1>7, <2>1, OneCharacter
<1>8. ASSUME NEW i \in 1..N
      PROVE  \/ \A n \in 1..Len(head[i]) : head[i][n] # "k"
             \/ head[i] = <<"k">> /\ \A j \in (i + 1)..N : text[j] \in Blanks
  <2>1. CASE i \in secret
    BY <1>5, <1>6, <2>1
  <2>2. CASE i \notin secret /\ text[i] = "k"
    BY <1>3, <1>6, <2>2
  <2>3. CASE i \notin secret /\ text[i] # "k"
    <3>1. head[i] = <<text[i]>> /\ Len(<<text[i]>>) = 1 /\ <<text[i]>>[1] = text[i]
      BY <1>1, <1>6, <2>3, OneCharacter
    <3>2. \A n \in 1..1 : n = 1
      OBVIOUS
    <3> QED
      BY <2>3, <3>1, <3>2
  <2> QED
    BY <2>1, <2>2, <2>3
<1>9. Rewritten(head, next) \in Text /\ Clean(Rewritten(head, next))
  BY <1>6, <1>7, <1>8, RewrittenIsText, RewrittenIsClean
<1> QED
  BY <1>2, <1>9

LEMMA FoundPrefix ==
    ASSUME NEW text \in Text, NEW old \in Text \ {<<>>}, NEW i \in 1..Len(text),
           IsPrefix(old, From(text, i))
    PROVE  i + Len(old) \in (i + 1)..(Len(text) + 1) /\ text[i] = Head(old)
<1>1. Len(text) \in Nat /\ \A j \in 1..Len(text) : text[j] \in Character
  BY TextIs
<1>2. Len(old) \in Nat \ {0} /\ Head(old) = old[1]
  BY PopProperties DEF Text
<1> DEFINE s == From(text, i)
<1>3. s \in Text /\ Len(s) = Len(text) - i + 1 /\ s[1] = text[i]
  <2>1. i \in Int /\ Len(text) \in Int /\ \A j \in i..Len(text) : text[j] \in Character
    BY <1>1
  <2>2. /\ SubSeq(text, i, Len(text)) \in Text
        /\ Len(SubSeq(text, i, Len(text))) = IF i <= Len(text) THEN Len(text) - i + 1 ELSE 0
        /\ \A j \in 1..Len(text) - i + 1 : SubSeq(text, i, Len(text))[j] = text[i + j - 1]
    BY <2>1, SubSeqProperties DEF Text
  <2>3. i <= Len(text) /\ 1 \in 1..Len(text) - i + 1 /\ i + 1 - 1 = i
    BY <1>1
  <2> QED
    BY <2>2, <2>3 DEF From
<1> HIDE DEF s
<1>4. Len(old) <= Len(s) /\ SubSeq(old, 1, Len(old)) = SubSeq(s, 1, Len(old))
  BY DEF IsPrefix, s
<1>5. Len(old) \in 0..Len(old) /\ Len(old) \in 0..Len(s) /\ 1 \in 1..Len(old)
  BY <1>1, <1>2, <1>3, <1>4
<1>6. SubSeq(old, 1, Len(old))[1] = old[1] /\ SubSeq(s, 1, Len(old))[1] = s[1]
  BY <1>3, <1>5, FirstOf DEF Text
<1> QED
  BY <1>1, <1>2, <1>3, <1>4, <1>6

(* A label takes the place of a root, which does not begin with a blank. *)
LEMMA ReplaceIs ==
    ASSUME NEW text \in Text, NEW old \in Text \ {<<>>}, NEW new \in Text,
           \A n \in 1..Len(new) : new[n] = "l"
    PROVE  /\ Replace(text, old, new) \in Text
           /\ Clean(text) /\ Head(old) \notin Blanks => Clean(Replace(text, old, new))
<1> DEFINE N == Len(text)
           found == {i \in DOMAIN text : IsPrefix(old, From(text, i))}
           after == [i \in DOMAIN text |-> i + Len(old)]
           head == [i \in DOMAIN text |-> IF i \in found THEN new ELSE <<text[i]>>]
           next == [i \in DOMAIN text |-> IF i \in found THEN after[i] ELSE i + 1]
<1>1. N \in Nat /\ DOMAIN text = 1..N /\ \A i \in 1..N : text[i] \in Character
  BY TextIs
<1>2. Replace(text, old, new) = Rewritten(head, next)
  <2>1. next = [i \in DOMAIN text |-> IF i \in found THEN i + Len(old) ELSE i + 1]
    OBVIOUS
  <2> HIDE DEF next
  <2> QED
    BY <2>1 DEF Replace
<1>3. \A i \in found : after[i] \in (i + 1)..(N + 1) /\ text[i] = Head(old)
  <2> SUFFICES ASSUME NEW i \in found PROVE after[i] \in (i + 1)..(N + 1) /\ text[i] = Head(old)
    OBVIOUS
  <2>1. i \in 1..N /\ IsPrefix(old, From(text, i)) /\ after[i] = i + Len(old)
    BY <1>1
  <2> QED
    BY <2>1, FoundPrefix
<1>5. /\ Rewrite(head, next) /\ Len(head) = N
      /\ \A i \in 1..N : head[i] = IF i \in found THEN new ELSE <<text[i]>>
  <2>1. \A i \in found : after[i] \in (i + 1)..(N + 1)
    BY <1>3
  <2> HIDE DEF found, after
  <2>2. \A f : \A a : (\A i \in f : a[i] \in (i + 1)..(N + 1)) =>
           LET h == [i \in DOMAIN text |-> IF i \in f THEN new ELSE <<text[i]>>]
               n == [i \in DOMAIN text |-> IF i \in f THEN a[i] ELSE i + 1]
           IN /\ Rewrite(h, n) /\ Len(h) = N
              /\ \A i \in 1..N : h[i] = IF i \in f THEN new ELSE <<text[i]>>
    BY RewriteIs
  <2> QED
    BY <2>1, <2>2
<1> HIDE DEF found, head, next
<1>6. ASSUME Clean(text), Head(old) \notin Blanks PROVE Clean(Rewritten(head, next))
  <2>1. ASSUME NEW i \in 1..N, text[i] \in Blanks PROVE Blank(head[i])
    <3>1. i \notin found
      BY <1>3, <1>6, <2>1
    <3> QED
      BY <1>1, <1>5, <2>1, <3>1, OneCharacter
  <2>2. ASSUME NEW i \in 1..N
        PROVE  \/ \A n \in 1..Len(head[i]) : head[i][n] # "k"
               \/ head[i] = <<"k">> /\ \A j \in (i + 1)..N : text[j] \in Blanks
    <3>1. CASE i \in found
      BY <1>5, <3>1
    <3>2. CASE i \notin found /\ text[i] = "k"
      BY <1>5, <1>6, <3>2 DEF Clean
    <3>3. CASE i \notin found /\ text[i] # "k"
      <4>1. head[i] = <<text[i]>> /\ Len(<<text[i]>>) = 1 /\ <<text[i]>>[1] = text[i]
        BY <1>1, <1>5, <3>3, OneCharacter
      <4>2. \A n \in 1..1 : n = 1
        OBVIOUS
      <4> QED
        BY <3>3, <4>1, <4>2
    <3> QED
      BY <3>1, <3>2, <3>3
  <2> QED
    BY <1>5, <2>1, <2>2, RewrittenIsClean
<1> QED
  BY <1>2, <1>5, <1>6, RewrittenIsText


(* f is the text after each of the first m roots. *)
Labels(f, patterns, text, m) ==
    f = [n \in 0..m |-> IF n = 0 THEN Redact(patterns, text)
                        ELSE Replace(f[n - 1], HostRoots[n].root, HostRoots[n].label)]

LEMMA LabelsExist ==
    ASSUME NEW patterns, NEW text, NEW N \in Nat
    PROVE  \E f : Labels(f, patterns, text, N)
<1> DEFINE S == {m \in 0..N : \E f : Labels(f, patterns, text, m)}
<1>1. 0 \in S
  <2> DEFINE f == [n \in 0..0 |-> Redact(patterns, text)]
  <2>1. f = [n \in 0..0 |-> IF n = 0 THEN Redact(patterns, text)
                            ELSE Replace(f[n - 1], HostRoots[n].root, HostRoots[n].label)]
    OBVIOUS
  <2>2. Labels(f, patterns, text, 0)
    BY <2>1 DEF Labels
  <2> HIDE DEF f
  <2> QED
    BY <2>2
<1>2. ASSUME NEW m \in 0..N, m # N, m \in S PROVE m + 1 \in S
  <2>1. PICK f : Labels(f, patterns, text, m)
    BY <1>2
  <2> DEFINE g == [n \in 0..(m + 1) |->
                      IF n = m + 1 THEN Replace(f[m], HostRoots[n].root, HostRoots[n].label) ELSE f[n]]
  <2>2. ASSUME NEW n \in 0..(m + 1)
        PROVE  g[n] = IF n = 0 THEN Redact(patterns, text)
                      ELSE Replace(g[n - 1], HostRoots[n].root, HostRoots[n].label)
    <3>1. CASE n = m + 1
      <4>1. m \in 0..(m + 1) /\ m # m + 1 /\ n - 1 = m /\ n # 0
        BY <3>1
      <4> QED
        BY <3>1, <4>1
    <3>2. CASE n # m + 1
      <4>1. n \in 0..m /\ (n # 0 => n - 1 \in 0..(m + 1) /\ n - 1 # m + 1)
        BY <3>2
      <4>2. f[n] = IF n = 0 THEN Redact(patterns, text)
                   ELSE Replace(f[n - 1], HostRoots[n].root, HostRoots[n].label)
        BY <2>1, <4>1 DEF Labels
      <4> QED
        BY <3>2, <4>1, <4>2
    <3> QED
      BY <3>1, <3>2
  <2>3. g = [n \in 0..(m + 1) |-> g[n]]
    OBVIOUS
  <2> HIDE DEF g
  <2>4. Labels(g, patterns, text, m + 1)
    BY <2>2, <2>3 DEF Labels
  <2>5. m + 1 \in 0..N
    BY <1>2
  <2> QED
    BY <2>4, <2>5
<1> HIDE DEF S
<1>3. \A n \in 0..N : n \in S
  BY <1>1, <1>2, StepByStep
<1> QED
  BY <1>3 DEF S

LEMMA HostRootIs ==
    ASSUME NEW n \in 1..Len(HostRoots)
    PROVE  /\ HostRoots[n].root \in Text \ {<<>>} /\ Head(HostRoots[n].root) \notin Blanks
           /\ HostRoots[n].label \in Text
           /\ \A i \in 1..Len(HostRoots[n].label) : HostRoots[n].label[i] = "l"
<1> DEFINE r == HostRoots[n]
<1>1. HostRoots \in Seq([root: Seq(STRING) \ {<<>>}, label: Seq({"l"})])
  BY TextAssumption
<1>2. r \in [root: Seq(STRING) \ {<<>>}, label: Seq({"l"})] /\ n \in DOMAIN HostRoots
  BY <1>1, ElementOfSeq, LenProperties
<1>3. r.root \in Seq(STRING) /\ r.root # <<>> /\ r.label \in Seq({"l"})
  BY <1>2
<1>4. Head(r.root) \notin Blanks
  BY <1>2, TextAssumption
<1> HIDE DEF r
<1>5. STRING \subseteq Character /\ {"l"} \subseteq Character
  BY DEF Character
<1>6. r.root \in Text /\ r.label \in Text
  BY <1>3, <1>5, SeqOfMore DEF Text
<1>7. \A i \in 1..Len(r.label) : r.label[i] \in {"l"}
  BY <1>3, ElementOfSeq
<1> QED
  BY <1>3, <1>4, <1>6, <1>7 DEF r

LEMMA SanitiseIs ==
    ASSUME NEW patterns, NEW text \in Text
    PROVE  Sanitise(patterns, text) \in Text /\ (patterns # <<>> => Clean(Sanitise(patterns, text)))
<1> DEFINE N == Len(HostRoots)
           f == CHOOSE g : Labels(g, patterns, text, N)
           S == {n \in 0..N : f[n] \in Text /\ (patterns # <<>> => Clean(f[n]))}
<1>1. N \in Nat
  BY TextAssumption, LenProperties
<1>2. Labels(f, patterns, text, N)
  BY <1>1, LabelsExist, Zenon
<1>3. Sanitise(patterns, text) = f[N]
  BY DEF Sanitise, Labels
<1> HIDE DEF f
<1>4. 0 \in S
  <2>1. 0 \in 0..N
    BY <1>1
  <2>2. f[0] = Redact(patterns, text)
    BY <1>2, <2>1 DEF Labels
  <2> QED
    BY <2>1, <2>2, RedactIs
<1>5. ASSUME NEW n \in 0..N, n # N, n \in S PROVE n + 1 \in S
  <2>1. n + 1 \in 1..N /\ n + 1 \in 0..N /\ n + 1 # 0 /\ (n + 1) - 1 = n
    BY <1>1, <1>5
  <2> DEFINE r == HostRoots[n + 1]
  <2>2. f[n + 1] = Replace(f[n], r.root, r.label)
    BY <1>2, <2>1 DEF Labels
  <2>3. /\ r.root \in Text \ {<<>>} /\ Head(r.root) \notin Blanks
        /\ r.label \in Text /\ \A i \in 1..Len(r.label) : r.label[i] = "l"
    BY <2>1, HostRootIs
  <2> HIDE DEF r
  <2>4. f[n + 1] \in Text /\ (Clean(f[n]) => Clean(f[n + 1]))
    BY <1>5, <2>2, <2>3, ReplaceIs
  <2> QED
    BY <1>5, <2>1, <2>4
<1> HIDE DEF S
<1>6. \A n \in 0..N : n \in S
  BY <1>1, <1>4, <1>5, StepByStep
<1> QED
  BY <1>1, <1>3, <1>6 DEF S

-----------------------------------------------------------------------------
(* Sizes.                                                                  *)

(* f is the size of the first n characters. *)
Sums(f, text, m) == f = [n \in 0..m |-> IF n = 0 THEN 0 ELSE f[n - 1] + Size(text[n])]

LEMMA SumsExist ==
    ASSUME NEW text, NEW N \in Nat
    PROVE  \E f : Sums(f, text, N)
<1> DEFINE S == {m \in 0..N : \E f : Sums(f, text, m)}
<1>1. 0 \in S
  <2> DEFINE f == [n \in 0..0 |-> 0]
  <2>1. f = [n \in 0..0 |-> IF n = 0 THEN 0 ELSE f[n - 1] + Size(text[n])]
    OBVIOUS
  <2>2. Sums(f, text, 0)
    BY <2>1 DEF Sums
  <2> HIDE DEF f
  <2> QED
    BY <2>2
<1>2. ASSUME NEW m \in 0..N, m # N, m \in S PROVE m + 1 \in S
  <2>1. PICK f : Sums(f, text, m)
    BY <1>2
  <2> DEFINE g == [n \in 0..(m + 1) |-> IF n = m + 1 THEN f[m] + Size(text[n]) ELSE f[n]]
  <2>2. ASSUME NEW n \in 0..(m + 1)
        PROVE  g[n] = IF n = 0 THEN 0 ELSE g[n - 1] + Size(text[n])
    <3>1. CASE n = m + 1
      <4>1. m \in 0..(m + 1) /\ m # m + 1 /\ n - 1 = m /\ n # 0
        BY <3>1
      <4> QED
        BY <3>1, <4>1
    <3>2. CASE n # m + 1
      <4>1. n \in 0..m /\ (n # 0 => n - 1 \in 0..(m + 1) /\ n - 1 # m + 1)
        BY <3>2
      <4>2. f[n] = IF n = 0 THEN 0 ELSE f[n - 1] + Size(text[n])
        BY <2>1, <4>1 DEF Sums
      <4> QED
        BY <3>2, <4>1, <4>2
    <3> QED
      BY <3>1, <3>2
  <2>3. g = [n \in 0..(m + 1) |-> g[n]]
    OBVIOUS
  <2> HIDE DEF g
  <2>4. Sums(g, text, m + 1)
    BY <2>2, <2>3 DEF Sums
  <2>5. m + 1 \in 0..N
    BY <1>2
  <2> QED
    BY <2>4, <2>5
<1> HIDE DEF S
<1>3. \A n \in 0..N : n \in S
  BY <1>1, <1>2, StepByStep
<1> QED
  BY <1>3 DEF S

LEMMA SizeIs ==
    ASSUME NEW text \in Text
    PROVE  \E f : /\ Utf8Size(text) = f[Len(text)]
                  /\ f[0] = 0 /\ \A n \in 1..Len(text) : f[n] = f[n - 1] + Size(text[n])
                  /\ \A n \in 0..Len(text) : f[n] \in Nat
<1> DEFINE N == Len(text)
           f == CHOOSE g : Sums(g, text, N)
           S == {n \in 0..N : f[n] \in Nat}
<1>1. N \in Nat
  BY TextIs
<1>2. Sums(f, text, N)
  BY <1>1, SumsExist, Zenon
<1>3. Utf8Size(text) = f[N]
  BY DEF Utf8Size, Sums
<1> HIDE DEF f, N
<1>4. f[0] = 0 /\ \A n \in 1..N : f[n] = f[n - 1] + Size(text[n])
  <2>1. 0 \in 0..N /\ \A n \in 1..N : n \in 0..N /\ n # 0
    BY <1>1
  <2> QED
    BY <1>2, <2>1 DEF Sums
<1>5. \A c : Size(c) \in Nat
  BY DEF Size
<1>6. 0 \in S
  BY <1>1, <1>4
<1>7. ASSUME NEW n \in 0..N, n # N, n \in S PROVE n + 1 \in S
  <2>1. n + 1 \in 1..N /\ n + 1 \in 0..N /\ (n + 1) - 1 = n
    BY <1>1, <1>7
  <2>2. f[n + 1] = f[n] + Size(text[n + 1]) /\ f[n] \in Nat /\ Size(text[n + 1]) \in Nat
    BY <1>4, <1>5, <1>7, <2>1
  <2> QED
    BY <2>1, <2>2
<1> HIDE DEF S
<1>8. \A n \in 0..N : n \in S
  BY <1>1, <1>6, <1>7, StepByStep
<1> QED
  BY <1>3, <1>4, <1>8 DEF S, N

LEMMA NoSize == Utf8Size(<<>>) = 0
<1>1. <<>> \in Text /\ Len(<<>>) = 0
  BY EmptySeq DEF Text
<1> QED
  BY <1>1, SizeIs

LEMMA SizeType ==
    ASSUME NEW text \in Text
    PROVE  Utf8Size(text) \in Nat
<1>1. Len(text) \in 0..Len(text)
  BY TextIs
<1> QED
  BY <1>1, SizeIs

(* Something fits every limit, so that what is shown is a beginning of the text that fits. *)
LEMMA TruncateIs ==
    ASSUME NEW text \in Text, NEW max \in Nat
    PROVE  /\ \E n \in 0..Len(text) : Truncate(text, max) = Cut(text, n)
           /\ Utf8Size(Truncate(text, max)) \in Nat
           /\ Utf8Size(Truncate(text, max)) <= max
<1> DEFINE N == Len(text)
           fits == {n \in 0..N : Utf8Size(Cut(text, n)) <= max}
<1>1. N \in Nat /\ N \in 0..N /\ 0 \in 0..N
  BY TextIs
<1>2. Cut(text, N) = text
  BY <1>1, SubSeqFull DEF Cut, Text
<1>3. CASE Utf8Size(text) <= max
  BY <1>1, <1>2, <1>3, SizeType DEF Truncate
<1>4. CASE ~ (Utf8Size(text) <= max)
  <2>1. 0 \in fits
    <3>1. Len(Cut(text, 0)) = 0 /\ Cut(text, 0) \in Text
      BY <1>1, CutIs
    <3>2. Cut(text, 0) = <<>>
      BY <3>1, EmptySeq DEF Text
    <3>3. Utf8Size(Cut(text, 0)) <= max
      BY <3>2, NoSize
    <3> QED
      BY <1>1, <3>3
  <2>2. Truncate(text, max) = Cut(text, Max(fits))
    BY <1>4 DEF Truncate
  <2>3. fits \subseteq 0..N
    OBVIOUS
  <2>4. Max(fits) \in fits
    <3> HIDE DEF fits
    <3> QED
      BY <1>1, <2>1, <2>3, GreatestIs
  <2>5. Max(fits) \in 0..N /\ Utf8Size(Cut(text, Max(fits))) <= max
    BY <2>4
  <2> HIDE DEF fits
  <2>6. Utf8Size(Cut(text, Max(fits))) \in Nat
    BY <1>1, <2>5, CutIs, SizeType
  <2> QED
    BY <2>2, <2>5, <2>6
<1> QED
  BY <1>3, <1>4

-----------------------------------------------------------------------------
(* What is shown.                                                          *)

(* Some of a sequence, from one place to another. *)
LEMMA PartIs ==
    ASSUME NEW S, NEW s \in Seq(S), NEW m \in Nat \ {0}, NEW n \in Int, n <= Len(s)
    PROVE  SubSeq(s, m, n) \in Seq(S)
<1>1. Len(s) \in Nat /\ \A i \in 1..Len(s) : s[i] \in S
  BY LenProperties, ElementOfSeq
<1>2. m \in Int /\ \A i \in m..n : s[i] \in S
  BY <1>1
<1> QED
  BY <1>2, SubSeqProperties

LEMMA LeastIs ==
    ASSUME NEW T, T \subseteq Nat, T # {}
    PROVE  Min(T) \in T
<1>1. \E x \in T : \A y \in T : x <= y
  BY LeastNatural
<1> QED
  BY <1>1 DEF Min

LEMMA StripIsText ==
    ASSUME NEW text \in Text
    PROVE  StripText(text) \in Text
<1> DEFINE solid == {i \in DOMAIN text : text[i] \notin Blanks}
<1>1. Len(text) \in Nat /\ DOMAIN text = 1..Len(text)
  BY TextIs
<1>2. StripText(text) = IF solid = {} THEN <<>> ELSE SubSeq(text, Min(solid), Max(solid))
  BY DEF StripText
<1>3. solid \subseteq 1..Len(text) /\ solid \subseteq Nat
  BY <1>1
<1> HIDE DEF solid
<1>4. CASE solid = {}
  BY <1>2, <1>4, EmptySeq DEF Text
<1>5. CASE solid # {}
  <2>1. Min(solid) \in solid /\ Max(solid) \in solid
    BY <1>1, <1>3, <1>5, LeastIs, MaxIs
  <2>2. Min(solid) \in Nat \ {0} /\ Max(solid) \in Int /\ Max(solid) <= Len(text)
    <3>1. \A k \in 1..Len(text) : k \in Nat \ {0} /\ k \in Int /\ k <= Len(text)
      BY <1>1
    <3> QED
      BY <1>3, <2>1, <3>1, Zenon
  <2> QED
    BY <1>2, <1>5, <2>2, PartIs DEF Text
<1> QED
  BY <1>4, <1>5

LEMMA SummaryIsText ==
    ASSUME NEW stdout \in Text, NEW stderr \in Text
    PROVE  Summary(stdout, stderr) \in Text
<1> DEFINE out == StripText(stdout)
           err == StripText(stderr)
           both == IF out = <<>> THEN err ELSE IF err = <<>> THEN out ELSE out \o <<"n">> \o err
<1>1. out \in Text /\ err \in Text
  BY StripIsText
<1>2. "n" \in Character
  BY DEF Character
<1> HIDE DEF out, err
<1>3. out \o <<"n">> \o err \in Text
  BY <1>1, <1>2, OneCharacter, JoinIs
<1>4. both \in Text
  BY <1>1, <1>3
<1>5. SummarySize \in Nat
  BY TextAssumption
<1>6. Summary(stdout, stderr) = Cut(both, SummarySize)
  BY DEF Summary, out, err
<1> HIDE DEF both
<1> QED
  BY <1>4, <1>5, <1>6, CutIs

LEMMA LinesAreTexts ==
    ASSUME NEW text \in Text
    PROVE  Lines(text) \in Seq(Text)
<1> DEFINE last == {i \in DOMAIN text : text[i] = "n" \/ i = Len(text)}
           ends == Sorted(last, Ascending(last))
           line(i) == SubSeq(text, IF i = 1 THEN 1 ELSE ends[i - 1] + 1, ends[i])
<1>1. Len(text) \in Nat /\ DOMAIN text = 1..Len(text)
  BY TextIs
<1>2. Lines(text) = [i \in DOMAIN ends |-> line(i)]
  BY DEF Lines
<1>3. last \subseteq 1..Len(text) /\ last \subseteq Nat
  BY <1>1
<1>4. IsFiniteSet(last)
  <2> HIDE DEF last
  <2>1. 1 \in Int /\ Len(text) \in Int
    BY <1>1
  <2>2. IsFiniteSet(1..Len(text))
    BY <2>1, FS_Interval
  <2> QED
    BY <1>3, <2>2, FS_Subset
<1> HIDE DEF last
<1>5. IsOrderOn(Ascending(last), last)
  BY <1>3, AscendingIsOrder
<1>6. ends \in Seq(last)
  BY <1>4, <1>5, SortedProperties
<1> HIDE DEF ends
<1>7. Len(ends) \in Nat /\ DOMAIN ends = 1..Len(ends) /\ \A i \in 1..Len(ends) : ends[i] \in 1..Len(text)
  BY <1>3, <1>6, LenProperties, ElementOfSeq
<1>8. ASSUME NEW i \in 1..Len(ends) PROVE line(i) \in Text
  <2> DEFINE from == IF i = 1 THEN 1 ELSE ends[i - 1] + 1
  <2>1. i = 1 \/ i - 1 \in 1..Len(ends)
    BY <1>7
  <2>2. from \in Nat \ {0} /\ ends[i] \in Int /\ ends[i] <= Len(text)
    BY <1>1, <1>7, <2>1
  <2> HIDE DEF from
  <2>3. SubSeq(text, from, ends[i]) \in Text
    BY <2>2, PartIs DEF Text
  <2> QED
    BY <2>3 DEF from
<1> HIDE DEF line
<1>9. [i \in DOMAIN ends |-> line(i)] \in [1..Len(ends) -> Text]
  BY <1>7, <1>8
<1> QED
  BY <1>2, <1>7, <1>9, FunctionIsSeq

LEMMA SliceIsText ==
    ASSUME NEW text \in Text, NEW start \in Nat \ {0}, NEW count \in Nat \cup {NoCount}
    PROVE  FlattenSeq(Slice(Lines(text), start, count)) \in Text
<1> DEFINE lines == Lines(text)
           rest == From(lines, start)
           some == Slice(lines, start, count)
<1>1. lines \in Seq(Text)
  BY LinesAreTexts
<1> HIDE DEF lines
<1>2. Len(lines) \in Nat
  BY <1>1, LenProperties
<1>3. rest \in Seq(Text)
  BY <1>1, <1>2, PartIs DEF From
<1> HIDE DEF rest
<1>4. Len(rest) \in Nat
  BY <1>3, LenProperties
<1>5. count \in Nat => Cut(rest, count) \in Seq(Text)
  <2> DEFINE k == IF count < Len(rest) THEN count ELSE Len(rest)
  <2>1. SUFFICES ASSUME count \in Nat PROVE Cut(rest, count) \in Seq(Text)
    OBVIOUS
  <2>2. k \in Int /\ k <= Len(rest) /\ 1 \in Nat \ {0}
    BY <1>4, <2>1
  <2>3. Cut(rest, count) = SubSeq(rest, 1, k)
    BY DEF Cut
  <2> HIDE DEF k
  <2> QED
    BY <1>3, <2>2, <2>3, PartIs
<1>6. some = IF count = NoCount THEN rest ELSE Cut(rest, count)
  BY DEF Slice, rest
<1>7. some \in Seq(Seq(Character))
  BY <1>3, <1>5, <1>6 DEF Text
<1> HIDE DEF some
<1>8. 0 \in 0..Len(some) /\ Len(some) \in 0..Len(some)
  BY <1>7, LenProperties
<1>9. FlattenSeq(some) \in Seq(Character)
  BY <1>7, <1>8, FlattenFirst
<1> QED
  BY <1>9 DEF Text, some, lines

Hidden(texts) == \A i \in DOMAIN texts : ~ ShowsSecret(texts[i])

LEMMA SanitisedIs ==
    ASSUME NEW texts, \A i \in DOMAIN texts : texts[i] \in Text
    PROVE  Patterns # <<>> => Hidden(Sanitised(texts))
<1>1. DOMAIN Sanitised(texts) = DOMAIN texts
      /\ \A i \in DOMAIN texts : Sanitised(texts)[i] = Sanitise(Patterns, texts[i])
  BY DEF Sanitised
<1> QED
  BY <1>1, SanitiseIs, CleanIs DEF Hidden

(* What is made of the first of the bytes: redacted, and cut after that. *)
LEMMA MadeIs ==
    ASSUME NEW bytes \in Seq(STRING), NEW n \in Nat, NEW max \in Nat
    PROVE  LET made == Truncate(Redact(Patterns, Decode(Cut(bytes, n))), max)
           IN /\ made \in Text /\ (Patterns # <<>> => ~ ShowsSecret(made))
              /\ Utf8Size(made) \in Nat /\ Utf8Size(made) <= max
<1> DEFINE text == Redact(Patterns, Decode(Cut(bytes, n)))
<1>1. bytes \in Text
  BY SeqOfMore DEF Text, Character
<1>2. text \in Text /\ (Patterns # <<>> => Clean(text))
  BY <1>1, CutIs, DecodeIsText, RedactIs
<1> HIDE DEF text
<1>3. PICK k \in 0..Len(text) : Truncate(text, max) = Cut(text, k)
  BY <1>2, TruncateIs
<1>4. k \in Nat
  BY <1>2, TextIs
<1>5. Cut(text, k) \in Text /\ (Patterns # <<>> => ~ ShowsSecret(Cut(text, k)))
  BY <1>2, <1>4, CutIs, CutIsClean, CleanIs
<1> QED
  BY <1>2, <1>3, <1>5, TruncateIs DEF text

LEMMA CapturedBytes ==
    ASSUME IsScenario(input), Limit \in Nat, NEW captured \in Captures
    PROVE  captured.stdout.bytes \in Nat /\ captured.stderr.bytes \in Nat
<1>1. ASSUME NEW stream \in Seq(STRING), NEW early \in Early(stream)
      PROVE  early.bytes \in Nat
  <2>1. Len(stream) \in Nat
    BY LenProperties
  <2>2. Whole(stream).bytes \in Nat
    BY <2>1 DEF Whole
  <2>3. early = Whole(stream) \/ early.bytes \in 0..Whole(stream).bytes
    BY DEF Early
  <2> QED
    BY <2>2, <2>3
<1>2. input.stdout \in Seq(STRING) /\ input.stderr \in Seq(STRING)
  BY DEF IsScenario
<1>3. \A stream : Whole(stream) \in Early(stream)
  BY DEF Early
<1>4. captured.stdout \in Early(input.stdout) /\ captured.stderr \in Early(input.stderr)
  <2> HIDE DEF Early, Whole
  <2> QED
    BY <1>3 DEF Captures
<1> QED
  BY <1>1, <1>2, <1>4

(* A result whose texts show no secret. *)
Discreet(result) ==
    result.kind = "result" /\ Patterns # <<>> =>
       Hidden(result.shown) /\ (Request.tool # "read_file" => Hidden(result.made))

LEMMA RaisedDiscreet ==
    ASSUME NEW e, Raise(e)
    PROVE  Discreet(answer')
  BY DEF Raise, Discreet

LEMMA RunIsDiscreet ==
    ASSUME Run, Limit \in Nat, IsScenario(input)
    PROVE  Discreet(answer')
<1>1. CASE Raise("ProcessExecutionError")
  BY <1>1, RaisedDiscreet
<1>2. CASE ~ Raise("ProcessExecutionError")
  <2>1. PICK captured \in Captures :
           LET output == Output(captured)
               made == <<output.stdout, output.stderr>>
               cut == <<output.stdout_truncated, output.stderr_truncated>>
               texts == IF Request.tool = "run_tests"
                        THEN <<Summary(output.stdout, output.stderr)>> ELSE made
           IN Answer(Result(Sanitised(texts), made, cut, captured.timed_out))
    BY <1>2, Zenon DEF Run
  <2> DEFINE first == Redact(Patterns, Decode(Cut(input.stdout, captured.stdout.bytes)))
             second == Redact(Patterns, Decode(Cut(input.stderr, captured.stderr.bytes)))
             out == Truncate(first, Limit)
             left == Limit - Utf8Size(out)
             err == Truncate(second, left)
             made == <<out, err>>
             texts == IF Request.tool = "run_tests" THEN <<Summary(out, err)>> ELSE made
  <2>2. Output(captured).stdout = out /\ Output(captured).stderr = err
    BY DEF Output, OutputPair
  <2>3. answer'.shown = Sanitised(texts) /\ answer'.made = made
    BY <2>1, <2>2 DEF Answer, Result
  <2>4. /\ input.stdout \in Seq(STRING) /\ input.stderr \in Seq(STRING)
        /\ captured.stdout.bytes \in Nat /\ captured.stderr.bytes \in Nat
    BY CapturedBytes DEF IsScenario
  <2> HIDE DEF out
  <2>5. /\ out \in Text /\ (Patterns # <<>> => ~ ShowsSecret(out))
        /\ Utf8Size(out) \in Nat /\ Utf8Size(out) <= Limit
    BY <2>4, MadeIs DEF out
  <2>6. left \in Nat
    BY <2>5
  <2> HIDE DEF left, err
  <2>7. err \in Text /\ (Patterns # <<>> => ~ ShowsSecret(err))
    BY <2>4, <2>6, MadeIs DEF err
  <2>8. Summary(out, err) \in Text
    BY <2>5, <2>7, SummaryIsText
  <2>9. \A i \in DOMAIN texts : texts[i] \in Text
    BY <2>5, <2>7, <2>8
  <2>10. Patterns # <<>> => Hidden(made)
    BY <2>5, <2>7 DEF Hidden
  <2> HIDE DEF texts, made
  <2> QED
    BY <2>3, <2>9, <2>10, SanitisedIs DEF Discreet
<1> QED
  BY <1>1, <1>2

LEMMA ReadIsDiscreet ==
    ASSUME Read, Limit \in Nat, IsScenario(input), TreeTyped(fs), WalkTyped(walk)
    PROVE  Discreet(answer')
<1>1. CASE \E e : Raise(e)
  BY <1>1, RaisedDiscreet
<1>2. CASE ~ \E e : Raise(e)
  <2> DEFINE bytes == Here.bytes
  <2>1. Here.kind = "file"
    BY <1>2 DEF Read
  <2>2. bytes \in Seq(STRING)
    BY <2>1, HereIsFile
  <2> HIDE DEF bytes
  <2>3. CASE Request.tool = "read_file"
    <3> DEFINE made == <<FlattenSeq(Slice(Lines(Decode(bytes)), Request.start, Request.count))>>
    <3>1. Answer(Result(Sanitised(made), made, <<FALSE>>, FALSE))
      BY <1>2, <2>1, <2>3 DEF Read, FileRead, bytes
    <3>2. Request.start \in Nat \ {0} /\ Request.count \in Nat \cup {NoCount}
      BY <2>3 DEF IsScenario, IsRequest, Request
    <3>3. bytes \in Text
      BY <2>2, SeqOfMore DEF Text, Character
    <3>4. FlattenSeq(Slice(Lines(Decode(bytes)), Request.start, Request.count)) \in Text
      BY <3>2, <3>3, DecodeIsText, SliceIsText
    <3>5. \A i \in DOMAIN made : made[i] \in Text
      BY <3>4
    <3> HIDE DEF made
    <3>6. answer'.shown = Sanitised(made)
      BY <3>1 DEF Answer, Result
    <3> QED
      BY <2>3, <3>5, <3>6, SanitisedIs DEF Discreet
  <2>4. CASE Request.tool # "read_file"
    <3> DEFINE text == Redact(Patterns, Decode(Cut(bytes, Limit)))
               made == <<Truncate(text, Limit)>>
    <3>1. Answer(Result(Sanitised(made), made, <<size > Limit \/ Truncated(text, Limit)>>, FALSE))
      BY <1>2, <2>1, <2>4 DEF Read, ArtifactRead, bytes
    <3>2. Truncate(text, Limit) \in Text /\ (Patterns # <<>> => ~ ShowsSecret(Truncate(text, Limit)))
      BY <2>2, MadeIs
    <3> HIDE DEF text
    <3>3. (\A i \in DOMAIN made : made[i] \in Text) /\ (Patterns # <<>> => Hidden(made))
      BY <3>2 DEF Hidden
    <3> HIDE DEF made
    <3>4. answer'.shown = Sanitised(made) /\ answer'.made = made
      BY <3>1 DEF Answer, Result
    <3> QED
      BY <3>3, <3>4, SanitisedIs DEF Discreet
  <2> QED
    BY <2>3, <2>4
<1> QED
  BY <1>1, <1>2

(* Only Run and Read give a result. *)
LEMMA NoResultYet ==
    ASSUME CallInv,
           \/ Start \/ CallRunCommand \/ CallRunTests \/ CallReadOrCollect \/ ResolvePath
           \/ Resolved \/ CheckKind \/ ReportFails \/ StatSize \/ Others
    PROVE  answer'.kind # "result"
<1>1. answer.kind = "none"
  BY DEF CallInv, Start, CallRunCommand, CallRunTests, CallReadOrCollect, ResolvePath,
         Resolved, CheckKind, ReportFails, StatSize, Others
<1>2. answer' = answer \/ \E e : Raise(e)
  BY Zenon DEF Start, CallRunCommand, CallRunTests, CallReadOrCollect, BeginPath, ResolvePath, Resolved,
               CheckKind, ReportFails, StatSize, Others, callVars
<1> QED
  BY <1>1, <1>2 DEF Raise

LEMMA SecretsStay ==
    ASSUME ConfigInv, CallInv, TreeTyped(fs), WalkOK, NoSecretIsShown, [Next]_vars
    PROVE  NoSecretIsShown'
<1>1. CASE UNCHANGED vars
  <2>1. input' = input /\ config' = config /\ answer' = answer
    BY <1>1 DEF vars, callVars
  <2> QED
    BY <2>1 DEF NoSecretIsShown, Patterns, Request
<1>2. CASE answer'.kind # "result"
  BY <1>2 DEF NoSecretIsShown
<1>3. CASE Run \/ Read
  <2>1. Limit \in Nat /\ IsScenario(input)
    BY <1>3, LimitType, ScenariosAssumption DEF ConfigInv, Run, Read
  <2>2. Read => WalkTyped(walk)
    BY DEF CallInv, WalkOK, Read
  <2>3. Discreet(answer')
    BY <1>3, <2>1, <2>2, RunIsDiscreet, ReadIsDiscreet
  <2>4. input' = input /\ config' = config
    BY <1>3 DEF Run, Read
  <2> QED
    BY <2>3, <2>4 DEF Discreet, Hidden, NoSecretIsShown, Patterns, Request
<1>4. CASE \/ Start \/ CallRunCommand \/ CallRunTests \/ CallReadOrCollect \/ ResolvePath
           \/ Resolved \/ CheckKind \/ ReportFails \/ StatSize \/ Others
  BY <1>2, <1>4, NoResultYet
<1>5. Finished => UNCHANGED vars
  BY DEF Finished
<1> QED
  BY <1>1, <1>3, <1>4, <1>5 DEF Next

(***************************************************************************)
(* No text that is shown has a secret with its value in it, for every      *)
(* output, file, place of the cuts and sequence of roots and labels.       *)
(***************************************************************************)
THEOREM SecretsHidden == Spec => []NoSecretIsShown
<1>1. Init => NoSecretIsShown
  BY DEF Init, NoSecretIsShown, NoAnswer
<1>2. ConfigInv /\ CallInv /\ TreeTyped(fs) /\ WalkOK /\ NoSecretIsShown /\ [Next]_vars => NoSecretIsShown'
  BY SecretsStay
<1> QED
  BY <1>1, <1>2, ConfigurationKept, TreeKept, WalkKept, CallKept, PTL DEF Spec

-----------------------------------------------------------------------------
(* Beginnings.                                                             *)

(* From n on there is only what a cut may leave. *)
Remains(s, n) ==
    \/ n = Len(s)
    \/ n + 1 = Len(s) /\ s[n + 1] = "u"
    \/ n + 1 \in 1..Len(s) /\ s[n + 1] = "k" /\ \A i \in (n + 2)..Len(s) : s[i] \in Blanks

(* The first n of s are those of t, and the others are left by a cut. *)
Begins(s, t, n) ==
    /\ n \in 0..Len(s) /\ n <= Len(t)
    /\ \A i \in 1..n : s[i] = t[i]
    /\ Remains(s, n)

LEMMA EmptyBegins ==
    ASSUME NEW t \in Text
    PROVE  Begins(<<>>, t, 0)
<1>1. Len(<<>>) = 0 /\ Len(t) \in Nat /\ 0 \in 0..0
  BY EmptySeq, TextIs
<1>2. \A i \in 1..0 : FALSE
  OBVIOUS
<1> QED
  BY <1>1, <1>2 DEF Begins, Remains

LEMMA JoinBegins ==
    ASSUME NEW a \in Text, NEW s \in Text, NEW t \in Text, NEW n, Begins(s, t, n)
    PROVE  Begins(a \o s, a \o t, Len(a) + n)
<1> DEFINE u == a \o s
           v == a \o t
           K == Len(a)
<1>1. K \in Nat /\ Len(s) \in Nat /\ Len(t) \in Nat /\ n \in 0..Len(s) /\ n <= Len(t)
  BY TextIs DEF Begins
<1>2. /\ Len(u) = K + Len(s) /\ (\A i \in 1..K : u[i] = a[i]) /\ (\A i \in 1..Len(s) : u[K + i] = s[i])
      /\ Len(v) = K + Len(t) /\ (\A i \in 1..K : v[i] = a[i]) /\ (\A i \in 1..Len(t) : v[K + i] = t[i])
  BY JoinIs
<1> HIDE DEF u, v, K
<1>3. ASSUME NEW i \in 1..(K + n) PROVE u[i] = v[i]
  <2>1. CASE i \in 1..K
    BY <1>2, <2>1
  <2>2. CASE i \notin 1..K
    <3>1. i - K \in 1..n /\ i - K \in 1..Len(s) /\ i - K \in 1..Len(t) /\ K + (i - K) = i
      BY <1>1, <2>2
    <3>2. u[K + (i - K)] = s[i - K] /\ v[K + (i - K)] = t[i - K] /\ s[i - K] = t[i - K]
      BY <1>2, <3>1 DEF Begins
    <3> QED
      BY <3>1, <3>2
  <2> QED
    BY <2>1, <2>2
<1>4. Remains(u, K + n)
  <2>1. CASE n = Len(s)
    BY <1>2, <2>1 DEF Remains
  <2>2. CASE n + 1 = Len(s) /\ s[n + 1] = "u"
    <3>1. n + 1 \in 1..Len(s) /\ K + (n + 1) = (K + n) + 1 /\ (K + n) + 1 = Len(u)
      <4>1. n + 1 = Len(s) /\ n \in Nat /\ Len(u) = K + Len(s)
        BY <1>1, <1>2, <2>2
      <4> QED
        BY <1>1, <4>1
    <3>2. u[K + (n + 1)] = s[n + 1]
      BY <1>2, <3>1
    <3> QED
      BY <2>2, <3>1, <3>2 DEF Remains
  <2>3. CASE n + 1 \in 1..Len(s) /\ s[n + 1] = "k" /\ \A i \in (n + 2)..Len(s) : s[i] \in Blanks
    <3>1. K + (n + 1) = (K + n) + 1 /\ (K + n) + 1 \in 1..Len(u)
      BY <1>1, <1>2, <2>3
    <3>2. u[K + (n + 1)] = s[n + 1]
      BY <1>2, <2>3
    <3>3. ASSUME NEW i \in ((K + n) + 2)..Len(u) PROVE u[i] \in Blanks
      <4>1. i - K \in (n + 2)..Len(s) /\ i - K \in 1..Len(s) /\ K + (i - K) = i
        BY <1>1, <1>2
      <4>2. u[K + (i - K)] = s[i - K] /\ s[i - K] \in Blanks
        BY <1>2, <2>3, <4>1
      <4> QED
        BY <4>1, <4>2
    <3> QED
      BY <2>3, <3>1, <3>2, <3>3 DEF Remains
  <2> QED
    BY <2>1, <2>2, <2>3 DEF Begins, Remains
<1>5. K + n \in 0..Len(u) /\ K + n <= Len(v)
  BY <1>1, <1>2
<1> QED
  BY <1>3, <1>4, <1>5 DEF Begins, u, v, K

LEMMA CutBegins ==
    ASSUME NEW s \in Text, NEW t \in Text, NEW n, Begins(s, t, n), NEW k \in 0..Len(s)
    PROVE  \E m : Begins(Cut(s, k), t, m)
<1> DEFINE c == Cut(s, k)
<1>1. Len(s) \in Nat /\ Len(t) \in Nat /\ n \in 0..Len(s) /\ n <= Len(t) /\ k \in Nat
  BY TextIs DEF Begins
<1>2. Len(c) = k /\ \A i \in 1..k : c[i] = s[i]
  <2>1. Len(c) = IF k < Len(s) THEN k ELSE Len(s)
    BY <1>1, CutIs
  <2>2. Len(c) = k
    BY <1>1, <2>1
  <2> QED
    BY <1>1, <2>2, CutIs
<1> HIDE DEF c
<1>3. CASE k <= n
  <2>1. k \in 0..Len(c) /\ k <= Len(t) /\ \A i \in 1..k : i \in 1..n
    BY <1>1, <1>2, <1>3
  <2>2. Begins(c, t, k)
    BY <1>2, <2>1 DEF Begins, Remains
  <2> QED
    BY <2>2 DEF c
<1>4. CASE n < k
  <2>1. n \in 0..Len(c) /\ n + 1 \in 1..k /\ n # Len(s) /\ \A i \in 1..n : i \in 1..k
    BY <1>1, <1>2, <1>4
  <2>2. c[n + 1] = s[n + 1]
    BY <1>2, <2>1
  <2>3. Remains(c, n)
    <3>1. CASE n + 1 = Len(s) /\ s[n + 1] = "u"
      <4>1. k = Len(s)
        BY <1>1, <1>4, <3>1
      <4> QED
        BY <1>2, <2>2, <3>1, <4>1 DEF Remains
    <3>2. CASE s[n + 1] = "k" /\ \A i \in (n + 2)..Len(s) : s[i] \in Blanks
      <4>1. \A i \in (n + 2)..k : i \in 1..k /\ i \in (n + 2)..Len(s)
        BY <1>1
      <4> QED
        BY <1>2, <2>1, <2>2, <3>2, <4>1 DEF Remains
    <3> QED
      BY <2>1, <3>1, <3>2 DEF Begins, Remains
  <2>4. Begins(c, t, n)
    BY <1>1, <1>2, <2>1, <2>3 DEF Begins
  <2> QED
    BY <2>4 DEF c
<1> QED
  BY <1>1, <1>3, <1>4

(* In the words of the property. *)
LEMMA BeginsIs ==
    ASSUME NEW s \in Text, NEW t \in Text, NEW n, Begins(s, t, n)
    PROVE  n \in 0..Len(s) /\ IsPrefix(Cut(s, n), t) /\ IsRemnant(From(s, n + 1))
<1>1. Len(s) \in Nat /\ Len(t) \in Nat /\ n \in 0..Len(s) /\ n <= Len(t) /\ n \in Nat
  BY TextIs DEF Begins
<1>2. IsPrefix(Cut(s, n), t)
  <2> DEFINE c == Cut(s, n)
  <2>1. c \in Text /\ Len(c) = n /\ \A i \in 1..n : c[i] = s[i]
    <3>1. Len(c) = IF n < Len(s) THEN n ELSE Len(s)
      BY <1>1, CutIs
    <3>2. Len(c) = n
      BY <1>1, <3>1
    <3> QED
      BY <1>1, <3>2, CutIs
  <2> HIDE DEF c
  <2>2. n \in 0..Len(c) /\ n \in 0..Len(t)
    BY <1>1, <2>1
  <2>3. SubSeq(c, 1, n) = c
    BY <2>1, <2>2, FirstOf DEF Text
  <2>4. SubSeq(t, 1, n) \in Text /\ Len(SubSeq(t, 1, n)) = n /\ \A i \in 1..n : SubSeq(t, 1, n)[i] = t[i]
    BY <2>2, FirstOf DEF Text
  <2>5. c = SubSeq(t, 1, n)
    BY <2>1, <2>4, TextsEqual DEF Begins
  <2> QED
    BY <1>1, <2>1, <2>3, <2>5 DEF IsPrefix, c
<1>3. IsRemnant(From(s, n + 1))
  <2> DEFINE r == From(s, n + 1)
  <2>1. /\ r \in Text /\ Len(r) = Len(s) - n
        /\ \A i \in 1..(Len(s) - n) : r[i] = s[n + i]
    <3>1. \A i \in (n + 1)..Len(s) : s[i] \in Character
      <4>1. \A i \in (n + 1)..Len(s) : i \in 1..Len(s)
        BY <1>1
      <4> QED
        BY <4>1, TextIs
    <3>2. /\ SubSeq(s, n + 1, Len(s)) \in Text
          /\ Len(SubSeq(s, n + 1, Len(s))) = IF n + 1 <= Len(s) THEN Len(s) - (n + 1) + 1 ELSE 0
          /\ \A i \in 1..Len(s) - (n + 1) + 1 : SubSeq(s, n + 1, Len(s))[i] = s[(n + 1) + i - 1]
      BY <1>1, <3>1, SubSeqProperties DEF Text
    <3>3. /\ (IF n + 1 <= Len(s) THEN Len(s) - (n + 1) + 1 ELSE 0) = Len(s) - n
          /\ Len(s) - (n + 1) + 1 = Len(s) - n
          /\ \A i \in 1..(Len(s) - n) : (n + 1) + i - 1 = n + i
      BY <1>1
    <3> QED
      BY <3>2, <3>3 DEF From
  <2> HIDE DEF r
  <2>2. CASE n = Len(s)
    <3>1. Len(r) = 0
      BY <1>1, <2>1, <2>2
    <3>2. r = <<>>
      BY <2>1, <3>1, EmptySeq DEF Text
    <3> QED
      BY <3>2 DEF IsRemnant, r
  <2>3. CASE n + 1 = Len(s) /\ s[n + 1] = "u"
    <3>1. Len(r) = 1 /\ r[1] = "u"
      BY <1>1, <2>1, <2>3
    <3>2. "u" \in Character
      BY DEF Character
    <3>3. r = <<"u">>
      <4>1. <<"u">> \in Text /\ Len(<<"u">>) = 1 /\ <<"u">>[1] = "u"
        BY <3>2, OneCharacter
      <4>2. \A i \in 1..1 : i = 1
        OBVIOUS
      <4> QED
        BY <2>1, <3>1, <4>1, <4>2, TextsEqual
    <3> QED
      BY <3>3 DEF IsRemnant, r
  <2>4. CASE n + 1 \in 1..Len(s) /\ s[n + 1] = "k" /\ \A i \in (n + 2)..Len(s) : s[i] \in Blanks
    <3>1. Len(r) \in Nat \ {0} /\ 1 \in 1..(Len(s) - n)
      BY <1>1, <2>1, <2>4
    <3>2. r # <<>>
      BY <3>1, EmptySeq
    <3>3. /\ Head(r) = r[1] /\ Tail(r) \in Text /\ DOMAIN Tail(r) = 1..(Len(r) - 1)
          /\ \A i \in 1..(Len(r) - 1) : Tail(r)[i] = r[i + 1]
      BY <2>1, <3>2, PopProperties DEF Text
    <3>4. Head(r) = "k"
      BY <2>1, <2>4, <3>1, <3>3
    <3>5. ASSUME NEW i \in 1..(Len(r) - 1) PROVE Tail(r)[i] \in Blanks
      <4>1. i + 1 \in 1..(Len(s) - n) /\ n + (i + 1) \in (n + 2)..Len(s)
        BY <1>1, <2>1
      <4> QED
        BY <2>1, <2>4, <3>3, <4>1
    <3>6. ToSet(Tail(r)) \subseteq Blanks
      BY <3>3, <3>5 DEF ToSet
    <3> QED
      BY <3>4, <3>6 DEF IsRemnant, r
  <2> QED
    BY <2>2, <2>3, <2>4 DEF Begins, Remains
<1> QED
  BY <1>1, <1>2, <1>3

-----------------------------------------------------------------------------
(* Bytes and text from which the rest is cut off.                          *)

(* s is a beginning of t, but for half a character at its end. *)
Like(s, t) ==
    /\ Len(s) <= Len(t)
    /\ \A i \in 1..Len(s) : s[i] = t[i] \/ (i = Len(s) /\ s[i] = "u" /\ t[i] = "w")

LEMMA JoinLike ==
    ASSUME NEW a \in Text, NEW s \in Text, NEW t \in Text, Like(s, t)
    PROVE  Like(a \o s, a \o t)
<1> DEFINE u == a \o s
           v == a \o t
           K == Len(a)
<1>1. K \in Nat /\ Len(s) \in Nat /\ Len(t) \in Nat /\ Len(s) <= Len(t)
  BY TextIs DEF Like
<1>2. /\ Len(u) = K + Len(s) /\ (\A i \in 1..K : u[i] = a[i]) /\ (\A i \in 1..Len(s) : u[K + i] = s[i])
      /\ Len(v) = K + Len(t) /\ (\A i \in 1..K : v[i] = a[i]) /\ (\A i \in 1..Len(t) : v[K + i] = t[i])
  BY JoinIs
<1> HIDE DEF u, v, K
<1>3. ASSUME NEW i \in 1..Len(u) PROVE u[i] = v[i] \/ (i = Len(u) /\ u[i] = "u" /\ v[i] = "w")
  <2>1. CASE i \in 1..K
    BY <1>2, <2>1
  <2>2. CASE i \notin 1..K
    <3>1. i - K \in 1..Len(s) /\ i - K \in 1..Len(t) /\ K + (i - K) = i /\ (i - K = Len(s) <=> i = Len(u))
      BY <1>1, <1>2, <2>2
    <3>2. u[i] = s[i - K] /\ v[i] = t[i - K]
      BY <1>2, <3>1
    <3> QED
      BY <3>1, <3>2 DEF Like
  <2> QED
    BY <2>1, <2>2
<1>4. Len(u) <= Len(v)
  BY <1>1, <1>2
<1> QED
  BY <1>3, <1>4 DEF Like, u, v

Pair(bytes, i) == i \in 1..(Len(bytes) - 1) /\ bytes[i] = "w1" /\ bytes[i + 1] = "w2"
Alone(byte) == IF byte \in Halves THEN "u" ELSE byte

(* f is the text that the bytes from each place on are decoded to. *)
Decoding(f, bytes) ==
    /\ f[Len(bytes) + 1] = <<>>
    /\ \A i \in 1..Len(bytes) :
          f[i] = IF Pair(bytes, i) THEN <<"w">> \o f[i + 2] ELSE <<Alone(bytes[i])>> \o f[i + 1]
    /\ \A i \in 1..(Len(bytes) + 1) : f[i] \in Text

LEMMA DecodingIs ==
    ASSUME NEW bytes \in Text
    PROVE  \E f : Decoding(f, bytes) /\ Decode(bytes) = f[1]
<1> DEFINE N == Len(bytes)
           whole == {i \in 1..(N - 1) : bytes[i] = "w1" /\ bytes[i + 1] = "w2"}
           head == [i \in DOMAIN bytes |-> IF i \in whole THEN <<"w">>
                                           ELSE IF bytes[i] \in Halves THEN <<"u">> ELSE <<bytes[i]>>]
           next == [i \in DOMAIN bytes |-> IF i \in whole THEN i + 2 ELSE i + 1]
<1>1. N \in Nat /\ DOMAIN bytes = 1..N /\ \A i \in 1..N : bytes[i] \in Character
  BY TextIs
<1>2. Decode(bytes) = Rewritten(head, next)
  BY DEF Decode
<1>3. \A i : i \in whole <=> Pair(bytes, i)
  BY DEF Pair
<1> HIDE DEF N, whole
<1>4. ASSUME NEW i \in 1..N
      PROVE  /\ head[i] = IF Pair(bytes, i) THEN <<"w">> ELSE <<Alone(bytes[i])>>
             /\ next[i] = IF Pair(bytes, i) THEN i + 2 ELSE i + 1
             /\ next[i] \in (i + 1)..(N + 1) /\ next[i] \in Int
             /\ head[i] \in Text
  <2>1. /\ head[i] = IF i \in whole THEN <<"w">> ELSE IF bytes[i] \in Halves THEN <<"u">> ELSE <<bytes[i]>>
        /\ next[i] = IF i \in whole THEN i + 2 ELSE i + 1
    BY <1>1
  <2> HIDE DEF head, next
  <2>2. head[i] = IF Pair(bytes, i) THEN <<"w">> ELSE <<Alone(bytes[i])>>
    BY <1>3, <2>1 DEF Alone
  <2>3. next[i] = IF Pair(bytes, i) THEN i + 2 ELSE i + 1
    BY <1>3, <2>1
  <2>4. Pair(bytes, i) => i \in 1..(N - 1)
    BY DEF Pair, N
  <2>5. "w" \in Character /\ Alone(bytes[i]) \in Character
    BY <1>1 DEF Alone, Character
  <2>6. head[i] \in Text
    BY <2>2, <2>5, OneCharacter
  <2>7. next[i] \in (i + 1)..(N + 1) /\ next[i] \in Int
    BY <1>1, <2>3, <2>4
  <2> QED
    BY <2>2, <2>3, <2>6, <2>7
<1>5. DOMAIN head = 1..N /\ DOMAIN next = 1..N /\ head = [i \in 1..N |-> head[i]] /\ next = [i \in 1..N |-> next[i]]
  BY <1>1
<1> HIDE DEF head, next
<1>6. head \in [1..N -> Text] /\ next \in [1..N -> Int]
  BY <1>4, <1>5
<1>7. head \in Seq(Text) /\ Len(head) = N
  BY <1>1, <1>6, FunctionIsSeq
<1>8. Rewrite(head, next)
  BY <1>4, <1>6, <1>7 DEF Rewrite
<1>9. PICK f : Rewriting(f, head, next) /\ Rewritten(head, next) = f[1]
  BY <1>8, RewrittenIs
<1>10. Decoding(f, bytes)
  <2>1. f[N + 1] = <<>> /\ \A i \in 1..(N + 1) : f[i] \in Text
    BY <1>7, <1>9 DEF Rewriting
  <2>2. ASSUME NEW i \in 1..N
        PROVE  f[i] = IF Pair(bytes, i) THEN <<"w">> \o f[i + 2] ELSE <<Alone(bytes[i])>> \o f[i + 1]
    <3>1. f[i] = head[i] \o f[next[i]]
      BY <1>7, <1>9 DEF Rewriting
    <3> QED
      BY <1>4, <3>1
  <2> QED
    BY <2>1, <2>2 DEF Decoding, N
<1> QED
  BY <1>2, <1>9, <1>10

(* What is cut off can turn the last character into U+FFFD, and nothing else. *)
LEMMA CutDecodes ==
    ASSUME NEW bytes \in Text, NEW m \in Nat
    PROVE  Like(Decode(Cut(bytes, m)), Decode(bytes))
<1> DEFINE cut == Cut(bytes, m)
           K == Len(cut)
<1>1. /\ cut \in Text /\ K \in Nat /\ Len(bytes) \in Nat /\ K <= Len(bytes)
      /\ \A i \in 1..K : cut[i] = bytes[i] /\ bytes[i] \in Character
  <2>1. Len(bytes) \in Nat /\ \A i \in 1..Len(bytes) : bytes[i] \in Character
    BY TextIs
  <2>2. cut \in Text /\ K \in Nat /\ K <= Len(bytes) /\ \A i \in 1..K : cut[i] = bytes[i]
    BY CutIs
  <2> QED
    BY <2>1, <2>2
<1> HIDE DEF cut
<1>2. PICK f : Decoding(f, cut) /\ Decode(cut) = f[1]
  BY <1>1, DecodingIs
<1>3. PICK g : Decoding(g, bytes) /\ Decode(bytes) = g[1]
  BY DecodingIs
<1> HIDE DEF K
<1> DEFINE S == {i \in 1..(K + 1) : Like(f[i], g[i])}
<1>4. /\ f[K + 1] = <<>> /\ \A i \in 1..(K + 1) : f[i] \in Text /\ g[i] \in Text
  BY <1>1, <1>2, <1>3 DEF Decoding, K
<1>5. ASSUME NEW i \in 1..(K + 1), \A j \in (i + 1)..(K + 1) : j \in S PROVE i \in S
  <2>1. CASE i = K + 1
    <3>1. Len(<<>>) = 0 /\ Len(g[i]) \in Nat
      BY <1>4, EmptySeq, TextIs
    <3>2. Like(<<>>, g[i])
      BY <3>1 DEF Like
    <3> QED
      BY <1>4, <2>1, <3>2
  <2>2. CASE i # K + 1
    <3>1. i \in 1..K /\ i \in 1..Len(bytes) /\ i + 1 \in (i + 1)..(K + 1) /\ i + 1 \in 1..(K + 1)
      BY <1>1, <2>2
    <3>2. /\ f[i] = IF Pair(cut, i) THEN <<"w">> \o f[i + 2] ELSE <<Alone(cut[i])>> \o f[i + 1]
          /\ g[i] = IF Pair(bytes, i) THEN <<"w">> \o g[i + 2] ELSE <<Alone(bytes[i])>> \o g[i + 1]
      BY <1>2, <1>3, <3>1 DEF Decoding, K
    <3>3. <<"w">> \in Text /\ <<Alone(bytes[i])>> \in Text
      <4>1. "w" \in Character /\ Alone(bytes[i]) \in Character
        BY <1>1, <3>1 DEF Alone, Character
      <4> QED
        BY <4>1, OneCharacter
    <3>4. CASE Pair(cut, i)
      <4>1. i \in 1..(K - 1) /\ cut[i] = "w1" /\ cut[i + 1] = "w2"
        BY <3>4 DEF Pair, K
      <4>2. i + 1 \in 1..K /\ i \in 1..(Len(bytes) - 1) /\ i + 2 \in (i + 1)..(K + 1) /\ i + 2 \in 1..(K + 1)
        BY <1>1, <4>1
      <4>3. Pair(bytes, i)
        BY <1>1, <3>1, <4>1, <4>2 DEF Pair
      <4>4. Like(f[i + 2], g[i + 2])
        BY <1>5, <4>2
      <4>5. Like(f[i], g[i])
        BY <1>4, <3>2, <3>3, <3>4, <4>2, <4>3, <4>4, JoinLike
      <4> QED
        BY <4>5
    <3>5. CASE ~ Pair(cut, i) /\ ~ Pair(bytes, i)
      <4>1. Like(f[i + 1], g[i + 1])
        BY <1>5, <3>1
      <4>2. f[i] = <<Alone(bytes[i])>> \o f[i + 1] /\ g[i] = <<Alone(bytes[i])>> \o g[i + 1]
        BY <1>1, <3>1, <3>2, <3>5
      <4>3. Like(f[i], g[i])
        BY <1>4, <3>1, <3>3, <4>1, <4>2, JoinLike
      <4> QED
        BY <4>3
    <3>6. CASE ~ Pair(cut, i) /\ Pair(bytes, i)
      <4>1. i \in 1..(Len(bytes) - 1) /\ bytes[i] = "w1" /\ bytes[i + 1] = "w2"
        BY <3>6 DEF Pair
      <4>2. i = K
        <5>1. i \notin 1..(K - 1)
          <6>1. i \in 1..(K - 1) => i + 1 \in 1..K
            BY <1>1
          <6> QED
            BY <1>1, <3>1, <3>6, <4>1, <6>1 DEF Pair, K
        <5> QED
          BY <1>1, <3>1, <5>1
      <4>3. f[i] = <<"u">>
        <5>1. f[i] = <<"u">> \o <<>>
          BY <1>1, <1>4, <3>1, <3>2, <3>6, <4>1, <4>2 DEF Alone, Halves
        <5>2. "u" \in Character
          BY DEF Character
        <5>3. <<"u">> \in Text
          BY <5>2, OneCharacter
        <5> QED
          BY <5>1, <5>3, ConcatEmptySeq DEF Text
      <4>4. g[i] = <<"w">> \o g[i + 2] /\ g[i + 2] \in Text
        <5>1. i + 2 \in 1..(Len(bytes) + 1)
          BY <1>1, <4>1
        <5> QED
          BY <1>3, <3>2, <3>6, <5>1 DEF Decoding
      <4>5. Len(g[i + 2]) \in Nat /\ Len(g[i]) = 1 + Len(g[i + 2]) /\ g[i][1] = "w"
        <5>1. "w" \in Character
          BY DEF Character
        <5>2. \A t \in Text : /\ Len(t) \in Nat /\ Len(<<"w">> \o t) = Len(t) + 1
                            /\ (<<"w">> \o t)[1] = "w"
          BY <5>1, PushProperties DEF Text
        <5> QED
          BY <4>4, <5>2
      <4>6. Like(<<"u">>, g[i])
        <5>1. Len(<<"u">>) = 1 /\ <<"u">>[1] = "u" /\ \A j \in 1..1 : j = 1
          OBVIOUS
        <5> QED
          BY <4>5, <5>1 DEF Like
      <4> QED
        BY <4>3, <4>6
    <3> QED
      BY <3>4, <3>5, <3>6
  <2> QED
    BY <2>1, <2>2
<1> HIDE DEF S
<1>6. \A i \in 1..(K + 1) : i \in S
  <2>1. 1 \in Int /\ K + 1 \in Int
    BY <1>1
  <2>2. \A i \in 1..(K + 1) : (\A j \in (i + 1)..(K + 1) : j \in S) => i \in S
    BY <1>5
  <2> QED
    BY <2>1, <2>2, FromTheEnd, Zenon
<1>7. 1 \in 1..(K + 1)
  BY <1>1
<1> QED
  BY <1>2, <1>3, <1>6, <1>7 DEF S, cut

(* f is the text from each place on, redacted. *)
Redaction(f, text) ==
    /\ f[Len(text) + 1] = <<>>
    /\ \A i \in 1..Len(text) :
          f[i] = IF IsSecret(text, i) THEN Marker \o f[ValueEnd(text, i) + 1] ELSE <<text[i]>> \o f[i + 1]
    /\ \A i \in 1..(Len(text) + 1) : f[i] \in Text

LEMMA RedactionIs ==
    ASSUME NEW patterns, patterns # <<>>, NEW text \in Text
    PROVE  \E f : Redaction(f, text) /\ Redact(patterns, text) = f[1]
<1> DEFINE N == Len(text)
           secret == {i \in DOMAIN text : IsSecret(text, i)}
           head == [i \in DOMAIN text |-> IF i \in secret THEN Marker ELSE <<text[i]>>]
           next == [i \in DOMAIN text |-> IF i \in secret THEN ValueEnd(text, i) + 1 ELSE i + 1]
<1>1. N \in Nat /\ DOMAIN text = 1..N /\ \A i \in 1..N : text[i] \in Character
  BY TextIs
<1>2. Redact(patterns, text) = Rewritten(head, next)
  BY DEF Redact
<1>3. \A i \in 1..N : i \in secret <=> IsSecret(text, i)
  BY <1>1
<1> HIDE DEF N, secret
<1>4. ASSUME NEW i \in 1..N
      PROVE  /\ head[i] = IF IsSecret(text, i) THEN Marker ELSE <<text[i]>>
             /\ next[i] = IF IsSecret(text, i) THEN ValueEnd(text, i) + 1 ELSE i + 1
             /\ next[i] \in (i + 1)..(N + 1) /\ next[i] \in Int
             /\ head[i] \in Text
  <2>1. /\ head[i] = IF i \in secret THEN Marker ELSE <<text[i]>>
        /\ next[i] = IF i \in secret THEN ValueEnd(text, i) + 1 ELSE i + 1
    BY <1>1
  <2> HIDE DEF head, next
  <2>2. head[i] = IF IsSecret(text, i) THEN Marker ELSE <<text[i]>>
    BY <1>3, <2>1
  <2>3. next[i] = IF IsSecret(text, i) THEN ValueEnd(text, i) + 1 ELSE i + 1
    BY <1>3, <2>1
  <2>4. ValueEnd(text, i) \in i..N /\ (IsSecret(text, i) => ValueEnd(text, i) > i)
    BY SecretIs DEF IsSecret, N
  <2>5. head[i] \in Text
    BY <1>1, <2>2, MarkerIs, OneCharacter
  <2>6. next[i] \in (i + 1)..(N + 1) /\ next[i] \in Int
    BY <1>1, <2>3, <2>4
  <2> QED
    BY <2>2, <2>3, <2>5, <2>6
<1>5. DOMAIN head = 1..N /\ DOMAIN next = 1..N /\ head = [i \in 1..N |-> head[i]] /\ next = [i \in 1..N |-> next[i]]
  BY <1>1
<1> HIDE DEF head, next
<1>6. head \in [1..N -> Text] /\ next \in [1..N -> Int]
  BY <1>4, <1>5
<1>7. head \in Seq(Text) /\ Len(head) = N
  BY <1>1, <1>6, FunctionIsSeq
<1>8. Rewrite(head, next)
  BY <1>4, <1>6, <1>7 DEF Rewrite
<1>9. PICK f : Rewriting(f, head, next) /\ Rewritten(head, next) = f[1]
  BY <1>8, RewrittenIs
<1>10. Redaction(f, text)
  <2>1. f[N + 1] = <<>> /\ \A i \in 1..(N + 1) : f[i] \in Text
    BY <1>7, <1>9 DEF Rewriting
  <2>2. ASSUME NEW i \in 1..N
        PROVE  f[i] = IF IsSecret(text, i) THEN Marker \o f[ValueEnd(text, i) + 1]
                      ELSE <<text[i]>> \o f[i + 1]
    <3>1. f[i] = head[i] \o f[next[i]]
      BY <1>7, <1>9 DEF Rewriting
    <3> QED
      BY <1>4, <3>1
  <2> QED
    BY <2>1, <2>2 DEF Redaction, N
<1> QED
  BY <1>2, <1>9, <1>10

(* Where only blanks come, nothing is redacted. *)
LEMMA BlanksStay ==
    ASSUME NEW text \in Text, NEW f, Redaction(f, text), NEW i \in 1..(Len(text) + 1),
           \A j \in i..Len(text) : text[j] \in Blanks
    PROVE  Blank(f[i])
<1> DEFINE N == Len(text)
           S == {j \in i..(N + 1) : Blank(f[j])}
<1>1. N \in Nat /\ \A j \in 1..N : text[j] \in Character
  BY TextIs
<1>2. ASSUME NEW j \in i..(N + 1), \A k \in (j + 1)..(N + 1) : k \in S PROVE j \in S
  <2>1. CASE j = N + 1
    <3>1. f[j] = <<>>
      BY <2>1 DEF Redaction
    <3> QED
      BY <3>1 DEF Blank
  <2>2. CASE j # N + 1
    <3>1. j \in 1..N /\ j \in i..N /\ j + 1 \in (j + 1)..(N + 1) /\ j + 1 \in 1..(N + 1)
      BY <1>1, <2>2
    <3>2. text[j] \in Blanks /\ text[j] # "k"
      BY <3>1 DEF Blanks
    <3>3. f[j] = <<text[j]>> \o f[j + 1] /\ f[j + 1] \in Text
      BY <3>1, <3>2 DEF Redaction, IsSecret
    <3>4. <<text[j]>> \in Text /\ Blank(<<text[j]>>)
      BY <1>1, <3>1, <3>2, OneCharacter
    <3>5. Blank(f[j])
      BY <1>2, <3>1, <3>3, <3>4, JoinIsBlank
    <3> QED
      BY <3>5
  <2> QED
    BY <2>1, <2>2
<1> HIDE DEF S
<1>3. \A j \in i..(N + 1) : j \in S
  <2>1. i \in Int /\ N + 1 \in Int
    BY <1>1
  <2>2. \A j \in i..(N + 1) : (\A k \in (j + 1)..(N + 1) : k \in S) => j \in S
    BY <1>2
  <2> QED
    BY <2>1, <2>2, FromTheEnd, Zenon
<1>4. i \in i..(N + 1)
  BY <1>1
<1> QED
  BY <1>3, <1>4 DEF S

(* A secret of a text is one of what it is cut from; its value may go on. *)
LEMMA LikeSecrets ==
    ASSUME NEW s \in Text, NEW t \in Text, Like(s, t), NEW i \in 1..Len(s), IsSecret(s, i)
    PROVE  /\ IsSecret(t, i)
           /\ ValueEnd(s, i) \in (i + 1)..Len(s)
           /\ ValueEnd(s, i) = Len(s) \/ ValueEnd(t, i) = ValueEnd(s, i)
<1>1. Len(s) \in Nat /\ Len(t) \in Nat /\ Len(s) <= Len(t) /\ i \in 1..Len(t)
      /\ \A k \in 1..Len(s) : k \in 1..Len(t)
  BY TextIs DEF Like
<1>2. \A k \in 1..Len(s) : s[k] \in Blanks <=> t[k] \in Blanks
  BY DEF Like, Blanks
<1>3. s[i] = "k" /\ \E k \in (i + 1)..Len(s) : s[k] \notin Blanks
  BY SecretIs DEF IsSecret
<1>4. t[i] = "k"
  BY <1>3 DEF Like
<1>5. PICK j, e : IsValue(s, i, j, e)
  BY <1>3, HasValue
<1>6. ValueEnd(s, i) = e /\ j \in (i + 1)..Len(s) /\ e \in j..Len(s)
  BY <1>5, ValueEndIs DEF IsValue
<1>7. \A k \in (i + 1)..Len(s) : k \in 1..Len(s) /\ k \in (i + 1)..Len(t)
  BY <1>1
<1>8. IsSecret(t, i)
  BY <1>1, <1>2, <1>3, <1>4, <1>7, SecretIs DEF IsSecret
<1>9. ASSUME e # Len(s) PROVE IsValue(t, i, j, e)
  <2>1. e + 1 \in 1..Len(s) /\ j \in (i + 1)..Len(t) /\ e \in j..Len(t)
        /\ (\A b \in (i + 1)..(j - 1) : b \in 1..Len(s)) /\ \A b \in j..e : b \in 1..Len(s)
    BY <1>1, <1>6, <1>9
  <2> QED
    BY <1>2, <1>5, <1>9, <2>1 DEF IsValue
<1>10. e \in (i + 1)..Len(s)
  BY <1>1, <1>6
<1>11. e # Len(s) => ValueEnd(t, i) = e
  BY <1>1, <1>9, ValueEndIs
<1> QED
  BY <1>6, <1>8, <1>10, <1>11

(* What is cut off leaves no other text before the cut, once both are redacted. *)
LEMMA RedactBegins ==
    ASSUME NEW patterns, patterns # <<>>, NEW s \in Text, NEW t \in Text, Like(s, t)
    PROVE  \E n : Begins(Redact(patterns, s), Redact(patterns, t), n)
<1> DEFINE K == Len(s)
<1>1. /\ K \in Nat /\ Len(t) \in Nat /\ K <= Len(t)
      /\ \A i \in 1..K : s[i] \in Character /\ t[i] \in Character
  <2>1. Len(s) \in Nat /\ Len(t) \in Nat /\ Len(s) <= Len(t)
    BY TextIs DEF Like
  <2>2. \A i \in 1..Len(s) : i \in 1..Len(t)
    BY <2>1
  <2> QED
    BY <2>1, <2>2, TextIs
<1>2. PICK f : Redaction(f, s) /\ Redact(patterns, s) = f[1]
  BY RedactionIs
<1>3. PICK g : Redaction(g, t) /\ Redact(patterns, t) = g[1]
  BY RedactionIs
<1> HIDE DEF K
<1> DEFINE S == {i \in 1..(K + 1) : \E n : Begins(f[i], g[i], n)}
<1>4. f[K + 1] = <<>> /\ \A i \in 1..(K + 1) : f[i] \in Text /\ g[i] \in Text
  BY <1>1, <1>2, <1>3 DEF Redaction, K
<1>5. ASSUME NEW i \in 1..(K + 1), \A j \in (i + 1)..(K + 1) : j \in S PROVE i \in S
  <2>1. CASE i = K + 1
    <3>1. Begins(f[i], g[i], 0)
      BY <1>4, <2>1, EmptyBegins
    <3> QED
      BY <3>1
  <2>2. CASE i # K + 1
    <3>1. i \in 1..K /\ i \in 1..Len(t) /\ i + 1 \in (i + 1)..(K + 1) /\ i + 1 \in 1..(K + 1)
      BY <1>1, <2>2
    <3>2. /\ f[i] = IF IsSecret(s, i) THEN Marker \o f[ValueEnd(s, i) + 1] ELSE <<s[i]>> \o f[i + 1]
          /\ g[i] = IF IsSecret(t, i) THEN Marker \o g[ValueEnd(t, i) + 1] ELSE <<t[i]>> \o g[i + 1]
      BY <1>2, <1>3, <3>1 DEF Redaction, K
    <3>3. <<s[i]>> \in Text /\ <<t[i]>> \in Text /\ Marker \in Text
      BY <1>1, <3>1, OneCharacter, MarkerIs
    <3>4. CASE IsSecret(s, i)
      <4> DEFINE e == ValueEnd(s, i)
                 d == ValueEnd(t, i)
      <4>1. IsSecret(t, i) /\ e \in (i + 1)..K /\ (e = K \/ d = e)
        BY <3>1, <3>4, LikeSecrets DEF K
      <4>2. d \in i..Len(t)
        BY <3>1, SecretIs
      <4>3. f[i] = Marker \o f[e + 1] /\ g[i] = Marker \o g[d + 1]
        BY <3>2, <3>4, <4>1
      <4> HIDE DEF e, d
      <4>4. e + 1 \in (i + 1)..(K + 1) /\ e + 1 \in 1..(K + 1) /\ d + 1 \in 1..(Len(t) + 1)
        BY <1>1, <3>1, <4>1, <4>2
      <4>5. f[e + 1] \in Text /\ g[d + 1] \in Text
        BY <1>3, <1>4, <4>4 DEF Redaction
      <4>6. \E n : Begins(f[e + 1], g[d + 1], n)
        <5>1. CASE e = K
          BY <1>4, <4>5, <5>1, EmptyBegins
        <5>2. CASE d = e
          BY <1>5, <4>4, <5>2
        <5> QED
          BY <4>1, <5>1, <5>2
      <4>7. PICK n : Begins(f[e + 1], g[d + 1], n)
        BY <4>6
      <4>8. Begins(f[i], g[i], Len(Marker) + n)
        BY <3>3, <4>3, <4>5, <4>7, JoinBegins
      <4> QED
        BY <4>8
    <3>5. CASE ~ IsSecret(s, i) /\ s[i] = "k"
      <4>1. \A j \in (i + 1)..K : s[j] \in Blanks
        BY <3>1, <3>5, SecretIs DEF IsSecret, K
      <4>2. Blank(f[i + 1]) /\ f[i + 1] \in Text
        BY <1>2, <1>4, <3>1, <4>1, BlanksStay DEF K
      <4>3. f[i] = <<s[i]>> \o f[i + 1]
        BY <3>2, <3>5
      <4>4. /\ Len(f[i + 1]) \in Nat /\ Len(f[i]) = Len(f[i + 1]) + 1
            /\ f[i][1] = "k" /\ \A j \in 1..Len(f[i + 1]) : f[i][j + 1] = f[i + 1][j]
        BY <1>1, <3>1, <3>5, <4>2, <4>3, PushProperties DEF Text
      <4>5. ASSUME NEW j \in 2..Len(f[i]) PROVE f[i][j] \in Blanks
        <5>1. j - 1 \in 1..Len(f[i + 1]) /\ (j - 1) + 1 = j
          BY <4>4
        <5> QED
          BY <4>2, <4>4, <5>1 DEF Blank
      <4>6. Len(g[i]) \in Nat
        BY <1>4, TextIs
      <4>7. 0 + 1 \in 1..Len(f[i]) /\ 0 + 1 = 1 /\ 0 + 2 = 2 /\ 0 \in 0..Len(f[i]) /\ \A j \in 1..0 : FALSE
        BY <4>4
      <4>8. Begins(f[i], g[i], 0)
        BY <4>4, <4>5, <4>6, <4>7 DEF Begins, Remains
      <4> QED
        BY <4>8
    <3>6. CASE ~ IsSecret(s, i) /\ s[i] # "k"
      <4>1. t[i] # "k" /\ (s[i] = t[i] \/ (i = K /\ s[i] = "u"))
        BY <3>1, <3>6 DEF Like, K
      <4>2. f[i] = <<s[i]>> \o f[i + 1] /\ g[i] = <<t[i]>> \o g[i + 1]
        BY <3>2, <3>6, <4>1 DEF IsSecret
      <4>3. CASE s[i] = t[i]
        <5>1. PICK n : Begins(f[i + 1], g[i + 1], n)
          BY <1>5, <3>1
        <5>2. Begins(f[i], g[i], Len(<<s[i]>>) + n)
          BY <1>4, <3>1, <3>3, <4>2, <4>3, <5>1, JoinBegins
        <5> QED
          BY <5>2
      <4>4. CASE i = K /\ s[i] = "u"
        <5>1. f[i + 1] = <<>> /\ f[i + 1] \in Text
          BY <1>4, <3>1, <4>4
        <5>2. Len(f[i]) = 1 /\ f[i][1] = "u"
          <6>1. Len(f[i + 1]) = 0
            BY <5>1, EmptySeq
          <6>2. Len(f[i]) = Len(f[i + 1]) + 1 /\ f[i][1] = s[i]
            BY <1>1, <3>1, <4>2, <5>1, PushProperties DEF Text
          <6> QED
            BY <4>4, <6>1, <6>2
        <5>3. Len(g[i]) \in Nat
          BY <1>4, TextIs
        <5>4. 0 + 1 = 1 /\ 0 \in 0..1 /\ \A j \in 1..0 : FALSE
          OBVIOUS
        <5>5. Begins(f[i], g[i], 0)
          BY <5>2, <5>3, <5>4 DEF Begins, Remains
        <5> QED
          BY <5>5
      <4> QED
        BY <4>1, <4>3, <4>4
    <3> QED
      BY <3>4, <3>5, <3>6
  <2> QED
    BY <2>1, <2>2
<1> HIDE DEF S
<1>6. \A i \in 1..(K + 1) : i \in S
  <2>1. 1 \in Int /\ K + 1 \in Int
    BY <1>1
  <2>2. \A i \in 1..(K + 1) : (\A j \in (i + 1)..(K + 1) : j \in S) => i \in S
    BY <1>5
  <2> QED
    BY <2>1, <2>2, FromTheEnd, Zenon
<1>7. 1 \in 1..(K + 1)
  BY <1>1
<1> QED
  BY <1>2, <1>3, <1>6, <1>7 DEF S

(* Without patterns a half character at the end is all that is different. *)
LEMMA LikeBegins ==
    ASSUME NEW s \in Text, NEW t \in Text, Like(s, t)
    PROVE  \E n : Begins(s, t, n)
<1>1. Len(s) \in Nat /\ Len(t) \in Nat /\ Len(s) <= Len(t)
  BY TextIs DEF Like
<1>2. CASE \A i \in 1..Len(s) : s[i] = t[i]
  <2>1. Len(s) \in 0..Len(s)
    BY <1>1
  <2>2. Begins(s, t, Len(s))
    BY <1>1, <1>2, <2>1 DEF Begins, Remains
  <2> QED
    BY <2>2
<1>3. CASE \E i \in 1..Len(s) : s[i] # t[i]
  <2>1. Len(s) \in 1..Len(s) /\ s[Len(s)] = "u"
    BY <1>3 DEF Like
  <2> DEFINE n == Len(s) - 1
  <2>2. n \in 0..Len(s) /\ n <= Len(t) /\ n + 1 = Len(s) /\ \A i \in 1..n : i \in 1..Len(s) /\ i # Len(s)
    BY <1>1, <2>1
  <2> HIDE DEF n
  <2>3. \A i \in 1..n : s[i] = t[i]
    BY <2>2 DEF Like
  <2>4. Begins(s, t, n)
    BY <2>1, <2>2, <2>3 DEF Begins, Remains
  <2> QED
    BY <2>4
<1> QED
  BY <1>2, <1>3

(* What is captured, decoded, redacted and cut again begins what there was. *)
LEMMA MadeBegins ==
    ASSUME NEW bytes \in Seq(STRING), NEW m \in Nat, NEW max \in Nat
    PROVE  LET made == Truncate(Redact(Patterns, Decode(Cut(bytes, m))), max)
           IN \E n \in 0..Len(made) :
                 /\ IsPrefix(Cut(made, n), Redact(Patterns, Decode(bytes)))
                 /\ IsRemnant(From(made, n + 1))
<1> DEFINE s == Decode(Cut(bytes, m))
           t == Decode(bytes)
           all == Redact(Patterns, t)
           text == Redact(Patterns, s)
<1>1. bytes \in Text
  BY SeqOfMore DEF Text, Character
<1>2. s \in Text /\ t \in Text /\ Like(s, t)
  BY <1>1, CutIs, DecodeIsText, CutDecodes
<1> HIDE DEF s, t
<1>3. text \in Text /\ all \in Text
  BY <1>2, RedactIs
<1>4. \E n : Begins(text, all, n)
  <2>1. CASE Patterns = <<>>
    BY <1>2, <2>1, LikeBegins DEF Redact
  <2>2. CASE Patterns # <<>>
    BY <1>2, <2>2, RedactBegins
  <2> QED
    BY <2>1, <2>2
<1> HIDE DEF text, all
<1>5. PICK k \in 0..Len(text) : Truncate(text, max) = Cut(text, k)
  BY <1>3, TruncateIs
<1>6. PICK n : Begins(Cut(text, k), all, n)
  BY <1>3, <1>4, CutBegins
<1>7. k \in Nat
  BY <1>3, TextIs
<1>8. Cut(text, k) \in Text
  BY <1>3, <1>7, CutIs
<1>9. /\ n \in 0..Len(Cut(text, k)) /\ IsPrefix(Cut(Cut(text, k), n), all)
      /\ IsRemnant(From(Cut(text, k), n + 1))
  BY <1>3, <1>6, <1>8, BeginsIs
<1> QED
  BY <1>5, <1>9 DEF s, t, text, all

LEMMA SizeOfJoin ==
    ASSUME NEW s \in Text, NEW t \in Text
    PROVE  Utf8Size(s \o t) = Utf8Size(s) + Utf8Size(t)
<1> DEFINE u == s \o t
           K == Len(s)
           L == Len(t)
<1>1. K \in Nat /\ L \in Nat
  BY TextIs
<1>2. /\ u \in Text /\ Len(u) = K + L
      /\ (\A i \in 1..K : u[i] = s[i]) /\ (\A i \in 1..L : u[K + i] = t[i])
  BY JoinIs
<1> HIDE DEF u, K, L
<1>3. PICK f : /\ Utf8Size(s) = f[K]
               /\ f[0] = 0 /\ \A n \in 1..K : f[n] = f[n - 1] + Size(s[n])
               /\ \A n \in 0..K : f[n] \in Nat
  BY SizeIs DEF K
<1>4. PICK g : /\ Utf8Size(t) = g[L]
               /\ g[0] = 0 /\ \A n \in 1..L : g[n] = g[n - 1] + Size(t[n])
               /\ \A n \in 0..L : g[n] \in Nat
  BY SizeIs DEF L
<1>5. PICK h : /\ Utf8Size(u) = h[Len(u)]
               /\ h[0] = 0 /\ \A n \in 1..Len(u) : h[n] = h[n - 1] + Size(u[n])
               /\ \A n \in 0..Len(u) : h[n] \in Nat
  BY <1>2, SizeIs
<1>6. h[K] = f[K]
  <2> DEFINE S == {n \in 0..K : h[n] = f[n]}
  <2>1. 0 \in S
    BY <1>1, <1>3, <1>5
  <2>2. ASSUME NEW n \in 0..K, n # K, n \in S PROVE n + 1 \in S
    <3>1. n + 1 \in 1..K /\ n + 1 \in 0..K /\ n + 1 \in 1..Len(u) /\ (n + 1) - 1 = n
      BY <1>1, <1>2, <2>2
    <3>2. h[n + 1] = h[n] + Size(u[n + 1]) /\ f[n + 1] = f[n] + Size(s[n + 1]) /\ h[n] = f[n]
      BY <1>3, <1>5, <2>2, <3>1
    <3> QED
      BY <1>2, <3>1, <3>2
  <2> HIDE DEF S
  <2>3. \A n \in 0..K : n \in S
    BY <1>1, <2>1, <2>2, StepByStep
  <2> QED
    BY <1>1, <2>3 DEF S
<1>7. h[K + L] = f[K] + g[L]
  <2> DEFINE S == {n \in 0..L : h[K + n] = f[K] + g[n]}
  <2>0. f[K] \in Nat
    BY <1>1, <1>3
  <2>1. 0 \in S
    BY <1>1, <1>4, <1>6, <2>0
  <2>2. ASSUME NEW n \in 0..L, n # L, n \in S PROVE n + 1 \in S
    <3>1. n + 1 \in 1..L /\ n + 1 \in 0..L /\ (n + 1) - 1 = n
          /\ K + (n + 1) \in 1..Len(u) /\ (K + (n + 1)) - 1 = K + n
      BY <1>1, <1>2, <2>2
    <3>2. /\ h[K + (n + 1)] = h[K + n] + Size(t[n + 1])
          /\ g[n + 1] = g[n] + Size(t[n + 1]) /\ h[K + n] = f[K] + g[n] /\ g[n] \in Nat
      BY <1>2, <1>4, <1>5, <2>2, <3>1
    <3>3. Size(t[n + 1]) \in Nat
      BY DEF Size
    <3>4. h[K + (n + 1)] = f[K] + g[n + 1]
      BY <2>0, <3>2, <3>3
    <3> QED
      BY <3>1, <3>4
  <2> HIDE DEF S
  <2>3. \A n \in 0..L : n \in S
    BY <1>1, <2>1, <2>2, StepByStep
  <2> QED
    BY <1>1, <2>3 DEF S
<1> QED
  BY <1>2, <1>3, <1>4, <1>5, <1>7 DEF u

LEMMA FlattenOne ==
    ASSUME NEW a \in Text
    PROVE  FlattenSeq(<<a>>) = a
<1> DEFINE f == [n \in 0..1 |-> IF n = 0 THEN <<>> ELSE a]
           s == <<a>>
<1>1. s \in Seq(Seq(Character)) /\ Len(s) = 1 /\ s[1] = a
  BY DEF Text
<1>2. <<>> \o a = a
  BY ConcatEmptySeq DEF Text
<1>3. f[0] = <<>> /\ f[1] = a
  OBVIOUS
<1> HIDE DEF f, s
<1>4. ASSUME NEW n \in 1..Len(s) PROVE f[n] = f[n - 1] \o s[n]
  <2>1. n = 1 /\ n - 1 = 0
    BY <1>1
  <2> QED
    BY <1>1, <1>2, <1>3, <2>1
<1>5. FlattenSeq(s) = f[Len(s)]
  BY <1>1, <1>3, <1>4, FlattenIs
<1> QED
  BY <1>1, <1>3, <1>5 DEF s

LEMMA FlattenTwo ==
    ASSUME NEW a \in Text, NEW b \in Text
    PROVE  FlattenSeq(<<a, b>>) = a \o b
<1> DEFINE f == [n \in 0..2 |-> IF n = 0 THEN <<>> ELSE IF n = 1 THEN a ELSE a \o b]
           s == <<a, b>>
<1>1. s \in Seq(Seq(Character)) /\ Len(s) = 2 /\ s[1] = a /\ s[2] = b
  BY DEF Text
<1>2. <<>> \o a = a
  BY ConcatEmptySeq DEF Text
<1>3. f[0] = <<>> /\ f[1] = a /\ f[2] = a \o b
  OBVIOUS
<1> HIDE DEF f, s
<1>4. ASSUME NEW n \in 1..Len(s) PROVE f[n] = f[n - 1] \o s[n]
  <2>1. (n = 1 /\ n - 1 = 0) \/ (n = 2 /\ n - 1 = 1)
    BY <1>1
  <2> QED
    BY <1>1, <1>2, <1>3, <2>1
<1>5. FlattenSeq(s) = f[Len(s)]
  BY <1>1, <1>3, <1>4, FlattenIs
<1> QED
  BY <1>1, <1>3, <1>5 DEF s

(* A result within the limit, whose texts begin what there was. *)
Bounded(result) ==
    result.kind = "result" =>
       /\ Utf8Size(FlattenSeq(result.made)) <= Limit
       /\ \A i \in DOMAIN result.made :
             \E n \in 0..Len(result.made[i]) :
                IsPrefix(Cut(result.made[i], n), All(i)) /\ IsRemnant(From(result.made[i], n + 1))

LEMMA RunIsBounded ==
    ASSUME Run, Request.tool \in Commands, Limit \in Nat, IsScenario(input)
    PROVE  Bounded(answer')
<1>1. CASE Raise("ProcessExecutionError")
  BY <1>1 DEF Raise, Bounded
<1>2. CASE ~ Raise("ProcessExecutionError")
  <2>1. PICK captured \in Captures :
           LET output == Output(captured)
               made == <<output.stdout, output.stderr>>
               cut == <<output.stdout_truncated, output.stderr_truncated>>
               texts == IF Request.tool = "run_tests"
                        THEN <<Summary(output.stdout, output.stderr)>> ELSE made
           IN Answer(Result(Sanitised(texts), made, cut, captured.timed_out))
    BY <1>2, Zenon DEF Run
  <2> DEFINE out == Truncate(Redact(Patterns, Decode(Cut(input.stdout, captured.stdout.bytes))), Limit)
             left == Limit - Utf8Size(out)
             err == Truncate(Redact(Patterns, Decode(Cut(input.stderr, captured.stderr.bytes))), left)
             begins(made, i) == \E n \in 0..Len(made) :
                                   IsPrefix(Cut(made, n), All(i)) /\ IsRemnant(From(made, n + 1))
  <2>2. Output(captured).stdout = out /\ Output(captured).stderr = err
    BY DEF Output, OutputPair
  <2>3. answer'.made = <<out, err>>
    BY <2>1, <2>2 DEF Answer, Result
  <2>4. /\ input.stdout \in Seq(STRING) /\ input.stderr \in Seq(STRING)
        /\ captured.stdout.bytes \in Nat /\ captured.stderr.bytes \in Nat
    BY CapturedBytes DEF IsScenario
  <2>5. All(1) = Redact(Patterns, Decode(input.stdout)) /\ All(2) = Redact(Patterns, Decode(input.stderr))
    BY DEF All, Sources, Commands
  <2> HIDE DEF out
  <2>6. out \in Text /\ Utf8Size(out) \in Nat /\ Utf8Size(out) <= Limit
    BY <2>4, MadeIs DEF out
  <2>7. begins(out, 1)
    BY <2>4, <2>5, MadeBegins DEF out
  <2>8. left \in Nat
    BY <2>6
  <2> HIDE DEF left, err
  <2>9. err \in Text /\ Utf8Size(err) \in Nat /\ Utf8Size(err) <= left
    BY <2>4, <2>8, MadeIs DEF err
  <2>10. begins(err, 2)
    BY <2>4, <2>5, <2>8, MadeBegins DEF err
  <2>11. Utf8Size(FlattenSeq(<<out, err>>)) <= Limit
    <3>1. Utf8Size(out \o err) = Utf8Size(out) + Utf8Size(err)
      BY <2>6, <2>9, SizeOfJoin
    <3>2. Utf8Size(out) + Utf8Size(err) <= Limit
      BY <2>6, <2>9 DEF left
    <3> QED
      BY <2>6, <2>9, <3>1, <3>2, FlattenTwo
  <2>12. DOMAIN <<out, err>> = {1, 2} /\ <<out, err>>[1] = out /\ <<out, err>>[2] = err
    OBVIOUS
  <2> QED
    BY <2>3, <2>7, <2>10, <2>11, <2>12 DEF Bounded
<1> QED
  BY <1>1, <1>2

LEMMA ReadIsBounded ==
    ASSUME Read, Request.tool = "collect_artifact", Limit \in Nat, TreeTyped(fs), WalkTyped(walk)
    PROVE  Bounded(answer')
<1>1. CASE \E e : Raise(e)
  BY <1>1 DEF Raise, Bounded
<1>2. CASE ~ \E e : Raise(e)
  <2> DEFINE bytes == Here.bytes
             text == Redact(Patterns, Decode(Cut(bytes, Limit)))
             made == Truncate(text, Limit)
  <2>1. Here.kind = "file"
        /\ Answer(Result(Sanitised(<<made>>), <<made>>, <<size > Limit \/ Truncated(text, Limit)>>, FALSE))
    BY <1>2 DEF Read, ArtifactRead
  <2>2. bytes \in Seq(STRING)
    BY <2>1, HereIsFile
  <2>3. All(1) = Redact(Patterns, Decode(bytes))
    BY DEF All, Sources
  <2>4. answer'.made = <<made>>
    BY <2>1 DEF Answer, Result
  <2> HIDE DEF bytes
  <2>5. made \in Text /\ Utf8Size(made) <= Limit
    BY <2>2, MadeIs
  <2>6. \E n \in 0..Len(made) : IsPrefix(Cut(made, n), All(1)) /\ IsRemnant(From(made, n + 1))
    BY <2>2, <2>3, MadeBegins
  <2> HIDE DEF made
  <2>7. FlattenSeq(<<made>>) = made /\ DOMAIN <<made>> = {1} /\ <<made>>[1] = made
    BY <2>5, FlattenOne
  <2> QED
    BY <2>4, <2>5, <2>6, <2>7 DEF Bounded
<1> QED
  BY <1>1, <1>2

LEMMA BoundsStay ==
    ASSUME ConfigInv, CallInv, TreeTyped(fs), WalkOK, OutputInv, OutputIsBoundedPrefix, [Next]_vars
    PROVE  OutputIsBoundedPrefix'
<1>1. CASE UNCHANGED vars
  <2>1. /\ input' = input /\ config' = config /\ walk' = walk /\ fs' = fs
        /\ answer' = answer /\ edits' = edits
    BY <1>1 DEF vars, callVars, pathVars
  <2>2. Here' = Here /\ Request' = Request /\ (Quiet' <=> Quiet) /\ Limit' = Limit
    BY <2>1 DEF Here, Request, Quiet, Limit
  <2>3. \A i : All(i)' = All(i)
    BY <2>1, <2>2 DEF All, Sources, Patterns
  <2> QED
    BY <2>1, <2>2, <2>3 DEF OutputIsBoundedPrefix, Answered
<1>2. CASE answer'.kind # "result"
  BY <1>2 DEF OutputIsBoundedPrefix, Answered
<1>3. CASE (Run \/ Read) /\ Request.tool # "read_file"
  <2>1. Limit \in Nat /\ IsScenario(input)
    BY <1>3, LimitType, ScenariosAssumption DEF ConfigInv, Run, Read
  <2>2. Read => WalkTyped(walk) /\ Request.tool \notin Commands
    BY DEF CallInv, WalkOK, Read, OutputInv, ReadInv
  <2>3. Run => Request.tool \in Commands
    BY DEF CallInv, Run
  <2>4. Request.tool \in Commands \cup {"read_file", "collect_artifact"}
    BY <2>1 DEF IsScenario, IsRequest, Request, Commands
  <2>5. Bounded(answer')
    BY <1>3, <2>1, <2>2, <2>3, <2>4, RunIsBounded, ReadIsBounded
  <2>6. UNCHANGED <<input, config, command, size, pathVars>>
    BY <1>3 DEF Run, Read
  <2>7. Here' = Here /\ Request' = Request /\ Limit' = Limit
    BY <2>6 DEF pathVars, Here, Request, Limit
  <2>8. \A i : All(i)' = All(i)
    BY <2>6, <2>7 DEF All, Sources, Patterns
  <2> QED
    BY <2>5, <2>7, <2>8 DEF OutputIsBoundedPrefix, Answered, Bounded
<1>4. CASE Read /\ Request.tool = "read_file"
  <2>1. Request' = Request
    BY <1>4 DEF Read, Request
  <2> QED
    BY <1>4, <2>1 DEF OutputIsBoundedPrefix, Answered
<1>5. CASE Run /\ Request.tool = "read_file"
  BY <1>5 DEF CallInv, Run, Commands
<1>6. CASE \/ Start \/ CallRunCommand \/ CallRunTests \/ CallReadOrCollect \/ ResolvePath
           \/ Resolved \/ CheckKind \/ ReportFails \/ StatSize \/ Others
  BY <1>2, <1>6, NoResultYet
<1>7. Finished => UNCHANGED vars
  BY DEF Finished
<1> QED
  BY <1>1, <1>3, <1>4, <1>5, <1>6, <1>7 DEF Next

(***************************************************************************)
(* What is made of an output is within the limit and a beginning of all    *)
(* there was, redacted, for every output, limit and place of the cuts.     *)
(***************************************************************************)
THEOREM OutputBounded == Spec => []OutputIsBoundedPrefix
<1>1. Init => OutputIsBoundedPrefix
  BY DEF Init, OutputIsBoundedPrefix, Answered, NoAnswer
<1>2. ConfigInv /\ CallInv /\ TreeTyped(fs) /\ WalkOK /\ OutputInv /\ OutputIsBoundedPrefix /\ [Next]_vars
         => OutputIsBoundedPrefix'
  BY BoundsStay
<1> QED
  BY <1>1, <1>2, ConfigurationKept, TreeKept, WalkKept, CallKept, OutputKept, PTL DEF Spec

-----------------------------------------------------------------------------
(* Lines.                                                                  *)

LineEnds(text) == {i \in DOMAIN text : text[i] = "n" \/ i = Len(text)}
Ends(text) == Sorted(LineEnds(text), Ascending(LineEnds(text)))

(* Where the line that ends at ends[k] begins. *)
Begin(ends, k) == IF k = 1 THEN 1 ELSE ends[k - 1] + 1

LEMMA EndsAre ==
    ASSUME NEW text \in Text
    PROVE  /\ Len(Ends(text)) \in Nat /\ DOMAIN Ends(text) = 1..Len(Ends(text))
           /\ \A k \in 1..Len(Ends(text)) :
                 /\ Ends(text)[k] \in LineEnds(text) /\ Ends(text)[k] \in 1..Len(text)
                 /\ Cardinality({j \in LineEnds(text) : j <= Ends(text)[k]}) = k
           /\ \A j, k \in 1..Len(Ends(text)) : j < k => Ends(text)[j] < Ends(text)[k]
           /\ \A i \in LineEnds(text) : \E k \in 1..Len(Ends(text)) : Ends(text)[k] = i
<1> DEFINE S == LineEnds(text)
           R == Ascending(S)
           ends == Ends(text)
<1>1. Len(text) \in Nat /\ DOMAIN text = 1..Len(text)
  BY TextIs
<1>2. S \subseteq 1..Len(text) /\ S \subseteq Nat
  BY <1>1 DEF LineEnds
<1>3. IsFiniteSet(S)
  <2>1. 1 \in Int /\ Len(text) \in Int
    BY <1>1
  <2>2. IsFiniteSet(1..Len(text))
    BY <2>1, FS_Interval
  <2> QED
    BY <1>2, <2>2, FS_Subset
<1>4. ends = Sorted(S, R)
  BY DEF Ends
<1> HIDE DEF S, ends
<1>5. IsOrderOn(R, S)
  BY <1>2, AscendingIsOrder
<1>6. /\ ends \in Seq(S) /\ Len(ends) = Cardinality(S)
      /\ \A x \in S : \E n \in 1..Len(ends) : ends[n] = x
      /\ \A m, n \in 1..Len(ends) : m < n => <<ends[m], ends[n]>> \in R /\ ends[m] # ends[n]
  BY <1>3, <1>4, <1>5, SortedProperties
<1>7. Len(ends) \in Nat /\ DOMAIN ends = 1..Len(ends) /\ \A k \in 1..Len(ends) : ends[k] \in S
  BY <1>6, LenProperties, ElementOfSeq
<1>8. ASSUME NEW m \in 1..Len(ends), NEW n \in 1..Len(ends), m < n PROVE ends[m] < ends[n]
  <2>1. ends[m] <= ends[n] /\ ends[m] # ends[n]
    BY <1>6, <1>8 DEF Ascending
  <2>2. ends[m] \in Nat /\ ends[n] \in Nat
    BY <1>2, <1>7
  <2> QED
    BY <2>1, <2>2
<1>9. ASSUME NEW k \in 1..Len(ends) PROVE Cardinality({j \in S : j <= ends[k]}) = k
  <2>1. ends[k] = CHOOSE x \in S : Cardinality(UpTo(x, S, R)) = k
    BY <1>4, <1>6 DEF Sorted
  <2>2. \E x \in S : Cardinality(UpTo(x, S, R)) = k
    BY <1>3, <1>5, <1>6, Ranks
  <2>3. Cardinality(UpTo(ends[k], S, R)) = k
    BY <2>1, <2>2
  <2>4. UpTo(ends[k], S, R) = {j \in S : j <= ends[k]}
    BY <1>7 DEF UpTo, Ascending
  <2> QED
    BY <2>3, <2>4
<1> QED
  BY <1>2, <1>6, <1>7, <1>8, <1>9 DEF S, ends

(* The last line ends where the text does, every character is on a line. *)
LEMMA EveryLine ==
    ASSUME NEW text \in Text, NEW i \in 1..Len(text)
    PROVE  \E k \in 1..Len(Ends(text)) : Begin(Ends(text), k) <= i /\ i <= Ends(text)[k]
<1> DEFINE ends == Ends(text)
           T == {k \in 1..Len(ends) : i <= ends[k]}
<1>1. Len(text) \in Nat /\ DOMAIN text = 1..Len(text)
  BY TextIs
<1>2. Len(text) \in LineEnds(text)
  BY <1>1 DEF LineEnds
<1>3. Len(ends) \in Nat /\ \A k \in 1..Len(ends) : ends[k] \in 1..Len(text)
  BY EndsAre
<1>4. \E k \in 1..Len(ends) : ends[k] = Len(text)
  BY <1>2, EndsAre
<1> HIDE DEF ends
<1>5. T \subseteq Nat /\ T # {}
  BY <1>1, <1>3, <1>4
<1>6. PICK k \in T : \A m \in T : k <= m
  BY <1>5, LeastNatural
<1>7. k = 1 \/ (k - 1 \in 1..Len(ends) /\ k - 1 \notin T)
  BY <1>3, <1>6
<1>8. k = 1 \/ ends[k - 1] + 1 <= i
  BY <1>1, <1>3, <1>7
<1> QED
  BY <1>1, <1>6, <1>8 DEF Begin, ends

LEMMA Between ==
    ASSUME NEW n \in Nat, NEW i \in 1..n, NEW e \in 1..n, NEW j \in 1..n, j <= e, e < i
    PROVE  j < i /\ j # n /\ j \in 1..(i - 1)
  OBVIOUS

(* The number of a line is one more than that of the line ends before it. *)
LEMMA LineNumber ==
    ASSUME NEW text \in Text, NEW k \in 1..Len(Ends(text)), NEW i \in 1..Len(text),
           Begin(Ends(text), k) <= i, i <= Ends(text)[k]
    PROVE  1 + Cardinality({j \in 1..(i - 1) : text[j] = "n"}) = k
<1> DEFINE ends == Ends(text)
           before == {j \in 1..(i - 1) : text[j] = "n"}
<1>1. Len(text) \in Nat /\ DOMAIN text = 1..Len(text)
  BY TextIs
<1>2. /\ Len(ends) \in Nat
      /\ \A m \in 1..Len(ends) : ends[m] \in 1..Len(text) /\ ends[m] \in LineEnds(text)
      /\ \A m, n \in 1..Len(ends) : m < n => ends[m] < ends[n]
      /\ \A j \in LineEnds(text) : \E m \in 1..Len(ends) : ends[m] = j
  BY EndsAre
<1>3. k = 1 \/ (k - 1 \in 1..Len(ends) /\ Cardinality({j \in LineEnds(text) : j <= ends[k - 1]}) = k - 1)
  <2>1. k = 1 \/ k - 1 \in 1..Len(ends)
    BY <1>2
  <2> QED
    BY <2>1, EndsAre
<1>4. k # 1 => ends[k - 1] < i
  BY <1>2, <1>3 DEF Begin
<1> HIDE DEF ends
<1>5. ASSUME NEW j \in before PROVE k # 1 /\ j \in LineEnds(text) /\ j <= ends[k - 1]
  <2>1. j \in 1..Len(text) /\ j < i /\ j \in LineEnds(text)
    <3>1. j \in 1..(i - 1) /\ text[j] = "n"
      OBVIOUS
    <3> HIDE DEF before
    <3>2. j \in 1..Len(text) /\ j < i
      BY <1>1, <3>1
    <3> QED
      BY <1>1, <3>1, <3>2 DEF LineEnds
  <2>2. PICK m \in 1..Len(ends) : ends[m] = j
    BY <1>2, <2>1
  <2>3. ends[m] < ends[k] /\ m # k
    BY <1>2, <2>1, <2>2 DEF ends
  <2>4. m < k
    <3>1. ~ (k < m)
      BY <1>2, <2>3 DEF ends
    <3> QED
      BY <1>2, <2>3, <3>1 DEF ends
  <2>5. k # 1 /\ (m = k - 1 \/ m < k - 1)
    BY <1>2, <2>4
  <2>6. ends[m] <= ends[k - 1]
    BY <1>2, <1>3, <2>5
  <2> QED
    BY <2>1, <2>2, <2>5, <2>6
<1>6. CASE k = 1
  <2>1. before = {}
    BY <1>5, <1>6
  <2> HIDE DEF before
  <2>2. Cardinality(before) = 0
    BY <2>1, FS_EmptySet
  <2> QED
    BY <1>6, <2>2 DEF before
<1>7. CASE k # 1
  <2>1. ASSUME NEW j \in LineEnds(text), j <= ends[k - 1] PROVE j \in before
    <3>1. j \in 1..Len(text) /\ (text[j] = "n" \/ j = Len(text))
      BY <1>1 DEF LineEnds
    <3>2. ends[k - 1] < i /\ ends[k - 1] \in 1..Len(text)
      BY <1>2, <1>3, <1>4, <1>7, SMTT(30)
    <3>3. j < i /\ j # Len(text) /\ j \in 1..(i - 1)
      <4> DEFINE e == ends[k - 1]
      <4>1. e < i /\ e \in 1..Len(text) /\ j <= e /\ j \in 1..Len(text) /\ i \in 1..Len(text)
        BY <2>1, <3>1, <3>2
      <4> HIDE DEF e, before
      <4> QED
        BY <1>1, <4>1, Between
    <3> QED
      BY <3>1, <3>3
  <2>2. before = {j \in LineEnds(text) : j <= ends[k - 1]}
    BY <1>5, <2>1
  <2> HIDE DEF before
  <2>3. Cardinality(before) = k - 1
    BY <1>3, <1>7, <2>2
  <2> QED
    BY <1>2, <2>3 DEF before
<1> QED
  BY <1>6, <1>7

LEMMA PartOfText ==
    ASSUME NEW text \in Text, NEW a \in Nat \ {0}, NEW b \in Nat, a <= b + 1, b <= Len(text)
    PROVE  /\ SubSeq(text, a, b) \in Text /\ Len(SubSeq(text, a, b)) = b - a + 1
           /\ \A i \in 1..(b - a + 1) : SubSeq(text, a, b)[i] = text[a + i - 1]
<1>1. Len(text) \in Nat /\ a \in Int /\ b \in Int /\ \A i \in 1..Len(text) : text[i] \in Character
  BY TextIs
<1>2. \A i \in a..b : text[i] \in Character
  BY <1>1
<1>3. /\ SubSeq(text, a, b) \in Seq(Character)
      /\ Len(SubSeq(text, a, b)) = IF a <= b THEN b - a + 1 ELSE 0
      /\ \A i \in 1..(b - a + 1) : SubSeq(text, a, b)[i] = text[a + i - 1]
  BY <1>1, <1>2, SubSeqProperties
<1>4. (IF a <= b THEN b - a + 1 ELSE 0) = b - a + 1
  BY <1>1
<1> QED
  BY <1>3, <1>4 DEF Text

LEMMA PartsJoin ==
    ASSUME NEW text \in Text, NEW a \in Nat \ {0}, NEW b \in Nat, NEW c \in Nat,
           a <= b + 1, b <= c, c <= Len(text)
    PROVE  SubSeq(text, a, b) \o SubSeq(text, b + 1, c) = SubSeq(text, a, c)
<1> DEFINE s == SubSeq(text, a, b)
           t == SubSeq(text, b + 1, c)
           u == SubSeq(text, a, c)
<1>1. Len(text) \in Nat
  BY TextIs
<1>2. s \in Text /\ Len(s) = b - a + 1 /\ \A i \in 1..(b - a + 1) : s[i] = text[a + i - 1]
  BY <1>1, PartOfText
<1>3. t \in Text /\ Len(t) = c - (b + 1) + 1 /\ \A i \in 1..(c - (b + 1) + 1) : t[i] = text[(b + 1) + i - 1]
  BY <1>1, PartOfText
<1>4. u \in Text /\ Len(u) = c - a + 1 /\ \A i \in 1..(c - a + 1) : u[i] = text[a + i - 1]
  BY <1>1, PartOfText
<1> HIDE DEF s, t, u
<1>5. /\ s \o t \in Text /\ Len(s \o t) = Len(s) + Len(t)
      /\ \A i \in 1..Len(s \o t) : \/ i \in 1..Len(s) /\ (s \o t)[i] = s[i]
                                   \/ i - Len(s) \in 1..Len(t) /\ (s \o t)[i] = t[i - Len(s)]
  BY <1>2, <1>3, JoinIs
<1>6. Len(s \o t) = Len(u)
  BY <1>2, <1>3, <1>4, <1>5
<1>7. ASSUME NEW i \in 1..Len(s \o t) PROVE (s \o t)[i] = u[i]
  <2>1. u[i] = text[a + i - 1]
    BY <1>4, <1>6
  <2>2. CASE i \in 1..Len(s) /\ (s \o t)[i] = s[i]
    BY <1>2, <2>1, <2>2
  <2>3. CASE i - Len(s) \in 1..Len(t) /\ (s \o t)[i] = t[i - Len(s)]
    <3>1. i - Len(s) \in 1..(c - (b + 1) + 1) /\ (b + 1) + (i - Len(s)) - 1 = a + i - 1
      BY <1>2, <1>3, <2>3
    <3> QED
      BY <1>3, <2>1, <2>3, <3>1
  <2> QED
    BY <1>5, <2>2, <2>3
<1> QED
  BY <1>4, <1>5, <1>6, <1>7, TextsEqual DEF s, t, u

(* Lines that follow each other are a part of the text. *)
LEMMA LinesJoin ==
    ASSUME NEW text \in Text, NEW low \in 1..Len(Ends(text)), NEW high \in low..Len(Ends(text)),
           NEW s \in Seq(Text), Len(s) = high - low + 1,
           \A i \in 1..Len(s) : s[i] = Lines(text)[low + i - 1]
    PROVE  FlattenSeq(s) = SubSeq(text, Begin(Ends(text), low), Ends(text)[high])
<1> DEFINE ends == Ends(text)
           N == Len(text)
           K == Len(ends)
           from == Begin(ends, low)
           f == [n \in 0..Len(s) |-> IF n = 0 THEN <<>> ELSE SubSeq(text, from, ends[low + n - 1])]
<1>1. N \in Nat /\ DOMAIN text = 1..N
  BY TextIs
<1>2. /\ K \in Nat /\ DOMAIN ends = 1..K
      /\ \A m \in 1..K : ends[m] \in 1..N
      /\ \A m, n \in 1..K : m < n => ends[m] < ends[n]
  BY EndsAre
<1>3. \A k \in 1..K : Lines(text)[k] = SubSeq(text, IF k = 1 THEN 1 ELSE ends[k - 1] + 1, ends[k])
  BY <1>2 DEF Lines, Ends, LineEnds
<1>0. low \in 1..K /\ high \in low..K
  OBVIOUS
<1>4. from \in Nat \ {0} /\ from <= ends[low] /\ low \in Nat \ {0} /\ high \in Nat /\ Len(s) \in Nat \ {0}
  <2>1. low = 1 \/ (low - 1 \in 1..K /\ low - 1 < low)
    BY <1>2
  <2>2. low = 1 \/ (ends[low - 1] \in 1..N /\ ends[low - 1] < ends[low])
    BY <1>2, <2>1
  <2>3. from = IF low = 1 THEN 1 ELSE ends[low - 1] + 1
    BY DEF Begin
  <2> HIDE DEF ends, from
  <2> QED
    BY <1>0, <1>1, <1>2, <2>1, <2>2, <2>3
<1>5. from = IF low = 1 THEN 1 ELSE ends[low - 1] + 1
  BY DEF Begin
<1> HIDE DEF ends, from
<1>6. f[0] = <<>>
  BY <1>4
<1>7. ASSUME NEW n \in 1..Len(s) PROVE f[n] = f[n - 1] \o s[n]
  <2> DEFINE k == low + n - 1
  <2>1. /\ k \in low..high /\ k \in 1..K /\ n \in 0..Len(s) /\ n # 0 /\ n - 1 \in 0..Len(s)
        /\ (n = 1 => k = low) /\ (n # 1 => n - 1 # 0 /\ low + (n - 1) - 1 = k - 1 /\ k - 1 \in low..high /\ k - 1 \in 1..K /\ k # 1)
    BY <1>0, <1>2, <1>4
  <2>2. s[n] = SubSeq(text, IF k = 1 THEN 1 ELSE ends[k - 1] + 1, ends[k])
    BY <1>3, <2>1
  <2>3. f[n] = SubSeq(text, from, ends[k])
    BY <2>1
  <2>4. CASE n = 1
    <3>1. s[n] = SubSeq(text, from, ends[k]) /\ f[n - 1] = <<>>
      BY <1>5, <2>1, <2>2, <2>4
    <3>2. s[n] \in Seq(Character)
      BY ElementOfSeq DEF Text
    <3>3. <<>> \o s[n] = s[n]
      BY <3>2, ConcatEmptySeq
    <3> QED
      BY <2>3, <3>1, <3>3
  <2>5. CASE n # 1
    <3>1. s[n] = SubSeq(text, ends[k - 1] + 1, ends[k]) /\ f[n - 1] = SubSeq(text, from, ends[k - 1])
      BY <2>1, <2>2, <2>5
    <3>2. ends[k - 1] \in 1..N /\ ends[k] \in 1..N /\ ends[k - 1] < ends[k] /\ (k - 1 = low \/ ends[low] < ends[k - 1])
      BY <1>2, <2>1, <2>5
    <3> HIDE DEF k, f
    <3>3. from <= ends[k - 1] + 1
      <4>1. ends[low] \in 1..N
        BY <1>0, <1>2
      <4>2. ends[low] \in Nat /\ ends[k - 1] \in Nat /\ ends[low] <= ends[k - 1]
        BY <1>1, <3>2, <4>1
      <4> HIDE DEF ends
      <4> QED
        BY <1>4, <4>2
    <3>4. SubSeq(text, from, ends[k - 1]) \o SubSeq(text, ends[k - 1] + 1, ends[k]) = SubSeq(text, from, ends[k])
      <4> DEFINE b == ends[k - 1]
                 c == ends[k]
      <4>1. b \in Nat /\ c \in Nat /\ b <= c /\ c <= Len(text) /\ from <= b + 1
        BY <1>1, <3>2, <3>3
      <4> HIDE DEF b, c
      <4>2. SubSeq(text, from, b) \o SubSeq(text, b + 1, c) = SubSeq(text, from, c)
        BY <1>4, <4>1, PartsJoin
      <4> QED
        BY <4>2 DEF b, c
    <3> QED
      BY <2>3, <3>1, <3>4
  <2> QED
    BY <2>4, <2>5
<1>8. s \in Seq(Seq(Character))
  BY DEF Text
<1>9. f[Len(s)] = SubSeq(text, from, ends[high])
  <2>1. Len(s) \in 0..Len(s) /\ Len(s) # 0 /\ low + Len(s) - 1 = high
    BY <1>4
  <2> QED
    BY <2>1
<1> HIDE DEF f
<1> QED
  BY <1>6, <1>7, <1>8, <1>9, FlattenIs DEF ends, from

LEMMA IntervalEnds ==
    ASSUME NEW a \in Nat, NEW b \in Nat, a <= b, NEW T, T = a..b
    PROVE  T # {} /\ Min(T) = a /\ Max(T) = b
<1>1. a \in T /\ b \in T /\ \A y \in T : a <= y /\ y <= b /\ y \in Nat
  OBVIOUS
<1>2. Min(T) \in T /\ \A y \in T : Min(T) <= y
  BY <1>1 DEF Min
<1>3. Max(T) \in T /\ \A y \in T : Max(T) >= y
  BY <1>1 DEF Max
<1>4. Min(T) <= a /\ a <= Min(T) /\ Min(T) \in Nat /\ Max(T) >= b /\ Max(T) <= b /\ Max(T) \in Nat
  BY <1>1, <1>2, <1>3
<1> QED
  BY <1>1, <1>4

(* What splitlines, a slice and join make is what is on the lines asked for. *)
LEMMA SliceIsLines ==
    ASSUME NEW text \in Text, NEW start \in Nat \ {0}, NEW count \in Nat \cup {NoCount}
    PROVE  FlattenSeq(Slice(Lines(text), start, count)) = LinesOf(text, start, count)
<1> DEFINE ends == Ends(text)
           N == Len(text)
           K == Len(ends)
           lines == Lines(text)
           rest == From(lines, start)
           some == Slice(lines, start, count)
           left == IF start <= K THEN K - start + 1 ELSE 0
           number == IF count = NoCount THEN left ELSE IF count < left THEN count ELSE left
           lineOf(i) == 1 + Cardinality({j \in 1..(i - 1) : text[j] = "n"})
           asked == {i \in DOMAIN text : lineOf(i) >= start /\ (count # NoCount => lineOf(i) < start + count)}
<1>1. N \in Nat /\ DOMAIN text = 1..N
  BY TextIs
<1>2. /\ K \in Nat /\ DOMAIN ends = 1..K
      /\ \A m \in 1..K : ends[m] \in 1..N
      /\ \A m, n \in 1..K : m < n => ends[m] < ends[n]
  BY EndsAre
<1>3. lines \in Seq(Text) /\ Len(lines) = K
  <2>1. lines \in Seq(Text) /\ DOMAIN lines = 1..K
    BY <1>2, LinesAreTexts DEF Lines, Ends, LineEnds
  <2> HIDE DEF lines, ends
  <2> QED
    BY <1>2, <2>1, LenProperties
<1>4. LinesOf(text, start, count) = IF asked = {} THEN <<>> ELSE SubSeq(text, Min(asked), Max(asked))
  BY DEF LinesOf
<1>5. \A i \in 1..N : \E k \in 1..K : Begin(ends, k) <= i /\ i <= ends[k] /\ lineOf(i) = k
  BY EveryLine, LineNumber
<1>6. \A k \in 1..K : Begin(ends, k) = IF k = 1 THEN 1 ELSE ends[k - 1] + 1
  BY DEF Begin
<1> HIDE DEF lines
<1>7. /\ rest \in Seq(Text) /\ Len(rest) = left /\ left \in Nat
      /\ \A i \in 1..left : rest[i] = lines[start + i - 1]
  <2>1. \A i \in start..K : lines[i] \in Text
    BY <1>2, <1>3, ElementOfSeq
  <2>2. rest = SubSeq(lines, start, K)
    BY <1>3 DEF From
  <2>3. start \in Int /\ K \in Int
    BY <1>2
  <2> HIDE DEF K
  <2>4. /\ SubSeq(lines, start, K) \in Seq(Text)
        /\ Len(SubSeq(lines, start, K)) = left
        /\ \A i \in 1..(K - start + 1) : SubSeq(lines, start, K)[i] = lines[start + i - 1]
    BY <2>1, <2>3, SubSeqProperties
  <2>5. left \in Nat /\ \A i \in 1..left : i \in 1..(K - start + 1)
    BY <2>3
  <2> QED
    BY <2>2, <2>4, <2>5
<1>8. number \in 0..left
  BY <1>7
<1>9. /\ some \in Seq(Text) /\ Len(some) = number
      /\ \A i \in 1..number : some[i] = lines[start + i - 1]
  <2>1. some = IF count = NoCount THEN rest ELSE SubSeq(rest, 1, IF count < Len(rest) THEN count ELSE Len(rest))
    BY DEF Slice, Cut
  <2> HIDE DEF rest, some, left
  <2>2. some = IF count = NoCount THEN rest ELSE SubSeq(rest, 1, number)
    BY <1>7, <2>1
  <2>3. /\ SubSeq(rest, 1, number) \in Seq(Text) /\ Len(SubSeq(rest, 1, number)) = number
        /\ \A i \in 1..number : SubSeq(rest, 1, number)[i] = rest[i]
    <3> HIDE DEF number
    <3> QED
      BY <1>7, <1>8, FirstOf
  <2>4. count = NoCount => number = left
    OBVIOUS
  <2> HIDE DEF number
  <2>5. some \in Seq(Text) /\ Len(some) = number /\ \A i \in 1..number : some[i] = rest[i]
    BY <1>7, <2>2, <2>3, <2>4
  <2>6. \A i \in 1..number : i \in 1..left
    BY <1>7, <1>8
  <2> QED
    BY <1>7, <2>5, <2>6
<1> DEFINE high == start + number - 1
<1>10. \A k \in 1..K : start <= k /\ (count # NoCount => k < start + count) <=> k \in start..high
  BY <1>2
<1>11. start \in Nat \ {0} /\ high \in Int /\ high <= (IF start <= K THEN K ELSE start - 1) /\ high = start + number - 1
  BY <1>2
<1> HIDE DEF some, number, high, lineOf, ends
<1>12. \A i \in 1..N : \E k \in 1..K : Begin(ends, k) <= i /\ i <= ends[k] /\ (i \in asked <=> k \in start..high)
  BY <1>1, <1>5, <1>10, SMTT(30)
<1>13. asked \subseteq 1..N
  BY <1>1
<1> HIDE DEF asked
<1>14. CASE number = 0
  <2>1. asked = {}
    <3>1. start..high = {}
      BY <1>11, <1>14
    <3> QED
      BY <1>12, <1>13, <3>1
  <2>2. some = <<>>
    BY <1>9, <1>14, EmptySeq
  <2>3. FlattenSeq(some) = <<>>
    BY <1>9, <1>14, <2>2 DEF FlattenSeq
  <2> QED
    BY <1>4, <2>1, <2>3 DEF some, lines
<1>15. CASE number # 0
  <2>1. start \in 1..K /\ high \in start..K /\ high \in 1..K /\ number = high - start + 1
    BY <1>2, <1>8, <1>11, <1>15
  <2>2. FlattenSeq(some) = SubSeq(text, Begin(ends, start), ends[high])
    <3>1. \A i \in 1..Len(some) : some[i] = Lines(text)[start + i - 1]
      BY <1>9 DEF lines
    <3> QED
      BY <1>9, <2>1, <3>1, LinesJoin DEF ends
  <2>3. \A j, k \in 1..K : j <= k => ends[j] <= ends[k]
    BY <1>1, <1>2
  <2>4. \A k \in 1..K : /\ ends[k] \in Nat \ {0} /\ Begin(ends, k) \in Nat \ {0}
                        /\ \A j \in 1..K : j < k => ends[j] < Begin(ends, k)
    <3> SUFFICES ASSUME NEW k \in 1..K
                 PROVE  /\ ends[k] \in Nat \ {0} /\ Begin(ends, k) \in Nat \ {0}
                        /\ \A j \in 1..K : j < k => ends[j] < Begin(ends, k)
      OBVIOUS
    <3>1. k = 1 \/ (k - 1 \in 1..K /\ ends[k - 1] \in 1..N /\ Begin(ends, k) = ends[k - 1] + 1)
      BY <1>2, <1>6
    <3>2. Begin(ends, k) \in Nat \ {0}
      BY <1>1, <1>6, <3>1
    <3>3. ASSUME NEW j \in 1..K, j < k PROVE ends[j] < Begin(ends, k)
      <4>1. k # 1 /\ j <= k - 1
        BY <1>2, <3>3
      <4>2. ends[j] <= ends[k - 1] /\ ends[j] \in Nat /\ ends[k - 1] \in Nat
        BY <1>1, <1>2, <2>3, <3>1, <4>1
      <4> QED
        BY <3>1, <4>1, <4>2
    <3> QED
      BY <1>1, <1>2, <3>2, <3>3
  <2>10. ASSUME NEW k \in 1..K PROVE Begin(ends, k) <= ends[k]
    <3>1. k = 1 \/ (k - 1 \in 1..K /\ k - 1 < k)
      BY <1>2
    <3>2. k = 1 \/ ends[k - 1] < ends[k]
      BY <1>2, <3>1
    <3>3. ends[k] \in 1..N /\ (k = 1 \/ ends[k - 1] \in 1..N)
      BY <1>2, <3>1
    <3>4. Begin(ends, k) = IF k = 1 THEN 1 ELSE ends[k - 1] + 1
      BY <1>6
    <3> QED
      BY <1>1, <3>2, <3>3, <3>4
  <2> DEFINE a == Begin(ends, start)
             b == ends[high]
  <2>5. a \in Nat \ {0} /\ b \in 1..N /\ a <= b
    <3>1. a \in Nat \ {0} /\ b \in 1..N
      BY <1>2, <2>1, <2>4
    <3>2. \E k \in 1..K : Begin(ends, k) <= b /\ b <= ends[k]
      BY <1>12, <3>1
    <3>3. PICK k \in 1..K : Begin(ends, k) <= b /\ b <= ends[k]
      BY <3>2
    <3>4. ~ (k < high) /\ ~ (high < k)
      <4>1. k < high => ends[k] < b
        BY <1>2, <2>1
      <4>2. high < k => b < Begin(ends, k)
        BY <2>1, <2>4
      <4>3. ends[k] \in Nat /\ b \in Nat /\ Begin(ends, k) \in Nat
        BY <1>1, <2>4, <3>1
      <4> HIDE DEF b
      <4> QED
        BY <3>3, <4>1, <4>2, <4>3
    <3>5. k = high
      BY <1>2, <2>1, <3>4
    <3>6. start = high \/ ends[start] < Begin(ends, high)
      BY <1>2, <2>1, <2>4
    <3>7. a <= ends[start] /\ ends[start] \in Nat /\ Begin(ends, high) \in Nat
      BY <2>1, <2>4, <2>10
    <3> QED
      BY <1>1, <3>1, <3>3, <3>5, <3>6, <3>7
  <2>6. ASSUME NEW i \in asked PROVE i \in a..b
    <3>1. PICK k \in 1..K : Begin(ends, k) <= i /\ i <= ends[k] /\ k \in start..high
      BY <1>12, <1>13
    <3>2. ends[k] <= b
      BY <2>1, <2>3, <3>1
    <3>3. a <= Begin(ends, k)
      <4>1. CASE k = start
        BY <2>4, <2>1, <4>1
      <4>2. CASE k # start
        <5>1. start < k
          BY <2>1, <3>1, <4>2
        <5>2. ends[start] < Begin(ends, k) /\ ends[start] \in Nat /\ Begin(ends, k) \in Nat
          BY <2>1, <2>4, <5>1
        <5>3. a <= ends[start]
          BY <2>1, <2>10
        <5>4. a \in Nat
          BY <2>5
        <5> HIDE DEF a
        <5> QED
          BY <5>2, <5>3, <5>4
      <4> QED
        BY <4>1, <4>2
    <3>4. i \in Nat /\ Begin(ends, k) \in Nat /\ ends[k] \in Nat /\ a \in Nat /\ b \in Nat
      BY <1>1, <1>13, <2>4, <2>5
    <3> HIDE DEF a, b
    <3> QED
      BY <3>1, <3>2, <3>3, <3>4
  <2>7. ASSUME NEW i \in a..b PROVE i \in asked
    <3>0. a <= i /\ i <= b /\ i \in Nat /\ i \in 1..N
      <4> HIDE DEF a, b
      <4> QED
        BY <1>1, <2>5
    <3>1. PICK k \in 1..K : Begin(ends, k) <= i /\ i <= ends[k] /\ (i \in asked <=> k \in start..high)
      BY <1>12, <3>0
    <3>2. ends[k] \in Nat /\ Begin(ends, k) \in Nat /\ a \in Nat /\ b \in Nat
      BY <1>1, <2>4, <2>5
    <3>3. k < start => ends[k] < a
      BY <2>1, <2>4
    <3>4. high < k => b < Begin(ends, k)
      BY <2>1, <2>4
    <3> HIDE DEF a, b
    <3> QED
      BY <1>2, <2>1, <3>0, <3>1, <3>2, <3>3, <3>4
  <2>8. asked = a..b
    BY <2>6, <2>7
  <2> HIDE DEF a, b
  <2>9. asked # {} /\ Min(asked) = a /\ Max(asked) = b
    <3>1. a \in Nat /\ b \in Nat
      BY <1>1, <2>5
    <3> QED
      BY <2>5, <2>8, <3>1, IntervalEnds
  <2> QED
    BY <1>4, <2>2, <2>9 DEF a, b, some, lines
<1> QED
  BY <1>14, <1>15

-----------------------------------------------------------------------------
(* The read of a file.                                                   *)

(* What a read of what is here must come to. *)
RightRead(result) ==
    IF Here.kind # "file" THEN result.error = "WorkspaceFileError" \/ Here.kind = "EACCES"
    ELSE IF Len(Here.bytes) > config.max_file_size_bytes THEN result.error = "FileTooLargeError"
    ELSE IF ~ Here.readable THEN result.error = "OSError"
    ELSE IF Binary(Here.bytes, Sample) THEN result.error = "BinaryFileError"
    ELSE result.shown = Sanitised(<<LinesOf(Decode(Here.bytes), Request.start, Request.count)>>)

(* A file that is looked at for its size is one, and one that is read is not too large. *)
FileInv ==
    Quiet /\ Request.tool = "read_file" =>
       /\ pc \in {"stat", "read"} => Here.kind = "file"
       /\ pc = "read" => ~ TooLarge(Len(Here.bytes))

LEMMA ReadIsRight ==
    ASSUME Read, Request.tool = "read_file", IsScenario(input), TreeTyped(fs), WalkTyped(walk),
           Here.kind = "file", ~ TooLarge(Len(Here.bytes))
    PROVE  RightRead(answer')
<1> DEFINE bytes == Here.bytes
           start == Request.start
           count == Request.count
           made == <<FlattenSeq(Slice(Lines(Decode(bytes)), start, count))>>
<1>1. ~ (Len(bytes) > config.max_file_size_bytes)
  BY DEF TooLarge
<1>2. bytes \in Seq(STRING)
  BY HereIsFile
<1>3. IF Here.readable THEN FileRead(bytes) ELSE Raise("OSError")
  BY DEF Read
<1>4. CASE ~ Here.readable
  BY <1>1, <1>3, <1>4 DEF Raise, RightRead
<1>5. CASE Here.readable /\ Binary(bytes, Sample)
  <2>1. answer'.error = "BinaryFileError"
    BY <1>3, <1>5 DEF FileRead, Raise
  <2> QED
    BY <1>1, <1>5, <2>1 DEF RightRead
<1>6. CASE Here.readable /\ ~ Binary(bytes, Sample)
  <2>1. answer'.shown = Sanitised(made)
    BY <1>3, <1>6 DEF FileRead, Answer, Result
  <2>2. start \in Nat \ {0} /\ count \in Nat \cup {NoCount}
    BY DEF IsScenario, IsRequest, Request
  <2>3. bytes \in Text
    BY <1>2, SeqOfMore DEF Text, Character
  <2>4. FlattenSeq(Slice(Lines(Decode(bytes)), start, count)) = LinesOf(Decode(bytes), start, count)
    BY <2>2, <2>3, DecodeIsText, SliceIsLines
  <2> QED
    BY <1>1, <1>6, <2>1, <2>4 DEF RightRead
<1> QED
  BY <1>5, <1>6, <1>4

LEMMA QuietReadStays ==
    ASSUME ConfigInv, CallInv, TreeTyped(fs), WalkOK, WayInv, FileInv, QuietReadIsExact, [Next]_vars
    PROVE  FileInv' /\ QuietReadIsExact'
<1>1. CASE UNCHANGED vars
  <2>1. /\ input' = input /\ config' = config /\ pc' = pc /\ walk' = walk /\ fs' = fs
        /\ answer' = answer /\ edits' = edits
    BY <1>1 DEF vars, callVars, pathVars
  <2>2. Here' = Here /\ Request' = Request /\ (Quiet' <=> Quiet)
    BY <2>1 DEF Here, Request, Quiet
  <2>3. FileInv'
    BY <2>1, <2>2 DEF FileInv, TooLarge
  <2>4. QuietReadIsExact'
    BY <2>1, <2>2 DEF QuietReadIsExact, Sanitised, Patterns
  <2> QED
    BY <2>3, <2>4
<1>2. CASE Request' = Request /\ Request.tool # "read_file"
  BY <1>2 DEF FileInv, QuietReadIsExact
<1>3. CASE pc' \notin {"answered", "stat", "read"}
  BY <1>3 DEF FileInv, QuietReadIsExact
<1>4. CASE Others
  <2>1. edits \in Nat /\ walk' = walk /\ edits' = edits + 1
    BY <1>4, NodesAssumption DEF CallInv, Others, Edit
  <2>2. ~ Quiet'
    BY <2>1 DEF Quiet, WayInv
  <2> QED
    BY <2>2 DEF FileInv, QuietReadIsExact
<1>5. ASSUME CheckKind \/ StatSize \/ Read, Request.tool = "read_file",
             Quiet => /\ pc' = "answered" => RightRead(answer')
                      /\ pc' # "answered" => Here.kind = "file"
                      /\ pc' = "read" => ~ TooLarge(Len(Here.bytes))
      PROVE  FileInv' /\ QuietReadIsExact'
  <2>1. UNCHANGED <<input, config, command, pathVars>>
    BY <1>5 DEF CheckKind, StatSize, Read
  <2>2. Here' = Here /\ Request' = Request /\ (Quiet' <=> Quiet)
    BY <2>1 DEF pathVars, Here, Request, Quiet
  <2>3. FileInv'
    BY <1>5, <2>1, <2>2 DEF FileInv, TooLarge
  <2>4. QuietReadIsExact'
    BY <1>5, <2>1, <2>2 DEF QuietReadIsExact, RightRead, Sanitised, Patterns
  <2> QED
    BY <2>3, <2>4
<1>6. CASE CheckKind /\ Request.tool = "read_file"
  <2>1. CASE Here.kind = "file"
    <3>1. pc' = "stat"
      BY <1>6, <2>1 DEF CheckKind
    <3> QED
      BY <1>5, <1>6, <2>1, <3>1
  <2>2. CASE Here.kind # "file"
    <3>1. pc' = "answered" /\ RightRead(answer')
      BY <1>6, <2>2 DEF CheckKind, Raise, RightRead
    <3> QED
      BY <1>5, <1>6, <3>1
  <2> QED
    BY <2>1, <2>2
<1>7. CASE StatSize /\ Request.tool = "read_file"
  <2>1. ASSUME Quiet
        PROVE  /\ Here.kind = "file"
               /\ IF TooLarge(Len(Here.bytes)) THEN Raise("FileTooLargeError") ELSE pc' = "read"
    <3>1. Here.kind = "file"
      BY <1>7, <2>1 DEF FileInv, StatSize
    <3>2. Sizes(Here) = {Len(Here.bytes)}
      BY <3>1 DEF Sizes
    <3> QED
      BY <1>7, <3>1, <3>2 DEF StatSize
  <2>2. ASSUME Quiet, TooLarge(Len(Here.bytes)) PROVE pc' = "answered" /\ RightRead(answer')
    BY <2>1, <2>2 DEF Raise, TooLarge, RightRead
  <2> QED
    BY <1>5, <1>7, <2>1, <2>2
<1>8. CASE Read /\ Request.tool = "read_file"
  <2>1. pc = "read" /\ pc' = "answered"
    BY <1>8 DEF Read, FileRead, Raise, Answer
  <2>2. IsScenario(input) /\ WalkTyped(walk)
    BY <2>1, ScenariosAssumption DEF ConfigInv, CallInv, WalkOK
  <2>3. Quiet => RightRead(answer')
    BY <1>8, <2>1, <2>2, ReadIsRight DEF FileInv
  <2> QED
    BY <1>5, <1>8, <2>1, <2>3
<1>9. CASE Start \/ ResolvePath \/ CallReadOrCollect
  <2>1. CASE Start \/ ResolvePath
    BY <1>3, <2>1 DEF Start, ResolvePath, callVars
  <2>2. CASE CallReadOrCollect
    <3>1. walk = NoWalk /\ BeginPath
      BY <2>2 DEF CallInv, CallReadOrCollect
    <3>2. CASE pc' = "resolve"
      BY <1>3, <3>2
    <3>3. CASE walk' = walk
      BY <3>1, <3>3 DEF FileInv, QuietReadIsExact, Quiet
    <3> QED
      BY <3>1, <3>2, <3>3, BeginIs
  <2> QED
    BY <1>9, <2>1, <2>2
<1>10. CASE CallRunCommand \/ CallRunTests \/ Run \/ ReportFails
  <2>1. Request' = Request /\ Request.tool # "read_file"
    BY <1>10 DEF CallRunCommand, CallRunTests, Run, ReportFails, Request, CallInv, Commands
  <2> QED
    BY <1>2, <2>1
<1>11. CASE (CheckKind \/ StatSize \/ Read) /\ Request.tool # "read_file"
  <2>1. Request' = Request
    BY <1>11 DEF CheckKind, StatSize, Read, Request
  <2> QED
    BY <1>2, <1>11, <2>1
<1>12. CASE Resolved
  <2>1. Request' = Request /\ walk' = walk
    BY <1>12 DEF Resolved, Request, pathVars
  <2>2. CASE walk.verdict # "resolved"
    <3>1. pc' = "answered"
      BY <1>12, <2>2 DEF Resolved, Raise
    <3> QED
      BY <2>1, <2>2, <3>1 DEF FileInv, QuietReadIsExact
  <2>3. CASE walk.verdict = "resolved" /\ Request.tool = "read_file"
    <3>1. pc' = "is"
      BY <1>12, <2>3 DEF Resolved
    <3> QED
      BY <1>3, <3>1
  <2> QED
    BY <1>2, <2>1, <2>2, <2>3
<1>13. Finished => UNCHANGED vars
  BY DEF Finished
<1> QED
  BY <1>1, <1>4, <1>6, <1>7, <1>8, <1>9, <1>10, <1>11, <1>12, <1>13 DEF Next

(***************************************************************************)
(* A read_file that nobody interferes with shows the lines asked for, all  *)
(* of them and no other, and refuses exactly what is no file, too large,   *)
(* not to be opened or no text, for every file, request, limit and root.   *)
(***************************************************************************)
THEOREM QuietReadExact == Spec => []QuietReadIsExact
<1>1. Init => FileInv /\ QuietReadIsExact
  BY DEF Init, FileInv, QuietReadIsExact, Quiet
<1>2. ConfigInv /\ CallInv /\ TreeTyped(fs) /\ WalkOK /\ WayInv /\ FileInv /\ QuietReadIsExact /\ [Next]_vars
      => FileInv' /\ QuietReadIsExact'
  BY QuietReadStays
<1> QED
  BY <1>1, <1>2, ConfigurationKept, TreeKept, WalkKept, CallKept, WayKept, PTL DEF Spec

-----------------------------------------------------------------------------
(***************************************************************************)
(* realpath and the kernel.  The kernel is given all the names at once and *)
(* walks a bounded number of them; realpath looks at one place after the   *)
(* other, takes the ends of links from its memory and refuses to enter a   *)
(* link a second time.  What relates them is which place and names LeadsTo *)
(* which others in fewer names.                                            *)
(***************************************************************************)

(* The walk f arrives after n names, and not before. *)
Arrives(f, tree, n, end, error) ==
    /\ \A i \in 1..n : f[i] = WalkStep(tree, f[i - 1])
    /\ \A i \in 0..(n - 1) : ~ Arrived(f[i])
    /\ Arrived(f[n]) /\ f[n].at = end /\ f[n].error = error

(* The kernel has been at a place, or has found that there is none. *)
Conclusive(error) == error \in {"", "ENOENT"}

Sent(a, names) == [at |-> a, rest |-> names, error |-> "", last |-> TRUE]

(***************************************************************************)
(* From place a the kernel walks n names, of those it was given and of the *)
(* links it meets, until it is at end, all names used up or the next one   *)
(* missing.  It is not cut short: n is within its bound.                   *)
(***************************************************************************)
WalksTo(tree, a, names, n, end, error) ==
    /\ n \in Nat /\ Len(a) + n <= MaxNames /\ Conclusive(error)
    /\ \E f : f[0] = Sent(a, names) /\ Arrives(f, tree, n, end, error)

LEMMA NamesJoin ==
    ASSUME NEW s \in Places, NEW t \in Places
    PROVE  s \o t \in Places /\ Len(s \o t) = Len(s) + Len(t)
<1>1. s \in Seq(STRING) /\ t \in Seq(STRING)
  BY DEF Places
<1>2. s \o t \in Seq(STRING)
  BY <1>1, ConcatProperties
<1>3. Len(s \o t) = Len(s) + Len(t)
  BY <1>1, ConcatProperties
<1> QED
  BY <1>2, <1>3 DEF Places

LEMMA NoNamesJoin ==
    ASSUME NEW t \in Places
    PROVE  <<>> \o t = t
  BY ConcatEmptySeq DEF Places

LEMMA NoNames ==
    <<>> \in Places /\ Len(<<>>) = 0
  BY EmptySeq DEF Places

LEMMA NamesJoinThrice ==
    ASSUME NEW s \in Places, NEW t \in Places, NEW u \in Places
    PROVE  (s \o t) \o u = s \o (t \o u)
  BY ConcatAssociative DEF Places

(* One name before others. *)
LEMMA FirstName ==
    ASSUME NEW x \in STRING, NEW t \in Places
    PROVE  /\ <<x>> \in Places /\ <<x>> \o t \in Places /\ <<x>> \o t # <<>>
           /\ Len(<<x>> \o t) = Len(t) + 1
           /\ Head(<<x>> \o t) = x /\ Tail(<<x>> \o t) = t
<1>1. <<x>> \in Seq(STRING) /\ Len(<<x>>) = 1 /\ <<x>>[1] = x
  BY OneElement
<1>2. t \in Seq(STRING) /\ Len(t) \in Nat
  BY PlaceType DEF Places
<1> DEFINE s == <<x>> \o t
<1>3. /\ s \in Seq(STRING) /\ Len(s) = 1 + Len(t)
      /\ \A i \in 1..(1 + Len(t)) : s[i] = IF i <= 1 THEN <<x>>[i] ELSE t[i - 1]
  <2>1. /\ <<x>> \o t \in Seq(STRING) /\ Len(<<x>> \o t) = Len(<<x>>) + Len(t)
        /\ \A i \in 1..(Len(<<x>>) + Len(t)) :
              (<<x>> \o t)[i] = IF i <= Len(<<x>>) THEN <<x>>[i] ELSE t[i - Len(<<x>>)]
    BY <1>1, <1>2, ConcatProperties
  <2> QED
    BY <1>1, <2>1
<1> HIDE DEF s
<1>4. s # <<>> /\ s[1] = x /\ \A i \in 1..Len(t) : s[i + 1] = t[i]
  <2>1. Len(<<>>) = 0
    BY EmptySeq
  <2>2. Len(s) # 0
    BY <1>2, <1>3
  <2>3. 1 \in 1..(1 + Len(t)) /\ \A i \in 1..Len(t) : i + 1 \in 1..(1 + Len(t)) /\ ~ (i + 1 <= 1) /\ (i + 1) - 1 = i
    BY <1>2
  <2>4. s[1] = x
    <3>1. s[1] = IF 1 <= 1 THEN <<x>>[1] ELSE t[1 - 1]
      BY <1>3, <2>3
    <3> QED
      BY <1>1, <3>1
  <2>5. \A i \in 1..Len(t) : s[i + 1] = t[i]
    BY <1>3, <2>3
  <2> QED
    BY <2>1, <2>2, <2>4, <2>5
<1>5. /\ Tail(s) \in Seq(STRING) /\ Len(Tail(s)) = Len(s) - 1
      /\ \A i \in 1..Len(Tail(s)) : Tail(s)[i] = s[i + 1]
  BY <1>3, <1>4, HeadTailProperties
<1>6. Tail(s) = t
  <2>1. Len(Tail(s)) = Len(t)
    BY <1>2, <1>3, <1>5
  <2>2. \A i \in 1..Len(Tail(s)) : Tail(s)[i] = t[i]
    BY <1>4, <1>5, <2>1
  <2> QED
    BY <1>2, <1>5, <2>1, <2>2, SeqEqual
<1>7. Head(s) = x
  <2>1. s \in Seq(STRING) /\ Len(s) \in Nat /\ 1 \in 1..Len(s) /\ Len(s) \in 1..Len(s)
    BY <1>2, <1>3
  <2>2. SubSeq(s, 1, Len(s)) = s
    BY <2>1, SubSeqFull
  <2>3. Head(SubSeq(s, 1, Len(s))) = s[1]
    BY <2>1, HeadTailOfSubSeq
  <2> QED
    BY <1>4, <2>2, <2>3
<1>8. s \in Places /\ <<x>> \in Places
  BY <1>1, <1>3 DEF Places
<1>9. Len(s) = Len(t) + 1
  BY <1>2, <1>3
<1> QED
  BY <1>4, <1>6, <1>7, <1>8, <1>9 DEF s

LEMMA HeadFirst ==
    ASSUME NEW s \in Places, s # <<>>
    PROVE  Head(s) \in STRING /\ Tail(s) \in Places /\ s = <<Head(s)>> \o Tail(s) /\ Len(Tail(s)) = Len(s) - 1
<1>1. /\ Head(s) \in STRING /\ Tail(s) \in Seq(STRING) /\ Len(Tail(s)) = Len(s) - 1
      /\ \A i \in 1..Len(Tail(s)) : Tail(s)[i] = s[i + 1]
  BY HeadTailProperties DEF Places
<1>2. Len(s) \in Nat /\ Len(s) # 0
  BY EmptySeq, PlaceType DEF Places
<1> DEFINE x == Head(s)
           t == Tail(s)
           u == <<x>> \o t
<1>3. x \in STRING /\ t \in Places /\ Len(t) = Len(s) - 1 /\ x = s[1]
  BY <1>1 DEF Places
<1>4. \A i \in 1..Len(t) : t[i] = s[i + 1]
  BY <1>1
<1> HIDE DEF x, t
<1>5. u \in Seq(STRING) /\ Len(u) = Len(t) + 1 /\ Head(u) = x /\ Tail(u) = t /\ u # <<>>
  BY <1>3, FirstName DEF Places
<1> HIDE DEF u
<1>6. \A i \in 1..Len(t) : u[i + 1] = t[i]
  BY <1>5, HeadTailProperties
<1>7. u[1] = x
  BY <1>5
<1>8. ASSUME NEW i \in 1..Len(u) PROVE u[i] = s[i]
  <2>1. i = 1 \/ (i - 1 \in 1..Len(t) /\ (i - 1) + 1 = i)
    BY <1>2, <1>3, <1>5
  <2> QED
    BY <1>3, <1>4, <1>6, <1>7, <2>1
<1>9. u = s
  BY <1>2, <1>3, <1>5, <1>8, SeqEqual DEF Places
<1> QED
  BY <1>3, <1>9 DEF u, x, t

(* After one name the kernel has one less to walk. *)
LEMMA OneNameLess ==
    ASSUME NEW tree, NEW n \in Nat, n # 0, NEW end, NEW error, NEW f, Arrives(f, tree, n, end, error)
    PROVE  \E g : g[0] = f[1] /\ Arrives(g, tree, n - 1, end, error)
<1> DEFINE g == [i \in Nat |-> f[i + 1]]
           m == n - 1
<1>1. \A i \in Nat : g[i] = f[i + 1]
  OBVIOUS
<1> HIDE DEF g
<1>2. m \in Nat /\ m + 1 = n /\ 0 \in Nat /\ 0 + 1 = 1
  OBVIOUS
<1>3. \A i \in 1..m : i \in Nat /\ i - 1 \in Nat /\ i + 1 \in 1..n /\ (i + 1) - 1 = (i - 1) + 1
  OBVIOUS
<1>4. \A i \in 0..(m - 1) : i \in Nat /\ i + 1 \in 0..(n - 1)
  OBVIOUS
<1> HIDE DEF m
<1>5. ASSUME NEW i \in 1..m PROVE g[i] = WalkStep(tree, g[i - 1])
  <2>1. f[i + 1] = WalkStep(tree, f[(i - 1) + 1])
    BY <1>3 DEF Arrives
  <2> QED
    BY <1>1, <1>3, <2>1
<1>6. \A i \in 0..(m - 1) : ~ Arrived(g[i])
  BY <1>1, <1>4 DEF Arrives
<1>7. g[m] = f[n] /\ g[0] = f[1]
  BY <1>1, <1>2
<1>8. g[0] = f[1] /\ Arrives(g, tree, m, end, error)
  BY <1>5, <1>6, <1>7 DEF Arrives
<1> QED
  BY <1>8 DEF m

(* What the kernel meets first if it arrives at all. *)
LEMMA FirstStep ==
    ASSUME NEW tree, TreeTyped(tree), NEW a \in Places, NEW x \in STRING, NEW t \in Places,
           NEW n, NEW end, NEW error, WalksTo(tree, a, <<x>> \o t, n, end, error)
    PROVE  LET p == Append(a, x)
               node == Node(tree, p)
           IN /\ n \in Nat /\ n # 0 /\ Len(a) < MaxNames /\ Node(tree, a).kind = "directory"
              /\ x = ".." => WalksTo(tree, Up(a), t, n - 1, end, error)
              /\ x # ".." /\ node = Nothing => error = "ENOENT"
              /\ x # ".." /\ node.kind = "link" =>
                    WalksTo(tree, IF node.to.absolute THEN <<>> ELSE a, node.to.names \o t, n - 1, end, error)
              /\ x # ".." /\ node.kind \in Things => WalksTo(tree, p, t, n - 1, end, error)
<1> DEFINE p == Append(a, x)
           node == Node(tree, p)
           here == Node(tree, a)
           s == <<x>> \o t
           w == Sent(a, s)
<1>1. s # <<>> /\ Head(s) = x /\ Tail(s) = t /\ s \in Places
  BY FirstName
<1>2. n \in Nat /\ Len(a) + n <= MaxNames /\ Conclusive(error)
  BY DEF WalksTo
<1>3. PICK f : f[0] = w /\ Arrives(f, tree, n, end, error)
  BY DEF WalksTo
<1>4. p \in Places /\ Len(p) = Len(a) + 1 /\ Len(a) \in Nat
  BY GrowFacts, PlaceType
<1>5. Up(a) \in Places /\ Len(Up(a)) <= Len(a) + 1
  <2>1. CASE a = <<>>
    BY <1>4, <2>1 DEF Up
  <2>2. CASE a # <<>>
    BY <1>4, <2>2, ParentIs DEF Up
  <2> QED
    BY <2>1, <2>2
<1>6. node \in TreeNodes /\ here \in TreeNodes
  BY NodeType
<1> HIDE DEF p, node, here, s
<1>7. w.at = a /\ w.rest = s /\ w.error = "" /\ w.last = TRUE
  BY DEF Sent
<1> DEFINE v == WalkStep(tree, w)
<1>8. v = IF here.kind = "locked" THEN [w EXCEPT !.error = "EACCES"]
          ELSE IF here.kind # "directory" THEN [w EXCEPT !.error = "ENOTDIR"]
          ELSE IF x = ".." THEN [w EXCEPT !.at = Up(a), !.rest = t]
          ELSE IF node = Nothing THEN [w EXCEPT !.error = "ENOENT"]
          ELSE IF node.kind = "link" THEN Follow(w, node, t)
          ELSE [w EXCEPT !.at = p, !.rest = t]
  BY <1>1, <1>7 DEF WalkStep, p, node, here
<1>9. n # 0
  <2>1. ~ Arrived(w)
    BY <1>1, <1>7 DEF Arrived
  <2>2. Arrived(f[n])
    BY <1>3 DEF Arrives
  <2> QED
    BY <1>3, <2>1, <2>2
<1> HIDE DEF w, v
<1>10. n \in Nat \ {0} /\ 1 \in 1..n /\ 1 - 1 = 0 /\ Len(a) < MaxNames /\ (n # 1 => 1 \in 0..(n - 1))
  BY <1>2, <1>4, <1>9, MaxNamesType
<1>11. f[1] = WalkStep(tree, w)
  BY <1>3, <1>10 DEF Arrives
(* An error that is met first is the one the kernel ends with. *)
<1>12. v.error # "" => v.error = error
  <2>1. f[1] = v
    BY <1>11 DEF v
  <2>2. v.error # "" => Arrived(f[1])
    BY <2>1 DEF Arrived
  <2>3. n # 1 => ~ Arrived(f[1])
    BY <1>3, <1>10 DEF Arrives
  <2>4. f[n].error = error
    BY <1>3 DEF Arrives
  <2> QED
    BY <2>1, <2>2, <2>3, <2>4
<1>13. here.kind = "directory"
  <2>1. here.kind = "locked" => v.error = "EACCES"
    BY <1>8, <1>7 DEF w, Sent
  <2>2. here.kind # "locked" /\ here.kind # "directory" => v.error = "ENOTDIR"
    BY <1>8, <1>7 DEF w, Sent
  <2> QED
    BY <1>2, <1>12, <2>1, <2>2 DEF Conclusive
<1>14. ASSUME NEW b \in Places, NEW r, Len(b) <= Len(a) + 1,
              v = Sent(b, r)
       PROVE  WalksTo(tree, b, r, n - 1, end, error)
  <2>1. f[1] = Sent(b, r)
    BY <1>11, <1>14 DEF v
  <2>2. PICK g : g[0] = f[1] /\ Arrives(g, tree, n - 1, end, error)
    BY <1>3, <1>10, OneNameLess
  <2>3. n - 1 \in Nat /\ Len(b) + (n - 1) <= MaxNames
    <3>1. Len(b) \in Nat
      BY PlaceType
    <3> QED
      BY <1>2, <1>4, <1>10, <1>14, <3>1, MaxNamesType
  <2> QED
    BY <1>2, <2>1, <2>2, <2>3 DEF WalksTo
<1>15. x = ".." => WalksTo(tree, Up(a), t, n - 1, end, error)
  <2>1. x = ".." => v = Sent(Up(a), t)
    BY <1>8, <1>13 DEF w, Sent
  <2> QED
    BY <1>5, <1>14, <2>1
<1>16. x # ".." /\ node = Nothing => error = "ENOENT"
  <2>1. x # ".." /\ node = Nothing => v.error = "ENOENT"
    BY <1>8, <1>13 DEF w, Sent
  <2> QED
    BY <1>12, <2>1
<1>17. ASSUME x # "..", node.kind = "link"
       PROVE  WalksTo(tree, IF node.to.absolute THEN <<>> ELSE a, node.to.names \o t, n - 1, end, error)
  <2> DEFINE b == IF node.to.absolute THEN <<>> ELSE a
             r == node.to.names \o t
  <2>1. node # Nothing
    BY <1>17 DEF Nothing
  <2>2. v = Sent(b, r)
    BY <1>8, <1>13, <1>17, <2>1 DEF w, Sent, Follow
  <2>3. b \in Places /\ Len(b) <= Len(a) + 1
    BY <1>4, NoNames
  <2> HIDE DEF b, r
  <2>4. WalksTo(tree, b, r, n - 1, end, error)
    BY <1>14, <2>2, <2>3
  <2> QED
    BY <2>4 DEF b, r
<1>18. x # ".." /\ node.kind \in Things => WalksTo(tree, p, t, n - 1, end, error)
  <2>1. node.kind \in Things => node # Nothing /\ node.kind # "link"
    BY DEF Nothing, Things
  <2>2. x # ".." /\ node.kind \in Things => v = Sent(p, t)
    BY <1>8, <1>13, <2>1 DEF w, Sent
  <2>3. Len(p) <= Len(a) + 1
    BY <1>4
  <2> QED
    BY <1>4, <1>14, <2>2, <2>3
<1> QED
  BY <1>10, <1>13, <1>15, <1>16, <1>17, <1>18 DEF p, node, here

(* It is there if no name is left. *)
LEMMA NoStep ==
    ASSUME NEW tree, NEW a, NEW n, NEW end, NEW error, WalksTo(tree, a, <<>>, n, end, error)
    PROVE  end = a /\ error = ""
<1> DEFINE w == Sent(a, <<>>)
<1>1. PICK f : /\ f[0] = w
               /\ \A i \in 0..(n - 1) : ~ Arrived(f[i])
               /\ f[n].at = end /\ f[n].error = error
  BY DEF WalksTo, Arrives
<1>2. n \in Nat
  BY DEF WalksTo
<1>3. w.at = a /\ w.error = "" /\ Arrived(w)
  BY DEF Arrived, Sent
<1> HIDE DEF w, Sent
<1>4. n = 0
  <2>1. n # 0 => 0 \in 0..(n - 1)
    BY <1>2
  <2> QED
    BY <1>1, <1>3, <2>1
<1> QED
  BY <1>1, <1>3, <1>4

(* The kernel's answer on a path it is given, unless its bound or a lack of rights cuts it short. *)
LEMMA AnswerIsWalk ==
    ASSUME NEW tree, TreeTyped(tree), NEW names \in Places,
           Conclusive(Walked(tree, names, TRUE).error)
    PROVE  LET end == Walked(tree, names, TRUE)
           IN \E n : WalksTo(tree, <<>>, names, n, end.at, end.error)
<1> DEFINE end == Walked(tree, names, TRUE)
           last == TRUE
<1>1. last \in BOOLEAN /\ last = TRUE
  OBVIOUS
<1> HIDE DEF last
<1>2. PICK f : /\ f[0] = Start0(names, last)
               /\ Steps(f, tree)
               /\ Walked(tree, names, last) = EndOf(f[MaxNames])
  BY WalkedIs DEF Steps
<1>3. Conclusive(end.error) /\ end = EndOf(f[MaxNames])
  BY <1>2, <1>1
<1> HIDE DEF end
<1> DEFINE w == f[MaxNames]
<1>4. Ended(f, MaxNames) /\ end = w
  <2>1. w.error = "" /\ w.rest # <<>> => end = [w EXCEPT !.error = "ELOOP"]
    BY <1>3 DEF EndOf
  <2>2. ~ (w.error = "" /\ w.rest # <<>>) => end = w
    BY <1>3 DEF EndOf
  <2>3. ~ Conclusive("ELOOP")
    BY DEF Conclusive
  <2>4. end.error # "ELOOP"
    BY <1>3, <2>3
  <2>5. MaxNames \in 0..MaxNames
    BY MaxNamesType
  <2>6. w \in Walks
    BY <1>2, <1>1, <2>5, StepsType
  <2>7. ~ (w.error = "" /\ w.rest # <<>>)
    BY <2>1, <2>4, <2>6 DEF Walks
  <2> QED
    BY <2>2, <2>7 DEF Ended
<1> HIDE DEF w
<1> DEFINE T == {n \in 0..MaxNames : Ended(f, n)}
<1>5. T \subseteq Nat /\ MaxNames \in T
  <2>1. MaxNames \in 0..MaxNames /\ 0..MaxNames \subseteq Nat
    BY MaxNamesType
  <2> QED
    BY <1>4, <2>1
<1>6. PICK n \in T : \A m \in T : n <= m
  BY <1>5, LeastNatural
<1>7. n \in 0..MaxNames /\ Ended(f, n)
  BY <1>6
<1>8. \A m \in 0..MaxNames : Ended(f, m) => n <= m
  BY <1>6
<1> HIDE DEF T
<1>9. /\ n \in Nat /\ n <= MaxNames
      /\ \A i \in 1..n : i \in 1..MaxNames
      /\ \A i \in 0..(n - 1) : i \in 0..MaxNames /\ ~ (n <= i)
  BY <1>7, MaxNamesType
<1>10. f[MaxNames] = f[n]
  BY <1>2, <1>7, KernelRests
<1>11. \A i \in 0..(n - 1) : ~ Arrived(f[i])
  BY <1>8, <1>9 DEF Ended, Arrived
<1>12. \A i \in 1..n : f[i] = WalkStep(tree, f[i - 1])
  BY <1>2, <1>9 DEF Steps
<1>13. Arrived(f[n]) /\ f[n].at = end.at /\ f[n].error = end.error
  BY <1>4, <1>7, <1>10 DEF Ended, Arrived, w
<1>14. Arrives(f, tree, n, end.at, end.error)
  BY <1>11, <1>12, <1>13 DEF Arrives
<1>15. Len(<<>>) + n <= MaxNames
  BY <1>9, NoNames
<1>16. f[0] = Sent(<<>>, names)
  BY <1>2, <1>1 DEF Start0, Sent
<1>17. WalksTo(tree, <<>>, names, n, end.at, end.error)
  BY <1>3, <1>9, <1>14, <1>15, <1>16 DEF WalksTo
<1> QED
  BY <1>17 DEF end

(***************************************************************************)
(* Who is at a with the names s before him, whatever names come after      *)
(* them, comes to b with the names t before him, in fewer names than he    *)
(* would walk in all, if the kernel arrives.                               *)
(***************************************************************************)
LeadsTo(tree, a, s, b, t) ==
    \A r \in Places : \A n, end, error :
       WalksTo(tree, a, s \o r, n, end, error) =>
          \E m \in Nat : m < n /\ WalksTo(tree, b, t \o r, m, end, error)

LEMMA OneName ==
    ASSUME NEW tree, TreeTyped(tree), NEW a \in Places, NEW x \in STRING
    PROVE  LET p == Append(a, x)
               node == Node(tree, p)
           IN /\ x = ".." => LeadsTo(tree, a, <<x>>, Up(a), <<>>)
              /\ x # ".." /\ node.kind \in Things => LeadsTo(tree, a, <<x>>, p, <<>>)
              /\ x # ".." /\ node.kind = "link" =>
                    LeadsTo(tree, a, <<x>>, IF node.to.absolute THEN <<>> ELSE a, node.to.names)
<1> DEFINE p == Append(a, x)
           node == Node(tree, p)
           b == IF node.to.absolute THEN <<>> ELSE a
           u == node.to.names
           s == <<x>>
<1>1. ASSUME NEW r \in Places, NEW n, NEW end, NEW error, WalksTo(tree, a, s \o r, n, end, error)
      PROVE  /\ n - 1 \in Nat /\ n - 1 < n
             /\ x = ".." => WalksTo(tree, Up(a), <<>> \o r, n - 1, end, error)
             /\ x # ".." /\ node.kind \in Things => WalksTo(tree, p, <<>> \o r, n - 1, end, error)
             /\ x # ".." /\ node.kind = "link" => WalksTo(tree, b, u \o r, n - 1, end, error)
  <2>1. <<>> \o r = r
    BY NoNamesJoin
  <2>2. /\ n \in Nat /\ n # 0
        /\ x = ".." => WalksTo(tree, Up(a), r, n - 1, end, error)
        /\ x # ".." /\ node.kind = "link" => WalksTo(tree, b, u \o r, n - 1, end, error)
        /\ x # ".." /\ node.kind \in Things => WalksTo(tree, p, r, n - 1, end, error)
    BY <1>1, FirstStep
  <2>3. n - 1 \in Nat /\ n - 1 < n
    BY <2>2
  <2> QED
    BY <2>1, <2>2, <2>3
<1> HIDE DEF p, node, b, u, s
<1>2. x = ".." => LeadsTo(tree, a, s, Up(a), <<>>)
  BY <1>1 DEF LeadsTo
<1>3. x # ".." /\ node.kind \in Things => LeadsTo(tree, a, s, p, <<>>)
  BY <1>1 DEF LeadsTo
<1>4. x # ".." /\ node.kind = "link" => LeadsTo(tree, a, s, b, u)
  BY <1>1 DEF LeadsTo
<1> QED
  BY <1>2, <1>3, <1>4 DEF p, node, b, u, s

LEMMA Transit ==
    ASSUME NEW tree, NEW a, NEW s, NEW b, NEW x \in STRING, NEW t \in Places,
           LeadsTo(tree, a, s, b, <<x>> \o t),
           NEW c, NEW u \in Places, LeadsTo(tree, b, <<x>>, c, u)
    PROVE  LeadsTo(tree, a, s, c, u \o t)
<1> SUFFICES ASSUME NEW r \in Places, NEW n, NEW end, NEW error, WalksTo(tree, a, s \o r, n, end, error)
             PROVE  \E m \in Nat : m < n /\ WalksTo(tree, c, (u \o t) \o r, m, end, error)
  BY DEF LeadsTo
<1>0. <<x>> \in Places /\ t \o r \in Places
  BY FirstName, NamesJoin
<1>1. (<<x>> \o t) \o r = <<x>> \o (t \o r) /\ (u \o t) \o r = u \o (t \o r)
  BY <1>0, NamesJoinThrice, Zenon
<1>2. PICK m \in Nat : m < n /\ WalksTo(tree, b, (<<x>> \o t) \o r, m, end, error)
  BY DEF LeadsTo
<1> DEFINE q == t \o r
<1>3. PICK k \in Nat : k < m /\ WalksTo(tree, c, u \o q, k, end, error)
  BY <1>0, <1>1, <1>2 DEF LeadsTo
<1>4. k < n
  <2>1. n \in Nat
    BY DEF WalksTo
  <2> QED
    BY <1>2, <1>3, <2>1
<1> QED
  BY <1>1, <1>3, <1>4

(* Who would come back to where he is with the same name before him does not arrive. *)
LEMMA NoWayRound ==
    ASSUME NEW tree, NEW a, NEW x \in STRING, NEW t \in Places, LeadsTo(tree, a, <<x>>, a, <<x>> \o t),
           NEW r \in Places, NEW n, NEW end, NEW error
    PROVE  ~ WalksTo(tree, a, <<x>> \o r, n, end, error)
<1> DEFINE Walks1(k) == \E q \in Places : \E e, f : WalksTo(tree, a, <<x>> \o q, k, e, f)
           S == {k \in Nat : Walks1(k)}
<1>1. ASSUME NEW k \in S PROVE \E m \in S : m < k
  <2>0. PICK q \in Places : \E e, f : WalksTo(tree, a, <<x>> \o q, k, e, f)
    BY <1>1
  <2>1. PICK e, f : WalksTo(tree, a, <<x>> \o q, k, e, f)
    BY <2>0
  <2>2. PICK m \in Nat : m < k /\ WalksTo(tree, a, (<<x>> \o t) \o q, m, e, f)
    BY <2>1 DEF LeadsTo
  <2>3. (<<x>> \o t) \o q = <<x>> \o (t \o q) /\ t \o q \in Places
    BY FirstName, NamesJoin, NamesJoinThrice
  <2>4. Walks1(m)
    BY <2>2, <2>3
  <2> QED
    BY <2>2, <2>4
<1>2. S = {}
  <2> SUFFICES ASSUME S # {} PROVE FALSE
    OBVIOUS
  <2>1. S \subseteq Nat
    OBVIOUS
  <2> HIDE DEF S
  <2>2. PICK k \in S : \A m \in S : k <= m
    BY <2>1, LeastNatural
  <2>3. PICK m \in S : m < k
    BY <1>1
  <2> QED
    BY <2>1, <2>2, <2>3
<1> SUFFICES ASSUME WalksTo(tree, a, <<x>> \o r, n, end, error) PROVE FALSE
  OBVIOUS
<1>3. n \in Nat
  BY DEF WalksTo
<1>4. Walks1(n)
  OBVIOUS
<1> QED
  BY <1>2, <1>3, <1>4

(* A link that realpath is inside of, and the names that are left when it comes out. *)
Entered == [link: Places \ {<<>>}, left: Nat]

(* Who is at the directory of a link with its name before him comes to b with t before him. *)
Across(tree, link, b, t) == LeadsTo(tree, Front(link), <<Last(link)>>, b, t)

(* realpath, at a place with names before it, is still inside of a link. *)
Within(tree, entered, at, rest) ==
    \E t, r \in Places :
       rest = t \o r /\ Len(r) = entered.left /\ Across(tree, entered.link, at, t)

Nested(inside) ==
    \A i, j \in 1..Len(inside) : i <= j => inside[i].left <= inside[j].left

InsideAgrees(tree, inside, at, rest) ==
    /\ inside \in Seq(Entered)
    /\ \A i \in 1..Len(inside) : Within(tree, inside[i], at, rest)
    /\ Nested(inside)

NoLinkEnds(inside, rest) == inside = <<>> \/ Last(inside).left # Len(rest)

(* The first name of names that are in two parts. *)
LEMMA FirstOfTwo ==
    ASSUME NEW x \in STRING, NEW s \in Places, NEW r \in Places
    PROVE  LET names == (<<x>> \o s) \o r
           IN names = <<x>> \o (s \o r) /\ s \o r \in Places /\ Head(names) = x /\ Tail(names) = s \o r
<1>1. <<x>> \in Places
  BY FirstName
<1>2. s \o r \in Places
  BY NamesJoin
<1>3. (<<x>> \o s) \o r = <<x>> \o (s \o r)
  BY <1>1, NamesJoinThrice
<1> DEFINE q == s \o r
<1>4. q \in Places
  BY <1>2
<1> HIDE DEF q
<1>5. Head(<<x>> \o q) = x /\ Tail(<<x>> \o q) = q
  BY <1>4, FirstName
<1> QED
  BY <1>2, <1>3, <1>5 DEF q

LEMMA LinkIs ==
    ASSUME NEW at \in Places, NEW x \in STRING
    PROVE  LET p == Append(at, x)
           IN p \in Places \ {<<>>} /\ Front(p) = at /\ Last(p) = x
<1> DEFINE p == Append(at, x)
           m == Len(at)
<1>a. m \in Nat /\ m \in 0..m
  BY PlaceType
<1>1. /\ p \in Places /\ Len(p) = m + 1 /\ p[m + 1] = x /\ m \in Nat /\ m \in 0..m
      /\ \A n \in 0..m : Way(p, n) = Way(at, n)
  BY <1>a, GrowFacts, Zenon
<1>0. Way(at, m) = at
  BY <1>1, WayFacts
<1> HIDE DEF p
<1>2. p # <<>>
  BY <1>1, EmptySeq
<1>3. Front(p) = Way(p, Len(p) - 1)
  BY <1>1, <1>2, ParentIs
<1>4. Len(p) - 1 = m
  BY <1>1
<1>5. Front(p) = at
  BY <1>0, <1>1, <1>3, <1>4
<1>6. Last(p) = x
  BY <1>1 DEF Last
<1> QED
  BY <1>1, <1>2, <1>5, <1>6 DEF p

LEMMA StillWithin ==
    ASSUME NEW tree, NEW entered, NEW at, NEW rest \in Places, rest # <<>>,
           Within(tree, entered, at, rest), entered.left < Len(rest),
           NEW b, NEW u \in Places, LeadsTo(tree, at, <<Head(rest)>>, b, u)
    PROVE  Within(tree, entered, b, u \o Tail(rest))
<1> DEFINE link == entered.link
<1>1. PICK t, r \in Places : rest = t \o r /\ Len(r) = entered.left /\ Across(tree, link, at, t)
  BY DEF Within
<1>2. t # <<>>
  <2>1. t = <<>> => rest = r
    BY <1>1, NoNamesJoin
  <2>2. Len(r) \in Nat
    BY <1>1, PlaceType
  <2> QED
    BY <1>1, <2>1, <2>2
<1> DEFINE x == Head(t)
           q == Tail(t)
<1>3. x \in STRING /\ q \in Places /\ t = <<x>> \o q
  BY <1>1, <1>2, HeadFirst
<1> HIDE DEF x, q
<1>4. rest = (<<x>> \o q) \o r
  BY <1>1, <1>3
<1> HIDE DEF link
<1>5. q \o r \in Places /\ Head(rest) = x /\ Tail(rest) = q \o r
  <2>1. LET names == (<<x>> \o q) \o r
        IN q \o r \in Places /\ Head(names) = x /\ Tail(names) = q \o r
    BY <1>3, FirstOfTwo, Zenon
  <2> QED
    BY <1>4, <2>1, Zenon
<1>6. Across(tree, link, b, u \o q)
  BY <1>1, <1>3, <1>5, Transit DEF Across
<1>7. u \o q \in Places /\ u \o Tail(rest) = (u \o q) \o r
  <2>1. u \o q \in Places
    BY <1>3, NamesJoin
  <2>2. (u \o q) \o r = u \o (q \o r)
    BY <1>3, NamesJoinThrice
  <2> QED
    BY <1>5, <2>1, <2>2
<1>8. u \o q \in Places /\ r \in Places /\ Len(r) = entered.left
      /\ u \o Tail(rest) = (u \o q) \o r /\ Across(tree, entered.link, b, u \o q)
  BY <1>1, <1>6, <1>7 DEF link
<1> QED
  BY <1>8 DEF Within

(* How many names are left of what comes after a link it is inside of. *)
LEMMA LeftOver ==
    ASSUME NEW tree, NEW inside, NEW at, NEW rest \in Places, InsideAgrees(tree, inside, at, rest),
           NoLinkEnds(inside, rest), NEW i \in 1..Len(inside)
    PROVE  inside[i] \in Entered /\ inside[i].left \in Nat /\ inside[i].left < Len(rest)
<1> DEFINE m == Len(inside)
<1>1. inside \in Seq(Entered) /\ Nested(inside) /\ \A k \in 1..m : Within(tree, inside[k], at, rest)
  BY DEF InsideAgrees
<1>2. m \in Nat /\ \A k \in 1..m : inside[k] \in Entered
  BY <1>1, LenProperties
<1>3. m \in 1..m /\ i <= m /\ inside # <<>>
  <2>1. m # 0
    BY <1>2
  <2> QED
    BY <1>2, <2>1, EmptySeq
<1>4. Within(tree, inside[m], at, rest) /\ Last(inside) = inside[m]
  BY <1>1, <1>3 DEF Last
<1>5. inside[m].left \in Nat /\ inside[i].left \in Nat /\ inside[i].left <= inside[m].left
  BY <1>1, <1>2, <1>3 DEF Entered, Nested
<1>6. PICK t, r \in Places : rest = t \o r /\ Len(r) = inside[m].left
  BY <1>4 DEF Within
<1>7. Len(rest) \in Nat /\ inside[m].left <= Len(rest)
  <2>1. Len(rest) = Len(t) + Len(r) /\ Len(t) \in Nat /\ Len(r) \in Nat
    BY <1>6, NamesJoin, PlaceType
  <2> QED
    BY <1>6, <2>1
<1>8. inside[m].left # Len(rest)
  BY <1>3, <1>4 DEF NoLinkEnds
<1> QED
  BY <1>2, <1>5, <1>7, <1>8

LEMMA InsideStays ==
    ASSUME NEW tree, NEW inside, NEW at, NEW rest \in Places, rest # <<>>,
           InsideAgrees(tree, inside, at, rest), NoLinkEnds(inside, rest),
           NEW b, NEW u \in Places, LeadsTo(tree, at, <<Head(rest)>>, b, u)
    PROVE  InsideAgrees(tree, inside, b, u \o Tail(rest))
<1>1. ASSUME NEW i \in 1..Len(inside) PROVE Within(tree, inside[i], b, u \o Tail(rest))
  <2>1. inside[i].left < Len(rest)
    BY LeftOver
  <2>2. Within(tree, inside[i], at, rest)
    BY DEF InsideAgrees
  <2> QED
    BY <2>1, <2>2, StillWithin
<1> QED
  BY <1>1 DEF InsideAgrees

LEMMA InsideEnters ==
    ASSUME NEW tree, NEW inside, NEW at \in Places, NEW rest \in Places, rest # <<>>,
           InsideAgrees(tree, inside, at, rest), NoLinkEnds(inside, rest),
           NEW b, NEW u \in Places, LeadsTo(tree, at, <<Head(rest)>>, b, u)
    PROVE  LET now == Append(inside, [link |-> Append(at, Head(rest)), left |-> Len(rest) - 1])
           IN InsideAgrees(tree, now, b, u \o Tail(rest)) /\ Len(now) = Len(inside) + 1
<1> DEFINE x == Head(rest)
           link == Append(at, x)
           q == Tail(rest)
           left == Len(rest) - 1
           entered == [link |-> link, left |-> left]
           now == Append(inside, entered)
           m == Len(inside)
<1>1. x \in STRING /\ q \in Places /\ Len(q) = left /\ left \in Nat /\ left + 1 = Len(rest)
  <2>1. Head(rest) \in STRING /\ Tail(rest) \in Places /\ Len(Tail(rest)) = Len(rest) - 1
    BY HeadFirst
  <2>2. Len(Tail(rest)) \in Nat /\ Len(rest) \in Nat
    BY <2>1, PlaceType
  <2> QED
    BY <2>1, <2>2
<1>2. link \in Places \ {<<>>} /\ Front(link) = at /\ Last(link) = x
  BY <1>1, LinkIs
<1>3. LeadsTo(tree, at, <<x>>, b, u)
  OBVIOUS
<1> HIDE DEF x, link, q, left
<1>4. entered \in Entered /\ entered.link = link /\ entered.left = left
  BY <1>1, <1>2 DEF Entered
<1> HIDE DEF entered
<1>5. inside \in Seq(Entered) /\ m \in Nat /\ Nested(inside)
  BY LenProperties DEF InsideAgrees
<1>6. /\ now \in Seq(Entered) /\ Len(now) = m + 1 /\ now[m + 1] = entered
      /\ \A k \in 1..m : now[k] = inside[k]
  <2>1. Appends(Entered)
    BY AppendIs
  <2> QED
    BY <1>4, <1>5, <2>1 DEF Appends
<1> HIDE DEF now
<1>7. Within(tree, entered, b, u \o q)
  BY <1>1, <1>2, <1>3, <1>4 DEF Within, Across
<1>8. \A i \in 1..m : Within(tree, inside[i], b, u \o q) /\ inside[i].left \in Nat /\ inside[i].left < left + 1
  <2> TAKE i \in 1..m
  <2>1. InsideAgrees(tree, inside, b, u \o Tail(rest))
    BY InsideStays
  <2>2. Within(tree, inside[i], b, u \o q)
    BY <2>1 DEF InsideAgrees, q
  <2>3. inside[i].left \in Nat /\ inside[i].left < Len(rest)
    BY LeftOver
  <2> QED
    BY <1>1, <2>2, <2>3
<1> HIDE DEF m
<1>9. \A i \in 1..(m + 1) : i \in 1..m \/ i = m + 1
  BY <1>5
<1>10. ASSUME NEW i \in 1..(m + 1) PROVE Within(tree, now[i], b, u \o q)
  BY <1>6, <1>7, <1>8, <1>9
<1>11. Nested(now)
  <2> SUFFICES ASSUME NEW i \in 1..(m + 1), NEW j \in 1..(m + 1), i <= j
               PROVE  now[i].left <= now[j].left
    BY <1>6 DEF Nested
  <2>1. CASE j \in 1..m
    <3>1. i \in 1..m
      BY <1>5, <2>1
    <3> QED
      BY <1>5, <1>6, <2>1, <3>1 DEF Nested, m
  <2>2. CASE j = m + 1 /\ i \in 1..m
    BY <1>1, <1>4, <1>6, <1>8, <2>2
  <2>3. CASE j = m + 1 /\ i = m + 1
    BY <1>1, <1>4, <1>6, <2>3
  <2> QED
    BY <1>9, <2>1, <2>2, <2>3
<1>12. InsideAgrees(tree, now, b, u \o q)
  BY <1>6, <1>10, <1>11 DEF InsideAgrees
<1> QED
  BY <1>6, <1>12 DEF now, entered, link, left, q, x, m

(* The names of a link are used up: it has led to where realpath is. *)
LEMMA InsideLeaves ==
    ASSUME NEW tree, NEW inside, NEW at, NEW rest \in Places, inside # <<>>,
           InsideAgrees(tree, inside, at, rest), Last(inside).left = Len(rest)
    PROVE  /\ InsideAgrees(tree, Front(inside), at, rest) /\ Len(Front(inside)) = Len(inside) - 1
           /\ Last(inside).link \in Places \ {<<>>} /\ Across(tree, Last(inside).link, at, <<>>)
<1> DEFINE m == Len(inside)
           now == Front(inside)
<1>1. inside \in Seq(Entered) /\ Nested(inside) /\ \A k \in 1..m : Within(tree, inside[k], at, rest)
  BY DEF InsideAgrees
<1>2. m \in Nat /\ m # 0 /\ (\A k \in 1..m : inside[k] \in Entered)
  BY <1>1, LenProperties, EmptySeq
<1>3. Last(inside) = inside[m] /\ m \in 1..m
  BY <1>2 DEF Last
<1>4. PICK t, r \in Places : rest = t \o r /\ Len(r) = inside[m].left /\ Across(tree, inside[m].link, at, t)
  BY <1>1, <1>3 DEF Within
<1>5. t = <<>>
  <2>1. Len(rest) = Len(t) + Len(r) /\ Len(t) \in Nat /\ Len(r) \in Nat /\ Len(r) = Len(rest)
    BY <1>3, <1>4, NamesJoin, PlaceType
  <2>2. Len(t) = 0
    BY <2>1
  <2> QED
    BY <2>2, EmptySeq DEF Places
<1>6. inside[m].link \in Places \ {<<>>}
  BY <1>2, <1>3 DEF Entered
<1>7. /\ now \in Seq(Entered) /\ Len(now) = m - 1 /\ \A k \in 1..(m - 1) : now[k] = inside[k]
  <2>1. now = SubSeq(inside, 1, m - 1)
    BY DEF Front
  <2>2. m - 1 \in Int /\ 1 \in Int /\ \A k \in 1..(m - 1) : k \in 1..m
    BY <1>2
  <2>3. \A k \in 1..(m - 1) : inside[k] \in Entered
    BY <1>2, <2>2
  <2> DEFINE n == m - 1
  <2> HIDE DEF n, m
  <2>4. /\ SubSeq(inside, 1, n) \in Seq(Entered)
        /\ Len(SubSeq(inside, 1, n)) = IF 1 <= n THEN n - 1 + 1 ELSE 0
        /\ \A k \in 1..n - 1 + 1 : SubSeq(inside, 1, n)[k] = inside[1 + k - 1]
    BY <1>1, <2>2, <2>3, SubSeqProperties DEF n
  <2>5. n \in Nat
    BY <1>2 DEF n
  <2>6. (IF 1 <= n THEN n - 1 + 1 ELSE 0) = n /\ (\A k \in 1..n : 1 + k - 1 = k) /\ n - 1 + 1 = n
    BY <2>5
  <2> QED
    BY <2>1, <2>4, <2>6 DEF n
<1> HIDE DEF now
<1>8. \A k \in 1..(m - 1) : k \in 1..m
  BY <1>2
<1> HIDE DEF m
<1>9. InsideAgrees(tree, now, at, rest)
  <2>1. \A k \in 1..Len(now) : Within(tree, now[k], at, rest)
    BY <1>1, <1>7, <1>8
  <2>2. Nested(now)
    <3> SUFFICES ASSUME NEW i \in 1..(m - 1), NEW j \in 1..(m - 1), i <= j
                 PROVE  now[i].left <= now[j].left
      BY <1>7 DEF Nested
    <3>1. i \in 1..m /\ j \in 1..m
      BY <1>8
    <3> QED
      BY <1>1, <1>7, <3>1 DEF Nested, m
  <2> QED
    BY <1>7, <2>1, <2>2 DEF InsideAgrees
<1> QED
  BY <1>3, <1>4, <1>5, <1>6, <1>7, <1>9 DEF now, m

(* A link met again inside of itself: the kernel does not arrive either. *)
LEMMA InsideAgain ==
    ASSUME NEW tree, NEW inside, NEW at \in Places, NEW rest \in Places, rest # <<>>,
           InsideAgrees(tree, inside, at, rest), NoLinkEnds(inside, rest),
           NEW i \in 1..Len(inside), inside[i].link = Append(at, Head(rest)),
           NEW r \in Places, NEW n, NEW end, NEW error
    PROVE  ~ WalksTo(tree, at, <<Head(rest)>> \o r, n, end, error)
<1> DEFINE x == Head(rest)
<1>1. x \in STRING
  BY HeadFirst
<1>2. Front(inside[i].link) = at /\ Last(inside[i].link) = x
  BY <1>1, LinkIs
<1>3. PICK t, q \in Places : /\ rest = t \o q /\ Len(q) = inside[i].left
                             /\ Across(tree, inside[i].link, at, t)
  BY DEF InsideAgrees, Within
<1>4. LeadsTo(tree, at, <<x>>, at, t)
  BY <1>2, <1>3 DEF Across
<1>5. t # <<>>
  <2>1. t = <<>> => rest = q
    BY <1>3, NoNamesJoin
  <2>2. inside[i].left \in Nat /\ inside[i].left < Len(rest)
    BY LeftOver
  <2> QED
    BY <1>3, <2>1, <2>2
<1> DEFINE y == Head(t)
           s == Tail(t)
<1>6. y \in STRING /\ s \in Places /\ t = <<y>> \o s
  BY <1>3, <1>5, HeadFirst
<1> HIDE DEF y, s
<1>7. rest = (<<y>> \o s) \o q
  BY <1>3, <1>6, Zenon
<1>8. x = y
  BY <1>6, <1>7, FirstOfTwo
<1> HIDE DEF x
<1>9. LeadsTo(tree, at, <<x>>, at, <<x>> \o s)
  BY <1>4, <1>6, <1>8
<1>10. ~ WalksTo(tree, at, <<x>> \o r, n, end, error)
  BY <1>1, <1>6, <1>9, NoWayRound
<1> QED
  BY <1>10 DEF x

KnownAgrees(tree, known) ==
    \A p \in DOMAIN known : p \in Places \ {<<>>} /\ Across(tree, p, known[p], <<>>)

(* If the kernel arrives with the names it is given, it does so from where realpath is. *)
CourseAgrees(tree, names, at, rest) ==
    \A n, end, error :
       WalksTo(tree, <<>>, names, n, end, error) => \E m : WalksTo(tree, at, rest, m, end, error)

(***************************************************************************)
(* What realpath has resolved, the links it is inside of and the ends of   *)
(* those it has come out of are what the kernel makes of them.             *)
(***************************************************************************)
Agrees(tree, w) ==
    /\ InsideAgrees(tree, w.inside, w.at, w.rest)
    /\ KnownAgrees(tree, w.known)
    /\ CourseAgrees(tree, w.names, w.at, w.rest)

LEMMA CourseGoes ==
    ASSUME NEW tree, NEW names, NEW at, NEW rest \in Places, rest # <<>>,
           CourseAgrees(tree, names, at, rest),
           NEW b, NEW u \in Places, LeadsTo(tree, at, <<Head(rest)>>, b, u)
    PROVE  CourseAgrees(tree, names, b, u \o Tail(rest))
<1> SUFFICES ASSUME NEW n, NEW end, NEW error, WalksTo(tree, <<>>, names, n, end, error)
             PROVE  \E m : WalksTo(tree, b, u \o Tail(rest), m, end, error)
  BY DEF CourseAgrees
<1>1. PICK k : WalksTo(tree, at, rest, k, end, error)
  BY DEF CourseAgrees
<1>2. Head(rest) \in STRING /\ Tail(rest) \in Places /\ rest = <<Head(rest)>> \o Tail(rest)
  BY HeadFirst
<1>3. PICK m \in Nat : m < k /\ WalksTo(tree, b, u \o Tail(rest), m, end, error)
  BY <1>1, <1>2 DEF LeadsTo
<1> QED
  BY <1>3

(* A node that lstat() finds is the one that is there. *)
LEMMA LookFinds ==
    ASSUME NEW tree, TreeTyped(tree), NEW at, Solid(tree, at), NEW x \in STRING, x # "..",
           Lstat(tree, Append(at, x)).kind \in Things \cup {"link"}
    PROVE  Lstat(tree, Append(at, x)) = Node(tree, Append(at, x))
<1> DEFINE p == Append(at, x)
           found == Lstat(tree, p)
           open == Node(tree, at).kind = "directory" /\ Len(at) < MaxNames
<1>1. IF open
      THEN IF Node(tree, p) = Nothing THEN found.kind = "ENOENT" ELSE found = Node(tree, p)
      ELSE found.kind \in {"EACCES", "ENOTDIR", "ELOOP"}
  BY LookSees
<1>2. found.kind \notin {"EACCES", "ENOTDIR", "ELOOP", "ENOENT"}
  BY DEF Things
<1> HIDE DEF found, open
<1> QED
  BY <1>1, <1>2 DEF found

(* What it does not find the kernel does not find either. *)
LEMMA LookMisses ==
    ASSUME NEW tree, TreeTyped(tree), NEW at, Solid(tree, at), NEW x \in STRING, x # "..",
           NEW t \in Places, NEW n, NEW end, NEW error, WalksTo(tree, at, <<x>> \o t, n, end, error)
    PROVE  LET kind == Lstat(tree, Append(at, x)).kind
           IN /\ kind \in Things \cup {"link", "ENOENT"}
              /\ kind = "ENOENT" => error = "ENOENT"
<1> DEFINE p == Append(at, x)
           node == Node(tree, p)
           found == Lstat(tree, p)
           open == Node(tree, at).kind = "directory" /\ Len(at) < MaxNames
<1>1. IF open THEN IF node = Nothing THEN found.kind = "ENOENT" ELSE found = node
      ELSE found.kind \in {"EACCES", "ENOTDIR", "ELOOP"}
  BY LookSees
<1>2. at \in Places
  BY DEF Solid
<1>3. open /\ (node = Nothing => error = "ENOENT")
  BY <1>2, FirstStep
<1>4. node \in TreeNodes
  BY NodeType
<1>5. node.kind \in {"none"} \cup Things \cup {"link"} /\ (node.kind = "none" <=> node = Nothing)
  BY <1>4, NodeKinds DEF Things
<1> HIDE DEF p, node, found, open
<1>6. "ENOENT" \notin Things \cup {"link"}
  BY DEF Things
<1>7. found.kind \in Things \cup {"link", "ENOENT"} /\ (found.kind = "ENOENT" => error = "ENOENT")
  BY <1>1, <1>3, <1>5, <1>6
<1> QED
  BY <1>7 DEF p, found

LEMMA RestOf ==
    ASSUME WalkTyped(walk), Going
    PROVE  /\ walk.at \in Places /\ walk.rest \in Places /\ walk.rest # <<>>
           /\ Head(walk.rest) \in STRING /\ Tail(walk.rest) \in Places
           /\ walk.rest = <<Head(walk.rest)>> \o Tail(walk.rest)
           /\ NoLinkEnds(walk.inside, walk.rest)
<1>1. walk.at \in Places /\ walk.rest \in Places /\ walk.rest # <<>>
  BY DEF WalkTyped, Going
<1>2. NoLinkEnds(walk.inside, walk.rest)
  BY DEF Going, LinkEnds, InLink, NoLinkEnds
<1> QED
  BY <1>1, <1>2, HeadFirst

LEMMA AgreesOn ==
    ASSUME WalkTyped(walk), TreeTyped(fs), Solid(fs, walk.at), Agrees(fs, walk),
           NEW python, Resolve(python)
    PROVE  Agrees(fs, walk')
<1> DEFINE at == walk.at
           rest == walk.rest
           inside == walk.inside
           known == walk.known
           names == walk.names
           x == Head(rest)
<1>0. /\ InsideAgrees(fs, inside, at, rest) /\ KnownAgrees(fs, known)
      /\ CourseAgrees(fs, names, at, rest)
  BY DEF Agrees
<1>1. CASE \/ Scan \/ Contain \/ LookFails(python)
  <2>1. \/ walk' = [walk EXCEPT !.step = "look"]
        \/ walk' = [walk EXCEPT !.step = "look", !.symlink = TRUE]
        \/ walk' = [walk EXCEPT !.scanned = walk.scanned + 1]
        \/ \E verdict : walk' = [walk EXCEPT !.step = "done", !.verdict = verdict]
    BY <1>1 DEF Scan, Contain, LookFails, End
  <2>2. /\ walk'.at = at /\ walk'.rest = rest /\ walk'.inside = inside /\ walk'.known = known
        /\ walk'.names = names
    BY <2>1 DEF WalkTyped, WalkFields
  <2> QED
    BY <1>0, <2>2 DEF Agrees
<1>2. CASE LeaveLink
  <2> DEFINE link == Last(inside).link
             now == Put(known, link, at)
             out == Front(inside)
  <2>1. inside # <<>> /\ Last(inside).left = Len(rest) /\ walk' = [walk EXCEPT !.inside = out, !.known = now]
    BY <1>2 DEF LeaveLink, LinkEnds, InLink
  <2>2. rest \in Places
    BY DEF WalkTyped
  <2>3. InsideAgrees(fs, out, at, rest) /\ link \in Places \ {<<>>} /\ Across(fs, link, at, <<>>)
    BY <1>0, <2>1, <2>2, InsideLeaves
  <2>4. KnownAgrees(fs, now)
    <3> HIDE DEF link, at, known
    <3>1. DOMAIN now = DOMAIN known \cup {link}
          /\ \A p \in DOMAIN now : now[p] = IF p = link THEN at ELSE known[p]
      BY DEF Put
    <3> HIDE DEF now
    <3> QED
      BY <1>0, <2>3, <3>1 DEF KnownAgrees
  <2> HIDE DEF now, out
  <2>5. /\ walk'.at = at /\ walk'.rest = rest /\ walk'.inside = out /\ walk'.known = now
        /\ walk'.names = names
    BY <2>1 DEF WalkTyped, WalkFields
  <2> QED
    BY <1>0, <2>3, <2>4, <2>5 DEF Agrees
<1>3. ASSUME Going, NEW b, LeadsTo(fs, at, <<x>>, b, <<>>),
             walk' = [walk EXCEPT !.at = b, !.rest = Tail(walk.rest)]
      PROVE  Agrees(fs, walk')
  <2> DEFINE q == Tail(rest)
  <2>1. rest \in Places /\ rest # <<>> /\ NoLinkEnds(inside, rest) /\ q \in Places
    BY <1>3, RestOf
  <2>2. <<>> \in Places /\ <<>> \o q = q
    BY <2>1, NoNames, NoNamesJoin
  <2>3. InsideAgrees(fs, inside, b, <<>> \o q)
    BY <1>0, <1>3, <2>1, <2>2, InsideStays
  <2>4. CourseAgrees(fs, names, b, <<>> \o q)
    BY <1>0, <1>3, <2>1, <2>2, CourseGoes
  <2>5. walk' = [walk EXCEPT !.at = b, !.rest = q]
    BY <1>3
  <2> HIDE DEF q
  <2>6. /\ walk'.at = b /\ walk'.rest = q /\ walk'.inside = inside /\ walk'.known = known
        /\ walk'.names = names
    BY <2>5 DEF WalkTyped, WalkFields
  <2> QED
    BY <1>0, <2>2, <2>3, <2>4, <2>6 DEF Agrees
<1>4. CASE GoUp
  <2>1. Going /\ x = ".." /\ walk' = [walk EXCEPT !.at = Up(at), !.rest = Tail(rest)]
    BY <1>4 DEF GoUp
  <2>2. at \in Places /\ x \in STRING
    BY <2>1, RestOf
  <2>3. LeadsTo(fs, at, <<x>>, Up(at), <<>>)
    BY <2>1, <2>2, OneName
  <2> QED
    BY <1>3, <2>1, <2>3
<1>5. ASSUME Looking
      PROVE  /\ Going /\ x # ".." /\ at \in Places /\ x \in STRING /\ There = Append(at, x)
             /\ Look.kind \in Things \cup {"link"} => Look = Node(fs, There)
  <2>1. Going /\ x # ".." /\ There = Append(at, x) /\ Look = Lstat(fs, There)
    BY <1>5 DEF Looking, There, Look
  <2>2. at \in Places /\ x \in STRING
    BY <2>1, RestOf
  <2>3. Look.kind \in Things \cup {"link"} => Look = Node(fs, There)
    <3> DEFINE tree == fs
    <3>1. TreeTyped(tree) /\ Solid(tree, at) /\ x \in STRING /\ x # ".."
      BY <2>1, <2>2
    <3> HIDE DEF tree, at, x
    <3>2. Lstat(tree, Append(at, x)).kind \in Things \cup {"link"} =>
             Lstat(tree, Append(at, x)) = Node(tree, Append(at, x))
      BY <3>1, LookFinds, Zenon
    <3> QED
      BY <2>1, <3>2 DEF tree
  <2> QED
    BY <2>1, <2>2, <2>3
<1>6. CASE GoOn
  <2>1. Looking /\ Look.kind \in Things /\ walk' = [walk EXCEPT !.at = There, !.rest = Tail(rest)]
    BY <1>6 DEF GoOn, Things
  <2>2. Node(fs, Append(at, x)).kind \in Things
    BY <1>5, <2>1
  <2>3. LeadsTo(fs, at, <<x>>, There, <<>>)
    BY <1>5, <2>1, <2>2, OneName
  <2> QED
    BY <1>3, <1>5, <2>1, <2>3
<1>7. CASE KnownLink
  <2>1. Looking /\ There \in DOMAIN known /\ walk' = [walk EXCEPT !.at = known[There], !.rest = Tail(rest)]
    BY <1>7 DEF KnownLink
  <2>2. Across(fs, There, known[There], <<>>)
    BY <1>0, <2>1 DEF KnownAgrees
  <2>3. Front(There) = at /\ Last(There) = x
    BY <1>5, <2>1, LinkIs
  <2>4. LeadsTo(fs, at, <<x>>, known[There], <<>>)
    BY <2>2, <2>3 DEF Across
  <2> QED
    BY <1>3, <1>5, <2>1, <2>4
<1>8. CASE EnterLink
  <2> DEFINE b == IF Look.to.absolute THEN <<>> ELSE at
             u == Look.to.names
             q == u \o Tail(rest)
             now == Append(inside, [link |-> There, left |-> Len(rest) - 1])
  <2>1. Looking /\ Look.kind = "link" /\ walk' = [walk EXCEPT !.at = b, !.rest = q, !.inside = now]
    BY <1>8 DEF EnterLink
  <2>2. Look = Node(fs, Append(at, x)) /\ Node(fs, Append(at, x)) \in TreeNodes
    BY <1>5, <2>1, NodeType
  <2>3. u \in Places
    BY <2>1, <2>2, NodeKinds
  <2>4. LeadsTo(fs, at, <<x>>, b, u)
    BY <1>5, <2>1, <2>2, OneName
  <2>5. at \in Places /\ rest \in Places /\ rest # <<>> /\ NoLinkEnds(inside, rest)
    BY <1>5, <2>1, RestOf
  <2>6. CourseAgrees(fs, names, b, q)
    BY <1>0, <2>3, <2>4, <2>5, CourseGoes
  <2>7. InsideAgrees(fs, now, b, q)
    <3>1. There = Append(at, Head(rest))
      BY <1>5, <2>1
    <3>2. InsideAgrees(fs, Append(inside, [link |-> Append(at, Head(rest)), left |-> Len(rest) - 1]), b, q)
      BY <1>0, <2>3, <2>4, <2>5, InsideEnters
    <3> QED
      BY <3>1, <3>2
  <2> HIDE DEF b, u, q, now
  <2>8. /\ walk'.at = b /\ walk'.rest = q /\ walk'.inside = now /\ walk'.known = known
        /\ walk'.names = names
    BY <2>1 DEF WalkTyped, WalkFields
  <2> QED
    BY <1>0, <2>6, <2>7, <2>8 DEF Agrees
<1> QED
  BY <1>1, <1>2, <1>4, <1>6, <1>7, <1>8 DEF Resolve

(* The kernel arrives at nothing, or does not arrive. *)
Missing(tree, at, rest) ==
    \A n, end, error : WalksTo(tree, at, rest, n, end, error) => error = "ENOENT"
NeverArrives(tree, at, rest) ==
    \A n, end, error : ~ WalksTo(tree, at, rest, n, end, error)

VerdictAgrees(tree, w) ==
    w.step = "done" =>
       /\ w.verdict \in {"resolved", "SymlinkEscapeError", "PathEscapeError"} => w.rest = <<>>
       /\ w.verdict \in {"SymlinkEscapeError", "PathEscapeError"} => ~ IsPrefix(w.root, w.at)
       /\ w.verdict = "SymlinkEscapeError" => w.symlink
       /\ w.verdict = "WorkspacePathNotFoundError" => Missing(tree, w.at, w.rest)
       /\ w.verdict = "OSError" => NeverArrives(tree, w.at, w.rest)

(* had_symlink is right about the names that it has looked at. *)
LinkIn(tree, root, names) ==
    \E i \in (Len(root) + 1)..Len(names) : Lstat(tree, Way(names, i)).kind = "link"
ScanAgrees(tree, w) ==
    /\ w.scanned \in Nat /\ Len(w.root) <= w.scanned
    /\ IsPrefix(w.root, w.names) => w.scanned <= Len(w.names)
    /\ w.symlink \in BOOLEAN
    /\ w.symlink => LinkIn(tree, w.root, w.names)

(* Why an error ends the resolution. *)
LEMMA WhyItFails ==
    ASSUME WalkTyped(walk), TreeTyped(fs), Solid(fs, walk.at), Agrees(fs, walk),
           Looking, LookError \in Errors
    PROVE  /\ LookError \in {"none", "ENOENT"} => Missing(fs, walk.at, walk.rest)
           /\ LookError \notin {"none", "ENOENT"} => NeverArrives(fs, walk.at, walk.rest)
<1> DEFINE at == walk.at
           rest == walk.rest
           inside == walk.inside
           x == Head(rest)
           q == Tail(rest)
<1>1. Going /\ x # ".." /\ There = Append(at, x) /\ Look = Lstat(fs, There)
  BY DEF Looking, There, Look
<1>2. /\ at \in Places /\ rest \in Places /\ rest # <<>> /\ x \in STRING /\ q \in Places
      /\ rest = <<x>> \o q /\ NoLinkEnds(inside, rest)
  BY <1>1, RestOf
<1>3. CASE Look.kind = "link" /\ Again
  <2>1. PICK i \in 1..Len(inside) : inside[i].link = Append(at, x)
    <3>1. inside \in Seq(Entered)
      BY DEF Agrees, InsideAgrees
    <3>2. DOMAIN inside = 1..Len(inside)
      BY <3>1, LenProperties
    <3> QED
      BY <1>1, <1>3, <3>2 DEF Again
  <2>2. InsideAgrees(fs, inside, at, rest)
    BY DEF Agrees
  <2>3. NeverArrives(fs, at, <<x>> \o q)
    BY <1>2, <2>1, <2>2, InsideAgain DEF NeverArrives
  <2> QED
    BY <1>2, <2>3 DEF NeverArrives, Missing
<1>4. CASE ~ (Look.kind = "link" /\ Again)
  <2>1. LookError = Look.kind
    BY <1>4 DEF LookError
  <2>2. ASSUME NEW n, NEW end, NEW error, WalksTo(fs, at, rest, n, end, error)
        PROVE  /\ Look.kind \in Things \cup {"link", "ENOENT"}
               /\ Look.kind = "ENOENT" => error = "ENOENT"
    <3> DEFINE tree == fs
    <3>1. TreeTyped(tree) /\ Solid(tree, at) /\ WalksTo(tree, at, <<x>> \o q, n, end, error)
      BY <1>2, <2>2
    <3> HIDE DEF tree, at, x, q
    <3>2. LET kind == Lstat(tree, Append(at, x)).kind
          IN kind \in Things \cup {"link", "ENOENT"} /\ (kind = "ENOENT" => error = "ENOENT")
      BY <1>1, <1>2, <3>1, LookMisses, Zenon
    <3> QED
      BY <1>1, <3>2 DEF tree
  <2>3. Look.kind \in Errors /\ Errors \cap (Things \cup {"link"}) = {}
    BY <2>1 DEF Errors, Things
  <2> HIDE DEF at, rest
  <2>4. Look.kind \in Things \cup {"link", "ENOENT"} => Look.kind = "ENOENT"
    BY <2>3
  <2>5. Look.kind = "ENOENT" => Missing(fs, at, rest)
    BY <2>2 DEF Missing
  <2>6. Look.kind # "ENOENT" => NeverArrives(fs, at, rest)
    BY <2>2, <2>4 DEF NeverArrives
  <2>7. NeverArrives(fs, at, rest) => Missing(fs, at, rest)
    BY DEF NeverArrives, Missing
  <2> QED
    BY <2>1, <2>5, <2>6, <2>7 DEF at, rest
<1> QED
  BY <1>3, <1>4

LEMMA VerdictsOn ==
    ASSUME WalkTyped(walk), TreeTyped(fs), Solid(fs, walk.at), Agrees(fs, walk),
           NEW python, Resolve(python)
    PROVE  VerdictAgrees(fs, walk')
<1>1. walk'.step = "done" => LookFails(python) \/ Contain
  <2>1. CASE \/ Scan \/ LeaveLink \/ GoUp \/ GoOn \/ KnownLink \/ EnterLink
    <3>1. \/ walk'.step = walk.step /\ walk.step # "done"
          \/ walk'.step = "look"
      BY <2>1 DEF Scan, LeaveLink, GoUp, GoOn, KnownLink, EnterLink, Looking, Going, WalkTyped, WalkFields
    <3> QED
      BY <3>1
  <2> QED
    BY <2>1 DEF Resolve
<1>2. ASSUME NEW verdict, End(verdict)
      PROVE  /\ walk'.step = "done" /\ walk'.verdict = verdict /\ walk'.at = walk.at /\ walk'.rest = walk.rest
             /\ walk'.root = walk.root /\ walk'.symlink = walk.symlink
  BY <1>2 DEF End, WalkTyped, WalkFields
<1>3. CASE LookFails(python)
  <2> DEFINE verdict == IF LookError \in {"none", "ENOENT"} THEN "WorkspacePathNotFoundError"
                        ELSE IF LookError = "ELOOP" /\ python = "3.12" THEN "PathSecurityError"
                        ELSE "OSError"
  <2>1. Looking /\ LookError \in Errors /\ End(verdict)
    BY <1>3 DEF LookFails
  <2>2. /\ verdict = "WorkspacePathNotFoundError" => LookError \in {"none", "ENOENT"}
        /\ verdict = "OSError" => LookError \notin {"none", "ENOENT"}
        /\ verdict \notin {"resolved", "SymlinkEscapeError", "PathEscapeError"}
    OBVIOUS
  <2> HIDE DEF verdict
  <2>3. /\ LookError \in {"none", "ENOENT"} => Missing(fs, walk.at, walk.rest)
        /\ LookError \notin {"none", "ENOENT"} => NeverArrives(fs, walk.at, walk.rest)
    BY <2>1, WhyItFails
  <2> QED
    BY <1>2, <2>1, <2>2, <2>3 DEF VerdictAgrees
<1>4. CASE Contain
  <2> DEFINE verdict == IF IsPrefix(walk.root, walk.at) THEN "resolved"
                        ELSE IF walk.symlink THEN "SymlinkEscapeError" ELSE "PathEscapeError"
  <2>1. walk.rest = <<>> /\ End(verdict)
    BY <1>4 DEF Contain
  <2>2. /\ verdict \in {"SymlinkEscapeError", "PathEscapeError"} => ~ IsPrefix(walk.root, walk.at)
        /\ verdict = "SymlinkEscapeError" => walk.symlink
        /\ verdict \notin {"WorkspacePathNotFoundError", "OSError"}
    OBVIOUS
  <2> HIDE DEF verdict
  <2> QED
    BY <1>2, <2>1, <2>2 DEF VerdictAgrees
<1> QED
  BY <1>1, <1>3, <1>4 DEF VerdictAgrees

LEMMA ScanOn ==
    ASSUME WalkTyped(walk), ScanAgrees(fs, walk), NEW python, Resolve(python)
    PROVE  ScanAgrees(fs, walk')
<1> DEFINE root == walk.root
           names == walk.names
           n == walk.scanned
<1>1. root \in Places /\ names \in Places /\ Len(root) \in Nat /\ Len(names) \in Nat
  BY PlaceType DEF WalkTyped
<1>2. n \in Nat /\ Len(root) <= n /\ (IsPrefix(root, names) => n <= Len(names))
  BY DEF ScanAgrees
<1>3. ASSUME walk'.root = root, walk'.names = names, walk'.scanned = n, walk'.symlink = walk.symlink
      PROVE  ScanAgrees(fs, walk')
  BY <1>3 DEF ScanAgrees
<1>4. CASE Scan
  <2> DEFINE next == Lstat(fs, Way(names, n + 1))
             over == ~ IsPrefix(root, names) \/ n = Len(names) \/ next.kind = "EACCES"
  <2>1. walk' = IF over THEN [walk EXCEPT !.step = "look"]
                ELSE IF next.kind = "link" THEN [walk EXCEPT !.step = "look", !.symlink = TRUE]
                ELSE [walk EXCEPT !.scanned = n + 1]
    BY <1>4 DEF Scan, Way
  <2>2. ~ over => IsPrefix(root, names) /\ n + 1 \in (Len(root) + 1)..Len(names) /\ n + 1 <= Len(names)
    BY <1>1, <1>2
  <2>3. n + 1 \in Nat /\ Len(root) <= n + 1
    BY <1>1, <1>2
  <2>4. ~ over /\ next.kind = "link" => LinkIn(fs, root, names)
    BY <2>2 DEF LinkIn
  <2> HIDE DEF over, next
  <2>5. CASE over
    <3>1. walk' = [walk EXCEPT !.step = "look"]
      BY <2>1, <2>5
    <3>2. walk'.root = root /\ walk'.names = names /\ walk'.scanned = n /\ walk'.symlink = walk.symlink
      BY <3>1 DEF WalkTyped, WalkFields
    <3> QED
      BY <1>3, <3>2
  <2>6. CASE ~ over /\ next.kind = "link"
    <3>1. walk' = [walk EXCEPT !.step = "look", !.symlink = TRUE]
      BY <2>1, <2>6
    <3>2. walk'.root = root /\ walk'.names = names /\ walk'.scanned = n /\ walk'.symlink = TRUE
      BY <3>1 DEF WalkTyped, WalkFields
    <3> HIDE DEF root, names, n
    <3> QED
      BY <1>2, <2>4, <2>6, <3>2 DEF ScanAgrees
  <2>7. CASE ~ over /\ next.kind # "link"
    <3>1. walk' = [walk EXCEPT !.scanned = n + 1]
      BY <2>1, <2>7
    <3>2. walk'.root = root /\ walk'.names = names /\ walk'.scanned = n + 1 /\ walk'.symlink = walk.symlink
      BY <3>1 DEF WalkTyped, WalkFields
    <3>3. walk.symlink \in BOOLEAN /\ (walk.symlink => LinkIn(fs, root, names))
      BY DEF ScanAgrees
    <3> HIDE DEF root, names, n
    <3> QED
      BY <2>2, <2>3, <2>7, <3>2, <3>3 DEF ScanAgrees
  <2> QED
    BY <2>5, <2>6, <2>7
<1>5. CASE \/ LeaveLink \/ GoUp \/ GoOn \/ KnownLink \/ EnterLink \/ LookFails(python) \/ Contain
  <2>1. walk'.root = root /\ walk'.names = names /\ walk'.scanned = n /\ walk'.symlink = walk.symlink
    BY <1>5 DEF LeaveLink, GoUp, GoOn, KnownLink, EnterLink, LookFails, Contain, End, WalkTyped, WalkFields
  <2> QED
    BY <1>3, <2>1
<1> QED
  BY <1>4, <1>5 DEF Resolve

(* A path below a root without links, in which the scan has found no link. *)
Plain(tree, w) ==
    Solid(tree, w.root) /\ IsPrefix(w.root, w.names) /\ ~ w.symlink /\ w.step # "done"

(* realpath goes along the names of a plain path, and only as far as the scan. *)
PlainAgrees(tree, w) ==
    Plain(tree, w) =>
       /\ w.inside = <<>>
       /\ \E k \in 0..w.scanned : w.at = Way(w.names, k) /\ w.rest = Left(w.names, k)
       /\ \A i \in (Len(w.root) + 1)..Len(w.names) : w.names[i] # ".."
       /\ \A i \in (Len(w.root) + 1)..w.scanned : Lstat(tree, Way(w.names, i)).kind # "link"
       /\ w.step = "look" =>
             w.scanned = Len(w.names) \/ Lstat(tree, Way(w.names, w.scanned + 1)).kind = "EACCES"

EscapeAgrees(tree, w) ==
    w.step = "done" /\ w.verdict = "PathEscapeError" =>
       ~ (Solid(tree, w.root) /\ IsPrefix(w.root, w.names))

(* On the way to a root without links there is no link and no "..". *)
LEMMA WayToRoot ==
    ASSUME NEW tree, TreeTyped(tree), NEW root, Solid(tree, root), NEW names \in Places,
           IsPrefix(root, names), NEW i \in 1..Len(root)
    PROVE  names[i] # ".." /\ Lstat(tree, Way(names, i)).kind # "link"
<1> DEFINE m == Len(root)
           p == Way(names, i)
<1>1. root \in Places /\ m \in Nat /\ Len(names) \in Nat
  BY PlaceType DEF Solid
<1>2. m <= Len(names) /\ Way(names, m) = root
  BY <1>1, PrefixIs
<1>3. m \in 0..Len(names) /\ i \in 0..m
  BY <1>1, <1>2
<1>4. names[i] = root[i] /\ p = Way(root, i)
  <2>1. \A k \in 1..m : Way(names, m)[k] = names[k]
    BY <1>3, WayFacts
  <2>2. Way(Way(names, m), i) = Way(names, i)
    BY <1>3, WayOfWay
  <2> QED
    BY <1>2, <2>1, <2>2
<1>5. root[i] # ".." /\ Node(tree, Way(root, i)).kind \in Things
  BY DEF Solid
<1>6. Solid(tree, Way(root, i))
  BY <1>3, SolidWay
<1> DEFINE last == FALSE
           q == Way(root, i)
<1>7. last \in BOOLEAN /\ Lstat(tree, q) = Found(tree, Walked(tree, q, last))
  BY DEF Lstat
<1> HIDE DEF last, q
<1>8. Walked(tree, q, last).at = q /\ Walked(tree, q, last).error = ""
  BY <1>6, <1>7, SolidIsItself DEF q
<1>9. Lstat(tree, q) = Node(tree, q)
  BY <1>7, <1>8 DEF Found
<1>10. Lstat(tree, q).kind # "link"
  BY <1>5, <1>9 DEF q, Things
<1> QED
  BY <1>4, <1>5, <1>10 DEF q

(* What realpath meets on a plain path. *)
LEMMA PlainLook ==
    ASSUME WalkTyped(walk), TreeTyped(fs), ScanAgrees(fs, walk), PlainAgrees(fs, walk),
           Plain(fs, walk), Going
    PROVE  /\ Head(walk.rest) # ".." /\ Look.kind # "link"
           /\ Look.kind \in Things =>
                 \E k \in 0..walk.scanned : There = Way(walk.names, k) /\ Tail(walk.rest) = Left(walk.names, k)
<1> DEFINE root == walk.root
           names == walk.names
           n == walk.scanned
<1>1. /\ root \in Places /\ names \in Places /\ Len(root) \in Nat /\ Len(names) \in Nat
      /\ walk.rest # <<>> /\ walk.step = "look"
  BY PlaceType DEF WalkTyped, Going
<1>2. n \in Nat /\ n <= Len(names) /\ Len(root) <= n /\ IsPrefix(root, names)
  BY DEF ScanAgrees, Plain
<1>3. PICK k \in 0..n : walk.at = Way(names, k) /\ walk.rest = Left(names, k)
  BY DEF PlainAgrees
<1>4. /\ \A i \in (Len(root) + 1)..Len(names) : names[i] # ".."
      /\ \A i \in (Len(root) + 1)..n : Lstat(fs, Way(names, i)).kind # "link"
      /\ n = Len(names) \/ Lstat(fs, Way(names, n + 1)).kind = "EACCES"
  BY <1>1 DEF PlainAgrees
<1>5. k # Len(names)
  <2>1. Left(names, Len(names)) = <<>>
    BY <1>1, LeftFacts
  <2> QED
    BY <1>1, <1>3, <2>1
<1>6. k \in Nat /\ k \in 0..(Len(names) - 1) /\ k + 1 \in 1..Len(names) /\ (k # n => k + 1 \in 0..n)
  BY <1>1, <1>2, <1>5
<1>7. Head(walk.rest) = names[k + 1] /\ Tail(walk.rest) = Left(names, k + 1)
  <2>1. Head(Left(names, k)) = names[k + 1] /\ Tail(Left(names, k)) = Left(names, k + 1)
    BY <1>1, <1>6, LeftFacts
  <2> QED
    BY <1>3, <2>1
<1>8. There = Way(names, k + 1)
  <2>1. Append(Way(names, k), names[k + 1]) = Way(names, k + 1)
    BY <1>1, <1>6, NextOnTheWay
  <2> QED
    BY <1>3, <1>7, <2>1 DEF There
<1>9. Look = Lstat(fs, Way(names, k + 1))
  BY <1>8 DEF Look
<1>10. k = n => Look.kind = "EACCES"
  BY <1>4, <1>5, <1>9
<1>11. names[k + 1] # ".." /\ Look.kind # "link"
  <2>1. CASE k + 1 <= Len(root)
    <3> DEFINE i == k + 1
               tree == fs
    <3>1. i \in 1..Len(root) /\ Solid(tree, root) /\ TreeTyped(tree)
      BY <1>1, <1>6, <2>1 DEF Plain
    <3> HIDE DEF i, tree, root, names
    <3>2. names[i] # ".." /\ Lstat(tree, Way(names, i)).kind # "link"
      BY <1>1, <1>2, <3>1, WayToRoot
    <3> QED
      BY <1>9, <3>2 DEF i, tree
  <2>2. CASE ~ (k + 1 <= Len(root))
    <3>1. k + 1 \in (Len(root) + 1)..Len(names) /\ (k # n => k + 1 \in (Len(root) + 1)..n)
      BY <1>1, <1>6, <2>2
    <3>2. k # n => Look.kind # "link"
      BY <1>4, <1>9, <3>1
    <3> QED
      BY <1>4, <1>10, <3>1, <3>2
  <2> QED
    BY <2>1, <2>2
<1>12. Look.kind \in Things => k # n
  BY <1>10 DEF Things
<1> QED
  BY <1>6, <1>7, <1>8, <1>11, <1>12

LEMMA PlainOn ==
    ASSUME WalkTyped(walk), TreeTyped(fs), ScanAgrees(fs, walk), PlainAgrees(fs, walk),
           NEW python, Resolve(python)
    PROVE  PlainAgrees(fs, walk') /\ EscapeAgrees(fs, walk')
<1> DEFINE root == walk.root
           names == walk.names
           n == walk.scanned
           Along(w) == \E k \in 0..w.scanned : w.at = Way(w.names, k) /\ w.rest = Left(w.names, k)
<1>0. walk.step \in {"scan", "look"}
  BY DEF Resolve, Scan, LeaveLink, GoUp, GoOn, KnownLink, EnterLink, LookFails, Contain, Looking, Going
<1>1. /\ root \in Places /\ names \in Places /\ Len(root) \in Nat /\ Len(names) \in Nat
      /\ n \in Nat /\ Len(root) <= n /\ walk.symlink \in BOOLEAN
      /\ IsPrefix(root, names) => n <= Len(names)
  BY PlaceType DEF WalkTyped, ScanAgrees
<1>2. CASE Scan
  <2> DEFINE next == Lstat(fs, Way(names, n + 1))
             over == ~ IsPrefix(root, names) \/ n = Len(names) \/ next.kind = "EACCES"
  <2>1. /\ walk.step = "scan"
        /\ walk' = IF over THEN [walk EXCEPT !.step = "look"]
                   ELSE IF next.kind = "link" THEN [walk EXCEPT !.step = "look", !.symlink = TRUE]
                   ELSE [walk EXCEPT !.scanned = n + 1]
    BY <1>2 DEF Scan, Way
  <2>2. IsPrefix(root, names) /\ over => n = Len(names) \/ next.kind = "EACCES"
    OBVIOUS
  <2> HIDE DEF over
  <2>3. CASE over
    <3>1. walk' = [walk EXCEPT !.step = "look"]
      BY <2>1, <2>3
    <3>2. /\ walk'.root = root /\ walk'.names = names /\ walk'.scanned = n /\ walk'.symlink = walk.symlink
          /\ walk'.at = walk.at /\ walk'.rest = walk.rest /\ walk'.inside = walk.inside /\ walk'.step = "look"
      BY <3>1 DEF WalkTyped, WalkFields
    <3>3. Plain(fs, walk') => Plain(fs, walk) /\ IsPrefix(root, names)
      BY <2>1, <3>2 DEF Plain
    <3> QED
      BY <2>2, <2>3, <3>2, <3>3 DEF PlainAgrees, EscapeAgrees
  <2>4. CASE ~ over /\ next.kind = "link"
    <3>1. walk' = [walk EXCEPT !.step = "look", !.symlink = TRUE]
      BY <2>1, <2>4
    <3>2. walk'.symlink = TRUE /\ walk'.step = "look"
      BY <3>1 DEF WalkTyped, WalkFields
    <3> QED
      BY <3>2 DEF PlainAgrees, EscapeAgrees, Plain
  <2>5. CASE ~ over /\ next.kind # "link"
    <3>1. walk' = [walk EXCEPT !.scanned = n + 1]
      BY <2>1, <2>5
    <3>2. /\ walk'.root = root /\ walk'.names = names /\ walk'.scanned = n + 1 /\ walk'.symlink = walk.symlink
          /\ walk'.at = walk.at /\ walk'.rest = walk.rest /\ walk'.inside = walk.inside /\ walk'.step = "scan"
      BY <2>1, <3>1 DEF WalkTyped, WalkFields
    <3>3. Plain(fs, walk') => Plain(fs, walk)
      BY <2>1, <3>2 DEF Plain
    <3>4. \A i \in (Len(root) + 1)..(n + 1) : i \in (Len(root) + 1)..n \/ i = n + 1
      BY <1>1
    <3>5. ASSUME Plain(fs, walk)
          PROVE  /\ \A i \in (Len(root) + 1)..(n + 1) : Lstat(fs, Way(names, i)).kind # "link"
                 /\ \E k \in 0..(n + 1) : walk.at = Way(names, k) /\ walk.rest = Left(names, k)
      <4>1. \A i \in (Len(root) + 1)..n : Lstat(fs, Way(names, i)).kind # "link"
        BY <3>5 DEF PlainAgrees
      <4>2. PICK k \in 0..n : walk.at = Way(names, k) /\ walk.rest = Left(names, k)
        BY <3>5 DEF PlainAgrees
      <4>3. k \in 0..(n + 1)
        BY <1>1
      <4> QED
        BY <2>5, <3>4, <4>1, <4>2, <4>3
    <3> QED
      BY <3>2, <3>3, <3>5 DEF PlainAgrees, EscapeAgrees
  <2> QED
    BY <2>3, <2>4, <2>5
<1>3. CASE GoOn
  <2>1. Going /\ Look.kind \in Things /\ walk' = [walk EXCEPT !.at = There, !.rest = Tail(walk.rest)]
    BY <1>3 DEF GoOn, Looking, Things
  <2>2. /\ walk'.root = root /\ walk'.names = names /\ walk'.scanned = n /\ walk'.symlink = walk.symlink
        /\ walk'.at = There /\ walk'.rest = Tail(walk.rest) /\ walk'.inside = walk.inside
        /\ walk'.step = walk.step /\ walk.step = "look"
    BY <2>1 DEF WalkTyped, WalkFields, Going
  <2>3. Plain(fs, walk') => Plain(fs, walk)
    BY <2>2 DEF Plain
  <2>4. Plain(fs, walk) =>
           \E k \in 0..n : There = Way(names, k) /\ Tail(walk.rest) = Left(names, k)
    BY <2>1, PlainLook
  <2> QED
    BY <2>2, <2>3, <2>4 DEF PlainAgrees, EscapeAgrees
<1>4. CASE LeaveLink \/ GoUp \/ KnownLink \/ EnterLink
  <2>1. ~ Plain(fs, walk)
    <3>1. CASE LeaveLink
      BY <3>1 DEF LeaveLink, LinkEnds, InLink, PlainAgrees
    <3>2. CASE GoUp
      BY <3>2, PlainLook DEF GoUp
    <3>3. CASE KnownLink \/ EnterLink
      BY <3>3, PlainLook DEF KnownLink, EnterLink, Looking
    <3> QED
      BY <1>4, <3>1, <3>2, <3>3
  <2>2. /\ walk'.root = root /\ walk'.names = names /\ walk'.symlink = walk.symlink
        /\ walk'.step = walk.step /\ walk.step = "look"
    BY <1>4 DEF LeaveLink, GoUp, KnownLink, EnterLink, Looking, Going, WalkTyped, WalkFields
  <2> QED
    BY <2>1, <2>2 DEF Plain, PlainAgrees, EscapeAgrees
<1>5. ASSUME NEW verdict, End(verdict)
      PROVE  /\ walk'.step = "done" /\ walk'.verdict = verdict /\ walk'.root = root /\ walk'.names = names
  BY <1>5 DEF End, WalkTyped, WalkFields
<1>6. CASE LookFails(python)
  <2>1. \E verdict \in {"WorkspacePathNotFoundError", "PathSecurityError", "OSError"} : End(verdict)
    BY <1>6 DEF LookFails
  <2> QED
    BY <1>5, <2>1 DEF PlainAgrees, EscapeAgrees, Plain
<1>7. CASE Contain
  <2> DEFINE verdict == IF IsPrefix(root, walk.at) THEN "resolved"
                        ELSE IF walk.symlink THEN "SymlinkEscapeError" ELSE "PathEscapeError"
  <2>1. walk.step = "look" /\ walk.rest = <<>> /\ End(verdict)
    BY <1>7 DEF Contain
  <2>2. verdict = "PathEscapeError" => ~ walk.symlink /\ ~ IsPrefix(root, walk.at)
    BY <1>1
  <2> HIDE DEF verdict
  <2>3. ASSUME Solid(fs, root), IsPrefix(root, names), ~ walk.symlink PROVE IsPrefix(root, walk.at)
    <3>1. Plain(fs, walk)
      BY <2>1, <2>3 DEF Plain
    <3>2. PICK k \in 0..n : walk.at = Way(names, k) /\ walk.rest = Left(names, k)
      BY <3>1 DEF PlainAgrees
    <3>3. n <= Len(names)
      BY <1>1, <2>3
    <3>4. k = Len(names)
      <4>1. k # Len(names) => k \in 0..(Len(names) - 1)
        BY <1>1, <3>3
      <4>2. k \in 0..(Len(names) - 1) => Left(names, k) # <<>>
        BY <1>1, LeftFacts
      <4> QED
        BY <2>1, <3>2, <4>1, <4>2
    <3>5. Way(names, Len(names)) = names
      <4>1. Len(names) \in 0..Len(names)
        BY <1>1
      <4> QED
        BY <1>1, <4>1, WayFacts
    <3> QED
      BY <2>3, <3>2, <3>4, <3>5
  <2>4. walk'.step = "done" /\ walk'.verdict = verdict /\ walk'.root = root /\ walk'.names = names
    BY <1>5, <2>1
  <2> QED
    BY <2>2, <2>3, <2>4 DEF PlainAgrees, EscapeAgrees, Plain
<1> QED
  BY <1>2, <1>3, <1>4, <1>6, <1>7 DEF Resolve

(***************************************************************************)
(* As long as nobody changes anything, realpath does what the kernel would *)
(* do, and ends as it ends.                                                *)
(***************************************************************************)
FaithfulTo(tree, w) ==
    /\ Agrees(tree, w)
    /\ VerdictAgrees(tree, w)
    /\ ScanAgrees(tree, w)
    /\ PlainAgrees(tree, w)
    /\ EscapeAgrees(tree, w)

FaithInv == Quiet => FaithfulTo(fs, walk)

(* The names of a request that are not those of the root are no "..". *)
LEMMA NoNameLeadsUp ==
    ASSUME NEW root \in Places, NEW path, path.names \in Places, ".." \notin ToSet(path.names),
           NEW i \in (Len(root) + 1)..Len(Candidate(root, path))
    PROVE  Candidate(root, path)[i] # ".."
<1> DEFINE names == path.names
           m == Len(root)
<1>1. m \in Nat /\ Len(names) \in Nat /\ DOMAIN names = 1..Len(names)
  BY PlaceType
<1>2. \A k \in 1..Len(names) : names[k] # ".."
  BY <1>1 DEF ToSet
<1>3. CASE path.absolute
  <2>1. i \in 1..Len(names) /\ Candidate(root, path) = names
    BY <1>1, <1>3 DEF Candidate
  <2> QED
    BY <1>2, <2>1
<1>4. CASE ~ path.absolute
  <2>1. Candidate(root, path) = root \o names
    BY <1>4 DEF Candidate
  <2>2. /\ root \in Seq(STRING) /\ names \in Seq(STRING)
    BY DEF Places
  <2> HIDE DEF names
  <2>3. /\ Len(root \o names) = m + Len(names)
        /\ \A k \in 1..(m + Len(names)) : (root \o names)[k] = IF k <= m THEN root[k] ELSE names[k - m]
    BY <2>2, ConcatProperties
  <2>4. i \in 1..(m + Len(names)) /\ ~ (i <= m) /\ i - m \in 1..Len(names)
    BY <1>1, <2>1, <2>3
  <2> QED
    BY <1>2, <2>1, <2>3, <2>4
<1> QED
  BY <1>3, <1>4

LEMMA FaithBegins ==
    ASSUME ConfigInv, TreeTyped(fs), pc = "idle", walk' = Begun(Root, Request.path)
    PROVE  FaithfulTo(fs, walk')
<1> DEFINE root == Root
           path == Request.path
           names == Candidate(root, path)
           verdict == Rejected(path)
           w == Begun(root, path)
<1>1. root \in Places /\ names \in Places
  BY RootIsPlace
<1>2. path.names \in Places
  <2>1. IsScenario(input)
    BY ScenariosAssumption DEF ConfigInv
  <2> QED
    BY <2>1 DEF IsScenario, IsRequest, Request
<1>3. /\ verdict \in {"none", "PathSecurityError", "PathTraversalError"}
      /\ verdict = "none" => ".." \notin ToSet(path.names)
  BY DEF Rejected
<1>4. \A i \in (Len(root) + 1)..Len(names) : verdict = "none" => names[i] # ".."
  BY <1>1, <1>2, <1>3, NoNameLeadsUp
<1>5. walk' = w
  OBVIOUS
<1> HIDE DEF root, path, names, verdict
<1>6. /\ w.step = IF verdict = "none" THEN "scan" ELSE "done"
      /\ w.verdict = verdict /\ w.root = root /\ w.names = names /\ w.at = <<>> /\ w.rest = names
      /\ w.scanned = Len(root) /\ w.symlink = FALSE /\ w.inside = <<>> /\ w.known = <<>>
  BY DEF Begun, names, verdict
<1> HIDE DEF w
<1>7. Len(root) \in Nat /\ Len(names) \in Nat /\ Len(<<>>) = 0 /\ DOMAIN <<>> = {} /\ <<>> \in Seq(Entered)
  BY <1>1, PlaceType, EmptySeq
<1>8. Agrees(fs, w)
  <2>1. InsideAgrees(fs, <<>>, <<>>, names)
    BY <1>7 DEF InsideAgrees, Nested
  <2>2. KnownAgrees(fs, <<>>)
    BY <1>7 DEF KnownAgrees
  <2>3. CourseAgrees(fs, names, <<>>, names)
    BY DEF CourseAgrees
  <2> QED
    BY <1>6, <2>1, <2>2, <2>3 DEF Agrees
<1>9. VerdictAgrees(fs, w) /\ EscapeAgrees(fs, w)
  BY <1>3, <1>6 DEF VerdictAgrees, EscapeAgrees
<1>10. ScanAgrees(fs, w)
  <2>1. IsPrefix(root, names) => Len(root) <= Len(names)
    BY <1>1, PrefixIs
  <2>2. w.symlink \in BOOLEAN /\ ~ w.symlink
    BY <1>6
  <2>3. w.scanned \in Nat /\ Len(w.root) <= w.scanned
    BY <1>6, <1>7
  <2>4. IsPrefix(w.root, w.names) => w.scanned <= Len(w.names)
    BY <1>6, <2>1
  <2> QED
    BY <2>2, <2>3, <2>4 DEF ScanAgrees
<1>11. PlainAgrees(fs, w)
  <2>1. w.step # "done" => verdict = "none" /\ w.step = "scan"
    BY <1>6
  <2>2. 0 \in 0..Len(root) /\ 0 \in 0..Len(names) /\ \A i \in (Len(root) + 1)..Len(root) : FALSE
    BY <1>7
  <2>3. <<>> = Way(names, 0) /\ names = Left(names, 0)
    BY <1>1, <2>2, WayFacts, LeftFacts
  <2> QED
    BY <1>4, <1>6, <2>1, <2>2, <2>3 DEF PlainAgrees, Plain
<1>12. FaithfulTo(fs, w)
  BY <1>1, <1>6, <1>8, <1>9, <1>10, <1>11 DEF FaithfulTo
<1> QED
  BY <1>5, <1>12

LEMMA FaithStays ==
    ASSUME ConfigInv, CallInv, TreeTyped(fs), WalkOK, WayInv, FaithInv, [Next]_vars
    PROVE  FaithInv'
<1>0. edits \in Nat
  BY NodesAssumption DEF CallInv
<1>1. CASE walk' = walk /\ fs' = fs /\ edits' = edits
  BY <1>1 DEF FaithInv, Quiet
<1>2. CASE pc = "idle" /\ BeginPath /\ fs' = fs
  <2>1. CASE walk' = Begun(Root, Request.path)
    <3>1. FaithfulTo(fs, walk')
      BY <1>2, <2>1, FaithBegins
    <3> QED
      BY <1>2, <3>1 DEF FaithInv
  <2>2. CASE walk' = walk
    BY <1>2, <2>2 DEF CallInv, FaithInv, Quiet
  <2> QED
    BY <1>2, <2>1, <2>2, BeginIs
<1>3. CASE ResolvePath
  <2>1. Resolve(input.python) /\ fs' = fs /\ edits' = edits
    BY <1>3 DEF ResolvePath, Resolve
  <2>2. walk # NoWalk
    BY <2>1 DEF Resolve, Scan, LeaveLink, GoUp, GoOn, KnownLink, EnterLink, LookFails, Contain,
                Looking, Going, NoWalk
  <2>3. WalkTyped(walk)
    BY <2>2 DEF WalkOK
  <2>4. walk'.began = walk.began /\ walk'.root = walk.root
    BY <2>1, <2>3 DEF Resolve, Scan, LeaveLink, GoUp, GoOn, KnownLink, EnterLink, LookFails, Contain, End,
                      WalkTyped, WalkFields
  <2>5. ASSUME Quiet' PROVE FaithfulTo(fs, walk')
    <3>1. Quiet
      BY <2>1, <2>2, <2>4, <2>5 DEF Quiet
    <3>2. Agrees(fs, walk) /\ ScanAgrees(fs, walk) /\ PlainAgrees(fs, walk)
      BY <3>1 DEF FaithInv, FaithfulTo
    <3>3. Solid(fs, walk.at)
      BY <3>1 DEF WayInv, Quiet
    <3>4. Agrees(fs, walk') /\ VerdictAgrees(fs, walk')
      BY <2>1, <2>3, <3>2, <3>3, AgreesOn, VerdictsOn
    <3>5. ScanAgrees(fs, walk') /\ PlainAgrees(fs, walk') /\ EscapeAgrees(fs, walk')
      BY <2>1, <2>3, <3>2, ScanOn, PlainOn
    <3> QED
      BY <3>4, <3>5 DEF FaithfulTo
  <2> QED
    BY <2>1, <2>5 DEF FaithInv
<1>4. CASE Others
  <2>1. walk' = walk /\ edits' = edits + 1
    BY <1>4 DEF Others, Edit
  <2>2. walk # NoWalk => walk.began # edits + 1
    BY <1>0 DEF WayInv
  <2> QED
    BY <2>1, <2>2 DEF FaithInv, Quiet
<1>5. \/ walk' = walk /\ fs' = fs /\ edits' = edits
      \/ pc = "idle" /\ BeginPath /\ fs' = fs
      \/ ResolvePath \/ Others
  BY DEF Next, Start, CallRunCommand, CallRunTests, CallReadOrCollect,
     Resolved, CheckKind, Run, ReportFails, StatSize, Read, Finished, vars, callVars, pathVars
<1> QED
  BY <1>1, <1>2, <1>3, <1>4, <1>5

LEMMA FaithKept == Spec => []FaithInv
<1>1. Init => FaithInv
  BY DEF Init, FaithInv, Quiet
<1>2. ConfigInv /\ CallInv /\ TreeTyped(fs) /\ WalkOK /\ WayInv /\ FaithInv /\ [Next]_vars => FaithInv'
  BY FaithStays
<1> QED
  BY <1>1, <1>2, ConfigurationKept, TreeKept, WalkKept, CallKept, WayKept, PTL DEF Spec

(***************************************************************************)
(* The kernel walks a bounded number of names and realpath any number of   *)
(* them; which verdicts can tell the difference.                           *)
(***************************************************************************)
BoundIsFar ==
    walk.verdict = "WorkspacePathNotFoundError" \/ (walk.verdict = "OSError" /\ input.python # "3.13") =>
       Walked(fs, walk.names, TRUE).error # "ELOOP"

(* What the kernel answers, if it does, it answers from where realpath has come to. *)
LEMMA AnswerFromHere ==
    ASSUME WalkTyped(walk), TreeTyped(fs), CourseAgrees(fs, walk.names, walk.at, walk.rest),
           Conclusive(Walked(fs, walk.names, TRUE).error)
    PROVE  LET end == Walked(fs, walk.names, TRUE)
           IN \E n : WalksTo(fs, walk.at, walk.rest, n, end.at, end.error)
<1> DEFINE end == Walked(fs, walk.names, TRUE)
           names == walk.names
<1>1. names \in Places
  BY DEF WalkTyped
<1>2. PICK n : WalksTo(fs, <<>>, names, n, end.at, end.error)
  BY <1>1, AnswerIsWalk
<1> HIDE DEF end
<1>3. \E m : WalksTo(fs, walk.at, walk.rest, m, end.at, end.error)
  BY <1>2 DEF CourseAgrees
<1> QED
  BY <1>3 DEF end

(***************************************************************************)
(* The verdicts of resolve_workspace_path on a path that nobody changes    *)
(* meanwhile are those of the kernel's own walk of it.                     *)
(***************************************************************************)
THEOREM VerdictsExact == Spec => [](BoundIsFar => PathVerdictsAreExact)
<1>1. TreeTyped(fs) /\ WalkOK /\ WayInv /\ FaithInv => (BoundIsFar => PathVerdictsAreExact)
  <2> SUFFICES ASSUME TreeTyped(fs), WalkOK, WayInv, FaithInv, BoundIsFar,
                      Quiet, walk.step = "done"
               PROVE  VerdictIsExact(input.python)
    BY DEF PathVerdictsAreExact
  <2> DEFINE end == Walked(fs, walk.names, TRUE)
             own == Walked(fs, walk.at, TRUE)
             out == end.error = "" => ~ IsPrefix(walk.root, end.at)
             python == input.python
  <2>1. walk # NoWalk /\ WalkTyped(walk)
    BY DEF Quiet, WalkOK
  <2>2. /\ Solid(fs, walk.at)
        /\ walk.verdict = "resolved" => IsPrefix(walk.root, walk.at)
    BY <2>1 DEF WayInv, Quiet
  <2>3. /\ CourseAgrees(fs, walk.names, walk.at, walk.rest) /\ VerdictAgrees(fs, walk)
        /\ ScanAgrees(fs, walk) /\ EscapeAgrees(fs, walk)
    BY DEF FaithInv, FaithfulTo, Agrees
  <2>4. end.error \in {"EACCES", "ENOTDIR", "ENOENT", "", "ELOOP"}
    <3>1. walk.names \in Places /\ TRUE \in BOOLEAN
      BY <2>1 DEF WalkTyped
    <3> QED
      BY <3>1, WalkedFacts DEF Errs
  <2>5. own.at = walk.at /\ own.error = ""
    <3> DEFINE last == TRUE
               at == walk.at
               tree == fs
    <3>1. last \in BOOLEAN /\ Solid(tree, at) /\ TreeTyped(tree)
      BY <2>2
    <3> HIDE DEF last, at, tree
    <3>2. Walked(tree, at, last).at = at /\ Walked(tree, at, last).error = ""
      BY <3>1, SolidIsItself, Zenon
    <3> QED
      BY <3>2 DEF last, at, tree
  <2>6. Conclusive(end.error) => \E n : WalksTo(fs, walk.at, walk.rest, n, end.at, end.error)
    BY <2>1, <2>3, AnswerFromHere
  <2> HIDE DEF end
  <2>7. walk.rest = <<>> /\ end.error = "" => end.at = walk.at
    <3> SUFFICES ASSUME walk.rest = <<>>, end.error = "" PROVE end.at = walk.at
      OBVIOUS
    <3>1. PICK n : WalksTo(fs, walk.at, <<>>, n, end.at, end.error)
      BY <2>6 DEF Conclusive
    <3> QED
      BY <3>1, NoStep, Zenon
  <2> HIDE DEF own, python
  <2>8. CASE walk.verdict = "resolved"
    <3>1. walk.rest = <<>>
      BY <2>3, <2>8 DEF VerdictAgrees
    <3>2. /\ IsPrefix(walk.root, walk.at) /\ own.error = "" /\ own.at = walk.at
          /\ end.error = "" => end.at = walk.at
      BY <2>2, <2>5, <2>7, <2>8, <3>1
    <3> QED
      BY <2>8, <3>2 DEF VerdictIsExact, own, end
  <2>9. walk.verdict \in {"SymlinkEscapeError", "PathEscapeError"} => out
    <3> SUFFICES ASSUME walk.verdict \in {"SymlinkEscapeError", "PathEscapeError"}, end.error = ""
                 PROVE  ~ IsPrefix(walk.root, end.at)
      OBVIOUS
    <3>1. walk.rest = <<>> /\ ~ IsPrefix(walk.root, walk.at)
      BY <2>3 DEF VerdictAgrees
    <3> QED
      BY <2>7, <3>1
  <2>10. CASE walk.verdict = "SymlinkEscapeError"
    <3>1. LinkOnTheWay
      <4>1. LinkIn(fs, walk.root, walk.names)
        BY <2>3, <2>10 DEF VerdictAgrees, ScanAgrees
      <4> QED
        BY <4>1 DEF LinkIn, LinkOnTheWay, Way
    <3> QED
      BY <2>9, <2>10, <3>1 DEF VerdictIsExact, end
  <2>11. CASE walk.verdict = "PathEscapeError"
    <3> DEFINE root == Walked(fs, walk.root, TRUE)
    <3>1. Solid(fs, root.at)
      <4>1. walk.root \in Places /\ TRUE \in BOOLEAN
        BY <2>1 DEF WalkTyped
      <4> QED
        BY <4>1, WalkedFacts
    <3> HIDE DEF root
    <3>2. root.at = walk.root => ~ IsPrefix(walk.root, walk.names)
      BY <2>3, <2>11, <3>1 DEF EscapeAgrees
    <3> QED
      BY <2>9, <2>11, <3>2 DEF VerdictIsExact, end, root
  <2>12. CASE walk.verdict = "WorkspacePathNotFoundError"
    <3>1. Missing(fs, walk.at, walk.rest)
      BY <2>3, <2>12 DEF VerdictAgrees
    <3>2. end.error # ""
      BY <2>6, <3>1 DEF Missing, Conclusive
    <3>3. end.error # "ELOOP"
      BY <2>12 DEF BoundIsFar, end
    <3>4. end.error \in {"ENOENT", "ENOTDIR", "EACCES"}
      BY <2>4, <3>2, <3>3
    <3> QED
      BY <2>12, <3>4 DEF VerdictIsExact, end
  <2>13. CASE walk.verdict = "OSError"
    <3>1. NeverArrives(fs, walk.at, walk.rest)
      BY <2>3, <2>13 DEF VerdictAgrees
    <3>2. ~ Conclusive(end.error)
      BY <2>6, <3>1 DEF NeverArrives
    <3>3. end.error \in {"ENOTDIR", "EACCES", "ELOOP"}
      BY <2>4, <3>2 DEF Conclusive
    <3>4. python # "3.13" => end.error # "ELOOP"
      BY <2>13 DEF BoundIsFar, end, python
    <3>5. end.error \in {"ENOTDIR", "EACCES"} \cup (IF python = "3.13" THEN {"ELOOP"} ELSE {})
      BY <3>3, <3>4
    <3> QED
      BY <2>13, <3>5 DEF VerdictIsExact, end, python
  <2>14. CASE walk.verdict \notin {"resolved", "SymlinkEscapeError", "PathEscapeError",
                                   "WorkspacePathNotFoundError", "OSError"}
    BY <2>14 DEF VerdictIsExact
  <2> QED
    BY <2>8, <2>10, <2>11, <2>12, <2>13, <2>14
<1> QED
  BY <1>1, TreeKept, WalkKept, WayKept, FaithKept, PTL
-----------------------------------------------------------------------------
(* Where a path of the configuration ends.                                 *)

NoError == ""

(* The kernel comes to the end of a path, from a place or from "/". *)
Reaches(tree, a, names, n, end) == WalksTo(tree, a, names, n, end, NoError)
KernelArrives(tree, names) == Walked(tree, names, TRUE).error = NoError

LEMMA ReachesOn ==
    ASSUME NEW tree, NEW a, NEW x, NEW b, NEW t, LeadsTo(tree, a, <<x>>, b, t),
           NEW r \in Places, NEW n, NEW end, Reaches(tree, a, <<x>> \o r, n, end)
    PROVE  \E m \in Nat : m < n /\ Reaches(tree, b, t \o r, m, end)
  BY DEF LeadsTo, Reaches

LEMMA ReachesLooks ==
    ASSUME NEW tree, TreeTyped(tree), NEW at, Solid(tree, at), NEW x \in STRING, x # "..",
           NEW t \in Places, NEW n, NEW end, Reaches(tree, at, <<x>> \o t, n, end)
    PROVE  Lstat(tree, Append(at, x)).kind \in Things \cup {"link"}
<1>1. WalksTo(tree, at, <<x>> \o t, n, end, NoError)
  BY DEF Reaches
<1>2. LET kind == Lstat(tree, Append(at, x)).kind
      IN /\ kind \in Things \cup {"link", "ENOENT"}
         /\ kind = "ENOENT" => NoError = "ENOENT"
  BY <1>1, LookMisses
<1>3. NoError # "ENOENT"
  BY Zenon DEF NoError
<1> QED
  BY <1>2, <1>3

LEMMA ReachesFrom ==
    ASSUME NEW tree, TreeTyped(tree), NEW names \in Places, KernelArrives(tree, names)
    PROVE  \E n : Reaches(tree, <<>>, names, n, Walked(tree, names, TRUE).at)
<1> DEFINE end == Walked(tree, names, TRUE)
<1>1. end.error = NoError
  BY DEF KernelArrives
<1>2. Conclusive(NoError)
  BY Zenon DEF Conclusive, NoError
<1>3. \E n : WalksTo(tree, <<>>, names, n, end.at, end.error)
  BY <1>1, <1>2, AnswerIsWalk
<1> HIDE DEF end
<1>4. \E n : Reaches(tree, <<>>, names, n, end.at)
  BY <1>1, <1>3 DEF Reaches
<1> QED
  BY <1>4 DEF end

LEMMA ReachesEnd ==
    ASSUME NEW tree, NEW a, NEW n, NEW end, Reaches(tree, a, <<>>, n, end)
    PROVE  end = a
<1>1. WalksTo(tree, a, <<>>, n, end, NoError)
  BY DEF Reaches
<1> QED
  BY <1>1, NoStep

(***************************************************************************)
(* resolve() of a path with which the kernel arrives at end has k looks    *)
(* left, enough for the names that the kernel walks from where it has come *)
(* to and for the links it leaves.                                         *)
(***************************************************************************)
Nears(tree, w, end, k) ==
    /\ RealTyped(tree, w) /\ ~ w.looped
    /\ Solid(tree, w.at) /\ KnownSolid(tree, w.known)
    /\ InsideAgrees(tree, w.inside, w.at, w.rest) /\ KnownAgrees(tree, w.known)
    /\ \E m \in Nat : /\ Reaches(tree, w.at, w.rest, m, end)
                      /\ w.rest = <<>> \/ Len(w.inside) + m + m <= k

LEMMA OneLookLess ==
    ASSUME NEW l \in Nat, NEW m \in Nat, NEW n \in Nat, NEW k \in Nat, l + m + m <= k
    PROVE  /\ l # 0 => (l - 1) + m + m <= k - 1
           /\ n < m => l + n + n <= k - 1 /\ (l + 1) + n + n <= k - 1
  OBVIOUS

(* A link whose names are used up. *)
LEMMA NearsOut ==
    ASSUME NEW python, NEW tree, TreeTyped(tree), NEW w, NEW end, NEW k \in Nat, k # 0,
           Nears(tree, w, end, k), Leaves(w)
    PROVE  Nears(tree, RealStep(python, tree, w), end, k - 1)
<1> DEFINE v == RealStep(python, tree, w)
           link == Last(w.inside).link
           inside == Front(w.inside)
           known == Put(w.known, link, w.at)
<1>1. RealTyped(tree, v)
  BY RealStepTyped DEF Nears
<1>2. v = [w EXCEPT !.inside = inside, !.known = known] /\ w.inside # <<>> /\ Last(w.inside).left = Len(w.rest)
  BY DEF RealStep, Leaves
<1>3. DOMAIN w = RealFields /\ w.rest \in Places
  BY DEF Nears, RealTyped
<1>4. PICK m \in Nat : /\ Reaches(tree, w.at, w.rest, m, end)
                       /\ w.rest = <<>> \/ Len(w.inside) + m + m <= k
  BY DEF Nears
<1>5. /\ InsideAgrees(tree, inside, w.at, w.rest) /\ Len(inside) = Len(w.inside) - 1
      /\ link \in Places \ {<<>>} /\ Across(tree, link, w.at, <<>>)
  BY <1>2, <1>3, InsideLeaves DEF Nears
<1>6. Len(w.inside) \in Nat
  BY LenProperties DEF Nears, InsideAgrees
<1> HIDE DEF v, link, inside
<1>7. KnownAgrees(tree, known) /\ KnownSolid(tree, known)
  <2>1. DOMAIN known = DOMAIN w.known \cup {link}
        /\ \A p \in DOMAIN known : known[p] = IF p = link THEN w.at ELSE w.known[p]
    BY DEF Put
  <2> HIDE DEF known
  <2> QED
    BY <1>5, <2>1 DEF Nears, KnownAgrees, KnownSolid
<1> HIDE DEF known
<1>8. v.at = w.at /\ v.rest = w.rest /\ v.inside = inside /\ v.known = known /\ v.looped = w.looped
  BY <1>2, <1>3 DEF RealFields
<1>9. w.rest = <<>> \/ Len(inside) + m + m <= k - 1
  <2> DEFINE l == Len(w.inside)
             j == Len(inside)
  <2>1. l \in Nat /\ j \in Nat /\ j = l - 1
    <3>1. inside \in Seq(Entered)
      BY <1>5 DEF InsideAgrees
    <3>2. Len(inside) \in Nat
      BY <3>1, LenProperties
    <3> QED
      BY <1>5, <1>6, <3>2
  <2>2. w.rest # <<>> => l + m + m <= k
    BY <1>4
  <2> HIDE DEF l, j
  <2>3. l # 0
    BY <2>1
  <2>4. l + m + m <= k => j + m + m <= k - 1
    BY <2>1, <2>3, OneLookLess
  <2> QED
    BY <2>2, <2>4 DEF j
<1>10. Nears(tree, v, end, k - 1)
  BY <1>1, <1>4, <1>5, <1>7, <1>8, <1>9 DEF Nears
<1> QED
  BY <1>10 DEF v

(* A name that is no link it has not been at. *)
LEMMA NearsOn ==
    ASSUME NEW tree, NEW w, NEW end, NEW k \in Nat, k # 0, Nears(tree, w, end, k),
           w.rest # <<>>, NoLinkEnds(w.inside, w.rest),
           NEW b, Solid(tree, b), LeadsTo(tree, w.at, <<Head(w.rest)>>, b, <<>>),
           NEW v, RealTyped(tree, v), v = [w EXCEPT !.at = b, !.rest = Tail(w.rest)]
    PROVE  Nears(tree, v, end, k - 1)
<1> DEFINE x == Head(w.rest)
           q == Tail(w.rest)
<1>1. DOMAIN w = RealFields /\ w.rest \in Places
  BY DEF Nears, RealTyped
<1>2. x \in STRING /\ q \in Places /\ w.rest = <<x>> \o q
  BY <1>1, HeadFirst
<1>3. <<>> \in Places /\ <<>> \o q = q
  BY <1>2, NoNames, NoNamesJoin
<1>4. v = [w EXCEPT !.at = b, !.rest = q] /\ LeadsTo(tree, w.at, <<x>>, b, <<>>)
  OBVIOUS
<1>5. PICK m \in Nat : /\ Reaches(tree, w.at, w.rest, m, end)
                       /\ w.rest = <<>> \/ Len(w.inside) + m + m <= k
  BY DEF Nears
<1>6. InsideAgrees(tree, w.inside, b, q)
  BY <1>1, <1>3, InsideStays DEF Nears
<1> HIDE DEF x, q
<1>7. PICK n \in Nat : n < m /\ Reaches(tree, b, q, n, end)
  <2>1. Reaches(tree, w.at, <<x>> \o q, m, end)
    BY <1>2, <1>5
  <2>2. \E n \in Nat : n < m /\ Reaches(tree, b, <<>> \o q, n, end)
    BY <1>2, <1>4, <2>1, ReachesOn
  <2> QED
    BY <1>3, <2>2
<1>8. Len(w.inside) \in Nat
  BY LenProperties DEF Nears, InsideAgrees
<1>9. v.at = b /\ v.rest = q /\ v.inside = w.inside /\ v.known = w.known /\ v.looped = w.looped
  BY <1>1, <1>4 DEF RealFields
<1>10. Len(w.inside) + n + n <= k - 1
  <2> DEFINE l == Len(w.inside)
  <2>1. l \in Nat /\ l + m + m <= k
    BY <1>5, <1>8
  <2> HIDE DEF l
  <2>2. l + n + n <= k - 1
    BY <1>7, <2>1, OneLookLess
  <2> QED
    BY <2>2 DEF l
<1> QED
  BY <1>6, <1>7, <1>9, <1>10 DEF Nears

(* A link it has not been at. *)
LEMMA NearsIn ==
    ASSUME NEW tree, TreeTyped(tree), NEW w, NEW end, NEW k \in Nat, k # 0, Nears(tree, w, end, k),
           w.rest # <<>>, NoLinkEnds(w.inside, w.rest), Head(w.rest) # "..",
           NEW found, found = Node(tree, NextPlace(w)), found.kind = "link",
           RealTyped(tree, Enters(w, found))
    PROVE  Nears(tree, Enters(w, found), end, k - 1)
<1> DEFINE x == Head(w.rest)
           q == Tail(w.rest)
           v == Enters(w, found)
           u == found.to.names
           b == IF found.to.absolute THEN <<>> ELSE w.at
           now == Append(w.inside, [link |-> Append(w.at, x), left |-> Len(w.rest) - 1])
<1>1. DOMAIN w = RealFields /\ w.rest \in Places /\ w.at \in Places
  BY DEF Nears, RealTyped
<1>2. x \in STRING /\ q \in Places /\ w.rest = <<x>> \o q
  BY <1>1, HeadFirst
<1>3. NextPlace(w) = Append(w.at, x)
  BY DEF NextPlace
<1>4. u \in Places
  BY NodeType, NodeKinds
<1>5. LeadsTo(tree, w.at, <<x>>, b, u)
  BY <1>1, <1>2, <1>3, OneName
<1>6. InsideAgrees(tree, now, b, u \o q) /\ Len(now) = Len(w.inside) + 1
  <2> DEFINE inside == w.inside
             at == w.at
             rest == w.rest
  <2>1. /\ InsideAgrees(tree, inside, at, rest) /\ NoLinkEnds(inside, rest)
        /\ at \in Places /\ rest \in Places /\ rest # <<>> /\ u \in Places
        /\ LeadsTo(tree, at, <<Head(rest)>>, b, u)
    BY <1>1, <1>4, <1>5 DEF Nears
  <2> HIDE DEF inside, at, rest, u, b
  <2>2. LET in == Append(inside, [link |-> Append(at, Head(rest)), left |-> Len(rest) - 1])
        IN InsideAgrees(tree, in, b, u \o Tail(rest)) /\ Len(in) = Len(inside) + 1
    BY <2>1, InsideEnters
  <2> QED
    BY <2>2 DEF inside, at, rest
<1>7. PICK m \in Nat : /\ Reaches(tree, w.at, w.rest, m, end)
                       /\ w.rest = <<>> \/ Len(w.inside) + m + m <= k
  BY DEF Nears
<1>8. v = [w EXCEPT !.at = b, !.rest = u \o q, !.inside = now]
  BY <1>3 DEF Enters
<1>9. Solid(tree, b)
  BY SolidRoot DEF Nears
<1> HIDE DEF v, x, q, u, b, now
<1>10. PICK n \in Nat : n < m /\ Reaches(tree, b, u \o q, n, end)
  <2>1. Reaches(tree, w.at, <<x>> \o q, m, end)
    BY <1>2, <1>7
  <2> QED
    BY <1>2, <1>5, <2>1, ReachesOn
<1>11. Len(w.inside) \in Nat
  BY LenProperties DEF Nears, InsideAgrees
<1>12. v.at = b /\ v.rest = u \o q /\ v.inside = now /\ v.known = w.known /\ v.looped = w.looped
  BY <1>1, <1>8 DEF RealFields
<1>13. Len(now) + n + n <= k - 1
  <2> DEFINE l == Len(w.inside)
             j == Len(now)
  <2>1. l \in Nat /\ l + m + m <= k /\ j = l + 1
    BY <1>6, <1>7, <1>11
  <2> HIDE DEF l, j
  <2>2. (l + 1) + n + n <= k - 1
    BY <1>10, <2>1, OneLookLess
  <2> QED
    BY <2>1, <2>2 DEF j
<1>14. Nears(tree, v, end, k - 1)
  BY <1>6, <1>9, <1>10, <1>12, <1>13 DEF Nears, v
<1> QED
  BY <1>14 DEF v

LEMMA RealStepNears ==
    ASSUME NEW python, NEW tree, TreeTyped(tree), NEW w, NEW end, NEW k \in Nat, k # 0,
           Nears(tree, w, end, k)
    PROVE  Nears(tree, RealStep(python, tree, w), end, k - 1)
<1> DEFINE v == RealStep(python, tree, w)
           x == Head(w.rest)
           q == Tail(w.rest)
           next == NextPlace(w)
           found == Lstat(tree, next)
<1> SUFFICES Nears(tree, v, end, k - 1)
  OBVIOUS
<1>1. RealTyped(tree, v)
  BY RealStepTyped DEF Nears
<1>2. CASE Leaves(w)
  BY <1>2, NearsOut
<1>3. CASE ~ Leaves(w) /\ w.rest = <<>>
  <2>1. v = w
    BY <1>3 DEF RealStep
  <2> QED
    BY <1>3, <2>1 DEF Nears
<1>4. CASE ~ Leaves(w) /\ w.rest # <<>>
  <2>1. /\ w.at \in Places /\ w.rest \in Places /\ Solid(tree, w.at)
        /\ NoLinkEnds(w.inside, w.rest)
    BY <1>4 DEF Nears, RealTyped, NoLinkEnds, Leaves
  <2>2. x \in STRING /\ q \in Places /\ w.rest = <<x>> \o q
    BY <1>4, <2>1, HeadFirst
  <2>3. next = Append(w.at, x)
    BY DEF NextPlace
  <2>4. PICK m : Reaches(tree, w.at, w.rest, m, end)
    BY DEF Nears
  <2>5. ASSUME x # ".."
        PROVE  found.kind \in Things \cup {"link"} /\ found = Node(tree, next)
    <3>1. Reaches(tree, w.at, <<x>> \o q, m, end)
      BY <2>2, <2>4
    <3> DEFINE at == w.at
    <3>2. Solid(tree, at) /\ next = Append(at, x) /\ Reaches(tree, at, <<x>> \o q, m, end)
      BY <2>1, <2>3, <3>1
    <3> HIDE DEF at, x, q, next
    <3>3. found.kind \in Things \cup {"link"}
      BY <2>2, <2>5, <3>2, ReachesLooks DEF found
    <3> QED
      BY <2>2, <2>5, <3>2, <3>3, LookFinds
  <2>6. CASE x = ".."
    <3>1. v = [w EXCEPT !.at = Up(w.at), !.rest = q]
      BY <1>4, <2>6 DEF RealStep
    <3>2. Solid(tree, Up(w.at))
      BY <2>1, SolidUp
    <3>3. LeadsTo(tree, w.at, <<x>>, Up(w.at), <<>>)
      BY <2>1, <2>2, <2>6, OneName
    <3> QED
      BY <1>1, <1>4, <2>1, <3>1, <3>2, <3>3, NearsOn
  <2>7. CASE x # ".." /\ found.kind # "link"
    <3>1. v = [w EXCEPT !.at = next, !.rest = q]
      BY <1>4, <2>7 DEF RealStep
    <3>2. found.kind \in Things /\ Node(tree, next).kind \in Things
      BY <2>5, <2>7
    <3>3. Solid(tree, next)
      BY <2>1, <2>2, <2>3, <2>7, <3>2, LookAhead
    <3>4. LeadsTo(tree, w.at, <<x>>, next, <<>>)
      BY <2>1, <2>2, <2>3, <2>7, <3>2, OneName
    <3> QED
      BY <1>1, <1>4, <2>1, <3>1, <3>3, <3>4, NearsOn
  <2>8. CASE x # ".." /\ found.kind = "link"
    <3>1. Front(next) = w.at /\ Last(next) = x /\ ~ w.looped
      BY <2>1, <2>2, <2>3, LinkIs DEF Nears
    <3>2. CASE next \in DOMAIN w.known
      <4>1. v = [w EXCEPT !.at = w.known[next], !.rest = q]
        BY <1>4, <2>8, <3>1, <3>2 DEF RealStep
      <4>2. Solid(tree, w.known[next]) /\ Across(tree, next, w.known[next], <<>>)
        BY <3>2 DEF Nears, KnownSolid, KnownAgrees
      <4>3. LeadsTo(tree, w.at, <<x>>, w.known[next], <<>>)
        BY <3>1, <4>2 DEF Across
      <4> QED
        BY <1>1, <1>4, <2>1, <4>1, <4>2, <4>3, NearsOn
    <3>3. ~ \E i \in DOMAIN w.inside : w.inside[i].link = next
      <4> SUFFICES ASSUME NEW i \in DOMAIN w.inside, w.inside[i].link = next PROVE FALSE
        OBVIOUS
      <4> DEFINE inside == w.inside
                 at == w.at
                 rest == w.rest
      <4>1. InsideAgrees(tree, inside, at, rest)
        BY DEF Nears
      <4>2. i \in 1..Len(inside)
        <5>1. inside \in Seq(Entered)
          BY <4>1 DEF InsideAgrees
        <5> HIDE DEF inside
        <5>2. DOMAIN inside = 1..Len(inside)
          BY <5>1, LenProperties
        <5> QED
          BY <5>2 DEF inside
      <4>3. /\ at \in Places /\ rest \in Places /\ rest # <<>> /\ NoLinkEnds(inside, rest)
            /\ inside[i].link = Append(at, Head(rest))
            /\ q \in Places /\ Reaches(tree, at, <<Head(rest)>> \o q, m, end)
        BY <1>4, <2>1, <2>2, <2>3, <2>4
      <4> HIDE DEF inside, at, rest, q, next
      <4>4. WalksTo(tree, at, <<Head(rest)>> \o q, m, end, NoError)
        BY <4>3 DEF Reaches
      <4> QED
        BY <4>1, <4>2, <4>3, <4>4, InsideAgain
    <3>4. CASE next \notin DOMAIN w.known
      <4>1. v = Enters(w, found)
        BY <1>4, <2>8, <3>1, <3>3, <3>4 DEF RealStep
      <4> QED
        BY <1>1, <1>4, <2>1, <2>5, <2>8, <4>1, NearsIn
    <3> QED
      BY <3>2, <3>4
  <2> QED
    BY <2>6, <2>7, <2>8
<1> QED
  BY <1>2, <1>3, <1>4

LEMMA LookedNears ==
    ASSUME NEW python, NEW tree, TreeTyped(tree), NEW w, NEW end, NEW k \in Nat, MaxNames <= k,
           Nears(tree, w, end, k)
    PROVE  Nears(tree, Looked(python, tree, w), end, k - MaxNames)
<1>1. PICK f : /\ f[0] = w
               /\ \A n \in 1..MaxNames : f[n] = RealStep(python, tree, f[n - 1])
               /\ Looked(python, tree, w) = f[MaxNames]
  BY LookedIs
<1> DEFINE S == {n \in 0..MaxNames : Nears(tree, f[n], end, k - n)}
<1>2. 0 \in S
  <2>1. k - 0 = k /\ 0 \in 0..MaxNames
    BY MaxNamesType
  <2> QED
    BY <1>1, <2>1
<1>3. ASSUME NEW n \in 0..MaxNames, n # MaxNames, n \in S PROVE n + 1 \in S
  <2>1. /\ n + 1 \in 1..MaxNames /\ (n + 1) - 1 = n /\ n + 1 \in 0..MaxNames
        /\ k - n \in Nat /\ k - n # 0 /\ k - (n + 1) = (k - n) - 1
    BY <1>3, MaxNamesType
  <2>2. f[n + 1] = RealStep(python, tree, f[n])
    BY <1>1, <2>1
  <2>3. Nears(tree, f[n], end, k - n)
    BY <1>3
  <2>4. Nears(tree, f[n + 1], end, k - (n + 1))
    BY <2>1, <2>2, <2>3, RealStepNears
  <2> QED
    BY <2>1, <2>4
<1> HIDE DEF S
<1>4. \A n \in 0..MaxNames : n \in S
  BY <1>2, <1>3, MaxNamesType, StepByStep
<1>5. MaxNames \in 0..MaxNames
  BY MaxNamesType
<1> QED
  BY <1>1, <1>4, <1>5 DEF S

(* Where the kernel has no name to walk it has none left. *)
LEMMA NothingLeft ==
    ASSUME NEW tree, NEW a, NEW names, NEW end, Reaches(tree, a, names, 0, end)
    PROVE  names = <<>>
<1> DEFINE w == Sent(a, names)
<1>1. PICK f : f[0] = w /\ Arrived(f[0])
  BY DEF Reaches, WalksTo, Arrives
<1>2. w.rest = names /\ w.error = ""
  BY DEF Sent
<1> HIDE DEF w
<1>3. Arrived(w)
  BY <1>1
<1> QED
  BY <1>2, <1>3 DEF Arrived

(* resolve() of a path ends where the kernel does, if that arrives. *)
LEMMA RealPathArrives ==
    ASSUME NEW python, NEW tree, TreeTyped(tree), NEW names \in Places,
           KernelArrives(tree, names)
    PROVE  LET place == RealPath(python, tree, names)
           IN /\ place.rest = <<>> /\ Solid(tree, place.at)
              /\ place.at = Walked(tree, names, TRUE).at
<1> DEFINE end == Walked(tree, names, TRUE).at
           w == Unresolved(names)
           half == Looked(python, tree, w)
           top == MaxNames + MaxNames
<1>1. PICK m : Reaches(tree, <<>>, names, m, end)
  BY ReachesFrom
<1> HIDE DEF end
<1>2. m \in Nat /\ m <= MaxNames
  <2>1. Len(<<>>) = 0 /\ m \in Nat /\ Len(<<>>) + m <= MaxNames
    BY <1>1, NoNames DEF Reaches, WalksTo
  <2> QED
    BY <2>1, MaxNamesType
<1>3. /\ <<>> \in Places /\ Straight(tree, <<>>) /\ DOMAIN <<>> = {} /\ Len(<<>>) = 0
      /\ <<>> \in Seq(Entered)
  <2>1. <<>> \in Places /\ Len(<<>>) = 0
    BY NoNames
  <2>2. DOMAIN <<>> = {} /\ <<>> \in Seq(Entered)
    BY EmptySeq
  <2>3. Straight(tree, <<>>)
    BY <2>1 DEF Straight
  <2> QED
    BY <2>1, <2>2, <2>3
<1>4. Nears(tree, w, end, top)
  <2>1. /\ w.at = <<>> /\ w.rest = names /\ w.inside = <<>> /\ w.known = <<>> /\ w.looped = FALSE
        /\ DOMAIN w = RealFields
    BY DEF Unresolved, RealFields
  <2>2. RealTyped(tree, w)
    BY <1>3, <2>1 DEF RealTyped, KnownTyped
  <2>3. InsideAgrees(tree, <<>>, <<>>, names) /\ KnownAgrees(tree, <<>>) /\ KnownSolid(tree, <<>>)
    <3>1. InsideAgrees(tree, <<>>, <<>>, names)
      BY <1>3 DEF InsideAgrees, Nested
    <3>2. KnownAgrees(tree, <<>>)
      BY <1>3 DEF KnownAgrees
    <3>3. KnownSolid(tree, <<>>)
      BY <1>3 DEF KnownSolid
    <3> QED
      BY <3>1, <3>2, <3>3
  <2>4. Len(<<>>) + m + m <= top
    <3> DEFINE N == MaxNames
    <3>1. N \in Nat /\ m \in Nat /\ m <= N
      BY <1>2, MaxNamesType
    <3> HIDE DEF N
    <3>2. 0 + m + m <= N + N
      BY <3>1
    <3> QED
      BY <1>3, <3>2 DEF N
  <2> HIDE DEF w, top
  <2> QED
    BY <1>1, <1>2, <2>1, <2>2, <2>3, <2>4, SolidRoot DEF Nears
<1>5. /\ top \in Nat /\ MaxNames <= top /\ top - MaxNames = MaxNames
      /\ MaxNames \in Nat /\ MaxNames <= MaxNames /\ MaxNames - MaxNames = 0
  BY MaxNamesType
<1> HIDE DEF w, top
<1>6. Nears(tree, half, end, MaxNames)
  BY <1>4, <1>5, LookedNears
<1> HIDE DEF half
<1>7. Nears(tree, Looked(python, tree, half), end, 0)
  BY <1>5, <1>6, LookedNears
<1>8. ASSUME NEW k \in Nat, NEW v, Nears(tree, v, end, k), v.rest = <<>> \/ k = 0
      PROVE  v.rest = <<>> /\ v.at = end /\ Solid(tree, v.at)
  <2>1. PICK n \in Nat : /\ Reaches(tree, v.at, v.rest, n, end)
                         /\ v.rest = <<>> \/ Len(v.inside) + n + n <= k
    BY <1>8 DEF Nears
  <2>2. Len(v.inside) \in Nat
    BY <1>8, LenProperties DEF Nears, InsideAgrees
  <2>3. v.rest = <<>>
    <3> SUFFICES ASSUME v.rest # <<>> PROVE FALSE
      OBVIOUS
    <3> DEFINE l == Len(v.inside)
    <3>1. l \in Nat /\ l + n + n <= k /\ k = 0
      BY <1>8, <2>1, <2>2
    <3> HIDE DEF l
    <3>2. n = 0
      BY <3>1
    <3> QED
      BY <2>1, <3>2, NothingLeft
  <2>4. Reaches(tree, v.at, <<>>, n, end)
    BY <2>1, <2>3
  <2>5. end = v.at
    BY <2>4, ReachesEnd
  <2> QED
    BY <1>8, <2>3, <2>5 DEF Nears
<1>9. RealPath(python, tree, names) = IF half.rest = <<>> THEN half ELSE Looked(python, tree, half)
  BY DEF RealPath, half, w
<1>10. CASE half.rest = <<>>
  BY <1>5, <1>6, <1>8, <1>9, <1>10 DEF end
<1>11. CASE half.rest # <<>>
  BY <1>7, <1>8, <1>9, <1>11 DEF end
<1> QED
  BY <1>10, <1>11

(* A straight path with which the kernel arrives ends where it says. *)
LEMMA StraightEnds ==
    ASSUME NEW tree, TreeTyped(tree), NEW p \in Places, Straight(tree, p),
           KernelArrives(tree, p)
    PROVE  Walked(tree, p, TRUE).at = p
<1> DEFINE end == Walked(tree, p, TRUE).at
           Comes(k) == /\ Solid(tree, Way(p, k))
                       /\ \E n : Reaches(tree, Way(p, k), Left(p, k), n, end)
           S == {k \in 0..Len(p) : Comes(k)}
<1>1. Len(p) \in Nat
  BY PlaceType
<1>2. \E n : Reaches(tree, <<>>, p, n, end)
  BY ReachesFrom
<1> HIDE DEF end
<1>3. 0 \in S
  <2>1. 0 \in 0..Len(p)
    BY <1>1
  <2>2. Way(p, 0) = <<>> /\ Left(p, 0) = p
    BY <2>1, WayFacts, LeftFacts
  <2> QED
    BY <1>2, <2>1, <2>2, SolidRoot
<1>4. ASSUME NEW k \in 0..Len(p), k # Len(p), k \in S PROVE k + 1 \in S
  <2> DEFINE at == Way(p, k)
             x == p[k + 1]
             q == Left(p, k + 1)
  <2>1. k \in 0..(Len(p) - 1) /\ k + 1 \in 1..Len(p) /\ k + 1 \in 0..Len(p)
    <3> HIDE DEF S
    <3> QED
      BY <1>1, <1>4
  <2>2. Append(at, x) = Way(p, k + 1)
    BY <2>1, NextOnTheWay
  <2>3. x # ".." /\ Lstat(tree, Append(at, x)).kind # "link"
    BY <2>1, <2>2 DEF Straight
  <2>4. Left(p, k) \in Places
    <3>1. \A i \in (k + 1)..Len(p) : p[i] \in STRING
      BY <2>1, PlaceType, SMTT(30)
    <3>2. p \in Seq(STRING) /\ Len(p) \in Int /\ k + 1 \in Int
      BY <1>1, <2>1 DEF Places
    <3> QED
      BY <3>1, <3>2, SubSeqProperties DEF Left, Places
  <2>5. x \in STRING /\ q \in Places /\ Left(p, k) = <<x>> \o q
    <3>1. Left(p, k) # <<>> /\ Head(Left(p, k)) = x /\ Tail(Left(p, k)) = q
      BY <2>1, LeftFacts
    <3> QED
      BY <2>4, <3>1, HeadFirst
  <2>6. PICK n : Reaches(tree, at, <<x>> \o q, n, end)
    BY <1>4, <2>5
  <2>7. Solid(tree, at) /\ at \in Places
    BY <1>4 DEF Solid
  <2> HIDE DEF at, x, q
  <2>8. Lstat(tree, Append(at, x)).kind \in Things
    BY <2>3, <2>5, <2>6, <2>7, ReachesLooks
  <2>9. Solid(tree, Append(at, x))
    BY <2>3, <2>5, <2>7, <2>8, LookAhead
  <2>10. Node(tree, Append(at, x)).kind \in Things
    BY <2>3, <2>5, <2>7, <2>8, LookFinds
  <2>11. LeadsTo(tree, at, <<x>>, Append(at, x), <<>>)
    BY <2>3, <2>5, <2>7, <2>10, OneName
  <2>12. \E i \in Nat : i < n /\ Reaches(tree, Append(at, x), <<>> \o q, i, end)
    BY <2>5, <2>6, <2>11, ReachesOn
  <2>13. <<>> \o q = q
    BY <2>5, NoNamesJoin
  <2> QED
    BY <2>1, <2>2, <2>9, <2>12, <2>13 DEF q
<1> HIDE DEF S
<1>5. \A k \in 0..Len(p) : k \in S
  BY <1>1, <1>3, <1>4, StepByStep
<1>6. Comes(Len(p))
  <2>1. Len(p) \in 0..Len(p)
    BY <1>1
  <2> HIDE DEF Comes
  <2> QED
    BY <1>5, <2>1 DEF S
<1>7. Way(p, Len(p)) = p /\ Left(p, Len(p)) = <<>>
  <2>1. Len(p) \in 0..Len(p)
    BY <1>1
  <2> QED
    BY <2>1, WayFacts, LeftFacts
<1>8. PICK n : Reaches(tree, p, <<>>, n, end)
  BY <1>6, <1>7
<1>9. end = p
  BY <1>8, ReachesEnd
<1> QED
  BY <1>9 DEF end

LEMMA LookEnds ==
    ASSUME NEW tree, TreeTyped(tree), NEW names \in Places
    PROVE  LET end == Walked(tree, names, TRUE)
               found == Stat(tree, names)
           IN /\ KernelArrives(tree, names) => found = Node(tree, end.at)
              /\ ~ KernelArrives(tree, names) => found.kind \in Errs \cup {"ELOOP"}
<1> DEFINE end == Walked(tree, names, TRUE)
           found == Stat(tree, names)
           last == TRUE
<1>1. last \in BOOLEAN /\ last = TRUE
  OBVIOUS
<1> HIDE DEF last
<1>2. LET w == Walked(tree, names, last)
          seen == Found(tree, w)
      IN \/ w.error = "" /\ seen = Node(tree, w.at) /\ seen \in TreeNodes
         \/ w.error \in Errs \cup {"ELOOP"} /\ seen = [kind |-> w.error]
  BY <1>1, LookIs, Zenon
<1>3. found = Found(tree, end)
  BY DEF Stat
<1> HIDE DEF end, found
<1>4. \/ end.error = NoError /\ found = Node(tree, end.at)
      \/ end.error \in Errs \cup {"ELOOP"} /\ found = [kind |-> end.error]
  BY <1>1, <1>2, <1>3, Zenon DEF end, NoError
<1>5. KernelArrives(tree, names) <=> end.error = NoError
  BY DEF KernelArrives, end
<1>6. NoError \notin Errs \cup {"ELOOP"}
  BY Zenon DEF Errs, NoError
<1>7. /\ KernelArrives(tree, names) => found = Node(tree, end.at)
      /\ ~ KernelArrives(tree, names) => found.kind \in Errs \cup {"ELOOP"}
  BY <1>4, <1>5, <1>6
<1> QED
  BY <1>7 DEF end, found

(* Where the kernel arrives with a path resolve() finds what the kernel does. *)
LEMMA PlaceArrives ==
    ASSUME NEW python, NEW tree, TreeTyped(tree), NEW names \in Places, KernelArrives(tree, names)
    PROVE  LET place == RealPath(python, tree, names)
               end == Walked(tree, names, TRUE)
           IN /\ place.at = end.at
              /\ IsRoot(tree, place) <=> IsDirectory(Node(tree, end.at))
              /\ ~ Raises(python, tree, place)
<1> DEFINE place == RealPath(python, tree, names)
           end == Walked(tree, names, TRUE)
           at == place.at
           last == TRUE
<1>1. place.rest = <<>> /\ Solid(tree, at) /\ at = end.at
  BY RealPathArrives
<1>2. last \in BOOLEAN /\ last = TRUE
  OBVIOUS
<1> HIDE DEF place, end, at, last
<1>3. at \in Places
  BY <1>1 DEF Solid
<1>4. Walked(tree, at, last).at = at /\ Walked(tree, at, last).error = NoError
  BY <1>1, <1>2, SolidIsItself, Zenon DEF NoError
<1>5. Stat(tree, at) = Node(tree, at)
  BY <1>2, <1>3, <1>4, LookEnds DEF KernelArrives
<1>6. Node(tree, at).kind \notin {"ELOOP", "EACCES"}
  BY NodeType, NodeKinds
<1>7. IsRoot(tree, place) <=> IsDirectory(Node(tree, at))
  BY <1>1, <1>5 DEF IsRoot, at
<1>8. ~ Raises(python, tree, place)
  BY <1>5, <1>6 DEF Raises, EndLoops, at
<1> QED
  BY <1>1, <1>7, <1>8 DEF place, end, at

(* A root is free of links, unless one led into itself. *)
LEMMA RootIsItself ==
    ASSUME NEW python, NEW tree, TreeTyped(tree), NEW names \in Places,
           IsRoot(tree, RealPath(python, tree, names)), ~ RealPath(python, tree, names).looped
    PROVE  LET at == RealPath(python, tree, names).at
               own == Walked(tree, at, TRUE)
           IN KernelArrives(tree, at) /\ own.at = at /\ IsDirectory(Node(tree, own.at))
<1> DEFINE place == RealPath(python, tree, names)
           at == place.at
           own == Walked(tree, at, TRUE)
<1>1. RealTyped(tree, place)
  BY RealPathTyped
<1>2. IsDirectory(Stat(tree, at)) /\ ~ place.looped
  BY DEF IsRoot
<1> HIDE DEF place
<1>3. at \in Places /\ Straight(tree, at)
  BY <1>1, <1>2 DEF RealTyped
<1> HIDE DEF at
<1>4. Stat(tree, at).kind \notin Errs \cup {"ELOOP"}
  BY <1>2 DEF IsDirectory, Errs
<1>5. KernelArrives(tree, at) /\ Stat(tree, at) = Node(tree, own.at)
  BY <1>3, <1>4, LookEnds
<1>6. own.at = at
  BY <1>3, <1>5, StraightEnds
<1> HIDE DEF own
<1>7. IsDirectory(Node(tree, own.at))
  BY <1>2, <1>5
<1> QED
  BY <1>5, <1>6, <1>7 DEF place, at, own

LEMMA EndsIs ==
    ASSUME NEW names
    PROVE  /\ EndsAtDirectory(Walked(input.fs, names, TRUE)) <=>
                 KernelArrives(input.fs, names) /\ IsDirectory(Node(input.fs, Walked(input.fs, names, TRUE).at))
           /\ Walked(input.fs, names, TRUE).error # "" => ~ KernelArrives(input.fs, names)
           /\ ~ KernelArrives(input.fs, names) => Walked(input.fs, names, TRUE).error # ""
           /\ Walked(input.fs, names, TRUE).error = "" => KernelArrives(input.fs, names)
  BY Zenon DEF EndsAtDirectory, KernelArrives, NoError

(* A path of the configuration and the directory it is resolved to. *)
LEMMA PathStands ==
    ASSUME IsScenario(input), NEW base \in Places, NEW path, path.names \in Places
    PROVE  LET place == Place(input.python, input.fs, base, path)
               end == ByKernel(base, path)
           IN /\ IsRoot(input.fs, place) => StandsFor(place.at, end, place.looped)
              /\ ~ IsRoot(input.fs, place) => ~ EndsAtDirectory(end)
              /\ Raises(input.python, input.fs, place) => end.error # ""
<1> DEFINE names == NamesFrom(base, path)
           tree == input.fs
           place == RealPath(input.python, tree, names)
           end == Walked(tree, names, TRUE)
           ends == end.error = ""
           own == Walked(tree, place.at, TRUE)
<1>1. TreeTyped(tree)
  BY DEF TreeTyped, IsScenario
<1>2. names \in Places
  BY <1>1, PlaceIs
<1>3. place = Place(input.python, input.fs, base, path) /\ end = ByKernel(base, path)
  BY DEF Place, ByKernel
<1> HIDE DEF names
<1>4. /\ EndsAtDirectory(end) <=> KernelArrives(tree, names) /\ IsDirectory(Node(tree, end.at))
      /\ ends => KernelArrives(tree, names)
      /\ ~ KernelArrives(tree, names) => ~ ends
  BY EndsIs, Zenon
<1>5. EndsAtDirectory(own) <=> KernelArrives(tree, place.at) /\ IsDirectory(Node(tree, own.at))
  BY EndsIs, Zenon
<1>6. KernelArrives(tree, names) =>
         /\ place.at = end.at
         /\ IsRoot(tree, place) <=> IsDirectory(Node(tree, end.at))
         /\ ~ Raises(input.python, tree, place)
  BY <1>1, <1>2, PlaceArrives
<1>7. IsRoot(tree, place) /\ ~ place.looped =>
         KernelArrives(tree, place.at) /\ own.at = place.at /\ IsDirectory(Node(tree, own.at))
  BY <1>1, <1>2, RootIsItself
<1>8. IsRoot(tree, place) => IsDirectory(Stat(tree, place.at))
  BY DEF IsRoot
<1> HIDE DEF place, end, ends, own, tree
<1>9. IsRoot(tree, place) => place.looped \/ IsOwnRoot(place.at)
  BY <1>5, <1>7, Zenon DEF IsOwnRoot, own, tree
<1>10. IsRoot(tree, place) => StandsFor(place.at, end, place.looped)
  BY <1>4, <1>6, <1>8, <1>9, Zenon DEF StandsFor, ends, tree
<1>11. /\ ~ IsRoot(tree, place) => ~ EndsAtDirectory(end)
       /\ Raises(input.python, tree, place) => ~ ends
  BY <1>4, <1>6
<1> QED
  BY <1>3, <1>10, <1>11, Zenon DEF tree, ends

(* Both paths of the configuration. *)
LEMMA RootStands ==
    ASSUME IsScenario(input), Is(Source("workspace_root"), "path")
    PROVE  /\ RootPlace.at \in Places
           /\ IsRoot(input.fs, RootPlace) => StandsFor(RootPlace.at, RootEnd, RootPlace.looped)
           /\ ~ IsRoot(input.fs, RootPlace) => ~ EndsAtDirectory(RootEnd)
           /\ Raises(input.python, input.fs, RootPlace) => RootEnd.error # ""
<1> DEFINE path == Source("workspace_root").path
           base == Cwd
<1>1. path.names \in Places /\ base \in Places /\ TreeTyped(input.fs)
  BY SourcePath, CwdIsPlace DEF TreeTyped, IsScenario
<1>2. RootPlace = Place(input.python, input.fs, base, path) /\ RootEnd = ByKernel(base, path)
  BY DEF RootPlace, RootEnd
<1> HIDE DEF path, base
<1>3. RootPlace.at \in Places
  BY <1>1, <1>2, PlaceIs
<1> QED
  BY <1>1, <1>2, <1>3, PathStands, Zenon

LEMMA ArtifactsStand ==
    ASSUME IsScenario(input), RootPlace.at \in Places, Is(Source("artifact_directory"), "path")
    PROVE  /\ IsRoot(input.fs, ArtifactPlace) =>
                 StandsFor(ArtifactPlace.at, ArtifactEnd, ArtifactPlace.looped)
           /\ ~ IsRoot(input.fs, ArtifactPlace) => ~ EndsAtDirectory(ArtifactEnd)
           /\ Raises(input.python, input.fs, ArtifactPlace) => ArtifactEnd.error # ""
<1> DEFINE path == Source("artifact_directory").path
           base == RootPlace.at
<1>1. path.names \in Places /\ base \in Places
  BY SourcePath
<1>2. ArtifactPlace = Place(input.python, input.fs, base, path) /\ ArtifactEnd = ByKernel(base, path)
  BY DEF ArtifactPlace, ArtifactEnd
<1> HIDE DEF path, base
<1> QED
  BY <1>1, <1>2, PathStands, Zenon

LEMMA RootIsValid ==
    ASSUME NEW python, NEW tree, NEW v, Is(v, "path"), IsRoot(tree, Place(python, tree, Cwd, v.path))
    PROVE  Valid(python, tree, "workspace_root", v)
  BY SMT DEF Valid, Ceilings

LEMMA ValidPaths ==
    ASSUME IsScenario(input), \A f \in DOMAIN AllValues : Valid(input.python, input.fs, f, AllValues[f])
    PROVE  RootPlace.at \in Places /\ Is(Source("artifact_directory"), "path")
<1>1. /\ {"workspace_root", "artifact_directory"} \subseteq DOMAIN AllValues
      /\ AllValues.workspace_root = Source("workspace_root")
      /\ AllValues.artifact_directory = Source("artifact_directory")
  BY AllIsSource, FieldNames
<1>2. Is(Source("workspace_root"), "path") /\ Is(Source("artifact_directory"), "path")
  BY <1>1, ValidIs
<1> QED
  BY <1>2, RootStands

LEMMA ServedResolves ==
    ASSUME IsScenario(input), config = Served, WhyServed
    PROVE  ConfigurationIsResolved
<1>1. /\ config.status = "serving" /\ config.artifact_directory = ArtifactsFound.at
      /\ \A f \in Fields \ {"artifact_directory"} :
            config[f] = KeptValues[f] /\ config[f] = Kept(input.python, input.fs, f, AllValues[f])
  BY ServedIs DEF KeptValues
<1>2. /\ DOMAIN AllValues = Fields \cup {input.file.keys[i].field : i \in DOMAIN input.file.keys}
      /\ \A f \in Fields : AllValues[f] = Source(f)
  BY AllIsSource
<1>3. KeysAreKnown
  BY <1>2, UnknownIsInvalid DEF KeysAreKnown, WhyServed
<1>4. ASSUME NEW f \in Fields PROVE SourceIsValid(f)
  <2>1. Valid(input.python, input.fs, f, Source(f))
    BY <1>2 DEF WhyServed
  <2>2. ~ Is(Source(f), "error")
    <3>1. CASE f \in DOMAIN input.env
      BY <3>1 DEF WhyServed, EnvBroken, Parsed, Source
    <3>2. CASE f \notin DOMAIN input.env
      BY <3>2, SourceHasValue
    <3> QED
      BY <3>1, <3>2
  <2> QED
    BY <2>1, <2>2 DEF SourceIsValid
<1>5. \A f \in Fields \ {"artifact_directory"} : config[f] = Kept(input.python, input.fs, f, Source(f))
  BY <1>1, <1>2
<1>6. /\ "workspace_root" \in Fields /\ "artifact_directory" \in Fields
      /\ "allowed_commands" \in Fields /\ "test_commands" \in Fields
  BY FieldNames
<1>7. /\ Valid(input.python, input.fs, "workspace_root", Source("workspace_root"))
      /\ Valid(input.python, input.fs, "artifact_directory", Source("artifact_directory"))
      /\ Valid(input.python, input.fs, "allowed_commands", Source("allowed_commands"))
  BY <1>4, <1>6 DEF SourceIsValid
<1>8. Is(Source("workspace_root"), "path") /\ Is(Source("artifact_directory"), "path")
  BY <1>7, ValidIs
<1>9. RootPlace.at \in Places /\ StandsFor(config.workspace_root, RootEnd, RootPlace.looped)
  <2>1. IsRoot(input.fs, RootPlace) /\ config.workspace_root = RootPlace.at
    BY <1>5, <1>6, <1>7, ValidIs, KeptIs DEF RootPlace
  <2> QED
    BY <1>8, <2>1, RootStands
<1>10. StandsFor(config.artifact_directory, ArtifactEnd, ArtifactPlace.looped)
  <2>1. IsRoot(input.fs, ArtifactPlace) /\ config.artifact_directory = ArtifactPlace.at
    BY <1>1, FoundIs DEF WhyServed
  <2> QED
    BY <1>8, <1>9, <2>1, ArtifactsStand
<1>11. ASSUME NEW i \in DOMAIN config.allowed_commands
       PROVE  RunnableExecutable(config.allowed_commands[i].executable)
  <2> DEFINE list == Source("allowed_commands").list
             item == list[i]
  <2>1. config.allowed_commands = [j \in DOMAIN list |-> KeptAllowed(list[j])]
    BY <1>5, <1>6, KeptIs
  <2>2. i \in DOMAIN list /\ AllowedValid(item) /\ config.allowed_commands[i] = KeptAllowed(item)
    BY <1>7, <1>11, <2>1, ValidIs
  <2> HIDE DEF list, item
  <2>3. KeptAllowed(item).executable = Strip(item.executable) /\ Strip(item.executable).form = "bare"
    BY <2>2 DEF KeptAllowed, KeptExecutable, AllowedValid, ConfigurableExecutable, Is
  <2> QED
    BY <2>2, <2>3 DEF RunnableExecutable
<1> QED
  BY <1>1, <1>3, <1>4, <1>5, <1>9, <1>10, <1>11 DEF ConfigurationIsResolved

(* An error of a source, and a field that is invalid. *)
LEMMA FieldResolves ==
    ASSUME IsScenario(input), config.status = "ConfigError", NEW f \in Fields, ~ SourceIsValid(f)
    PROVE  ConfigurationIsResolved
<1>1. CASE f # "workspace_root"
  BY <1>1 DEF ConfigurationIsResolved
<1>2. CASE ~ Is(Source("workspace_root"), "path")
  BY <1>2 DEF ConfigurationIsResolved
<1>3. CASE f = "workspace_root" /\ Is(Source("workspace_root"), "path")
  <2> DEFINE v == Source(f)
  <2>1. ~ Is(v, "error")
    <3>1. CASE f \in DOMAIN input.env
      <4>1. v \in EnvValues
        BY <1>3, <3>1, SourceIs DEF ParseEnvValue
      <4> HIDE DEF v
      <4> QED
        BY <4>1 DEF EnvValues, Is
    <3>2. CASE f \notin DOMAIN input.env
      BY <3>2, SourceHasValue
    <3> QED
      BY <3>1, <3>2
  <2>2. ~ Valid(input.python, input.fs, "workspace_root", v)
    BY <1>3, <2>1 DEF SourceIsValid
  <2>3. ~ IsRoot(input.fs, RootPlace)
    <3>1. Is(v, "path") /\ RootPlace = Place(input.python, input.fs, Cwd, v.path)
      BY <1>3 DEF RootPlace
    <3> HIDE DEF v
    <3> QED
      BY <2>2, <3>1, RootIsValid
  <2>4. ~ EndsAtDirectory(RootEnd)
    BY <1>3, <2>3, RootStands
  <2> QED
    BY <2>4 DEF ConfigurationIsResolved
<1> QED
  BY <1>1, <1>2, <1>3

LEMMA RefusedResolves ==
    ASSUME IsScenario(input), config = Refused, WhyRefused
    PROVE  ConfigurationIsResolved
<1>1. config.status = "ConfigError"
  BY DEF Refused
<1>2. /\ DOMAIN AllValues = Fields \cup {input.file.keys[i].field : i \in DOMAIN input.file.keys}
      /\ \A f \in Fields : AllValues[f] = Source(f)
  BY AllIsSource
<1>3. CASE EnvBroken
  <2>1. PICK f \in DOMAIN input.env : Is(Source(f), "error")
    BY <1>3 DEF EnvBroken, Parsed, Source
  <2>2. f \in Fields /\ ~ SourceIsValid(f)
    BY <2>1 DEF IsScenario, SourceIsValid
  <2> QED
    BY <1>1, <2>2, FieldResolves
<1>4. CASE \E f \in DOMAIN AllValues : ~ Valid(input.python, input.fs, f, AllValues[f])
  <2>1. PICK f \in DOMAIN AllValues : ~ Valid(input.python, input.fs, f, AllValues[f])
    BY <1>4
  <2>2. CASE f \in Fields
    <3>1. ~ SourceIsValid(f)
      BY <1>2, <2>1, <2>2 DEF SourceIsValid
    <3> QED
      BY <1>1, <2>2, <3>1, FieldResolves
  <2>3. CASE f \notin Fields
    <3>1. ~ KeysAreKnown
      BY <1>2, <2>1, <2>3 DEF KeysAreKnown
    <3> QED
      BY <1>1, <3>1 DEF ConfigurationIsResolved
  <2> QED
    BY <2>2, <2>3
<1>5. CASE /\ \A f \in DOMAIN AllValues : Valid(input.python, input.fs, f, AllValues[f])
           /\ ~ IsRoot(input.fs, ArtifactsFound)
  <2>1. RootPlace.at \in Places /\ Is(Source("artifact_directory"), "path")
    BY <1>5, ValidPaths
  <2>2. ~ EndsAtDirectory(ArtifactEnd)
    BY <1>5, <2>1, FoundIs, ArtifactsStand
  <2> QED
    BY <1>1, <2>2 DEF ConfigurationIsResolved
<1>6. CASE input.file.is \in {"missing", "malformed", "no_table"}
  BY <1>1, <1>6 DEF ConfigurationIsResolved
<1> QED
  BY <1>3, <1>4, <1>5, <1>6 DEF WhyRefused

LEMMA CrashedResolves ==
    ASSUME IsScenario(input), config = Crashed, WhyCrashed
    PROVE  ConfigurationIsResolved
<1>1. config.status = "exception"
  BY DEF Crashed
<1>2. AllValues.log_level = Source("log_level") /\ AllValues.workspace_root = Source("workspace_root")
  BY AllIsSource, FieldNames
<1>3. RootFound = RootPlace /\ ArtifactsFound = ArtifactPlace
  BY FoundIs
<1>4. CASE input.file.is = "unreadable" \/ ~ IsText(AllValues.log_level)
  BY <1>1, <1>2, <1>4 DEF ConfigurationIsResolved
<1>5. CASE Is(AllValues.workspace_root, "path") /\ Raises(input.python, input.fs, RootFound)
  <2> DEFINE failed == RootEnd.error # ""
  <2>1. failed
    BY <1>2, <1>3, <1>5, RootStands
  <2> HIDE DEF failed
  <2>2. config.status # "serving" /\ config.status # "ConfigError"
    BY <1>1
  <2> QED
    BY <2>1, <2>2, Zenon DEF ConfigurationIsResolved, failed
<1>6. CASE /\ \A f \in DOMAIN AllValues : Valid(input.python, input.fs, f, AllValues[f])
           /\ Raises(input.python, input.fs, ArtifactsFound)
  <2> DEFINE failed == ArtifactEnd.error # ""
  <2>1. RootPlace.at \in Places /\ Is(Source("artifact_directory"), "path")
    BY <1>6, ValidPaths
  <2>2. failed
    BY <1>3, <1>6, <2>1, ArtifactsStand
  <2> HIDE DEF failed
  <2>3. config.status # "serving" /\ config.status # "ConfigError"
    BY <1>1
  <2> QED
    BY <2>2, <2>3, Zenon DEF ConfigurationIsResolved, failed
<1> QED
  BY <1>4, <1>5, <1>6 DEF WhyCrashed

(***************************************************************************)
(* Whatever the file, the environment and the file system: a server that   *)
(* starts has every field from the strongest of its sources, executables   *)
(* that may run and, as its roots, the directories where the kernel        *)
(* arrives with the paths that are configured; one that does not start     *)
(* had a reason for it (load_config and the validators of config.py).      *)
(***************************************************************************)
THEOREM ConfigurationCorrect == Spec => []ConfigurationIsResolved
<1>1. ConfigInv => ConfigurationIsResolved
  <2> SUFFICES ASSUME ConfigInv PROVE ConfigurationIsResolved
    OBVIOUS
  <2>1. IsScenario(input)
    BY ScenariosAssumption DEF ConfigInv
  <2>2. CASE config.status = "none"
    BY <2>2, Zenon DEF ConfigurationIsResolved
  <2>3. CASE config.status # "none"
    <3>1. config = Outcome
      BY <2>3 DEF ConfigInv
    <3> QED
      BY <2>1, <3>1, OutcomeIs, ServedResolves, RefusedResolves, CrashedResolves
  <2> QED
    BY <2>2, <2>3
<1> QED
  BY <1>1, ConfigurationKept, PTL

=============================================================================
