-------------------------- MODULE Ordering_proofs --------------------------
(***************************************************************************)
(* What Sorted is, for every finite set and every order on it: a sequence  *)
(* that has each element once and in order, and the only such sequence.    *)
(* And that the order in which a walk meets paths is an order, total on    *)
(* all of them.                                                            *)
(***************************************************************************)
EXTENDS Ordering, SequenceTheorems, FiniteSetTheorems, FunctionTheorems, TLAPS

(* A set of natural numbers has a least element: induction over data starts from this. *)
LEMMA LeastNatural ==
    ASSUME NEW T, T \subseteq Nat, T # {}
    PROVE  \E n \in T : \A m \in T : n <= m
<1>1. IsWellFoundedOn(OpToRel(<, Nat), Nat)
  BY NatLessThanWellFounded
<1>2. PICK n \in T : \A m \in T : ~ (<<m, n>> \in OpToRel(<, Nat))
  BY <1>1, WFMin
<1>3. \A m \in T : ~ (m < n)
  BY <1>2 DEF OpToRel
<1> QED
  BY <1>3

(* What holds of a, and of n + 1 if it holds of n, holds from a to b. *)
LEMMA StepByStep ==
    ASSUME NEW a \in Nat, NEW b \in Nat, NEW S, a \in S,
           \A n \in a..b : n # b /\ n \in S => n + 1 \in S
    PROVE  \A n \in a..b : n \in S
<1> DEFINE T == {n \in a..b : n \notin S}
<1>1. SUFFICES ASSUME T # {} PROVE FALSE
  OBVIOUS
<1>2. T \subseteq Nat
  OBVIOUS
<1> HIDE DEF T
<1>3. PICK n \in T : \A m \in T : n <= m
  BY <1>1, <1>2, LeastNatural
<1>4. n \in a..b /\ n \notin S /\ n # a
  BY <1>3 DEF T
<1>5. n - 1 \in a..b /\ n - 1 # b /\ (n - 1) + 1 = n /\ ~ (n <= n - 1)
  BY <1>4
<1>6. n - 1 \in S
  BY <1>3, <1>5 DEF T
<1> QED
  BY <1>4, <1>5, <1>6

(* An element is counted by the rank of every element from it on. *)
LEMMA UpToGrows ==
    ASSUME NEW S, NEW R, IsFiniteSet(S), IsOrderOn(R, S), NEW x \in S, NEW y \in S, x # y,
           <<x, y>> \in R
    PROVE  Cardinality(UpTo(x, S, R)) < Cardinality(UpTo(y, S, R))
<1>1. UpTo(x, S, R) \subseteq UpTo(y, S, R) /\ y \notin UpTo(x, S, R) /\ y \in UpTo(y, S, R)
  BY DEF UpTo, IsOrderOn
<1>2. UpTo(y, S, R) \subseteq S
  BY DEF UpTo
<1>3. IsFiniteSet(UpTo(y, S, R))
  BY <1>2, FS_Subset
<1>4. /\ Cardinality(UpTo(x, S, R)) <= Cardinality(UpTo(y, S, R))
      /\ Cardinality(UpTo(x, S, R)) # Cardinality(UpTo(y, S, R))
      /\ IsFiniteSet(UpTo(x, S, R))
  BY <1>1, <1>3, FS_Subset
<1>5. Cardinality(UpTo(x, S, R)) \in Nat /\ Cardinality(UpTo(y, S, R)) \in Nat
  BY <1>3, <1>4, FS_CardinalityType
<1> QED
  BY <1>4, <1>5

(* The ranks of the elements of S are the numbers from 1 to their number. *)
LEMMA Ranks ==
    ASSUME NEW S, NEW R, IsFiniteSet(S), IsOrderOn(R, S)
    PROVE  /\ \A x \in S : Cardinality(UpTo(x, S, R)) \in 1..Cardinality(S)
           /\ \A n \in 1..Cardinality(S) : \E x \in S : Cardinality(UpTo(x, S, R)) = n
<1> DEFINE rank == [x \in S |-> Cardinality(UpTo(x, S, R))]
           N == Cardinality(S)
<1>1. N \in Nat /\ IsFiniteSet(1..N) /\ Cardinality(1..N) = N
  BY FS_CardinalityType, FS_Interval
<1>2. ASSUME NEW x \in S PROVE rank[x] \in 1..N
  <2>1. x \in UpTo(x, S, R) /\ UpTo(x, S, R) \subseteq S
    BY DEF UpTo, IsOrderOn
  <2>2. /\ IsFiniteSet(UpTo(x, S, R)) /\ Cardinality(UpTo(x, S, R)) <= N
        /\ Cardinality(UpTo(x, S, R)) \in Nat
    BY <2>1, FS_Subset, FS_CardinalityType
  <2>3. Cardinality(UpTo(x, S, R)) # 0
    BY <2>1, <2>2, FS_EmptySet
  <2> QED
    BY <1>1, <2>2, <2>3
<1>3. ASSUME NEW x \in S, NEW y \in S, x # y PROVE rank[x] # rank[y]
  <2>1. rank[x] \in Nat /\ rank[y] \in Nat
    BY <1>1, <1>2
  <2>2. <<x, y>> \in R \/ <<y, x>> \in R
    BY DEF IsOrderOn
  <2> QED
    BY <1>3, <2>1, <2>2, UpToGrows
<1>4. rank \in Injection(S, 1..N)
  BY <1>2, <1>3, Fun_IsInj
<1>5. rank \in Surjection(S, 1..N)
  BY <1>1, <1>4, FS_Injection
<1>6. \A n \in 1..N : \E x \in S : rank[x] = n
  BY <1>5 DEF Surjection
<1> QED
  BY <1>2, <1>6

(* Sorted is a sequence of the elements of S that has each of them once, in order. *)
THEOREM SortedProperties ==
    ASSUME NEW S, NEW R, IsFiniteSet(S), IsOrderOn(R, S)
    PROVE  /\ Sorted(S, R) \in Seq(S) /\ Len(Sorted(S, R)) = Cardinality(S)
           /\ \A x \in S : \E n \in 1..Cardinality(S) : Sorted(S, R)[n] = x
           /\ \A m, n \in 1..Cardinality(S) : m < n =>
                 <<Sorted(S, R)[m], Sorted(S, R)[n]>> \in R /\ Sorted(S, R)[m] # Sorted(S, R)[n]
<1> DEFINE N == Cardinality(S)
           s == Sorted(S, R)
           rank(x) == Cardinality(UpTo(x, S, R))
<1>1. N \in Nat
  BY FS_CardinalityType
<1>2. ASSUME NEW n \in 1..N PROVE s[n] \in S /\ rank(s[n]) = n
  BY Ranks DEF Sorted
<1>3. s \in [1..N -> S]
  BY <1>2 DEF Sorted
<1>4. s \in Seq(S) /\ Len(s) = N
  BY <1>1, <1>3
<1>5. ASSUME NEW x \in S PROVE \E n \in 1..N : s[n] = x
  <2>1. rank(x) \in 1..N
    BY Ranks
  <2>2. s[rank(x)] \in S /\ rank(s[rank(x)]) = rank(x)
    BY <1>2, <2>1
  <2>3. rank(x) \in Nat
    BY <1>1, <2>1
  <2>4. s[rank(x)] = x
    <3> SUFFICES ASSUME s[rank(x)] # x PROVE FALSE
      OBVIOUS
    <3>1. <<x, s[rank(x)]>> \in R \/ <<s[rank(x)], x>> \in R
      BY <2>2 DEF IsOrderOn
    <3> QED
      BY <2>2, <2>3, <3>1, UpToGrows
  <2> QED
    BY <2>1, <2>4
<1>6. ASSUME NEW m \in 1..N, NEW n \in 1..N, m < n PROVE <<s[m], s[n]>> \in R /\ s[m] # s[n]
  <2>1. s[m] \in S /\ s[n] \in S /\ rank(s[m]) = m /\ rank(s[n]) = n /\ m \in Nat /\ n \in Nat
    BY <1>1, <1>2
  <2>2. s[m] # s[n]
    BY <1>6, <2>1
  <2>3. <<s[m], s[n]>> \in R \/ <<s[n], s[m]>> \in R
    BY <2>1 DEF IsOrderOn
  <2> QED
    BY <1>6, <2>1, <2>2, <2>3, UpToGrows
<1> QED
  BY <1>4, <1>5, <1>6

(* No other sequence has the elements of S, each once, in order. *)
THEOREM SortedUnique ==
    ASSUME NEW S, NEW R, IsFiniteSet(S), IsOrderOn(R, S), NEW t \in Seq(S),
           \A x \in S : \E n \in 1..Len(t) : t[n] = x,
           \A m, n \in 1..Len(t) : m < n => <<t[m], t[n]>> \in R /\ t[m] # t[n]
    PROVE  t = Sorted(S, R)
<1> DEFINE N == Len(t)
<1>1. N \in Nat /\ t \in [1..N -> S]
  BY LenProperties
<1>2. ASSUME NEW m \in 1..N, NEW n \in 1..N, m # n PROVE t[m] # t[n]
  <2>1. m < n \/ n < m
    BY <1>1, <1>2
  <2> QED
    BY <2>1
<1>3. t \in Bijection(1..N, S)
  BY <1>1, <1>2, Fun_IsBij
<1>4. Cardinality(S) = N
  BY <1>1, <1>3, FS_CountingElements DEF ExistsBijection
<1>5. ASSUME NEW n \in 1..N PROVE Cardinality(UpTo(t[n], S, R)) = n
  <2>1. n \in Nat /\ t[n] \in S
    BY <1>1
  <2>2. \A m \in 1..n : t[m] \in UpTo(t[n], S, R)
    <3> SUFFICES ASSUME NEW m \in 1..n PROVE <<t[m], t[n]>> \in R /\ t[m] \in S
      BY DEF UpTo
    <3>1. m \in 1..N /\ (m < n \/ m = n)
      BY <1>1, <2>1
    <3> QED
      BY <1>1, <2>1, <3>1 DEF IsOrderOn
  <2>3. ASSUME NEW x \in UpTo(t[n], S, R) PROVE \E m \in 1..n : t[m] = x
    <3>1. x \in S /\ <<x, t[n]>> \in R
      BY DEF UpTo
    <3>2. PICK m \in 1..N : t[m] = x
      BY <3>1
    <3>3. ~ (n < m)
      BY <2>1, <3>1, <3>2 DEF IsOrderOn
    <3> QED
      BY <1>1, <2>1, <3>2, <3>3
  <2> DEFINE f == [m \in 1..n |-> t[m]]
  <2>4. f \in Bijection(1..n, UpTo(t[n], S, R))
    <3>1. f \in [1..n -> UpTo(t[n], S, R)]
      BY <2>2
    <3>2. \A k, m \in 1..n : k # m => f[k] # f[m]
      BY <1>1, <1>2, <2>1
    <3>3. \A x \in UpTo(t[n], S, R) : \E m \in 1..n : f[m] = x
      BY <2>3
    <3> QED
      BY <3>1, <3>2, <3>3, Fun_IsBij
  <2> QED
    BY <2>1, <2>4, FS_CountingElements DEF ExistsBijection
<1>6. ASSUME NEW n \in 1..N PROVE (CHOOSE x \in S : Cardinality(UpTo(x, S, R)) = n) = t[n]
  <2>1. t[n] \in S /\ Cardinality(UpTo(t[n], S, R)) = n /\ n \in Nat
    BY <1>1, <1>5
  <2>2. ASSUME NEW x \in S, Cardinality(UpTo(x, S, R)) = n PROVE x = t[n]
    <3> SUFFICES ASSUME x # t[n] PROVE FALSE
      OBVIOUS
    <3>1. <<x, t[n]>> \in R \/ <<t[n], x>> \in R
      BY <2>1 DEF IsOrderOn
    <3> QED
      BY <2>1, <2>2, <3>1, UpToGrows
  <2> QED
    BY <2>1, <2>2
<1> QED
  BY <1>1, <1>4, <1>6 DEF Sorted

(* The order of numbers is an order. *)
LEMMA AscendingIsOrder ==
    ASSUME NEW S, S \subseteq Nat
    PROVE  IsOrderOn(Ascending(S), S)
  BY DEF IsOrderOn, Ascending

-----------------------------------------------------------------------------
(* Paths, place by place.                                                  *)

Path == Seq(Nat)

Agree(a, b, n) == \A k \in 1..n : a[k] = b[k]

LEMMA PathType ==
    ASSUME NEW a \in Path
    PROVE  Len(a) \in Nat /\ a \in [1..Len(a) -> Nat] /\ DOMAIN a = 1..Len(a)
           /\ \A k \in 1..Len(a) : a[k] \in Nat
<1>1. Len(a) \in Nat /\ a \in [1..Len(a) -> Nat] /\ DOMAIN a = 1..Len(a)
  BY LenProperties DEF Path
<1> QED
  BY <1>1

(* The beginning of a path. *)
LEMMA Beginning ==
    ASSUME NEW a \in Path, NEW n \in 0..Len(a)
    PROVE  /\ SubSeq(a, 1, n) \in Path /\ Len(SubSeq(a, 1, n)) = n
           /\ Agree(SubSeq(a, 1, n), a, n)
           /\ n = Len(a) => SubSeq(a, 1, n) = a
<1>1. Len(a) \in Nat /\ n \in Int /\ \A k \in 1..n : a[k] \in Nat
  BY PathType
<1>2. /\ SubSeq(a, 1, n) \in Path
      /\ Len(SubSeq(a, 1, n)) = IF 1 <= n THEN n - 1 + 1 ELSE 0
      /\ \A k \in 1..n - 1 + 1 : SubSeq(a, 1, n)[k] = a[1 + k - 1]
  BY <1>1, SubSeqProperties DEF Path
<1>3. Agree(SubSeq(a, 1, n), a, n)
  BY <1>1, <1>2 DEF Agree
<1> QED
  BY <1>1, <1>2, <1>3, SubSeqFull DEF Path

LEMMA PathsEqual ==
    ASSUME NEW a \in Path, NEW b \in Path, Len(a) = Len(b), Agree(a, b, Len(a))
    PROVE  a = b
  BY SeqEqual DEF Path, Agree

LEMMA BeginningsAgree ==
    ASSUME NEW a \in Path, NEW b \in Path, NEW n \in Nat, n <= Len(a), n <= Len(b)
    PROVE  SubSeq(a, 1, n) = SubSeq(b, 1, n) <=> Agree(a, b, n)
<1>1. n \in 0..Len(a) /\ n \in 0..Len(b)
  BY PathType
<1>2. /\ SubSeq(a, 1, n) \in Path /\ Len(SubSeq(a, 1, n)) = n /\ Agree(SubSeq(a, 1, n), a, n)
      /\ SubSeq(b, 1, n) \in Path /\ Len(SubSeq(b, 1, n)) = n /\ Agree(SubSeq(b, 1, n), b, n)
  BY <1>1, Beginning
<1>3. Agree(a, b, n) => Agree(SubSeq(a, 1, n), SubSeq(b, 1, n), n)
  BY <1>2 DEF Agree
<1>4. Agree(a, b, n) => SubSeq(a, 1, n) = SubSeq(b, 1, n)
  BY <1>2, <1>3, PathsEqual
<1>5. SubSeq(a, 1, n) = SubSeq(b, 1, n) => Agree(a, b, n)
  BY <1>2 DEF Agree
<1> QED
  BY <1>4, <1>5

LEMMA PrefixAt ==
    ASSUME NEW a \in Path, NEW b \in Path
    PROVE  IsPrefix(a, b) <=> Len(a) <= Len(b) /\ Agree(a, b, Len(a))
  BY PathType, BeginningsAgree DEF IsPrefix

LEMMA PrecedesAt ==
    ASSUME NEW a \in Path, NEW b \in Path
    PROVE  Precedes(a, b) <=>
               \/ Len(a) < Len(b) /\ Agree(a, b, Len(a))
               \/ \E i \in 1..Len(a) : i <= Len(b) /\ a[i] < b[i] /\ Agree(a, b, i - 1)
<1>1. Len(a) \in Nat /\ Len(b) \in Nat /\ DOMAIN a = 1..Len(a) /\ DOMAIN b = 1..Len(b)
  BY PathType
<1>2. IsStrictPrefix(a, b) <=> Len(a) < Len(b) /\ Agree(a, b, Len(a))
  <2>1. Agree(a, b, Len(a)) /\ Len(a) = Len(b) => a = b
    BY PathsEqual
  <2>2. Len(a) < Len(b) => a # b
    BY <1>1
  <2>3. IsPrefix(a, b) <=> Len(a) <= Len(b) /\ Agree(a, b, Len(a))
    BY PrefixAt
  <2>4. IsStrictPrefix(a, b) <=> IsPrefix(a, b) /\ a # b
    BY DEF IsStrictPrefix
  <2>5. ASSUME Agree(a, b, Len(a)), Len(a) <= Len(b), a # b PROVE Len(a) < Len(b)
    <3>1. Len(a) # Len(b)
      BY <2>1, <2>5
    <3>2. \A m, n \in Nat : m <= n /\ m # n => m < n
      OBVIOUS
    <3> QED
      BY <1>1, <2>5, <3>1, <3>2
  <2>6. Len(a) < Len(b) => Len(a) <= Len(b)
    BY <1>1
  <2> QED
    BY <2>2, <2>3, <2>4, <2>5, <2>6
<1>3. ASSUME NEW i \in 1..Len(a), i <= Len(b)
      PROVE  SubSeq(a, 1, i - 1) = SubSeq(b, 1, i - 1) <=> Agree(a, b, i - 1)
  <2>1. i - 1 \in Nat /\ i - 1 <= Len(a) /\ i - 1 <= Len(b)
    BY <1>1, <1>3
  <2> QED
    BY <2>1, BeginningsAgree
<1>4. DOMAIN a \cap DOMAIN b = {i \in 1..Len(a) : i <= Len(b)}
  BY <1>1
<1> QED
  BY <1>2, <1>3, <1>4 DEF Precedes

(***************************************************************************)
(* The order of a walk is total: the names at the first place where two    *)
(* paths differ decide, or the length of the shorter one.                  *)
(***************************************************************************)
LEMMA PrecedesTotal ==
    ASSUME NEW a \in Path, NEW b \in Path, a # b
    PROVE  Precedes(a, b) \/ Precedes(b, a)
<1>1. Len(a) \in Nat /\ Len(b) \in Nat
  BY PathType
<1> DEFINE T == {k \in 1..Len(a) : k <= Len(b) /\ a[k] # b[k]}
<1>2. CASE T = {}
  <2>1. Agree(a, b, IF Len(a) < Len(b) THEN Len(a) ELSE Len(b))
    BY <1>1, <1>2 DEF Agree
  <2>2. CASE Len(a) < Len(b)
    BY <2>1, <2>2, PrecedesAt
  <2>3. CASE Len(b) < Len(a)
    <3>1. Agree(b, a, Len(b))
      BY <1>1, <2>1, <2>3 DEF Agree
    <3> QED
      BY <2>3, <3>1, PrecedesAt
  <2>4. Len(a) # Len(b)
    BY <2>1, PathsEqual
  <2> QED
    BY <1>1, <2>2, <2>3, <2>4
<1>3. CASE T # {}
  <2>1. PICK i \in T : \A k \in T : i <= k
    <3>1. T \subseteq Nat
      OBVIOUS
    <3> QED
      BY <1>3, <3>1, LeastNatural
  <2>2. i \in 1..Len(a) /\ i \in 1..Len(b) /\ a[i] # b[i] /\ a[i] \in Nat /\ b[i] \in Nat
    BY <1>1, <2>1, PathType
  <2>3. Agree(a, b, i - 1) /\ Agree(b, a, i - 1)
    BY <1>1, <2>1, <2>2 DEF Agree
  <2>4. a[i] < b[i] \/ b[i] < a[i]
    BY <2>2
  <2> QED
    BY <1>1, <2>2, <2>3, <2>4, PrecedesAt
<1> QED
  BY <1>2, <1>3

LEMMA PrecedesIrreflexive ==
    ASSUME NEW a \in Path
    PROVE  ~ Precedes(a, a)
<1>1. Len(a) \in Nat /\ \A k \in 1..Len(a) : a[k] \in Nat
  BY PathType
<1>2. \A i \in 1..Len(a) : ~ (a[i] < a[i])
  BY <1>1
<1> QED
  BY <1>1, <1>2, PrecedesAt

LEMMA PrecedesTransitive ==
    ASSUME NEW a \in Path, NEW b \in Path, NEW c \in Path, Precedes(a, b), Precedes(b, c)
    PROVE  Precedes(a, c)
<1>1. /\ Len(a) \in Nat /\ Len(b) \in Nat /\ Len(c) \in Nat
      /\ \A k \in 1..Len(a) : a[k] \in Nat
      /\ \A k \in 1..Len(b) : b[k] \in Nat
      /\ \A k \in 1..Len(c) : c[k] \in Nat
  BY PathType
<1>2. CASE Len(a) < Len(b) /\ Agree(a, b, Len(a)) /\ Len(b) < Len(c) /\ Agree(b, c, Len(b))
  <2>1. Len(a) < Len(c) /\ Agree(a, c, Len(a))
    BY <1>1, <1>2 DEF Agree
  <2> QED
    BY <2>1, PrecedesAt
<1>3. ASSUME Len(a) < Len(b), Agree(a, b, Len(a)),
             NEW i \in 1..Len(b), i <= Len(c), b[i] < c[i], Agree(b, c, i - 1)
      PROVE  Precedes(a, c)
  <2>1. CASE i <= Len(a)
    <3>1. i \in 1..Len(a) /\ a[i] < c[i] /\ Agree(a, c, i - 1)
      BY <1>1, <1>3, <2>1 DEF Agree
    <3> QED
      BY <1>3, <3>1, PrecedesAt
  <2>2. CASE Len(a) < i
    <3>1. Len(a) < Len(c) /\ Agree(a, c, Len(a))
      BY <1>1, <1>3, <2>2 DEF Agree
    <3> QED
      BY <3>1, PrecedesAt
  <2> QED
    BY <1>1, <2>1, <2>2
<1>4. ASSUME NEW i \in 1..Len(a), i <= Len(b), a[i] < b[i], Agree(a, b, i - 1),
             Len(b) < Len(c), Agree(b, c, Len(b))
      PROVE  Precedes(a, c)
  <2>1. i <= Len(c) /\ a[i] < c[i] /\ Agree(a, c, i - 1)
    BY <1>1, <1>4 DEF Agree
  <2> QED
    BY <2>1, PrecedesAt
<1>5. ASSUME NEW i \in 1..Len(a), i <= Len(b), a[i] < b[i], Agree(a, b, i - 1),
             NEW j \in 1..Len(b), j <= Len(c), b[j] < c[j], Agree(b, c, j - 1)
      PROVE  Precedes(a, c)
  <2>1. CASE i <= j
    <3>1. a[i] < c[i] /\ i <= Len(c) /\ Agree(a, c, i - 1)
      BY <1>1, <1>5, <2>1 DEF Agree
    <3> QED
      BY <3>1, PrecedesAt
  <2>2. CASE j < i
    <3>1. j \in 1..Len(a) /\ a[j] < c[j] /\ Agree(a, c, j - 1)
      BY <1>1, <1>5, <2>2 DEF Agree
    <3> QED
      BY <1>5, <3>1, PrecedesAt
  <2> QED
    BY <2>1, <2>2
<1> QED
  BY <1>2, <1>3, <1>4, <1>5, PrecedesAt

LEMMA WalkOrderIsOrder ==
    ASSUME NEW S, S \subseteq Path
    PROVE  IsOrderOn(WalkOrder(S), S)
<1>1. \A x \in S : <<x, x>> \in WalkOrder(S)
  BY DEF WalkOrder
<1>2. ASSUME NEW x \in S, NEW y \in S, <<x, y>> \in WalkOrder(S), <<y, x>> \in WalkOrder(S) PROVE x = y
  BY <1>2, PrecedesTransitive, PrecedesIrreflexive DEF WalkOrder
<1>3. ASSUME NEW x \in S, NEW y \in S, NEW z \in S,
             <<x, y>> \in WalkOrder(S), <<y, z>> \in WalkOrder(S)
      PROVE  <<x, z>> \in WalkOrder(S)
  BY <1>3, PrecedesTransitive DEF WalkOrder
<1>4. ASSUME NEW x \in S, NEW y \in S PROVE <<x, y>> \in WalkOrder(S) \/ <<y, x>> \in WalkOrder(S)
  BY PrecedesTotal DEF WalkOrder
<1> QED
  BY <1>1, <1>2, <1>3, <1>4 DEF IsOrderOn

(* Paths that come in the order of a walk. *)
Rising(s) == \A m, n \in 1..Len(s) : m < n => Precedes(s[m], s[n])

LEMMA InOrderProperties ==
    ASSUME NEW S, IsFiniteSet(S), S \subseteq Path
    PROVE  /\ InOrder(S) \in Seq(S) /\ Len(InOrder(S)) = Cardinality(S)
           /\ \A x \in S : \E n \in 1..Len(InOrder(S)) : InOrder(S)[n] = x
           /\ Rising(InOrder(S))
<1>1. IsOrderOn(WalkOrder(S), S)
  BY WalkOrderIsOrder
<1>2. /\ InOrder(S) \in Seq(S) /\ Len(InOrder(S)) = Cardinality(S)
      /\ \A x \in S : \E n \in 1..Cardinality(S) : InOrder(S)[n] = x
  BY <1>1, SortedProperties DEF InOrder
<1>3. \A m, n \in 1..Cardinality(S) : m < n =>
          <<InOrder(S)[m], InOrder(S)[n]>> \in WalkOrder(S) /\ InOrder(S)[m] # InOrder(S)[n]
  BY <1>1, SortedProperties DEF InOrder
<1>4. Rising(InOrder(S))
  BY <1>2, <1>3 DEF Rising, WalkOrder
<1> QED
  BY <1>2, <1>4

(* Only one sequence has these properties. *)
LEMMA InOrderUnique ==
    ASSUME NEW S, IsFiniteSet(S), S \subseteq Path, NEW s \in Seq(S), Rising(s),
           \A x \in S : \E n \in 1..Len(s) : s[n] = x
    PROVE  s = InOrder(S)
<1>1. IsOrderOn(WalkOrder(S), S)
  BY WalkOrderIsOrder
<1>2. \A n \in 1..Len(s) : s[n] \in S
  BY LenProperties, ElementOfSeq
<1>3. ASSUME NEW m \in 1..Len(s), NEW n \in 1..Len(s), m < n
      PROVE  <<s[m], s[n]>> \in WalkOrder(S) /\ s[m] # s[n]
  BY <1>2, <1>3, PrecedesIrreflexive DEF Rising, WalkOrder
<1> QED
  BY <1>1, <1>3, SortedUnique DEF InOrder

(* Paths of S after which all others of S come are the first ones of S. *)
LEMMA FirstInOrder ==
    ASSUME NEW S, IsFiniteSet(S), S \subseteq Path, NEW e \in Seq(S), Rising(e), e # <<>>,
           \A x \in S : x \in Range(e) \/ Precedes(e[Len(e)], x)
    PROVE  /\ e = SubSeq(InOrder(S), 1, Len(e))
           /\ (\E x \in S : Precedes(e[Len(e)], x)) => Cardinality(S) > Len(e)
<1> DEFINE R == S \ Range(e)
           t == InOrder(R)
           s == e \o t
<1>1. Len(e) \in Nat \ {0} /\ DOMAIN e = 1..Len(e) /\ \A k \in 1..Len(e) : e[k] \in S
  BY LenProperties, ElementOfSeq, EmptySeq
<1>0. \A k \in 1..Len(e) : k = Len(e) \/ Precedes(e[k], e[Len(e)])
  <2>1. Len(e) \in 1..Len(e) /\ \A k \in 1..Len(e) : k = Len(e) \/ k < Len(e)
    <3>1. \A n \in Nat \ {0} : n \in 1..n /\ \A k \in 1..n : k = n \/ k < n
      OBVIOUS
    <3> QED
      BY <1>1, <3>1
  <2> QED
    BY <2>1 DEF Rising
<1>2. /\ IsFiniteSet(R) /\ R \subseteq Path /\ R \subseteq S
      /\ \A x \in R : Precedes(e[Len(e)], x)
  BY FS_Subset
<1>3. /\ t \in Seq(R) /\ Rising(t) /\ \A x \in R : \E n \in 1..Len(t) : t[n] = x
  BY <1>2, InOrderProperties
<1>4. t \in Seq(S) /\ Len(t) \in Nat /\ \A k \in 1..Len(t) : t[k] \in R
  BY <1>2, <1>3, SeqMonotonic, LenProperties, ElementOfSeq
<1> HIDE DEF t, R
<1>5. /\ s \in Seq(S) /\ Len(s) = Len(e) + Len(t)
      /\ \A i \in 1..(Len(e) + Len(t)) : s[i] = IF i <= Len(e) THEN e[i] ELSE t[i - Len(e)]
  BY <1>4, ConcatProperties
<1> HIDE DEF s
<1>6. \A k \in 1..Len(e) : k <= Len(e) /\ k \in 1..(Len(e) + Len(t)) /\ s[k] = e[k]
  BY <1>1, <1>4, <1>5
<1>7. ASSUME NEW k \in 1..Len(t) PROVE Len(e) + k \in 1..(Len(e) + Len(t)) /\ s[Len(e) + k] = t[k]
  <2>1. Len(e) + k \in 1..(Len(e) + Len(t)) /\ ~ (Len(e) + k <= Len(e)) /\ (Len(e) + k) - Len(e) = k
    BY <1>1, <1>4
  <2> QED
    BY <1>5, <2>1
<1>8. ASSUME NEW m \in 1..Len(s), NEW n \in 1..Len(s), m < n PROVE Precedes(s[m], s[n])
  <2>1. CASE n <= Len(e)
    <3>1. m \in 1..Len(e) /\ n \in 1..Len(e)
      BY <1>1, <1>4, <1>5, <1>8, <2>1
    <3> QED
      BY <1>6, <1>8, <3>1 DEF Rising
  <2>2. CASE Len(e) < m
    <3>1. /\ m - Len(e) \in 1..Len(t) /\ n - Len(e) \in 1..Len(t) /\ m - Len(e) < n - Len(e)
          /\ Len(e) + (m - Len(e)) = m /\ Len(e) + (n - Len(e)) = n
      BY <1>1, <1>4, <1>5, <1>8, <2>2
    <3>2. s[m] = t[m - Len(e)] /\ s[n] = t[n - Len(e)]
      BY <1>7, <3>1
    <3> QED
      BY <1>3, <3>1, <3>2 DEF Rising
  <2>3. CASE m <= Len(e) /\ Len(e) < n
    <3>1. m \in 1..Len(e) /\ n - Len(e) \in 1..Len(t) /\ Len(e) + (n - Len(e)) = n
      BY <1>1, <1>4, <1>5, <1>8, <2>3
    <3>2. s[m] = e[m] /\ s[n] = t[n - Len(e)] /\ s[n] \in R /\ e[m] \in S
      BY <1>1, <1>4, <1>6, <1>7, <3>1
    <3>3. Precedes(e[Len(e)], s[n]) /\ e[Len(e)] \in S
      BY <1>1, <1>2, <3>2
    <3>4. CASE m = Len(e)
      BY <3>2, <3>3, <3>4
    <3>5. CASE m # Len(e)
      <4>1. Precedes(e[m], e[Len(e)])
        BY <1>0, <3>1, <3>5
      <4> QED
        BY <1>2, <3>2, <3>3, <4>1, PrecedesTransitive
    <3> QED
      BY <3>4, <3>5
  <2>4. n <= Len(e) \/ Len(e) < m \/ (m <= Len(e) /\ Len(e) < n)
    BY <1>1, <1>4, <1>5
  <2> QED
    BY <2>1, <2>2, <2>3, <2>4
<1>9. ASSUME NEW x \in S PROVE \E n \in 1..Len(s) : s[n] = x
  <2>1. CASE x \in Range(e)
    <3>1. PICK k \in 1..Len(e) : e[k] = x
      BY <1>1, <2>1 DEF Range
    <3> QED
      BY <1>5, <1>6, <3>1
  <2>2. CASE x \in R
    <3>1. PICK k \in 1..Len(t) : t[k] = x
      BY <1>3, <2>2
    <3> QED
      BY <1>5, <1>7, <3>1
  <2> QED
    BY <2>1, <2>2 DEF R
<1>10. s = InOrder(S)
  BY <1>5, <1>8, <1>9, InOrderUnique DEF Rising
<1>11. e = SubSeq(InOrder(S), 1, Len(e))
  <2>1. 1 \in 1..Len(e) /\ Len(e) \in 1..Len(e)
    BY <1>1
  <2>2. SubSeq(e \o t, 1, Len(e)) = SubSeq(e, 1, Len(e))
    BY <1>4, <2>1, SubSeqOfConcat1
  <2> QED
    BY <1>10, <2>2, SubSeqFull DEF s
<1>12. ASSUME NEW x \in S, Precedes(e[Len(e)], x) PROVE Cardinality(S) > Len(e)
  <2>1. x \notin Range(e)
    <3>1. SUFFICES ASSUME NEW k \in 1..Len(e), e[k] = x PROVE FALSE
      BY <1>1 DEF Range
    <3>2. k = Len(e) \/ Precedes(e[k], e[Len(e)])
      BY <1>0
    <3>3. e[Len(e)] \in Path /\ x \in Path
      BY <1>1
    <3> QED
      BY <1>12, <3>1, <3>2, <3>3, PrecedesTransitive, PrecedesIrreflexive
  <2>2. PICK n \in 1..Len(t) : t[n] = x
    BY <1>3, <2>1 DEF R
  <2>3. Len(s) = Cardinality(S)
    BY <1>10, InOrderProperties
  <2> QED
    BY <1>1, <1>4, <1>5, <2>2, <2>3
<1> QED
  BY <1>11, <1>12

LEMMA RisingAppend ==
    ASSUME NEW s \in Seq(Path), NEW x \in Path, Rising(s), \A k \in 1..Len(s) : Precedes(s[k], x)
    PROVE  Rising(Append(s, x))
<1>1. /\ Len(Append(s, x)) = Len(s) + 1 /\ Append(s, x)[Len(s) + 1] = x
      /\ \A k \in 1..Len(s) : Append(s, x)[k] = s[k]
      /\ Len(s) \in Nat
  BY AppendProperties, LenProperties
<1> QED
  BY <1>1 DEF Rising

-----------------------------------------------------------------------------
(* Paths in a tree: what is below a path, and what is beside it.           *)

LEMMA PrefixFacts ==
    ASSUME NEW a \in Path, NEW b \in Path
    PROVE  /\ IsPrefix(a, a)
           /\ IsPrefix(a, b) => a = b \/ IsStrictPrefix(a, b)
           /\ IsStrictPrefix(a, b) <=> Len(a) < Len(b) /\ Agree(a, b, Len(a))
           /\ IsStrictPrefix(a, b) <=> IsPrefix(a, b) /\ a # b
           /\ IsStrictPrefix(a, b) => Precedes(a, b)
<1>1. Len(a) \in Nat /\ Len(b) \in Nat
  BY PathType
<1>2. IsPrefix(a, b) <=> Len(a) <= Len(b) /\ Agree(a, b, Len(a))
  BY PrefixAt
<1>3. IsPrefix(a, a)
  BY <1>1, PrefixAt DEF Agree
<1>4. IsStrictPrefix(a, b) <=> IsPrefix(a, b) /\ a # b
  BY DEF IsStrictPrefix
<1>5. ASSUME Len(a) < Len(b), Agree(a, b, Len(a)) PROVE IsStrictPrefix(a, b)
  <2>1. Len(a) <= Len(b) /\ Len(a) # Len(b)
    BY <1>1, <1>5
  <2> QED
    BY <1>2, <1>4, <1>5, <2>1
<1>6. ASSUME IsStrictPrefix(a, b) PROVE Len(a) < Len(b) /\ Agree(a, b, Len(a))
  <2>1. Len(a) <= Len(b) /\ Agree(a, b, Len(a)) /\ a # b
    BY <1>2, <1>4, <1>6
  <2>2. Len(a) # Len(b)
    BY <2>1, PathsEqual
  <2>3. \A m, n \in Nat : m <= n /\ m # n => m < n
    OBVIOUS
  <2> QED
    BY <1>1, <2>1, <2>2, <2>3
<1>7. IsStrictPrefix(a, b) => Precedes(a, b)
  BY DEF Precedes
<1> QED
  BY <1>3, <1>4, <1>5, <1>6, <1>7

LEMMA PrefixTransitive ==
    ASSUME NEW a \in Path, NEW b \in Path, NEW c \in Path, IsPrefix(a, b), IsPrefix(b, c)
    PROVE  IsPrefix(a, c)
<1>1. Len(a) \in Nat /\ Len(b) \in Nat /\ Len(c) \in Nat
  BY PathType
<1>2. Len(a) <= Len(b) /\ Agree(a, b, Len(a)) /\ Len(b) <= Len(c) /\ Agree(b, c, Len(b))
  BY PrefixAt
<1>3. Len(a) <= Len(c) /\ Agree(a, c, Len(a))
  BY <1>1, <1>2 DEF Agree
<1> QED
  BY <1>3, PrefixAt

(* A path is strictly below another when one step of the way is strict. *)
LEMMA StrictPrefixTransitive ==
    ASSUME NEW a \in Path, NEW b \in Path, NEW c \in Path, IsPrefix(a, b), IsPrefix(b, c),
           a # b \/ b # c
    PROVE  IsStrictPrefix(a, c)
<1>1. Len(a) \in Nat /\ Len(b) \in Nat /\ Len(c) \in Nat
  BY PathType
<1>2. IsPrefix(a, c)
  BY PrefixTransitive
<1>3. Len(a) <= Len(b) /\ Len(b) <= Len(c)
  BY PrefixAt
<1>4. a # c
  <2>1. a # b => Len(a) < Len(b)
    BY PrefixFacts
  <2>2. b # c => Len(b) < Len(c)
    BY PrefixFacts
  <2>3. Len(a) < Len(c)
    BY <1>1, <1>3, <2>1, <2>2
  <2> QED
    BY <1>1, <2>3
<1> QED
  BY <1>2, <1>4, PrefixFacts

(* The paths on the way to a path are those to its parent, and the path. *)
LEMMA ParentFacts ==
    ASSUME NEW p \in Path, p # <<>>
    PROVE  /\ Front(p) \in Path /\ Len(p) = Len(Front(p)) + 1
           /\ IsStrictPrefix(Front(p), p)
           /\ \A q \in Path : IsStrictPrefix(q, p) <=> IsPrefix(q, Front(p))
<1>1. Len(p) \in Nat /\ Len(p) # 0
  BY PathType, EmptySeq DEF Path
<1>2. Len(p) - 1 \in 0..Len(p)
  BY <1>1
<1>3. Front(p) = SubSeq(p, 1, Len(p) - 1)
  BY DEF Front
<1>4. Front(p) \in Path /\ Len(Front(p)) = Len(p) - 1 /\ Agree(Front(p), p, Len(p) - 1)
  <2> DEFINE n == Len(p) - 1
  <2>1. n \in 0..Len(p) /\ Front(p) = SubSeq(p, 1, n)
    BY <1>2, <1>3
  <2> HIDE DEF n
  <2>2. Front(p) \in Path /\ Len(Front(p)) = n /\ Agree(Front(p), p, n)
    BY <2>1, Beginning
  <2> QED
    BY <2>2 DEF n
<1>5. IsStrictPrefix(Front(p), p)
  BY <1>1, <1>4, PrefixFacts
<1>6. ASSUME NEW q \in Path PROVE IsStrictPrefix(q, p) <=> IsPrefix(q, Front(p))
  <2>1. Len(q) \in Nat
    BY PathType
  <2>2. IsStrictPrefix(q, p) <=> Len(q) < Len(p) /\ Agree(q, p, Len(q))
    BY PrefixFacts
  <2>3. IsPrefix(q, Front(p)) <=> Len(q) <= Len(Front(p)) /\ Agree(q, Front(p), Len(q))
    BY <1>4, PrefixAt
  <2>4. Len(q) < Len(p) <=> Len(q) <= Len(Front(p))
    BY <1>1, <1>4, <2>1
  <2>5. Len(q) <= Len(Front(p)) => (Agree(q, p, Len(q)) <=> Agree(q, Front(p), Len(q)))
    BY <1>1, <1>4, <2>1 DEF Agree
  <2> QED
    BY <2>2, <2>3, <2>4, <2>5
<1> QED
  BY <1>1, <1>4, <1>5, <1>6

(* On the way from a path to one below it, there is a child of the first. *)
LEMMA ChildOnTheWay ==
    ASSUME NEW a \in Path, NEW p \in Path, IsStrictPrefix(a, p)
    PROVE  \E n \in 1..Len(p) :
              LET q == SubSeq(p, 1, n)
              IN q \in Path /\ q # <<>> /\ Front(q) = a /\ IsPrefix(q, p)
<1>1. Len(a) \in Nat /\ Len(p) \in Nat /\ Len(a) < Len(p) /\ Agree(a, p, Len(a))
  BY PathType, PrefixFacts
<1> DEFINE n == Len(a) + 1
           q == SubSeq(p, 1, n)
<1>2. n \in 1..Len(p) /\ n \in 0..Len(p)
  BY <1>1
<1>3. q \in Path /\ Len(q) = n /\ Agree(q, p, n)
  BY <1>2, Beginning
<1>4. q # <<>>
  BY <1>1, <1>3, EmptySeq
<1> HIDE DEF q
<1>5. IsPrefix(q, p)
  <2>1. Len(q) <= Len(p) /\ Agree(q, p, Len(q))
    BY <1>1, <1>3
  <2> QED
    BY <1>3, <2>1, PrefixAt
<1>6. Front(q) \in Path /\ Len(q) = Len(Front(q)) + 1 /\ Agree(Front(q), q, Len(Front(q)))
  <2>1. Front(q) \in Path /\ Len(q) = Len(Front(q)) + 1 /\ IsStrictPrefix(Front(q), q)
    BY <1>3, <1>4, ParentFacts
  <2> QED
    BY <1>3, <2>1, PrefixFacts
<1>7. Len(Front(q)) = Len(a) /\ Agree(Front(q), a, Len(a))
  <2>1. Len(Front(q)) = Len(a)
    BY <1>1, <1>3, <1>6, PathType
  <2> QED
    BY <1>1, <1>3, <1>6, <2>1 DEF Agree
<1>8. Front(q) = a
  BY <1>6, <1>7, PathsEqual
<1> QED
  BY <1>2, <1>3, <1>4, <1>5, <1>8 DEF q

(* Paths of which the parents are there too are there with all on the way to them. *)
LEMMA WayIsThere ==
    ASSUME NEW S, S \subseteq Path, \A p \in S : p = <<>> \/ Front(p) \in S,
           NEW p \in S, NEW q \in Path, IsPrefix(q, p)
    PROVE  q \in S
<1> DEFINE T == {n \in Nat : \E r \in S : Len(r) = n /\ IsPrefix(q, r)}
<1>1. T \subseteq Nat /\ T # {}
  BY PathType
<1>2. PICK n \in T : \A m \in T : n <= m
  BY <1>1, LeastNatural
<1>3. PICK r \in S : Len(r) = n /\ IsPrefix(q, r)
  BY <1>2
<1>4. CASE q = r
  BY <1>4
<1>5. CASE q # r
  <2>1. IsStrictPrefix(q, r)
    BY <1>3, <1>5, PrefixFacts
  <2>2. r # <<>>
    <3>1. Len(q) \in Nat /\ Len(q) < Len(r)
      BY <2>1, PrefixFacts, PathType
    <3> QED
      BY <3>1, EmptySeq
  <2>3. Front(r) \in S /\ Front(r) \in Path /\ Len(r) = Len(Front(r)) + 1 /\ IsPrefix(q, Front(r))
    BY <2>1, <2>2, ParentFacts
  <2>4. Len(Front(r)) \in T /\ ~ (n <= Len(Front(r)))
    BY <1>3, <2>3, PathType
  <2> QED
    BY <1>2, <2>4
<1> QED
  BY <1>4, <1>5

(* One path, and all below it, before another and all below that. *)
LeftOf(a, b) == \E i \in DOMAIN a \cap DOMAIN b : a[i] < b[i] /\ Agree(a, b, i - 1)

LEMMA LeftPrecedes ==
    ASSUME NEW a \in Path, NEW b \in Path, LeftOf(a, b)
    PROVE  Precedes(a, b)
<1>1. DOMAIN a = 1..Len(a) /\ DOMAIN b = 1..Len(b)
  BY PathType
<1> QED
  BY <1>1, PrecedesAt DEF LeftOf

LEMMA LeftBelow ==
    ASSUME NEW a \in Path, NEW b \in Path, NEW c \in Path, NEW d \in Path,
           LeftOf(a, b), IsPrefix(a, c), IsPrefix(b, d)
    PROVE  LeftOf(c, d)
<1>1. /\ Len(a) \in Nat /\ DOMAIN a = 1..Len(a) /\ Len(b) \in Nat /\ DOMAIN b = 1..Len(b)
      /\ Len(c) \in Nat /\ DOMAIN c = 1..Len(c) /\ Len(d) \in Nat /\ DOMAIN d = 1..Len(d)
  BY PathType
<1>2. Len(a) <= Len(c) /\ Agree(a, c, Len(a)) /\ Len(b) <= Len(d) /\ Agree(b, d, Len(b))
  BY PrefixAt
<1>3. PICK i \in DOMAIN a \cap DOMAIN b : a[i] < b[i] /\ Agree(a, b, i - 1)
  BY DEF LeftOf
<1>4. i \in DOMAIN c \cap DOMAIN d /\ c[i] < d[i]
  BY <1>1, <1>2, <1>3 DEF Agree
<1>5. Agree(c, d, i - 1)
  BY <1>1, <1>2, <1>3 DEF Agree
<1> QED
  BY <1>4, <1>5 DEF LeftOf

LEMMA SiblingsBeside ==
    ASSUME NEW a \in Path, NEW b \in Path, Len(a) = Len(b), Precedes(a, b)
    PROVE  LeftOf(a, b)
<1>1. Len(a) \in Nat /\ DOMAIN a = 1..Len(a) /\ DOMAIN b = 1..Len(b)
  BY PathType
<1>2. ~ (Len(a) < Len(b))
  BY <1>1
<1> QED
  BY <1>1, <1>2, PrecedesAt DEF LeftOf

(* A function on 1..n with values in S is a sequence of n elements of S. *)
LEMMA FunctionIsSeq ==
    ASSUME NEW S, NEW n \in Nat, NEW f \in [1..n -> S]
    PROVE  f \in Seq(S) /\ Len(f) = n
  OBVIOUS

LEMMA PushProperties ==
    ASSUME NEW S, NEW x \in S, NEW s \in Seq(S)
    PROVE  /\ <<x>> \o s \in Seq(S) /\ Len(s) \in Nat /\ Len(<<x>> \o s) = Len(s) + 1
           /\ DOMAIN (<<x>> \o s) = 1..(Len(s) + 1) /\ DOMAIN s = 1..Len(s)
           /\ (<<x>> \o s)[1] = x
           /\ \A i \in 1..Len(s) : (<<x>> \o s)[i + 1] = s[i]
<1>1. <<x>> \in Seq(S) /\ Len(<<x>>) = 1 /\ <<x>>[1] = x /\ Len(s) \in Nat
  BY LenProperties
<1>2. /\ <<x>> \o s \in Seq(S) /\ Len(<<x>> \o s) = 1 + Len(s)
      /\ \A i \in 1..(1 + Len(s)) : (<<x>> \o s)[i] = IF i <= 1 THEN <<x>>[i] ELSE s[i - 1]
  BY <1>1, ConcatProperties
<1>3. DOMAIN (<<x>> \o s) = 1..Len(<<x>> \o s) /\ DOMAIN s = 1..Len(s)
  BY <1>2, LenProperties
<1>4. (<<x>> \o s)[1] = x
  BY <1>1, <1>2
<1>5. ASSUME NEW i \in 1..Len(s) PROVE (<<x>> \o s)[i + 1] = s[i]
  <2>1. i + 1 \in 1..(1 + Len(s)) /\ ~ (i + 1 <= 1) /\ (i + 1) - 1 = i
    BY <1>1
  <2> QED
    BY <1>2, <2>1
<1> QED
  BY <1>1, <1>2, <1>3, <1>4, <1>5

LEMMA PopProperties ==
    ASSUME NEW S, NEW s \in Seq(S), s # <<>>
    PROVE  /\ Head(s) \in S /\ Head(s) = s[1]
           /\ Tail(s) \in Seq(S) /\ Len(s) \in Nat \ {0} /\ Len(Tail(s)) = Len(s) - 1
           /\ DOMAIN Tail(s) = 1..(Len(s) - 1) /\ DOMAIN s = 1..Len(s)
           /\ \A i \in 1..(Len(s) - 1) : Tail(s)[i] = s[i + 1]
<1>1. Len(s) \in Nat /\ Len(s) # 0
  BY LenProperties, EmptySeq
<1> QED
  BY <1>1, HeadTailProperties, LenProperties

-----------------------------------------------------------------------------
(* Sequences of sequences, one after the other.                            *)

LEMMA FirstOf ==
    ASSUME NEW S, NEW s \in Seq(S), NEW n \in 0..Len(s)
    PROVE  /\ SubSeq(s, 1, n) \in Seq(S) /\ Len(SubSeq(s, 1, n)) = n
           /\ \A i \in 1..n : SubSeq(s, 1, n)[i] = s[i]
           /\ n = Len(s) => SubSeq(s, 1, n) = s
<1>1. Len(s) \in Nat
  BY LenProperties
<1>2. /\ SubSeq(s, 1, n) \in Seq(S)
      /\ Len(SubSeq(s, 1, n)) = IF 1 <= n THEN n - 1 + 1 ELSE 0
      /\ \A k \in 1..n - 1 + 1 : SubSeq(s, 1, n)[k] = s[1 + k - 1]
  BY <1>1, SubSeqProperties
<1>3. Len(SubSeq(s, 1, n)) = n /\ \A i \in 1..n : SubSeq(s, 1, n)[i] = s[i]
  BY <1>1, <1>2
<1>4. n = Len(s) => SubSeq(s, 1, n) = s
  BY <1>2, <1>3, SeqEqual
<1> QED
  BY <1>2, <1>3, <1>4

Joined(f, s) == f = [i \in 1..Len(s) |-> IF i = 1 THEN s[i] ELSE f[i - 1] \o s[i]]

LEMMA JoinedExists ==
    ASSUME NEW S, NEW s \in Seq(Seq(S))
    PROVE  \E f : Joined(f, s)
<1> DEFINE N == Len(s)
           Up(f, m) == f = [i \in 1..m |-> IF i = 1 THEN s[i] ELSE f[i - 1] \o s[i]]
           T == {m \in 0..N : \E f : Up(f, m)}
<1>1. N \in Nat
  BY LenProperties
<1>2. 0 \in T
  <2> DEFINE f == [i \in {} |-> <<>>]
  <2>1. 1..0 = {}
    OBVIOUS
  <2>2. f = [i \in 1..0 |-> IF i = 1 THEN s[i] ELSE f[i - 1] \o s[i]]
    BY <2>1
  <2>3. Up(f, 0)
    BY <2>2
  <2> HIDE DEF f, Up
  <2> QED
    BY <1>1, <2>3
<1>3. ASSUME NEW m \in 0..N, m # N, m \in T PROVE m + 1 \in T
  <2>1. PICK f : Up(f, m)
    BY <1>3
  <2> DEFINE g == [i \in 1..(m + 1) |-> IF i = m + 1
                                        THEN (IF i = 1 THEN s[i] ELSE f[m] \o s[i]) ELSE f[i]]
  <2>2. ASSUME NEW i \in 1..(m + 1) PROVE g[i] = IF i = 1 THEN s[i] ELSE g[i - 1] \o s[i]
    <3>1. CASE i = m + 1
      <4>1. i # 1 => i - 1 = m /\ m \in 1..(m + 1) /\ m # m + 1
        BY <1>1, <3>1
      <4> QED
        BY <3>1, <4>1
    <3>2. CASE i # m + 1
      <4>1. i \in 1..m /\ (i # 1 => i - 1 \in 1..m /\ i - 1 \in 1..(m + 1) /\ i - 1 # m + 1)
        BY <1>1, <3>2
      <4>2. f[i] = IF i = 1 THEN s[i] ELSE f[i - 1] \o s[i]
        BY <2>1, <4>1
      <4> QED
        BY <3>2, <4>1, <4>2
    <3> QED
      BY <3>1, <3>2
  <2>3. g = [i \in 1..(m + 1) |-> g[i]]
    OBVIOUS
  <2> HIDE DEF g
  <2>4. g = [i \in 1..(m + 1) |-> IF i = 1 THEN s[i] ELSE g[i - 1] \o s[i]]
    BY <2>2, <2>3
  <2>5. m + 1 \in 0..N
    BY <1>1, <1>3
  <2> QED
    BY <2>4, <2>5
<1> HIDE DEF T
<1>4. \A m \in 0..N : m \in T
  BY <1>1, <1>2, <1>3, StepByStep
<1>5. N \in T
  BY <1>1, <1>4
<1> QED
  BY <1>5 DEF T, Joined

(* Whatever puts them together one by one ends with all of them. *)
LEMMA FlattenIs ==
    ASSUME NEW S, NEW s \in Seq(Seq(S)), NEW f, f[0] = <<>>,
           \A n \in 1..Len(s) : f[n] = f[n - 1] \o s[n]
    PROVE  FlattenSeq(s) = f[Len(s)] /\ \A n \in 0..Len(s) : f[n] \in Seq(S)
<1> DEFINE g == CHOOSE h : Joined(h, s)
           N == Len(s)
           T == {n \in 0..N : f[n] \in Seq(S) /\ (n # 0 => f[n] = g[n])}
<1>1. N \in Nat /\ \A n \in 1..N : s[n] \in Seq(S)
  BY LenProperties, ElementOfSeq
<1>2. Joined(g, s)
  BY JoinedExists
<1>3. FlattenSeq(s) = IF N = 0 THEN s ELSE g[N]
  BY DEF FlattenSeq, Joined
<1> HIDE DEF g
<1>4. \A n \in 1..N : g[n] = IF n = 1 THEN s[n] ELSE g[n - 1] \o s[n]
  BY <1>2 DEF Joined
<1>5. 0 \in T
  <2>1. f[0] \in Seq(S)
    BY EmptySeq
  <2>2. 0 \in 0..N
    BY <1>1
  <2> QED
    BY <2>1, <2>2, Zenon
<1>6. ASSUME NEW n \in 0..N, n # N, n \in T PROVE n + 1 \in T
  <2>1. n + 1 \in 1..N /\ n + 1 \in 0..N /\ (n + 1) - 1 = n /\ (n + 1 = 1 <=> n = 0)
    BY <1>1, <1>6
  <2>2. f[n + 1] = f[n] \o s[n + 1] /\ f[n] \in Seq(S) /\ s[n + 1] \in Seq(S)
    BY <1>1, <1>6, <2>1
  <2>3. f[n + 1] \in Seq(S)
    BY <2>2, ConcatProperties
  <2>4. CASE n = 0
    <3>1. f[n + 1] = s[n + 1]
      BY <2>2, <2>4, ConcatEmptySeq
    <3> QED
      BY <1>4, <2>1, <2>3, <2>4, <3>1
  <2>5. CASE n # 0
    <3>1. g[n + 1] = g[n] \o s[n + 1] /\ f[n] = g[n]
      BY <1>4, <1>6, <2>1, <2>5
    <3> QED
      BY <2>1, <2>2, <2>3, <3>1
  <2> QED
    BY <2>4, <2>5
<1> HIDE DEF T
<1>7. \A n \in 0..N : n \in T
  BY <1>1, <1>5, <1>6, StepByStep
<1>8. N = 0 => s = <<>>
  BY EmptySeq
<1> QED
  BY <1>1, <1>3, <1>7, <1>8 DEF T

(* The first n of them, put together. *)
LEMMA FlattenFirst ==
    ASSUME NEW S, NEW s \in Seq(Seq(S))
    PROVE  /\ FlattenSeq(SubSeq(s, 1, 0)) = <<>>
           /\ FlattenSeq(SubSeq(s, 1, Len(s))) = FlattenSeq(s)
           /\ \A n \in 0..Len(s) : FlattenSeq(SubSeq(s, 1, n)) \in Seq(S)
           /\ \A n \in 1..Len(s) :
                 FlattenSeq(SubSeq(s, 1, n)) = FlattenSeq(SubSeq(s, 1, n - 1)) \o s[n]
<1>1. Len(s) \in Nat
  BY LenProperties
<1>2. PICK g : Joined(g, s)
  BY JoinedExists
<1> DEFINE f == [n \in 0..Len(s) |-> IF n = 0 THEN <<>> ELSE g[n]]
<1>3. f[0] = <<>>
  BY <1>1
<1>4. ASSUME NEW n \in 1..Len(s) PROVE f[n] = f[n - 1] \o s[n]
  <2>1. f[n] = g[n] /\ g[n] = IF n = 1 THEN s[n] ELSE g[n - 1] \o s[n]
    <3>1. n \in 0..Len(s) /\ n # 0
      BY <1>1
    <3> HIDE DEF f
    <3>2. g[n] = IF n = 1 THEN s[n] ELSE g[n - 1] \o s[n]
      BY <1>2 DEF Joined
    <3> QED
      BY <3>1, <3>2 DEF f
  <2>2. f[n - 1] = IF n = 1 THEN <<>> ELSE g[n - 1]
    BY <1>1
  <2>3. s[n] \in Seq(S)
    BY ElementOfSeq
  <2>4. <<>> \o s[n] = s[n]
    BY <2>3, ConcatEmptySeq
  <2> QED
    BY <2>1, <2>2, <2>4
<1> HIDE DEF f
<1>5. ASSUME NEW n \in 0..Len(s)
      PROVE  FlattenSeq(SubSeq(s, 1, n)) = f[n] /\ f[n] \in Seq(S)
  <2> DEFINE t == SubSeq(s, 1, n)
  <2>1. t \in Seq(Seq(S)) /\ Len(t) = n /\ \A i \in 1..n : t[i] = s[i]
    BY FirstOf
  <2> HIDE DEF t
  <2>2. ASSUME NEW i \in 1..Len(t) PROVE f[i] = f[i - 1] \o t[i]
    <3>1. i \in 1..Len(s) /\ t[i] = s[i]
      BY <1>1, <2>1
    <3> QED
      BY <1>4, <3>1
  <2>3. FlattenSeq(t) = f[Len(t)] /\ \A i \in 0..Len(t) : f[i] \in Seq(S)
    BY <1>3, <2>1, <2>2, FlattenIs
  <2>4. n \in 0..n
    BY <1>1
  <2> QED
    BY <2>1, <2>3, <2>4 DEF t
<1>6. FlattenSeq(SubSeq(s, 1, Len(s))) = FlattenSeq(s)
  <2>1. Len(s) \in 0..Len(s)
    BY <1>1
  <2> QED
    BY <2>1, FirstOf
<1>7. 0 \in 0..Len(s) /\ \A n \in 1..Len(s) : n \in 0..Len(s) /\ n - 1 \in 0..Len(s)
  BY <1>1
<1> QED
  BY <1>3, <1>4, <1>5, <1>6, <1>7

-----------------------------------------------------------------------------
(***************************************************************************)
(* The stack of a walk that began at root: for each directory on the way,  *)
(* the innermost first, its children still to come.  They are as deep as   *)
(* their place in the stack says, and they come in the order of the walk.  *)
(***************************************************************************)
InPlace(rests, root) ==
    /\ \A i \in DOMAIN rests : \A n \in DOMAIN rests[i] :
          /\ Len(rests[i][n]) = Len(root) + Len(rests) - i + 1
          /\ IsStrictPrefix(root, rests[i][n])
    /\ \A i, j \in DOMAIN rests : \A m \in DOMAIN rests[i], n \in DOMAIN rests[j] :
          i < j \/ (i = j /\ m < n) => LeftOf(rests[i][m], rests[j][n])

Ahead(rests) == UNION {Range(rests[i]) : i \in DOMAIN rests}

LEMMA AheadIs ==
    ASSUME NEW rests, NEW x
    PROVE  x \in Ahead(rests) <=> \E i \in DOMAIN rests : \E n \in DOMAIN rests[i] : rests[i][n] = x
  BY DEF Ahead, Range

LEMMA AheadType ==
    ASSUME NEW S, NEW rests \in Seq(Seq(S))
    PROVE  Ahead(rests) \subseteq S
<1>1. ASSUME NEW i \in DOMAIN rests, NEW n \in DOMAIN rests[i] PROVE rests[i][n] \in S
  <2>1. rests[i] \in Seq(S)
    BY ElementOfSeq, LenProperties
  <2> QED
    BY <2>1, ElementOfSeq, LenProperties
<1> QED
  BY <1>1, AheadIs

(* Positions in a sequence that is one longer, and in one that is one shorter. *)
LEMMA PlacesShift ==
    ASSUME NEW n \in Nat
    PROVE  /\ \A i \in 1..(n + 1) : i = 1 \/ (i - 1 \in 1..n /\ (i - 1) + 1 = i)
           /\ \A i \in 1..n : i + 1 \in 1..(n + 1)
           /\ \A i \in 1..n : i # 1 => i - 1 \in 1..(n - 1) /\ (i - 1) + 1 = i
           /\ \A i \in 1..(n - 1) : i + 1 \in 1..n
  OBVIOUS

(* A walk from root that has met d, with the sequences of siblings rests to come, *)
(* may enter d, whose children are c.                                            *)
MayEnter(d, c, rests, root) ==
    /\ root \in Path /\ rests \in Seq(Seq(Path)) /\ InPlace(rests, root)
    /\ d \in Path /\ IsPrefix(root, d) /\ Len(d) = Len(root) + Len(rests)
    /\ \A x \in Ahead(rests) : LeftOf(d, x)
    /\ c \in Seq(Path) /\ Rising(c) /\ \A n \in DOMAIN c : c[n] # <<>> /\ Front(c[n]) = d

(* A directory is entered: its children are put before all that waits. *)
LEMMA EnterWalk ==
    ASSUME NEW root, NEW rests, NEW d, NEW c, MayEnter(d, c, rests, root)
    PROVE  /\ InPlace(<<c>> \o rests, root)
           /\ Ahead(<<c>> \o rests) = Range(c) \cup Ahead(rests)
<1>0. /\ root \in Path /\ rests \in Seq(Seq(Path)) /\ InPlace(rests, root)
      /\ d \in Path /\ IsPrefix(root, d) /\ Len(d) = Len(root) + Len(rests)
      /\ \A x \in Ahead(rests) : LeftOf(d, x)
      /\ c \in Seq(Path) /\ Rising(c) /\ \A n \in DOMAIN c : c[n] # <<>> /\ Front(c[n]) = d
  BY DEF MayEnter
<1> USE <1>0
<1> DEFINE new == <<c>> \o rests
<1>1. /\ new \in Seq(Seq(Path)) /\ Len(rests) \in Nat /\ Len(new) = Len(rests) + 1
      /\ DOMAIN new = 1..(Len(rests) + 1) /\ DOMAIN rests = 1..Len(rests) /\ new[1] = c
      /\ \A i \in 1..Len(rests) : new[i + 1] = rests[i]
  BY PushProperties
<1> HIDE DEF new
<1>2. Len(root) \in Nat /\ DOMAIN c = 1..Len(c) /\ Len(c) \in Nat
  BY PathType, LenProperties
<1>3. \A i \in DOMAIN new : i = 1 \/ (i - 1 \in DOMAIN rests /\ new[i] = rests[i - 1])
  <2>1. \A i \in DOMAIN new : i = 1 \/ (i - 1 \in 1..Len(rests) /\ (i - 1) + 1 = i)
    BY <1>1, PlacesShift, Zenon
  <2> QED
    BY <1>1, <2>1
<1>4. \A i \in DOMAIN rests : i + 1 \in DOMAIN new /\ new[i + 1] = rests[i]
  BY <1>1
<1>5. 1 \in DOMAIN new
  BY <1>1
<1>6. ASSUME NEW n \in DOMAIN c
      PROVE  /\ c[n] \in Path /\ Len(c[n]) = Len(d) + 1
             /\ IsStrictPrefix(root, c[n]) /\ IsPrefix(d, c[n])
  <2>1. c[n] \in Path
    BY <1>2, ElementOfSeq
  <2>2. Len(c[n]) = Len(d) + 1 /\ IsStrictPrefix(d, c[n])
    BY <2>1, ParentFacts
  <2>3. IsPrefix(d, c[n]) /\ d # c[n]
    BY <2>1, <2>2, PrefixFacts
  <2> QED
    BY <2>1, <2>2, <2>3, StrictPrefixTransitive
<1>7. ASSUME NEW i \in DOMAIN new, NEW n \in DOMAIN new[i]
      PROVE  Len(new[i][n]) = Len(root) + Len(new) - i + 1 /\ IsStrictPrefix(root, new[i][n])
  <2>1. CASE i = 1
    <3>1. n \in DOMAIN c /\ new[i][n] = c[n]
      BY <1>1, <2>1
    <3>2. Len(d) + 1 = Len(root) + Len(new) - i + 1
      BY <1>1, <1>2, <2>1
    <3> QED
      BY <1>6, <3>1, <3>2
  <2>2. CASE i - 1 \in DOMAIN rests /\ new[i] = rests[i - 1]
    <3>1. /\ Len(rests[i - 1][n]) = Len(root) + Len(rests) - (i - 1) + 1
          /\ IsStrictPrefix(root, rests[i - 1][n])
      BY <2>2 DEF InPlace
    <3>2. Len(root) + Len(rests) - (i - 1) + 1 = Len(root) + Len(new) - i + 1
      BY <1>1, <1>2
    <3> QED
      BY <2>2, <3>1, <3>2
  <2> QED
    BY <1>3, <2>1, <2>2
<1>8. ASSUME NEW i \in DOMAIN new, NEW j \in DOMAIN new,
             NEW m \in DOMAIN new[i], NEW n \in DOMAIN new[j], i < j \/ (i = j /\ m < n)
      PROVE  LeftOf(new[i][m], new[j][n])
  <2>1. CASE i = 1 /\ j = 1
    <3>1. m \in DOMAIN c /\ n \in DOMAIN c /\ m < n /\ new[i][m] = c[m] /\ new[j][n] = c[n]
      BY <1>1, <1>8, <2>1
    <3>2. Precedes(c[m], c[n]) /\ c[m] \in Path /\ c[n] \in Path /\ Len(c[m]) = Len(c[n])
      BY <1>2, <1>6, <3>1 DEF Rising
    <3> QED
      BY <3>1, <3>2, SiblingsBeside
  <2>2. CASE i = 1 /\ j # 1
    <3>1. j - 1 \in DOMAIN rests /\ new[j] = rests[j - 1] /\ new[i] = c
      BY <1>1, <1>3, <2>2
    <3>2. new[j][n] \in Ahead(rests)
      BY <3>1, AheadIs
    <3>3. new[j][n] \in Path /\ LeftOf(d, new[j][n])
      BY <3>2, AheadType
    <3>4. c[m] \in Path /\ IsPrefix(d, c[m])
      BY <1>6, <3>1
    <3> QED
      BY <3>1, <3>3, <3>4, PrefixFacts, LeftBelow
  <2>3. CASE i # 1 /\ j # 1
    <3>1. /\ i - 1 \in DOMAIN rests /\ new[i] = rests[i - 1]
          /\ j - 1 \in DOMAIN rests /\ new[j] = rests[j - 1]
      BY <1>3, <2>3
    <3>2. i - 1 < j - 1 \/ (i - 1 = j - 1 /\ m < n)
      BY <1>1, <1>8
    <3> QED
      BY <3>1, <3>2 DEF InPlace
  <2>4. i # 1 => j # 1
    BY <1>1, <1>8
  <2> QED
    BY <2>1, <2>2, <2>3, <2>4
<1>9. InPlace(new, root)
  BY <1>7, <1>8 DEF InPlace
<1>10. Ahead(new) = Range(c) \cup Ahead(rests)
  <2>1. ASSUME NEW x \in Ahead(new) PROVE x \in Range(c) \cup Ahead(rests)
    <3>1. PICK i \in DOMAIN new : \E n \in DOMAIN new[i] : new[i][n] = x
      BY <2>1, AheadIs
    <3>2. CASE i = 1
      BY <1>1, <3>1, <3>2 DEF Range
    <3>3. CASE i - 1 \in DOMAIN rests /\ new[i] = rests[i - 1]
      BY <3>1, <3>3, AheadIs
    <3> QED
      BY <1>3, <3>2, <3>3
  <2>2. ASSUME NEW x \in Range(c) PROVE x \in Ahead(new)
    <3>1. PICK n \in DOMAIN c : c[n] = x
      BY <2>2 DEF Range
    <3> QED
      BY <1>1, <1>5, <3>1, AheadIs
  <2>3. ASSUME NEW x \in Ahead(rests) PROVE x \in Ahead(new)
    <3>1. PICK i \in DOMAIN rests : \E n \in DOMAIN rests[i] : rests[i][n] = x
      BY <2>3, AheadIs
    <3> QED
      BY <1>4, <3>1, AheadIs
  <2> QED
    BY <2>1, <2>2, <2>3
<1> QED
  BY <1>9, <1>10 DEF new

(* A directory is left. *)
LEMMA LeaveWalk ==
    ASSUME NEW root \in Path, NEW rests \in Seq(Seq(Path)), InPlace(rests, root), rests # <<>>
    PROVE  /\ InPlace(Tail(rests), root)
           /\ Ahead(rests) = Range(Head(rests)) \cup Ahead(Tail(rests))
<1> DEFINE new == Tail(rests)
<1>1. /\ new \in Seq(Seq(Path)) /\ Len(rests) \in Nat \ {0} /\ Len(new) = Len(rests) - 1
      /\ DOMAIN new = 1..(Len(rests) - 1) /\ DOMAIN rests = 1..Len(rests) /\ Head(rests) = rests[1]
      /\ \A i \in 1..(Len(rests) - 1) : new[i] = rests[i + 1]
  BY PopProperties
<1> HIDE DEF new
<1>2. Len(root) \in Nat
  BY PathType
<1>3. \A i \in DOMAIN new : i + 1 \in DOMAIN rests /\ new[i] = rests[i + 1]
  <2>1. \A i \in 1..(Len(rests) - 1) : i + 1 \in 1..Len(rests)
    BY <1>1, PlacesShift, Zenon
  <2> QED
    BY <1>1, <2>1, Zenon
<1>4. \A i \in DOMAIN rests : i = 1 \/ (i - 1 \in DOMAIN new /\ rests[i] = new[i - 1])
  <2>1. \A i \in DOMAIN rests : i = 1 \/ (i - 1 \in 1..(Len(rests) - 1) /\ (i - 1) + 1 = i)
    BY <1>1, PlacesShift, Zenon
  <2> QED
    BY <1>1, <2>1
<1>5. ASSUME NEW i \in DOMAIN new, NEW n \in DOMAIN new[i]
      PROVE  Len(new[i][n]) = Len(root) + Len(new) - i + 1 /\ IsStrictPrefix(root, new[i][n])
  <2>1. /\ Len(rests[i + 1][n]) = Len(root) + Len(rests) - (i + 1) + 1
        /\ IsStrictPrefix(root, rests[i + 1][n])
    BY <1>3 DEF InPlace
  <2>2. Len(root) + Len(rests) - (i + 1) + 1 = Len(root) + Len(new) - i + 1
    BY <1>1, <1>2
  <2> QED
    BY <1>3, <2>1, <2>2
<1>6. ASSUME NEW i \in DOMAIN new, NEW j \in DOMAIN new,
             NEW m \in DOMAIN new[i], NEW n \in DOMAIN new[j], i < j \/ (i = j /\ m < n)
      PROVE  LeftOf(new[i][m], new[j][n])
  <2>1. i + 1 < j + 1 \/ (i + 1 = j + 1 /\ m < n)
    <3>1. i \in 1..(Len(rests) - 1) /\ j \in 1..(Len(rests) - 1)
      BY <1>1, Zenon
    <3>2. i < j => i + 1 < j + 1
      BY <3>1
    <3> QED
      BY <1>6, <3>2
  <2>2. /\ i + 1 \in DOMAIN rests /\ new[i] = rests[i + 1]
        /\ j + 1 \in DOMAIN rests /\ new[j] = rests[j + 1]
    BY <1>3
  <2> QED
    BY <2>1, <2>2 DEF InPlace
<1>7. InPlace(new, root)
  BY <1>5, <1>6 DEF InPlace
<1>8. Ahead(rests) = Range(Head(rests)) \cup Ahead(new)
  <2>1. ASSUME NEW x \in Ahead(rests) PROVE x \in Range(Head(rests)) \cup Ahead(new)
    <3>1. PICK i \in DOMAIN rests : \E n \in DOMAIN rests[i] : rests[i][n] = x
      BY <2>1, AheadIs
    <3>2. CASE i = 1
      BY <1>1, <3>1, <3>2 DEF Range
    <3>3. CASE i - 1 \in DOMAIN new /\ rests[i] = new[i - 1]
      BY <3>1, <3>3, AheadIs
    <3> QED
      BY <1>4, <3>2, <3>3
  <2>2. ASSUME NEW x \in Range(Head(rests)) PROVE x \in Ahead(rests)
    <3>1. PICK n \in DOMAIN Head(rests) : Head(rests)[n] = x
      BY <2>2 DEF Range
    <3>2. 1 \in DOMAIN rests
      BY <1>1
    <3> QED
      BY <1>1, <3>1, <3>2, AheadIs
  <2>3. ASSUME NEW x \in Ahead(new) PROVE x \in Ahead(rests)
    <3>1. PICK i \in DOMAIN new : \E n \in DOMAIN new[i] : new[i][n] = x
      BY <2>3, AheadIs
    <3> QED
      BY <1>3, <3>1, AheadIs
  <2> QED
    BY <2>1, <2>2, <2>3
<1> QED
  BY <1>7, <1>8 DEF new

(* The next child is taken up. *)
LEMMA PickInWalk ==
    ASSUME NEW root \in Path, NEW rests \in Seq(Seq(Path)), InPlace(rests, root),
           rests # <<>>, Head(rests) # <<>>,
           NEW x, x = Head(Head(rests))
    PROVE  /\ InPlace(<<Tail(Head(rests))>> \o Tail(rests), root)
           /\ Ahead(rests) = {x} \cup Ahead(<<Tail(Head(rests))>> \o Tail(rests))
           /\ \A y \in Ahead(<<Tail(Head(rests))>> \o Tail(rests)) : LeftOf(x, y)
           /\ x \in Path /\ IsStrictPrefix(root, x) /\ Len(x) = Len(root) + Len(rests)
<1> DEFINE new == <<Tail(Head(rests))>> \o Tail(rests)
<1>1. /\ Tail(rests) \in Seq(Seq(Path)) /\ Len(rests) \in Nat \ {0} /\ Len(Tail(rests)) = Len(rests) - 1
      /\ DOMAIN rests = 1..Len(rests) /\ Head(rests) = rests[1] /\ rests[1] \in Seq(Path)
      /\ \A i \in 1..(Len(rests) - 1) : Tail(rests)[i] = rests[i + 1]
  BY PopProperties
<1>2. /\ Tail(rests[1]) \in Seq(Path) /\ x = rests[1][1] /\ x \in Path
      /\ Len(rests[1]) \in Nat \ {0} /\ DOMAIN rests[1] = 1..Len(rests[1])
      /\ DOMAIN Tail(rests[1]) = 1..(Len(rests[1]) - 1)
      /\ \A n \in 1..(Len(rests[1]) - 1) : Tail(rests[1])[n] = rests[1][n + 1]
  BY <1>1, PopProperties
<1>3. /\ Len(new) = Len(rests) /\ DOMAIN new = 1..Len(rests) /\ new[1] = Tail(rests[1])
      /\ \A i \in 1..(Len(rests) - 1) : new[i + 1] = rests[i + 1]
  BY <1>1, <1>2, PushProperties
<1> HIDE DEF new
<1>4. \A i \in DOMAIN new : i # 1 => new[i] = rests[i]
  <2>1. \A i \in DOMAIN new : i # 1 => i - 1 \in 1..(Len(rests) - 1) /\ (i - 1) + 1 = i
    BY <1>1, <1>3
  <2> QED
    BY <1>3, <2>1
<1>5. 1 \in DOMAIN rests /\ 1 \in DOMAIN rests[1] /\ DOMAIN new = DOMAIN rests
  BY <1>1, <1>2, <1>3
<1> DEFINE at(i, n) == IF i = 1 THEN n + 1 ELSE n
<1>6. \A i \in DOMAIN new : \A n \in DOMAIN new[i] :
          at(i, n) \in DOMAIN rests[i] /\ new[i][n] = rests[i][at(i, n)]
  <2>1. \A n \in DOMAIN new[1] : n + 1 \in DOMAIN rests[1] /\ new[1][n] = rests[1][n + 1]
    BY <1>2, <1>3
  <2>2. \A i \in DOMAIN new : i # 1 => new[i] = rests[i]
    BY <1>4
  <2> QED
    BY <2>1, <2>2
<1>7. \A i \in DOMAIN new : \A m, n \in DOMAIN new[i] : m < n => at(i, m) < at(i, n)
  <2>1. \A m, n \in DOMAIN new[1] : m < n => m + 1 < n + 1
    BY <1>2, <1>3
  <2> QED
    BY <2>1
<1>8. \A i \in DOMAIN new : \A n \in DOMAIN new[i] : 1 < i \/ (1 = i /\ 1 < at(i, n))
  <2>1. \A n \in DOMAIN new[1] : 1 < n + 1
    BY <1>2, <1>3
  <2>2. \A i \in DOMAIN new : i = 1 \/ 1 < i
    BY <1>3
  <2> QED
    BY <2>1, <2>2
<1> HIDE DEF at
<1>9. ASSUME NEW i \in DOMAIN new, NEW n \in DOMAIN new[i]
      PROVE  Len(new[i][n]) = Len(root) + Len(new) - i + 1 /\ IsStrictPrefix(root, new[i][n])
  BY <1>3, <1>5, <1>6 DEF InPlace
<1>10. ASSUME NEW i \in DOMAIN new, NEW j \in DOMAIN new,
              NEW m \in DOMAIN new[i], NEW n \in DOMAIN new[j], i < j \/ (i = j /\ m < n)
       PROVE  LeftOf(new[i][m], new[j][n])
  <2>1. i < j \/ (i = j /\ at(i, m) < at(j, n))
    BY <1>7, <1>10
  <2> QED
    BY <1>5, <1>6, <2>1 DEF InPlace
<1>11. InPlace(new, root)
  BY <1>9, <1>10 DEF InPlace
<1>12. ASSUME NEW y \in Ahead(new) PROVE LeftOf(x, y) /\ y \in Ahead(rests)
  <2>0. PICK i \in DOMAIN new : \E n \in DOMAIN new[i] : new[i][n] = y
    BY <1>12, AheadIs
  <2>1. PICK n \in DOMAIN new[i] : new[i][n] = y
    BY <2>0
  <2>2. i \in DOMAIN rests /\ at(i, n) \in DOMAIN rests[i] /\ rests[i][at(i, n)] = y
    BY <1>5, <1>6, <2>1
  <2>3. 1 < i \/ (1 = i /\ 1 < at(i, n))
    BY <1>8, <2>1
  <2>4. LeftOf(rests[1][1], rests[i][at(i, n)])
    BY <1>5, <2>2, <2>3 DEF InPlace
  <2> QED
    BY <1>2, <2>2, <2>4, AheadIs
<1>13. ASSUME NEW y \in Ahead(rests), y # x PROVE y \in Ahead(new)
  <2>0. PICK i \in DOMAIN rests : \E n \in DOMAIN rests[i] : rests[i][n] = y
    BY <1>13, AheadIs
  <2>1. PICK n \in DOMAIN rests[i] : rests[i][n] = y
    BY <2>0
  <2>2. CASE i = 1
    <3>1. n \in 1..Len(rests[1]) /\ n # 1
      BY <1>2, <1>13, <2>1, <2>2
    <3>2. Len(rests[1]) \in Nat
      BY <1>2
    <3>3. n - 1 \in 1..(Len(rests[1]) - 1) /\ (n - 1) + 1 = n
      BY <3>1, <3>2, PlacesShift, Zenon
    <3>4. n - 1 \in DOMAIN new[1] /\ new[1][n - 1] = y
      BY <1>2, <1>3, <2>1, <2>2, <3>3
    <3> QED
      BY <1>5, <3>4, AheadIs
  <2>3. CASE i # 1
    BY <1>4, <1>5, <2>1, <2>3, AheadIs
  <2> QED
    BY <2>2, <2>3
<1>14. x \in Ahead(rests)
  BY <1>2, <1>5, AheadIs
<1>15. Len(x) = Len(root) + Len(rests) - 1 + 1 /\ IsStrictPrefix(root, x)
  BY <1>2, <1>5 DEF InPlace
<1>16. Len(x) = Len(root) + Len(rests)
  BY <1>1, <1>15, PathType
<1>17. Ahead(rests) = {x} \cup Ahead(new)
  BY <1>12, <1>13, <1>14
<1> QED
  BY <1>2, <1>11, <1>12, <1>15, <1>16, <1>17 DEF new

-----------------------------------------------------------------------------
(***************************************************************************)
(* A tree on a set of paths: what there is, is in a directory, and there   *)
(* is an end to it.                                                        *)
(***************************************************************************)
TreeOn(t, P) ==
    /\ P \subseteq Path /\ <<>> \in P
    /\ \A p \in P \ {<<>>} : Front(p) \in P
    /\ IsFiniteSet({p \in P : t[p] # "none"})
    /\ t[<<>>] = "directory"
    /\ \A p \in P \ {<<>>} : t[p] # "none" => t[Front(p)] = "directory"

(* What is there is in a directory that is there, up to the root. *)
LEMMA WayInTree ==
    ASSUME NEW t, NEW P, TreeOn(t, P), NEW p \in P, t[p] # "none", NEW q \in Path, IsPrefix(q, p)
    PROVE  q \in P /\ t[q] # "none" /\ (q # p => t[q] = "directory")
<1> DEFINE S == {r \in P : t[r] # "none"}
<1>1. \A r \in S : r = <<>> \/ Front(r) \in S
  BY DEF TreeOn
<1>2. S \subseteq Path /\ p \in S /\ p \in Path
  BY DEF TreeOn
<1>3. \A r \in Path : IsPrefix(r, p) => r \in S
  BY <1>1, <1>2, WayIsThere
<1>4. ASSUME q # p PROVE t[q] = "directory"
  <2>1. IsStrictPrefix(q, p)
    BY <1>2, <1>4, PrefixFacts
  <2>2. PICK n \in 1..Len(p) : LET c == SubSeq(p, 1, n)
                              IN c \in Path /\ c # <<>> /\ Front(c) = q /\ IsPrefix(c, p)
    BY <1>2, <2>1, ChildOnTheWay
  <2>3. SubSeq(p, 1, n) \in S
    BY <1>3, <2>2
  <2> QED
    BY <2>2, <2>3 DEF TreeOn
<1> QED
  BY <1>3, <1>4

(* The children of a directory, in order: on the way to everything below it. *)
ChildrenOn(t, P, d) == InOrder({p \in P \ {<<>>} : Front(p) = d /\ t[p] # "none"})

LEMMA ChildrenInTree ==
    ASSUME NEW t, NEW P, TreeOn(t, P), NEW d \in P, NEW c, c = ChildrenOn(t, P, d)
    PROVE  /\ c \in Seq(P) /\ c \in Seq(Path) /\ Rising(c)
           /\ \A n \in DOMAIN c : c[n] # <<>> /\ Front(c[n]) = d
           /\ \A x \in Range(c) : x \in P /\ x # <<>> /\ Front(x) = d /\ t[x] # "none"
           /\ \A p \in P : IsStrictPrefix(d, p) /\ t[p] # "none" => \E x \in Range(c) : IsPrefix(x, p)
<1> DEFINE S == {p \in P \ {<<>>} : Front(p) = d /\ t[p] # "none"}
<1>1. IsFiniteSet(S)
  <2>1. S \subseteq {p \in P : t[p] # "none"}
    OBVIOUS
  <2> QED
    BY <2>1, FS_Subset DEF TreeOn
<1>2. S \subseteq Path /\ S \subseteq P /\ d \in Path
  BY DEF TreeOn
<1>3. c \in Seq(S) /\ Rising(c) /\ \A x \in S : \E n \in 1..Len(c) : c[n] = x
  BY <1>1, <1>2, InOrderProperties DEF ChildrenOn
<1>4. \A x \in S : x \in P /\ x # <<>> /\ Front(x) = d /\ t[x] # "none"
  OBVIOUS
<1> HIDE DEF S
<1>5. DOMAIN c = 1..Len(c) /\ \A n \in 1..Len(c) : c[n] \in S
  BY <1>3, LenProperties, ElementOfSeq
<1>6. c \in Seq(P) /\ c \in Seq(Path)
  BY <1>2, <1>3, SeqMonotonic
<1>7. Range(c) = S
  BY <1>3, <1>5 DEF Range
<1>8. ASSUME NEW p \in P, IsStrictPrefix(d, p), t[p] # "none"
      PROVE  \E x \in S : IsPrefix(x, p)
  <2>1. p \in Path
    BY DEF TreeOn
  <2>2. PICK n \in 1..Len(p) : LET q == SubSeq(p, 1, n)
                              IN q \in Path /\ q # <<>> /\ Front(q) = d /\ IsPrefix(q, p)
    BY <1>2, <1>8, <2>1, ChildOnTheWay
  <2>3. SubSeq(p, 1, n) \in P /\ t[SubSeq(p, 1, n)] # "none"
    BY <1>8, <2>2, WayInTree
  <2> QED
    BY <2>2, <2>3 DEF S
<1> QED
  BY <1>3, <1>4, <1>5, <1>6, <1>7, <1>8

(* A path and all below it are cut off. *)
LEMMA PrunedTree ==
    ASSUME NEW t, NEW P, TreeOn(t, P), NEW p \in P, p # <<>>,
           NEW u, u = [q \in P |-> IF IsPrefix(p, q) THEN "none" ELSE t[q]]
    PROVE  TreeOn(u, P)
<1>1. P \subseteq Path /\ <<>> \in P /\ \A q \in P \ {<<>>} : Front(q) \in P
  BY DEF TreeOn
<1>2. u[<<>>] = "directory"
  <2>1. ~ IsPrefix(p, <<>>)
    <3>1. p \in Path /\ <<>> \in Path /\ Len(<<>>) = 0
      BY <1>1, EmptySeq
    <3>2. IsPrefix(p, <<>>) => Len(p) <= 0
      BY <3>1, PrefixAt
    <3>3. Len(p) \in Nat /\ Len(p) # 0
      BY <3>1, LenProperties, EmptySeq DEF Path
    <3> QED
      BY <3>2, <3>3
  <2> QED
    BY <1>1, <2>1 DEF TreeOn
<1>3. ASSUME NEW q \in P \ {<<>>}, u[q] # "none" PROVE u[Front(q)] = "directory"
  <2>1. ~ IsPrefix(p, q) /\ t[q] # "none"
    BY <1>3
  <2>2. ~ IsPrefix(p, Front(q))
    <3>1. p \in Path /\ q \in Path /\ q # <<>>
      BY <1>1
    <3>2. Front(q) \in Path /\ IsPrefix(Front(q), q)
      BY <3>1, ParentFacts, PrefixFacts
    <3> QED
      BY <2>1, <3>1, <3>2, PrefixTransitive
  <2> QED
    BY <1>1, <2>1, <2>2 DEF TreeOn
<1>4. IsFiniteSet({q \in P : u[q] # "none"})
  <2>1. {q \in P : u[q] # "none"} \subseteq {q \in P : t[q] # "none"}
    OBVIOUS
  <2> QED
    BY <2>1, FS_Subset DEF TreeOn
<1> QED
  BY <1>1, <1>2, <1>3, <1>4 DEF TreeOn

(* Something is put into a directory, where there is no directory yet. *)
LEMMA GrownTree ==
    ASSUME NEW t, NEW P, NEW K, t \in [P -> K], TreeOn(t, P), NEW p \in P, p # <<>>,
           t[p] # "directory", t[Front(p)] = "directory", NEW k, NEW u, u = [t EXCEPT ![p] = k]
    PROVE  TreeOn(u, P)
<1>1. P \subseteq Path /\ <<>> \in P /\ \A q \in P \ {<<>>} : Front(q) \in P
  BY DEF TreeOn
<1>2. u[<<>>] = "directory"
  BY <1>1 DEF TreeOn
<1>3. ASSUME NEW q \in P \ {<<>>}, u[q] # "none" PROVE u[Front(q)] = "directory"
  <2>1. t[Front(q)] = "directory"
    BY <1>3 DEF TreeOn
  <2> QED
    BY <1>1, <2>1
<1>4. IsFiniteSet({q \in P : u[q] # "none"})
  <2>1. {q \in P : u[q] # "none"} \subseteq {q \in P : t[q] # "none"} \cup {p}
    OBVIOUS
  <2>2. IsFiniteSet({q \in P : t[q] # "none"} \cup {p})
    BY FS_AddElement DEF TreeOn
  <2> QED
    BY <2>1, <2>2, FS_Subset
<1> QED
  BY <1>1, <1>2, <1>3, <1>4 DEF TreeOn
=============================================================================
