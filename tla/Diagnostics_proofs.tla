------------------------ MODULE Diagnostics_proofs -------------------------
(***************************************************************************)
(* Proofs about GitStatus and Diagnostics, for every set of files,         *)
(* contents, branches and executables, every limit and every number of     *)
(* changes: the operators, what a change of another program leaves alone,  *)
(* the invariant of status(), and that of a diagnosis.                     *)
(***************************************************************************)
EXTENDS Diagnostics, Ordering_proofs

-----------------------------------------------------------------------------
(* The operators.                                                          *)

(* SetToSeq has every element of a finite set once. *)
LEMMA SetToSeqProperties ==
    ASSUME NEW S, IsFiniteSet(S)
    PROVE  /\ Cardinality(S) \in Nat
           /\ SetToSeq(S) \in [1..Cardinality(S) -> S]
           /\ \A i, j \in 1..Cardinality(S) : SetToSeq(S)[i] = SetToSeq(S)[j] => i = j
           /\ \A x \in S : \E i \in 1..Cardinality(S) : SetToSeq(S)[i] = x
<1> DEFINE D == 1..Cardinality(S)
           f == SetToSeq(S)
<1>1. Cardinality(S) \in Nat /\ IsFiniteSet(D) /\ Cardinality(D) = Cardinality(S)
  BY FS_CardinalityType, FS_Interval
<1>2. PICK g : g \in Bijection(D, S)
  BY FS_CardinalityType DEF ExistsBijection
<1>3. g \in [D -> S] /\ IsInjective(g)
  BY <1>2 DEF Bijection, Injection
<1>4. f \in [D -> S] /\ IsInjective(f)
  BY <1>3 DEF SetToSeq
<1>5. f \in Injection(D, S)
  BY <1>4 DEF Injection
<1>6. f \in Surjection(D, S)
  BY <1>1, <1>5, FS_Injection
<1> QED
  BY <1>1, <1>4, <1>6 DEF Surjection, IsInjective

(* The lines of git status. *)
PorcelainLines == [x : {"M", " ", "?"}, y : {"M", " ", "?"}, path : Files]

(***************************************************************************)
(* A file that at most one of the chosen lines names is in the list they   *)
(* make once, or not at all.                                               *)
(***************************************************************************)
LEMMA PathsAtProperties ==
    ASSUME NEW lines \in Seq(PorcelainLines), NEW chosen, chosen \subseteq DOMAIN lines
    PROVE  /\ PathsAt(lines, chosen) \in Seq(Files)
           /\ \A f \in Files :
                 (\A i, j \in chosen : lines[i].path = f /\ lines[j].path = f => i = j) =>
                     Lists(PathsAt(lines, chosen), f, \E i \in chosen : lines[i].path = f)
<1> DEFINE N == Cardinality(chosen)
           order == Sorted(chosen, Ascending(chosen))
           paths == PathsAt(lines, chosen)
<1>1. Len(lines) \in Nat /\ DOMAIN lines = 1..Len(lines) /\ chosen \subseteq Nat
  BY LenProperties
<1>2. IsFiniteSet(chosen)
  <2>1. IsFiniteSet(1..Len(lines)) /\ chosen \in SUBSET (1..Len(lines))
    BY <1>1, FS_Interval
  <2> QED
    BY <2>1, FS_Subset
<1>3. /\ order \in Seq(chosen) /\ Len(order) = N
      /\ \A i \in chosen : \E n \in 1..N : order[n] = i
      /\ \A m, n \in 1..N : m < n => order[m] # order[n]
  <2>1. IsOrderOn(Ascending(chosen), chosen)
    BY <1>1, AscendingIsOrder
  <2>2. order \in Seq(chosen) /\ Len(order) = N
    BY <1>2, <2>1, SortedProperties
  <2>3. \A i \in chosen : \E n \in 1..N : order[n] = i
    BY <1>2, <2>1, SortedProperties
  <2>4. \A m, n \in 1..N : m < n => <<order[m], order[n]>> \in Ascending(chosen) /\ order[m] # order[n]
    BY <1>2, <2>1, SortedProperties
  <2> QED
    BY <2>2, <2>3, <2>4
<1>4. N \in Nat /\ order \in [1..N -> chosen]
  BY <1>3, LenProperties
<1>5. paths = [n \in 1..N |-> lines[order[n]].path]
  BY <1>4 DEF PathsAt
<1>6. \A i \in chosen : lines[i].path \in Files
  <2>1. ASSUME NEW i \in chosen PROVE lines[i] \in PorcelainLines
    BY <1>1, ElementOfSeq
  <2> QED
    BY <2>1 DEF PorcelainLines
<1>7. paths \in [1..N -> Files]
  BY <1>4, <1>5, <1>6
<1>8. ASSUME NEW f \in Files, \A i, j \in chosen : lines[i].path = f /\ lines[j].path = f => i = j
      PROVE  Lists(paths, f, \E i \in chosen : lines[i].path = f)
  <2> DEFINE hits == {n \in DOMAIN paths : paths[n] = f}
  <2>1. hits = {n \in 1..N : lines[order[n]].path = f}
    BY <1>5
  <2>2. CASE \E i \in chosen : lines[i].path = f
    <3>1. PICK i \in chosen : lines[i].path = f
      BY <2>2
    <3>2. PICK n \in 1..N : order[n] = i
      BY <1>3
    <3>3. ASSUME NEW m \in hits PROVE m = n
      <4>1. m \in 1..N /\ lines[order[m]].path = f /\ order[m] \in chosen
        BY <1>4, <2>1
      <4>2. order[m] = i
        BY <1>8, <3>1, <4>1
      <4>3. ~ (m < n) /\ ~ (n < m)
        BY <1>3, <3>2, <4>1, <4>2
      <4> QED
        BY <1>4, <4>1, <4>3
    <3>4. hits = {n}
      BY <2>1, <3>1, <3>2, <3>3
    <3> QED
      BY <2>2, <3>4, FS_Singleton DEF Lists
  <2>3. CASE ~ \E i \in chosen : lines[i].path = f
    <3>1. hits = {}
      BY <1>4, <2>1, <2>3
    <3> QED
      BY <2>3, <3>1, FS_EmptySet DEF Lists
  <2> QED
    BY <2>2, <2>3
<1>9. paths \in Seq(Files)
  BY <1>4, <1>7
<1> HIDE DEF paths
<1>10. ASSUME NEW f \in Files, \A i, j \in chosen : lines[i].path = f /\ lines[j].path = f => i = j
       PROVE  Lists(paths, f, \E i \in chosen : lines[i].path = f)
  BY <1>8, <1>10
<1> QED
  BY <1>9, <1>10 DEF paths

(* What git status prints, line by line. *)
LEMMA PorcelainProperties ==
    ASSUME NEW s \in Snapshots
    PROVE  LET t == Porcelain(s)
               D == Cardinality(Differing(s))
               N == Cardinality(New(s))
           IN  /\ D \in Nat /\ N \in Nat
               /\ t \in Seq(PorcelainLines) /\ DOMAIN t = 1..(D + N)
               /\ \A i \in 1..D : t[i] = LineOf(s, SetToSeq(Differing(s))[i])
               /\ \A i \in (D + 1)..(D + N) : t[i] = NewLineOf(SetToSeq(New(s))[i - D])
<1> DEFINE D == Cardinality(Differing(s))
           N == Cardinality(New(s))
           first == [i \in 1..D |-> LineOf(s, SetToSeq(Differing(s))[i])]
           second == [i \in 1..N |-> NewLineOf(SetToSeq(New(s))[i])]
<1>1. IsFiniteSet(Differing(s)) /\ IsFiniteSet(New(s))
  <2>1. Differing(s) \in SUBSET Files /\ New(s) \in SUBSET Files
    BY DEF Differing, New
  <2> QED
    BY <2>1, GitAssumption, FS_Subset
<1>2. /\ D \in Nat /\ SetToSeq(Differing(s)) \in [1..D -> Files]
      /\ N \in Nat /\ SetToSeq(New(s)) \in [1..N -> Files]
  <2>1. Differing(s) \subseteq Files /\ New(s) \subseteq Files
    BY DEF Differing, New
  <2>2. SetToSeq(Differing(s)) \in [1..D -> Differing(s)] /\ D \in Nat
    BY <1>1, SetToSeqProperties
  <2>3. SetToSeq(New(s)) \in [1..N -> New(s)] /\ N \in Nat
    BY <1>1, SetToSeqProperties
  <2> QED
    BY <2>1, <2>2, <2>3
<1>3. first \in Seq(PorcelainLines) /\ Len(first) = D
  <2>1. \A i \in 1..D : LineOf(s, SetToSeq(Differing(s))[i]) \in PorcelainLines
    BY <1>2 DEF LineOf, Letter, PorcelainLines
  <2> QED
    BY <1>2, <2>1
<1>4. second \in Seq(PorcelainLines) /\ Len(second) = N
  <2>1. \A i \in 1..N : NewLineOf(SetToSeq(New(s))[i]) \in PorcelainLines
    BY <1>2 DEF NewLineOf, PorcelainLines
  <2> QED
    BY <1>2, <2>1
<1>5. Porcelain(s) = first \o second
  BY DEF Porcelain
<1> HIDE DEF first, second
<1>6. /\ first \o second \in Seq(PorcelainLines)
      /\ Len(first \o second) = D + N
      /\ \A i \in 1..(D + N) : (first \o second)[i] = IF i <= D THEN first[i] ELSE second[i - D]
  <2> HIDE DEF D, N
  <2> QED
    BY <1>3, <1>4, ConcatProperties
<1>7. \A i \in 1..D : (first \o second)[i] = LineOf(s, SetToSeq(Differing(s))[i])
  BY <1>2, <1>6 DEF first
<1>8. ASSUME NEW i \in (D + 1)..(D + N)
      PROVE  (first \o second)[i] = NewLineOf(SetToSeq(New(s))[i - D])
  <2>1. i \in 1..(D + N) /\ ~ (i <= D) /\ i - D \in 1..N
    BY <1>2
  <2> QED
    BY <1>6, <2>1 DEF second
<1> QED
  BY <1>2, <1>5, <1>6, <1>7, <1>8, LenProperties

Statuses ==
    [branch : Branches \cup {Detached}, staged : Seq(Files), modified : Seq(Files),
     untracked : Seq(Files), statistics : Seq(Nat)]

(* The lists st names f in are those f belongs to in s, and it is there once. *)
ListedAs(st, s, f) ==
    /\ Lists(st.staged, f, Staged(s, f))
    /\ Lists(st.modified, f, Modified(s, f))
    /\ Lists(st.untracked, f, Untracked(s, f))

(* What is parsed from the lines git prints says of every file what git saw. *)
LEMMA ParseIsExact ==
    ASSUME NEW s \in Snapshots, status \in Statuses
    PROVE  LET parsed == Parse(Porcelain(s))
           IN  /\ parsed \in Statuses
               /\ parsed.branch = status.branch /\ parsed.statistics = status.statistics
               /\ \A f \in Files : ListedAs(parsed, s, f)
<1> DEFINE t == Porcelain(s)
           D == Cardinality(Differing(s))
           N == Cardinality(New(s))
           d == SetToSeq(Differing(s))
           w == SetToSeq(New(s))
           staged == {i \in DOMAIN t : t[i].x \notin {" ", "?"}}
           modified == {i \in DOMAIN t : t[i].x # "?" /\ t[i].y # " "}
           untracked == {i \in DOMAIN t : t[i].x = "?"}
           parsed == Parse(t)
<1>1. /\ D \in Nat /\ N \in Nat /\ t \in Seq(PorcelainLines) /\ DOMAIN t = 1..(D + N)
      /\ \A i \in 1..D : t[i] = LineOf(s, d[i])
      /\ \A i \in (D + 1)..(D + N) : t[i] = NewLineOf(w[i - D])
  BY PorcelainProperties
<1>2. Differing(s) \subseteq Files /\ New(s) \subseteq Files
  BY DEF Differing, New
<1>3. IsFiniteSet(Differing(s)) /\ IsFiniteSet(New(s))
  BY <1>2, GitAssumption, FS_Subset DEF GitAssumption
<1>4. /\ d \in [1..D -> Differing(s)]
      /\ \A i, j \in 1..D : d[i] = d[j] => i = j
      /\ \A f \in Differing(s) : \E i \in 1..D : d[i] = f
  BY <1>3, SetToSeqProperties
<1>5. /\ w \in [1..N -> New(s)]
      /\ \A i, j \in 1..N : w[i] = w[j] => i = j
      /\ \A f \in New(s) : \E i \in 1..N : w[i] = f
  BY <1>3, SetToSeqProperties
<1> HIDE DEF t, D, N, d, w
<1>6. ASSUME NEW i \in 1..D
      PROVE  /\ i \in DOMAIN t /\ t[i].path = d[i]
             /\ t[i].x = "M" <=> Staged(s, d[i])
             /\ t[i].y = "M" <=> Modified(s, d[i])
             /\ t[i].x \in {"M", " "} /\ t[i].y \in {"M", " "}
  <2>1. i \in DOMAIN t
    BY <1>1
  <2>2. /\ t[i].x = Letter(Staged(s, d[i])) /\ t[i].y = Letter(Modified(s, d[i]))
        /\ t[i].path = d[i]
    <3>1. t[i] = LineOf(s, d[i])
      BY <1>1
    <3> QED
      BY <3>1 DEF LineOf
  <2>3. \A f : /\ Letter(Staged(s, f)) = "M" <=> Staged(s, f)
               /\ Letter(Modified(s, f)) = "M" <=> Modified(s, f)
               /\ Letter(Staged(s, f)) \in {"M", " "} /\ Letter(Modified(s, f)) \in {"M", " "}
    BY DEF Letter, Staged, Modified
  <2> QED
    BY <2>1, <2>2, <2>3
<1>61. ASSUME NEW i \in (D + 1)..(D + N)
       PROVE  i \in DOMAIN t /\ t[i].path = w[i - D] /\ t[i].x = "?" /\ i - D \in 1..N /\ i \in Int
  <2>1. i \in DOMAIN t /\ i - D \in 1..N /\ i \in Int
    BY <1>1
  <2>2. t[i] = NewLineOf(w[i - D])
    BY <1>1
  <2> QED
    BY <2>1, <2>2 DEF NewLineOf
<1>62. \A i \in DOMAIN t : i \in 1..D \/ i \in (D + 1)..(D + N)
  BY <1>1
<1>7. ASSUME NEW f \in Files
      PROVE  /\ \A i, j \in staged : t[i].path = f /\ t[j].path = f => i = j
             /\ (\E i \in staged : t[i].path = f) <=> Staged(s, f)
  <2>1. ASSUME NEW i \in staged PROVE i \in 1..D /\ t[i].path = d[i] /\ Staged(s, d[i])
    BY <1>6, <1>61, <1>62
  <2>2. ASSUME Staged(s, f) PROVE \E i \in staged : t[i].path = f
    <3>1. f \in Differing(s)
      BY <2>2 DEF Staged, Tracked, Differing
    <3>2. PICK i \in 1..D : d[i] = f
      BY <1>4, <3>1
    <3> QED
      BY <1>6, <2>2, <3>2
  <2>3. ASSUME NEW i \in staged, NEW j \in staged, t[i].path = f, t[j].path = f
        PROVE  i = j
    <3>1. i \in 1..D /\ j \in 1..D /\ d[i] = d[j]
      BY <2>1, <2>3
    <3> QED
      BY <1>4, <3>1
  <2> QED
    BY <2>1, <2>2, <2>3
<1>8. ASSUME NEW f \in Files
      PROVE  /\ \A i, j \in modified : t[i].path = f /\ t[j].path = f => i = j
             /\ (\E i \in modified : t[i].path = f) <=> Modified(s, f)
  <2>1. ASSUME NEW i \in modified PROVE i \in 1..D /\ t[i].path = d[i] /\ Modified(s, d[i])
    BY <1>6, <1>61, <1>62
  <2>2. ASSUME Modified(s, f) PROVE \E i \in modified : t[i].path = f
    <3>1. f \in Differing(s)
      BY <2>2 DEF Modified, Tracked, Differing
    <3>2. PICK i \in 1..D : d[i] = f
      BY <1>4, <3>1
    <3> QED
      BY <1>6, <2>2, <3>2
  <2>3. ASSUME NEW i \in modified, NEW j \in modified, t[i].path = f, t[j].path = f
        PROVE  i = j
    <3>1. i \in 1..D /\ j \in 1..D /\ d[i] = d[j]
      BY <2>1, <2>3
    <3> QED
      BY <1>4, <3>1
  <2> QED
    BY <2>1, <2>2, <2>3
<1>9. ASSUME NEW f \in Files
      PROVE  /\ \A i, j \in untracked : t[i].path = f /\ t[j].path = f => i = j
             /\ (\E i \in untracked : t[i].path = f) <=> Untracked(s, f)
  <2>1. ASSUME NEW i \in untracked
        PROVE  i - D \in 1..N /\ t[i].path = w[i - D] /\ i \in Int
    BY <1>6, <1>61, <1>62
  <2>2. ASSUME NEW i \in untracked PROVE Untracked(s, w[i - D])
    BY <1>5, <2>1, <2>2 DEF New
  <2>3. ASSUME Untracked(s, f) PROVE \E i \in untracked : t[i].path = f
    <3>1. f \in New(s)
      BY <2>3 DEF New
    <3>2. PICK i \in 1..N : w[i] = f
      BY <1>5, <3>1
    <3>3. D + i \in (D + 1)..(D + N) /\ (D + i) - D = i
      BY <1>1, <3>2
    <3> QED
      BY <1>61, <3>2, <3>3
  <2>4. ASSUME NEW i \in untracked, NEW j \in untracked, t[i].path = f, t[j].path = f
        PROVE  i = j
    <3>1. i - D = j - D
      BY <1>5, <2>1, <2>4
    <3> QED
      BY <1>1, <2>1, <3>1
  <2> QED
    BY <2>1, <2>2, <2>3, <2>4
<1>10. /\ PathsAt(t, staged) \in Seq(Files)
       /\ \A f \in Files : Lists(PathsAt(t, staged), f, Staged(s, f))
  <2>1. staged \subseteq DOMAIN t
    OBVIOUS
  <2> HIDE DEF staged
  <2>2. \A f \in Files : Lists(PathsAt(t, staged), f, \E i \in staged : t[i].path = f)
    BY <1>1, <1>7, <2>1, PathsAtProperties
  <2> QED
    BY <1>1, <1>7, <2>1, <2>2, PathsAtProperties DEF Lists
<1>11. /\ PathsAt(t, modified) \in Seq(Files)
       /\ \A f \in Files : Lists(PathsAt(t, modified), f, Modified(s, f))
  <2>1. modified \subseteq DOMAIN t
    OBVIOUS
  <2> HIDE DEF modified
  <2>2. \A f \in Files : Lists(PathsAt(t, modified), f, \E i \in modified : t[i].path = f)
    BY <1>1, <1>8, <2>1, PathsAtProperties
  <2> QED
    BY <1>1, <1>8, <2>1, <2>2, PathsAtProperties DEF Lists
<1>12. /\ PathsAt(t, untracked) \in Seq(Files)
       /\ \A f \in Files : Lists(PathsAt(t, untracked), f, Untracked(s, f))
  <2>1. untracked \subseteq DOMAIN t
    OBVIOUS
  <2> HIDE DEF untracked
  <2>2. \A f \in Files : Lists(PathsAt(t, untracked), f, \E i \in untracked : t[i].path = f)
    BY <1>1, <1>9, <2>1, PathsAtProperties
  <2> QED
    BY <1>1, <1>9, <2>1, <2>2, PathsAtProperties DEF Lists
<1>13. parsed = [status EXCEPT !.staged = PathsAt(t, staged), !.modified = PathsAt(t, modified),
                               !.untracked = PathsAt(t, untracked)]
  BY DEF Parse
<1> HIDE DEF staged, modified, untracked, parsed
<1>14. /\ parsed \in Statuses
       /\ parsed.branch = status.branch /\ parsed.statistics = status.statistics
       /\ parsed.staged = PathsAt(t, staged) /\ parsed.modified = PathsAt(t, modified)
       /\ parsed.untracked = PathsAt(t, untracked)
  BY <1>10, <1>11, <1>12, <1>13 DEF Statuses
<1> QED
  BY <1>10, <1>11, <1>12, <1>14 DEF ListedAs, parsed, t

-----------------------------------------------------------------------------
(* The invariant of status().                                              *)

Steps == {"idle", "exists", "is_dir", "done"} \cup GitCommands

(* The call has got to one of these steps, or has come to its end. *)
Reached(steps) == pc \in steps \/ answer = "status"

GitTypeInv ==
    /\ GitTypeOK
    /\ pc \in Steps
    /\ status \in Statuses
    /\ running => pc \in GitCommands
    /\ answer = "none" <=> pc # "done"

(* A command has seen what nobody touched as it is. *)
SightInv ==
    running =>
        /\ "branch" \notin touched => sight.branch = repository.branch
        /\ "place" \notin touched => sight.place = repository.place
        /\ \A f \in Files \ touched :
              /\ sight.index[f] = repository.index[f]
              /\ pc \in {"porcelain", "diff"} /\ f \notin unseen => sight.work[f] = repository.work[f]

ModifiedSummary(s) == Summary(Cardinality({f \in Files : Modified(s, f)}))
StagedSummary(s) == Summary(Cardinality({f \in Files : Staged(s, f)}))

(* What status() knows after each command is so, of what nobody touched. *)
StatusInv ==
    /\ Reached({"porcelain", "diff", "diff_cached"}) /\ "branch" \notin touched =>
          status.branch = repository.branch
    /\ Reached({"diff", "diff_cached"}) =>
          \A f \in Files \ touched : ListedAs(status, repository, f)
    /\ answer = "none" /\ pc # "diff_cached" => status.statistics = <<>>
    /\ pc = "diff_cached" /\ touched \cap Files = {} =>
          status.statistics = ModifiedSummary(repository)
    /\ answer = "status" /\ touched \cap Files = {} =>
          status.statistics = ModifiedSummary(repository) \o StagedSummary(repository)

(* The commands run in a directory, and after the first of them in a work tree. *)
PlaceInv ==
    /\ Reached({"branch", "porcelain", "diff", "diff_cached"}) /\ "place" \notin touched =>
          repository.place = "work_tree"
    /\ Reached(GitCommands) => git_executable /\ ("root" \notin touched => root = "directory")

GitInv == GitTypeInv /\ SightInv /\ StatusInv /\ PlaceInv

LEMMA RangeOfFiles ==
    ASSUME NEW s \in Seq(Files)
    PROVE  Range(s) \subseteq Files
  BY DEF Range

(* What the lists say of a file depends on that file alone. *)
LEMMA ListedAsIsLocal ==
    ASSUME NEW st, NEW s, NEW r, NEW f, ListedAs(st, s, f),
           s.head[f] = r.head[f], s.index[f] = r.index[f], s.work[f] = r.work[f]
    PROVE  ListedAs(st, r, f)
<1>1. Staged(s, f) = Staged(r, f) /\ Modified(s, f) = Modified(r, f)
      /\ Untracked(s, f) = Untracked(r, f)
  BY DEF Staged, Modified, Untracked
<1> QED
  BY <1>1 DEF ListedAs

(* So do the summaries, of all files. *)
LEMMA SummariesAreLocal ==
    ASSUME NEW s, NEW r,
           \A f \in Files : s.head[f] = r.head[f] /\ s.index[f] = r.index[f]
    PROVE  /\ StagedSummary(s) = StagedSummary(r)
           /\ (\A f \in Files : s.work[f] = r.work[f]) => ModifiedSummary(s) = ModifiedSummary(r)
<1>1. {f \in Files : Staged(s, f)} = {f \in Files : Staged(r, f)}
  BY DEF Staged
<1>2. (\A f \in Files : s.work[f] = r.work[f]) =>
          {f \in Files : Modified(s, f)} = {f \in Files : Modified(r, f)}
  BY DEF Modified
<1> QED
  BY <1>1, <1>2 DEF StagedSummary, ModifiedSummary

(* What a step has not touched is as it was. *)
Touches ==
    /\ touched \subseteq touched'
    /\ root' \in PathKinds /\ repository' \in Snapshots /\ edits' \in 0..MaxEdits
    /\ "root" \notin touched' => root' = root
    /\ "branch" \notin touched' => repository'.branch = repository.branch
    /\ "place" \notin touched' => repository'.place = repository.place
    /\ \A f \in Files \ touched' :
          /\ repository'.head[f] = repository.head[f]
          /\ repository'.index[f] = repository.index[f]
          /\ repository'.work[f] = repository.work[f]

(* A change of another program touches all it changes. *)
LEMMA EditsTouch ==
    ASSUME GitTypeInv, EditWorld
    PROVE  Touches
<1> USE DEF Touches
<1>1. repository \in Snapshots /\ root \in PathKinds /\ edits \in 0..MaxEdits
  BY DEF GitTypeInv, GitTypeOK
<1>2. MaxEdits \in Nat
  BY GitAssumption DEF GitAssumption
<1>3. edits < MaxEdits => edits + 1 \in 0..MaxEdits
  BY <1>1, <1>2
<1>4. ASSUME NEW f \in Files, NEW t \in Texts, WriteFile(f, t) PROVE UNCHANGED root /\
             repository' = [repository EXCEPT !.work[f] = t] /\ touched' = touched \cup {f}
             /\ edits' \in 0..MaxEdits
  BY <1>3, <1>4 DEF WriteFile, Change
<1>5. ASSUME NEW f \in Files, NEW t \in Texts, Stage(f, t) PROVE UNCHANGED root /\
             repository' = [repository EXCEPT !.index[f] = t] /\ touched' = touched \cup {f}
             /\ edits' \in 0..MaxEdits
  BY <1>3, <1>5 DEF Stage, Change
<1>6. CASE \E f \in Files, t \in Texts : WriteFile(f, t)
  BY <1>1, <1>4, <1>6 DEF Snapshots
<1>7. CASE \E f \in Files, t \in Texts : Stage(f, t)
  BY <1>1, <1>5, <1>7 DEF Snapshots
<1>8. CASE Commit
  BY <1>1, <1>3, <1>8 DEF Commit, Change, Snapshots
<1>9. CASE \E b \in Branches \cup {Detached} : SwitchBranch(b)
  BY <1>1, <1>3, <1>9 DEF SwitchBranch, Change, Snapshots
<1>10. CASE \E p \in Places : Move(p)
  BY <1>1, <1>3, <1>10 DEF Move, Change, Snapshots
<1>11. CASE \E k \in PathKinds : MoveRoot(k)
  BY <1>1, <1>3, <1>11 DEF MoveRoot
<1> QED
  BY <1>6, <1>7, <1>8, <1>9, <1>10, <1>11 DEF EditWorld

(* A change of another program preserves the invariant, during the call and after it. *)
LEMMA EditKeepsGitInv ==
    ASSUME GitInv, Touches, UNCHANGED statusVars
    PROVE  GitInv'
<1> USE DEF GitInv, Touches
<1>1. GitTypeInv'
  BY DEF GitTypeInv, GitTypeOK, Statuses, statusVars
<1>2. SightInv'
  BY DEF SightInv, statusVars
<1>3. PlaceInv'
  BY DEF PlaceInv, Reached, statusVars
<1>4. ASSUME NEW f \in Files \ touched', ListedAs(status, repository, f)
      PROVE  ListedAs(status, repository', f)
  BY <1>4, ListedAsIsLocal
<1>5. touched' \cap Files = {} =>
         /\ touched \cap Files = {}
         /\ ModifiedSummary(repository') = ModifiedSummary(repository)
         /\ StagedSummary(repository') = StagedSummary(repository)
  <2> SUFFICES ASSUME touched' \cap Files = {}
               PROVE  /\ ModifiedSummary(repository') = ModifiedSummary(repository)
                      /\ StagedSummary(repository') = StagedSummary(repository)
    OBVIOUS
  <2>1. \A f \in Files : /\ repository'.head[f] = repository.head[f]
                         /\ repository'.index[f] = repository.index[f]
                         /\ repository'.work[f] = repository.work[f]
    OBVIOUS
  <2> QED
    BY <2>1, SummariesAreLocal
<1>6. StatusInv'
  BY <1>4, <1>5 DEF StatusInv, Reached, statusVars, ListedAs, ModifiedSummary, StagedSummary
<1> QED
  BY <1>1, <1>2, <1>3, <1>6

(* The call ends without a status. *)
LEMMA EndKeepsGitInv ==
    ASSUME GitInv, NEW c, NEW how \in {"not_repository", "git_error", "os_error"},
           Answer(c, how), Idle \/ (~ running /\ UNCHANGED commandVars)
    PROVE  GitInv'
<1>1. NoSight \in Snapshots
  BY DEF NoSight, Snapshots, Places, Texts
<1>2. GitTypeInv'
  <2>1. /\ UNCHANGED <<worldVars, git_executable, status>> /\ pc' = "done" /\ answer' = how
    BY DEF Answer, Goto
  <2>2. running' = FALSE /\ sight' \in Snapshots /\ unseen' \subseteq Files
    BY <1>1 DEF GitInv, GitTypeInv, GitTypeOK, Idle, commandVars
  <2> QED
    BY <2>1, <2>2 DEF GitInv, GitTypeInv, GitTypeOK, worldVars, Steps
<1>3. pc' = "done" /\ answer' # "none" /\ answer' # "status" /\ ~ running'
  BY DEF Answer, Goto, Idle, commandVars
<1> QED
  BY <1>2, <1>3 DEF GitInv, SightInv, StatusInv, PlaceInv, Reached, GitCommands

LEMMA LooksKeepGitInv ==
    ASSUME GitInv, Exists \/ IsDir
    PROVE  GitInv'
<1>1. pc \in {"exists", "is_dir"} /\ ~ running /\ pc # "done" /\ UNCHANGED commandVars
  BY DEF Exists, IsDir, Answer, Proceed, Goto, GitInv, GitTypeInv, GitCommands
<1>2. CASE \E c, how : how \in {"not_repository", "git_error", "os_error"} /\ Answer(c, how)
  BY <1>1, <1>2, EndKeepsGitInv
<1>3. CASE Proceed("exists", "is_dir") /\ UNCHANGED status
  BY <1>1, <1>3 DEF Proceed, Goto, commandVars, worldVars, GitInv, GitTypeInv, GitTypeOK, Steps,
        SightInv, StatusInv, PlaceInv, Reached, GitCommands, Statuses
<1>4. CASE /\ Proceed("is_dir", "rev_parse") /\ UNCHANGED status
           /\ root = "directory" /\ git_executable
  BY <1>1, <1>4 DEF Proceed, Goto, commandVars, worldVars, GitInv, GitTypeInv, GitTypeOK, Steps,
        SightInv, StatusInv, PlaceInv, Reached, GitCommands, Statuses
<1>5. root \in PathKinds
  BY DEF GitInv, GitTypeInv, GitTypeOK
<1> QED
  BY <1>2, <1>3, <1>4, <1>5 DEF Exists, IsDir, PathKinds

LEMMA LaunchKeepsGitInv ==
    ASSUME GitInv, NEW c \in GitCommands, Launch(c)
    PROVE  GitInv'
<1>1. /\ pc = c /\ pc' = c /\ UNCHANGED <<worldVars, git_executable, answer, status>>
      /\ running' /\ root = "directory"
      /\ sight' = [repository EXCEPT !.work = NoSight.work, !.head = NoSight.head]
      /\ unseen' = IF c \in {"porcelain", "diff"} THEN Files ELSE {}
  BY DEF Launch, Proceed, Goto
<1>2. NoSight.work \in [Files -> Texts] /\ NoSight.head \in [Files -> Texts]
  BY DEF NoSight, Texts
<1>3. /\ sight' \in Snapshots /\ sight'.index = repository.index
      /\ sight'.branch = repository.branch /\ sight'.place = repository.place
  BY <1>1, <1>2 DEF Snapshots, GitInv, GitTypeInv, GitTypeOK
<1>4. GitTypeInv'
  BY <1>1, <1>3 DEF GitInv, GitTypeInv, GitTypeOK, worldVars, Launch
<1>5. SightInv'
  BY <1>1, <1>3 DEF SightInv, worldVars
<1>6. StatusInv' /\ PlaceInv'
  BY <1>1 DEF GitInv, StatusInv, PlaceInv, Reached, worldVars, ListedAs, ModifiedSummary, StagedSummary
<1> QED
  BY <1>4, <1>5, <1>6 DEF GitInv

LEMMA LookKeepsGitInv ==
    ASSUME GitInv, NEW f \in Files, Look(f)
    PROVE  GitInv'
<1>1. /\ UNCHANGED <<worldVars, git_executable, pc, running, status, answer>>
      /\ unseen' = unseen \ {f}
      /\ sight' = [sight EXCEPT !.work[f] = repository.work[f]]
  BY DEF Look
<1>2. sight \in Snapshots /\ repository \in Snapshots
  BY DEF GitInv, GitTypeInv, GitTypeOK
<1>3. /\ sight' \in Snapshots /\ sight'.index = sight.index
      /\ sight'.branch = sight.branch /\ sight'.place = sight.place
      /\ \A g \in Files : sight'.work[g] = IF g = f THEN repository.work[f] ELSE sight.work[g]
  BY <1>1, <1>2 DEF Snapshots
<1>4. GitTypeInv'
  BY <1>1, <1>3 DEF GitInv, GitTypeInv, GitTypeOK, worldVars
<1>5. SightInv'
  BY <1>1, <1>3 DEF GitInv, SightInv, worldVars
<1>6. StatusInv' /\ PlaceInv'
  BY <1>1 DEF GitInv, StatusInv, PlaceInv, Reached, worldVars, ListedAs, ModifiedSummary, StagedSummary
<1> QED
  BY <1>4, <1>5, <1>6 DEF GitInv

(***************************************************************************)
(* The text of a command that ends well and is not rejected is all it      *)
(* printed: no part of it was cut off, whatever the limit.                 *)
(***************************************************************************)
LEMMA KeptIsWhole ==
    ASSUME NEW c \in GitCommands, NEW T, NEW text \in Seq(T), NEW r \in LegalResults,
           r.stdout = Cut(Len(text) * PartSize(c)), ~ r.stdout.truncated
    PROVE  KeptParts(c, text, r) = text
<1> DEFINE p == PartSize(c)
           n == Len(text)
<1>1. p \in Nat /\ p > 0 /\ n \in Nat
  BY GitAssumption DEF GitAssumption, PartSize, GitCommands
<1> HIDE DEF p, n
<1>2. n * p \in Nat
  BY <1>1
<1>3. r.stdout.bytes = n * p
  BY <1>2 DEF Cut, p, n
<1>4. (n * p) \div p = n
  BY <1>1
<1>5. SubSeq(text, 1, n) = text
  BY SubSeqFull DEF n
<1> QED
  BY <1>3, <1>4, <1>5 DEF KeptParts, p, n

(* rev-parse has said that this is a work tree only if it is one. *)
LEMMA AnswerIsTrue ==
    ASSUME NEW s, NEW r \in LegalResults, KeptParts("rev_parse", Printed("rev_parse", s), r) = <<TRUE>>
    PROVE  s.place = "work_tree"
<1> DEFINE k == r.stdout.bytes \div AnswerSize
           b == s.place = "work_tree"
<1>1. r.stdout.bytes \in Nat /\ AnswerSize \in Nat /\ AnswerSize > 0
  BY GitAssumption DEF LegalResults, Results, Captured, GitAssumption
<1>2. k \in Nat
  BY <1>1
<1>3. SubSeq(<<b>>, 1, k) = <<TRUE>>
  BY DEF KeptParts, Printed, PartSize
<1> HIDE DEF k
<1>4. k = 1
  <2>1. Len(SubSeq(<<b>>, 1, k)) = k
    BY <1>2
  <2> QED
    BY <1>3, <2>1
<1>5. b \in BOOLEAN
  OBVIOUS
<1>6. b = TRUE
  <2> HIDE DEF b
  <2>1. <<b>> \in Seq(BOOLEAN) /\ Len(<<b>>) = 1
    BY <1>5
  <2>2. SubSeq(<<b>>, 1, 1) = <<b>>
    BY <2>1, SubSeqFull
  <2>3. <<b>> = <<TRUE>>
    BY <1>3, <1>4, <2>2
  <2>4. <<b>>[1] = b /\ <<TRUE>>[1] = TRUE
    OBVIOUS
  <2> QED
    BY <2>3, <2>4
<1> QED
  BY <1>6

(* What a command prints has the type of its parts. *)
LEMMA PrintedType ==
    ASSUME NEW s \in Snapshots
    PROVE  /\ Printed("branch", s) \in Seq(Branches)
           /\ Printed("porcelain", s) \in Seq(PorcelainLines)
           /\ Printed("diff", s) = ModifiedSummary(s) /\ Printed("diff", s) \in Seq(Nat)
           /\ Printed("diff_cached", s) = StagedSummary(s) /\ Printed("diff_cached", s) \in Seq(Nat)
<1>1. Printed("branch", s) \in Seq(Branches)
  BY DEF Printed, Snapshots
<1>2. Printed("porcelain", s) \in Seq(PorcelainLines)
  BY PorcelainProperties DEF Printed
<1>3. /\ Cardinality({f \in Files : Modified(s, f)}) \in Nat
      /\ Cardinality({f \in Files : Staged(s, f)}) \in Nat
  <2>1. /\ {f \in Files : Modified(s, f)} \in SUBSET Files
        /\ {f \in Files : Staged(s, f)} \in SUBSET Files
    OBVIOUS
  <2>2. /\ IsFiniteSet({f \in Files : Modified(s, f)})
        /\ IsFiniteSet({f \in Files : Staged(s, f)})
    BY <2>1, GitAssumption, FS_Subset DEF GitAssumption
  <2> QED
    BY <2>2, FS_CardinalityType
<1> QED
  BY <1>1, <1>2, <1>3 DEF Printed, Summary, ModifiedSummary, StagedSummary

(***************************************************************************)
(* A command whose output is taken has ended well and printed all of it,   *)
(* having looked at every file.                                            *)
(***************************************************************************)
LEMMA TakenIsWhole ==
    ASSUME GitInv, NEW c \in GitCommands \ {"rev_parse"}, NEW s \in Snapshots,
           NEW r \in LegalResults, NEW zero \in BOOLEAN, ~ Rejected(r, zero),
           zero => r.stdout = Cut(Len(Printed(c, s)) * PartSize(c))
    PROVE  zero /\ KeptParts(c, Printed(c, s), r) = Printed(c, s)
<1>1. zero /\ ~ r.stdout.truncated
  BY DEF Rejected
<1>2. \E T : Printed(c, s) \in Seq(T)
  BY PrintedType DEF GitCommands
<1> QED
  BY <1>1, <1>2, KeptIsWhole

AtEnd == [sight EXCEPT !.head = repository.head]

(* When a command ends, what it has read of an untouched file is what is there. *)
LEMMA SightAtEnd ==
    ASSUME GitInv, running
    PROVE  /\ AtEnd \in Snapshots
           /\ "branch" \notin touched => AtEnd.branch = repository.branch
           /\ "place" \notin touched => AtEnd.place = repository.place
           /\ \A f \in Files \ touched :
                 /\ AtEnd.head[f] = repository.head[f] /\ AtEnd.index[f] = repository.index[f]
                 /\ pc \in {"porcelain", "diff"} /\ unseen = {} => AtEnd.work[f] = repository.work[f]
<1>1. sight \in Snapshots /\ repository \in Snapshots
  BY DEF GitInv, GitTypeInv, GitTypeOK
<1>2. /\ AtEnd \in Snapshots /\ AtEnd.head = repository.head /\ AtEnd.index = sight.index
      /\ AtEnd.work = sight.work /\ AtEnd.branch = sight.branch /\ AtEnd.place = sight.place
  BY <1>1 DEF AtEnd, Snapshots
<1> QED
  BY <1>2 DEF GitInv, SightInv

LEMMA AnswerKeepsGitInv ==
    ASSUME GitInv, Returns("rev_parse")
    PROVE  GitInv'
<1>1. PICK r \in LegalResults, zero \in BOOLEAN :
         AnswerReceived(KeptParts("rev_parse", Printed("rev_parse", AtEnd), r), r, zero)
  BY DEF Returns, AtEnd
<1>2. pc = "rev_parse" /\ running /\ Idle
  BY DEF Returns
<1>3. CASE \E how : how \in {"not_repository", "git_error", "os_error"} /\ Answer("rev_parse", how)
  BY <1>2, <1>3, EndKeepsGitInv
<1>4. CASE /\ KeptParts("rev_parse", Printed("rev_parse", AtEnd), r) = <<TRUE>>
           /\ Proceed("rev_parse", "branch") /\ UNCHANGED status
  <2>1. AtEnd.place = "work_tree"
    BY <1>4, AnswerIsTrue
  <2>2. "place" \notin touched => repository.place = "work_tree"
    BY <1>2, <2>1, SightAtEnd
  <2>3. /\ UNCHANGED <<worldVars, git_executable, answer, status>>
        /\ pc' = "branch" /\ running' = FALSE /\ sight' = NoSight /\ unseen' = {}
    BY <1>2, <1>4 DEF Proceed, Goto, Idle
  <2>4. NoSight \in Snapshots
    BY DEF NoSight, Snapshots, Places, Texts
  <2>5. GitTypeInv'
    BY <1>2, <2>3, <2>4 DEF GitInv, GitTypeInv, GitTypeOK, worldVars, Steps, GitCommands
  <2>6. SightInv'
    BY <2>3 DEF SightInv
  <2>7. StatusInv'
    BY <1>2, <2>3 DEF GitInv, GitTypeInv, StatusInv, Reached, worldVars
  <2>8. PlaceInv'
    BY <1>2, <2>2, <2>3 DEF GitInv, PlaceInv, Reached, worldVars, GitCommands
  <2> QED
    BY <2>5, <2>6, <2>7, <2>8 DEF GitInv
<1> QED
  BY <1>1, <1>3, <1>4 DEF AnswerReceived

LEMMA TextKeepsGitInv ==
    ASSUME GitInv, NEW c \in GitCommands \ {"rev_parse"}, Returns(c)
    PROVE  GitInv'
<1> DEFINE text == Printed(c, AtEnd)
<1>1. PICK r \in LegalResults, zero \in BOOLEAN :
         /\ zero => /\ unseen = {}
                    /\ r.stdout = Cut(Len(text) * PartSize(c))
         /\ TextReceived(c, KeptParts(c, text, r), r, zero)
  BY DEF Returns, AtEnd
<1>2. /\ pc = c /\ running /\ Idle /\ answer = "none" /\ c # "done"
      /\ status \in Statuses /\ repository \in Snapshots
  BY DEF Returns, GitInv, GitTypeInv, GitTypeOK, GitCommands
<1>3. CASE Rejected(r, zero)
  BY <1>1, <1>2, <1>3, EndKeepsGitInv DEF TextReceived
<1>4. CASE ~ Rejected(r, zero)
  <2>1. AtEnd \in Snapshots
    BY <1>2, SightAtEnd
  <2>2. zero /\ KeptParts(c, text, r) = text /\ unseen = {}
    BY <1>1, <1>4, <2>1, TakenIsWhole
  <2> HIDE DEF text
  <2>3. /\ status' = Noted(c, text)
        /\ IF c = "diff_cached" THEN Goto(c, "done") /\ answer' = "status"
           ELSE Proceed(c, Following[c])
    BY <1>1, <1>4, <2>2 DEF TextReceived
  <2>4. /\ UNCHANGED <<worldVars, git_executable>>
        /\ running' = FALSE /\ sight' = NoSight /\ unseen' = {}
    BY <1>2, <2>3 DEF Proceed, Goto, Idle
  <2>5. \/ c = "branch" /\ pc' = "porcelain" /\ answer' = "none"
        \/ c = "porcelain" /\ pc' = "diff" /\ answer' = "none"
        \/ c = "diff" /\ pc' = "diff_cached" /\ answer' = "none"
        \/ c = "diff_cached" /\ pc' = "done" /\ answer' = "status"
    BY <1>2, <2>3 DEF Proceed, Goto, Following, GitCommands
  <2>6. NoSight \in Snapshots
    BY DEF NoSight, Snapshots, Places, Texts
  <2>7. SightInv'
    BY <2>4 DEF SightInv
  <2>8. PlaceInv'
    BY <1>2, <2>4, <2>5 DEF GitInv, PlaceInv, Reached, worldVars, GitCommands
  <2>9. ASSUME status' \in Statuses PROVE GitTypeInv'
    <3>1. status'.branch \in Branches \cup {Detached} /\
          {Range(status'.staged), Range(status'.modified), Range(status'.untracked)} \subseteq SUBSET Files
      BY <2>9, RangeOfFiles DEF Statuses
    <3> QED
      BY <2>4, <2>5, <2>6, <2>9, <3>1 DEF GitInv, GitTypeInv, GitTypeOK, worldVars, Steps, GitCommands
  <2>10. CASE c = "branch"
    <3>1. text = IF AtEnd.branch = Detached THEN <<>> ELSE <<AtEnd.branch>>
      BY <2>10 DEF text, Printed
    <3>2. status' = [status EXCEPT !.branch = AtEnd.branch]
      BY <2>3, <2>10, <3>1 DEF Noted
    <3>3. /\ status' \in Statuses /\ status'.branch = AtEnd.branch
          /\ status'.statistics = status.statistics
      BY <1>2, <2>1, <3>2 DEF Statuses, Snapshots
    <3>4. StatusInv'
      BY <1>2, <2>4, <2>5, <2>10, <3>3, SightAtEnd DEF GitInv, StatusInv, Reached, worldVars
    <3> QED
      BY <2>7, <2>8, <2>9, <3>3, <3>4 DEF GitInv
  <2>11. CASE c = "porcelain"
    <3>1. status' = Parse(Porcelain(AtEnd))
      BY <2>3, <2>11 DEF Noted, text, Printed
    <3>2. /\ status' \in Statuses
          /\ status'.branch = status.branch /\ status'.statistics = status.statistics
          /\ \A f \in Files : ListedAs(status', AtEnd, f)
      BY <1>2, <2>1, <3>1, ParseIsExact
    <3>3. ASSUME NEW f \in Files \ touched PROVE ListedAs(status', repository, f)
      <4>1. /\ AtEnd.head[f] = repository.head[f] /\ AtEnd.index[f] = repository.index[f]
            /\ AtEnd.work[f] = repository.work[f]
        BY <1>2, <2>2, <2>11, SightAtEnd
      <4> QED
        BY <3>2, <4>1, ListedAsIsLocal
    <3>4. StatusInv'
      BY <1>2, <2>4, <2>5, <2>11, <3>2, <3>3 DEF GitInv, StatusInv, Reached, worldVars, ListedAs
    <3> QED
      BY <2>7, <2>8, <2>9, <3>2, <3>4 DEF GitInv
  <2>12. CASE c = "diff"
    <3>1. text = ModifiedSummary(AtEnd) /\ text \in Seq(Nat)
      BY <2>1, <2>12, PrintedType DEF text
    <3>2. status' = [status EXCEPT !.statistics = status.statistics \o text]
      BY <2>3, <2>12 DEF Noted
    <3>3. status.statistics = <<>>
      BY <1>2, <2>12 DEF GitInv, StatusInv
    <3>4. status.statistics \o text = text
      BY <3>1, <3>3, ConcatEmptySeq
    <3>5. /\ status' \in Statuses /\ status'.statistics = text
          /\ status'.branch = status.branch /\ status'.staged = status.staged
          /\ status'.modified = status.modified /\ status'.untracked = status.untracked
      BY <1>2, <3>1, <3>2, <3>4 DEF Statuses
    <3>6. touched \cap Files = {} => text = ModifiedSummary(repository)
      <4> SUFFICES ASSUME touched \cap Files = {} PROVE ModifiedSummary(AtEnd) = ModifiedSummary(repository)
        BY <3>1
      <4>1. \A f \in Files : /\ AtEnd.head[f] = repository.head[f]
                             /\ AtEnd.index[f] = repository.index[f]
                             /\ AtEnd.work[f] = repository.work[f]
        BY <1>2, <2>2, <2>12, SightAtEnd
      <4> QED
        BY <4>1, SummariesAreLocal
    <3>7. StatusInv'
      BY <1>2, <2>4, <2>5, <2>12, <3>5, <3>6
         DEF GitInv, StatusInv, Reached, worldVars, ListedAs, ModifiedSummary
    <3> QED
      BY <2>7, <2>8, <2>9, <3>5, <3>7 DEF GitInv
  <2>13. CASE c = "diff_cached"
    <3>1. text = StagedSummary(AtEnd) /\ text \in Seq(Nat)
      BY <2>1, <2>13, PrintedType DEF text
    <3>2. status' = [status EXCEPT !.statistics = status.statistics \o text]
      BY <2>3, <2>13 DEF Noted
    <3>3. /\ status' \in Statuses /\ status'.statistics = status.statistics \o text
          /\ status'.branch = status.branch /\ status'.staged = status.staged
          /\ status'.modified = status.modified /\ status'.untracked = status.untracked
      BY <1>2, <3>1, <3>2, ConcatProperties DEF Statuses
    <3>4. touched \cap Files = {} => text = StagedSummary(repository)
      <4> SUFFICES ASSUME touched \cap Files = {} PROVE StagedSummary(AtEnd) = StagedSummary(repository)
        BY <3>1
      <4>1. \A f \in Files : /\ AtEnd.head[f] = repository.head[f]
                             /\ AtEnd.index[f] = repository.index[f]
        BY <1>2, SightAtEnd
      <4> QED
        BY <4>1, SummariesAreLocal
    <3>5. StatusInv'
      BY <1>2, <2>4, <2>5, <2>13, <3>3, <3>4
         DEF GitInv, StatusInv, Reached, worldVars, ListedAs, ModifiedSummary, StagedSummary
    <3> QED
      BY <2>7, <2>8, <2>9, <3>3, <3>5 DEF GitInv
  <2> QED
    BY <2>10, <2>11, <2>12, <2>13 DEF GitCommands
<1> QED
  BY <1>3, <1>4

(* A step of status() preserves the invariant. *)
LEMMA StatusKeepsGitInv ==
    ASSUME GitInv, Status
    PROVE  GitInv'
<1>1. CASE Exists \/ IsDir
  BY <1>1, LooksKeepGitInv
<1>2. CASE \E c \in GitCommands : Launch(c)
  BY <1>2, LaunchKeepsGitInv
<1>3. CASE \E c \in GitCommands : CommandRaises(c)
  BY <1>3, EndKeepsGitInv DEF CommandRaises
<1>4. CASE \E c \in GitCommands : Returns(c)
  BY <1>4, AnswerKeepsGitInv, TextKeepsGitInv
<1>5. CASE \E f \in Files : Look(f)
  BY <1>5, LookKeepsGitInv
<1> QED
  BY <1>1, <1>2, <1>3, <1>4, <1>5 DEF Status

(* The invariant says of a call that has its status what the properties say. *)
LEMMA GitInvImplies ==
    ASSUME GitInv
    PROVE  GitTypeOK /\ StableFilesAreExact /\ StableSummaryIsExact
  BY DEF GitInv, GitTypeInv, StatusInv, Reached, ListedAs, ModifiedSummary, StagedSummary,
         StableFilesAreExact, StableSummaryIsExact

-----------------------------------------------------------------------------
(* The invariant of a diagnosis.                                           *)

RootSteps == {"root_exists", "root_is_dir", "root_readable", "probe_root", "unprobe_root"}
ArtifactSteps == {"artifacts_exist", "artifacts_is_dir", "probe_artifacts", "unprobe_artifacts"}
DiagnosisSteps == RootSteps \cup ArtifactSteps \cup {"executables", "git", "tool", "done", "raised"}

Topics ==
    {<<"root">>, <<"artifacts">>, <<"git">>} \cup {<<"executable", e>> : e \in Executables}

Findings ==
    [topic : Topics, severity : Severities,
     verdict : {"missing", "not_directory", "readable", "unreadable", "not_writable", "unavailable",
                "writable", "available", "not_on_path", "failed", "not_repository"}
               \cup Branches \cup {Detached}]

DiagnosisTypeInv ==
    /\ TypeOK
    /\ step \in DiagnosisSteps
    /\ findings \in Seq(Findings)

(* Until the repository is looked at, status() has not begun. *)
PhaseInv ==
    /\ step \in RootSteps \cup ArtifactSteps \cup {"executables"} => pc = "idle"
    /\ step \in RootSteps \cup ArtifactSteps => unchecked = Executables
    /\ step \in {"git", "done"} => unchecked = {}
    /\ step = "git" /\ Untouched({"path"}) /\ git_executable => "git" \in machine.on_path

(* The findings there may be at each step: of what has not been looked at there is none. *)
Possible ==
    {finding \in Findings :
        /\ step \notin {"root_exists", "root_is_dir", "root_readable", "tool"}
        /\ step \in {"probe_root", "unprobe_root"} =>
              finding.topic = <<"root">> /\ finding.verdict # "not_writable"
        /\ step \in ArtifactSteps => finding.topic = <<"root">>
        /\ step = "executables" => finding.topic # <<"git">>
        /\ finding.topic = <<"git">> => step = "done" \/ step = "raised"
        /\ \A e \in unchecked : finding.topic # <<"executable", e>>}

TopicInv ==
    /\ \A i, j \in DOMAIN findings : findings[i] = findings[j] => i = j
    /\ Range(findings) \subseteq Possible

RootReadVerdict ==
    IF machine.readable THEN Finding(<<"root">>, "info", "readable")
    ELSE Finding(<<"root">>, "error", "unreadable")

RootVerdictInv ==
    Untouched({"root", "rights"}) =>
        /\ step = "root_is_dir" => root \in {"file", "directory"}
        /\ step \in {"root_readable", "probe_root", "unprobe_root"} => root = "directory"
        /\ step \in {"probe_root", "unprobe_root"} =>
              ~ read_only_mode /\ Verdicts(<<"root">>) = {RootReadVerdict}
        /\ step = "unprobe_root" => "root" \in machine.writable /\ "root" \in probes
        /\ step \in ArtifactSteps \cup {"executables", "git", "done"} =>
              root # "denied" /\ Verdicts(<<"root">>) = RootVerdicts

ArtifactVerdictInv ==
    Untouched({"artifacts", "rights"}) =>
        /\ step = "artifacts_is_dir" => machine.artifacts \in {"file", "directory"}
        /\ step \in {"probe_artifacts", "unprobe_artifacts"} => machine.artifacts = "directory"
        /\ step = "unprobe_artifacts" => "artifacts" \in machine.writable /\ "artifacts" \in probes
        /\ step \in {"executables", "git", "done"} =>
              machine.artifacts # "denied" /\ Verdicts(<<"artifacts">>) = {ArtifactVerdict}

ExecutableVerdictInv ==
    Untouched({"path"}) /\ step \in {"executables", "git", "done"} =>
        \A e \in Executables \ unchecked : Verdicts(<<"executable", e>>) = {ExecutableVerdict(e)}

GitVerdictInv ==
    \A finding \in Verdicts(<<"git">>) :
        Untouched({"root", "path", "place"}) /\ finding.severity = "info" =>
            root = "directory" /\ "git" \in machine.on_path /\ repository.place = "work_tree"

ProbeInv ==
    Untouched({"root", "artifacts", "rights"}) =>
        probes = CASE step = "unprobe_root" -> {"root"}
                   [] step = "unprobe_artifacts" -> {"artifacts"}
                   [] OTHER -> {}

VerdictInv ==
    /\ RootVerdictInv
    /\ ArtifactVerdictInv
    /\ ExecutableVerdictInv
    /\ GitVerdictInv

DiagnosisInv ==
    /\ GitInv
    /\ DiagnosisTypeInv
    /\ PhaseInv
    /\ TopicInv
    /\ VerdictInv
    /\ ProbeInv

(* A finding is added: its topic has one verdict more, the other topics none. *)
LEMMA FindAdds ==
    ASSUME findings \in Seq(Findings), NEW x \in Findings, findings' = Append(findings, x)
    PROVE  /\ findings' \in Seq(Findings)
           /\ Range(findings') = Range(findings) \cup {x}
           /\ \A t : Verdicts(t)' = IF x.topic = t THEN Verdicts(t) \cup {x} ELSE Verdicts(t)
           /\ \A i \in DOMAIN findings' :
                 findings'[i] = x \/ (i \in DOMAIN findings /\ findings'[i] = findings[i])
           /\ /\ \A i \in DOMAIN findings : findings[i] # x
              /\ \A i, j \in DOMAIN findings : findings[i] = findings[j] => i = j
              => \A i, j \in DOMAIN findings' : findings'[i] = findings'[j] => i = j
<1> DEFINE n == Len(findings)
<1>1. /\ n \in Nat /\ DOMAIN findings = 1..n /\ DOMAIN findings' = 1..(n + 1)
      /\ findings' \in Seq(Findings)
      /\ \A i \in 1..n : findings'[i] = findings[i]
      /\ findings'[n + 1] = x
  BY AppendProperties
<1> HIDE DEF n
<1>2. \A i \in 1..(n + 1) : i \in 1..n \/ i = n + 1
  BY <1>1
<1>3. n + 1 \in 1..(n + 1) /\ \A i \in 1..n : i \in 1..(n + 1) /\ i # n + 1
  BY <1>1
<1>4. Range(findings') = Range(findings) \cup {x}
  BY <1>1, <1>2, <1>3 DEF Range
<1>5. \A t : Verdicts(t)' = IF x.topic = t THEN Verdicts(t) \cup {x} ELSE Verdicts(t)
  BY <1>4 DEF Verdicts
<1>6. ASSUME \A i \in DOMAIN findings : findings[i] # x,
             \A i, j \in DOMAIN findings : findings[i] = findings[j] => i = j,
             NEW i \in DOMAIN findings', NEW j \in DOMAIN findings', findings'[i] = findings'[j]
      PROVE  i = j
  BY <1>1, <1>2, <1>6
<1> QED
  BY <1>1, <1>2, <1>4, <1>5, <1>6

(* The topics are told apart. *)
LEMMA TopicsDiffer ==
    /\ <<"root">> # <<"artifacts">> /\ <<"root">> # <<"git">> /\ <<"artifacts">> # <<"git">>
    /\ \A e : /\ <<"executable", e>> # <<"root">> /\ <<"executable", e>> # <<"artifacts">>
              /\ <<"executable", e>> # <<"git">>
    /\ \A e, f : <<"executable", e>> = <<"executable", f>> => e = f
  OBVIOUS

(* What there is no finding about yet has no verdict. *)
LEMMA NotLooked ==
    ASSUME TopicInv, NEW t, \A finding \in Possible : finding.topic # t
    PROVE  Verdicts(t) = {}
  BY DEF TopicInv, Verdicts

(* Steps that look at the world and leave it alone. *)
Looks == UNCHANGED <<worldVars, statusVars, read_only_mode, machine>>

LEMMA LooksKeepGit ==
    ASSUME GitInv, UNCHANGED <<worldVars, statusVars>>
    PROVE  GitInv'
<1>1. GitTypeInv'
  BY DEF GitInv, GitTypeInv, GitTypeOK, worldVars, statusVars
<1>2. SightInv'
  BY DEF GitInv, SightInv, worldVars, statusVars
<1>3. StatusInv'
  BY DEF GitInv, StatusInv, Reached, ListedAs, ModifiedSummary, StagedSummary, worldVars, statusVars
<1>4. PlaceInv'
  BY DEF GitInv, PlaceInv, Reached, worldVars, statusVars
<1> QED
  BY <1>1, <1>2, <1>3, <1>4 DEF GitInv

(* A diagnosis that ends with an exception. *)
LEMMA RaiseKeepsInv ==
    ASSUME DiagnosisInv, Raise, Looks, UNCHANGED <<unchecked, probes>>,
           step \notin {"unprobe_root", "unprobe_artifacts", "tool"}
    PROVE  DiagnosisInv'
<1>1. step' = "raised" /\ UNCHANGED findings
  BY DEF Raise, Continue
<1>2. GitInv'
  BY LooksKeepGit DEF DiagnosisInv, Looks
<1>3. DiagnosisTypeInv'
  BY <1>1, <1>2 DEF DiagnosisInv, DiagnosisTypeInv, TypeOK, GitInv, GitTypeInv, Looks, DiagnosisSteps
<1>4. PhaseInv'
  BY <1>1 DEF PhaseInv, RootSteps, ArtifactSteps
<1>5. TopicInv'
  <2>1. Possible \subseteq Possible'
    BY <1>1 DEF Possible, ArtifactSteps
  <2> QED
    BY <1>1, <2>1 DEF DiagnosisInv, TopicInv
<1>6. VerdictInv'
  BY <1>1 DEF DiagnosisInv, VerdictInv, RootVerdictInv, ArtifactVerdictInv, ExecutableVerdictInv,
        GitVerdictInv, RootSteps, ArtifactSteps, Looks, worldVars, Untouched, Verdicts
<1>7. ProbeInv'
  BY <1>1 DEF DiagnosisInv, ProbeInv, Looks, worldVars, Untouched
<1> QED
  BY <1>2, <1>3, <1>4, <1>5, <1>6, <1>7 DEF DiagnosisInv

(* Types, and what status() knows, in a step that goes on or adds a finding. *)
LEMMA ContinueKeepsTypes ==
    ASSUME DiagnosisInv, NEW to \in DiagnosisSteps \ {"git"}, Continue(to), Looks,
           unchecked' \subseteq Executables, probes' \subseteq Directories
    PROVE  GitInv' /\ DiagnosisTypeInv'
<1>1. GitInv'
  BY LooksKeepGit DEF DiagnosisInv, Looks
<1> QED
  BY <1>1 DEF Continue, DiagnosisInv, DiagnosisTypeInv, TypeOK, GitInv, GitTypeInv, Looks

LEMMA FindKeepsTypes ==
    ASSUME DiagnosisInv, NEW to \in DiagnosisSteps \ {"git"}, NEW x \in Findings, Find(x, to), Looks,
           unchecked' \subseteq Executables, probes' \subseteq Directories
    PROVE  GitInv' /\ DiagnosisTypeInv'
<1>1. GitInv'
  BY LooksKeepGit DEF DiagnosisInv, Looks
<1>2. findings \in Seq(Findings)
  BY DEF DiagnosisInv, DiagnosisTypeInv
<1>3. findings' \in Seq(Findings)
  BY <1>2, FindAdds DEF Find
<1>4. \A i \in DOMAIN findings' : findings'[i].severity \in Severities
  <2>1. \A i \in DOMAIN findings' : findings'[i] \in Findings
    BY <1>3, LenProperties, ElementOfSeq
  <2> QED
    BY <2>1 DEF Findings
<1> QED
  BY <1>1, <1>3, <1>4 DEF Find, DiagnosisInv, DiagnosisTypeInv, TypeOK, GitInv, GitTypeInv, Looks

LEMMA FindKeepsTopics ==
    ASSUME DiagnosisInv, NEW x \in Findings, NEW to, Find(x, to),
           x \notin Possible, Possible \subseteq Possible', x \in Possible'
    PROVE  TopicInv'
<1>1. findings \in Seq(Findings) /\ TopicInv
  BY DEF DiagnosisInv, DiagnosisTypeInv
<1>2. \A i \in DOMAIN findings : findings[i] # x
  BY <1>1 DEF TopicInv, Range
<1>3. /\ Range(findings') = Range(findings) \cup {x}
      /\ \A i, j \in DOMAIN findings' : findings'[i] = findings'[j] => i = j
  BY <1>1, <1>2, FindAdds DEF Find, TopicInv
<1> QED
  BY <1>1, <1>3 DEF TopicInv

LEMMA ContinueKeepsTopics ==
    ASSUME DiagnosisInv, NEW to, Continue(to), Possible \subseteq Possible'
    PROVE  TopicInv'
  BY DEF DiagnosisInv, TopicInv, Continue

(* The verdicts after a finding was added. *)
LEMMA FindVerdicts ==
    ASSUME DiagnosisInv, NEW x \in Findings, NEW to, Find(x, to)
    PROVE  \A t : Verdicts(t)' = IF x.topic = t THEN Verdicts(t) \cup {x} ELSE Verdicts(t)
  BY FindAdds DEF Find, DiagnosisInv, DiagnosisTypeInv

LEMMA FindingType ==
    /\ \A d \in Directories, v \in {"missing", "not_directory", "readable", "unreadable",
          "not_writable", "unavailable", "writable"}, s \in Severities : Finding(<<d>>, s, v) \in Findings
    /\ \A e \in Executables, v \in {"available", "not_on_path"}, s \in Severities :
          Finding(<<"executable", e>>, s, v) \in Findings
    /\ \A v \in {"failed", "not_repository"} \cup Branches \cup {Detached}, s \in Severities :
          Finding(<<"git">>, s, v) \in Findings
    /\ \A t, s, v : /\ Finding(t, s, v).topic = t /\ Finding(t, s, v).severity = s
                    /\ Finding(t, s, v).verdict = v
  BY DEF Directories, Finding, Findings, Topics

LEMMA RootExistsKeepsInv ==
    ASSUME DiagnosisInv, RootExists
    PROVE  DiagnosisInv'
<1>1. step = "root_exists" /\ Looks /\ UNCHANGED <<unchecked, probes>>
  BY DEF RootExists, At, Looks
<1>2. CASE root = "denied" /\ Raise
  BY <1>1, <1>2, RaiseKeepsInv
<1>3. CASE root = "missing" /\ Find(Finding(<<"root">>, "error", "missing"), "artifacts_exist")
  <2> DEFINE x == Finding(<<"root">>, "error", "missing")
  <2>1. x \in Findings /\ x.topic = <<"root">>
    BY FindingType DEF Directories, Severities
  <2> HIDE DEF x
  <2>2. step' = "artifacts_exist"
    BY <1>3 DEF Find
  <2>3. GitInv' /\ DiagnosisTypeInv'
    BY <1>1, <1>3, <2>1, FindKeepsTypes
       DEF x, DiagnosisInv, DiagnosisTypeInv, TypeOK, DiagnosisSteps, ArtifactSteps
  <2>4. PhaseInv'
    BY <1>1, <2>2 DEF DiagnosisInv, PhaseInv, RootSteps, ArtifactSteps, Looks, statusVars
  <2>5. Possible = {}
    BY <1>1 DEF Possible
  <2>6. TopicInv'
    <3>1. x \in Possible'
      BY <2>1, <2>2, TopicsDiffer DEF Possible, ArtifactSteps
    <3> QED
      BY <1>3, <2>1, <2>5, <3>1, FindKeepsTopics DEF x
  <2>7. Verdicts(<<"root">>) = {}
    BY <2>5, NotLooked DEF DiagnosisInv
  <2>8. Verdicts(<<"root">>)' = {x}
    BY <1>3, <2>1, <2>7, FindVerdicts DEF x
  <2>9. RootVerdictInv'
    BY <1>1, <1>3, <2>2, <2>8 DEF RootVerdictInv, RootVerdicts, x, ArtifactSteps, Looks, worldVars
  <2>10. Verdicts(<<"git">>)' = {}
    BY <1>3, <2>1, <2>5, FindVerdicts, NotLooked, TopicsDiffer DEF DiagnosisInv, x
  <2>11. ArtifactVerdictInv' /\ ExecutableVerdictInv' /\ GitVerdictInv'
    BY <2>2, <2>10 DEF ArtifactVerdictInv, ExecutableVerdictInv, GitVerdictInv
  <2>12. ProbeInv'
    BY <1>1, <2>2 DEF DiagnosisInv, ProbeInv, Looks, worldVars, Untouched
  <2> QED
    BY <2>3, <2>4, <2>6, <2>9, <2>11, <2>12 DEF DiagnosisInv, VerdictInv
<1>4. CASE root \in {"file", "directory"} /\ Continue("root_is_dir")
  <2>1. step' = "root_is_dir" /\ UNCHANGED findings
    BY <1>4 DEF Continue
  <2>2. GitInv' /\ DiagnosisTypeInv'
    BY <1>1, <1>4, ContinueKeepsTypes
       DEF DiagnosisInv, DiagnosisTypeInv, TypeOK, DiagnosisSteps, RootSteps
  <2>3. PhaseInv'
    BY <1>1, <2>1 DEF DiagnosisInv, PhaseInv, RootSteps, ArtifactSteps, Looks, statusVars
  <2>4. TopicInv'
    <3>1. Possible = {}
      BY <1>1 DEF Possible
    <3> QED
      BY <1>4, <3>1, ContinueKeepsTopics
  <2>5. VerdictInv'
    BY <1>1, <1>4, <2>1 DEF DiagnosisInv, VerdictInv, RootVerdictInv, ArtifactVerdictInv,
          ExecutableVerdictInv, GitVerdictInv, ArtifactSteps, Looks, worldVars, Verdicts, Untouched
  <2>6. ProbeInv'
    BY <1>1, <2>1 DEF DiagnosisInv, ProbeInv, Looks, worldVars, Untouched
  <2> QED
    BY <2>2, <2>3, <2>4, <2>5, <2>6 DEF DiagnosisInv
<1>5. root \in PathKinds
  BY DEF DiagnosisInv, GitInv, GitTypeInv, GitTypeOK
<1> QED
  BY <1>2, <1>3, <1>4, <1>5 DEF RootExists, PathKinds

LEMMA RootIsDirKeepsInv ==
    ASSUME DiagnosisInv, RootIsDir
    PROVE  DiagnosisInv'
<1>1. step = "root_is_dir" /\ Looks /\ UNCHANGED <<unchecked, probes>>
  BY DEF RootIsDir, At, Looks
<1>2. Possible = {}
  BY <1>1 DEF Possible
<1>3. unchecked \subseteq Executables /\ probes \subseteq Directories
  BY DEF DiagnosisInv, DiagnosisTypeInv, TypeOK
<1>4. CASE root = "denied" /\ Raise
  BY <1>1, <1>4, RaiseKeepsInv
<1>5. CASE root = "directory" /\ Continue("root_readable")
  <2>1. step' = "root_readable" /\ UNCHANGED findings
    BY <1>5 DEF Continue
  <2>2. GitInv' /\ DiagnosisTypeInv'
    BY <1>1, <1>3, <1>5, ContinueKeepsTypes DEF DiagnosisSteps, RootSteps
  <2>3. PhaseInv'
    BY <1>1, <2>1 DEF DiagnosisInv, PhaseInv, RootSteps, ArtifactSteps, Looks, statusVars
  <2>4. TopicInv'
    BY <1>2, <1>5, ContinueKeepsTopics
  <2>5. VerdictInv'
    BY <1>1, <1>5, <2>1 DEF DiagnosisInv, VerdictInv, RootVerdictInv, ArtifactVerdictInv,
          ExecutableVerdictInv, GitVerdictInv, ArtifactSteps, Looks, worldVars, Verdicts, Untouched
  <2>6. ProbeInv'
    BY <1>1, <2>1 DEF DiagnosisInv, ProbeInv, Looks, worldVars, Untouched
  <2> QED
    BY <2>2, <2>3, <2>4, <2>5, <2>6 DEF DiagnosisInv
<1>6. CASE /\ root \in {"missing", "file"}
           /\ Find(Finding(<<"root">>, "error", "not_directory"), "artifacts_exist")
  <2> DEFINE x == Finding(<<"root">>, "error", "not_directory")
  <2>1. x \in Findings /\ x.topic = <<"root">>
    BY FindingType DEF Directories, Severities
  <2> HIDE DEF x
  <2>2. step' = "artifacts_exist"
    BY <1>6 DEF Find
  <2>3. GitInv' /\ DiagnosisTypeInv'
    BY <1>1, <1>3, <1>6, <2>1, FindKeepsTypes DEF x, DiagnosisSteps, ArtifactSteps
  <2>4. PhaseInv'
    BY <1>1, <2>2 DEF DiagnosisInv, PhaseInv, RootSteps, ArtifactSteps, Looks, statusVars
  <2>5. TopicInv'
    <3>1. x \in Possible'
      BY <2>1, <2>2, TopicsDiffer DEF Possible, ArtifactSteps
    <3> QED
      BY <1>2, <1>6, <2>1, <3>1, FindKeepsTopics DEF x
  <2>6. Verdicts(<<"root">>)' = {x} /\ Verdicts(<<"git">>)' = {}
    BY <1>2, <1>6, <2>1, NotLooked, FindVerdicts, TopicsDiffer DEF DiagnosisInv, x
  <2>7. RootVerdictInv'
    BY <1>1, <1>6, <2>2, <2>6
       DEF DiagnosisInv, VerdictInv, RootVerdictInv, RootVerdicts, x, ArtifactSteps, Looks, worldVars,
           Untouched
  <2>8. ArtifactVerdictInv' /\ ExecutableVerdictInv' /\ GitVerdictInv'
    BY <2>2, <2>6 DEF ArtifactVerdictInv, ExecutableVerdictInv, GitVerdictInv
  <2>9. ProbeInv'
    BY <1>1, <2>2 DEF DiagnosisInv, ProbeInv, Looks, worldVars, Untouched
  <2> QED
    BY <2>3, <2>4, <2>5, <2>7, <2>8, <2>9 DEF DiagnosisInv, VerdictInv
<1>7. root \in PathKinds
  BY DEF DiagnosisInv, GitInv, GitTypeInv, GitTypeOK
<1> QED
  BY <1>4, <1>5, <1>6, <1>7 DEF RootIsDir, PathKinds

LEMMA RootReadableKeepsInv ==
    ASSUME DiagnosisInv, RootReadable
    PROVE  DiagnosisInv'
<1> DEFINE after == IF read_only_mode THEN "artifacts_exist" ELSE "probe_root"
           x == IF root = "directory" /\ machine.readable THEN Finding(<<"root">>, "info", "readable")
                ELSE Finding(<<"root">>, "error", "unreadable")
<1>1. step = "root_readable" /\ Looks /\ UNCHANGED <<unchecked, probes>>
  BY DEF RootReadable, At, Looks
<1>2. Possible = {}
  BY <1>1 DEF Possible
<1>3. unchecked \subseteq Executables /\ probes \subseteq Directories
  BY DEF DiagnosisInv, DiagnosisTypeInv, TypeOK
<1>4. Find(x, after)
  BY DEF RootReadable
<1>5. x \in Findings /\ x.topic = <<"root">> /\ x.verdict # "not_writable"
  BY FindingType DEF Directories, Severities
<1>6. after \in DiagnosisSteps \ {"git"} /\ step' = after
  BY <1>4 DEF Find, DiagnosisSteps, RootSteps, ArtifactSteps
<1>7. Untouched({"root", "rights"}) => root = "directory" /\ x = RootReadVerdict
  BY <1>1 DEF DiagnosisInv, VerdictInv, RootVerdictInv, RootReadVerdict
<1> HIDE DEF x
<1>8. GitInv' /\ DiagnosisTypeInv'
  <2> HIDE DEF after
  <2> QED
    BY <1>1, <1>3, <1>4, <1>5, <1>6, FindKeepsTypes
<1>9. PhaseInv'
  BY <1>1, <1>6 DEF DiagnosisInv, PhaseInv, RootSteps, ArtifactSteps, Looks, statusVars
<1>10. TopicInv'
  <2>1. x \in Possible'
    BY <1>5, <1>6, TopicsDiffer DEF Possible, ArtifactSteps
  <2> QED
    BY <1>2, <1>4, <1>5, <2>1, FindKeepsTopics
<1>11. Verdicts(<<"root">>)' = {x} /\ Verdicts(<<"git">>)' = {}
  BY <1>2, <1>4, <1>5, NotLooked, FindVerdicts, TopicsDiffer DEF DiagnosisInv
<1>12. RootVerdictInv'
  BY <1>1, <1>6, <1>7, <1>11
     DEF RootVerdictInv, RootVerdicts, RootReadVerdict, ArtifactSteps, Looks, worldVars, Untouched
<1>13. ArtifactVerdictInv' /\ ExecutableVerdictInv' /\ GitVerdictInv'
  BY <1>6, <1>11 DEF ArtifactVerdictInv, ExecutableVerdictInv, GitVerdictInv
<1>14. ProbeInv'
  BY <1>1, <1>6 DEF DiagnosisInv, ProbeInv, Looks, worldVars, Untouched
<1> QED
  BY <1>8, <1>9, <1>10, <1>12, <1>13, <1>14 DEF DiagnosisInv, VerdictInv

LEMMA ArtifactsExistKeepsInv ==
    ASSUME DiagnosisInv, ArtifactsExist
    PROVE  DiagnosisInv'
<1>1. /\ step \in {"artifacts_exist", "artifacts_is_dir"} /\ Looks
      /\ UNCHANGED <<unchecked, probes>>
  BY DEF ArtifactsExist, At, Looks
<1>2. unchecked \subseteq Executables /\ probes \subseteq Directories
  BY DEF DiagnosisInv, DiagnosisTypeInv, TypeOK
<1>3. CASE machine.artifacts = "denied" /\ Raise
  BY <1>1, <1>3, RaiseKeepsInv
<1>4. CASE /\ machine.artifacts \in {"missing", "file"}
           /\ Find(Finding(<<"artifacts">>, "error", "unavailable"), "executables")
  <2> DEFINE x == Finding(<<"artifacts">>, "error", "unavailable")
  <2>1. x \in Findings /\ x.topic = <<"artifacts">>
    BY FindingType DEF Directories, Severities
  <2> HIDE DEF x
  <2>2. step' = "executables"
    BY <1>4 DEF Find
  <2>3. GitInv' /\ DiagnosisTypeInv'
    BY <1>1, <1>2, <1>4, <2>1, FindKeepsTypes DEF x, DiagnosisSteps
  <2>4. PhaseInv'
    BY <1>1, <2>2 DEF DiagnosisInv, PhaseInv, RootSteps, ArtifactSteps, Looks, statusVars
  <2>5. TopicInv'
    <3>1. x \in Possible' /\ x \notin Possible /\ Possible \subseteq Possible'
      BY <1>1, <2>1, <2>2, TopicsDiffer DEF Possible, ArtifactSteps
    <3> QED
      BY <1>4, <2>1, <3>1, FindKeepsTopics DEF x
  <2>6. Verdicts(<<"artifacts">>) = {} /\ Verdicts(<<"git">>) = {}
    <3>1. \A finding \in Possible : finding.topic # <<"artifacts">> /\ finding.topic # <<"git">>
      BY <1>1, TopicsDiffer DEF Possible, ArtifactSteps
    <3> QED
      BY <3>1, NotLooked DEF DiagnosisInv
  <2>7. /\ Verdicts(<<"artifacts">>)' = {x} /\ Verdicts(<<"git">>)' = {}
        /\ Verdicts(<<"root">>)' = Verdicts(<<"root">>)
    BY <1>4, <2>1, <2>6, FindVerdicts, TopicsDiffer DEF x
  <2>8. RootVerdictInv'
    BY <1>1, <2>2, <2>7 DEF DiagnosisInv, VerdictInv, RootVerdictInv, RootVerdicts, ArtifactSteps,
          Looks, worldVars, Untouched
  <2>9. ArtifactVerdictInv'
    BY <1>1, <1>4, <2>2, <2>7 DEF ArtifactVerdictInv, ArtifactVerdict, x, Looks, worldVars
  <2>10. ExecutableVerdictInv'
    BY <1>1, <2>4, <2>2 DEF DiagnosisInv, PhaseInv, ExecutableVerdictInv, ArtifactSteps
  <2>11. GitVerdictInv'
    BY <2>7 DEF GitVerdictInv
  <2>12. ProbeInv'
    BY <1>1, <2>2 DEF DiagnosisInv, ProbeInv, Looks, worldVars, Untouched
  <2> QED
    BY <2>3, <2>4, <2>5, <2>8, <2>9, <2>10, <2>11, <2>12 DEF DiagnosisInv, VerdictInv
<1>5. CASE /\ machine.artifacts \in {"file", "directory"}
           /\ step = "artifacts_is_dir" => machine.artifacts = "directory"
           /\ Continue(IF step = "artifacts_exist" THEN "artifacts_is_dir" ELSE "probe_artifacts")
  <2>1. /\ step' = IF step = "artifacts_exist" THEN "artifacts_is_dir" ELSE "probe_artifacts"
        /\ UNCHANGED findings
    BY <1>5 DEF Continue
  <2>2. GitInv' /\ DiagnosisTypeInv'
    BY <1>1, <1>2, <1>5, ContinueKeepsTypes DEF DiagnosisSteps, ArtifactSteps
  <2>3. PhaseInv'
    BY <1>1, <2>1 DEF DiagnosisInv, PhaseInv, RootSteps, ArtifactSteps, Looks, statusVars
  <2>4. TopicInv'
    <3>1. Possible \subseteq Possible'
      BY <1>1, <2>1 DEF Possible, ArtifactSteps
    <3> QED
      BY <1>5, <3>1, ContinueKeepsTopics
  <2>5. VerdictInv'
    BY <1>1, <1>5, <2>1 DEF DiagnosisInv, VerdictInv, RootVerdictInv, RootVerdicts, ArtifactVerdictInv,
          ExecutableVerdictInv, GitVerdictInv, ArtifactSteps, Looks, worldVars, Verdicts, Untouched
  <2>6. ProbeInv'
    BY <1>1, <2>1 DEF DiagnosisInv, ProbeInv, Looks, worldVars, Untouched
  <2> QED
    BY <2>2, <2>3, <2>4, <2>5, <2>6 DEF DiagnosisInv
<1>6. machine.artifacts \in PathKinds
  BY DEF DiagnosisInv, DiagnosisTypeInv, TypeOK, MachineStates
<1>7. CASE machine.artifacts = "denied"
  <2>1. Raise
    BY <1>1, <1>7 DEF ArtifactsExist, Raise, Continue
  <2> QED
    BY <1>3, <1>7, <2>1
<1>8. CASE machine.artifacts = "missing"
  <2>1. Find(Finding(<<"artifacts">>, "error", "unavailable"), "executables")
    BY <1>1, <1>8 DEF ArtifactsExist, Find
  <2> QED
    BY <1>4, <1>8, <2>1
<1>9. CASE machine.artifacts = "file"
  BY <1>1, <1>4, <1>5, <1>9 DEF ArtifactsExist
<1>10. CASE machine.artifacts = "directory"
  BY <1>1, <1>5, <1>10 DEF ArtifactsExist
<1> QED
  BY <1>6, <1>7, <1>8, <1>9, <1>10 DEF PathKinds

(* The directory could not be written: at the probe, or when the file was to be removed. *)
LEMMA NotWritableKeepsInv ==
    ASSUME DiagnosisInv, NEW dir \in Directories, NotWritable(dir), Looks,
           UNCHANGED <<unchecked, probes>>,
           step \in IF dir = "root" THEN {"probe_root", "unprobe_root"}
                    ELSE {"probe_artifacts", "unprobe_artifacts"},
           dir = "root" /\ Untouched({"root", "rights"}) => ~ CanChange(dir) /\ step = "probe_root",
           dir = "artifacts" /\ Untouched({"artifacts", "rights"}) =>
               ~ CanChange(dir) /\ step = "probe_artifacts",
           Untouched({"root", "artifacts", "rights"}) => probes = {}
    PROVE  DiagnosisInv'
<1> DEFINE x == Finding(<<dir>>, IF dir = "root" THEN "error" ELSE "warning", "not_writable")
<1>1. unchecked \subseteq Executables /\ probes \subseteq Directories
  BY DEF DiagnosisInv, DiagnosisTypeInv, TypeOK
<1>2. x \in Findings /\ x.topic = <<dir>> /\ x.verdict = "not_writable"
  BY FindingType DEF Severities
<1>3. Find(x, AfterProbe(dir)) /\ step' = AfterProbe(dir)
  BY DEF NotWritable, Find
<1>4. AfterProbe(dir) \in DiagnosisSteps \ {"git"}
  BY DEF AfterProbe, DiagnosisSteps, ArtifactSteps
<1>5. x = IF dir = "root" THEN Finding(<<"root">>, "error", "not_writable")
          ELSE Finding(<<"artifacts">>, "warning", "not_writable")
  BY DEF Directories
<1> HIDE DEF x
<1>6. GitInv' /\ DiagnosisTypeInv'
  BY <1>1, <1>2, <1>3, <1>4, FindKeepsTypes
<1>7. PhaseInv'
  BY <1>3 DEF DiagnosisInv, PhaseInv, RootSteps, ArtifactSteps, Looks, statusVars, AfterProbe
<1>8. TopicInv'
  <2>1. x \in Possible' /\ x \notin Possible /\ Possible \subseteq Possible'
    BY <1>2, <1>3, TopicsDiffer DEF Possible, ArtifactSteps, AfterProbe, Directories
  <2> QED
    BY <1>2, <1>3, <2>1, FindKeepsTopics
<1>9. \A t : Verdicts(t)' = IF t = <<dir>> THEN Verdicts(t) \cup {x} ELSE Verdicts(t)
  BY <1>2, <1>3, FindVerdicts
<1>10. Verdicts(<<"git">>)' = {} /\ (dir = "artifacts" => Verdicts(<<"artifacts">>)' = {x})
  <2>1. \A finding \in Possible : /\ finding.topic # <<"git">>
                                  /\ dir = "artifacts" => finding.topic # <<"artifacts">>
    BY TopicsDiffer DEF Possible, ArtifactSteps
  <2>2. Verdicts(<<"git">>) = {} /\ (dir = "artifacts" => Verdicts(<<"artifacts">>) = {})
    BY <2>1, NotLooked DEF DiagnosisInv
  <2> QED
    BY <1>9, <2>2, TopicsDiffer DEF Directories
<1>11. RootVerdictInv'
  <2>1. CASE dir = "root"
    BY <1>3, <1>5, <1>9, <2>1
       DEF DiagnosisInv, VerdictInv, RootVerdictInv, RootVerdicts, RootReadVerdict, CanChange, KindOf,
           AfterProbe, ArtifactSteps, Looks, worldVars, Untouched
  <2>2. CASE dir = "artifacts"
    BY <1>3, <1>9, <2>2, TopicsDiffer
       DEF DiagnosisInv, VerdictInv, RootVerdictInv, RootVerdicts, AfterProbe, ArtifactSteps,
           Looks, worldVars, Untouched
  <2> QED
    BY <2>1, <2>2 DEF Directories
<1>12. ArtifactVerdictInv'
  BY <1>3, <1>5, <1>10 DEF DiagnosisInv, VerdictInv, ArtifactVerdictInv, ArtifactVerdict, CanChange,
        KindOf, AfterProbe, Directories, Looks, worldVars, Untouched
<1>13. ExecutableVerdictInv' /\ GitVerdictInv'
  BY <1>3, <1>7, <1>10 DEF DiagnosisInv, PhaseInv, ExecutableVerdictInv, GitVerdictInv, AfterProbe,
        RootSteps, ArtifactSteps
<1>14. ProbeInv'
  BY <1>3 DEF ProbeInv, Looks, worldVars, Untouched, AfterProbe
<1> QED
  BY <1>6, <1>7, <1>8, <1>11, <1>12, <1>13, <1>14 DEF DiagnosisInv, VerdictInv

(* The file was made and removed. *)
LEMMA WritableKeepsInv ==
    ASSUME DiagnosisInv, NEW dir \in Directories, Writable(dir), Looks, UNCHANGED unchecked,
           CanChange(dir), probes' = probes \ {dir},
           step = IF dir = "root" THEN "unprobe_root" ELSE "unprobe_artifacts",
           Untouched({"root", "artifacts", "rights"}) => probes = {dir}
    PROVE  DiagnosisInv'
<1>1. unchecked \subseteq Executables /\ probes' \subseteq Directories
  BY DEF DiagnosisInv, DiagnosisTypeInv, TypeOK
<1>2. CASE dir = "root" /\ Continue("artifacts_exist")
  <2>1. step' = "artifacts_exist" /\ UNCHANGED findings
    BY <1>2 DEF Continue
  <2>2. GitInv' /\ DiagnosisTypeInv'
    BY <1>1, <1>2, ContinueKeepsTypes DEF DiagnosisSteps, ArtifactSteps
  <2>3. PhaseInv'
    BY <1>2, <2>1 DEF DiagnosisInv, PhaseInv, RootSteps, ArtifactSteps, Looks, statusVars
  <2>4. TopicInv'
    <3>1. Possible \subseteq Possible'
      BY <1>2, <2>1 DEF Possible, ArtifactSteps
    <3> QED
      BY <1>2, <3>1, ContinueKeepsTopics
  <2>5. RootVerdictInv'
    BY <1>2, <2>1 DEF DiagnosisInv, VerdictInv, RootVerdictInv, RootVerdicts, ArtifactSteps,
          RootReadVerdict, Looks, worldVars, Verdicts, Untouched
  <2>6. ArtifactVerdictInv' /\ ExecutableVerdictInv' /\ GitVerdictInv'
    BY <1>2, <2>1 DEF DiagnosisInv, VerdictInv, ArtifactVerdictInv, ExecutableVerdictInv,
          GitVerdictInv, Verdicts, Looks, worldVars, Untouched
  <2>7. ProbeInv'
    BY <1>2, <2>1 DEF ProbeInv, Looks, worldVars, Untouched
  <2> QED
    BY <2>2, <2>3, <2>4, <2>5, <2>6, <2>7 DEF DiagnosisInv, VerdictInv
<1>3. CASE dir = "artifacts" /\ Find(Finding(<<"artifacts">>, "info", "writable"), "executables")
  <2> DEFINE x == Finding(<<"artifacts">>, "info", "writable")
  <2>1. x \in Findings /\ x.topic = <<"artifacts">>
    BY FindingType DEF Directories, Severities
  <2> HIDE DEF x
  <2>2. step' = "executables"
    BY <1>3 DEF Find
  <2>3. GitInv' /\ DiagnosisTypeInv'
    BY <1>1, <1>3, <2>1, FindKeepsTypes DEF x, DiagnosisSteps
  <2>4. PhaseInv'
    BY <1>3, <2>2 DEF DiagnosisInv, PhaseInv, RootSteps, ArtifactSteps, Looks, statusVars
  <2>5. TopicInv'
    <3>1. x \in Possible' /\ x \notin Possible /\ Possible \subseteq Possible'
      BY <1>3, <2>1, <2>2, TopicsDiffer DEF Possible, ArtifactSteps
    <3> QED
      BY <1>3, <2>1, <3>1, FindKeepsTopics DEF x
  <2>6. Verdicts(<<"artifacts">>) = {} /\ Verdicts(<<"git">>) = {}
    <3>1. \A finding \in Possible : finding.topic # <<"artifacts">> /\ finding.topic # <<"git">>
      BY <1>3, TopicsDiffer DEF Possible, ArtifactSteps
    <3> QED
      BY <3>1, NotLooked DEF DiagnosisInv
  <2>7. /\ Verdicts(<<"artifacts">>)' = {x} /\ Verdicts(<<"git">>)' = {}
        /\ Verdicts(<<"root">>)' = Verdicts(<<"root">>)
    BY <1>3, <2>1, <2>6, FindVerdicts, TopicsDiffer DEF x
  <2>8. RootVerdictInv'
    BY <1>3, <2>2, <2>7 DEF DiagnosisInv, VerdictInv, RootVerdictInv, RootVerdicts, ArtifactSteps,
          Looks, worldVars, Untouched
  <2>9. ArtifactVerdictInv'
    BY <1>3, <2>2, <2>7 DEF DiagnosisInv, VerdictInv, ArtifactVerdictInv, ArtifactVerdict, CanChange,
          KindOf, x, Looks, worldVars, Untouched
  <2>10. ExecutableVerdictInv'
    BY <1>3, <2>4, <2>2 DEF DiagnosisInv, PhaseInv, ExecutableVerdictInv, ArtifactSteps
  <2>11. GitVerdictInv'
    BY <2>7 DEF GitVerdictInv
  <2>12. ProbeInv'
    BY <1>3, <2>2 DEF ProbeInv, Looks, worldVars, Untouched
  <2> QED
    BY <2>3, <2>4, <2>5, <2>8, <2>9, <2>10, <2>11, <2>12 DEF DiagnosisInv, VerdictInv
<1> QED
  BY <1>2, <1>3 DEF Writable, AfterProbe, Directories

LEMMA MakeProbeKeepsInv ==
    ASSUME DiagnosisInv, NEW dir \in Directories, MakeProbe(dir)
    PROVE  DiagnosisInv'
<1>1. /\ step = IF dir = "root" THEN "probe_root" ELSE "probe_artifacts"
      /\ Looks /\ UNCHANGED unchecked
  BY DEF MakeProbe, At, Looks
<1>2. unchecked \subseteq Executables /\ probes \subseteq Directories
  BY DEF DiagnosisInv, DiagnosisTypeInv, TypeOK
<1>3. Untouched({"root", "artifacts", "rights"}) => probes = {}
  BY <1>1 DEF DiagnosisInv, ProbeInv
<1>4. CASE /\ CanChange(dir) /\ probes' = probes \cup {dir}
           /\ Continue(IF dir = "root" THEN "unprobe_root" ELSE "unprobe_artifacts")
  <2>1. /\ step' = IF dir = "root" THEN "unprobe_root" ELSE "unprobe_artifacts"
        /\ UNCHANGED findings
    BY <1>4 DEF Continue
  <2>2. GitInv' /\ DiagnosisTypeInv'
    BY <1>1, <1>2, <1>4, ContinueKeepsTypes DEF DiagnosisSteps, ArtifactSteps, RootSteps
  <2>3. PhaseInv'
    BY <1>1, <2>1 DEF DiagnosisInv, PhaseInv, RootSteps, ArtifactSteps, Looks, statusVars, Directories
  <2>4. TopicInv'
    <3>1. Possible \subseteq Possible'
      BY <1>1, <2>1 DEF Possible, ArtifactSteps
    <3> QED
      BY <1>4, <3>1, ContinueKeepsTopics
  <2>5. RootVerdictInv'
    BY <1>1, <1>4, <2>1 DEF DiagnosisInv, VerdictInv, RootVerdictInv, RootVerdicts, ArtifactSteps,
          CanChange, RootReadVerdict, Looks, worldVars, Verdicts, Untouched
  <2>6. ArtifactVerdictInv'
    BY <1>1, <1>4, <2>1 DEF DiagnosisInv, VerdictInv, ArtifactVerdictInv, Directories, KindOf,
          CanChange, Looks, worldVars, Untouched
  <2>7. ExecutableVerdictInv' /\ GitVerdictInv'
    BY <1>1, <2>1 DEF DiagnosisInv, VerdictInv, ExecutableVerdictInv, GitVerdictInv, Verdicts,
          Looks, worldVars, Untouched
  <2>8. ProbeInv'
    BY <1>1, <1>3, <1>4, <2>1 DEF ProbeInv, Looks, worldVars, Untouched, Directories
  <2> QED
    BY <2>2, <2>3, <2>4, <2>5, <2>6, <2>7, <2>8 DEF DiagnosisInv, VerdictInv
<1>5. CASE ~ CanChange(dir) /\ NotWritable(dir) /\ UNCHANGED probes
  BY <1>1, <1>3, <1>5, NotWritableKeepsInv
<1> QED
  BY <1>4, <1>5 DEF MakeProbe

LEMMA RemoveProbeKeepsInv ==
    ASSUME DiagnosisInv, NEW dir \in Directories, RemoveProbe(dir)
    PROVE  DiagnosisInv'
<1>1. /\ step = IF dir = "root" THEN "unprobe_root" ELSE "unprobe_artifacts"
      /\ Looks /\ UNCHANGED unchecked
  BY DEF RemoveProbe, At, Looks
<1>2. Untouched({"root", "artifacts", "rights"}) => probes = {dir}
  BY <1>1 DEF DiagnosisInv, ProbeInv, Directories
<1>3. /\ Untouched({"root", "rights"}) /\ dir = "root" => CanChange(dir) /\ dir \in probes
      /\ Untouched({"artifacts", "rights"}) /\ dir = "artifacts" => CanChange(dir) /\ dir \in probes
  BY <1>1 DEF DiagnosisInv, VerdictInv, RootVerdictInv, ArtifactVerdictInv, CanChange, KindOf
<1>4. CASE ~ (CanChange(dir) /\ dir \in probes) /\ NotWritable(dir) /\ UNCHANGED probes
  <2>1. ~ Untouched({"root", "artifacts", "rights"})
    BY <1>3, <1>4 DEF Untouched, Directories
  <2> QED
    BY <1>1, <1>3, <1>4, <2>1, NotWritableKeepsInv
<1>5. CASE CanChange(dir) /\ probes' = probes \ {dir} /\ Writable(dir)
  BY <1>1, <1>2, <1>5, WritableKeepsInv
<1> QED
  BY <1>4, <1>5 DEF RemoveProbe

LEMMA LookUpKeepsInv ==
    ASSUME DiagnosisInv, NEW e \in Executables, LookUp(e)
    PROVE  DiagnosisInv'
<1> DEFINE x == ExecutableVerdict(e)
<1>1. step = "executables" /\ e \in unchecked /\ unchecked' = unchecked \ {e} /\ Looks /\ UNCHANGED probes
  BY DEF LookUp, At, Looks
<1>2. unchecked' \subseteq Executables /\ probes' \subseteq Directories
  BY <1>1 DEF DiagnosisInv, DiagnosisTypeInv, TypeOK
<1>3. x \in Findings /\ x.topic = <<"executable", e>>
  BY FindingType DEF Severities, ExecutableVerdict
<1>4. Find(x, "executables") /\ step' = "executables"
  BY DEF LookUp, ExecutableVerdict, Find
<1>5. \A d : ExecutableVerdict(d)' = ExecutableVerdict(d)
  BY <1>1 DEF ExecutableVerdict, Looks
<1> HIDE DEF x
<1>6. GitInv' /\ DiagnosisTypeInv'
  BY <1>1, <1>2, <1>3, <1>4, FindKeepsTypes DEF DiagnosisSteps
<1>7. PhaseInv'
  BY <1>1, <1>4 DEF DiagnosisInv, PhaseInv, RootSteps, ArtifactSteps, Looks, statusVars
<1>8. TopicInv'
  <2>1. x \in Possible' /\ x \notin Possible /\ Possible \subseteq Possible'
    BY <1>1, <1>3, <1>4, TopicsDiffer DEF Possible, ArtifactSteps
  <2> QED
    BY <1>3, <1>4, <2>1, FindKeepsTopics
<1>9. Verdicts(<<"executable", e>>) = {} /\ Verdicts(<<"git">>) = {}
  <2>1. \A finding \in Possible : finding.topic # <<"executable", e>> /\ finding.topic # <<"git">>
    BY <1>1 DEF Possible
  <2> QED
    BY <2>1, NotLooked DEF DiagnosisInv
<1>10. /\ Verdicts(<<"executable", e>>)' = {x} /\ Verdicts(<<"git">>)' = {}
       /\ Verdicts(<<"root">>)' = Verdicts(<<"root">>)
       /\ Verdicts(<<"artifacts">>)' = Verdicts(<<"artifacts">>)
       /\ \A d : d # e => Verdicts(<<"executable", d>>)' = Verdicts(<<"executable", d>>)
  BY <1>3, <1>4, <1>9, FindVerdicts, TopicsDiffer
<1>11. RootVerdictInv'
  BY <1>1, <1>4, <1>10 DEF DiagnosisInv, VerdictInv, RootVerdictInv, RootVerdicts, ArtifactSteps,
        Looks, worldVars, Untouched
<1>12. ArtifactVerdictInv'
  BY <1>1, <1>4, <1>10 DEF DiagnosisInv, VerdictInv, ArtifactVerdictInv, ArtifactVerdict,
        Looks, worldVars, Untouched
<1>13. ExecutableVerdictInv'
  <2> SUFFICES ASSUME Untouched({"path"})', NEW d \in Executables \ unchecked'
               PROVE  Verdicts(<<"executable", d>>)' = {ExecutableVerdict(d)'}
    BY DEF ExecutableVerdictInv
  <2>1. Untouched({"path"})
    BY <1>1 DEF Untouched, Looks, worldVars
  <2>2. CASE d = e
    BY <1>5, <1>10, <2>2 DEF x
  <2>3. CASE d # e
    BY <1>1, <1>5, <1>10, <2>1, <2>3 DEF DiagnosisInv, VerdictInv, ExecutableVerdictInv
  <2> QED
    BY <2>2, <2>3
<1>14. GitVerdictInv'
  BY <1>10 DEF GitVerdictInv
<1>15. ProbeInv'
  BY <1>1, <1>4 DEF DiagnosisInv, ProbeInv, Looks, worldVars, Untouched
<1> QED
  BY <1>6, <1>7, <1>8, <1>11, <1>12, <1>13, <1>14, <1>15 DEF DiagnosisInv, VerdictInv

(* A step of status() within a diagnosis, or within a tool that calls nothing else. *)
LEMMA CallStatusKeepsInv ==
    ASSUME DiagnosisInv, CallStatus
    PROVE  DiagnosisInv'
<1>1. GitInv' /\ step \in {"git", "tool"} /\ UNCHANGED diagnosisVars
  BY StatusKeepsGitInv DEF CallStatus, DiagnosisInv
<1>2. UNCHANGED <<worldVars, git_executable>> /\ (pc # "idle" => pc' # "idle")
  <2> DEFINE goes == UNCHANGED <<worldVars, git_executable>> /\ (pc # "idle" => pc' # "idle")
  <2>1. CASE Exists \/ IsDir
    BY <2>1 DEF Exists, IsDir, Answer, Proceed, Goto
  <2>2. ASSUME NEW c \in GitCommands, Launch(c) \/ CommandRaises(c) PROVE goes
    BY <2>2 DEF Launch, CommandRaises, Answer, Proceed, Goto, GitCommands
  <2>3. ASSUME NEW c \in GitCommands, Returns(c) PROVE goes
    <3>1. PICK text, r, zero :
              IF c = "rev_parse" THEN AnswerReceived(text, r, zero) ELSE TextReceived(c, text, r, zero)
      BY <2>3 DEF Returns
    <3>2. CASE c = "rev_parse"
      BY <3>1, <3>2 DEF AnswerReceived, Proceed, Answer, Goto
    <3>3. CASE c # "rev_parse"
      <4>1. Following[c] # "idle" \/ c = "diff_cached"
        BY <3>3 DEF Following, GitCommands
      <4> QED
        BY <3>1, <3>3, <4>1 DEF TextReceived, Proceed, Answer, Goto
    <3> QED
      BY <3>2, <3>3
  <2>4. CASE \E f \in Files : Look(f)
    BY <2>4 DEF Look
  <2> QED
    BY <2>1, <2>2, <2>3, <2>4 DEF CallStatus, Status
<1>3. DiagnosisTypeInv'
  BY <1>1, <1>2 DEF DiagnosisInv, DiagnosisTypeInv, TypeOK, GitInv, GitTypeInv, diagnosisVars
<1>4. PhaseInv'
  BY <1>1, <1>2 DEF DiagnosisInv, PhaseInv, RootSteps, ArtifactSteps, diagnosisVars, worldVars, Untouched
<1>5. TopicInv'
  BY <1>1 DEF DiagnosisInv, TopicInv, Possible, diagnosisVars
<1>6. VerdictInv'
  BY <1>1, <1>2 DEF DiagnosisInv, VerdictInv, RootVerdictInv, ArtifactVerdictInv, ExecutableVerdictInv,
        GitVerdictInv, RootVerdicts, ArtifactVerdict, ExecutableVerdict, RootReadVerdict, Verdicts,
        diagnosisVars, worldVars, Untouched
<1>7. ProbeInv'
  BY <1>1, <1>2 DEF DiagnosisInv, ProbeInv, diagnosisVars, worldVars, Untouched
<1> QED
  BY <1>1, <1>3, <1>4, <1>5, <1>6, <1>7 DEF DiagnosisInv

LEMMA ConstructKeepsInv ==
    ASSUME DiagnosisInv, ConstructGitService
    PROVE  DiagnosisInv'
<1>1. /\ step = "executables" /\ unchecked = {} /\ step' = "git" /\ pc' = "exists"
      /\ git_executable' = ("git" \in machine.on_path)
      /\ UNCHANGED <<worldVars, commandVars, status, answer, read_only_mode, machine, probes,
                     unchecked, findings>>
  BY DEF ConstructGitService
<1>2. pc = "idle" /\ ~ running /\ answer = "none"
  BY <1>1 DEF DiagnosisInv, PhaseInv, GitInv, GitTypeInv, GitCommands
<1>3. GitInv'
  BY <1>1, <1>2 DEF DiagnosisInv, GitInv, GitTypeInv, GitTypeOK, SightInv, StatusInv, PlaceInv, Reached,
        Steps, GitCommands, commandVars, worldVars
<1>4. DiagnosisTypeInv'
  BY <1>1, <1>3 DEF DiagnosisInv, DiagnosisTypeInv, TypeOK, GitInv, GitTypeInv, DiagnosisSteps
<1>5. PhaseInv'
  BY <1>1 DEF PhaseInv, RootSteps, ArtifactSteps
<1>6. TopicInv'
  <2>1. Possible \subseteq Possible'
    BY <1>1 DEF Possible, ArtifactSteps
  <2> QED
    BY <1>1, <2>1 DEF DiagnosisInv, TopicInv
<1>7. VerdictInv'
  BY <1>1 DEF DiagnosisInv, VerdictInv, RootVerdictInv, ArtifactVerdictInv, ExecutableVerdictInv,
        GitVerdictInv, RootVerdicts, ArtifactVerdict, ExecutableVerdict, Verdicts, ArtifactSteps,
        worldVars, Untouched
<1>8. ProbeInv'
  BY <1>1 DEF DiagnosisInv, ProbeInv, worldVars, Untouched
<1> QED
  BY <1>3, <1>4, <1>5, <1>6, <1>7, <1>8 DEF DiagnosisInv

LEMMA CheckGitKeepsInv ==
    ASSUME DiagnosisInv, CheckGit
    PROVE  DiagnosisInv'
<1>1. step = "git" /\ Looks /\ UNCHANGED <<unchecked, probes>>
  BY DEF CheckGit, At, Looks
<1>2. unchecked \subseteq Executables /\ probes \subseteq Directories
  BY DEF DiagnosisInv, DiagnosisTypeInv, TypeOK
<1>3. CASE Raise
  BY <1>1, <1>3, RaiseKeepsInv
<1>4. ASSUME NEW severity \in Severities,
             NEW verdict \in {"failed", "not_repository"} \cup Branches \cup {Detached},
             severity = "info" => answer = "status",
             Find(Finding(<<"git">>, severity, verdict), "done")
      PROVE  DiagnosisInv'
  <2> DEFINE x == Finding(<<"git">>, severity, verdict)
  <2>1. x \in Findings /\ x.topic = <<"git">> /\ x.severity = severity
    BY FindingType
  <2> HIDE DEF x
  <2>2. step' = "done"
    BY <1>4 DEF Find
  <2>3. GitInv' /\ DiagnosisTypeInv'
    BY <1>1, <1>2, <1>4, <2>1, FindKeepsTypes DEF x, DiagnosisSteps
  <2>4. PhaseInv'
    BY <1>1, <2>2 DEF DiagnosisInv, PhaseInv, RootSteps, ArtifactSteps, Looks, statusVars
  <2>5. TopicInv'
    <3>1. x \in Possible' /\ x \notin Possible /\ Possible \subseteq Possible'
      BY <1>1, <2>1, <2>2, TopicsDiffer DEF Possible, ArtifactSteps, DiagnosisInv, PhaseInv
    <3> QED
      BY <1>4, <2>1, <3>1, FindKeepsTopics DEF x
  <2>6. Verdicts(<<"git">>) = {}
    <3>1. \A finding \in Possible : finding.topic # <<"git">>
      BY <1>1 DEF Possible
    <3> QED
      BY <3>1, NotLooked DEF DiagnosisInv
  <2>7. /\ Verdicts(<<"git">>)' = {x} /\ Verdicts(<<"root">>)' = Verdicts(<<"root">>)
        /\ Verdicts(<<"artifacts">>)' = Verdicts(<<"artifacts">>)
        /\ \A e : Verdicts(<<"executable", e>>)' = Verdicts(<<"executable", e>>)
    BY <1>4, <2>1, <2>6, FindVerdicts, TopicsDiffer DEF x
  <2>8. RootVerdictInv'
    BY <1>1, <2>2, <2>7 DEF DiagnosisInv, VerdictInv, RootVerdictInv, RootVerdicts, ArtifactSteps,
          Looks, worldVars, Untouched
  <2>9. ArtifactVerdictInv'
    BY <1>1, <2>2, <2>7 DEF DiagnosisInv, VerdictInv, ArtifactVerdictInv, ArtifactVerdict,
          Looks, worldVars, Untouched
  <2>10. ExecutableVerdictInv'
    BY <1>1, <2>2, <2>7 DEF DiagnosisInv, VerdictInv, ExecutableVerdictInv, ExecutableVerdict,
          Looks, worldVars, Untouched
  <2>11. GitVerdictInv'
    BY <1>1, <1>4, <2>1, <2>7 DEF DiagnosisInv, PhaseInv, GitInv, PlaceInv, Reached, GitVerdictInv,
          Looks, worldVars, Untouched
  <2>12. ProbeInv'
    BY <1>1, <2>2 DEF DiagnosisInv, ProbeInv, Looks, worldVars, Untouched
  <2> QED
    BY <2>3, <2>4, <2>5, <2>8, <2>9, <2>10, <2>11, <2>12 DEF DiagnosisInv, VerdictInv
<1>5. status.branch \in Branches \cup {Detached}
  BY DEF DiagnosisInv, GitInv, GitTypeInv, GitTypeOK
<1>6. \/ Raise
      \/ Find(Finding(<<"git">>, "warning", "failed"), "done")
      \/ Find(Finding(<<"git">>, "warning", "not_repository"), "done")
      \/ answer = "status" /\ Find(Finding(<<"git">>, "info", status.branch), "done")
  BY DEF CheckGit
<1> QED
  BY <1>3, <1>4, <1>5, <1>6 DEF Severities

(* What a change of another program leaves alone, of the machine and of the probes. *)
Disturbs ==
    /\ Touches
    /\ machine' \in MachineStates /\ probes' \subseteq probes
    /\ "artifacts" \notin touched' => machine'.artifacts = machine.artifacts
    /\ "rights" \notin touched' =>
          machine'.writable = machine.writable /\ machine'.readable = machine.readable
    /\ "path" \notin touched' => machine'.on_path = machine.on_path
    /\ "root" \in probes /\ root' = "directory" => "root" \in probes'
    /\ "artifacts" \in probes /\ "artifacts" \notin touched' => "artifacts" \in probes'
    /\ UNCHANGED <<statusVars, read_only_mode, toolVars>>

LEMMA EditsDisturb ==
    ASSUME DiagnosisInv, Edit
    PROVE  Disturbs
<1>1. machine \in MachineStates /\ GitTypeInv
  BY DEF DiagnosisInv, DiagnosisTypeInv, TypeOK, GitInv
<1>2. UNCHANGED <<statusVars, read_only_mode, toolVars>>
  BY DEF Edit
<1>3. CASE EditWorld /\ probes' = ProbesLeft("root", root') /\ UNCHANGED machine
  BY <1>1, <1>2, <1>3, EditsTouch DEF Disturbs, ProbesLeft
<1>4. ASSUME NEW fact, NEW m \in MachineStates, ChangeMachine(fact, m)
      PROVE  Touches /\ touched' = touched \cup {fact} /\ machine' = m /\ UNCHANGED root
  <2>1. edits + 1 \in 0..MaxEdits
    BY <1>1, <1>4, GitAssumption DEF ChangeMachine, GitTypeInv, GitTypeOK, GitAssumption
  <2> QED
    BY <1>1, <1>4, <2>1 DEF ChangeMachine, Touches, GitTypeInv, GitTypeOK
<1>5. CASE \E k \in PathKinds : MoveArtifacts(k)
  <2>1. PICK k \in PathKinds : MoveArtifacts(k)
    BY <1>5
  <2>2. [machine EXCEPT !.artifacts = k] \in MachineStates
    BY <1>1 DEF MachineStates
  <2> QED
    BY <1>1, <1>2, <1>4, <2>1, <2>2 DEF MoveArtifacts, Disturbs, ProbesLeft, MachineStates
<1>6. CASE \E dirs \in SUBSET Directories, readable \in BOOLEAN : ChangeRights(dirs, readable)
  <2>1. PICK dirs \in SUBSET Directories, readable \in BOOLEAN : ChangeRights(dirs, readable)
    BY <1>6
  <2>2. [machine EXCEPT !.writable = dirs, !.readable = readable] \in MachineStates
    BY <1>1 DEF MachineStates
  <2> QED
    <3>1. /\ ChangeMachine("rights", [machine EXCEPT !.writable = dirs, !.readable = readable])
          /\ UNCHANGED probes
      BY <2>1 DEF ChangeRights
    <3>2. Touches /\ "rights" \in touched'
      BY <1>4, <2>2, <3>1
    <3>3. machine' = [machine EXCEPT !.writable = dirs, !.readable = readable]
      BY <3>1 DEF ChangeMachine
    <3>4. machine'.artifacts = machine.artifacts /\ machine'.on_path = machine.on_path
      BY <1>1, <3>3 DEF MachineStates
    <3> QED
      BY <1>2, <2>2, <3>1, <3>2, <3>3, <3>4 DEF Disturbs
<1>7. CASE \E executables \in SUBSET (Executables \cup {"git"}) : Install(executables)
  <2>1. PICK executables \in SUBSET (Executables \cup {"git"}) : Install(executables)
    BY <1>7
  <2>2. [machine EXCEPT !.on_path = executables] \in MachineStates
    BY <1>1 DEF MachineStates
  <2> QED
    BY <1>1, <1>2, <1>4, <2>1, <2>2 DEF Install, Disturbs, MachineStates
<1> QED
  BY <1>3, <1>5, <1>6, <1>7 DEF Edit

LEMMA EditKeepsInv ==
    ASSUME DiagnosisInv, Edit
    PROVE  DiagnosisInv'
<1>1. Disturbs
  BY EditsDisturb
<1>2. GitInv'
  BY <1>1, EditKeepsGitInv DEF DiagnosisInv, Disturbs
<1>3. DiagnosisTypeInv'
  BY <1>1, <1>2 DEF Disturbs, DiagnosisInv, DiagnosisTypeInv, TypeOK, GitInv, GitTypeInv, toolVars,
        statusVars
<1>4. PhaseInv'
  BY <1>1 DEF Disturbs, Touches, DiagnosisInv, PhaseInv, RootSteps, ArtifactSteps, toolVars, statusVars,
        Untouched
<1>5. TopicInv'
  BY <1>1 DEF Disturbs, DiagnosisInv, TopicInv, Possible, toolVars
<1>6. \A t : Verdicts(t)' = Verdicts(t)
  BY <1>1 DEF Disturbs, toolVars, Verdicts
<1>7. \A facts : Untouched(facts)' => Untouched(facts)
  BY <1>1 DEF Disturbs, Touches, Untouched
<1>8. RootVerdictInv'
  <2> SUFFICES ASSUME Untouched({"root", "rights"})'
               PROVE  RootVerdictInv'
    BY DEF RootVerdictInv
  <2>1. /\ root' = root /\ machine'.readable = machine.readable /\ machine'.writable = machine.writable
        /\ "root" \in probes /\ root = "directory" => "root" \in probes'
        /\ UNCHANGED <<step, read_only_mode>> /\ Untouched({"root", "rights"})
    BY <1>1, <1>7 DEF Disturbs, Touches, Untouched, toolVars
  <2>2. RootVerdicts' = RootVerdicts /\ RootReadVerdict' = RootReadVerdict
    BY <2>1 DEF RootVerdicts, RootReadVerdict
  <2> QED
    BY <1>6, <2>1, <2>2 DEF DiagnosisInv, VerdictInv, RootVerdictInv
<1>9. ArtifactVerdictInv'
  <2> SUFFICES ASSUME Untouched({"artifacts", "rights"})'
               PROVE  ArtifactVerdictInv'
    BY DEF ArtifactVerdictInv
  <2>1. /\ machine'.artifacts = machine.artifacts /\ machine'.writable = machine.writable
        /\ "artifacts" \in probes => "artifacts" \in probes'
        /\ UNCHANGED step /\ Untouched({"artifacts", "rights"})
    BY <1>1, <1>7 DEF Disturbs, Touches, Untouched, toolVars
  <2>2. ArtifactVerdict' = ArtifactVerdict
    BY <2>1 DEF ArtifactVerdict
  <2> QED
    BY <1>6, <2>1, <2>2 DEF DiagnosisInv, VerdictInv, ArtifactVerdictInv
<1>10. ExecutableVerdictInv'
  <2> SUFFICES ASSUME Untouched({"path"})'
               PROVE  ExecutableVerdictInv'
    BY DEF ExecutableVerdictInv
  <2>1. machine'.on_path = machine.on_path /\ UNCHANGED <<step, unchecked>> /\ Untouched({"path"})
    BY <1>1, <1>7 DEF Disturbs, Touches, Untouched, toolVars
  <2>2. \A e : ExecutableVerdict(e)' = ExecutableVerdict(e)
    BY <2>1 DEF ExecutableVerdict
  <2> QED
    BY <1>6, <2>1, <2>2 DEF DiagnosisInv, VerdictInv, ExecutableVerdictInv
<1>11. GitVerdictInv'
  BY <1>1, <1>6, <1>7 DEF Disturbs, Touches, DiagnosisInv, VerdictInv, GitVerdictInv, Untouched
<1>12. ProbeInv'
  <2> SUFFICES ASSUME Untouched({"root", "artifacts", "rights"})'
               PROVE  ProbeInv'
    BY DEF ProbeInv
  <2>1. /\ root' = root /\ UNCHANGED step /\ probes' \subseteq probes
        /\ "root" \in probes /\ root = "directory" => "root" \in probes'
        /\ "artifacts" \in probes => "artifacts" \in probes'
        /\ Untouched({"root", "artifacts", "rights"}) /\ Untouched({"root", "rights"})
    BY <1>1, <1>7 DEF Disturbs, Touches, Untouched, toolVars
  <2>2. step = "unprobe_root" => root = "directory"
    BY <2>1 DEF DiagnosisInv, VerdictInv, RootVerdictInv
  <2> QED
    BY <2>1, <2>2 DEF DiagnosisInv, ProbeInv
<1> QED
  BY <1>2, <1>3, <1>4, <1>5, <1>8, <1>9, <1>10, <1>11, <1>12 DEF DiagnosisInv, VerdictInv

-----------------------------------------------------------------------------
(* The theorems.                                                           *)

LEMMA InitEstablishesInv == Init => DiagnosisInv
<1> SUFFICES ASSUME Init PROVE DiagnosisInv
  OBVIOUS
<1>1. GitInv
  <2>1. NoSight \in Snapshots /\ NoStatus \in Statuses
    BY DEF NoSight, Snapshots, Places, Texts, NoStatus, Statuses
  <2>2. GitTypeInv
    <3>1. status = NoStatus /\ answer = "none" /\ running = FALSE /\ pc \in {"idle", "exists"}
      BY DEF Init, GitInit
    <3>2. /\ status.branch = Detached /\ Range(status.staged) = {} /\ Range(status.modified) = {}
          /\ Range(status.untracked) = {}
      BY <3>1 DEF NoStatus, Range
    <3>3. GitTypeOK
      <4>1. repository \in Snapshots /\ edits \in 0..MaxEdits
        BY GitAssumption DEF Init, GitInit, GitAssumption
      <4>2. root \in PathKinds /\ git_executable \in BOOLEAN /\ sight \in Snapshots /\ unseen = {}
        BY <2>1 DEF Init, GitInit
      <4>3. {Range(status.staged), Range(status.modified), Range(status.untracked)} \subseteq SUBSET Files
        BY <3>2
      <4> QED
        BY <3>1, <3>2, <4>1, <4>2, <4>3 DEF GitTypeOK
    <3> QED
      BY <2>1, <3>1, <3>3 DEF GitTypeInv, Steps
  <2> QED
    BY <2>2 DEF Init, GitInit, GitInv, SightInv, StatusInv, PlaceInv, Reached, NoStatus, GitCommands
<1>2. DiagnosisTypeInv
  BY <1>1, MachineAssumption DEF Init, DiagnosisTypeInv, TypeOK, GitInv, GitTypeInv, DiagnosisSteps,
        RootSteps
<1>3. PhaseInv
  BY DEF Init, PhaseInv, RootSteps, ArtifactSteps
<1>4. TopicInv
  BY DEF Init, TopicInv, Range
<1>5. \A t : Verdicts(t) = {}
  BY DEF Init, Verdicts, Range
<1>6. VerdictInv
  BY <1>5 DEF Init, VerdictInv, RootVerdictInv, ArtifactVerdictInv, ExecutableVerdictInv, GitVerdictInv,
        ArtifactSteps
<1>7. ProbeInv
  BY DEF Init, ProbeInv
<1> QED
  BY <1>1, <1>2, <1>3, <1>4, <1>6, <1>7 DEF DiagnosisInv

LEMMA NextKeepsInv == DiagnosisInv /\ [Next]_vars => DiagnosisInv'
<1> SUFFICES ASSUME DiagnosisInv, [Next]_vars PROVE DiagnosisInv'
  OBVIOUS
<1>1. CASE UNCHANGED vars
  <2>1. GitInv'
    BY <1>1, LooksKeepGit DEF vars, DiagnosisInv
  <2>2. DiagnosisTypeInv' /\ PhaseInv' /\ TopicInv'
    BY <1>1, <2>1 DEF vars, worldVars, statusVars, diagnosisVars, DiagnosisInv, DiagnosisTypeInv, TypeOK,
          GitInv, GitTypeInv, PhaseInv, TopicInv, Possible, Untouched
  <2>3. VerdictInv' /\ ProbeInv'
    BY <1>1 DEF vars, worldVars, statusVars, diagnosisVars, DiagnosisInv, VerdictInv, RootVerdictInv,
          ArtifactVerdictInv, ExecutableVerdictInv, GitVerdictInv, ProbeInv, RootVerdicts,
          ArtifactVerdict, ExecutableVerdict, RootReadVerdict, Verdicts, Untouched
  <2> QED
    BY <2>1, <2>2, <2>3 DEF DiagnosisInv
<1>2. CASE Edit
  BY <1>2, EditKeepsInv
<1>3. CASE CallStatus
  BY <1>3, CallStatusKeepsInv
<1>4. CASE Diagnose
  BY <1>4, RootExistsKeepsInv, RootIsDirKeepsInv, RootReadableKeepsInv, ArtifactsExistKeepsInv,
     MakeProbeKeepsInv, RemoveProbeKeepsInv, LookUpKeepsInv, ConstructKeepsInv, CheckGitKeepsInv
     DEF Diagnose
<1> QED
  BY <1>1, <1>2, <1>3, <1>4 DEF Next, Ended

LEMMA SpecKeepsInv == Spec => []DiagnosisInv
BY InitEstablishesInv, NextKeepsInv, PTL DEF Spec

(* Every variable of a diagnosis, and of the git service within it, has its type. *)
THEOREM TypeCorrect == Spec => []TypeOK
<1>1. DiagnosisInv => TypeOK
  BY DEF DiagnosisInv, DiagnosisTypeInv
<1> QED
  BY <1>1, SpecKeepsInv, PTL

(* GitService.status: a file nobody touched is listed once in each list it belongs to. *)
THEOREM FilesAreExact == Spec => []StableFilesAreExact
<1>1. DiagnosisInv => StableFilesAreExact
  BY GitInvImplies DEF DiagnosisInv
<1> QED
  BY <1>1, SpecKeepsInv, PTL

(* GitService.status: the branch and the statistics are those of a repository nobody touched. *)
THEOREM SummaryIsExact == Spec => []StableSummaryIsExact
<1>1. DiagnosisInv => StableSummaryIsExact
  BY GitInvImplies DEF DiagnosisInv
<1> QED
  BY <1>1, SpecKeepsInv, PTL

(* diagnose_workspace says once, and truly, how each thing is that did not change meanwhile. *)
THEOREM VerdictsAreExact == Spec => []StableVerdictsAreExact
<1>1. DiagnosisInv => StableVerdictsAreExact
  <2> SUFFICES ASSUME DiagnosisInv, step = "done" PROVE StableVerdictsAreExact
    BY DEF StableVerdictsAreExact
  <2>1. unchecked = {}
    BY DEF DiagnosisInv, PhaseInv
  <2> QED
    BY <2>1 DEF DiagnosisInv, TopicInv, VerdictInv, RootVerdictInv, ArtifactVerdictInv,
          ExecutableVerdictInv, GitVerdictInv, StableVerdictsAreExact
<1> QED
  BY <1>1, SpecKeepsInv, PTL

(* _can_write_directory leaves no file behind, unless what it tries changes meanwhile. *)
THEOREM ProbesGo == Spec => []ProbesAreRemoved
<1>1. DiagnosisInv => ProbesAreRemoved
  BY DEF DiagnosisInv, ProbeInv, ProbesAreRemoved
<1> QED
  BY <1>1, SpecKeepsInv, PTL
=============================================================================
