------------------------- MODULE TestReports_proofs -------------------------
(***************************************************************************)
(* Proofs about TestReports, for every number of runs and collections,     *)
(* every size of report and every limit.                                   *)
(***************************************************************************)
EXTENDS TestReports, SequenceTheorems, TLAPS

LEMMA SizeFacts ==
    ASSUME NEW a \in Nat, NEW b \in Nat
    PROVE  /\ Smaller(a, b) \in Nat /\ Smaller(a, b) <= a /\ Smaller(a, b) <= b
           /\ Smaller(a, b) = a \/ Smaller(a, b) = b
           /\ Larger(a, b) \in Nat /\ a <= Larger(a, b) /\ b <= Larger(a, b)
           /\ Larger(a, b) = a \/ Larger(a, b) = b
  BY DEF Smaller, Larger

(* A function on 1..n with values in S is a sequence of n elements of S. *)
LEMMA FunctionIsSeq ==
    ASSUME NEW S, NEW n \in Nat, NEW f \in [1..n -> S]
    PROVE  f \in Seq(S) /\ Len(f) = n
  OBVIOUS

(* The blocks run r has written so far, if nobody else writes. *)
Part(r, n) == [i \in 1..n |-> <<r, i>>]

LEMMA PartType ==
    ASSUME NEW r \in Runs, NEW n \in 0..MaxBlocks
    PROVE  /\ Part(r, n) \in Seq(Blocks) /\ Len(Part(r, n)) = n
           /\ \A i \in 1..n : Part(r, n)[i] # Hole
<1>1. Part(r, n) \in [1..n -> Blocks]
  BY ConstantsAssumption DEF Part, Blocks
<1>2. n \in Nat
  BY ConstantsAssumption
<1>3. \A i \in 1..n : <<r, i>> # Hole
  BY ConstantsAssumption, SentinelsAssumption
<1> QED
  BY <1>1, <1>2, <1>3, FunctionIsSeq DEF Part

LEMMA OverwrittenType ==
    ASSUME TypeOK, NEW r \in Runs, report # NoFile, NEW n \in 1..(length[r] - offset[r])
    PROVE  Overwritten(r, n) \in Seq(Blocks)
<1> DEFINE end == offset[r] + n
           size_ == Larger(end, Len(report))
<1>1. /\ offset[r] \in Nat /\ length[r] \in 1..MaxBlocks /\ n \in Nat
      /\ end \in 0..MaxBlocks /\ end \in Nat
  BY ConstantsAssumption DEF TypeOK
<1>2. report \in Seq(Blocks) /\ Len(report) \in Nat
  BY DEF TypeOK
<1>3. size_ \in Nat
  BY <1>1, <1>2 DEF Larger
<1>4. \A i \in Nat : i \in (offset[r] + 1)..end => <<r, i>> \in Blocks
  BY <1>1, ConstantsAssumption DEF Blocks
<1> DEFINE block(i) == IF i \in (offset[r] + 1)..end THEN <<r, i>>
                       ELSE IF i <= Len(report) THEN report[i]
                       ELSE Hole
<1>5. ASSUME NEW i \in 1..size_ PROVE block(i) \in Blocks
  <2>1. i \in Nat /\ i >= 1
    BY <1>3
  <2>2. CASE i \in (offset[r] + 1)..end
    BY <1>4, <2>1, <2>2
  <2>3. CASE i \notin (offset[r] + 1)..end /\ i <= Len(report)
    <3>1. i \in 1..Len(report)
      BY <1>2, <2>1, <2>3
    <3>2. report[i] \in Blocks
      BY <1>2, <3>1, ElementOfSeq
    <3> QED
      BY <2>3, <3>2
  <2>4. CASE i \notin (offset[r] + 1)..end /\ ~ (i <= Len(report))
    BY <2>4 DEF Blocks
  <2> QED
    BY <2>2, <2>3, <2>4
<1>6. Overwritten(r, n) = [i \in 1..size_ |-> block(i)]
  BY DEF Overwritten
<1> HIDE DEF size_, block
<1> QED
  BY <1>3, <1>5, <1>6, FunctionIsSeq

(* Writing on where the run alone has written so far. *)
LEMMA LoneWrite ==
    ASSUME TypeOK, NEW r \in Runs, report = Part(r, offset[r]),
           NEW n \in 1..(length[r] - offset[r])
    PROVE  Overwritten(r, n) = Part(r, offset[r] + n)
<1>1. offset[r] \in 0..MaxBlocks /\ length[r] \in 1..MaxBlocks /\ n \in Nat /\ n >= 1
      /\ offset[r] \in Nat
  BY ConstantsAssumption DEF TypeOK
<1>2. Len(report) = offset[r]
  BY <1>1, PartType
<1>3. Larger(offset[r] + n, Len(report)) = offset[r] + n
  BY <1>1, <1>2 DEF Larger
<1>4. \A i \in 1..(offset[r] + n) : i <= offset[r] => report[i] = <<r, i>>
  BY <1>1 DEF Part
<1> QED
  BY <1>1, <1>2, <1>3, <1>4 DEF Overwritten, Part

-----------------------------------------------------------------------------
(* The inductive invariant.                                                *)

(* A run that opened the report has emptied it. *)
FileInv ==
    /\ latest = NoRun <=> report = NoFile
    /\ \A r \in Runs : Writing(r) => latest # NoRun
    /\ \A c \in Collects : colPc[c] \in {"stat", "read"} => report # NoFile

WriterInv ==
    /\ \A r \in Runs : Writing(r) /\ r # latest => latest \in overlapped
    /\ \A r \in Runs : runPc[r] = "done" => offset[r] = length[r]
    /\ \A r \in Runs : Writing(r) => offset[r] <= length[r]

LatestInv ==
    latest # NoRun /\ latest \notin overlapped => report = Part(latest, offset[latest])

HoleInv ==
    overlapped = {} =>
        \A c \in Collects :
            /\ \A i \in 1..Len(data[c]) : data[c][i] # Hole
            /\ answer[c].kind # "binary"

ReportInv == TypeOK /\ FileInv /\ WriterInv /\ LatestInv /\ HoleInv

LEMMA InvInit == Init => ReportInv
<1> SUFFICES ASSUME Init PROVE ReportInv
  OBVIOUS
<1>1. TypeOK
  BY ConstantsAssumption, EmptySeq DEF Init, TypeOK, Answers
<1>2. FileInv /\ WriterInv /\ LatestInv /\ HoleInv
  BY ConstantsAssumption, EmptySeq DEF Init, FileInv, WriterInv, LatestInv, HoleInv, Writing
<1> QED
  BY <1>1, <1>2 DEF ReportInv

(* The steps of a run that leave the file alone. *)
LEMMA RunKeeps ==
    ASSUME ReportInv, NEW r \in Runs,
           RunCommand(r) \/ OpenFails(r) \/ Returns(r) \/ WriteFails(r)
    PROVE  ReportInv'
<1> USE DEF colVars
<1>1. /\ UNCHANGED <<report, offset, latest, overlapped, colVars, quiet, outages>>
      /\ runPc' \in [Runs -> {"command", "open", "write", "done", "command_failed",
                           "open_failed", "write_failed", "killed"}]
      /\ length' \in [Runs -> 1..MaxBlocks]
  BY DEF RunCommand, OpenFails, Returns, WriteFails, ReportInv, TypeOK
<1>2. TypeOK'
  BY <1>1 DEF ReportInv, TypeOK
<1>3. \A o \in Runs : Writing(o)' => Writing(o) /\ length'[o] = length[o]
  BY DEF RunCommand, OpenFails, Returns, WriteFails, Writing, ReportInv, TypeOK
<1>4. \A o \in Runs : runPc'[o] = "done" => offset[o] = length'[o]
  BY DEF RunCommand, OpenFails, Returns, WriteFails, Writing, ReportInv, TypeOK, WriterInv
<1>5. FileInv'
  BY <1>1, <1>3 DEF ReportInv, FileInv
<1>6. WriterInv'
  BY <1>1, <1>3, <1>4 DEF ReportInv, WriterInv
<1>7. LatestInv' /\ HoleInv'
  BY <1>1 DEF ReportInv, LatestInv, HoleInv, Part
<1> QED
  BY <1>2, <1>5, <1>6, <1>7 DEF ReportInv

LEMMA OpenKeeps == ASSUME ReportInv, NEW r \in Runs, Open(r) PROVE ReportInv'
<1> USE DEF Open, Opened, Change, colVars
<1>1. <<>> \in Seq(Blocks) /\ <<>> # NoFile
  BY EmptySeq, SentinelsAssumption
<1>2. TypeOK'
  BY <1>1, ConstantsAssumption DEF ReportInv, TypeOK
<1>3. r # NoRun
  BY SentinelsAssumption
<1>4. \A o \in Runs : Writing(o)' => o = r \/ Writing(o)
  BY DEF ReportInv, TypeOK, Writing
<1>5. FileInv'
  BY <1>1, <1>3 DEF ReportInv, FileInv
<1>6. WriterInv'
  BY <1>4, ConstantsAssumption DEF ReportInv, TypeOK, WriterInv, Writing
<1>7. LatestInv'
  <2>1. offset'[r] = 0 /\ latest' = r /\ report' = <<>>
    BY DEF ReportInv, TypeOK
  <2>2. Part(r, 0) = <<>>
    BY DEF Part
  <2> QED
    BY <2>1, <2>2 DEF LatestInv, Part
<1>8. HoleInv'
  BY DEF ReportInv, HoleInv
<1> QED
  BY <1>2, <1>5, <1>6, <1>7, <1>8 DEF ReportInv

LEMMA WriteKeeps == ASSUME ReportInv, NEW r \in Runs, Write(r) PROVE ReportInv'
<1> USE DEF Write, Change, colVars
<1>1. PICK n \in 1..(length[r] - offset[r]) :
          /\ report' = Overwritten(r, n)
          /\ offset' = [offset EXCEPT ![r] = @ + n]
  OBVIOUS
<1>2. TypeOK /\ report # NoFile /\ Writing(r)
  BY DEF ReportInv, FileInv
<1>3. report' \in Seq(Blocks) /\ report' # NoFile
  BY <1>1, <1>2, OverwrittenType, SentinelsAssumption
<1>4. /\ offset[r] \in Nat /\ length[r] \in 1..MaxBlocks /\ n \in Nat
      /\ offset[r] + n <= length[r] /\ offset[r] + n \in 0..MaxBlocks
  BY ConstantsAssumption DEF ReportInv, TypeOK
<1>5. TypeOK'
  <2>1. quiet' \in [Collects -> BOOLEAN]
    OBVIOUS
  <2>2. offset' \in [Runs -> 0..MaxBlocks]
    BY <1>1, <1>2, <1>4 DEF TypeOK
  <2> QED
    BY <1>2, <1>3, <2>1, <2>2 DEF TypeOK
<1>6. FileInv'
  BY <1>2, <1>3 DEF ReportInv, FileInv, Writing
<1>7. WriterInv'
  BY <1>1, <1>2, <1>4 DEF ReportInv, TypeOK, WriterInv, Writing
<1>8. LatestInv'
  <2>1. SUFFICES ASSUME latest # NoRun, latest \notin overlapped
                 PROVE  report' = Part(latest, offset'[latest])
    BY DEF LatestInv, Part
  <2>2. latest = r /\ report = Part(r, offset[r])
    BY <1>2, <2>1 DEF ReportInv, WriterInv, LatestInv
  <2>3. Overwritten(r, n) = Part(r, offset[r] + n)
    BY <1>2, <2>2, LoneWrite
  <2>4. offset'[r] = offset[r] + n
    BY <1>1, <1>2 DEF TypeOK
  <2> QED
    BY <1>1, <2>2, <2>3, <2>4
<1>9. HoleInv'
  BY DEF ReportInv, HoleInv
<1> QED
  BY <1>5, <1>6, <1>7, <1>8, <1>9 DEF ReportInv

(* While no two runs have overlapped the report has no hole. *)
LEMMA NoHole ==
    ASSUME ReportInv, report # NoFile, overlapped = {}
    PROVE  \A i \in 1..Len(report) : report[i] # Hole
<1>1. latest \in Runs /\ report = Part(latest, offset[latest])
  BY DEF ReportInv, TypeOK, FileInv, LatestInv
<1> QED
  BY <1>1, PartType DEF ReportInv, TypeOK

LEMMA AnswerFacts ==
    ASSUME TypeOK, NEW c \in Collects, NEW what \in Answers, Answer(c, what)
    PROVE  /\ answer'[c] = what
           /\ \A d \in Collects : d # c => answer'[d] = answer[d]
           /\ answer' \in [Collects -> Answers]
           /\ colPc' \in [Collects -> {"resolve", "stat", "read", "done"}]
           /\ colPc'[c] = "done"
           /\ \A d \in Collects : d # c => colPc'[d] = colPc[d]
  BY DEF TypeOK, Answer

LEMMA ResolveStatKeeps ==
    ASSUME ReportInv, NEW c \in Collects, Resolve(c) \/ Stat(c)
    PROVE  ReportInv'
<1> USE DEF Resolve, Stat, Answer, runVars
<1>1. UNCHANGED <<report, runVars, data, outages>>
  OBVIOUS
<1>2. CASE Stat(c)
  <2>1. Len(report) \in Nat
    BY <1>2 DEF ReportInv, TypeOK, FileInv
  <2>2. TypeOK'
    BY <1>1, <1>2, <2>1 DEF ReportInv, TypeOK
  <2>3. FileInv' /\ HoleInv'
    <3>1. UNCHANGED answer /\ \A d \in Collects : colPc'[d] \in {"stat", "read"} =>
                                                colPc[d] \in {"stat", "read"}
      BY <1>2 DEF ReportInv, TypeOK
    <3> QED
      BY <1>1, <3>1 DEF ReportInv, FileInv, HoleInv, Writing
  <2>4. WriterInv' /\ LatestInv'
    BY <1>1 DEF ReportInv, WriterInv, LatestInv, Writing, Part
  <2> QED
    BY <2>2, <2>3, <2>4 DEF ReportInv
<1>3. CASE Resolve(c)
  <2>1. [kind |-> "not_found"] \in Answers
    BY DEF Answers
  <2>2. TypeOK'
    BY <1>1, <1>3, <2>1 DEF ReportInv, TypeOK
  <2>3. HoleInv'
    <3>1. CASE UNCHANGED answer
      BY <1>1, <3>1 DEF ReportInv, HoleInv
    <3>2. CASE Answer(c, [kind |-> "not_found"])
      <4>1. /\ answer'[c].kind = "not_found"
            /\ \A d \in Collects : d # c => answer'[d] = answer[d]
        BY <2>1, <3>2, AnswerFacts DEF ReportInv
      <4> QED
        BY <1>1, <4>1 DEF ReportInv, HoleInv
    <3> QED
      BY <1>3, <3>1, <3>2
  <2>4. FileInv'
    BY <1>1, <1>3 DEF ReportInv, TypeOK, FileInv, Writing
  <2>5. WriterInv' /\ LatestInv'
    BY <1>1 DEF ReportInv, WriterInv, LatestInv, Writing, Part
  <2> QED
    BY <2>2, <2>3, <2>4, <2>5 DEF ReportInv
<1> QED
  BY <1>2, <1>3

(* What a read system call adds to the data of a collection. *)
LEMMA ReadAdds ==
    ASSUME TypeOK, report # NoFile, NEW c \in Collects,
           NEW n \in 1..(Smaller(ReadLimit, Len(report)) - Len(data[c]))
    PROVE  LET old == data[c]
               new == old \o SubSeq(report, Len(old) + 1, Len(old) + n)
           IN  /\ new \in Seq(Blocks)
               /\ Len(new) = Len(old) + n
               /\ Len(new) <= Smaller(ReadLimit, Len(report))
               /\ \A i \in 1..Len(new) :
                     new[i] = IF i <= Len(old) THEN old[i] ELSE report[i]
               /\ \A i \in 1..Len(new) : i \in 1..Len(report)
<1> DEFINE old == data[c]
           more == SubSeq(report, Len(old) + 1, Len(old) + n)
           room == Smaller(ReadLimit, Len(report))
<1>1. /\ old \in Seq(Blocks) /\ report \in Seq(Blocks)
      /\ Len(old) \in Nat /\ Len(report) \in Nat
  BY DEF TypeOK
<1>2. ReadLimit \in Nat
  BY ConstantsAssumption DEF ReadLimit, Larger
<1>3. room \in Nat /\ room <= Len(report)
  BY <1>1, <1>2, SizeFacts
<1> HIDE DEF room
<1>4. n \in Nat /\ n >= 1 /\ Len(old) + n <= room /\ Len(old) + n <= Len(report)
  BY <1>1, <1>3 DEF room
<1>5. \A i \in (Len(old) + 1)..(Len(old) + n) : report[i] \in Blocks
  <2>1. \A i \in (Len(old) + 1)..(Len(old) + n) : i \in 1..Len(report)
    BY <1>1, <1>4
  <2> QED
    BY <1>1, <2>1, ElementOfSeq
<1>6. /\ more \in Seq(Blocks) /\ Len(more) = n
      /\ \A i \in 1..n : more[i] = report[Len(old) + i]
  <2>1. Len(old) + 1 \in Int /\ Len(old) + n \in Int
        /\ Len(old) + 1 <= Len(old) + n
        /\ Len(old) + n - (Len(old) + 1) + 1 = n
        /\ \A i \in 1..n : Len(old) + 1 + i - 1 = Len(old) + i
    BY <1>1, <1>4
  <2> QED
    BY <1>5, <2>1, SubSeqProperties
<1> HIDE DEF old, more
<1>7. /\ old \o more \in Seq(Blocks)
      /\ Len(old \o more) = Len(old) + n
      /\ \A i \in 1..(Len(old) + n) :
            (old \o more)[i] = IF i <= Len(old) THEN old[i] ELSE more[i - Len(old)]
  BY <1>1, <1>6, ConcatProperties
<1>8. \A i \in 1..(Len(old) + n) : ~ (i <= Len(old)) => more[i - Len(old)] = report[i]
  BY <1>1, <1>4, <1>6
<1>9. /\ Len(old \o more) <= room
      /\ \A i \in 1..Len(old \o more) :
            (old \o more)[i] = IF i <= Len(old) THEN old[i] ELSE report[i]
      /\ \A i \in 1..Len(old \o more) : i \in 1..Len(report)
  BY <1>1, <1>4, <1>7, <1>8
<1> QED
  BY <1>7, <1>9 DEF old, more, room

LEMMA ReadKeeps == ASSUME ReportInv, NEW c \in Collects, ReadSome(c) PROVE ReportInv'
<1> USE DEF ReadSome, runVars
<1>1. report # NoFile /\ TypeOK
  BY DEF ReportInv, FileInv
<1>2. PICK n \in 1..(Smaller(ReadLimit, Len(report)) - Len(data[c])) :
          data' = [data EXCEPT ![c] =
                      data[c] \o SubSeq(report, Len(data[c]) + 1, Len(data[c]) + n)]
  OBVIOUS
<1> DEFINE new == data[c] \o SubSeq(report, Len(data[c]) + 1, Len(data[c]) + n)
<1>3. /\ new \in Seq(Blocks)
      /\ \A i \in 1..Len(new) : new[i] = IF i <= Len(data[c]) THEN data[c][i] ELSE report[i]
      /\ \A i \in 1..Len(new) : i \in 1..Len(report)
  BY <1>1, ReadAdds
<1> HIDE DEF new
<1>4. data' = [data EXCEPT ![c] = new] /\ data'[c] = new
  BY <1>1, <1>2 DEF new, TypeOK
<1>5. TypeOK'
  BY <1>1, <1>3, <1>4 DEF TypeOK
<1>6. HoleInv'
  <2>1. SUFFICES ASSUME overlapped = {}, NEW d \in Collects
                 PROVE  /\ \A i \in 1..Len(data'[d]) : data'[d][i] # Hole
                        /\ answer[d].kind # "binary"
    BY DEF HoleInv
  <2>2. Len(data[c]) \in Nat /\ \A i \in 1..Len(data[c]) : data[c][i] # Hole
    BY <1>1, <2>1 DEF ReportInv, HoleInv, TypeOK
  <2>3. \A i \in 1..Len(report) : report[i] # Hole
    BY <1>1, <2>1, NoHole
  <2>4. Len(new) \in Nat
    BY <1>3
  <2>5. \A i \in 1..Len(new) : new[i] # Hole
    BY <1>3, <2>2, <2>3, <2>4
  <2>6. d # c => data'[d] = data[d]
    BY <1>1, <1>4 DEF TypeOK
  <2> QED
    BY <1>4, <2>1, <2>5, <2>6 DEF ReportInv, HoleInv
<1>7. FileInv' /\ WriterInv' /\ LatestInv'
  BY DEF ReportInv, FileInv, WriterInv, LatestInv, Writing, Part
<1> QED
  BY <1>5, <1>6, <1>7 DEF ReportInv

(* A prefix of a sequence. *)
LEMMA PrefixFacts ==
    ASSUME NEW s \in Seq(Blocks), NEW n \in Nat
    PROVE  LET p == SubSeq(s, 1, Smaller(n, Len(s)))
           IN  /\ p \in Seq(Blocks)
               /\ Len(p) = Smaller(n, Len(s))
               /\ \A i \in 1..Len(p) : p[i] = s[i] /\ i \in 1..Len(s)
<1> DEFINE m == Smaller(n, Len(s))
<1>1. Len(s) \in Nat /\ m \in Nat /\ m <= Len(s)
  BY DEF Smaller
<1> HIDE DEF m
<1>2. \A i \in 1..m : s[i] \in Blocks
  BY <1>1, ElementOfSeq
<1>3. /\ SubSeq(s, 1, m) \in Seq(Blocks) /\ Len(SubSeq(s, 1, m)) = m
      /\ \A i \in 1..m : SubSeq(s, 1, m)[i] = s[i]
  <2>1. 1 \in Int /\ m \in Int /\ m - 1 + 1 = m /\ (1 <= m \/ m = 0)
        /\ \A i \in 1..m : 1 + i - 1 = i
    BY <1>1
  <2> QED
    BY <1>2, <2>1, SubSeqProperties
<1>4. \A i \in 1..Len(SubSeq(s, 1, m)) : SubSeq(s, 1, m)[i] = s[i] /\ i \in 1..Len(s)
  BY <1>1, <1>3
<1>5. Len(SubSeq(s, 1, m)) = m /\ SubSeq(s, 1, m) \in Seq(Blocks)
  BY <1>3
<1> QED
  BY <1>4, <1>5 DEF m

LEMMA FoundType ==
    ASSUME TypeOK, NEW c \in Collects
    PROVE  /\ Found(c) \in Answers
           /\ Found(c).kind = "binary" =>
                \E i \in 1..Smaller(Sample, Len(data[c])) : i \in 1..Len(data[c]) /\ data[c][i] = Hole
<1> DEFINE sample == SubSeq(data[c], 1, Smaller(Sample, Len(data[c])))
           content == SubSeq(data[c], 1, Smaller(Limit, Len(data[c])))
<1>1. /\ content \in Seq(Blocks)
      /\ Len(sample) = Smaller(Sample, Len(data[c]))
      /\ \A i \in 1..Len(sample) : sample[i] = data[c][i] /\ i \in 1..Len(data[c])
  BY ConstantsAssumption, PrefixFacts DEF TypeOK
<1>2. (size[c] > Limit) \in BOOLEAN
  OBVIOUS
<1>3. CASE \E i \in 1..Len(sample) : sample[i] = Hole
  <2>1. Found(c) = [kind |-> "binary"]
    BY <1>3 DEF Found
  <2> HIDE DEF sample, content
  <2> QED
    BY <1>1, <1>3, <2>1 DEF Answers
<1>4. CASE ~ \E i \in 1..Len(sample) : sample[i] = Hole
  <2>1. Found(c) = [kind |-> "artifact", content |-> content, truncated |-> size[c] > Limit]
    BY <1>4 DEF Found
  <2> HIDE DEF sample, content
  <2> QED
    BY <1>1, <1>2, <2>1 DEF Answers
<1> QED
  BY <1>3, <1>4

LEMMA CollectedKeeps == ASSUME ReportInv, NEW c \in Collects, Collected(c) PROVE ReportInv'
<1> USE DEF Collected, runVars
<1>1. /\ Found(c) \in Answers
      /\ answer'[c] = Found(c)
      /\ \A d \in Collects : d # c => answer'[d] = answer[d] /\ colPc'[d] = colPc[d]
      /\ answer' \in [Collects -> Answers]
      /\ colPc' \in [Collects -> {"resolve", "stat", "read", "done"}]
      /\ colPc'[c] = "done"
  BY FoundType, AnswerFacts DEF ReportInv
<1>2. TypeOK'
  BY <1>1 DEF ReportInv, TypeOK
<1>3. HoleInv'
  <2>1. overlapped = {} => Found(c).kind # "binary"
    BY FoundType DEF ReportInv, HoleInv
  <2> QED
    BY <1>1, <2>1 DEF ReportInv, HoleInv
<1>4. FileInv'
  BY <1>1 DEF ReportInv, FileInv, Writing
<1>5. WriterInv' /\ LatestInv'
  BY DEF ReportInv, WriterInv, LatestInv, Writing, Part
<1> QED
  BY <1>2, <1>3, <1>4, <1>5 DEF ReportInv

LEMMA CrashKeeps == ASSUME ReportInv, Crash PROVE ReportInv'
<1> USE DEF Crash
<1>1. [kind |-> "killed"] \in Answers
  BY DEF Answers
<1>2. TypeOK'
  <2>1. runPc' \in [Runs -> {"command", "open", "write", "done", "command_failed",
                           "open_failed", "write_failed", "killed"}]
    BY DEF ReportInv, TypeOK
  <2>2. answer' \in [Collects -> Answers]
    BY <1>1 DEF ReportInv, TypeOK
  <2>3. colPc' \in [Collects -> {"resolve", "stat", "read", "done"}] /\ outages' \in Nat
    BY DEF ReportInv, TypeOK
  <2> QED
    BY <2>1, <2>2, <2>3 DEF ReportInv, TypeOK
<1>3. \A r \in Runs : ~ Writing(r)' /\ (runPc'[r] = "done" => runPc[r] = "done")
  BY DEF Writing
<1>4. FileInv'
  BY <1>3 DEF ReportInv, FileInv
<1>5. WriterInv' /\ LatestInv'
  BY <1>3 DEF ReportInv, WriterInv, LatestInv, Part
<1>6. HoleInv'
  <2>1. \A d \in Collects : answer'[d] = answer[d] \/ answer'[d].kind = "killed"
    OBVIOUS
  <2> QED
    BY <2>1 DEF ReportInv, HoleInv
<1> QED
  BY <1>2, <1>4, <1>5, <1>6 DEF ReportInv

LEMMA InvNext == ReportInv /\ [Next]_vars => ReportInv'
<1> SUFFICES ASSUME ReportInv, [Next]_vars PROVE ReportInv'
  OBVIOUS
<1>1. ASSUME NEW r \in Runs, RunTests(r) PROVE ReportInv'
  BY <1>1, RunKeeps, OpenKeeps, WriteKeeps DEF RunTests
<1>2. ASSUME NEW c \in Collects, CollectArtifact(c) PROVE ReportInv'
  BY <1>2, ResolveStatKeeps, ReadKeeps, CollectedKeeps DEF CollectArtifact
<1>3. CASE Crash
  BY <1>3, CrashKeeps
<1>4. CASE UNCHANGED vars
  <2> USE <1>4 DEF vars, runVars, colVars
  <2>1. TypeOK'
    BY DEF ReportInv, TypeOK
  <2>2. FileInv' /\ WriterInv' /\ LatestInv' /\ HoleInv'
    BY DEF ReportInv, FileInv, WriterInv, LatestInv, HoleInv, Writing, Part
  <2> QED
    BY <2>1, <2>2 DEF ReportInv
<1> QED
  BY <1>1, <1>2, <1>3, <1>4 DEF Next, Finished

(* The inductive invariant holds of every behaviour. *)
THEOREM Invariant == Spec => []ReportInv
  BY InvInit, InvNext, PTL DEF Spec

-----------------------------------------------------------------------------

(* Every variable keeps its type. *)
THEOREM TypeCorrect == Spec => []TypeOK
<1>1. ReportInv => TypeOK
  BY DEF ReportInv
<1> QED
  BY <1>1, Invariant, PTL

(***************************************************************************)
(* run_tests: whatever earlier runs left, the report of the latest run is  *)
(* its own and whole once it returns, unless another wrote meanwhile.      *)
(***************************************************************************)
THEOREM LoneReport == Spec => []LoneReportIsWhole
<1>1. ReportInv => LoneReportIsWhole
  BY DEF ReportInv, TypeOK, WriterInv, LatestInv, LoneReportIsWhole, Report, Part
<1> QED
  BY <1>1, Invariant, PTL

(* collect_artifact refuses a report as binary only after two runs overlapped. *)
THEOREM BinaryIsOverlap == Spec => []BinaryOnlyByOverlap
<1>1. ReportInv => BinaryOnlyByOverlap
  BY DEF ReportInv, HoleInv, BinaryOnlyByOverlap
<1> QED
  BY <1>1, Invariant, PTL

-----------------------------------------------------------------------------
(* A collection nobody disturbs.                                           *)

(***************************************************************************)
(* As long as nobody has written since its stat, what a collection has     *)
(* read is the beginning of the report, as far as it is to be read.        *)
(***************************************************************************)
QuietInv ==
    \A c \in Collects :
        /\ colPc[c] \in {"resolve", "stat"} => data[c] = <<>> /\ ~ quiet[c]
        /\ colPc[c] # "done" => answer[c].kind = "none"
        /\ quiet[c] =>
              /\ report # NoFile
              /\ size[c] = Len(report)
              /\ Len(data[c]) <= Smaller(ReadLimit, Len(report))
              /\ \A i \in 1..Len(data[c]) : data[c][i] = report[i]
              /\ answer[c].kind \in {"artifact", "binary"} => answer[c] = Shown(report)

(* Cutting what was read at n, or the report itself, is the same. *)
LEMMA SamePrefix ==
    ASSUME TypeOK, report # NoFile, NEW c \in Collects, NEW n \in Nat, n <= ReadLimit,
           Len(data[c]) = Smaller(ReadLimit, Len(report)),
           \A i \in 1..Len(data[c]) : data[c][i] = report[i]
    PROVE  SubSeq(data[c], 1, Smaller(n, Len(data[c]))) = SubSeq(report, 1, Smaller(n, Len(report)))
<1> DEFINE p == SubSeq(data[c], 1, Smaller(n, Len(data[c])))
           q == SubSeq(report, 1, Smaller(n, Len(report)))
<1>1. data[c] \in Seq(Blocks) /\ report \in Seq(Blocks) /\ Len(report) \in Nat
  BY DEF TypeOK
<1>2. ReadLimit \in Nat
  BY ConstantsAssumption DEF ReadLimit, Larger
<1>3. Smaller(n, Len(data[c])) = Smaller(n, Len(report))
  BY <1>1, <1>2 DEF Smaller
<1>4. /\ p \in Seq(Blocks) /\ Len(p) = Smaller(n, Len(data[c]))
      /\ \A i \in 1..Len(p) : p[i] = data[c][i] /\ i \in 1..Len(data[c])
  BY <1>1, PrefixFacts
<1>5. /\ q \in Seq(Blocks) /\ Len(q) = Smaller(n, Len(report))
      /\ \A i \in 1..Len(q) : q[i] = report[i]
  BY <1>1, PrefixFacts
<1> HIDE DEF p, q
<1>6. Len(p) = Len(q) /\ \A i \in 1..Len(p) : p[i] = q[i]
  BY <1>3, <1>4, <1>5
<1>7. p = q
  BY <1>4, <1>5, <1>6, SeqEqual
<1> QED
  BY <1>7 DEF p, q

LEMMA QuietFound ==
    ASSUME TypeOK, report # NoFile, NEW c \in Collects, size[c] = Len(report),
           Len(data[c]) = Smaller(ReadLimit, Len(report)),
           \A i \in 1..Len(data[c]) : data[c][i] = report[i]
    PROVE  Found(c) = Shown(report)
<1> DEFINE sample == SubSeq(data[c], 1, Smaller(Sample, Len(data[c])))
           content == SubSeq(data[c], 1, Smaller(Limit, Len(data[c])))
<1>1. /\ Limit \in Nat /\ Sample \in Nat
      /\ Limit <= ReadLimit /\ Sample <= ReadLimit
      /\ report \in Seq(Blocks) /\ Len(report) \in Nat
  BY ConstantsAssumption DEF ReadLimit, Larger, TypeOK
<1>2. content = SubSeq(report, 1, Smaller(Limit, Len(report)))
  BY <1>1, SamePrefix
<1>3. sample = SubSeq(report, 1, Smaller(Sample, Len(report)))
  BY <1>1, SamePrefix
<1>4. Len(sample) = Smaller(Sample, Len(report)) /\ \A i \in 1..Len(sample) : sample[i] = report[i]
  <2> DEFINE q == SubSeq(report, 1, Smaller(Sample, Len(report)))
  <2>1. Len(q) = Smaller(Sample, Len(report)) /\ \A i \in 1..Len(q) : q[i] = report[i]
    BY <1>1, PrefixFacts
  <2>2. sample = q
    BY <1>3
  <2> HIDE DEF q, sample
  <2> QED
    BY <2>1, <2>2
<1>5. size[c] > Limit <=> Limit < Len(report)
  BY <1>1
<1>6. Found(c) = IF \E i \in 1..Len(sample) : sample[i] = Hole THEN [kind |-> "binary"]
                 ELSE [kind |-> "artifact", content |-> content, truncated |-> size[c] > Limit]
  BY DEF Found
<1> HIDE DEF sample, content
<1>7. (\E i \in 1..Len(sample) : sample[i] = Hole) <=>
      (\E i \in 1..Smaller(Sample, Len(report)) : report[i] = Hole)
  BY <1>4
<1> QED
  BY <1>2, <1>5, <1>6, <1>7 DEF Shown

LEMMA QuietInit == Init => QuietInv
  BY DEF Init, QuietInv

(* Who writes the report disturbs every collection. *)
LEMMA ChangeIsNotQuiet ==
    ASSUME QuietInv, NEW r \in Runs, RunTests(r)
    PROVE  QuietInv'
<1>1. UNCHANGED colVars
  BY DEF RunTests, RunCommand, Open, OpenFails, Write, Returns, WriteFails, colVars
<1>2. CASE UNCHANGED <<report, quiet>>
  BY <1>1, <1>2 DEF QuietInv, colVars, Shown
<1>3. CASE quiet' = [c \in Collects |-> FALSE]
  BY <1>1, <1>3 DEF QuietInv, colVars
<1> QED
  BY <1>2, <1>3 DEF RunTests, RunCommand, Open, OpenFails, Write, Returns, WriteFails, Change

LEMMA QuietCollects ==
    ASSUME ReportInv, QuietInv, NEW c \in Collects, CollectArtifact(c)
    PROVE  QuietInv'
<1> USE DEF runVars
<1>1. /\ TypeOK /\ UNCHANGED report /\ Shown(report)' = Shown(report)
      /\ \A d \in Collects : d # c =>
            /\ colPc'[d] = colPc[d] /\ size'[d] = size[d] /\ data'[d] = data[d]
            /\ answer'[d] = answer[d] /\ quiet'[d] = quiet[d]
  BY DEF ReportInv, TypeOK, CollectArtifact, Resolve, Stat, ReadSome, Collected, Answer, Shown
<1> DEFINE Quiet(d) ==
        /\ colPc[d] \in {"resolve", "stat"} => data[d] = <<>> /\ ~ quiet[d]
        /\ colPc[d] # "done" => answer[d].kind = "none"
        /\ quiet[d] =>
              /\ report # NoFile
              /\ size[d] = Len(report)
              /\ Len(data[d]) <= Smaller(ReadLimit, Len(report))
              /\ \A i \in 1..Len(data[d]) : data[d][i] = report[i]
              /\ answer[d].kind \in {"artifact", "binary"} => answer[d] = Shown(report)
<1>2. SUFFICES Quiet(c)'
  BY <1>1 DEF QuietInv
<1>3. Quiet(c)
  BY DEF QuietInv
<1>4. CASE Resolve(c)
  <2>1. UNCHANGED <<size, data, quiet>>
    BY <1>4 DEF Resolve
  <2>2. \/ colPc'[c] = "stat" /\ UNCHANGED answer
        \/ colPc'[c] = "done" /\ answer'[c].kind = "not_found"
    BY <1>1, <1>4 DEF Resolve, Answer, TypeOK
  <2> QED
    BY <1>1, <1>3, <1>4, <2>1, <2>2 DEF Resolve
<1>5. CASE Stat(c)
  <2>1. report # NoFile /\ Len(report) \in Nat
    BY <1>5 DEF Stat, ReportInv, FileInv, TypeOK
  <2>2. ReadLimit \in Nat
    BY ConstantsAssumption DEF ReadLimit, Larger
  <2>3. 0 <= Smaller(ReadLimit, Len(report))
    BY <2>1, <2>2, SizeFacts
  <2>4. /\ data'[c] = <<>> /\ colPc'[c] = "read" /\ size'[c] = Len(report)
        /\ UNCHANGED <<answer, data>> /\ answer[c].kind = "none"
    BY <1>1, <1>3, <1>5 DEF Stat, TypeOK
  <2> QED
    BY <1>1, <2>1, <2>3, <2>4
<1>6. CASE ReadSome(c)
  <2>1. /\ report # NoFile /\ UNCHANGED <<size, quiet, answer, colPc>> /\ colPc[c] = "read"
    BY <1>6 DEF ReadSome, ReportInv, FileInv
  <2>2. PICK n \in 1..(Smaller(ReadLimit, Len(report)) - Len(data[c])) :
            data' = [data EXCEPT ![c] =
                        data[c] \o SubSeq(report, Len(data[c]) + 1, Len(data[c]) + n)]
    BY <1>6 DEF ReadSome
  <2> DEFINE new == data[c] \o SubSeq(report, Len(data[c]) + 1, Len(data[c]) + n)
  <2>3. /\ Len(new) <= Smaller(ReadLimit, Len(report)) /\ Len(new) \in Nat
        /\ \A i \in 1..Len(new) : new[i] = IF i <= Len(data[c]) THEN data[c][i] ELSE report[i]
    BY <1>1, <2>1, ReadAdds
  <2> HIDE DEF new
  <2>4. data'[c] = new
    BY <1>1, <2>2 DEF new, TypeOK
  <2>5. quiet[c] => \A i \in 1..Len(new) : new[i] = report[i]
    <3>1. Len(data[c]) \in Nat
      BY <1>1 DEF TypeOK
    <3> QED
      BY <1>3, <2>3, <3>1
  <2> QED
    BY <1>1, <1>3, <2>1, <2>3, <2>4, <2>5
<1>7. CASE Collected(c)
  <2>1. /\ report # NoFile /\ UNCHANGED <<size, data, quiet>>
        /\ colPc'[c] = "done" /\ answer'[c] = Found(c)
    BY <1>1, <1>7 DEF Collected, Answer, TypeOK, ReportInv, FileInv
  <2>2. quiet[c] => Found(c) = Shown(report)
    <3>1. SUFFICES ASSUME quiet[c] PROVE Found(c) = Shown(report)
      OBVIOUS
    <3>2. ReadLimit \in Nat /\ Len(report) \in Nat /\ Len(data[c]) \in Nat
      BY <1>1, <2>1, ConstantsAssumption DEF ReadLimit, Larger, TypeOK
    <3>3. Len(data[c]) = Smaller(ReadLimit, Len(report))
      BY <1>3, <1>7, <3>1, <3>2 DEF Collected, Smaller
    <3> QED
      BY <1>1, <1>3, <2>1, <3>1, <3>3, QuietFound
  <2> QED
    BY <1>1, <1>3, <2>1, <2>2
<1> QED
  BY <1>4, <1>5, <1>6, <1>7 DEF CollectArtifact

LEMMA QuietCrash == ASSUME QuietInv, Crash PROVE QuietInv'
<1>1. /\ UNCHANGED <<report, size, data, quiet>>
      /\ \A c \in Collects :
            /\ colPc'[c] \in {"resolve", "done"}
            /\ colPc'[c] = "resolve" => colPc[c] = "resolve" /\ answer'[c] = answer[c]
            /\ answer'[c] = answer[c] \/ answer'[c].kind = "killed"
  BY DEF Crash
<1>2. Shown(report)' = Shown(report)
  BY <1>1 DEF Shown
<1> SUFFICES ASSUME NEW c \in Collects
             PROVE  /\ colPc'[c] \in {"resolve", "stat"} => data[c] = <<>> /\ ~ quiet[c]
                    /\ colPc'[c] # "done" => answer'[c].kind = "none"
                    /\ quiet[c] /\ answer'[c].kind \in {"artifact", "binary"}
                          => answer'[c] = Shown(report)
  BY <1>1, <1>2 DEF QuietInv
<1> QED
  BY <1>1 DEF QuietInv

LEMMA QuietNext == ReportInv /\ QuietInv /\ [Next]_vars => QuietInv'
<1> SUFFICES ASSUME ReportInv, QuietInv, [Next]_vars PROVE QuietInv'
  OBVIOUS
<1>1. CASE UNCHANGED vars
  BY <1>1 DEF vars, runVars, colVars, QuietInv, Shown
<1> QED
  BY <1>1, ChangeIsNotQuiet, QuietCollects, QuietCrash DEF Next, Finished

(***************************************************************************)
(* collect_artifact: what a collection nobody disturbed returns is what    *)
(* the report holds, cut and flagged exactly, whatever the limit, the      *)
(* length of the sample and the system calls of the read.                  *)
(***************************************************************************)
THEOREM QuietCollect == Spec => []QuietCollectIsExact
<1>1. Spec => []QuietInv
  BY Invariant, QuietInit, QuietNext, PTL DEF Spec
<1>2. QuietInv => QuietCollectIsExact
  BY DEF QuietInv, QuietCollectIsExact
<1> QED
  BY <1>1, <1>2, PTL

=============================================================================
