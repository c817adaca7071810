-------------------------- MODULE Patching_proofs --------------------------
(***************************************************************************)
(* Proofs about Patching: its type invariant, that the file is always      *)
(* whole, and that the calls implement PatchedFile, for every number of    *)
(* calls, every text, every request and every bound.                       *)
(***************************************************************************)
EXTENDS Patching, SequenceTheorems, WellFoundedInduction, TLAPS

(* A set of numbers that is not empty has a least one. *)
LEMMA LeastExists ==
    ASSUME NEW S \in SUBSET Nat, S # {}
    PROVE  \E i \in S : \A j \in S : i <= j
<1> DEFINE R == OpToRel(<, Nat)
<1>1. PICK i \in S : \A j \in S : <<j, i>> \notin R
  <2>1. IsWellFoundedOn(R, Nat)
    BY NatLessThanWellFounded
  <2> HIDE DEF R
  <2> QED  BY <2>1, WFMin
<1>2. \A j \in S : ~ (j < i)
  BY <1>1 DEF OpToRel
<1> HIDE DEF R
<1>3. \A j \in S : i <= j
  BY <1>2
<1> QED
  BY <1>3

(* First is a match. *)
LEMMA FirstMatches ==
    ASSUME NEW text \in Texts, NEW block, Matches(text, block) # {}
    PROVE  First(text, block) \in Matches(text, block)
<1>1. Matches(text, block) \in SUBSET Nat
  BY DEF Matches
<1>2. \E i \in Matches(text, block) : \A j \in Matches(text, block) : i <= j
  BY <1>1, LeastExists
<1> QED
  BY <1>2 DEF First

(* Replacing a block of a text gives a text. *)
LEMMA ReplaceFirstType ==
    ASSUME NEW text \in Texts, NEW block \in Texts, NEW new \in Texts
    PROVE  ReplaceFirst(text, block, new) \in Texts
<1>1. CASE Matches(text, block) = {}
  BY <1>1 DEF ReplaceFirst
<1>2. CASE Matches(text, block) # {}
  <2> DEFINE first == First(text, block)
             before == SubSeq(text, 1, first - 1)
             after == SubSeq(text, first + Len(block), Len(text))
  <2>1. first \in 1..Len(text) /\ Len(text) \in Nat /\ Len(block) \in Nat
    BY <1>2, FirstMatches DEF Matches, Texts
  <2> HIDE DEF first
  <2>2. \A i \in 1..Len(text) : text[i] \in Blocks
    BY DEF Texts
  <2>3. before \in Seq(Blocks)
    <3>1. \A i \in 1..(first - 1) : text[i] \in Blocks
      BY <2>1, <2>2
    <3> QED  BY <2>1, <3>1, SubSeqProperties
  <2>4. after \in Seq(Blocks)
    <3>1. \A i \in (first + Len(block))..Len(text) : text[i] \in Blocks
      BY <2>1, <2>2
    <3> QED  BY <2>1, <3>1, SubSeqProperties
  <2> HIDE DEF before, after
  <2>5. before \o new \o after \in Seq(Blocks)
    <3>1. before \o new \in Seq(Blocks)
      BY <2>3, ConcatProperties DEF Texts
    <3> QED  BY <2>4, <3>1, ConcatProperties
  <2>6. ReplaceFirst(text, block, new) = before \o new \o after
    BY <1>2 DEF ReplaceFirst, before, after, first
  <2> QED
    BY <2>5, <2>6 DEF Texts
<1> QED
  BY <1>1, <1>2

-----------------------------------------------------------------------------
(* The inductive invariant.                                                *)

Early == {"call", "is_file", "stat_size", "read", "stat_mode", "mkstemp"}
Writing == {"write", "fsync", "chmod", "replace"}

(* What holds of a call, by the step it is at. *)
ResultInv(c) == pc[c] = "done" <=> result[c] # "none"

TempInv(c) ==
    /\ pc[c] \in Early => temp[c] = NoFile
    /\ pc[c] \in Writing => temp[c] \in Files
    /\ pc[c] \in {"fsync", "chmod", "replace"} => temp[c].text = Patched(c, original[c])
    /\ pc[c] \in {"chmod", "replace"} => temp[c].synced = TRUE
    /\ pc[c] = "replace" => temp[c].mode = mode[c]
    /\ pc[c] = "done" /\ result[c] \notin {"os_error", "killed"} => temp[c] = NoFile

ReadInv(c) ==
    pc[c] \in {"stat_mode", "mkstemp"} \cup Writing =>
        /\ Verdict(c, original[c]) = "write"
        /\ \E f \in named : f \in Files /\ f.text = original[c]

CallInv(c) == ResultInv(c) /\ TempInv(c) /\ ReadInv(c)

(* Every file the name has stood for is whole and on the disk. *)
NamedInv ==
    /\ target \in named
    /\ \A f \in named : f # NoFile => f.text # Torn /\ f.synced = TRUE

IInv == TypeOK /\ NamedInv /\ \A c \in Calls : CallInv(c)

-----------------------------------------------------------------------------

LEMMA PatchedType ==
    ASSUME TypeOK, NEW c \in Calls, NEW t \in Texts
    PROVE  Patched(c, t) \in Texts
<1>1. asked[c] \in [expected : Texts, replacement : Texts]
  BY ConstantsAssumption DEF TypeOK
<1>2. asked[c].expected \in Texts /\ asked[c].replacement \in Texts
  BY <1>1
<1> QED
  BY <1>2, ReplaceFirstType DEF Patched

LEMMA InvInit == Init => IInv
<1> SUFFICES ASSUME Init PROVE IInv
  OBVIOUS
<1>1. PICK t \in InitialTexts, m \in Modes :
          target = [text |-> t, mode |-> m, synced |-> TRUE]
  BY DEF Init
<1>2. target \in Files /\ t \in Texts
  BY <1>1, ConstantsAssumption DEF Files
<1>3. target.text # Torn /\ target.synced = TRUE
  BY <1>1, <1>2, ConstantsAssumption
<1>4. <<>> \in Texts
  BY EmptySeq DEF Texts
<1>5. TypeOK
  BY <1>2, <1>4, ConstantsAssumption DEF Init, TypeOK, Steps
<1>6. NamedInv
  BY <1>3 DEF Init, NamedInv
<1>7. ASSUME NEW c \in Calls PROVE CallInv(c)
  BY DEF Init, CallInv, ResultInv, TempInv, ReadInv, Early, Writing
<1> QED
  BY <1>5, <1>6, <1>7 DEF IInv

(* What a call does leaves what holds of another call. *)
LEMMA OtherCall ==
    ASSUME NEW d \in Calls, CallInv(d),
           pc'[d] = pc[d], asked'[d] = asked[d], original'[d] = original[d],
           mode'[d] = mode[d], result'[d] = result[d], temp'[d] = temp[d],
           named \subseteq named'
    PROVE  CallInv(d)'
<1>1. ResultInv(d)'
  BY DEF CallInv, ResultInv
<1>2. TempInv(d)'
  BY DEF CallInv, TempInv, Patched
<1>3. ReadInv(d)'
  BY DEF CallInv, ReadInv, Verdict, Patched
<1> QED
  BY <1>1, <1>2, <1>3 DEF CallInv

(***************************************************************************)
(* A call goes from one step to another without writing anything.          *)
(***************************************************************************)
LEMMA ProceedKeeps ==
    ASSUME IInv, NEW c \in Calls, NEW from, NEW to \in Steps, Proceed(c, from, to),
           \/ from \in Early /\ to \in {"is_file", "stat_size", "read"}
           \/ from # "done" /\ to = "cleanup"
    PROVE  IInv'
<1> USE DEF Proceed, Goto, diskVars
<1>1. TypeOK'
  BY DEF IInv, TypeOK
<1>2. NamedInv'
  BY DEF IInv, NamedInv
<1>3. ASSUME NEW d \in Calls PROVE CallInv(d)'
  <2>1. CASE d = c
    BY <2>1 DEF IInv, TypeOK, CallInv, ResultInv, TempInv, ReadInv, Early, Writing, Steps
  <2>2. CASE d # c
    BY <2>2, OtherCall DEF IInv, TypeOK
  <2> QED
    BY <2>1, <2>2
<1> QED
  BY <1>1, <1>2, <1>3 DEF IInv

(* A call ends before it wrote anything, or its cleanup fails. *)
LEMMA EndKeeps ==
    ASSUME IInv, NEW c \in Calls, NEW from, NEW how, End(c, from, how),
           \/ from \in Early /\ how \in {"read_only", "precondition", "not_found", "not_file",
                                          "too_large", "binary", "unchanged", "os_error"}
           \/ from = "cleanup" /\ how = "os_error"
    PROVE  IInv'
<1> USE DEF End, Goto, diskVars
<1>1. TypeOK'
  BY DEF IInv, TypeOK, Steps
<1>2. NamedInv'
  BY DEF IInv, NamedInv
<1>3. ASSUME NEW d \in Calls PROVE CallInv(d)'
  <2>1. CASE d = c
    BY <2>1 DEF IInv, TypeOK, CallInv, ResultInv, TempInv, ReadInv, Early, Writing, Steps
  <2>2. CASE d # c
    BY <2>2, OtherCall DEF IInv, TypeOK
  <2> QED
    BY <2>1, <2>2
<1> QED
  BY <1>1, <1>2, <1>3 DEF IInv

LEMMA EnterKeeps ==
    ASSUME IInv, NEW c \in Calls, Enter(c) \/ IsFile(c) \/ StatSize(c) PROVE IInv'
<1>1. CASE Enter(c)
  BY <1>1, EndKeeps, ProceedKeeps DEF Enter, Early, Steps
<1>2. CASE IsFile(c)
  BY <1>2, EndKeeps, ProceedKeeps DEF IsFile, Early, Steps
<1>3. CASE StatSize(c)
  BY <1>3, EndKeeps, ProceedKeeps DEF StatSize, Early, Steps
<1> QED
  BY <1>1, <1>2, <1>3

LEMMA TargetFile == ASSUME IInv, Exists PROVE target \in Files /\ target.text \in Texts
  BY DEF IInv, TypeOK, NamedInv, Exists, Files

LEMMA ReadFailsKeeps == ASSUME IInv, NEW c \in Calls, ReadFails(c) PROVE IInv'
  BY EndKeeps DEF ReadFails, Early

LEMMA ReadKeeps == ASSUME IInv, NEW c \in Calls, Read(c) PROVE IInv'
<1>1. Exists
  BY DEF Read
<1>2. CASE Verdict(c, target.text) # "write"
  <2>1. Verdict(c, target.text) \in {"precondition", "too_large", "binary", "unchanged"}
    BY <1>2 DEF Verdict
  <2>2. End(c, "read", Verdict(c, target.text))
    BY <1>2 DEF Read
  <2> QED
    BY <2>1, <2>2, EndKeeps DEF Early
<1>3. CASE Verdict(c, target.text) = "write"
  <2>1. /\ Goto(c, "read", "stat_mode")
        /\ original' = [original EXCEPT ![c] = target.text]
        /\ UNCHANGED <<mode, result, diskVars>>
    BY <1>3 DEF Read
  <2> USE <2>1 DEF Goto, diskVars
  <2>2. target \in Files /\ target.text \in Texts
    BY <1>1, TargetFile
  <2>3. TypeOK'
    BY <2>2 DEF IInv, TypeOK, Steps
  <2>4. NamedInv'
    BY DEF IInv, NamedInv
  <2>5. ASSUME NEW d \in Calls PROVE CallInv(d)'
    <3>1. CASE d = c
      <4>1. original'[c] = target.text /\ asked' = asked /\ pc'[c] = "stat_mode"
        BY DEF IInv, TypeOK
      <4>2. ReadInv(c)'
        <5>1. Verdict(c, original[c])' = "write"
          BY <1>3, <4>1 DEF Verdict, Patched
        <5> QED
          BY <2>2, <4>1, <5>1 DEF ReadInv, IInv, NamedInv
      <4>3. TempInv(c)' /\ ResultInv(c)'
        BY <4>1 DEF IInv, TypeOK, CallInv, ResultInv, TempInv, Early, Writing
      <4> QED
        BY <3>1, <4>2, <4>3 DEF CallInv
    <3>2. CASE d # c
      BY <3>2, OtherCall DEF IInv, TypeOK
    <3> QED
      BY <3>1, <3>2
  <2> QED
    BY <2>3, <2>4, <2>5 DEF IInv
<1> QED
  BY <1>1, <1>2, <1>3

LEMMA StatModeKeeps == ASSUME IInv, NEW c \in Calls, StatMode(c) PROVE IInv'
<1>1. CASE ~ Exists
  BY <1>1, EndKeeps DEF StatMode, Early
<1>2. CASE Exists
  <2>1. /\ Goto(c, "stat_mode", "mkstemp")
        /\ mode' = [mode EXCEPT ![c] = target.mode]
        /\ UNCHANGED <<original, result, diskVars>>
    BY <1>2 DEF StatMode
  <2> USE <2>1 DEF Goto, diskVars
  <2>2. target \in Files /\ target.mode \in Modes
    BY <1>2, TargetFile DEF Files
  <2>3. TypeOK'
    BY <2>2 DEF IInv, TypeOK, Steps
  <2>4. NamedInv'
    BY DEF IInv, NamedInv
  <2>5. ASSUME NEW d \in Calls PROVE CallInv(d)'
    <3>1. CASE d = c
      <4>1. pc'[c] = "mkstemp" /\ asked' = asked /\ original' = original
        BY DEF IInv, TypeOK
      <4>2. ReadInv(c)'
        BY <4>1 DEF IInv, CallInv, ReadInv, Verdict, Patched
      <4>3. TempInv(c)' /\ ResultInv(c)'
        BY <4>1 DEF IInv, TypeOK, CallInv, ResultInv, TempInv, Early, Writing
      <4> QED
        BY <3>1, <4>2, <4>3 DEF CallInv
    <3>2. CASE d # c
      BY <3>2, OtherCall DEF IInv, TypeOK
    <3> QED
      BY <3>1, <3>2
  <2> QED
    BY <2>3, <2>4, <2>5 DEF IInv
<1> QED
  BY <1>1, <1>2

(* A step writes the temporary file and leaves what the call's step asks of it. *)
LEMMA SetTempKeeps ==
    ASSUME IInv, NEW c \in Calls, NEW from, NEW to \in Steps, NEW f \in Files,
           SetTemp(c, from, to, f),
           from \in {"mkstemp"} \cup Writing, to \in Writing \cup {"cleanup"},
           to \in {"fsync", "chmod", "replace"} => f.text = Patched(c, original[c]),
           to \in {"chmod", "replace"} => f.synced = TRUE,
           to = "replace" => f.mode = mode[c]
    PROVE  IInv'
<1> USE DEF SetTemp, Goto
<1>1. TypeOK'
  BY DEF IInv, TypeOK
<1>2. NamedInv'
  BY DEF IInv, NamedInv
<1>3. ASSUME NEW d \in Calls PROVE CallInv(d)'
  <2>1. CASE d = c
    <3>1. /\ pc'[c] = to /\ temp'[c] = f
          /\ asked' = asked /\ original' = original /\ mode' = mode
      BY DEF IInv, TypeOK
    <3>2. ReadInv(c)'
      BY <3>1 DEF IInv, CallInv, ReadInv, Verdict, Patched, Writing
    <3>3. TempInv(c)'
      <4>1. Patched(c, original[c])' = Patched(c, original[c])
        BY <3>1 DEF Patched
      <4> QED
        BY <3>1, <4>1 DEF TempInv, Early, Writing
    <3>4. ResultInv(c)'
      BY <3>1 DEF IInv, CallInv, ResultInv, Writing
    <3> QED
      BY <2>1, <3>2, <3>3, <3>4 DEF CallInv
  <2>2. CASE d # c
    BY <2>2, OtherCall DEF IInv, TypeOK
  <2> QED
    BY <2>1, <2>2
<1> QED
  BY <1>1, <1>2, <1>3 DEF IInv

LEMMA WriteKeeps ==
    ASSUME IInv, NEW c \in Calls, MkStemp(c) \/ WriteTemp(c) \/ Fsync(c) \/ Chmod(c)
    PROVE  IInv'
<1>1. TypeOK /\ CallInv(c)
  BY DEF IInv
<1>2. CASE MkStemp(c)
  <2>1. [text |-> <<>>, mode |-> TempMode, synced |-> TRUE] \in Files
    BY EmptySeq, ConstantsAssumption DEF Files, Texts
  <2> QED
    BY <1>2, <2>1, SetTempKeeps DEF MkStemp, Writing, Steps
<1>3. CASE WriteTemp(c)
  <2>1. temp[c] \in Files
    BY <1>1, <1>3 DEF WriteTemp, SetTemp, Goto, CallInv, TempInv, Writing
  <2>2. Patched(c, original[c]) \in Texts
    BY <1>1, PatchedType DEF TypeOK
  <2> DEFINE f == [temp[c] EXCEPT !.text = Patched(c, original[c]), !.synced = FALSE]
  <2>3. f \in Files /\ f.text = Patched(c, original[c])
    BY <2>1, <2>2 DEF Files
  <2>4. SetTemp(c, "write", "fsync", f)
    BY <1>3 DEF WriteTemp
  <2> HIDE DEF f
  <2> QED
    BY <2>3, <2>4, SetTempKeeps DEF Writing, Steps
<1>4. CASE Fsync(c)
  <2> DEFINE f == [temp[c] EXCEPT !.synced = TRUE]
  <2>1. temp[c] \in Files /\ temp[c].text = Patched(c, original[c])
    BY <1>1, <1>4 DEF Fsync, SetTemp, Goto, CallInv, TempInv, Writing
  <2>2. f \in Files /\ f.text = Patched(c, original[c]) /\ f.synced = TRUE
    BY <2>1 DEF Files
  <2>3. SetTemp(c, "fsync", "chmod", f)
    BY <1>4 DEF Fsync
  <2> HIDE DEF f
  <2> QED
    BY <2>2, <2>3, SetTempKeeps DEF Writing, Steps
<1>5. CASE Chmod(c)
  <2> DEFINE f == [temp[c] EXCEPT !.mode = mode[c]]
  <2>1. temp[c] \in Files /\ temp[c].text = Patched(c, original[c]) /\ temp[c].synced = TRUE
    BY <1>1, <1>5 DEF Chmod, SetTemp, Goto, CallInv, TempInv, Writing
  <2>2. /\ f \in Files /\ f.text = Patched(c, original[c])
        /\ f.synced = TRUE /\ f.mode = mode[c]
    BY <1>1, <2>1 DEF Files, TypeOK
  <2>3. SetTemp(c, "chmod", "replace", f)
    BY <1>5 DEF Chmod
  <2> HIDE DEF f
  <2> QED
    BY <2>2, <2>3, SetTempKeeps DEF Writing, Steps
<1> QED
  BY <1>2, <1>3, <1>4, <1>5

LEMMA ReplaceKeeps == ASSUME IInv, NEW c \in Calls, Replace(c) PROVE IInv'
<1> USE DEF Replace, Goto, Name
<1>1. /\ temp[c] \in Files /\ temp[c].text = Patched(c, original[c]) /\ temp[c].synced = TRUE
      /\ original[c] \in Texts /\ TypeOK
  BY DEF IInv, CallInv, TempInv, Writing, TypeOK
<1>2. temp[c].text # Torn
  BY <1>1, PatchedType, ConstantsAssumption
<1>3. TypeOK'
  BY <1>1 DEF TypeOK, Steps
<1>4. NamedInv'
  BY <1>1, <1>2 DEF IInv, NamedInv
<1>5. ASSUME NEW d \in Calls PROVE CallInv(d)'
  <2>1. CASE d = c
    BY <2>1 DEF IInv, TypeOK, CallInv, ResultInv, TempInv, ReadInv, Early, Writing
  <2>2. CASE d # c
    BY <2>2, OtherCall DEF IInv, TypeOK
  <2> QED
    BY <2>1, <2>2
<1> QED
  BY <1>3, <1>4, <1>5 DEF IInv

LEMMA WriteFailsKeeps == ASSUME IInv, NEW c \in Calls, WriteFails(c) PROVE IInv'
<1>1. CASE \E step \in {"mkstemp", "fsync", "chmod", "replace"} : Proceed(c, step, "cleanup")
  BY <1>1, ProceedKeeps DEF Steps
<1>2. CASE SetTemp(c, "write", "cleanup", [temp[c] EXCEPT !.text = Torn, !.synced = FALSE])
  <2>1. temp[c] \in Files
    BY <1>2 DEF SetTemp, Goto, IInv, CallInv, TempInv, Writing
  <2>2. [temp[c] EXCEPT !.text = Torn, !.synced = FALSE] \in Files
    BY <2>1 DEF Files
  <2> QED
    BY <1>2, <2>2, SetTempKeeps DEF Writing, Steps
<1> QED
  BY <1>1, <1>2 DEF WriteFails

LEMMA CleanupKeeps == ASSUME IInv, NEW c \in Calls, Cleanup(c) PROVE IInv'
<1>1. CASE End(c, "cleanup", "os_error")
  BY <1>1, EndKeeps
<1>2. CASE /\ Goto(c, "cleanup", "done")
           /\ temp' = [temp EXCEPT ![c] = NoFile]
           /\ result' = [result EXCEPT ![c] = "write_failed"]
           /\ UNCHANGED <<original, mode, target, named>>
  <2> USE <1>2 DEF Goto
  <2>1. TypeOK'
    BY DEF IInv, TypeOK, Steps
  <2>2. NamedInv'
    BY DEF IInv, NamedInv
  <2>3. ASSUME NEW d \in Calls PROVE CallInv(d)'
    <3>1. CASE d = c
      BY <3>1 DEF IInv, TypeOK, CallInv, ResultInv, TempInv, ReadInv, Early, Writing
    <3>2. CASE d # c
      BY <3>2, OtherCall DEF IInv, TypeOK
    <3> QED
      BY <3>1, <3>2
  <2> QED
    BY <2>1, <2>2, <2>3 DEF IInv
<1> QED
  BY <1>1, <1>2 DEF Cleanup

LEMMA EditKeeps == ASSUME IInv, Edit PROVE IInv'
<1> USE DEF Edit, callVars
<1>1. PICK g \in Files \cup {NoFile} :
          /\ Name(g)
          /\ g # NoFile => g.text # Torn /\ g.synced = TRUE
  <2>1. CASE Name(NoFile)
    BY <2>1
  <2>2. CASE \E t \in EditorTexts, m \in Modes : Name([text |-> t, mode |-> m, synced |-> TRUE])
    <3>1. PICK t \in EditorTexts, m \in Modes : Name([text |-> t, mode |-> m, synced |-> TRUE])
      BY <2>2
    <3>2. t \in Texts /\ t # Torn
      BY ConstantsAssumption
    <3>3. [text |-> t, mode |-> m, synced |-> TRUE] \in Files
      BY <3>2 DEF Files
    <3> QED
      BY <3>1, <3>2, <3>3
  <2> QED
    BY <2>1, <2>2
<1>2. TypeOK'
  BY <1>1 DEF IInv, TypeOK, Name
<1>3. NamedInv'
  BY <1>1 DEF IInv, NamedInv, Name
<1>4. ASSUME NEW d \in Calls PROVE CallInv(d)'
  BY <1>1, OtherCall DEF IInv, Name
<1> QED
  BY <1>2, <1>3, <1>4 DEF IInv

(* The calls a kill ends are over, whatever it leaves of their files. *)
LEMMA KilledKeeps ==
    ASSUME IInv, Killed, NEW d \in Calls,
           temp'[d] = temp[d] \/ temp[d] # NoFile, temp[d] = NoFile => temp'[d] = NoFile,
           named \subseteq named'
    PROVE  CallInv(d)'
<1> USE DEF Killed
<1>1. CASE pc[d] = "done"
  <2>1. pc'[d] = "done" /\ result'[d] = result[d]
    BY <1>1
  <2>2. TempInv(d)'
    BY <1>1, <2>1 DEF IInv, CallInv, TempInv, Early, Writing
  <2> QED
    BY <1>1, <2>1, <2>2 DEF IInv, CallInv, ResultInv, ReadInv, Writing
<1>2. CASE pc[d] = "call"
  <2>1. pc'[d] = "call" /\ result'[d] = result[d] /\ temp[d] = NoFile
    BY <1>2 DEF IInv, CallInv, TempInv, Early
  <2> QED
    BY <1>2, <2>1 DEF IInv, CallInv, ResultInv, TempInv, ReadInv, Early, Writing
<1>3. CASE pc[d] \notin {"call", "done"}
  <2>1. pc'[d] = "done" /\ result'[d] = "killed"
    BY <1>3
  <2> QED
    BY <2>1 DEF CallInv, ResultInv, TempInv, ReadInv, Early, Writing
<1> QED
  BY <1>1, <1>2, <1>3

LEMMA KilledType ==
    ASSUME TypeOK, Killed
    PROVE  /\ pc' \in [Calls -> Steps] /\ outages' \in Nat
           /\ result' \in [Calls -> {"none", "read_only", "precondition", "not_found",
                  "not_file", "too_large", "binary", "unchanged", "changed", "write_failed",
                  "os_error", "killed"}]
           /\ UNCHANGED <<read_only, asked, original, mode, edits>>
  BY DEF TypeOK, Killed, Steps

LEMMA CrashKeeps == ASSUME IInv, Crash PROVE IInv'
<1> USE DEF Crash, diskVars
<1>1. TypeOK'
  BY KilledType DEF IInv, TypeOK
<1>2. NamedInv'
  BY DEF IInv, NamedInv
<1>3. ASSUME NEW d \in Calls PROVE CallInv(d)'
  BY KilledKeeps
<1> QED
  BY <1>1, <1>2, <1>3 DEF IInv

LEMMA SurvivesType == ASSUME NEW f \in Files PROVE Survives(f) \in Files
  BY DEF Survives, Files

LEMMA PowerLossKeeps == ASSUME IInv, PowerLoss PROVE IInv'
<1>1. PICK f \in named : Name(f)
  BY DEF PowerLoss, Survives, IInv, NamedInv
<1>2. named' = named /\ target' = f
  BY <1>1 DEF Name
<1>3. temp' \in [Calls -> Files \cup {NoFile}]
  BY SurvivesType DEF PowerLoss, IInv, TypeOK
<1>4. TypeOK'
  BY <1>2, <1>3, KilledType DEF PowerLoss, IInv, TypeOK
<1>5. NamedInv'
  BY <1>2 DEF IInv, NamedInv
<1>6. ASSUME NEW d \in Calls PROVE CallInv(d)'
  BY <1>2, KilledKeeps DEF PowerLoss
<1> QED
  BY <1>4, <1>5, <1>6 DEF IInv

LEMMA InvNext == IInv /\ [Next]_vars => IInv'
<1> SUFFICES ASSUME IInv, [Next]_vars PROVE IInv'
  OBVIOUS
<1>1. ASSUME NEW c \in Calls, ApplyPatch(c) PROVE IInv'
  BY <1>1, EnterKeeps, ReadFailsKeeps, ReadKeeps, StatModeKeeps, WriteKeeps, ReplaceKeeps,
     WriteFailsKeeps, CleanupKeeps
  DEF ApplyPatch
<1>2. CASE Edit \/ Crash \/ PowerLoss
  BY <1>2, EditKeeps, CrashKeeps, PowerLossKeeps
<1>3. CASE UNCHANGED vars
  <2> USE <1>3 DEF vars
  <2>1. TypeOK' /\ NamedInv'
    BY DEF IInv, TypeOK, NamedInv
  <2>2. ASSUME NEW d \in Calls PROVE CallInv(d)'
    BY OtherCall DEF IInv
  <2> QED
    BY <2>1, <2>2 DEF IInv
<1> QED
  BY <1>1, <1>2, <1>3 DEF Next, Finished

(* The inductive invariant holds of every behaviour of the calls. *)
THEOREM Invariant == Spec => []IInv
  BY InvInit, InvNext, PTL DEF Spec

-----------------------------------------------------------------------------

(* Every variable keeps its type, whatever the calls, kills and edits. *)
THEOREM TypeCorrect == Spec => []TypeOK
<1>1. IInv => TypeOK
  BY DEF IInv
<1> QED
  BY <1>1, Invariant, PTL

(***************************************************************************)
(* _atomic_write_text: nobody finds half a file, not after a kill and not  *)
(* after a power loss.                                                     *)
(***************************************************************************)
THEOREM AlwaysWhole == Spec => []TargetIsWhole
<1>1. IInv => TargetIsWhole
  BY DEF IInv, NamedInv, TargetIsWhole
<1> QED
  BY <1>1, Invariant, PTL

(* A call that ran to its end leaves no temporary file. *)
THEOREM TempsAreRemoved == Spec => []NoLitter
<1>1. IInv => NoLitter
  BY DEF IInv, CallInv, TempInv, NoLitter
<1> QED
  BY <1>1, Invariant, PTL

-----------------------------------------------------------------------------
(* The steps of a call and what they swap in.                              *)

(* Only a swap makes a call's result "changed". *)
LEMMA OnlyReplaceChanges ==
    ASSUME IInv, [Next]_vars, NEW c \in Calls, result'[c] = "changed", pc[c] # "done"
    PROVE  Replace(c)
<1>1. result[c] = "none"
  BY DEF IInv, CallInv, ResultInv
<1>2. PICK d \in Calls : ApplyPatch(d)
  BY <1>1 DEF Next, Finished, Edit, Crash, PowerLoss, Killed, vars, callVars, IInv, TypeOK
<1>3. result \in [Calls -> {"none", "read_only", "precondition", "not_found", "not_file",
                            "too_large", "binary", "unchanged", "changed", "write_failed",
                            "os_error", "killed"}]
  BY DEF IInv, TypeOK
<1> USE <1>1, <1>3 DEF End, Proceed, Goto, SetTemp, diskVars
<1>4. ~ (Enter(d) \/ IsFile(d) \/ StatSize(d))
  BY DEF Enter, IsFile, StatSize
<1>5. ~ Read(d) /\ ~ ReadFails(d)
  BY DEF Read, ReadFails, Verdict
<1>6. ~ (StatMode(d) \/ MkStemp(d) \/ WriteTemp(d) \/ Fsync(d) \/ Chmod(d))
  BY DEF StatMode, MkStemp, WriteTemp, Fsync, Chmod
<1>7. ~ (WriteFails(d) \/ Cleanup(d))
  BY DEF WriteFails, Cleanup
<1>8. Replace(d)
  BY <1>2, <1>4, <1>5, <1>6, <1>7 DEF ApplyPatch
<1>9. d = c
  BY <1>8 DEF Replace
<1> QED
  BY <1>8, <1>9

(* What a call is about to swap in. *)
LEMMA SwappedIn ==
    ASSUME IInv, NEW c \in Calls, Replace(c)
    PROVE  /\ temp[c] \in Files /\ temp[c].text = Patched(c, original[c])
           /\ temp[c].synced = TRUE /\ temp[c].mode = mode[c]
           /\ Verdict(c, original[c]) = "write"
           /\ target' = temp[c]
  BY DEF IInv, CallInv, TempInv, ReadInv, Writing, Replace, Goto, Name

(***************************************************************************)
(* If the file still has the text and the mode the call saw, the swap      *)
(* replaces the one match of the expected content and changes nothing else.*)
(***************************************************************************)
THEOREM UndisturbedExact == Spec => UndisturbedPatchIsExact
<1> DEFINE Exact == \A c \in Calls :
          /\ Swaps(c)
          /\ Exists
          /\ target.text = original[c]
          /\ target.mode = mode[c]
          => /\ Count(target.text, asked[c].expected) = 1
             /\ target' = [target EXCEPT !.text = Patched(c, target.text), !.synced = TRUE]
<1>1. ASSUME IInv, [Next]_vars, NEW c \in Calls, Swaps(c), Exists,
             target.text = original[c], target.mode = mode[c]
      PROVE  /\ Count(target.text, asked[c].expected) = 1
             /\ target' = [target EXCEPT !.text = Patched(c, target.text), !.synced = TRUE]
  <2>1. Replace(c)
    BY <1>1, OnlyReplaceChanges DEF Swaps
  <2>2. Count(target.text, asked[c].expected) = 1
    BY <1>1, <2>1, SwappedIn DEF Verdict
  <2>3. target \in Files /\ target' \in Files
    BY <1>1, <2>1, SwappedIn, TargetFile
  <2>4. /\ target'.text = Patched(c, target.text) /\ target'.synced = TRUE
        /\ target'.mode = target.mode
    BY <1>1, <2>1, SwappedIn
  <2>5. target' = [target EXCEPT !.text = Patched(c, target.text), !.synced = TRUE]
    BY <2>3, <2>4 DEF Files
  <2> QED
    BY <2>2, <2>5
<1>2. IInv /\ [Next]_vars => Exact
  BY <1>1
<1> QED
  BY <1>2, Invariant, PTL DEF Spec, UndisturbedPatchIsExact

-----------------------------------------------------------------------------
(* The calls implement PatchedFile.                                        *)

LEMMA FileInitially == Init => File!FileInit
  BY DEF Init, File!FileInit, TextOf

LEMMA NameHolds == ASSUME NEW f, Name(f) PROVE File!Holds(TextOf(f))
  BY DEF Name, File!Holds

LEMMA EndStep ==
    ASSUME IInv, NEW c \in Calls, NEW from, NEW how, End(c, from, how), from # "done",
           how \in File!Failures \cup {"unchanged"}
    PROVE  File!EndUnchanged
<1>1. result[c] = "none"
  BY DEF End, Goto, IInv, CallInv, ResultInv
<1>2. \A d \in Calls : d # c => result'[d] = result[d]
  BY DEF End, IInv, TypeOK
<1>3. result'[c] = how
  BY DEF End, IInv, TypeOK
<1> QED
  BY <1>1, <1>2, <1>3 DEF End, Goto, diskVars, File!EndUnchanged

LEMMA ReplaceStep == ASSUME IInv, NEW c \in Calls, Replace(c) PROVE File!Patch(c)
<1>1. result[c] = "none" /\ result' = [result EXCEPT ![c] = "changed"] /\ UNCHANGED asked
  BY DEF Replace, Goto, IInv, CallInv, ResultInv
<1>2. PICK f \in named : f \in Files /\ f.text = original[c]
  BY DEF Replace, Goto, IInv, CallInv, ReadInv, Writing
<1>3. /\ TextOf(f) = original[c]
      /\ original[c] \in {TextOf(g) : g \in named} \ {NoFile}
  BY <1>2, NoFileAssumption, ConstantsAssumption DEF TextOf, IInv, TypeOK
<1>4. /\ Count(original[c], asked[c].expected) = 1
      /\ ~ (Len(Patched(c, original[c])) > MaxFileBytes)
  BY SwappedIn DEF Verdict
<1>5. Len(Patched(c, original[c])) \in Nat
  BY PatchedType, LenProperties DEF IInv, TypeOK, Texts
<1>6. Len(Patched(c, original[c])) <= MaxFileBytes
  BY <1>4, <1>5, ConstantsAssumption
<1>7. File!Holds(Patched(c, original[c]))
  <2>1. TextOf(temp[c]) = Patched(c, original[c])
    BY SwappedIn, NoFileAssumption DEF TextOf
  <2> QED
    BY <2>1, NameHolds DEF Replace
<1> QED
  BY <1>1, <1>3, <1>4, <1>6, <1>7 DEF File!Patch, Patched

LEMMA KilledEnds ==
    ASSUME IInv, Killed, NEW c \in Calls
    PROVE  result'[c] = result[c] \/ (result[c] = "none" /\ result'[c] = "killed")
  BY DEF Killed, IInv, CallInv, ResultInv

LEMMA PowerLossStep == ASSUME IInv, PowerLoss PROVE File!Revert
<1>1. PICK f \in named : Name(f)
  BY DEF PowerLoss, Survives, IInv, NamedInv
<1>2. named' = named /\ target' = f
  BY <1>1 DEF Name
<1> QED
  BY <1>2, KilledEnds DEF PowerLoss, Killed, File!Revert

LEMMA FileStep == IInv /\ [Next]_vars => [File!FileNext]_(File!fileVars)
<1> SUFFICES ASSUME IInv, [Next]_vars PROVE [File!FileNext]_(File!fileVars)
  OBVIOUS
<1> DEFINE Stutters == UNCHANGED <<target, named, asked, result>>
<1>1. Stutters => UNCHANGED File!fileVars
  BY DEF File!fileVars
<1>2. ASSUME NEW c \in Calls, ApplyPatch(c) PROVE Stutters \/ File!EndUnchanged \/ File!Patch(c)
  <2>1. CASE Enter(c) \/ IsFile(c) \/ StatSize(c)
    BY <2>1, EndStep DEF Enter, IsFile, StatSize, Proceed, Goto, diskVars, File!Failures
  <2>2. CASE ReadFails(c) \/ Read(c)
    <3>1. CASE ReadFails(c)
      BY <3>1, EndStep DEF ReadFails, File!Failures
    <3>2. CASE Read(c) /\ Verdict(c, target.text) # "write"
      <4>1. Verdict(c, target.text) \in {"precondition", "too_large", "binary", "unchanged"}
        BY <3>2 DEF Verdict
      <4>2. End(c, "read", Verdict(c, target.text))
        BY <3>2 DEF Read
      <4> QED
        BY <4>1, <4>2, EndStep DEF File!Failures
    <3>3. CASE Read(c) /\ Verdict(c, target.text) = "write"
      BY <3>3 DEF Read, Goto, diskVars
    <3> QED
      BY <2>2, <3>1, <3>2, <3>3
  <2>3. CASE StatMode(c)
    BY <2>3, EndStep DEF StatMode, Goto, diskVars, File!Failures
  <2>4. CASE MkStemp(c) \/ WriteTemp(c) \/ Fsync(c) \/ Chmod(c) \/ WriteFails(c)
    BY <2>4 DEF MkStemp, WriteTemp, Fsync, Chmod, WriteFails, SetTemp, Proceed, Goto, diskVars
  <2>5. CASE Replace(c)
    BY <2>5, ReplaceStep
  <2>6. CASE Cleanup(c)
    <3>1. CASE End(c, "cleanup", "os_error")
      BY <3>1, EndStep DEF File!Failures
    <3>2. CASE /\ Goto(c, "cleanup", "done")
               /\ result' = [result EXCEPT ![c] = "write_failed"]
               /\ UNCHANGED <<target, named>>
      <4>1. /\ result[c] = "none" /\ result'[c] = "write_failed"
            /\ \A d \in Calls : d # c => result'[d] = result[d]
        BY <3>2 DEF Goto, IInv, TypeOK, CallInv, ResultInv
      <4> QED
        BY <3>2, <4>1 DEF Goto, File!EndUnchanged, File!Failures
    <3> QED
      BY <2>6, <3>1, <3>2 DEF Cleanup
  <2> QED
    BY <1>2, <2>1, <2>2, <2>3, <2>4, <2>5, <2>6 DEF ApplyPatch
<1>3. CASE Edit
  <2>1. PICK t \in EditorTexts \cup {NoFile} : File!Holds(t)
    <3>1. CASE Name(NoFile)
      <4>1. TextOf(NoFile) = NoFile
        BY DEF TextOf
      <4> QED
        BY <3>1, <4>1, NameHolds
    <3>2. CASE \E t \in EditorTexts, m \in Modes :
                  Name([text |-> t, mode |-> m, synced |-> TRUE])
      <4>1. PICK t \in EditorTexts, m \in Modes :
                Name([text |-> t, mode |-> m, synced |-> TRUE])
        BY <3>2
      <4>2. [text |-> t, mode |-> m, synced |-> TRUE] \in Files
        BY ConstantsAssumption DEF Files
      <4>3. TextOf([text |-> t, mode |-> m, synced |-> TRUE]) = t
        BY <4>2, NoFileAssumption DEF TextOf
      <4> QED
        BY <4>1, <4>3, NameHolds
    <3> QED
      BY <1>3, <3>1, <3>2 DEF Edit
  <2> QED
    BY <1>3, <2>1 DEF Edit, callVars, File!Edit, File!FileNext
<1>4. CASE Crash
  BY <1>4, KilledEnds DEF Crash, Killed, diskVars, File!EndUnchanged, File!Failures, File!FileNext
<1>5. CASE PowerLoss
  BY <1>5, PowerLossStep DEF File!FileNext
<1>6. CASE UNCHANGED vars
  BY <1>1, <1>6 DEF vars
<1> QED
  BY <1>1, <1>2, <1>3, <1>4, <1>5, <1>6 DEF Next, Finished, File!FileNext

(***************************************************************************)
(* Every behaviour of the calls is one that PatchedFile allows: one atomic *)
(* change by each call that succeeds, none by a call that fails.           *)
(***************************************************************************)
THEOREM Implementation == Spec => ImplementsPatchedFile
  BY FileInitially, FileStep, Invariant, PTL
  DEF Spec, ImplementsPatchedFile, File!FileSpec

=============================================================================
