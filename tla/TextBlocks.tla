----------------------------- MODULE TextBlocks -----------------------------
(***************************************************************************)
(* Text as services/patching.py handles it.  A text is a sequence of       *)
(* blocks, one byte each; two texts are told apart by their blocks only.   *)
(* The definitions are what str.count and str.replace compute.             *)
(***************************************************************************)
EXTENDS Naturals, Sequences

(* block occurs in text starting at position i *)
MatchAt(text, block, i) ==
    /\ i + Len(block) - 1 <= Len(text)
    /\ \A j \in 1..Len(block) : text[i + j - 1] = block[j]

Matches(text, block) == {i \in 1..Len(text) : MatchAt(text, block, i)}

(***************************************************************************)
(* text.count(block): occurrences are counted from the left and do not     *)
(* overlap, so a match that begins inside a counted one is not counted.    *)
(* The empty block matches before each block of the text and at its end.   *)
(***************************************************************************)
Count(text, block) ==
    LET countFrom[i \in 1..(Len(text) + 1)] ==
            IF i > Len(text) THEN 0
            ELSE IF MatchAt(text, block, i) THEN 1 + countFrom[i + Len(block)]
            ELSE countFrom[i + 1]
    IN IF block = <<>> THEN Len(text) + 1 ELSE countFrom[1]

(* text.find(block) *)
First(text, block) ==
    CHOOSE i \in Matches(text, block) : \A j \in Matches(text, block) : i <= j

(* text.replace(block, new, 1), for a block that is not empty *)
ReplaceFirst(text, block, new) ==
    IF Matches(text, block) = {} THEN text
    ELSE LET first == First(text, block)
         IN SubSeq(text, 1, first - 1) \o new \o SubSeq(text, first + Len(block), Len(text))

=============================================================================
