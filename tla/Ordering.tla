------------------------------ MODULE Ordering ------------------------------
(***************************************************************************)
(* A finite set as a sequence, by an order on it.  The order is a set of   *)
(* pairs, <<x, y>> when x is y or comes before it, so that what is proved  *)
(* about sorting holds for every order.  Two orders are used: that of      *)
(* numbers, and that in which a walk meets the paths of a tree.  A path is *)
(* the sequence of the names on the way to it; a name is a number.         *)
(***************************************************************************)
EXTENDS Naturals, FiniteSets, SequencesExt

IsOrderOn(R, S) ==
    /\ \A x \in S : <<x, x>> \in R
    /\ \A x, y \in S : <<x, y>> \in R /\ <<y, x>> \in R => x = y
    /\ \A x, y, z \in S : <<x, y>> \in R /\ <<y, z>> \in R => <<x, z>> \in R
    /\ \A x, y \in S : <<x, y>> \in R \/ <<y, x>> \in R

(* The elements of S up to x. *)
UpTo(x, S, R) == {y \in S : <<y, x>> \in R}

(* The elements of S, each once, in the order R. *)
Sorted(S, R) ==
    [n \in 1..Cardinality(S) |-> CHOOSE x \in S : Cardinality(UpTo(x, S, R)) = n]

(* The order of the numbers in S. *)
Ascending(S) == {pair \in S \X S : pair[1] <= pair[2]}

(* A path comes before another: a directory before what is in it, in a directory by name. *)
Precedes(a, b) ==
    \/ IsStrictPrefix(a, b)
    \/ \E i \in DOMAIN a \cap DOMAIN b :
          a[i] < b[i] /\ SubSeq(a, 1, i - 1) = SubSeq(b, 1, i - 1)

WalkOrder(S) == {pair \in S \X S : pair[1] = pair[2] \/ Precedes(pair[1], pair[2])}

InOrder(S) == Sorted(S, WalkOrder(S))

=============================================================================
