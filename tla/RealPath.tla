------------------------------ MODULE RealPath ------------------------------
(***************************************************************************)
(* Path.resolve() of a root, which need not be strict (external: pathlib   *)
(* and posixpath.realpath).  It looks at one name after the other, as the  *)
(* resolution of a request does (PathResolution), but what is not there,   *)
(* or may not be looked at, is a name like any other: ".." after it takes  *)
(* it off again, where the kernel would have refused to go on.             *)
(*                                                                         *)
(* At a link that it is inside of Python 3.13 goes on as if that were no   *)
(* link, and 3.12 stops: the names that are left are added without a look. *)
(***************************************************************************)
EXTENDS FileTree

(***************************************************************************)
(* w.at is what is resolved, w.rest the names left, w.inside the links it  *)
(* is inside of and how many names are left when it comes out, w.known the *)
(* ends of those it has come out of; w.looped tells that it met one again. *)
(***************************************************************************)
Unresolved(names) ==
    [at |-> <<>>, rest |-> names, inside |-> <<>>, known |-> <<>>, looped |-> FALSE]

(* The names of the last link it has entered are used up. *)
Leaves(w) == w.inside # <<>> /\ Last(w.inside).left = Len(w.rest)

NextPlace(w) == Append(w.at, Head(w.rest))
Enters(w, link) ==
    [w EXCEPT !.at = IF link.to.absolute THEN <<>> ELSE @,
              !.rest = link.to.names \o Tail(@),
              !.inside = Append(@, [link |-> NextPlace(w), left |-> Len(w.rest) - 1])]

RealStep(python, tree, w) ==
    LET found == Lstat(tree, NextPlace(w))
        linked == found.kind = "link" /\ ~ (w.looped /\ python = "3.12")
        again == \E i \in DOMAIN w.inside : w.inside[i].link = NextPlace(w)
    IN IF Leaves(w) THEN [w EXCEPT !.inside = Front(@), !.known = Put(@, Last(w.inside).link, w.at)]
       ELSE IF w.rest = <<>> THEN w
       ELSE IF Head(w.rest) = ".." THEN [w EXCEPT !.at = Up(@), !.rest = Tail(@)]
       ELSE IF ~ linked THEN [w EXCEPT !.at = NextPlace(w), !.rest = Tail(@)]
       ELSE IF NextPlace(w) \in DOMAIN w.known THEN [w EXCEPT !.at = w.known[NextPlace(w)], !.rest = Tail(@)]
       ELSE IF again THEN [w EXCEPT !.at = NextPlace(w), !.rest = Tail(@), !.looped = TRUE]
       ELSE Enters(w, found)

(* As many looks as the kernel walks names. *)
Looked(python, tree, w) ==
    LET looked[n \in 0..MaxNames] == IF n = 0 THEN w ELSE RealStep(python, tree, looked[n - 1])
    IN looked[MaxNames]

(* Bound: twice as many, one for each link that it leaves.  Of a path that takes *)
(* more no end is known: some of its names are left.                             *)
RealPath(python, tree, names) ==
    LET half == Looked(python, tree, Unresolved(names))
    IN IF half.rest = <<>> THEN half ELSE Looked(python, tree, half)

(* Up to Python 3.12 a stat() of the end raises RuntimeError if that is a loop of links. *)
EndLoops(python, tree, place) == python = "3.12" /\ Stat(tree, place).kind = "ELOOP"
=============================================================================
