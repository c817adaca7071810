------------------------------ MODULE FileTree ------------------------------
(***************************************************************************)
(* A file system with symbolic links, as the kernel walks it (external).   *)
(*                                                                         *)
(* A place is the sequence of the names on the way from "/".  A tree maps  *)
(* places to nodes; nothing is at a place it does not mention.             *)
(***************************************************************************)
EXTENDS Integers, SequencesExt

(* f @@ g: what f maps as f does, and the rest as g does. *)
Over(f, g) == [x \in DOMAIN f \cup DOMAIN g |-> IF x \in DOMAIN f THEN f[x] ELSE g[x]]

(* A dictionary after map[key] = value. *)
Put(map, key, value) ==
    [x \in DOMAIN map \cup {key} |-> IF x = key THEN value ELSE map[x]]

Nothing == [kind |-> "none"]
Directory == [kind |-> "directory"]
LockedDirectory == [kind |-> "locked"]            \* may not be searched
File(bytes) == [kind |-> "file", bytes |-> bytes, readable |-> TRUE]
UnreadableFile(bytes) == [File(bytes) EXCEPT !.readable = FALSE]    \* may not be opened
PathOf(absolute, names) == [absolute |-> absolute, names |-> names]
Link(to) == [kind |-> "link", to |-> to]

Places == Seq(STRING)
TreeNodes ==
    {Nothing, Directory, LockedDirectory} \cup
    [kind: {"file"}, bytes: Seq(STRING), readable: BOOLEAN] \cup
    [kind: {"link"}, to: [absolute: BOOLEAN, names: Places]]

Node(tree, place) == IF place \in DOMAIN tree THEN tree[place] ELSE Nothing

(* Everything that exists is in a directory. *)
IsTree(tree) ==
    /\ <<>> \in DOMAIN tree
    /\ \A p \in DOMAIN tree :
          IF p = <<>> THEN tree[p] = Directory
          ELSE tree[p] # Nothing => Node(tree, Front(p)).kind \in {"directory", "locked"}

Up(place) == IF place = <<>> THEN <<>> ELSE Front(place)

(* A link met at walk.at: its target comes first, from there or from "/". *)
Follow(walk, link, rest) ==
    [walk EXCEPT !.at = IF link.to.absolute THEN <<>> ELSE @,
                 !.rest = link.to.names \o rest]

(***************************************************************************)
(* One name of a path.  walk.at is where the walk is, walk.rest the names  *)
(* that are left, walk.error why it has ended early.  A link that is the   *)
(* last name is followed if walk.last is set.                              *)
(***************************************************************************)
WalkStep(tree, walk) ==
    LET name == Head(walk.rest)
        rest == Tail(walk.rest)
        here == Node(tree, walk.at)
        next == Append(walk.at, name)
        node == Node(tree, next)
    IN IF walk.rest = <<>> \/ walk.error # "" THEN walk
       ELSE IF here.kind = "locked" THEN [walk EXCEPT !.error = "EACCES"]
       ELSE IF here.kind # "directory" THEN [walk EXCEPT !.error = "ENOTDIR"]
       ELSE IF name = ".." THEN [walk EXCEPT !.at = Up(@), !.rest = rest]
       ELSE IF node = Nothing THEN [walk EXCEPT !.error = "ENOENT"]
       ELSE IF node.kind = "link" /\ (rest # <<>> \/ walk.last) THEN Follow(walk, node, rest)
       ELSE [walk EXCEPT !.at = next, !.rest = rest]

(* Names the kernel walks, links included, before it answers ELOOP. *)
MaxNames == 16

Walked(tree, names, last) ==
    LET walked[n \in 0..MaxNames] ==
            IF n = 0 THEN [at |-> <<>>, rest |-> names, error |-> "", last |-> last]
            ELSE WalkStep(tree, walked[n - 1])
        end == walked[MaxNames]
    IN IF end.error = "" /\ end.rest # <<>> THEN [end EXCEPT !.error = "ELOOP"] ELSE end

(* stat() and lstat(): the node at the end of a path, or why there is none. *)
Found(tree, walk) ==
    IF walk.error = "" THEN Node(tree, walk.at) ELSE [kind |-> walk.error]

Stat(tree, place) == Found(tree, Walked(tree, place, TRUE))
Lstat(tree, place) == Found(tree, Walked(tree, place, FALSE))

IsDirectory(node) == node.kind \in {"directory", "locked"}
=============================================================================
