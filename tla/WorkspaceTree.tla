--------------------------- MODULE WorkspaceTree ---------------------------
(***************************************************************************)
(* The workspace as list_files and search_text meet it: a tree that other  *)
(* programs, and the other tools of the server, change while it is walked. *)
(*                                                                         *)
(* A path is the sequence of the names on the way from the workspace root, *)
(* and a name is a number: its rank in the order of name.lower(), by which *)
(* the walks sort.  Names that differ in case only are not modelled.       *)
(*                                                                         *)
(* Nobody makes a symbolic link while a walk is going on: the links there  *)
(* are were there before it.  So resolving a path met on the way gives the *)
(* path itself.                                                            *)
(*                                                                         *)
(* A directory may be one that the server is not allowed to list, a file   *)
(* one that it is not allowed to open, and that may change as well.  Every *)
(* directory lets the server look up the names in it.                      *)
(***************************************************************************)
EXTENDS Ordering

CONSTANTS
    Paths,           \* every path there may be, the root <<>> among them
    ExcludedNames,   \* DEFAULT_EXCLUDED_DIRECTORIES
    Files,           \* what a file may be, as far as the tools tell files apart
    Trees,           \* the trees there may be at the start
    Denials,         \* the sets of paths that may be unreadable at the start
    MaxEdits         \* bound: changes other programs make

Kinds == {"none", "directory", "symlink"} \cup Files

Parent(p) == Front(p)
Name(p) == Last(p)

(* A tree: everything that exists is in a directory, and there is an end to it. *)
IsTree(t) ==
    /\ t \in [Paths -> Kinds]
    /\ IsFiniteSet({p \in Paths : t[p] # "none"})
    /\ t[<<>>] = "directory"
    /\ \A p \in Paths \ {<<>>} : t[p] # "none" => t[Parent(p)] = "directory"

ASSUME PathsAssumption ==
    /\ <<>> \in Paths
    /\ \A p \in Paths : p \in Seq(Nat) /\ (p = <<>> \/ Parent(p) \in Paths)
    /\ Files \cap {"none", "directory", "symlink"} = {}
    /\ \A t \in Trees : IsTree(t)
    /\ \A d \in Denials : d \subseteq Paths
    /\ MaxEdits \in Nat

VARIABLES
    tree,       \* what is at each path
    unreadable, \* the directories that must not be listed, the files not opened
    touched,    \* the paths at which something was changed (history)
    edits       \* changes made

treeVars == <<tree, unreadable, touched, edits>>

(* sorted(directory.iterdir(), key=lambda child: child.name.lower()) *)
Children(d) == InOrder({p \in Paths \ {<<>>} : Parent(p) = d /\ tree[p] # "none"})

(* iterdir() of it does not raise OSError. *)
MayList(d) == tree[d] = "directory" /\ d \notin unreadable

Below(p) == {q \in Paths : IsPrefix(p, q)}

(* The paths at which, and on the way to which, nothing was changed. *)
Untouched == {p \in Paths : \A q \in touched : ~ IsPrefix(q, p)}

(* An excluded directory. *)
Excluded(p) == Name(p) \in ExcludedNames /\ tree[p] = "directory"

(* The paths a walk from d may get to: through no excluded directory. *)
Reachable(d) ==
    {p \in Paths : /\ IsStrictPrefix(d, p)
                   /\ tree[p] # "none"
                   /\ \A q \in Paths : IsStrictPrefix(d, q) /\ IsPrefix(q, p) => ~ Excluded(q)}

-----------------------------------------------------------------------------
(* Other programs.                                                         *)

Touch(S) ==
    /\ edits < MaxEdits
    /\ edits' = edits + 1
    /\ touched' = touched \cup S

(* Something is moved out of the workspace, or deleted. *)
Delete(p) ==
    /\ p # <<>>
    /\ tree[p] # "none"
    /\ Touch({p})
    /\ tree' = [q \in Paths |-> IF q \in Below(p) THEN "none" ELSE tree[q]]
    /\ unreadable' = unreadable \ Below(p)

(* A file or an empty directory appears, or a file is written anew. *)
Put(p, k) ==
    /\ p # <<>>
    /\ tree[Parent(p)] = "directory"
    /\ \/ tree[p] = "none"
       \/ tree[p] \in Files /\ k \in Files \ {tree[p]}
    /\ Touch({p})
    /\ tree' = [tree EXCEPT ![p] = k]
    /\ unreadable' \in {unreadable \ {p}, unreadable \cup {p}}

(* chmod: what was readable no longer is, or the other way round. *)
Protect(p) ==
    /\ tree[p] \in Files \cup {"directory"}
    /\ Touch({p})
    /\ unreadable' = IF p \in unreadable THEN unreadable \ {p} ELSE unreadable \cup {p}
    /\ UNCHANGED tree

Edit == \E p \in Paths : Delete(p) \/ Protect(p) \/ \E k \in Files \cup {"directory"} : Put(p, k)

TreeInit ==
    /\ tree \in Trees
    /\ unreadable \in Denials
    /\ \A p \in unreadable : tree[p] # "none"
    /\ touched = {}
    /\ edits = 0

TreeTypeOK ==
    /\ IsTree(tree)
    /\ unreadable \subseteq Paths
    /\ touched \subseteq Paths
    /\ edits \in 0..MaxEdits

=============================================================================
