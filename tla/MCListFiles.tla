---------------------------- MODULE MCListFiles ----------------------------
(***************************************************************************)
(* Trees of three levels, with an excluded directory (2), a file or a link *)
(* of an excluded name, empty directories and links, and one that ends in  *)
(* a directory; every limit from none to more than there is, every depth,  *)
(* and directories that are missing or excluded.  Everything may be read,  *)
(* or the first two directories not, or the root not.                      *)
(***************************************************************************)
EXTENDS ListFiles

MCPaths == {<<>>, <<1>>, <<1, 1>>, <<1, 2>>, <<1, 1, 3>>, <<2>>, <<2, 1>>, <<3>>}

(* The tree with these directories and links, the rest of ps being files. *)
Tree(ps, dirs, links) ==
    [p \in MCPaths |-> IF p = <<>> \/ p \in dirs THEN "directory"
                       ELSE IF p \in links THEN "symlink"
                       ELSE IF p \in ps THEN "file" ELSE "none"]

MCTrees == {Tree(MCPaths, {<<1>>, <<1, 1>>, <<2>>}, {}),
            Tree(MCPaths \ {<<2, 1>>, <<1, 1, 3>>}, {<<1>>}, {<<2>>}),
            Tree({<<1>>, <<1, 2>>, <<2>>, <<3>>}, {<<1>>, <<1, 2>>, <<3>>}, {}),
            Tree({<<1>>, <<1, 1>>, <<1, 2>>, <<1, 1, 3>>}, {<<1>>, <<1, 1>>}, {}),
            Tree({<<1>>, <<3>>}, {}, {<<1>>})}

MCDenials == {{}, {<<1>>}, {<<1, 1>>, <<2>>}, {<<>>}}

Request(d, depth, results, pattern) ==
    [directory |-> d, max_depth |-> depth, max_results |-> results, pattern |-> pattern]

MCRequests ==
    {Request(<<>>, depth, results, pattern) :
        depth \in {0, 1, 2}, results \in {1, 2, 4, 6}, pattern \in {{1, 2, 3}, {2, 3}}}
    \cup {Request(d, 1, 3, {1, 2, 3}) : d \in {<<1>>, <<2>>, <<3>>}}
    \cup {Request(<<>>, -1, 1, {1}), Request(<<>>, 0, 0, {1})}
=============================================================================
