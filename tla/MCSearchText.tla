---------------------------- MODULE MCSearchText ----------------------------
(***************************************************************************)
(* Trees of two levels with text, binary and large files, an excluded      *)
(* directory and a link; a directory that must not be listed, files that   *)
(* must not be opened, before and after the limits are met; limits on      *)
(* matches and bytes that are met within a file, between files, or not at  *)
(* all.                                                                    *)
(***************************************************************************)
EXTENDS SearchText

MCPaths == {<<>>, <<1>>, <<1, 1>>, <<1, 2>>, <<2>>, <<2, 1>>, <<3>>, <<4>>}

MCFiles == {"two", "wide", "binary", "large"}

File(large, bin, sizes) == [too_large |-> large, binary |-> bin, sizes |-> sizes]

MCContent ==
    [f \in MCFiles |->
        CASE f = "two"    -> File(FALSE, FALSE, <<1, 1>>)
          [] f = "wide"   -> File(FALSE, FALSE, <<3>>)
          [] f = "binary" -> File(FALSE, TRUE, <<1>>)
          [] f = "large"  -> File(TRUE, FALSE, <<1>>)]

MCTrees ==
    {[p \in MCPaths |-> IF p \in {<<>>, <<1>>, <<2>>} THEN "directory" ELSE f[p]] :
        f \in {[p \in MCPaths |-> "two"],
               [p \in MCPaths |-> IF p = <<1, 1>> THEN "wide" ELSE IF p = <<3>> THEN "large" ELSE "two"],
               [p \in MCPaths |-> IF p = <<1, 1>> THEN "binary" ELSE IF p = <<1, 2>> THEN "symlink"
                                  ELSE IF p = <<3>> THEN "none" ELSE "wide"]}}

(* Nothing; a directory; an excluded directory and a file in another; the last file. *)
MCDenials == {{}, {<<1>>}, {<<2>>, <<1, 2>>}, {<<4>>}}

Request(d, glob, limit, bytes) ==
    [empty_query |-> FALSE, directory |-> d, glob |-> glob, result_limit |-> limit, max_output_bytes |-> bytes]

MCRequests ==
    {Request(<<>>, MCPaths, 1, None), Request(<<>>, MCPaths, 3, 9),
     Request(<<>>, MCPaths, 9, 3), Request(<<>>, MCPaths, 9, 9)}
    \cup {Request(<<>>, MCPaths \ {<<1, 2>>}, 9, None)}
    \cup {Request(d, MCPaths, 2, None) : d \in {<<1>>, <<2>>, <<3>>}}
    \cup {Request(<<>>, {}, 0, None), Request(<<>>, {}, 1, 0),
          [Request(<<>>, {}, 1, None) EXCEPT !.empty_query = TRUE]}
=============================================================================
