--------------------------- MODULE MCDiagnostics ---------------------------
(***************************************************************************)
(* Two files in every relation of commit, index and work tree that a       *)
(* listing tells apart; a limit that two lines of git status fit and three *)
(* do not; machines on which something is out of order, which a change may *)
(* put right or make worse while the tool is at work.                      *)
(***************************************************************************)
EXTENDS Diagnostics

CONSTANTS a, b, old, new, main

MCFiles == {a, b}
MCContents == {old, new}
MCBranches == {main}
MCExecutables == {"python"}

Triple(h, i, w) == [head |-> h, index |-> i, work |-> w]

AddedAndChanged == Triple(Absent, old, new)
Untaken == Triple(old, Absent, old)        \* removed from the index, still there
Fresh == Triple(Absent, Absent, new)
Edited == Triple(old, old, new)
Gone == Triple(old, old, Absent)

Repository(place, branch, ta, tb) ==
    [place |-> place, branch |-> branch,
     head  |-> [f \in MCFiles |-> IF f = a THEN ta.head ELSE tb.head],
     index |-> [f \in MCFiles |-> IF f = a THEN ta.index ELSE tb.index],
     work  |-> [f \in MCFiles |-> IF f = a THEN ta.work ELSE tb.work]]

MCRepositories ==
    {Repository("work_tree", main, AddedAndChanged, Untaken),
     Repository("work_tree", main, Edited, Fresh),
     Repository("work_tree", Detached, Fresh, Gone),
     Repository("none", Detached, Fresh, Fresh)}

Machine(artifacts, readable, writable, on_path) ==
    [artifacts |-> artifacts, readable |-> readable, writable |-> writable, on_path |-> on_path]

MCMachines ==
    {Machine("file", FALSE, {"artifacts"}, {"python", "git"}),
     Machine("directory", TRUE, {"root"}, {"git"})}
=============================================================================
