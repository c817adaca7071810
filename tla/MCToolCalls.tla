----------------------------- MODULE MCToolCalls -----------------------------
(***************************************************************************)
(* Instances: every kind of configuration with one simple call, and under  *)
(* one configuration every kind of path, of command, of file and of output.*)
(***************************************************************************)
EXTENDS ToolCalls

MCMarker == <<"m", "m", "m">>
MCHostRoots == <<[root |-> <<"h", "o">>, label |-> <<"l", "l", "l">>],
                 [root |-> <<"h", "o", "a">>, label |-> <<"l">>]>>
MCArtifactNames == {"report"}

Rel(names) == PathOf(FALSE, names)
Abs(names) == PathOf(TRUE, names)
Asked(path) == [control |-> FALSE] @@ path

-----------------------------------------------------------------------------
(* The file system.                                                        *)

Text == <<"c", "n", "w1", "w2", "c", "n", "k", "c">>

Still ==
    (<<>> :> Directory) @@ (<<"cwd">> :> Directory) @@ (<<"ws">> :> Directory) @@
    (<<"ws", "art">> :> Directory) @@ (<<"ws", "art", "logs">> :> Directory) @@
    (<<"ws", "still">> :> File(Text)) @@ (<<"cwd", "to_ws">> :> Link(Abs(<<"ws">>))) @@
    (<<"cwd", "loop">> :> Link(Rel(<<"loop">>))) @@ (<<"cwd", "lock">> :> LockedDirectory) @@
    (<<"cwd", "lock", "ws">> :> Directory) @@ (<<"cwd", "file">> :> File(Text)) @@
    (<<"cwd", "round">> :> Link(Rel(<<"round", "..", "to_ws">>))) @@
    (<<"cwd", "over">> :> Link(Rel(<<"gone", "..", "to_ws">>)))

MCSettled == DOMAIN Still

Moving ==
    Still @@
    (<<"ws", "dir">> :> Directory) @@ (<<"ws", "dir", "f">> :> File(Text)) @@
    (<<"ws", "in">> :> Link(Rel(<<"dir">>))) @@ (<<"ws", "out">> :> Link(Abs(<<"etc">>))) @@
    (<<"ws", "up">> :> Link(Rel(<<"..", "etc", "f">>))) @@
    (<<"ws", "loop">> :> Link(Rel(<<"loop">>))) @@
    (<<"ws", "twice">> :> Link(Rel(<<"in", "..", "in", "f">>))) @@
    (<<"ws", "under">> :> Link(Rel(<<"lock", "..", "gone">>))) @@
    (<<"ws", "lock">> :> LockedDirectory) @@ (<<"ws", "lock", "f">> :> File(Text)) @@
    (<<"ws", "art", "logs", "report">> :> File(Text)) @@
    (<<"ws", "art", "tests">> :> Link(Rel(<<"tests">>))) @@
    (<<"ws", "closed">> :> UnreadableFile(Text)) @@
    (<<"ws", "art", "logs", "closed", "report">> :> UnreadableFile(Text)) @@
    (<<"ws", "art", "logs", "closed">> :> Directory) @@
    (<<"etc">> :> Directory) @@ (<<"etc", "f">> :> File(<<"c">>)) @@
    (<<"etc", "back">> :> Link(Abs(<<"ws", "dir">>)))

MCNodes == {Nothing, Directory, File(<<"0">>), UnreadableFile(<<"c">>), Link(Rel(<<"dir">>)), Link(Abs(<<"etc">>)),
            Link(Rel(<<"..", "etc", "f">>))}

-----------------------------------------------------------------------------
(* The configuration.                                                      *)

Object(name, executable, args) == [name |-> name, executable |-> executable, default_args |-> args]
Test(name, tokens) == [name |-> name, command |-> tokens]

Padded == Token("git", "padded")
Substitution == Token("$(x)", "substitution")

(* A token of every form. *)
Tokens == {Token("x", form) : form \in Forms}

Ws == [path |-> Abs(<<"ws">>)]
Art == [path |-> Rel(<<"art">>)]
Env(limit) == [workspace_root |-> Ws, artifact_directory |-> Art, max_output_bytes |-> [numeral |-> limit]]

NoFile == [is |-> "none", keys |-> <<>>]
TomlFile(keys) == [is |-> "table", keys |-> keys]
Key(field, value) == [field |-> field, value |-> value]

Tests == [json |-> <<Test(Bare("unit"), <<Padded, Token("-q", "odd")>>),
                     Test(Bare("odd"), <<Bare("git"), Substitution>>)>>]
Standard(limit) ==
    [allowed_commands |-> [items |-> <<Padded>>], test_commands |-> Tests] @@ Env(limit)

(* Roots: links, a directory that is not to be searched, what is no directory or *)
(* not there, with ".." after it or not, and links that lead into themselves.     *)
RootNames == {<<"to_ws">>, <<"to_ws", "..", "ws">>, <<"over">>, <<"lock", "ws">>, <<"loop">>, <<"round">>,
              <<"file">>, <<"gone">>} \cup
             {<<name, "..", "to_ws">> : name \in {"gone", "file", "lock", "loop", "round"}} \cup
             {<<"lock", "x", "..", "..", "to_ws">>, <<"file", "x", "..", "..", "to_ws">>}

Values == [
    log_level           |-> {[text |-> "DEBUG"], [text |-> "debug"], [text |-> "loud"], [number |-> 10]},
    max_command_seconds |-> {[number |-> 600], [number |-> 601], [text |-> "soon"]},
    max_file_size_bytes |-> {[numeral |-> 0], [numeral |-> 5]},
    read_only_mode      |-> {[flag |-> FALSE], [text |-> "maybe"]},
    workspace_root      |-> {[path |-> Rel(p)] : p \in RootNames},
    artifact_directory  |-> {[path |-> Rel(<<"still">>)], [path |-> Abs(<<"cwd">>)]} \cup
                            {[path |-> Abs(<<"cwd">> \o p)] : p \in RootNames},
    secret_patterns     |-> {[list |-> <<[text |-> Bare("p")]>>], [list |-> <<[text |-> Token("(", "odd")]>>],
                             [list |-> <<Object(Bare("p"), Bare("p"), <<>>)>>], [text |-> "p"]},
    allowed_commands    |-> {[list |-> <<Object(Bare("git"), t, <<>>)>>] : t \in Tokens} \cup
                            {[list |-> <<Object(t, Bare("git"), <<Padded, t>>)>>] : t \in Tokens} \cup
                            {[list |-> <<Object(Bare("git"), Bare("a"), <<>>),
                                         Object(Bare("git"), Bare("b"), <<>>)>>]},
    test_commands       |-> {[list |-> <<Test(Bare("unit"), c)>>] :
                               c \in {<<>>} \cup {<<t>> : t \in Tokens} \cup {<<Padded, t>> : t \in Tokens}},
    surprise            |-> {[number |-> 1]}]

Structured == [
    allowed_commands |-> {[items |-> <<>>], [broken |-> "["], [json |-> <<[text |-> Bare("git")]>>],
                          [json |-> <<Object(Bare("git"), Padded, <<>>)>>]},
    test_commands    |-> {[items |-> <<Bare("unit")>>], [broken |-> "["], Tests},
    secret_patterns  |-> {[items |-> <<>>], [items |-> <<Bare("p")>>], [json |-> <<[text |-> Bare("p")]>>],
                          [json |-> <<Object(Bare("p"), Bare("p"), <<>>)>>]}]

-----------------------------------------------------------------------------
(* Requests and scenarios.                                                 *)

ReadFile(path, start, count) == [tool |-> "read_file", path |-> Asked(path), start |-> start, count |-> count]
RunCommand(tokens, path) == [tool |-> "run_command", command |-> tokens, path |-> Asked(path)]
RunTest(name) == [tool |-> "run_tests", name |-> name, path |-> Asked(Rel(<<>>))]
CollectFrom(category, path) == [tool |-> "collect_artifact", category |-> category, path |-> Asked(path)]
Collect(path) == CollectFrom("logs", path)

Scenario(tree, env, request) ==
    [fs |-> tree, python |-> "3.12", file |-> NoFile, env |-> env, request |-> request,
     stdout |-> <<"c">>, stderr |-> <<>>]

Simple == RunTest(Bare("unit"))
Without(f, names) == [x \in DOMAIN f \ names |-> f[x]]

Files ==
    UNION {{TomlFile(<<Key(f, v)>>) : v \in Values[f]} : f \in DOMAIN Values} \cup
    {TomlFile(<<Key(f, v), Key(f, w)>>) :
       f \in {"max_command_seconds"}, v, w \in Values.max_command_seconds} \cup
    {[is |-> is, keys |-> <<>>] : is \in {"unreadable", "missing", "malformed", "no_table"}}

Configurations ==
    {[Scenario(Still, Without(Standard(4), {k.field : k \in ToSet(f.keys)}), Simple)
      EXCEPT !.file = f, !.python = p] : f \in Files, p \in {"3.12", "3.13"}} \cup
    UNION {{[Scenario(Still, (f :> v) @@ Standard(4), Simple)
             EXCEPT !.file = TomlFile(<<Key(f, [list |-> <<>>])>>)] : v \in Structured[f]} :
             f \in DOMAIN Structured}

Names == {<<>>, <<"closed">>, <<"dir">>, <<"dir", "f">>, <<"in", "f">>, <<"in">>, <<"out">>, <<"out", "f">>,
          <<"up">>, <<"twice">>, <<"under">>, <<"loop">>, <<"loop", "f">>, <<"lock">>, <<"lock", "f">>,
          <<"dir", "f", "x">>, <<"gone">>, <<"in", "..", "in">>}

Paths ==
    {Rel(names) : names \in Names} \cup
    {Abs(names) : names \in {<<"ws", "in", "f">>, <<"etc", "f">>, <<"etc", "back", "f">>}} \cup
    {[control |-> TRUE] @@ Rel(<<"dir">>)}

Resolutions ==
    {[Scenario(Moving, Standard(20), r) EXCEPT !.python = p] :
       r \in {ReadFile(path, 1, NoCount) : path \in Paths} \cup
             {RunCommand(<<Bare("git")>>, Rel(names)) : names \in {<<"in">>, <<"dir", "f">>, <<"up">>}} \cup
             {Collect(Rel(names)) : names \in {<<"report">>, <<"closed", "report">>, <<"gone">>, <<"..", "x">>}} \cup
             {CollectFrom(category, Rel(<<"report">>)) : category \in {"tests", "gone"}},
       p \in {"3.12", "3.13"}}

Commands ==
    {Scenario(Still, Standard(4), RunCommand(c, Rel(<<>>))) :
       c \in {<<t>> : t \in Tokens \cup {Padded}} \cup {<<Bare("git"), t>> : t \in Tokens}}
    \cup {Scenario(Still, Standard(4), RunTest(Bare(name))) : name \in {"odd", "gone"}}

Holding(bytes) == [Still EXCEPT ![<<"ws", "still">>] = File(bytes)]
WithReport(bytes) == (<<"ws", "art", "logs", "report">> :> File(bytes)) @@ Still
Small(limit) == [max_file_size_bytes |-> [numeral |-> limit]] @@ Standard(20)

Reads ==
    {Scenario(Still, Standard(20), ReadFile(Rel(<<"still">>), start, count)) :
       start \in 1..4, count \in {0, 1, 2, NoCount}} \cup
    {Scenario(Holding(bytes), Small(3), ReadFile(Rel(<<"still">>), 1, 1)) :
       bytes \in {<<>>, <<"c", "n", "c">>, <<"c", "c", "c", "c">>, <<"w1", "c">>, <<"n", "n", "0">>, <<"c", "0">>}}

Outputs == {
    <<>>, <<"c", "c">>, <<"w1", "w2", "w1", "w2", "c">>, <<"c", "w2", "w1", "w2">>, <<"h", "o", "c">>,
    <<"k", "c", "c", " ", "c">>, <<"c", "k", " ", "c">>, <<" ", "c", "k", "n", "w1", "w2">>,
    <<"k", "h", "o", " ">>}

Runs ==
    {[Scenario(Still, env @@ Standard(limit), request) EXCEPT !.stdout = out, !.stderr = err] :
       env \in {[secret_patterns |-> [items |-> items]] : items \in {<<>>, <<Bare("p")>>}},
       limit \in {1, 3, 4, 6},
       request \in {RunCommand(<<Bare("git")>>, Rel(<<>>)), Simple},
       out \in Outputs, err \in {<<>>, <<"c", "w1", "w2">>, <<"k", "c">>, <<"c", "c", " ">>}} \cup
    {Scenario(WithReport(bytes), Standard(limit), Collect(Rel(<<"report">>))) :
       limit \in {1, 3, 4, 6}, bytes \in Outputs \cup {<<"c", "0">>, <<"c", "c", "c", "0">>}}

MCScenarios == Configurations \cup Resolutions \cup Commands \cup Reads \cup Runs
=============================================================================
