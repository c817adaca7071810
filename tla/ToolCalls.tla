------------------------------ MODULE ToolCalls ------------------------------
(***************************************************************************)
(* The server from its start to the answer of one tool call: load_config,  *)
(* then run_command, run_tests, read_file or collect_artifact behind       *)
(* call_safely and sanitize_response (tools/, services/process_runner.py,  *)
(* services/filesystem.py, services/artifact_service.py), while other      *)
(* programs change the file system.  The command itself is                 *)
(* run_bounded_subprocess, of which only its contract is used here.        *)
(***************************************************************************)
EXTENDS Configuration, TextOutput, PathResolution

CONSTANTS
    Scenarios,       \* file systems, sources of the configuration, requests, outputs
    Sample,          \* TEXT_SAMPLE_BYTES and ARTIFACT_BINARY_SAMPLE_BYTES
    ArtifactNames    \* the names of files that have an approved suffix

(* What the server is given: only requests of the right tool have the other parts. *)
IsRequest(request) ==
    /\ request.path \in [control: BOOLEAN, absolute: BOOLEAN, names: Places]
    /\ request.tool \in {"run_command", "run_tests", "read_file", "collect_artifact"}
    /\ request.tool = "collect_artifact" => request.category \in STRING
    /\ request.tool = "read_file" =>
          request.start \in Nat \ {0} /\ request.count \in Nat \cup {NoCount}

IsScenario(s) ==
    /\ DOMAIN s.fs \subseteq Places /\ (\A p \in DOMAIN s.fs : s.fs[p] \in TreeNodes) /\ IsTree(s.fs)
    /\ s.file.keys \in Seq([field: STRING, value: FileValues])
    /\ DOMAIN s.env \subseteq Fields /\ (\A f \in DOMAIN s.env : s.env[f] \in EnvValues)
    /\ IsRequest(s.request)
    /\ {s.stdout, s.stderr} \subseteq Seq(STRING)

ASSUME ScenariosAssumption == \A s \in Scenarios : IsScenario(s)

Contract(MaxBytes) == INSTANCE CapturedResults

VARIABLES
    pc,        \* the step the server is at
    input,     \* what it is given: a scenario
    config,    \* the configuration
    command,   \* the command that is approved, or <<>>
    size,      \* size_bytes of the file that is read
    answer     \* of the tool

callVars == <<input, config, command, size, answer>>
vars == <<pc, callVars, pathVars>>

Request == input.request
Limit == config.max_output_bytes
Patterns == config.secret_patterns

(***************************************************************************)
(* The answer of a tool.  shown is what the client gets of texts, made     *)
(* what the service made of them (and run_tests puts into its report),     *)
(* before they are sanitised; cut says which are flagged as truncated.     *)
(***************************************************************************)
NoAnswer == [kind |-> "none"]
Result(shown, made, cut, timed_out) ==
    [kind |-> "result", shown |-> shown, made |-> made, cut |-> cut, timed_out |-> timed_out]

(* errors.py: what call_safely converts into a ToolError. *)
WorkbenchMcpErrors == {
    "ConfigError", "SecurityError", "WorkspaceFileError", "PathSecurityError",
    "PathTraversalError", "PathEscapeError", "SymlinkEscapeError",
    "WorkspacePathNotFoundError", "FileTooLargeError", "BinaryFileError", "InvalidRangeError",
    "ReadOnlyModeError", "PatchPreconditionError", "CommandSecurityError",
    "ArtifactAccessError", "ProcessExecutionError", "GitServiceError"}

PathSecurityErrors ==
    {"PathSecurityError", "PathTraversalError", "PathEscapeError", "SymlinkEscapeError"}

(* Mutant: only refusals for the sake of security are converted. *)
RaiseRefusals(error) ==
    /\ pc' = "answered"
    /\ answer' = [kind  |-> IF error \in PathSecurityErrors \cup {"CommandSecurityError"}
                           THEN "tool_error" ELSE "masked",
                  error |-> error]

(* call_safely: any other exception is masked by the server framework. *)
Raise(error) ==
    /\ pc' = "answered"
    /\ answer' = [kind  |-> IF error \in WorkbenchMcpErrors THEN "tool_error" ELSE "masked",
                  error |-> error]

Answer(result) == pc' = "answered" /\ answer' = result

Sanitised(texts) == [i \in DOMAIN texts |-> Sanitise(Patterns, texts[i])]

-----------------------------------------------------------------------------
(* Start.                                                                  *)

(* load_runtime_config: a server, or an exception that ends the process. *)
Start ==
    /\ pc = "start"
    /\ config' = Loaded(input.python, fs, input.file, input.env)
    /\ pc' = IF config'.status = "serving" THEN "idle" ELSE "not_started"
    /\ UNCHANGED <<input, command, size, answer, pathVars>>

-----------------------------------------------------------------------------
(* The tool is called.                                                     *)

(* The root below which the path of the request is resolved, its own links followed. *)
Root ==
    LET root == IF Request.tool = "collect_artifact"
                THEN Append(config.artifact_directory, Request.category)
                ELSE config.workspace_root
    IN RealPath(input.python, fs, root).at

(* An error of the root itself is not one that resolve_workspace_path converts. *)
BeginPath ==
    IF EndLoops(input.python, fs, Root) THEN Raise("RuntimeError") /\ UNCHANGED walk
    ELSE pc' = "resolve" /\ walk' = Begun(Root, Request.path) /\ UNCHANGED answer

CallRunCommand ==
    /\ pc = "idle"
    /\ Request.tool = "run_command"
    /\ IF Allowlisted(Request.command, config.allowed_commands)
       THEN BeginPath /\ command' = Request.command
       ELSE Raise("CommandSecurityError") /\ UNCHANGED <<command, walk>>
    /\ UNCHANGED <<input, config, size, fs, edits>>

(* The tests of that name: one at most. *)
Selected == {i \in DOMAIN config.test_commands : config.test_commands[i].name = Request.name}

CallRunTests ==
    /\ pc = "idle"
    /\ Request.tool = "run_tests"
    /\ IF \E i \in Selected : ValidTokens(config.test_commands[i].command)
       THEN BeginPath /\ \E i \in Selected : command' = config.test_commands[i].command
       ELSE Raise("CommandSecurityError") /\ UNCHANGED <<command, walk>>
    /\ UNCHANGED <<input, config, size, fs, edits>>

CallReadOrCollect ==
    /\ pc = "idle"
    /\ Request.tool \in {"read_file", "collect_artifact"}
    /\ BeginPath
    /\ UNCHANGED <<input, config, command, size, fs, edits>>

ResolvePath ==
    /\ pc = "resolve"
    /\ Resolve(input.python)
    /\ UNCHANGED <<pc, callVars>>

(* The path is resolved, or not: the artifact service hides why. *)
Resolved ==
    /\ pc = "resolve"
    /\ walk.step = "done"
    /\ IF walk.verdict # "resolved"
       THEN Raise(IF Request.tool = "collect_artifact" /\ walk.verdict \in PathSecurityErrors
                  THEN "ArtifactAccessError" ELSE walk.verdict)
       ELSE IF Request.tool = "collect_artifact" /\ Last(walk.at) \notin ArtifactNames
       THEN Raise("ArtifactAccessError")
       ELSE pc' = "is" /\ UNCHANGED answer
    /\ UNCHANGED <<input, config, command, size, pathVars>>

Here == Stat(fs, walk.at)

(* is_dir() and is_file(); both raise if they may not look. *)
CheckKind ==
    /\ pc = "is"
    /\ IF Here.kind = "EACCES" THEN Raise("OSError")
       ELSE IF Request.tool \in {"run_command", "run_tests"}
       THEN IF IsDirectory(Here) THEN pc' = "run" /\ UNCHANGED answer
            ELSE Raise("PathSecurityError")
       ELSE IF Here.kind = "file" THEN pc' = "stat" /\ UNCHANGED answer
       ELSE Raise(IF Request.tool = "read_file" THEN "WorkspaceFileError" ELSE "ArtifactAccessError")
    /\ UNCHANGED <<input, config, command, size, pathVars>>

-----------------------------------------------------------------------------
(* ProcessRunner._run_validated.                                           *)

Whole(stream) ==
    [bytes |-> IF Len(stream) < Limit THEN Len(stream) ELSE Limit, truncated |-> Len(stream) > Limit]

Early(stream) == {Whole(stream)} \cup
    {[bytes |-> n, truncated |-> FALSE] : n \in 0..Whole(stream).bytes}

(* A command leaves no descendants behind, so in time all it wrote is captured. *)
Captures ==
    {r \in {[exit_code |-> "own", timed_out |-> FALSE,
             stdout |-> Whole(input.stdout), stderr |-> Whole(input.stderr)]} \cup
           {[exit_code |-> "killed", timed_out |-> TRUE, stdout |-> out, stderr |-> err] :
              out \in Early(input.stdout), err \in Early(input.stderr)} :
        r \in Contract(Limit)!LegalResults}

(* Mutant: nothing tells that the capture was cut. *)
OutputUnflagged(captured) ==
    OutputPair(Redact(Patterns, Decode(Cut(input.stdout, captured.stdout.bytes))),
               Redact(Patterns, Decode(Cut(input.stderr, captured.stderr.bytes))), Limit)

(* What is captured is decoded, redacted and cut again, as it may have grown. *)
Output(captured) ==
    LET pair == OutputPair(Redact(Patterns, Decode(Cut(input.stdout, captured.stdout.bytes))),
                           Redact(Patterns, Decode(Cut(input.stderr, captured.stderr.bytes))), Limit)
    IN [pair EXCEPT !.stdout_truncated = @ \/ captured.stdout.truncated,
                    !.stderr_truncated = @ \/ captured.stderr.truncated]

Run ==
    /\ pc = "run"
    /\ \/ Raise("ProcessExecutionError")    \* it cannot be started or captured
       \/ \E captured \in Captures :
             LET output == Output(captured)
                 made == <<output.stdout, output.stderr>>
                 cut == <<output.stdout_truncated, output.stderr_truncated>>
                 texts == IF Request.tool = "run_tests"
                          THEN <<Summary(output.stdout, output.stderr)>> ELSE made
             IN /\ Here.kind = "directory"
                /\ Answer(Result(Sanitised(texts), made, cut, captured.timed_out))
    /\ UNCHANGED <<input, config, command, size, pathVars>>

(* run_tests cannot write its report. *)
ReportFails ==
    /\ pc = "run"
    /\ Request.tool = "run_tests"
    /\ Raise("OSError")
    /\ UNCHANGED <<input, config, command, size, pathVars>>

-----------------------------------------------------------------------------
(* FileSystemService.read_text_file and ArtifactService.collect_artifact.  *)

TooLarge(bytes) == Request.tool = "read_file" /\ bytes > config.max_file_size_bytes

(* st_size: a directory has one too, small or beyond every limit. *)
Sizes(node) ==
    IF node.kind = "file" THEN {Len(node.bytes)}
    ELSE IF IsDirectory(node) THEN {1, Ceilings.max_file_size_bytes + 1} ELSE {}

StatSize ==
    /\ pc = "stat"
    /\ \/ Sizes(Here) = {} /\ Raise("OSError") /\ UNCHANGED size
       \/ \E bytes \in Sizes(Here) :
             /\ size' = bytes
             /\ IF TooLarge(bytes) THEN Raise("FileTooLargeError")
                ELSE pc' = "read" /\ UNCHANGED answer
    /\ UNCHANGED <<input, config, command, pathVars>>

FileRead(bytes) ==
    IF Binary(bytes, Sample) THEN Raise("BinaryFileError")
    ELSE LET made == <<FlattenSeq(Slice(Lines(Decode(bytes)), Request.start, Request.count))>>
         IN Answer(Result(Sanitised(made), made, <<FALSE>>, FALSE))

(* At most the limit is kept, and the size decides whether that is all. *)
ArtifactRead(bytes) ==
    IF "0" \in ToSet(Cut(bytes, Sample)) THEN Raise("ArtifactAccessError")
    ELSE LET text == Redact(Patterns, Decode(Cut(bytes, Limit)))
             made == <<Truncate(text, Limit)>>
         IN Answer(Result(Sanitised(made), made, <<size > Limit \/ Truncated(text, Limit)>>, FALSE))

(* It may be one that the server is not allowed to open. *)
Read ==
    /\ pc = "read"
    /\ IF Here.kind # "file" \/ ~ Here.readable THEN Raise("OSError")
       ELSE IF Request.tool = "read_file" THEN FileRead(Here.bytes) ELSE ArtifactRead(Here.bytes)
    /\ UNCHANGED <<input, config, command, size, pathVars>>

-----------------------------------------------------------------------------

Others == pc \in {"idle", "resolve", "is", "run", "stat", "read"} /\ Edit /\ UNCHANGED <<pc, callVars>>

Finished == pc \in {"answered", "not_started"} /\ UNCHANGED vars

Init ==
    /\ pc = "start"
    /\ input \in Scenarios
    /\ config = [status |-> "none"]
    /\ command = <<>>
    /\ size = 0
    /\ answer = NoAnswer
    /\ fs = input.fs
    /\ edits = 0
    /\ walk = NoWalk

Next ==
    \/ Start
    \/ CallRunCommand \/ CallRunTests \/ CallReadOrCollect
    \/ ResolvePath \/ Resolved \/ CheckKind \/ Run \/ ReportFails \/ StatSize \/ Read
    \/ Others \/ Finished

Spec == Init /\ [][Next]_vars

-----------------------------------------------------------------------------

Verdicts == {"none", "resolved", "WorkspacePathNotFoundError", "OSError"} \cup PathSecurityErrors

(* Types.  A refused path is not used, a command is approved before it runs. *)
TypeOK ==
    /\ pc \in {"start", "not_started", "idle", "resolve", "is", "run", "stat", "read", "answered"}
    /\ config.status \in {"none", "serving", "ConfigError", "exception"}
    /\ pc \in {"start", "not_started"} <=> config.status # "serving"
    /\ pc \in {"is", "run", "stat", "read"} => walk.verdict = "resolved"
    /\ pc = "run" => command # <<>>
    /\ walk # NoWalk => walk.step \in {"scan", "look", "done"} /\ walk.verdict \in Verdicts
    /\ answer.kind \in {"none", "result", "tool_error", "masked"}
    /\ answer.kind = "masked" =>
          answer.error = "OSError" \/ (answer.error = "RuntimeError" /\ input.python = "3.12")
    /\ IsTree(fs)
    /\ edits \in 0..MaxEdits
    /\ size \in Nat

(* Nobody has changed the file system since the path began to be resolved. *)
Quiet == walk # NoWalk /\ walk.began = edits

(***************************************************************************)
(* What resolve_workspace_path returns or raises for a path that nobody    *)
(* changes anything about meanwhile is what the kernel's walk of that path *)
(* says; a path it returns is below the root and passes no link, which is  *)
(* all that keeps the reads and runs that follow below the root.           *)
(***************************************************************************)
PathVerdictsAreExact == Quiet /\ walk.step = "done" => VerdictIsExact(input.python)

(* The value of a field: a variable, else the last spelling in the file, else the default. *)
Source(field) ==
    LET keys == input.file.keys
        uses == {i \in DOMAIN keys : keys[i].field = field}
    IN IF field \in DOMAIN input.env THEN ParseEnvValue(field, input.env[field])
       ELSE IF uses # {} THEN keys[Max(uses)].value ELSE Defaults[field]

SourceIsValid(field) ==
    ~ Is(Source(field), "error") /\ Valid(input.python, input.fs, field, Source(field))

KeysAreKnown == \A i \in DOMAIN input.file.keys : input.file.keys[i].field \in Fields

RootPlace == Place(input.python, input.fs, Cwd, Source("workspace_root").path)
ArtifactPlace == Place(input.python, input.fs, RootPlace.at, Source("artifact_directory").path)

(* What the kernel makes of a path of the configuration, given as it is to a system call. *)
ByKernel(base, path) == Walked(input.fs, NamesFrom(base, path), TRUE)
RootEnd == ByKernel(Cwd, Source("workspace_root").path)
ArtifactEnd == ByKernel(RootPlace.at, Source("artifact_directory").path)
EndsAtDirectory(end) == end.error = "" /\ IsDirectory(Node(input.fs, end.at))

(* The directory is there, is one, and no link is on the way to it. *)
IsOwnRoot(place) ==
    LET end == Walked(input.fs, place, TRUE) IN EndsAtDirectory(end) /\ end.at = place

(* Which directory stands for a path; looped: a link of the path led into itself. *)
StandsFor(place, end, looped) ==
    /\ IsDirectory(Stat(input.fs, place))
    /\ end.error = "" => place = end.at
    /\ looped \/ IsOwnRoot(place)

(***************************************************************************)
(* A server that starts has every field from the strongest of its sources  *)
(* and only executables that pass the checks of run time.  Its roots are   *)
(* the directories where the kernel arrives with the paths that are        *)
(* configured.  Where the kernel does not arrive a root may be served      *)
(* nevertheless ("gone/../here"), but it is a directory and, if no link    *)
(* led into itself, free of links, as containment compares with it.        *)
(*                                                                         *)
(* One that ends with ConfigError had an invalid source, or a path with    *)
(* which the kernel does not end at a directory; one that ends with        *)
(* another exception met a file or a log level that load_config does not   *)
(* convert the error of, or a path with which the kernel does not arrive.  *)
(***************************************************************************)
ConfigurationIsResolved ==
    /\ config.status = "serving" =>
          /\ KeysAreKnown
          /\ \A f \in Fields : SourceIsValid(f)
          /\ \A f \in Fields \ {"workspace_root", "artifact_directory"} :
                config[f] = Kept(input.python, input.fs, f, Source(f))
          /\ StandsFor(config.workspace_root, RootEnd, RootPlace.looped)
          /\ StandsFor(config.artifact_directory, ArtifactEnd, ArtifactPlace.looped)
          /\ \A i \in DOMAIN config.allowed_commands :
                RunnableExecutable(config.allowed_commands[i].executable)
    /\ config.status = "ConfigError" =>
          \/ input.file.is \in {"missing", "malformed", "no_table"}
          \/ ~ KeysAreKnown
          \/ \E f \in Fields \ {"workspace_root"} : ~ SourceIsValid(f)
          \/ ~ Is(Source("workspace_root"), "path")
          \/ ~ EndsAtDirectory(RootEnd) \/ ~ EndsAtDirectory(ArtifactEnd)
    /\ config.status = "exception" =>
          \/ input.file.is = "unreadable"
          \/ ~ IsText(Source("log_level"))
          \/ RootEnd.error # "" \/ ArtifactEnd.error # ""

(***************************************************************************)
(* Between what the configuration accepts and what runs: a command of the  *)
(* client that runs begins with an executable of the configuration; a test *)
(* that the server has started with runs, unless an argument of it holds   *)
(* a substitution, which only the checks of run time refuse.               *)
(***************************************************************************)
CommandsAreApproved ==
    /\ command # <<>> =>
          /\ Head(command).form = "bare"
          /\ \A i \in 2..Len(command) :
                command[i].form \notin {"control", "trailed", "operator", "substitution"}
          /\ Request.tool = "run_command" =>
                \E i \in DOMAIN config.allowed_commands :
                   config.allowed_commands[i].executable = Head(command)
    /\ Request.tool = "run_tests" /\ answer.kind = "tool_error" =>
          answer.error = "CommandSecurityError" <=>
             \A i \in Selected :
                \E j \in DOMAIN config.test_commands[i].command :
                   config.test_commands[i].command[j].form = "substitution"

Answered(tools) == answer.kind = "result" /\ Request.tool \in tools

(* The lines from start on, count of them, by the line each character is on. *)
LinesOf(text, start, count) ==
    LET lineOf(i) == 1 + Cardinality({j \in 1..(i - 1) : text[j] = "n"})
        asked == {i \in DOMAIN text : lineOf(i) >= start /\ (count # NoCount => lineOf(i) < start + count)}
    IN IF asked = {} THEN <<>> ELSE SubSeq(text, Min(asked), Max(asked))

(***************************************************************************)
(* A read_file that nobody interferes with returns exactly the lines asked *)
(* for, and refuses exactly what is no file, too large, not to be opened   *)
(* or no text, with the error that belongs to it.                          *)
(***************************************************************************)
QuietReadIsExact ==
    Quiet /\ walk.step = "done" /\ walk.verdict = "resolved"
          /\ Request.tool = "read_file" /\ pc = "answered" =>
       IF Here.kind # "file" THEN answer.error = "WorkspaceFileError" \/ Here.kind = "EACCES"
       ELSE IF Len(Here.bytes) > config.max_file_size_bytes THEN answer.error = "FileTooLargeError"
       ELSE IF ~ Here.readable THEN answer.error = "OSError"
       ELSE IF Binary(Here.bytes, Sample) THEN answer.error = "BinaryFileError"
       ELSE answer.shown = Sanitised(<<LinesOf(Decode(Here.bytes), Request.start, Request.count)>>)

(* All there is to show of the output of a command, or of an artifact. *)
Sources ==
    IF Request.tool = "collect_artifact" THEN <<Here.bytes>> ELSE <<input.stdout, input.stderr>>
All(i) == Redact(Patterns, Decode(Sources[i]))

(***************************************************************************)
(* A text that is not flagged as truncated, of a command that ended in     *)
(* time or of an artifact nobody changed, lacks nothing: neither the cut   *)
(* of the capture nor the one after redaction goes unnoticed.              *)
(***************************************************************************)
UnflaggedOutputIsComplete ==
    Answered({"run_command", "collect_artifact"}) /\ ~ answer.timed_out /\ Quiet =>
       \A i \in DOMAIN answer.cut : ~ answer.cut[i] => answer.shown[i] = Sanitise(Patterns, All(i))

(* What a cut may leave at the end that is not in the whole: half a character, or *)
(* the beginning of a secret without its value. *)
IsRemnant(tail) ==
    tail = <<>> \/ tail = <<"u">> \/ (Head(tail) = "k" /\ ToSet(Tail(tail)) \subseteq Blanks)

(***************************************************************************)
(* stdout and stderr together, and an artifact, stay within                *)
(* max_output_bytes even though redaction and decoding make them longer,   *)
(* and are beginnings of the whole output, as it is when it is redacted.   *)
(***************************************************************************)
OutputIsBoundedPrefix ==
    Answered({"run_command", "run_tests", "collect_artifact"}) /\ Quiet =>
       /\ Utf8Size(FlattenSeq(answer.made)) <= Limit
       /\ \A i \in DOMAIN answer.made :
             \E n \in 0..Len(answer.made[i]) :
                IsPrefix(Cut(answer.made[i], n), All(i)) /\ IsRemnant(From(answer.made[i], n + 1))

(***************************************************************************)
(* No text that is shown, or written into the report of a test, has a      *)
(* secret with its value in it, wherever cuts, joins and labels fall.      *)
(***************************************************************************)
NoSecretIsShown ==
    answer.kind = "result" /\ Patterns # <<>> =>
       /\ \A i \in DOMAIN answer.shown : ~ ShowsSecret(answer.shown[i])
       /\ Request.tool # "read_file" => \A i \in DOMAIN answer.made : ~ ShowsSecret(answer.made[i])

(***************************************************************************)
(* "MCP-facing text is truncated to configured byte limits"                *)
(* (docs/threat-model.md): the texts of run_command fit max_output_bytes.  *)
(***************************************************************************)
ResponseFits == Answered({"run_command"}) => Utf8Size(FlattenSeq(answer.shown)) <= Limit
=============================================================================
