# Verification of workbench-mcp

This directory holds TLA+ models of workbench-mcp (`src/`), their TLC model-checking runs and
TLAPS proofs. workbench-mcp is an MCP server that gives a client bounded access to one workspace:
list, read, search and patch files, run configured commands and tests, inspect Git, collect
artifacts. Each tool call is one synchronous Python function; the server framework runs it in a
pool of threads, so calls overlap with one another, with the commands they start, and with every
other program that uses the workspace. The server can be killed at any point.

File names below are relative to `src/src/workbench_mcp/`.

## 1. The system

| Component | State | Operations | Talks to | What is hard |
|---|---|---|---|---|
| Subprocess capture (`services/subprocess_capture.py`) | per call: two pipes, two reader threads, captured prefixes, the process group | `run_bounded_subprocess` | the operating system; used by process runner and Git service | threads against pipes, timeouts against exits, signals, descendants that keep pipes open |
| Patching (`services/patching.py`) | one file, one temporary file per call | `apply_patch` | limits, paths | lost updates, partial failures, kill, power loss |
| Test runner (`services/test_runner.py`) | one report file per test | `run_tests` | process runner; writes what the artifact service reads | runs of the same test overlap on one file written in place |
| Artifact service (`services/artifact_service.py`) | none | `collect_artifact` | paths, redaction, limits | stat, read and write interleave |
| File listing and reading (`services/filesystem.py`) | none | `list_files`, `read_text_file` | paths, limits | the tree changes under the walk; limits met in nested directories |
| Search (`services/search.py`) | none | `search_text` | paths, limits | files listed first, read later; two limits |
| Process runner (`services/process_runner.py`) | none | `run_command`, `run_predefined_command` | command validation, capture, redaction, limits | order of cutting, decoding, redacting |
| Limits and redaction (`security/limits.py`, `security/redaction.py`) | none | `truncate_text`, `truncate_output_pair`, `redact`, `enforce_file_size` | everybody | cuts inside a code point, empty budgets |
| Path resolution (`security/paths.py`) | none | `resolve_workspace_path`, `resolve_contained_path` | every file operation | links, missing parts, errors that pass the handlers |
| Command validation (`security/commands.py`) and configuration (`config.py`) | the configuration, fixed at start | `validate_allowlisted_command`, `validate_command_tokens`, `load_config` | process runner, tools | two sets of rules for one thing |
| Git service (`services/git_service.py`) | none | `status` | capture | several commands, one answer |
| Diagnostics (`services/diagnostics.py`) | none | `diagnose_workspace` | Git service, configuration | partial failures become reports |
| Tools and server (`tools/`, `server.py`) | none | ten tools, one resource | all services | which errors are converted; sanitising after truncation |
| Scripts (`src/scripts/`) | none of their own | start a server and look at its answers | the server | - |

State that is shared between concurrent calls is small and is where the models begin: the pipes
and processes of a command, the file being patched, the report of a test, and the tree.

## 2. Modules

| Module | Role |
|---|---|
| `CapturedResults` | the results `run_bounded_subprocess` may return; shared by what implements it and what calls it |
| `CommandContract` | abstract: what a call of `run_bounded_subprocess` promises its caller |
| `SubprocessCapture` | the calling thread, two readers, the command and its descendants, on three kinds of host; refines `CommandContract` |
| `TextBlocks` | `str.count` and `str.replace(old, new, 1)` on sequences of blocks |
| `PatchedFile` | abstract: one file, changed atomically or not at all |
| `Patching` | concurrent `apply_patch` calls, one system call a step; refines `PatchedFile` |
| `TestReports` | concurrent `run_tests` and `collect_artifact` on one report file |
| `Ordering` | sorting a finite set by an order on it, and the order in which a walk meets paths |
| `WorkspaceTree` | a tree of files, the changes others make to it, what is below a place |
| `ListFiles`, `SearchText` | one call of `list_files` / `search_text` over a `WorkspaceTree` |
| `GitStatus` | one call of `GitService.status`: five commands, each ending with one of `CapturedResults`, over a repository that changes |
| `Diagnostics` | composes `GitStatus` with the checks of `diagnose_workspace` and the machine they look at; also the call of `git_status` alone |
| `FileTree` | external: a file system with symbolic links, as the kernel walks it |
| `RealPath` | external: `Path.resolve()` where it is not strict, as the roots are resolved |
| `PathResolution` | `resolve_workspace_path`, one system call a step, in a `FileTree` that changes |
| `CommandPolicy` | the rules for commands of the configuration and of run time, side by side |
| `TextOutput` | decoding, redaction, truncation, replacement of roots, slices of lines, on sequences of characters |
| `Configuration` | `load_config`: sources, parsers, validators, failures |
| `ToolCalls` | composes the six above with the contract of `CapturedResults`: the server from its start to the answer of one call of `run_command`, `run_tests`, `read_file` or `collect_artifact` |
| `MC*` | instances for TLC; a `.cfg` of the same name, and further ones for the violated runs |
| `SubprocessCapture_proofs`, `Patching_proofs`, `TestReports_proofs`, `ListFiles_proofs`, `SearchText_proofs`, `Diagnostics_proofs`, `ToolCalls_proofs` | the theorems about the module of that name, with their TLAPS proofs; those of `GitStatus` are in `Diagnostics_proofs`, those of `Configuration`, `CommandPolicy` and `PathResolution` in `ToolCalls_proofs` |
| `Ordering_proofs` | lemmas about sorting, walks and induction that the last four share |

### How the models correspond to the code

**SubprocessCapture.** `pc` goes over the statements of `run_bounded_subprocess`,
`_terminate_process_tree` and `_OutputCollector.finish` that can block, send a signal or change
state. `Wait`, `Grace`, `Wait2`, `Wait3` are the four waits; `Poll` the early return; `TerminatePosix`,
`KillGroup`, `Kill`, `TerminateWindows` the signals; `Join`, `ClosePipes`, `RejoinDone`,
`RejoinExpires`, `Check` are `finish`. A reader is `BeginRead`, `Fill`, `Deliver`, `ReadEof`,
`ReadFails`. `BufferedReader.read(n)` gathers a whole chunk while it holds the lock of the buffer,
which `close()` needs: hence the state `"reading"` and the guard of `ClosePipe`. Bytes are
counted: a pipe is read in order, so a prefix is its length. Time is abstract: a wait with a
timeout may give up whenever what it waits for has not happened, so every race of a timeout is
there. The platforms are `posix`, `nogroup` (no `os.killpg`) and `windows`. The branch for
`ProcessLookupError` has no action: the leader is not reaped when the group is signalled, so its
pid exists.

**Patching.** A call is the sequence of system calls of `apply_patch` and `_atomic_write_text`
(`Enter`, `IsFile`, `StatSize`, `Read`, `StatMode`, `MkStemp`, `WriteTemp`, `Fsync`, `Chmod`,
`Replace`, `Cleanup`); between any two of them other calls, other programs (`Edit`), a kill
(`Crash`) or a power loss may come, and each call of the `try` block may fail (`WriteFails`). A file
is an inode with its text, mode and whether its data is on disk; power loss tears unsynced data
and may bring back any file the name stood for, since the directory is not synced. The read fails
(`ReadFails`) where the file is gone or may not be opened. Texts are short sequences of blocks. Path resolution is reduced to whether the file exists.

**TestReports.** `run_tests` is `RunCommand` (the call of the process runner), `Open` (`mkdir`, and `open` that
empties the file), `Write` (any number of short writes at the writer's own offset; beyond the end
they leave a hole of NULs), `Returns`, and the failures. `collect_artifact` is
`Resolve`, `Stat`, `ReadSome`, `Collected`. Sizes are in blocks. Redaction of the collected text is
not modelled here. Nobody removes a report: the program has no operation that does.

**Ordering, WorkspaceTree, ListFiles, SearchText.** A path is a sequence of names, and names are their rank
in the order the walks sort by, so that the order of a depth-first walk is a relation on paths
(`Precedes`) and the reference for a listing is a set and an order, with no recursion. `Sorted` gives the n-th
element of a set by how many do not come after it, for any order; it stands for `sorted()`. The
recursion of `_walk_directory` is a stack of frames with its local `truncated`; one step per system
call (`is_symlink`, `is_dir`, `stat`, `iterdir`, ...). `SearchText` has the walk of
`_iter_searchable_files` and the loop of stat and read; the loop over the lines of a file is one
step, as it touches nothing shared. `unreadable` holds the directories that the server may not list and the
files that it may not open: `iterdir()` of such a directory is `WorkspaceFileError` in a listing (`MayList`) and ends a search
with an `OSError` that nothing converts, as does `read_bytes()` of such a file. Directories that may be listed and not searched are
left to `FileTree`. A directory read by one `iterdir()` and a file read
by one `read_bytes()` are seen at one moment. Other programs create, rewrite, delete and change permissions (`Edit`); they do
not make symbolic links during a walk, so resolving a path met on the way yields the path.

**GitStatus, Diagnostics.** `Exists` and `IsDir` are `_is_repository` up to its command; a command is
`Launch`, any number of `Look`, and `Returns` or `CommandRaises`, where `Returns` takes any of `LegalResults`, the set that
`SubprocessCapture` is proved to stay in. A command that ends well has captured the beginning of what it
printed (`EofMeansComplete`: git leaves no descendants behind here); a command may also fail or time out at
any time. What git prints is external: it follows from the content of each file in the last commit, the index and the work
tree; git reads the index first, the work tree file by file, the last commit at the end.
Output is counted in bytes by the size of its lines. `Rejected` is `_run_git`, `Parse` is `_parse_porcelain`, `Noted` what `status` keeps.
A finding is a verdict on a topic, a pair of what it is about and which one of these.
`Diagnostics` has one step per look (`RootExists`, `RootIsDir`, ...), two for the probe of `_can_write_directory`, which is made and
removed (`MakeProbe`, `RemoveProbe`), and the Git service inside the step `"git"`. A path below a directory
that may not be searched is `"denied"`: `exists()` and `is_dir()` raise for it in the Python versions
the project supports (3.12, 3.13). Renames, merges in progress, quoted paths and untracked directories are left out of what git prints.

**FileTree, RealPath, PathResolution.** A place is the sequence of names from `/`; `Walked` is the kernel's walk with
its errors. A directory that may not be searched (`LockedDirectory`) and a file that may not be opened (`UnreadableFile`) are the permissions
that what is modelled here can meet; nothing here lists a directory. It is a recursive function over the names walked, up to the bound `MaxNames`, where the kernel's own
limit is 40 links: more names than any path of the scenarios without a loop needs. `Scan` is one `is_symlink()` of `_has_symlink_component`. `LeaveLink`, `GoUp`, `GoOn`, `KnownLink`,
`EnterLink` and `LookFails` are the loop of `posixpath.realpath`, which `Path.resolve(strict=True)` calls: it
takes `..` off the path without looking, remembers the ends of links it has come out of, and fails on a
link it is still inside of. That function is the library's and so external; what the code makes of its
errors and results (`LookFails`, `Contain`) is not. Up to Python 3.12 a loop of links is `RuntimeError`,
from 3.13 on `OSError`: both versions the project supports are in the scenarios. The tree may change between any
two system calls (`Edit`), but not the roots and what they are in (`Settled`).

The roots are resolved in another way, without `strict`: `realpath` does not mind what is not there, is no directory or may not be
looked at. It adds the name and goes on, and a `..` takes it off again, so that `gone/../ws` and `file/../ws` are `ws`, which the
kernel would not find. At a link it is inside of Python 3.12 stops looking (and `resolve()` then raises `RuntimeError` if the end is
a loop: `EndLoops`), 3.13 goes on. `RealPath` does that name by name, on one tree: the roots and what they are in do not change. Bound:
`2 * MaxNames` looks, enough for every root of the scenarios; a path that takes more is no root in the model.

**CommandPolicy, Configuration.** A token is a word in one of ten forms, the classes that the two sets of
rules tell apart; one of them, `trailed`, is a bare word with a line end after it, which the configuration strips from an executable before it
looks for control characters, so that `"git\n"` is `git`. `Upper` is the `upper()` of a log level. `Place` is the `resolve()` of a
root, `IsRoot` and `Raises` the `exists()` and `is_dir()` after it. A value has the form it is written in, as far as parsers and validators tell
forms apart. Nothing is served before the configuration is loaded, so `Loaded` is one step; inside it,
the order of failures is the code's where it decides between `ConfigError` and another exception.

**TextOutput.** A text is a sequence of characters of one, two and three bytes. A secret is the beginning of the default
pattern (`token=`), blanks, and a value up to a blank, so a cut may fall before, inside and after it, and labels,
markers and joins may come next to it. `Decode`, `Redact`, `Truncate`, `OutputPair`, `Sanitise`, `Summary`, `Lines`, `Slice`
are functions of the code or of the library, by what they return.

**ToolCalls.** `Start` is `load_runtime_config` and `create_server`. A call begins with the checks of its
command (`CallRunCommand`, `CallRunTests`) or none (`CallReadOrCollect`); `ResolvePath` are the steps of
`PathResolution`, which begin with the `resolve()` of the root (`BeginPath`; for a category of artifacts that is a link into itself
it raises `RuntimeError` up to Python 3.12), `Resolved` and `CheckKind` what the services do with the path, `Run` the capture, of which all that is known is
`LegalResults`, and what `_run_validated` makes of its bytes (`Output`); `StatSize` and `Read` the two looks of a
read, which may end at a file that may not be opened. `Raise` is `call_safely`: an error of `errors.py` becomes a `ToolError`, anything else is masked by the framework.
The answer has the texts the client is shown (`shown`) and what the service made of them before they were sanitised
(`made`), which is what a test report gets. Commands leave no descendants behind here, so unless it times out
all a command wrote is captured up to the limit (`EofMeansComplete` says that it is so for every stream whose reader has not died, and `ReturnedMeansComplete` that one may).

## 3. Runs

Each passing run also checks deadlock. Every property has a mutant of the code in the module (comments
`Mutant: ...`) that breaks it within the bounds of its run.

| Run | Question | Bounds |
|---|---|---|
| `capture` | capture bounded, complete unless a reader died, safe signals, leader reaped, group killed, call ends once pipes are released, contract implemented | one descendant, limit 1, chunk 2, pipe 1, up to 3 bytes on stdout, every platform |
| `capture_returns` | does every call end? **No** | one descendant that keeps a pipe |
| `capture_complete` | is an unflagged result complete? **No** | the same |
| `patching` | file whole, no litter, undisturbed patch exact, atomic changes | 2 calls, 4 requests, 5 texts, 2 edits, 1 kill or power loss, any failing call |
| `patch_current` | is the text replaced the text that was patched? **No** | 2 calls that replace different blocks of a file of two, no disturbance but each other |
| `reports` | what a report and a collection can be relied on for | 2 runs, 1 collection, up to 4 blocks, limit 1, sample 3, 1 kill |
| `listing` | `list_files` exact when undisturbed, complete for what did not change | 5 trees of 3 levels, 4 choices of what may not be listed, 29 argument lists, 2 changes |
| `search` | `search_text` likewise, with both limits | 3 trees, 4 choices of what may not be read, 11 argument lists, 2 changes |
| `diagnostics` | are unchanged files, branch, directories, rights and programs reported exactly; are probes removed | 2 files in 4 repositories, 2 machines, every kind of root, limit of 2 lines, 2 changes |
| `repository_recognised` | is a workspace reported as no repository none? **No** | the same |
| `tool_calls` | verdicts on paths, the configuration that is served, commands that run, reads and outputs: exact, approved, bounded, flagged, free of secrets | 942 scenarios, one call each, 1 change of the tree |
| `response_fits` | do the texts of `run_command` fit the configured limit? **No** | the same |

Why these bounds are enough for the cases that matter:

- `capture`: a limit below the chunk and output beyond both makes a chunk that is cut, one that is
  dropped, one that just fits, and a full pipe; one descendant inside or outside the group, with any
  subset of the pipes, is every obstacle a group of them can be to `close()`, `join()` and
  `killpg`. The safety part is proved for all values (below).
- `patching`: two calls are what a lost update takes; requests shrink, keep, grow and leave the
  text, texts have no, one and two matches, are too large or binary; two edits remove the file and
  bring it back. The safety part is proved for any number of calls and edits.
- `reports`: reports shorter than, as long as and longer than limit and sample; the sample is longer
  than the limit. Collections only read, so one stands for many. Proved for all values.
- `listing`, `search`: the trees contain an excluded directory, a link and a file of an excluded name,
  an empty directory, one that comes last; limits are met inside a nested directory, inside a
  file and between files. What may not be read is the root, a directory in it, several of them at different depths, an excluded one, or
  files, before and behind the point where a limit is met. Two changes turn one thing into another between two looks at it.
- `diagnostics`: the two files give one, two and three lines of output for a limit of two; a file that was taken out of the
  index has two lines. What is claimed is about what did not change, so two changes, which can turn a thing into
  another and back between two looks, are what can disturb it. The machines start with something out of order; the changes
  lead to the others.
- `tool_calls`: the scenarios are five families, each with the others held simple. Configurations: every form
  of value for every field, valid and not, in the file, in a variable and in both, twice in the file, and files that are no configuration;
  roots that are links, behind a link in a loop, locked, missing or no directory, with `..` after each of these and with more names between.
  Paths: links in, out, back in, up, onto themselves, twice over the same link, through a file, a missing
  name, a directory that may not be searched, to a file that may not be opened, below a category that is missing or a link into itself, absolute and with control characters, on both Python versions. Commands: every form
  of token as executable and as argument. Reads: every slice of three lines, sizes around the limit, NULs inside and
  outside the sample. Outputs: two- and three-byte characters, a secret and a root, against limits of 1, 3, 4 and 6 bytes that fall before, in
  and behind each of them. One change is enough to bring two looks of one call into disagreement; what is
  claimed of verdicts and reads is claimed for calls that nobody interferes with.

### What the violated runs show

- `capture_returns`: `finish` closes a pipe whose reader is inside `read()`; `close()` waits for the
  buffer's lock until every descendant has closed the pipe. A command that leaves a background
  process behind with its output open blocks the call past every timeout, although joins and
  waits are bounded. The positive counterpart, `ReturnsOnceReleased`, holds.
- `capture_complete`: a reader that is between two reads when its pipe is closed dies of
  `ValueError`, which `_read_limited_pipe` does not catch; no error is recorded and the
  short capture is returned unflagged. The shortest counterexample delays the reader; a descendant
  that keeps writing brings the reader to the same point. `EofMeansComplete` is what does hold: a stream of a
  result is complete unless its thread has died in this way. A read that fails is an error of the call, whatever the other stream did.
- `patch_current`: the file is `[a, b]`; one call replaces `a` by `c`, the other `b` by `d`. Both read `[a, b]`. The first
  swaps in `[c, b]`, the second then swaps in `[a, d]`, which it made of what it had read: both report success and the patch
  of `a` is lost. What the code does promise is `PatchedFile`.
- `repository_recognised`: `_is_repository` takes every exit code of `rev-parse` but 0, and an answer cut by a very small
  limit, for "no repository". When git refuses a work tree (one that belongs to another user, say; the
  environment the service sets also hides the setting that would allow it) the client is told there
  is no repository, and a diagnosis that the workspace has no Git metadata. The same failure of a later
  command is an error.
- `response_fits`: stdout and stderr are cut to `max_output_bytes` and afterwards `sanitize_message` replaces the
  configured roots by labels. Where a root is shorter than its label (`/workspace` of the Docker image, ten bytes, for
  `<workspace_root>`, sixteen) the text grows past the limit again. `OutputIsBoundedPrefix` is what holds: the
  limit is kept before the labels are put in.

Four smaller differences are part of passing properties. A test command with a substitution
(`$(x)`, a backtick) among its arguments is accepted at start and refused at every run, since `config.py` checks whole
tokens and `security/commands.py` parts of them: `CommandsAreApproved` allows exactly that one. Loading the
configuration may end in an exception other than `ConfigError` (an unreadable file, a log level that is no text, a root below a directory
that may not be searched, up to Python 3.12 a loop of links): `ConfigurationIsResolved` names each.
A root may be configured by a path that no system call accepts (`gone/../ws`): the server serves `ws`. And a file or a directory that the
server may not read is one error in a listing (`WorkspaceFileError`), and another in a search and in `read_file`, whose
`OSError` is masked: `QuietListingIsExact`, `QuietSearchIsExact` and `QuietReadIsExact` say which and when.

### Fairness

Safety runs use none. `capture` uses `FairSpec`: the calling thread and each reader are scheduled,
and a pending fatal signal kills (`WF` of `Call`, of each `Reader(s)`, of each `Die(p)`). These are
what an operating system gives to threads and signals; timeouts expire since `Call` includes giving up. Nothing is
assumed of the command: it need not write, close, exit, or obey SIGTERM. `ReadFails` is not fair.
Since waits may give up at any time, the second join may expire merely because a reader
is slow: the `capture_error` this allows needs a reader starved for two seconds in the code.

## 4. Proofs

All proofs hold for every value of the constants that satisfies the named assumptions; TLC evaluates
each of them in the runs. They say:

- that sizes, limits and bounds are natural numbers, and those the configuration makes positive are positive
  (`ConstantsAssumption`, `GitAssumption`, `SearchAssumption`, `NodesAssumption`, `TextAssumption`);
- that special values (no file, torn data, a hole, no branch) differ from ordinary ones (`SentinelsAssumption`,
  `NoFileAssumption`, `PathsAssumption`, `GitAssumption`);
- that inputs have the types the program is called with (`RequestsAssumption`, `SearchAssumption`,
  `MachineAssumption`, `ScenariosAssumption`), trees begin as trees and other programs put nodes of a tree into them
  (`PathsAssumption`, `NodesAssumption`), and the repository has finitely many files (`GitAssumption`);
- that two names that are literals of the code are texts (`LiteralsAssumption`).

What is proved, by module:

- `SubprocessCapture_proofs`: `TypeCorrect`; `PrefixCorrect` (the captured bytes are
  `min(limit, seen)` and flagged exactly when more was seen); `EofComplete` (no result is made while a reader is at work or when its
  read has failed), which needs that
  bytes are conserved between pipe, chunk and capture, that a reader at end of file has closed
  its pipe, and that nobody holds that pipe then; `SignalSafety` (an invariant ties each step of the escalation to
  the leader not being reaped); `Implementation` (every step is a step of `CommandContract` or a
  stutter; needs that a reader that has ended changes nothing and that the exit code is the
  command's own unless the call timed out).
- `Patching_proofs`: the inductive invariant `IInv` says of every call, for the step it
  is at, what its temporary file holds (text, mode, synced) and where its `original_text` comes
  from, and that every file the name ever stood for is synced and whole. From it: `TypeCorrect`, `AlwaysWhole`, `TempsAreRemoved`, `UndisturbedExact`, and
  `Implementation` of `PatchedFile`, for any number of calls, edits and outages. What a block match is does not
  matter to the proof: all it needs of the block operators is that `ReplaceFirst` yields a text (lemma `ReplaceFirstType`).
- `TestReports_proofs`: `ReportInv` says that as long as the latest run to open the report has not overlapped with
  another, the file is exactly what that run has written, so there is no hole; a writer other than the
  latest marks it overlapped. From it `TypeCorrect`, `LoneReport`, `BinaryIsOverlap`. `QuietInv` adds that what an undisturbed
  collection has read is a prefix of the file and its size is right; from it `QuietCollect`.
- `Ordering_proofs`: `Sorted(S, R)` has each element of a finite set once, in order, and is the only such sequence
  (`SortedProperties`, `SortedUnique`), so a listing that is proved to hold the right set in the right order *is* the
  reference. `Precedes` is a total order on paths. The walk is the set of paths that are still `Ahead` of its stack,
  and `EnterWalk`, `LeaveWalk` and `PickInWalk` say what a directory that is entered, left or read from does to that set.
  `LeastNatural` and `StepByStep` are induction over the natural numbers, from the library's well-foundedness
  of `<`; everything said below about recursive functions (`Walked`, `Normalised`, sums) rests on them.
- `ListFiles_proofs`: `TypeCorrect`, `EntriesKeepTheOrder`, `NothingStableIsMissed`, `QuietListingExact`, for any tree, any request and any number of
  changes. The invariant `ListInv` has a part for each thing a walk must not get wrong. `DepthInv`: the stack is
  the chain of directories above the current path, and no longer than the depth asked for. `OrderInv`: what is ahead comes after
  what is listed. `CoverInv`: what was there all the time is listed, or ahead, or excluded, or cut off
  behind the last entry. `QuietInv`: as long as nothing has changed, what the walk has seen is the tree.
  `CoverInv` needs `OrderInv`, since only the order says that what is cut off comes last. That a listing gets to a directory it may
  not list before it is full (`IsBarred`) follows from the order too: what is listed by then is all that comes before it (`NoFurther`).
- `SearchText_proofs`: `TypeCorrect`, `OutputBounded`, `MatchesKeepTheOrder`, `NothingStableIsOverlooked`, `QuietSearchExact`. `SearchInv` is the same
  walk, and `QuietReadInv` for the second half of the call: the files still to read are the rest of the reference
  list, the matches are those of the files read, and the counters count them. Which match is the
  first that does not fit follows from the sums of sizes (`TotalIs` and the lemmas after it), and so does whether the search reads a file it
  may not open (`FitsUpTo`).
- `Diagnostics_proofs`: for `status`, `GitInv`: what each command has seen of a file that was not touched is what the
  file is (`SightInv`), what is noted from it is so too (`StatusInv`), and the workspace was a work tree when the first command said so
  (`PlaceInv`). With `ParseIsExact` (a list of `_parse_porcelain` has each file of its kind once, for any
  number of files) it gives `FilesAreExact` and `SummaryIsExact`. For a diagnosis, `DiagnosisInv` adds which topics have a verdict at which step
  (`TopicInv`: at most one each), that the verdicts given are those of the machine (`VerdictInv`) and which probe exists (`ProbeInv`);
  from it `TypeCorrect`, `VerdictsAreExact`, `ProbesGo`.
- `ToolCalls_proofs`, for any file system, configuration, request, command and number of changes:
  - `ConfigurationCorrect`. What `load_config` merges is, field by field, the value of the strongest source: the last spelling in the
    file wins (`NormalisedFacts`, by induction over the keys of the file), a variable wins over it (`AllIsSource`). `OutcomeIs` is the
    order of the failures; from it one lemma for each of the three ways a start ends (`ServedResolves`, `RefusedResolves`,
    `CrashedResolves`). The property says of the roots what the kernel says of the configured paths, and the code has looked at
    them with `realpath`, so the proof compares the two. `Nears` says of a step of `RealPath` that the kernel, on a path it comes to the end of, needs fewer
    names from the new place than from the old one; `RealPathArrives`: where the kernel arrives `RealPath` does, at the same place. `StraightEnds`: no
    name of what `RealPath` returns is a link, unless one led into itself, so a directory that is found there is its own end, whether the kernel
    arrives with the configured path or not. `PathStands` puts the two together and
    `RootStands` and `ArtifactsStand` apply them. `ConfigInv` keeps that for the life of the
    server, with the configured commands stripped and valid (`CommandsConfigured`).
  - `CommandsCorrect`, from `ConfigInv` and `CallInv`: a command is there exactly from the moment it was approved.
    The other direction (a refused test has a substitution) needs that what the validators of the configuration
    accept differs from what run time accepts in that one form only (`RefusedTest`).
  - `TypeCorrect`, with `TreeKept` (whatever others do to a tree, everything is still in a directory).
  - `PathStaysInside`: a path `resolve_workspace_path` returns is below the root and, while nobody changes anything, the
    kernel's own walk of it ends at it, whether or not it would follow a last link. The invariant `WayInv` says that the place `realpath` has come
    to, and every end of a link it has come out of, is `Solid`: only directories on the way, no link, no `..`.
    `LookAhead` ties a look to that: an `lstat` of the next name of a solid place sees the node that is there. `SolidIsItself` then computes the
    kernel's walk of a solid place, name by name.
  - `VerdictsExact`: whatever `resolve_workspace_path` returns or raises for a path that nobody changes meanwhile is what the kernel's own
    walk of that path says. The relation `LeadsTo(tree, a, s, b, t)` ties the two: whoever walks `s` from `a`, and whatever comes after it, walks
    `t` from `b` in fewer names and ends at the same place with the same answer. `FaithInv` says that the request leads to
    where `realpath` has come to with what it has left (`CourseAgrees`), that every link whose end it remembers leads there (`KnownAgrees`), and
    that every link it is still inside of leads to where it is (`InsideAgrees`). Since a link costs the kernel a name, one that is met inside itself
    is one the kernel never comes out of (`NoWayRound`); that is why `realpath` may stop there. `ScanAgrees` says what
    `_has_symlink_component` has seen, and `PlainAgrees` that without a link the path is its own end, which tells
    `SymlinkEscapeError` from `PathEscapeError`. The theorem has one hypothesis. `BoundIsFar`: the model's kernel gives up after `MaxNames` names and
    `realpath` never does, so a refusal for a missing path, or up to Python 3.12 for an `OSError`, is not compared with a kernel that has
    given up before it got there. TLC finds it true in every undisturbed state of the run
    `tool_calls`, which checks the property without it. Of a root that is missing or not its own end (below a category that is not there, say) the property says
    less: a path that goes up from there is refused as an escape, where the kernel finds nothing to go up from.
  - `OutputComplete`: what is not flagged as truncated is all there was. It needs no more of decoding and redaction than that they
    are functions; the invariant `OutputInv` ties the size a read has looked up to the bytes it reads.
  - The functions on texts (`Decode`, `Redact`, `ReplaceAll`) are recursive functions over the places of a text. `RewrittenIs` and
    `RewritingExists` say what such a function is, and `FromTheEnd`, induction downwards from the end of a text, carries a fact from the last
    character to the first. A character that the code writes into a text (a marker, a label, U+FFFD) is a string literal, which no prover
    knows to be in `STRING`; `Character` names those. That no marker and no label has a secret's name in it, and that a root does not
    begin with a blank, is `TextAssumption`.
  - `SecretsHidden`: no text that is shown has a secret with its value. A text is `Clean` if nothing but blanks comes after the name of
    a secret; redaction makes it so (`RedactIs`), and every cut keeps it (`CutIsClean`). Two clean texts that are joined are not always
    clean, which is why `JoinIsClean` asks what they are joined with, and why the labels that take the place of roots
    (`ReplaceIs`) must not leave a value behind a name whose value was cut off.
  - `OutputBounded`: what is made of an output keeps the limit and begins the whole output, redacted. Redaction comes after one cut and
    before another; `LikeSecrets` and `RedactBegins` compare the redaction of a text with that of what is cut from it: they differ from
    where the cut falls into a secret or a character, and what is left there is a remnant (`Leaves`). Sizes are
    sums over characters (`Sums`).
  - `QuietReadExact`: what `splitlines`, a slice and `join` make of a text is what stands on the lines that were asked for. The
    number of a line is one more than that of the line ends before it (`LineNumber`), and lines that follow each other are a part of
    the text (`LinesJoin`). `FileInv` says that a file that is read was found to be one, and not too large; whether it may be opened is known only at the read.

The invariants say more than the properties do, because a step takes the property's truth from more than the
property: `CoverInv` speaks of what is still ahead and not only of what is listed, since a directory that is entered moves
paths from one to the other; `WayInv` speaks of the ends of known links, since a link met again is not
looked at again; `VerdictInv` of what was seen at each step, since `exists()` and `is_dir()` are two looks.

Only model-checked, and why:

- Liveness (`capture`) and `FullPipeIsDrained`: fairness and `ENABLED` are beyond the prover.
- `PathVerdictsAreExact` where the hypothesis of `VerdictsExact` fails is neither proved nor met in a run.

Every other property of the passing runs is stated by a theorem.

## 5. Not modelled

Components without a module, or with a part left out, are listed in `PROJECT.json` with the reason.
Nothing is left of the plan.

One call at a time is modelled by `ListFiles`, `SearchText`, `GitStatus`, `Diagnostics` and `ToolCalls`: these calls
write nothing another call reads, but for reports (`TestReports`), patches (`Patching`) and the probe file of a
diagnosis, which to the others is a change some other program makes.

Of permissions, those are modelled that a look of the code can meet: a file that may not be opened, a directory that may not be listed
(`WorkspaceTree`) or searched (`FileTree`), a file or directory that may not be written (`TestReports`, `Patching` and `Diagnostics` let such calls
fail). Left out: a directory that may be listed and not searched during a walk, where every look at what is below it fails.

Left out for good: registration of tools, the resource and `workspace_info` (views of the configuration and of `GitStatus`),
formatting and logging, TOML/JSON/argument parsing (their libraries'), Docker files, scripts; of the regular
expressions of secret patterns every form but that of the default.
