---------------------------- MODULE Diagnostics ----------------------------
(***************************************************************************)
(* DiagnosticsService.diagnose_workspace (services/diagnostics.py), and    *)
(* the tools git_status and workspace_info, which call the git service     *)
(* alone.  A diagnosis looks at the workspace root, the artifact           *)
(* directory, the configured executables and the repository, one system    *)
(* call at a time, while all of them may change.                           *)
(*                                                                         *)
(* A finding is a topic, a severity and a verdict; the closing remark on   *)
(* HTTP, which is always the same, is left out.  A topic is a sequence:    *)
(* <<"git">> is the repository and <<"executable", "git">> the program.    *)
(***************************************************************************)
EXTENDS GitStatus

CONSTANTS
    Executables,    \* those of allowed_commands and test_commands
    Machines        \* the state the rest of the machine may be in at the start

Directories == {"root", "artifacts"}

MachineStates ==
    [artifacts : PathKinds,                  \* what ARTIFACT_DIRECTORY is
     readable : BOOLEAN,                     \* whether the root may be listed
     writable : SUBSET Directories,          \* where files may be made and removed
     on_path : SUBSET (Executables \cup {"git"})]

ASSUME MachineAssumption == Machines \subseteq MachineStates

VARIABLES
    read_only_mode,
    machine,       \* the state of the rest of the machine
    probes,        \* the temporary files of _can_write_directory that exist
    step,          \* the step the tool is at
    unchecked,     \* executables left to look up
    findings       \* the findings so far

toolVars == <<step, unchecked, findings>>
diagnosisVars == <<read_only_mode, machine, probes, step, unchecked, findings>>
vars == <<worldVars, statusVars, diagnosisVars>>

Finding(topic, severity, verdict) ==
    [topic |-> topic, severity |-> severity, verdict |-> verdict]

-----------------------------------------------------------------------------
(* Other programs.                                                         *)

(* A probe goes when its directory does. *)
ProbesLeft(dir, k) == IF k \in {"missing", "file"} THEN probes \ {dir} ELSE probes

ChangeMachine(fact, m) ==
    /\ edits < MaxEdits
    /\ edits' = edits + 1
    /\ touched' = touched \cup {fact}
    /\ machine' = m
    /\ machine # m
    /\ UNCHANGED <<root, repository>>

MoveArtifacts(k) ==
    /\ ChangeMachine("artifacts", [machine EXCEPT !.artifacts = k])
    /\ probes' = ProbesLeft("artifacts", k)

ChangeRights(dirs, readable) ==
    /\ ChangeMachine("rights", [machine EXCEPT !.writable = dirs, !.readable = readable])
    /\ UNCHANGED probes

Install(executables) ==
    /\ ChangeMachine("path", [machine EXCEPT !.on_path = executables])
    /\ UNCHANGED probes

Edit ==
    /\ \/ /\ EditWorld
          /\ probes' = ProbesLeft("root", root')
          /\ UNCHANGED machine
       \/ \E k \in PathKinds : MoveArtifacts(k)
       \/ \E dirs \in SUBSET Directories, readable \in BOOLEAN : ChangeRights(dirs, readable)
       \/ \E executables \in SUBSET (Executables \cup {"git"}) : Install(executables)
    /\ UNCHANGED <<statusVars, read_only_mode, toolVars>>

-----------------------------------------------------------------------------
(* The checks.                                                             *)

KindOf(dir) == IF dir = "root" THEN root ELSE machine.artifacts

At(s) == step = s /\ UNCHANGED <<worldVars, statusVars, read_only_mode, machine>>

Continue(to) == step' = to /\ UNCHANGED findings

Find(finding, to) ==
    /\ step' = to
    /\ findings' = Append(findings, finding)

Raise == Continue("raised")

(* root.exists() *)
RootExists ==
    /\ At("root_exists")
    /\ CASE root = "denied"  -> Raise
         [] root = "missing" -> Find(Finding(<<"root">>, "error", "missing"), "artifacts_exist")
         [] OTHER            -> Continue("root_is_dir")
    /\ UNCHANGED <<unchecked, probes>>

(* root.is_dir() *)
RootIsDir ==
    /\ At("root_is_dir")
    /\ CASE root = "denied"    -> Raise
         [] root = "directory" -> Continue("root_readable")
         [] OTHER -> Find(Finding(<<"root">>, "error", "not_directory"), "artifacts_exist")
    /\ UNCHANGED <<unchecked, probes>>

(* Mutant: an unwritable workspace goes unnoticed unless it is read-only. *)
RootReadableSwapped ==
    /\ At("root_readable")
    /\ LET after == IF read_only_mode THEN "probe_root" ELSE "artifacts_exist"
       IN  IF root = "directory" /\ machine.readable
           THEN Find(Finding(<<"root">>, "info", "readable"), after)
           ELSE Find(Finding(<<"root">>, "error", "unreadable"), after)
    /\ UNCHANGED <<unchecked, probes>>

(* _is_readable_directory *)
RootReadable ==
    /\ At("root_readable")
    /\ LET after == IF read_only_mode THEN "artifacts_exist" ELSE "probe_root"
       IN  IF root = "directory" /\ machine.readable
           THEN Find(Finding(<<"root">>, "info", "readable"), after)
           ELSE Find(Finding(<<"root">>, "error", "unreadable"), after)
    /\ UNCHANGED <<unchecked, probes>>

(* artifact_directory.exists(), and then .is_dir() *)
ArtifactsExist ==
    /\ \/ At("artifacts_exist")
       \/ At("artifacts_is_dir")
    /\ CASE machine.artifacts = "denied" -> Raise
         [] machine.artifacts = "missing" \/ (machine.artifacts = "file" /\ step = "artifacts_is_dir") ->
                Find(Finding(<<"artifacts">>, "error", "unavailable"), "executables")
         [] step = "artifacts_exist" /\ machine.artifacts \in {"file", "directory"} ->
                Continue("artifacts_is_dir")
         [] OTHER -> Continue("probe_artifacts")
    /\ UNCHANGED <<unchecked, probes>>

(* _can_write_directory: a temporary file is made in the directory, and removed. *)

CanChange(dir) == KindOf(dir) = "directory" /\ dir \in machine.writable

AfterProbe(dir) == IF dir = "root" THEN "artifacts_exist" ELSE "executables"

NotWritable(dir) ==
    Find(Finding(<<dir>>, IF dir = "root" THEN "error" ELSE "warning", "not_writable"), AfterProbe(dir))

Writable(dir) ==
    IF dir = "root" THEN Continue(AfterProbe(dir))
    ELSE Find(Finding(<<dir>>, "info", "writable"), AfterProbe(dir))

MakeProbe(dir) ==
    /\ At(IF dir = "root" THEN "probe_root" ELSE "probe_artifacts")
    /\ IF CanChange(dir)
       THEN /\ probes' = probes \cup {dir}
            /\ Continue(IF dir = "root" THEN "unprobe_root" ELSE "unprobe_artifacts")
       ELSE /\ NotWritable(dir)
            /\ UNCHANGED probes
    /\ UNCHANGED unchecked

(* Mutant: the temporary file is not deleted. *)
ProbeKept(dir) ==
    /\ At(IF dir = "root" THEN "unprobe_root" ELSE "unprobe_artifacts")
    /\ Writable(dir)
    /\ UNCHANGED <<probes, unchecked>>

(* The file is removed on leaving the with block, which may raise OSError. *)
RemoveProbe(dir) ==
    /\ At(IF dir = "root" THEN "unprobe_root" ELSE "unprobe_artifacts")
    /\ IF CanChange(dir) /\ dir \in probes
       THEN /\ probes' = probes \ {dir}
            /\ Writable(dir)
       ELSE /\ NotWritable(dir)
            /\ UNCHANGED probes
    /\ UNCHANGED unchecked

(* shutil.which of an executable; when all are done, GitService is constructed. *)
LookUp(e) ==
    /\ At("executables")
    /\ e \in unchecked
    /\ unchecked' = unchecked \ {e}
    /\ Find(IF e \in machine.on_path THEN Finding(<<"executable", e>>, "info", "available")
            ELSE Finding(<<"executable", e>>, "warning", "not_on_path"), "executables")
    /\ UNCHANGED probes

ConstructGitService ==
    /\ step = "executables"
    /\ unchecked = {}
    /\ step' = "git"
    /\ pc' = "exists"
    /\ git_executable' = ("git" \in machine.on_path)
    /\ UNCHANGED <<worldVars, commandVars, status, answer, read_only_mode, machine, probes,
                   unchecked, findings>>

CallStatus ==
    /\ step \in {"git", "tool"}
    /\ Status
    /\ UNCHANGED diagnosisVars

(* _check_git: GitServiceError is caught, OSError is not. *)
CheckGit ==
    /\ At("git")
    /\ CASE answer = "os_error"  -> Raise
         [] answer = "git_error" -> Find(Finding(<<"git">>, "warning", "failed"), "done")
         [] answer = "not_repository" -> Find(Finding(<<"git">>, "warning", "not_repository"), "done")
         [] answer = "status" -> Find(Finding(<<"git">>, "info", status.branch), "done")
         [] OTHER -> FALSE
    /\ UNCHANGED <<unchecked, probes>>

Diagnose ==
    \/ RootExists \/ RootIsDir \/ RootReadable \/ ArtifactsExist
    \/ \E dir \in Directories : MakeProbe(dir) \/ RemoveProbe(dir)
    \/ \E e \in Executables : LookUp(e)
    \/ ConstructGitService
    \/ CheckGit

Init ==
    /\ GitInit
    /\ root \in PathKinds
    /\ machine \in Machines
    /\ read_only_mode \in BOOLEAN
    /\ probes = {}
    /\ findings = <<>>
    /\ \/ /\ step = "root_exists"       \* diagnose_workspace
          /\ pc = "idle"
          /\ git_executable = FALSE
          /\ unchecked = Executables
       \/ /\ step = "tool"              \* git_status, workspace_info
          /\ pc = "exists"
          /\ git_executable \in BOOLEAN
          /\ unchecked = {}

(* The tool has answered. *)
Ended ==
    /\ step \in {"done", "raised"} \/ (step = "tool" /\ pc = "done")
    /\ UNCHANGED vars

Next == Edit \/ CallStatus \/ Diagnose \/ Ended

Spec == Init /\ [][Next]_vars

-----------------------------------------------------------------------------

Severities == {"info", "warning", "error"}

(* Every variable has its type. *)
TypeOK ==
    /\ GitTypeOK
    /\ machine \in MachineStates
    /\ probes \subseteq Directories
    /\ unchecked \subseteq Executables
    /\ \A i \in DOMAIN findings : findings[i].severity \in Severities
    /\ step = "git" => pc # "idle"

Verdicts(topic) == {finding \in Range(findings) : finding.topic = topic}

RootVerdicts ==
    CASE root = "missing"   -> {Finding(<<"root">>, "error", "missing")}
      [] root = "file"      -> {Finding(<<"root">>, "error", "not_directory")}
      [] root = "directory" ->
            {IF machine.readable THEN Finding(<<"root">>, "info", "readable")
             ELSE Finding(<<"root">>, "error", "unreadable")}
            \cup IF read_only_mode \/ "root" \in machine.writable THEN {}
                 ELSE {Finding(<<"root">>, "error", "not_writable")}

ArtifactVerdict ==
    CASE machine.artifacts \in {"missing", "file"} ->
            Finding(<<"artifacts">>, "error", "unavailable")
      [] machine.artifacts = "directory" ->
            IF "artifacts" \in machine.writable THEN Finding(<<"artifacts">>, "info", "writable")
            ELSE Finding(<<"artifacts">>, "warning", "not_writable")

ExecutableVerdict(e) ==
    IF e \in machine.on_path THEN Finding(<<"executable", e>>, "info", "available")
    ELSE Finding(<<"executable", e>>, "warning", "not_on_path")

Untouched(facts) == touched \cap facts = {}

(***************************************************************************)
(* A diagnosis that is completed says of each thing it looks at exactly    *)
(* what is the case, and says it once, if that thing did not change during *)
(* the diagnosis; a repository it reports is one.                          *)
(***************************************************************************)
StableVerdictsAreExact ==
    step = "done" =>
        /\ \A i, j \in DOMAIN findings : findings[i] = findings[j] => i = j
        /\ Untouched({"root", "rights"}) => Verdicts(<<"root">>) = RootVerdicts
        /\ Untouched({"artifacts", "rights"}) => Verdicts(<<"artifacts">>) = {ArtifactVerdict}
        /\ \A e \in Executables :
              Untouched({"path"}) => Verdicts(<<"executable", e>>) = {ExecutableVerdict(e)}
        /\ \A finding \in Verdicts(<<"git">>) :
              Untouched({"root", "path", "place"}) /\ finding.severity = "info" =>
                  root = "directory" /\ "git" \in machine.on_path /\ repository.place = "work_tree"

(***************************************************************************)
(* The temporary files by which a diagnosis tries whether it may write are *)
(* gone when it has ended, unless a directory or the rights to it changed. *)
(***************************************************************************)
ProbesAreRemoved ==
    step \in {"done", "raised"} /\ Untouched({"root", "artifacts", "rights"}) => probes = {}

=============================================================================
