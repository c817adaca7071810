---------------------------- MODULE Configuration ----------------------------
(***************************************************************************)
(* load_config (config.py): the values of a TOML file and of environment   *)
(* variables become a configuration, or ConfigError.  Nothing is served    *)
(* before that, so loading is one step.                                    *)
(*                                                                         *)
(* A value that is not validated yet has the form it is written in:        *)
(*   [number |-> n]   a TOML integer         [numeral |-> n] a text that   *)
(*   [flag |-> b]     a TOML boolean           reads as an integer         *)
(*   [text |-> t]     another text           [path |-> p]    a path        *)
(*   [list |-> items] a TOML array                                         *)
(* and in an environment variable of a structured field                    *)
(*   [items |-> texts]   separated by commas, none of them blank           *)
(*   [json |-> items]    a JSON list         [broken |-> t]  not even that *)
(* An item of a list is a text, or an object: a command.  What else        *)
(* pydantic converts (a boolean to a number, say) is left out.             *)
(***************************************************************************)
EXTENDS RealPath, CommandPolicy

Ceilings == [max_file_size_bytes |-> 100000000,
             max_command_seconds |-> 600,
             max_output_bytes    |-> 100000000]

LogLevels == {"DEBUG", "INFO", "WARNING", "ERROR", "CRITICAL"}

(* value.upper(): of the texts that are not in capitals it changes, these are told apart. *)
Capitals == [debug |-> "DEBUG", info |-> "INFO", warning |-> "WARNING", error |-> "ERROR",
             critical |-> "CRITICAL", loud |-> "LOUD"]
Upper(text) == IF text \in DOMAIN Capitals THEN Capitals[text] ELSE text

Booleans == [true |-> TRUE, false |-> FALSE]

Cwd == <<"cwd">>                                        \* Path.cwd()
DefaultPattern == [text |-> Bare("default_pattern")]    \* DEFAULT_SECRET_PATTERNS

Defaults == [
    workspace_root      |-> [path |-> PathOf(TRUE, Cwd)],
    read_only_mode      |-> [flag |-> TRUE],
    max_file_size_bytes |-> [number |-> 1048576],
    max_command_seconds |-> [number |-> 30],
    max_output_bytes    |-> [number |-> 1048576],
    allowed_commands    |-> [list |-> <<>>],
    test_commands       |-> [list |-> <<>>],
    artifact_directory  |-> [path |-> PathOf(FALSE, <<"artifacts">>)],
    secret_patterns     |-> [list |-> <<DefaultPattern>>],
    log_level           |-> [text |-> "INFO"]]

Fields == DOMAIN Defaults

(* Literals are strings, which no prover knows. *)
ASSUME LiteralsAssumption == {"cwd", "artifacts"} \subseteq STRING

(* The values a file or a variable may hold. *)
Items == [text: AnyToken] \cup
         [name: AnyToken, executable: AnyToken, default_args: Seq(AnyToken)] \cup
         [name: AnyToken, command: Seq(AnyToken)]
PathTexts == [absolute: BOOLEAN, names: Places]
FileValues == [number: Int] \cup [numeral: Int] \cup [flag: BOOLEAN] \cup [text: STRING] \cup
              [path: PathTexts] \cup [list: Seq(Items)]
EnvValues == [numeral: Int] \cup [text: STRING] \cup [path: PathTexts] \cup
             [items: Seq(AnyToken)] \cup [json: Seq(Items)] \cup [broken: STRING]

Is(value, form) == form \in DOMAIN value
IsText(value) == \E form \in {"text", "numeral", "path"} : Is(value, form)

-----------------------------------------------------------------------------
(* Sources.                                                                *)

(***************************************************************************)
(* _normalize_config_keys.  A field may be written in any case, as the     *)
(* names of the variables are those of the fields in capitals: so it may   *)
(* occur more than once among the keys of a file.                          *)
(***************************************************************************)
Normalised(keys) ==
    LET raw[n \in 0..Len(keys)] ==
            IF n = 0 THEN <<>> ELSE Put(raw[n - 1], keys[n].field, keys[n].value)
    IN raw[Len(keys)]

(* _parse_allowed_commands: a name alone is an executable of that name. *)
Command(item) == [name |-> Strip(item), executable |-> Strip(item), default_args |-> <<>>]
IsObject(item) == ~ Is(item, "text")

(* _parse_env_value: a variable as a value, or [error |-> ...]: ConfigError. *)
ParseEnvValue(field, value) ==
    IF field \notin {"allowed_commands", "test_commands", "secret_patterns"} THEN value
    ELSE IF Is(value, "broken") THEN [error |-> field]
    ELSE IF Is(value, "json")
    THEN LET texts == {i \in DOMAIN value.json : ~ IsObject(value.json[i])}
         IN IF \/ field = "allowed_commands" /\ texts # {}
               \/ field = "secret_patterns" /\ texts # DOMAIN value.json
            THEN [error |-> field] ELSE [list |-> value.json]
    ELSE IF field = "allowed_commands"
    THEN [list |-> [i \in DOMAIN value.items |-> Command(value.items[i])]]
    ELSE IF field = "secret_patterns"
    THEN [list |-> [i \in DOMAIN value.items |-> [text |-> Strip(value.items[i])]]]
    ELSE [error |-> field]    \* names of tests are no JSON

Parsed(env) == [f \in DOMAIN env |-> ParseEnvValue(f, env[f])]

(* Mutant: the file wins. *)
MergedFile(keys, env) == Over(Normalised(keys), Parsed(env))

(* The variables win over the file. *)
Merged(keys, env) == Over(Parsed(env), Normalised(keys))

-----------------------------------------------------------------------------
(* Validators.                                                             *)

(* Mutant: an executable is checked without its blanks and kept with them. *)
KeepExecutable(token) == token

(* _validate_executable_name returns the name it has checked. *)
KeptExecutable(token) == Strip(token)

ArgumentsValid(args) == \A i \in DOMAIN args : ConfigurableArgument(args[i])

NamesUnique(items) ==
    \A i, j \in DOMAIN items : items[i].name = items[j].name => i = j

(* AllowedCommand *)
AllowedValid(item) ==
    /\ Is(item, "executable")
    /\ ConfigurableName(item.name)
    /\ ConfigurableExecutable(item.executable)
    /\ ArgumentsValid(item.default_args)

(* TestCommand *)
TestValid(item) ==
    /\ Is(item, "command")
    /\ ConfigurableName(item.name)
    /\ item.command # <<>>
    /\ ConfigurableExecutable(Head(item.command))
    /\ ArgumentsValid(Tail(item.command))

(* re.compile: of patterns all that is told is that an "odd" one is none. *)
Compiles(pattern) == pattern.form # "odd"

(* A path of the configuration, from the directory it starts at, and where that leads. *)
NamesFrom(base, path) == IF path.absolute THEN path.names ELSE base \o path.names
Place(python, fs, base, path) == RealPath(python, fs, NamesFrom(base, path))

(* exists() and is_dir(), of which only "may not look" is an error. *)
IsRoot(fs, place) == place.rest = <<>> /\ IsDirectory(Stat(fs, place.at))

(* Looking it up raises something that is no ValidationError. *)
Raises(python, fs, place) ==
    place.rest = <<>> /\ (EndLoops(python, fs, place.at) \/ Stat(fs, place.at).kind = "EACCES")

(* A field by itself. *)
Valid(python, fs, field, value) ==
    CASE field \in DOMAIN Ceilings ->
            \/ Is(value, "number") /\ value.number \in 1..Ceilings[field]
            \/ Is(value, "numeral") /\ value.numeral \in 1..Ceilings[field]
      [] field = "read_only_mode" ->
            Is(value, "flag") \/ (Is(value, "text") /\ value.text \in DOMAIN Booleans)
      [] field = "log_level" -> Is(value, "text") /\ Upper(value.text) \in LogLevels
      [] field = "secret_patterns" ->
            Is(value, "list") /\ \A i \in DOMAIN value.list :
                                    ~ IsObject(value.list[i]) /\ Compiles(value.list[i].text)
      [] field = "allowed_commands" ->
            /\ Is(value, "list")
            /\ \A i \in DOMAIN value.list : AllowedValid(value.list[i])
            /\ NamesUnique(value.list)
      [] field = "test_commands" ->
            /\ Is(value, "list")
            /\ \A i \in DOMAIN value.list : TestValid(value.list[i])
            /\ NamesUnique(value.list)
      [] field = "workspace_root" ->
            Is(value, "path") /\ IsRoot(fs, Place(python, fs, Cwd, value.path))
      [] field = "artifact_directory" -> Is(value, "path")
      [] OTHER -> FALSE    \* a key that is no field

(* A command with the name of its executable as it was checked. *)
KeptAllowed(item) == [item EXCEPT !.executable = KeptExecutable(@)]
KeptTest(item) == [item EXCEPT !.command = <<KeptExecutable(Head(@))>> \o Tail(@)]

(* What is kept of a valid value. *)
Kept(python, fs, field, value) ==
    CASE field \in DOMAIN Ceilings -> IF Is(value, "number") THEN value.number ELSE value.numeral
      [] field = "read_only_mode" -> IF Is(value, "flag") THEN value.flag ELSE Booleans[value.text]
      [] field = "log_level" -> Upper(value.text)
      [] field = "secret_patterns" -> value.list
      [] field = "allowed_commands" ->
            [i \in DOMAIN value.list |-> KeptAllowed(value.list[i])]
      [] field = "test_commands" ->
            [i \in DOMAIN value.list |-> KeptTest(value.list[i])]
      [] field = "workspace_root" -> Place(python, fs, Cwd, value.path).at
      [] OTHER -> value.path

-----------------------------------------------------------------------------
(* load_config.                                                            *)

Refused == [status |-> "ConfigError"]
Crashed == [status |-> "exception"]

(***************************************************************************)
(* WorkbenchConfig.model_validate.  The artifact directory is looked up    *)
(* once every field is valid by itself.  PermissionError is no             *)
(* ValidationError, nor is RuntimeError for a loop of links (Python 3.12)  *)
(* or the AttributeError of value.upper() for a log level that is no text. *)
(***************************************************************************)
Validated(python, fs, raw) ==
    LET all == Over(raw, Defaults)
        root == Place(python, fs, Cwd, all.workspace_root.path)
        kept == [f \in Fields |-> Kept(python, fs, f, all[f])]
        artifacts == Place(python, fs, kept.workspace_root, kept.artifact_directory)
    IN IF \/ ~ IsText(all.log_level)
          \/ Is(all.workspace_root, "path") /\ Raises(python, fs, root)
       THEN Crashed
       ELSE IF \E f \in DOMAIN all : ~ Valid(python, fs, f, all[f]) THEN Refused
       ELSE IF Raises(python, fs, artifacts) THEN Crashed
       ELSE IF ~ IsRoot(fs, artifacts) THEN Refused
       ELSE Over([status |-> "serving"], [kept EXCEPT !.artifact_directory = artifacts.at])

(***************************************************************************)
(* The file WORKBENCH_MCP_CONFIG names, if any: file.is says what it is.   *)
(* Only what is missing and what is not TOML is ConfigError; a directory,  *)
(* a loop of links, a file that may not be read or is not UTF-8 raises     *)
(* something else.                                                         *)
(***************************************************************************)
Loaded(python, fs, file, env) ==
    IF file.is = "unreadable" THEN Crashed
    ELSE IF file.is \in {"missing", "malformed", "no_table"} THEN Refused
    ELSE IF \E f \in DOMAIN env : Is(Parsed(env)[f], "error") THEN Refused
    ELSE Validated(python, fs, Merged(file.keys, env))
=============================================================================
