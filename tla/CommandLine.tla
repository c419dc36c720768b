----------------------------- MODULE CommandLine -----------------------------
(***************************************************************************)
(* What `hydra init`, `uninit`, `discover`, `run` and the commands that    *)
(* read the registry make of their options, and which files they then      *)
(* touch (src/internal/cli, bootstrap).                                    *)
(*                                                                         *)
(* Every command binds its flags to keys of viper, which is one table for  *)
(* the whole program: a key holds the flag that was bound to it last.      *)
(* Only the flags of the command that is executed are ever parsed.         *)
(*                                                                         *)
(* A command is one step here; what happens when it dies half-way, or      *)
(* beside another, is the subject of ClientConfig.                         *)
(***************************************************************************)
EXTENDS Discovery

CONSTANTS
    Subcommands,    \* the subcommands in the order in which they are made
    TypedClients,   \* what users type after --client
    TypedPaths,     \* ... after --config
    Edits,          \* what else is written to the files of clients
    EditedPaths,    \* ... and to which of them
    MaxEdits

ASSUME CommandLineConstants ==
    /\ Subcommands \in Seq(STRING)
    /\ TypedPaths \subseteq Paths /\ EditedPaths \subseteq Paths
    /\ Edits \subseteq Contents /\ MaxEdits \in Nat
    /\ {"run", "init", "uninit", "status", "logs", "export"} \subseteq ToSet(Subcommands)

NotTyped == ""

VARIABLES
    conf, bak,      \* the files of the clients, and their backups
    registry,       \* the entries of the registry
    discovered,     \* what the last scan has found
    last,           \* the last command line, and what the command took for its options
    edits           \* bounded: how often somebody else has written a file

files == <<conf, bak, registry>>
commandVars == <<files, discovered, last, edits>>

(***************************************************************************)
(* Options                                                                 *)
(***************************************************************************)
Binds(command) ==
    CASE command = "run" -> {"name", "config", "override", "metrics-port"}
      [] command = "init" -> {"client", "dry-run", "config", "registry"}
      [] command = "uninit" -> {"client", "config"}
      [] command = "add" -> {"command", "args", "cwd", "registry"}
      [] command \in {"list", "remove", "edit", "validate"} -> {"registry"}
      [] command = "logs" -> {"name", "lines", "registry"}
      [] command = "status" -> {"name", "registry"}
      [] command = "export" -> {"name", "registry", "output"}
      [] command = "tune" -> {"apply"}
      [] OTHER -> {}

Default(command, key) ==
    CASE key = "client" /\ command = "uninit" -> "claude"
      [] key = "registry" \/ (key = "config" /\ command = "run") -> "~/.hydra/config.json"
      [] key = "override" -> "./hydra.json"
      [] key = "lines" -> "20"
      [] OTHER -> ""

\* The command whose flag viper has for a key.
LastToBind(key) ==
    Subcommands[CHOOSE i \in DOMAIN Subcommands :
        /\ key \in Binds(Subcommands[i])
        /\ \A j \in DOMAIN Subcommands : key \in Binds(Subcommands[j]) => j <= i]

IsSet(command, typed, key) ==
    LastToBind(key) = command /\ key \in DOMAIN typed /\ typed[key] # NotTyped

GetString(command, typed, key) ==
    IF IsSet(command, typed, key) THEN typed[key] ELSE Default(LastToBind(key), key)

\* The order of NewRoot, of those that bind options.
RootOrder ==
    <<"run", "init", "uninit", "add", "list", "remove", "edit", "validate", "logs", "status",
      "export", "tune">>

\* Mutated form: run asks viper, as the other commands do.
RunAsksViper(typed, key) == GetString("run", typed, key)

\* hydra run looks at its own flags first, and takes their defaults last.
RunHears(typed, key) ==
    IF key \in DOMAIN typed /\ typed[key] # NotTyped THEN typed[key]
    ELSE IF IsSet("run", typed, key) THEN GetString("run", typed, key) ELSE Default("run", key)

Hears(command, typed, key) ==
    IF command = "run" THEN RunHears(typed, key) ELSE GetString(command, typed, key)

\* The command is executed with what the user has typed after its flags.
Executes(command, typed) ==
    last' = [command |-> command, typed |-> typed,
             heard |-> [key \in DOMAIN typed |-> Hears(command, typed, key)]]

NoLine == [command |-> "none", typed |-> <<>>, heard |-> <<>>]

(***************************************************************************)
(* Paths                                                                   *)
(***************************************************************************)
NoPath == "none"

\* ConfigureClaude, ConfigureCline and so on.
InitPath(client, config) ==
    CASE config # "" -> config
      [] config = "" /\ client \in {"cline", "cursor"} -> NoPath
      [] OTHER -> client

\* Mutated form: uninit looks where discovery has looked.
UninitPathDetected(client, config) ==
    CASE config # "" -> config
      [] config = "" /\ client = "claude" -> DetectClientConfigPath(client)
      [] OTHER -> NoPath

UninitPath(client, config) ==
    CASE config # "" -> config
      [] config = "" /\ client = "claude" -> client
      [] OTHER -> NoPath

(***************************************************************************)
(* The commands                                                            *)
(***************************************************************************)
CommandInit ==
    /\ conf = [p \in Paths |-> Missing] /\ bak = [p \in Paths |-> Missing]
    /\ registry = NoEntries
    /\ discovered = <<>> /\ last = NoLine /\ edits = 0

\* The user, or the client, writes the configuration of the client.
EditsFile(p, contents) ==
    /\ edits < MaxEdits /\ edits' = edits + 1
    /\ conf' = [conf EXCEPT ![p] = contents]
    /\ last' = NoLine
    /\ UNCHANGED <<bak, registry, discovered>>

\* What the wizard may come back with: the only client, or the one that is chosen.
WizardMayChoose ==
    LET high == HighConfidence(ResolveConflicts(ScanAll(conf)))
    IN  {high[i].client : i \in DOMAIN high}

ClientsOf(typed) ==
    LET client == GetString("init", typed, "client")
    IN  IF client = "" THEN WizardMayChoose ELSE {client}

Routable(file) ==
    /\ file.state = "whole"
    /\ \A s \in ServerNames : file.entries[s] # "odd"
    /\ CountServers(file) > 0

Routed(file) == Whole([s \in ServerNames |-> IF file.entries[s] = "none" THEN "none" ELSE "hydra"])

\* Mutated form: a dry run saves the registry.
SavesAlways(dryRun) == TRUE

Saves(dryRun) == ~dryRun

CanRoute(path) == path # NoPath /\ Routable(conf[path])

PathsOf(typed) ==
    {InitPath(client, GetString("init", typed, "config")) : client \in ClientsOf(typed)}

InitFails(typed) ==
    /\ PathsOf(typed) = {} \/ ~(\A path \in PathsOf(typed) : CanRoute(path))
    /\ Executes("init", typed)
    /\ UNCHANGED <<files, discovered, edits>>

InitCommand(typed) ==
    \E path \in PathsOf(typed) :
        LET dryRun == GetString("init", typed, "dry-run") = "true"
        IN  /\ CanRoute(path)
            /\ registry' = IF Saves(dryRun) THEN AddsMissing(registry, conf[path]) ELSE registry
            /\ IF dryRun \/ bak[path] # Missing
               THEN UNCHANGED <<conf, bak>>
               ELSE /\ bak' = [bak EXCEPT ![path] = conf[path]]
                    /\ conf' = [conf EXCEPT ![path] = Routed(conf[path])]
            /\ Executes("init", typed)
            /\ UNCHANGED <<discovered, edits>>

UninitCommand(typed) ==
    LET path == UninitPath(GetString("uninit", typed, "client"), GetString("uninit", typed, "config"))
    IN  /\ IF path # NoPath /\ bak[path] # Missing
           THEN /\ conf' = [conf EXCEPT ![path] = bak[path]]
                /\ bak' = [bak EXCEPT ![path] = Missing]
           ELSE UNCHANGED <<conf, bak>>
        /\ Executes("uninit", typed)
        /\ UNCHANGED <<registry, discovered, edits>>

DiscoverCommand ==
    /\ discovered' = ResolveConflicts(ScanAll(conf))
    /\ Executes("discover", <<>>)
    /\ UNCHANGED <<files, edits>>

\* For a caller of the package: no command of the program merges.
Merge ==
    /\ discovered # <<>>
    /\ registry' = MergeIntoRegistry(discovered, conf, registry)
    /\ last' = [NoLine EXCEPT !.command = "merge"]
    /\ UNCHANGED <<conf, bak, discovered, edits>>

\* They read the entry of the server whose name they hear, and change no file.
ReadsRegistry(command, typed) ==
    /\ Executes(command, typed)
    /\ UNCHANGED <<files, discovered, edits>>

-------------------------------------------------------------------------------
ClientOptions == [client : TypedClients \cup {NotTyped}, config : TypedPaths \cup {NotTyped}]
InitOptions ==
    {[key \in {"client", "config", "dry-run"} |-> IF key = "dry-run" THEN d ELSE o[key]] :
        o \in ClientOptions, d \in {"true", NotTyped}}
ServerOptions == [name : ServerNames, config : {"other.json", NotTyped}]

CommandNext ==
    \/ \E p \in EditedPaths, contents \in Edits : EditsFile(p, contents)
    \/ \E typed \in InitOptions : InitFails(typed) \/ InitCommand(typed)
    \/ \E typed \in ClientOptions : UninitCommand(typed)
    \/ DiscoverCommand \/ Merge
    \/ \E typed \in ServerOptions : ReadsRegistry("run", typed)
    \/ \E command \in {"status", "logs", "export"}, s \in ServerNames : ReadsRegistry(command, [name |-> s])

CommandSpec == CommandInit /\ [][CommandNext]_commandVars

-------------------------------------------------------------------------------
\* hydra run takes each of its options from its own command line, or from its own
\* default, whatever the other commands have bound to the same keys (run.go:51-82).
RunHearsItsOptions ==
    last.command = "run" =>
        \A key \in DOMAIN last.typed :
            last.heard[key] = IF last.typed[key] = NotTyped THEN Default("run", key) ELSE last.typed[key]

\* Whatever init has done, a plain `hydra uninit` finds its backup (claude.go:19,
\* uninit.go:61-74, with the flags bound as in root.go:12-31).
PlainUninitFindsBackup ==
    \A p \in Paths : bak[p] # Missing =>
        UninitPath(GetString("uninit", <<>>, "client"), GetString("uninit", <<>>, "config")) = p

\* A dry run changes no file (generic.go:48, 65-67).
DryRunChangesNothing ==
    [][last'.command = "init" /\ last'.typed["dry-run"] = "true" => UNCHANGED files]_commandVars

\* A merge keeps each entry of the registry and takes each that is missing from the
\* first client that was found and has it now, whatever the other files have become
\* since the scan (merger.go:51-150).
FirstWith(s) ==
    LET having == {i \in DOMAIN discovered :
            Usable(discovered[i], conf) /\ conf[discovered[i].path].entries[s] \notin {"none", "odd"}}
    IN  IF having = {} THEN "none"
        ELSE Taken(conf[discovered[CHOOSE i \in having : \A j \in having : i <= j].path].entries[s])

MergeAddsWhatIsMissing ==
    [][last'.command = "merge" =>
        \A s \in ServerNames : registry'[s] = IF registry[s] # "none" THEN registry[s] ELSE FirstWith(s)]_commandVars

(***************************************************************************)
(* What the documents say and the code does not do                         *)
(***************************************************************************)
\* run.go:52: "In CLI: flags are parsed and available via viper";
\* docs/CLI_REFERENCE.md:92-96 lists what init configures for each --client.
OptionIsHeard ==
    \A key \in DOMAIN last.typed : last.typed[key] # NotTyped => last.heard[key] = last.typed[key]

\* discover.go:88: what was found can be configured: "Run 'hydra init' to configure
\* Hydra"; init.go:114: "Using" the client that was found.
FoundCanBeInitialised ==
    \A i \in DOMAIN discovered :
        discovered[i].confidence >= 80 => InitPath(discovered[i].client, "") = discovered[i].path
===============================================================================
