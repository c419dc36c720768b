----------------------------- MODULE ClientConfig -----------------------------
(***************************************************************************)
(* The registry and the configuration of an MCP client, with its backup:   *)
(* three files that the commands `hydra init`, `uninit`, `add`, `remove`,  *)
(* `edit` and `tune` change (src/internal/bootstrap/generic.go,            *)
(* cli/uninit.go, add.go, remove.go, edit.go, tune.go, config/loader.go,   *)
(* registry.go).                                                           *)
(*                                                                         *)
(* Each command is a process of its own; nothing locks the files.          *)
(* os.WriteFile opens and truncates, then writes; a command may die, or    *)
(* fail to write, between any two operations.                              *)
(*                                                                         *)
(* Of the registry, the model keeps which servers have an entry and whose  *)
(* command it holds; of the client's file, whether its entries are the     *)
(* client's own or start hydra.  Dry runs write nothing and are left out,  *)
(* and so is what the user types in the editor of `hydra edit`.            *)
(***************************************************************************)
EXTENDS Integers, FiniteSets

CONSTANTS
    Commands,       \* processes that run at the same time; each runs one command after the other
    Servers,        \* names of servers
    ClientServers   \* the servers in the client's configuration

Kinds == {"init", "uninit", "add", "remove", "edit", "tune"}

ASSUME ClientConstants == ClientServers \subseteq Servers /\ ClientServers # {}

VARIABLES
    regFile,        \* the registry's file: "missing", "whole", or not to be parsed
    registry,       \* its entries when it is whole: "own" starts the server, "hydra" hydra
    conf,           \* the client's configuration: "own" entries, "routed" through hydra
    bak,            \* its backup
    pc, kind,       \* where each command is, and which it is
    mine,           \* the registry as a command has it in memory
    data,           \* the client's configuration, or the backup, as a command has read it
    unlinked,       \* commands whose open backup has been removed
    spoiled,        \* history: a command died while it wrote the backup
    removed,        \* history: the servers that hydra remove was asked to drop
    promised,       \* history: those that a whole registry held, and not dropped since
    overlapped,     \* history: two commands have run at the same time
    mixed           \* history: and one of them was an uninit

files == <<regFile, registry, conf, bak>>
history == <<spoiled, removed, promised, overlapped, mixed>>
vars == <<files, pc, kind, mine, data, unlinked, history>>

Entries == [Servers -> {"none", "own", "hydra"}]
NoEntries == [s \in Servers |-> "none"]
Torn == {"empty", "garbled"}

Init ==
    /\ regFile = "missing" /\ registry = NoEntries
    /\ conf = "own" /\ bak = "missing"
    /\ pc = [c \in Commands |-> "idle"]
    /\ kind = [c \in Commands |-> "none"]
    /\ mine = [c \in Commands |-> NoEntries]
    /\ data = [c \in Commands |-> "missing"]
    /\ unlinked = {}
    /\ spoiled = FALSE /\ removed = {} /\ promised = {}
    /\ overlapped = FALSE /\ mixed = FALSE

At(c, l) == pc[c] = l
Goes(c, l) == pc' = [pc EXCEPT ![c] = l]
Keeps(c) == UNCHANGED <<kind, mine, data>>

Ends(c) ==
    /\ Goes(c, "idle")
    /\ kind' = [kind EXCEPT ![c] = "none"]
    /\ mine' = [mine EXCEPT ![c] = NoEntries]
    /\ data' = [data EXCEPT ![c] = "missing"]

\* What a file may hold after a write over what it holds.
Written(old, new) ==
    IF new = "empty" THEN {old} ELSE IF old \in {"empty", new} THEN {new} ELSE {new, "garbled"}

(***************************************************************************)
(* The beginning of a command                                              *)
(***************************************************************************)
Others(c) == {d \in Commands \ {c} : pc[d] # "idle"}

Begins(c, k) ==
    /\ At(c, "idle")
    /\ kind' = [kind EXCEPT ![c] = k]
    /\ overlapped' = (overlapped \/ Others(c) # {})
    /\ mixed' = (mixed \/ \E d \in Others(c) : "uninit" \in {k, kind[d]})
    /\ UNCHANGED <<files, data, unlinked, spoiled>>

\* Mutated form: a registry that does not parse counts as none.
ParsesAnything == TRUE

\* LoadRegistry: a missing file is an empty registry, any other error ends the command.
Parses == regFile \in {"missing", "whole"}

Loads(c, k, next) == Parses /\ Begins(c, k) /\ Goes(c, next)

AddLoads(c, s) ==
    /\ Loads(c, "add", "saving")
    /\ mine' = [mine EXCEPT ![c] = [registry EXCEPT ![s] = "own"]]
    /\ UNCHANGED <<removed, promised>>

RemoveLoads(c, s) ==
    /\ registry[s] # "none"
    /\ Loads(c, "remove", "saving")
    /\ mine' = [mine EXCEPT ![c] = [registry EXCEPT ![s] = "none"]]
    /\ removed' = removed \cup {s}
    /\ promised' = promised \ {s}

\* tune changes settings of an entry that is there; edit saves what it has loaded.
RewriteLoads(c, k) ==
    /\ k = "tune" => registry # NoEntries
    /\ Loads(c, k, "saving")
    /\ mine' = [mine EXCEPT ![c] = registry]
    /\ UNCHANGED <<removed, promised>>

InitLoads(c) ==
    /\ Loads(c, "init", "reading")
    /\ mine' = [mine EXCEPT ![c] = registry]
    /\ UNCHANGED <<removed, promised>>

\* os.Stat of the backup; without one, uninit ends.
UninitFindsBackup(c) ==
    /\ bak # "missing"
    /\ Begins(c, "uninit")
    /\ Goes(c, "fetching")
    /\ UNCHANGED <<mine, removed, promised>>

(***************************************************************************)
(* The middle of init and uninit                                           *)
(***************************************************************************)
\* The servers of the client that have no entry get one from the client's.
Merged(entries) ==
    [s \in Servers |->
        IF s \in ClientServers /\ entries[s] = "none"
        THEN IF conf = "own" THEN "own" ELSE "hydra"
        ELSE entries[s]]

\* Mutated form: the merged registry is not saved.
AfterMergeSkips(entries) == "checking"

AfterMerge(entries) == IF Merged(entries) = entries THEN "checking" ELSE "saving"

ReadsClient(c) ==
    /\ At(c, "reading") /\ conf \notin Torn
    /\ mine' = [mine EXCEPT ![c] = Merged(mine[c])]
    /\ data' = [data EXCEPT ![c] = conf]
    /\ Goes(c, AfterMerge(mine[c]))
    /\ UNCHANGED <<files, kind, unlinked, history>>

ReadFails(c) ==
    /\ At(c, "reading") /\ conf \in Torn
    /\ Ends(c)
    /\ UNCHANGED <<files, unlinked, history>>

\* Mutated form: an existing backup is overwritten.
RefusesNever == FALSE

Refuses == bak # "missing"

InitRefused(c) ==
    /\ At(c, "checking") /\ Refuses
    /\ Ends(c)
    /\ UNCHANGED <<files, unlinked, history>>

InitGoesOn(c) ==
    /\ At(c, "checking") /\ ~Refuses
    /\ Goes(c, "backing") /\ Keeps(c)
    /\ UNCHANGED <<files, unlinked, history>>

FetchesBackup(c) ==
    /\ At(c, "fetching") /\ bak # "missing"
    /\ data' = [data EXCEPT ![c] = bak]
    /\ Goes(c, "rewriting")
    /\ UNCHANGED <<files, kind, mine, unlinked, history>>

FetchFails(c) ==
    /\ At(c, "fetching") /\ bak = "missing"
    /\ Ends(c)
    /\ UNCHANGED <<files, unlinked, history>>

(***************************************************************************)
(* The writes                                                              *)
(***************************************************************************)
SaveOpens(c) ==
    /\ At(c, "saving")
    /\ regFile' = "empty" /\ registry' = NoEntries
    /\ Goes(c, "writing") /\ Keeps(c)
    /\ UNCHANGED <<conf, bak, unlinked, history>>

Saved(c) == IF kind[c] = "init" THEN Goes(c, "checking") /\ Keeps(c) ELSE Ends(c)

\* Over another command's entries, the file is spoilt unless they are the same.
SaveWrites(c) ==
    /\ At(c, "writing")
    /\ \/ /\ regFile' = "whole" /\ registry' = mine[c]
          /\ promised' = promised \cup {s \in Servers : mine[c][s] # "none"}
       \/ /\ regFile # "empty" /\ ~(regFile = "whole" /\ registry = mine[c])
          /\ regFile' = "garbled" /\ registry' = NoEntries
          /\ UNCHANGED promised
    /\ Saved(c)
    /\ UNCHANGED <<conf, bak, unlinked, spoiled, removed, overlapped, mixed>>

BackupOpens(c) ==
    /\ At(c, "backing")
    /\ bak' = "empty"
    /\ Goes(c, "backupWriting") /\ Keeps(c)
    /\ UNCHANGED <<regFile, registry, conf, unlinked, history>>

BackupWrites(c) ==
    /\ At(c, "backupWriting")
    /\ IF c \in unlinked THEN UNCHANGED bak ELSE bak' \in Written(bak, data[c])
    /\ unlinked' = unlinked \ {c}
    /\ Goes(c, "rewriting") /\ Keeps(c)
    /\ UNCHANGED <<regFile, registry, conf, history>>

ConfOpens(c) ==
    /\ At(c, "rewriting")
    /\ conf' = "empty"
    /\ Goes(c, "confWriting") /\ Keeps(c)
    /\ UNCHANGED <<regFile, registry, bak, unlinked, history>>

InitWrites(c) ==
    /\ At(c, "confWriting") /\ kind[c] = "init"
    /\ conf' \in Written(conf, "routed")
    /\ Ends(c)
    /\ UNCHANGED <<regFile, registry, bak, unlinked, history>>

UninitWrites(c) ==
    /\ At(c, "confWriting") /\ kind[c] = "uninit"
    /\ conf' \in Written(conf, data[c])
    /\ Goes(c, "removing") /\ Keeps(c)
    /\ UNCHANGED <<regFile, registry, bak, unlinked, history>>

RemovesBackup(c) ==
    /\ At(c, "removing")
    /\ bak' = "missing"
    /\ unlinked' = unlinked \cup {d \in Commands : At(d, "backupWriting")}
    /\ Ends(c)
    /\ UNCHANGED <<regFile, registry, conf, history>>

\* The process is killed, or one of its writes fails after it has truncated the file.
Dies(c) ==
    /\ ~At(c, "idle")
    /\ spoiled' = (spoiled \/ At(c, "backupWriting"))
    /\ unlinked' = unlinked \ {c}
    /\ Ends(c)
    /\ UNCHANGED <<files, removed, promised, overlapped, mixed>>

\* Nobody has to run a command.
Rest == (\A c \in Commands : At(c, "idle")) /\ UNCHANGED vars

-------------------------------------------------------------------------------
Beginning(c) ==
    \/ \E s \in Servers : AddLoads(c, s) \/ RemoveLoads(c, s)
    \/ \E k \in {"edit", "tune"} : RewriteLoads(c, k)
    \/ InitLoads(c) \/ UninitFindsBackup(c)

Middle(c) ==
    \/ ReadsClient(c) \/ ReadFails(c) \/ InitRefused(c) \/ InitGoesOn(c)
    \/ FetchesBackup(c) \/ FetchFails(c)

Writing(c) ==
    \/ SaveOpens(c) \/ SaveWrites(c) \/ BackupOpens(c) \/ BackupWrites(c)
    \/ ConfOpens(c) \/ InitWrites(c) \/ UninitWrites(c) \/ RemovesBackup(c)

Next ==
    \/ \E c \in Commands : Beginning(c) \/ Middle(c) \/ Writing(c) \/ Dies(c)
    \/ Rest

Spec == Init /\ [][Next]_vars

-------------------------------------------------------------------------------
InitAt == {"reading", "checking", "backing", "backupWriting"}
UninitAt == {"fetching", "removing"}

FileTypes ==
    /\ regFile \in {"missing", "whole"} \cup Torn
    /\ registry \in Entries /\ (regFile # "whole" => registry = NoEntries)
    /\ conf \in {"own", "routed"} \cup Torn
    /\ bak \in {"missing", "own", "routed"} \cup Torn

CommandTypes ==
    /\ pc \in [Commands -> {"idle", "saving", "writing", "rewriting", "confWriting"}
                            \cup InitAt \cup UninitAt]
    /\ kind \in [Commands -> Kinds \cup {"none"}]
    /\ mine \in [Commands -> Entries]
    /\ data \in [Commands -> {"missing", "own", "routed"} \cup Torn]
    /\ unlinked \subseteq {c \in Commands : At(c, "backupWriting")}

HistoryTypes ==
    /\ spoiled \in BOOLEAN /\ overlapped \in BOOLEAN /\ mixed \in BOOLEAN
    /\ removed \subseteq Servers /\ promised \subseteq Servers

Placed(c) ==
    /\ pc[c] \in InitAt => kind[c] = "init"
    /\ pc[c] \in UninitAt => kind[c] = "uninit"
    /\ pc[c] \in {"rewriting", "confWriting"} => kind[c] \in {"init", "uninit"} /\ data[c] # "missing"
    /\ kind[c] = "init" /\ pc[c] # "reading" => data[c] \in {"own", "routed"}
    /\ pc[c] = "idle" <=> kind[c] = "none"

\* Every variable has its type, and a command is only where its kind may be, with
\* what it has read (generic.go:13-92, uninit.go:27-59).
TypeOK == FileTypes /\ CommandTypes /\ HistoryTypes /\ \A c \in Commands : Placed(c)

\* The client's own configuration is never lost: it is in its file, in the backup
\* or on its way there, whatever dies wherever and although commands overlap; unless
\* one died over the backup, or an uninit ran beside another (generic.go:69-90,
\* uninit.go:36-55).
OnItsWay == \E c \in Commands \ unlinked : At(c, "backupWriting") /\ data[c] = "own"
OriginalIsKept == ~spoiled /\ ~mixed => conf = "own" \/ bak = "own" \/ OnItsWay

\* One command at a time: a client that is routed through hydra finds each of its
\* servers in the registry, with the server's own command, although commands die
\* half-way; unless hydra remove has dropped it, or a torn registry shows nothing
\* (generic.go:37-52, 87).
RoutedIsRegistered ==
    conf = "routed" /\ ~overlapped =>
        /\ regFile # "missing"
        /\ regFile = "whole" => \A s \in ClientServers \ removed : registry[s] = "own"

\* One command at a time: an entry that was saved stays until it is removed, even
\* across commands that die in the middle of a save (loader.go:56-71,
\* registry.go:33-36).
SavedIsKept ==
    regFile = "whole" /\ ~overlapped => \A s \in promised : registry[s] # "none"

(***************************************************************************)
(* What the comments say and the code does not do                          *)
(***************************************************************************)
\* docs/CLI_REFERENCE.md:106: uninit is the "Rollback" of `hydra init`.
RollbackRestores == [][bak # "missing" /\ bak' = "missing" => conf' = "own"]_vars

\* claude.go:16: init "Adds any discovered MCP servers to the Hydra registry (if
\* missing)"; what it adds are the client's servers, and not hydra itself.
ServersAreRegistered == \A s \in Servers : registry[s] # "hydra"

\* claude.go:16 again: a server that somebody else has registered stays as it is.
NoUpdateIsLost == regFile = "whole" => \A s \in promised : registry[s] # "none"
===============================================================================
