------------------------------ MODULE Discovery ------------------------------
(***************************************************************************)
(* Where hydra looks for the configurations of MCP clients, what it makes  *)
(* of each, and how it adds their servers to a registry                    *)
(* (src/internal/discovery, bootstrap/pathutil.go).                        *)
(*                                                                         *)
(* A file is missing (or cannot be read), torn (is no JSON object) or      *)
(* whole.  Of a whole file the model keeps, for each server, what its      *)
(* entry is: "plain" has a command and arguments, "env" an environment     *)
(* too, "hydra" starts hydra, and "odd" is not an object.                  *)
(***************************************************************************)
EXTENDS FiniteSets, SequencesExt, Selection

CONSTANT ServerNames    \* names of servers

KnownClients == <<"claude", "cline", "cursor", "claude-cli", "continue", "cursor-composer">>
ByName == <<"claude", "claude-cli", "cline", "continue", "cursor", "cursor-composer">>

\* Where each client keeps its file on the platform of the build; "desktop" stands
\* for the directory of Claude Desktop, which differs from ~/.config/claude.
DetectClientConfigPath(client) == IF client = "claude" THEN "desktop" ELSE client

Paths == {"desktop"} \cup ToSet(KnownClients)

Kinds == {"none", "plain", "env", "hydra", "odd"}
NoEntries == [s \in ServerNames |-> "none"]

Missing == [state |-> "missing", entries |-> NoEntries]
Torn == [state |-> "torn", entries |-> NoEntries]
Whole(entries) == [state |-> "whole", entries |-> entries]
Contents == {Missing, Torn} \cup {Whole(e) : e \in [ServerNames -> Kinds]}

(***************************************************************************)
(* The scanner; a confidence is in percent                                 *)
(***************************************************************************)
CountServers(file) == Cardinality({s \in ServerNames : file.entries[s] # "none"})

CheckConfigFile(file) ==
    CASE file.state = "missing" -> 0
      [] file.state = "torn" -> 50
      [] OTHER -> IF CountServers(file) > 0 THEN 100 ELSE 80

ScanClient(files, client) ==
    LET path == DetectClientConfigPath(client)
    IN  [client |-> client, path |-> path, confidence |-> CheckConfigFile(files[path])]

ScanAll(files) == [i \in DOMAIN KnownClients |-> ScanClient(files, KnownClients[i])]

\* The first of the most confident discoveries of a client.
Best(discoveries, client) ==
    LET of == SelectSeq(discoveries, LAMBDA d : d.client = client)
        best == CHOOSE i \in DOMAIN of :
                    /\ \A j \in DOMAIN of : of[j].confidence <= of[i].confidence
                    /\ \A j \in 1..(i - 1) : of[j].confidence < of[i].confidence
    IN  of[best]

ResolveConflicts(discoveries) ==
    LET found == Selected(ByName, {discoveries[i].client : i \in DOMAIN discoveries})
    IN  [i \in DOMAIN found |-> Best(discoveries, found[i])]

HighConfidence(discoveries) == SelectSeq(discoveries, LAMBDA d : d.confidence >= 80)

(***************************************************************************)
(* The merger                                                              *)
(***************************************************************************)
\* Only the command and the arguments of an entry are taken over.
Taken(kind) == IF kind = "env" THEN "plain" ELSE kind

\* Mutated form: what the client has replaces what the registry has.
AddsAll(registry, file) ==
    [s \in ServerNames |-> IF file.entries[s] \in {"none", "odd"} THEN registry[s] ELSE Taken(file.entries[s])]

AddsMissing(registry, file) ==
    [s \in ServerNames |->
        IF registry[s] # "none" \/ file.entries[s] \in {"none", "odd"}
        THEN registry[s] ELSE Taken(file.entries[s])]

Usable(discovery, files) == discovery.confidence >= 50 /\ files[discovery.path].state = "whole"

\* The registry after the first i discoveries, for every i.
MergedUpTo(discoveries, files, registry) ==
    LET upTo[i \in 0 .. Len(discoveries)] ==
            IF i = 0 THEN registry
            ELSE IF Usable(discoveries[i], files) THEN AddsMissing(upTo[i - 1], files[discoveries[i].path])
            ELSE upTo[i - 1]
    IN  upTo

MergeIntoRegistry(discoveries, files, registry) ==
    MergedUpTo(discoveries, files, registry)[Len(discoveries)]
==============================================================================
