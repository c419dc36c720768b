---------------------------- MODULE ServerConfigs ----------------------------
(***************************************************************************)
(* The configuration of one server: what the registry has of it, what a    *)
(* local hydra.json overrides, and what the defaults fill in               *)
(* (src/internal/config, src/internal/cli/run.go).                         *)
(*                                                                         *)
(* The code has some thirty fields, of four types that are merged in four  *)
(* ways; the fields below stand for those of their type.                   *)
(***************************************************************************)
EXTENDS Integers

CONSTANTS
    Paths,              \* the export paths in configurations
    DefaultPath,        \* the default of export_path, one of them
    DefaultBuffer,      \* the default of buffer_size, 50 in the code
    DefaultRestarts,    \* the default of max_restarts, 10 in the code
    Patterns,           \* the default redact_patterns
    NoConfig            \* no local override, or none that can be read

ASSUME DefaultsOK ==
    /\ DefaultPath \in Paths
    /\ "" \notin Paths
    /\ DefaultBuffer \in Nat \ {0}
    /\ DefaultRestarts \in Nat
    /\ Patterns # {}

Texts == {"command", "on_collision", "export_path"}
Numbers == {"max_restarts", "buffer_size"}
Switches == {"recorder", "export_on_crash", "request_bodies", "response_bodies"}
Lists == {"redact_patterns"}
Fields == Texts \cup Numbers \cup Switches \cup Lists

\* What can be read from a file as the configuration of a server.
IsConfig(c) ==
    /\ DOMAIN c = Fields
    /\ c["export_path"] \in Paths \cup {""}
    /\ \A f \in Numbers : c[f] \in Int
    /\ \A f \in Switches : c[f] \in BOOLEAN

\* What JSON leaves in a field that the file does not have.
Zero(f) ==
    CASE f \in Texts -> ""
      [] f \in Numbers -> 0
      [] f \in Switches -> FALSE
      [] f \in Lists -> {}

Empty == [f \in Fields |-> Zero(f)]

\* A file that has only the given fields.
With(some) == [f \in Fields |-> IF f \in DOMAIN some THEN some[f] ELSE Zero(f)]

DefaultServerConfig ==
    With([on_collision |-> "error", max_restarts |-> DefaultRestarts, buffer_size |-> DefaultBuffer,
          export_on_crash |-> TRUE, export_path |-> DefaultPath, redact_patterns |-> Patterns])

\* Mutated form: a list of src wins, whether src has it or not.
ListsWinAlways(f, d, s) == IF s = Zero(f) /\ f \notin Lists THEN d ELSE s

\* A field that src leaves at its zero keeps what dst has.
Wins(f, d, s) == IF s = Zero(f) THEN d ELSE s

MergeServerConfig(dst, src) == [f \in Fields |-> Wins(f, dst[f], src[f])]

\* The maps of environment variables are merged key by key.
MergeEnvironment(dst, src) ==
    [k \in DOMAIN dst \cup DOMAIN src |-> IF k \in DOMAIN src THEN src[k] ELSE dst[k]]

Validate(cfg) ==
    /\ cfg["command"] # ""
    /\ \A f \in Numbers : cfg[f] >= 0
    /\ cfg["on_collision"] \in {"", "error", "warn", "disable_hydra_tool"}

\* hydra run: an override that is missing or cannot be read is passed over.
Merged(entry, local) ==
    LET server == MergeServerConfig(DefaultServerConfig, entry)
    IN  IF local = NoConfig THEN server ELSE MergeServerConfig(server, local)

\* hydra export, logs and status do not look at the override.
MergedEntry(entry) == MergeServerConfig(DefaultServerConfig, entry)
===============================================================================
