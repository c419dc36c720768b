---------------------------- MODULE MCCommandLine ----------------------------
(* Constants of the TLC runs of CommandLine. *)
EXTENDS CommandLine

CONSTANTS s1, s2

OneServer == {s1}
TwoServers == {s1, s2}
InitAlone == <<"run", "uninit", "status", "logs", "export", "init">>
Files == {"desktop", "claude", "continue"}
Typed == {"continue"}
SomeEdits == {Missing, Torn} \cup {Whole([s \in ServerNames |-> k]) : k \in {"none", "env", "hydra", "odd"}}
==============================================================================
