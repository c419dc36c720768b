---------------------------- MODULE MCClientConfig ----------------------------
(* Constants of the TLC runs of ClientConfig. *)
EXTENDS ClientConfig, TLC

CONSTANTS c1, c2, s1, s2

OneCommand == {c1}
TwoCommands == {c1, c2}
TwoServers == {s1, s2}
FirstServer == {s1}
AnyCommand == Permutations(Commands)
===============================================================================
