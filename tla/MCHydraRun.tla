------------------------------ MODULE MCHydraRun ------------------------------
(* Constants of the TLC runs of HydraRun. *)
EXTENDS HydraRun, TLC

CONSTANTS w, p1, p2, p3

OnlyWatch == {w}
OnlyRestart == [c \in Callers |-> {"Restart"}]
NoState == {}
ThreeProcs == {p1, p2, p3}
AnyProc == Permutations(Procs)

ASSUME UsedAsInRun == HydraUse
===============================================================================
