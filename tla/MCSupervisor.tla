---------------------------- MODULE MCSupervisor ----------------------------
(* Constants of the TLC runs of Supervisor. *)
EXTENDS Supervisor, TLC

CONSTANTS a, b, p1, p2, p3

AllStates == {"stopped", "running", "restarting", "failed"}
NotFailed == AllStates \ {"failed"}

OneCaller == {a}
TwoCallers == {a, b}
MayCallAll == [c \in Callers |-> Methods]
MayStart == [c \in Callers |-> {"Start"}]
MayRestart == [c \in Callers |-> {"Restart"}]
StarterAndRestarter == [c \in Callers |-> IF c = a THEN {"Start"} ELSE {"Restart"}]

TwoProcs == {p1, p2}
ThreeProcs == {p1, p2, p3}
AnyProc == Permutations(Procs)
AnyProcAndCaller == Permutations(Procs) \cup Permutations(Callers)
=============================================================================
