----------------------------- MODULE MCToolCalls -----------------------------
(* Constants of the TLC runs of ToolCalls: the proxy's loop, which handles *)
(* a tool, and the watcher's goroutine.                                    *)
EXTENDS ToolCalls, TLC

CONSTANTS loop, watch, p1, p2, p3

LoopAndWatch == {loop, watch}
OnlyLoop == {loop}
Each == loop :> {"Restart", "Reset"} @@ watch :> Methods
ToolAndRestart == loop :> {"Restart", "Reset"} @@ watch :> {"Restart"}
AllStates == {"stopped", "running", "restarting", "failed"}
TwoProcs == {p1, p2}
ThreeProcs == {p1, p2, p3}
AnyProc == Permutations(Procs)
===============================================================================
