---------------------------- MODULE ChildLifecycle ----------------------------
(***************************************************************************)
(* What the supervisor promises to a caller that uses it alone: the        *)
(* children that are alive and the state that State() reports, without the *)
(* monitor goroutines, the locks and the waiting (the states and the       *)
(* interface of src/internal/supervisor/supervisor.go).                    *)
(***************************************************************************)
CONSTANT Procs      \* the children that may ever exist

VARIABLES
    live,           \* the children that are alive
    status          \* what State() reports

lifecycle == <<live, status>>

Init == live = {} /\ status = "stopped"

\* A child is started only when none is alive, and only from a clean stop.
Spawn ==
    /\ live = {} /\ status = "stopped"
    /\ \E p \in Procs : live' = {p}
    /\ status' = "running"

Die ==
    /\ live # {}
    /\ live' = {}
    /\ UNCHANGED status

\* Stopped is reported only of a child that is gone; a supervisor that failed
\* reports it again only through a restart.
Report ==
    /\ live = {}
    /\ status' = "stopped"
    /\ UNCHANGED live

BeginRestart ==
    /\ status \in {"stopped", "running", "failed"}
    /\ status' = "restarting"
    /\ UNCHANGED live

\* A crash loop, or a child that could not be started.  Not while restarting.
GiveUp ==
    /\ status # "restarting"
    /\ status' = "failed"
    /\ UNCHANGED live

Next == Spawn \/ Die \/ Report \/ BeginRestart \/ GiveUp

Spec == Init /\ [][Next]_lifecycle
===============================================================================
