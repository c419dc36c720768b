------------------------------- MODULE HydraRun -------------------------------
(***************************************************************************)
(* `hydra run` (src/internal/cli/run.go): how the program uses the         *)
(* supervisor.                                                             *)
(*                                                                         *)
(* The main goroutine starts the supervisor, makes the child transport of  *)
(* the pipes that the supervisor has at that moment, sets up the watcher,  *)
(* and enters proxy.Run, which calls Start again and then loops.  The      *)
(* goroutine of the watcher, once there, calls Restart for each event.     *)
(* main never waits inside the supervisor, so that only the watcher's      *)
(* goroutine is one of Callers.                                            *)
(*                                                                         *)
(* The messages themselves are the subject of Proxy; what matters here is  *)
(* that loop() reads one pipe and returns at its end.                      *)
(***************************************************************************)
EXTENDS Supervisor

CONSTANTS
    Watch,          \* the goroutine that reads w.Events()
    WatchEnabled    \* merged.Watch.Enabled, with at least one path

ASSUME HydraConstants == WatchEnabled \in BOOLEAN

\* How run.go uses the supervisor: the watcher's goroutine calls Restart and nothing else,
\* so that it never calls Start, from whatever state.
HydraUse ==
    /\ Callers = {Watch}
    /\ MayCall[Watch] = {"Restart"}
    /\ "failed" \notin StartFrom

VARIABLES
    runPc,          \* where the main goroutine is in runRun
    conn,           \* the child whose pipes childTransport was made of
    clean           \* history: no Restart was in flight, and none had failed,
                    \* when proxy.Run called Start

hydraVars == <<runPc, conn, clean>>
allVars == <<vars, hydraVars>>

MainAt(l) == ~panicked /\ runPc = l

HydraInit ==
    /\ Init
    /\ runPc = "boot"
    /\ conn = NoProc
    /\ clean = TRUE

(***************************************************************************)
(* The main goroutine                                                      *)
(***************************************************************************)
\* Start returns an error, and main with it, exactly when it sets StateFailed.
MainStarts(next) ==
    /\ StartBody
    /\ runPc' = IF state' = "failed" THEN "exited" ELSE next
    /\ UNCHANGED <<callVars, timeVars, panicked>>

Boot ==
    /\ MainAt("boot")
    /\ MainStarts("wiring")
    /\ UNCHANGED <<conn, clean>>

Wire ==
    /\ MainAt("wiring")
    /\ conn' = process
    /\ runPc' = "starting"
    /\ UNCHANGED <<vars, clean>>

NoRestartInFlight == \A c \in Callers : pc[c] = "idle"

ProxyRun ==
    /\ MainAt("starting")
    /\ MainStarts("looping")
    /\ clean' = (NoRestartInFlight /\ state # "failed")
    /\ UNCHANGED conn

\* The pipe of conn ends when conn has died: "child eof", or a read error.
ChildEnds == proc[conn] # "alive"

LoopFails ==
    /\ MainAt("looping")
    /\ ChildEnds
    /\ runPc' = "exited"
    /\ UNCHANGED <<vars, conn, clean>>

\* The client's end of file.  Nobody calls Stop on the way out.
LoopEnds ==
    /\ MainAt("looping")
    /\ runPc' = "exited"
    /\ UNCHANGED <<vars, conn, clean>>

MainStep == Boot \/ Wire \/ ProxyRun \/ LoopFails

(***************************************************************************)
(* The other goroutines, while the program runs, and the children, which   *)
(* outlive it.                                                             *)
(***************************************************************************)
WatcherRuns == WatchEnabled /\ runPc \in {"starting", "looping"}

WatcherStep ==
    /\ WatcherRuns
    /\ \E c \in Callers : CallerStep(c)
    /\ UNCHANGED hydraVars

ReaperStep ==
    /\ runPc # "exited"
    /\ \E m \in Procs : MonitorStep(m)
    /\ UNCHANGED hydraVars

WorldStep ==
    /\ Tick \/ \E p \in Procs : Exit(p)
    /\ UNCHANGED hydraVars

Over ==
    /\ panicked \/ runPc = "exited"
    /\ UNCHANGED allVars

HydraNext == MainStep \/ LoopEnds \/ WatcherStep \/ ReaperStep \/ WorldStep \/ Over

HydraSpec == HydraInit /\ [][HydraNext]_allVars

\* As in Supervisor; the client need not hang up and no file has to change.
HydraFairness ==
    /\ WF_allVars(MainStep)
    /\ \A c \in Callers :
        /\ WF_allVars(WatcherStep /\ WaiterChecks(c))
        /\ WF_allVars(WatcherStep /\ WaiterWakes(c))
        /\ WF_allVars(WatcherStep /\ WaitTimesOut(c))
        /\ WF_allVars(WatcherStep /\ Cleanup(c))
        /\ WF_allVars(WatcherStep /\ RestartStarts(c))
    /\ \A p \in Procs :
        /\ WF_allVars(ReaperStep /\ MonitorStep(p))
        /\ WF_allVars(WorldStep /\ p \in killed /\ Exit(p))

FairHydraSpec == HydraSpec /\ HydraFairness

-------------------------------------------------------------------------------
\* The types of Supervisor and of the three variables added here.
HydraTypeOK ==
    /\ TypeOK
    /\ runPc \in {"boot", "wiring", "starting", "looping", "exited"}
    /\ conn \in ProcOrNil
    /\ clean \in BOOLEAN

\* Main's two Starts and the watcher's Restarts leave no second child, no child
\* without a reaper and no panic, provided that proxy.Run's Start (proxy.go:71)
\* did not fall into a Restart: that one race is all that can go wrong.
CleanStartIsSafe == clean => AtMostOneChild /\ EveryChildHasAReaper /\ NoPanic

\* After such a start, a restart while looping or the death of the first child
\* ends the program: no client is left for ever with a hydra that has no server to
\* talk to, even if a child ignores SIGTERM (proxy.go:157-163, 179-182).
ServerGone == runPc = "looping" /\ (state = "restarting" \/ ChildEnds)
ProgramEnds == (clean /\ ServerGone) ~> (runPc = "exited" \/ panicked)

(***************************************************************************)
(* What the documents say and the code does not do                         *)
(***************************************************************************)
\* run.go:117: "proxy will also call Start(), but it's idempotent".
StartIsIdempotent ==
    [][runPc = "starting" /\ runPc' = "looping" /\ Live # {} => Live' = Live]_allVars

\* README.md:37: "The AI session survives server crashes": hydra does not give up
\* while its supervisor has a running server that is alive.
HydraOutlivesRestart ==
    [][runPc = "looping" /\ runPc' = "exited" /\ ChildEnds /\ clean =>
        ~(state = "running" /\ Alive(process))]_allVars

\* docs/ARCHITECTURE.md:80: "Process crash -> RESTARTING".
CrashIsRestarted == (runPc = "looping" /\ state = "stopped") ~> state \in {"restarting", "running"}
===============================================================================
