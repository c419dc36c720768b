------------------------------ MODULE Supervisor ------------------------------
(***************************************************************************)
(* The supervisor of the MCP server's child process                        *)
(* (src/internal/supervisor/process.go).                                   *)
(*                                                                         *)
(* Several goroutines (Callers) call Start, Stop, Restart and              *)
(* ResetRestartCounter on one supervisor.  A critical section of s.mu is   *)
(* one action.  Stop and Restart release s.mu while they wait for the      *)
(* monitor goroutine of the child, so between their first and their last   *)
(* critical section every other caller may run.  The state StateStarting   *)
(* exists only inside Start's critical section and is never seen outside.  *)
(*                                                                         *)
(* Every child is created together with its monitor goroutine, so both are *)
(* named by one element of Procs.  The counter of the WaitGroup monitorWait*)
(* is the number of monitors between Add and Done: Unfinished below.       *)
(***************************************************************************)
EXTENDS Integers, FiniteSets

CONSTANTS
    Callers,        \* goroutines that hold a reference to the supervisor
    MayCall,        \* MayCall[c]: the methods the goroutine c calls
    StartFrom,      \* the states in which a caller calls Start (the code takes any)
    Procs,          \* children that fork/exec can create; when none is left, exec fails
    NoProc,         \* a nil *exec.Cmd, a zero pid, a nil CancelFunc
    MaxRestarts,    \* s.maxRestarts
    RestartWindow,  \* s.restartWindow, in ticks of the clock
    MaxAttempts,    \* bound: calls of Restart in a behaviour
    MaxTime         \* bound: ticks of the clock in a behaviour

Methods == {"Start", "Stop", "Restart", "Reset"}

ASSUME ConstantsOK ==
    /\ MayCall \in [Callers -> SUBSET Methods]
    /\ NoProc \notin Procs
    /\ MaxRestarts \in Nat
    /\ RestartWindow \in Nat
    /\ MaxAttempts \in Nat
    /\ MaxTime \in Nat

VARIABLES
    state,          \* s.state
    process,        \* s.process
    pid,            \* s.pid
    monitorCancel,  \* s.monitorCancel, named by the monitor whose context it cancels
    restartTimes,   \* s.restartTimes, a set: each entry is told apart by its call
    proc,           \* the children, as the operating system sees them
    killed,         \* children that were sent SIGKILL
    mon,            \* the program counter of each monitor goroutine
    monProc,        \* the local variable proc of each monitor goroutine
    cancelled,      \* monitors whose context is done
    pc,             \* where each caller is in its call
    op,             \* the method it is in
    target,         \* the local variable proc of Stop or Restart
    waiter,         \* the goroutine that a caller makes wait on monitorWait
    panicked,       \* an unrecovered panic: the program is gone
    now,            \* time.Now()
    attempts,       \* bound: the number of calls of Restart so far
    granted         \* history: the restarts let through since the last reset

supVars == <<state, process, pid, monitorCancel>>
osVars  == <<proc, killed>>
monVars == <<mon, monProc, cancelled>>
callVars == <<pc, op, target, waiter>>
timeVars == <<restartTimes, now, attempts, granted>>
vars == <<supVars, osVars, monVars, callVars, timeVars, panicked>>

ProcOrNil == Procs \cup {NoProc}
Stamp == [id : 1 .. MaxAttempts, at : 0 .. MaxTime]

Alive(p) == proc[p] = "alive"
Live == {p \in Procs : Alive(p)}

\* The value of monitorWait's counter is the number of elements of this set.
Unfinished == {m \in Procs : mon[m] \notin {"none", "done"}}

At(c, l) == ~panicked /\ pc[c] = l
MonAt(m, l) == ~panicked /\ mon[m] = l
WaiterAt(c, l) == ~panicked /\ waiter[c] = l

Init ==
    /\ state = "stopped"
    /\ process = NoProc
    /\ pid = NoProc
    /\ monitorCancel = NoProc
    /\ restartTimes = {}
    /\ proc = [p \in Procs |-> "unborn"]
    /\ killed = {}
    /\ mon = [m \in Procs |-> "none"]
    /\ monProc = [m \in Procs |-> NoProc]
    /\ cancelled = {}
    /\ pc = [c \in Callers |-> "idle"]
    /\ op = [c \in Callers |-> "none"]
    /\ target = [c \in Callers |-> NoProc]
    /\ waiter = [c \in Callers |-> "none"]
    /\ panicked = FALSE
    /\ now = 0
    /\ attempts = 0
    /\ granted = {}

(***************************************************************************)
(* Start                                                                   *)
(***************************************************************************)
\* Mutated form: a running child is not looked for.
IsStarting == state = "starting"

AlreadyStarted == state \in {"running", "starting"}

\* cmd.Start succeeded: the child and its monitor goroutine exist.
Spawn(p) ==
    /\ ~AlreadyStarted
    /\ proc[p] = "unborn"
    /\ proc' = [proc EXCEPT ![p] = "alive"]
    /\ process' = p
    /\ pid' = p
    /\ state' = "running"
    /\ monitorCancel' = p
    /\ mon' = [mon EXCEPT ![p] = "ready"]
    /\ UNCHANGED <<killed, monProc, cancelled>>

\* No command, no pipe or no process: s.process keeps its value.
SpawnFails ==
    /\ ~AlreadyStarted
    /\ state' = "failed"
    /\ UNCHANGED <<process, pid, monitorCancel, osVars, monVars>>

\* The body of Start, one critical section.
StartBody ==
    \/ \E p \in Procs : Spawn(p)
    \/ SpawnFails
    \/ AlreadyStarted /\ UNCHANGED <<supVars, osVars, monVars>>

CallStart(c) ==
    /\ At(c, "idle")
    /\ "Start" \in MayCall[c]
    /\ state \in StartFrom
    /\ StartBody
    /\ UNCHANGED <<callVars, timeVars, panicked>>

(***************************************************************************)
(* The wait for the monitor, shared by Stop and Restart: a new goroutine   *)
(* waits on monitorWait and closes the channel done; the caller selects    *)
(* between done and five seconds, after which it kills its target.         *)
(* SIGTERM is sent under s.mu just before: a child that gets it may exit   *)
(* or ignore it, which is what Exit allows of any child at any time.       *)
(***************************************************************************)
BeginWait(c, method) ==
    /\ op' = [op EXCEPT ![c] = method]
    /\ target' = [target EXCEPT ![c] = process]
    /\ pc' = [pc EXCEPT ![c] = "waiting"]
    /\ waiter' = [waiter EXCEPT ![c] = "checking"]

\* WaitGroup.Wait returns at once when the counter is zero, else it parks.
WaiterChecks(c) ==
    /\ WaiterAt(c, "checking")
    /\ waiter' = [waiter EXCEPT ![c] = IF Unfinished = {} THEN "closed" ELSE "parked"]
    /\ UNCHANGED <<supVars, osVars, monVars, pc, op, target, timeVars, panicked>>

\* A goroutine woken by the last Done that finds the counter above zero again
\* panics: "WaitGroup is reused before previous Wait has returned".
WaiterWakes(c) ==
    /\ WaiterAt(c, "woken")
    /\ \/ /\ Unfinished = {}
          /\ waiter' = [waiter EXCEPT ![c] = "closed"]
          /\ UNCHANGED panicked
       \/ /\ Unfinished # {}
          /\ panicked' = TRUE
          /\ UNCHANGED waiter
    /\ UNCHANGED <<supVars, osVars, monVars, pc, op, target, timeVars>>

\* Mutated form: the timeout does not kill.
WaitGivesNoKill(c) ==
    /\ At(c, "waiting")
    /\ pc' = [pc EXCEPT ![c] = "killing"]
    /\ UNCHANGED <<supVars, osVars, monVars, op, target, waiter, timeVars, panicked>>

WaitTimesOut(c) ==
    /\ At(c, "waiting")
    /\ killed' = killed \cup {target[c]}
    /\ pc' = [pc EXCEPT ![c] = "killing"]
    /\ UNCHANGED <<supVars, proc, monVars, op, target, waiter, timeVars, panicked>>

\* Mutated form: after the kill, the wait for done is dropped.
MonitorIsGoneOrKilled(c) ==
    \/ pc[c] \in {"cleaning", "killing"}
    \/ pc[c] = "waiting" /\ waiter[c] = "closed"

\* The caller got done, or had nothing to wait for.
MonitorIsGone(c) ==
    \/ pc[c] = "cleaning"
    \/ pc[c] \in {"waiting", "killing"} /\ waiter[c] = "closed"

cleanup(newState) ==
    /\ cancelled' = cancelled \cup ({monitorCancel} \ {NoProc})
    /\ monitorCancel' = NoProc
    /\ state' = newState
    /\ pid' = NoProc
    /\ process' = NoProc

cleanupAfterStop == cleanup("stopped")

\* The last critical section of Stop, and the one of Restart before it starts.
Cleanup(c) ==
    /\ ~panicked
    /\ MonitorIsGone(c)
    /\ cleanupAfterStop
    /\ pc' = [pc EXCEPT ![c] = IF op[c] = "Restart" THEN "starting" ELSE "idle"]
    /\ op' = [op EXCEPT ![c] = "none"]
    /\ target' = [target EXCEPT ![c] = NoProc]
    /\ waiter' = [waiter EXCEPT ![c] = IF waiter[c] = "closed" THEN "none" ELSE waiter[c]]
    /\ UNCHANGED <<osVars, mon, monProc, timeVars, panicked>>

(***************************************************************************)
(* Stop.  In every other state it returns nil and changes nothing.  Its    *)
(* branch for a nil process is dead code: see ActiveHasProcess.            *)
(***************************************************************************)
CallStop(c) ==
    /\ At(c, "idle")
    /\ "Stop" \in MayCall[c]
    /\ state \in {"running", "restarting"}
    /\ BeginWait(c, "Stop")
    /\ UNCHANGED <<supVars, osVars, monVars, timeVars, panicked>>

(***************************************************************************)
(* Restart                                                                 *)
(***************************************************************************)
ThisAttempt == [id |-> attempts + 1, at |-> now]

InWindow(t) == t.at > now - RestartWindow

\* The restarts within the window, this one included.
ValidRestarts == {t \in restartTimes \cup {ThisAttempt} : InWindow(t)}

\* Mutated form: one restart too many.
TooManyByOne(restarts) == Cardinality(restarts) > MaxRestarts + 1

TooMany(restarts) == Cardinality(restarts) > MaxRestarts

CountAttempt(c) ==
    /\ At(c, "idle")
    /\ "Restart" \in MayCall[c]
    /\ attempts < MaxAttempts
    /\ attempts' = attempts + 1
    /\ restartTimes' = ValidRestarts
    /\ UNCHANGED now

\* A crash loop: the call fails and the child, if any, is left as it is.
RestartRefused(c) ==
    /\ CountAttempt(c)
    /\ TooMany(ValidRestarts)
    /\ state' = "failed"
    /\ UNCHANGED <<process, pid, monitorCancel, osVars, monVars, callVars, granted, panicked>>

\* With a process: StateRestarting, SIGTERM, and the wait.
RestartStops(c) ==
    /\ CountAttempt(c)
    /\ ~TooMany(ValidRestarts)
    /\ process # NoProc
    /\ state' = "restarting"
    /\ BeginWait(c, "Restart")
    /\ granted' = granted \cup {ThisAttempt}
    /\ UNCHANGED <<process, pid, monitorCancel, osVars, monVars, panicked>>

\* Without one, stopProcessLocked sets StateStopped and there is no wait.
RestartFindsNothing(c) ==
    /\ CountAttempt(c)
    /\ ~TooMany(ValidRestarts)
    /\ process = NoProc
    /\ state' = "stopped"
    /\ pid' = NoProc
    /\ op' = [op EXCEPT ![c] = "Restart"]
    /\ pc' = [pc EXCEPT ![c] = "cleaning"]
    /\ granted' = granted \cup {ThisAttempt}
    /\ UNCHANGED <<process, monitorCancel, osVars, monVars, target, waiter, panicked>>

\* Restart's last step calls Start, after it has released s.mu.
RestartStarts(c) ==
    /\ At(c, "starting")
    /\ StartBody
    /\ pc' = [pc EXCEPT ![c] = "idle"]
    /\ UNCHANGED <<op, target, waiter, timeVars, panicked>>

(***************************************************************************)
(* ResetRestartCounter                                                     *)
(***************************************************************************)
CallReset(c) ==
    /\ At(c, "idle")
    /\ "Reset" \in MayCall[c]
    /\ restartTimes' = {}
    /\ granted' = {}
    /\ UNCHANGED <<supVars, osVars, monVars, callVars, now, attempts, panicked>>

(***************************************************************************)
(* The monitor goroutine                                                   *)
(***************************************************************************)
\* It reads s.process only when it runs, not when it is created.
MonitorReads(m) ==
    /\ MonAt(m, "ready")
    /\ monProc' = [monProc EXCEPT ![m] = process]
    /\ mon' = [mon EXCEPT ![m] = IF process = NoProc THEN "exiting" ELSE "reaping"]
    /\ UNCHANGED <<supVars, osVars, cancelled, callVars, timeVars, panicked>>

\* proc.Wait returns when the child has died, and reaps it; a monitor whose
\* context is done skips the report.
MonitorReaps(m) ==
    /\ MonAt(m, "reaping")
    /\ proc[monProc[m]] \in {"zombie", "reaped"}
    /\ proc' = [proc EXCEPT ![monProc[m]] = "reaped"]
    /\ mon' = [mon EXCEPT ![m] = IF m \in cancelled THEN "exiting" ELSE "reporting"]
    /\ UNCHANGED <<supVars, killed, monProc, cancelled, callVars, timeVars, panicked>>

\* Mutated form: the death clears the pid and leaves the state.
MonitorReportsPidOnly(m) ==
    /\ MonAt(m, "reporting")
    /\ mon' = [mon EXCEPT ![m] = "exiting"]
    /\ pid' = IF state = "running" THEN NoProc ELSE pid
    /\ UNCHANGED <<state, process, monitorCancel, osVars, monProc, cancelled, callVars, timeVars, panicked>>

\* A child that dies while the supervisor is running died unexpectedly.
MonitorReports(m) ==
    /\ MonAt(m, "reporting")
    /\ mon' = [mon EXCEPT ![m] = "exiting"]
    /\ state' = IF state = "running" THEN "stopped" ELSE state
    /\ pid' = IF state = "running" THEN NoProc ELSE pid
    /\ UNCHANGED <<process, monitorCancel, osVars, monProc, cancelled, callVars, timeVars, panicked>>

\* monitorWait.Done: the last one wakes every parked waiter.
MonitorExits(m) ==
    /\ MonAt(m, "exiting")
    /\ mon' = [mon EXCEPT ![m] = "done"]
    /\ waiter' = [c \in Callers |->
                    IF waiter[c] = "parked" /\ Unfinished = {m} THEN "woken" ELSE waiter[c]]
    /\ UNCHANGED <<supVars, osVars, monProc, cancelled, pc, op, target, timeVars, panicked>>

(***************************************************************************)
(* The operating system and the clock                                      *)
(***************************************************************************)
\* Any child may exit at any time: of itself, after SIGTERM or after SIGKILL.
Exit(p) ==
    /\ ~panicked
    /\ Alive(p)
    /\ proc' = [proc EXCEPT ![p] = "zombie"]
    /\ UNCHANGED <<supVars, killed, monVars, callVars, timeVars, panicked>>

Tick ==
    /\ ~panicked
    /\ now < MaxTime
    /\ now' = now + 1
    /\ UNCHANGED <<supVars, osVars, monVars, callVars, restartTimes, attempts, granted, panicked>>

\* Nobody has to call again; after a panic nothing happens.
Rest ==
    /\ panicked \/ \A c \in Callers : pc[c] = "idle"
    /\ UNCHANGED vars

CallerStep(c) ==
    \/ CallStart(c) \/ CallStop(c) \/ CallReset(c)
    \/ RestartRefused(c) \/ RestartStops(c) \/ RestartFindsNothing(c)
    \/ RestartStarts(c) \/ Cleanup(c) \/ WaitTimesOut(c)
    \/ WaiterChecks(c) \/ WaiterWakes(c)

MonitorStep(m) == MonitorReads(m) \/ MonitorReaps(m) \/ MonitorReports(m) \/ MonitorExits(m)

Next ==
    \/ \E c \in Callers : CallerStep(c)
    \/ \E m \in Procs : MonitorStep(m)
    \/ \E p \in Procs : Exit(p)
    \/ Tick
    \/ Rest

Spec == Init /\ [][Next]_vars

(***************************************************************************)
(* Fairness: the Go scheduler runs every goroutine that can run, timers    *)
(* fire, and the kernel kills a child that was sent SIGKILL.  Nothing      *)
(* makes a child exit of itself, and nobody has to call.                   *)
(***************************************************************************)
Fairness ==
    /\ \A c \in Callers :
        /\ WF_vars(WaiterChecks(c))
        /\ WF_vars(WaiterWakes(c))
        /\ WF_vars(WaitTimesOut(c))
        /\ WF_vars(Cleanup(c))
        /\ WF_vars(RestartStarts(c))
    /\ \A p \in Procs :
        /\ WF_vars(MonitorStep(p))
        /\ WF_vars(p \in killed /\ Exit(p))

FairSpec == Spec /\ Fairness

-------------------------------------------------------------------------------
(***************************************************************************)
(* Properties for any callers                                              *)
(***************************************************************************)
\* Every variable has its type; in particular StateStarting is never left
\* behind by a critical section of Start (process.go:57-108).
TypeOK ==
    /\ state \in {"stopped", "running", "restarting", "failed"}
    /\ process \in ProcOrNil /\ pid \in ProcOrNil /\ monitorCancel \in ProcOrNil
    /\ restartTimes \subseteq Stamp
    /\ proc \in [Procs -> {"unborn", "alive", "zombie", "reaped"}]
    /\ killed \subseteq ProcOrNil
    /\ mon \in [Procs -> {"none", "ready", "reaping", "reporting", "exiting", "done"}]
    /\ monProc \in [Procs -> ProcOrNil]
    /\ cancelled \subseteq Procs
    /\ pc \in [Callers -> {"idle", "waiting", "killing", "cleaning", "starting"}]
    /\ op \in [Callers -> {"none", "Stop", "Restart"}]
    /\ target \in [Callers -> ProcOrNil]
    /\ waiter \in [Callers -> {"none", "checking", "parked", "woken", "closed"}]
    /\ panicked \in BOOLEAN
    /\ now \in 0 .. MaxTime
    /\ attempts \in 0 .. MaxAttempts
    /\ granted \subseteq Stamp

\* Whoever calls what and when, a supervisor that is running or restarting has
\* a process: Stop's branch for a nil process (process.go:130-135) is dead code.
ActiveHasProcess == state \in {"running", "restarting"} => process # NoProc

\* Crash-loop detection: between two resets, no window of RestartWindow that
\* ends in a restart holds more than MaxRestarts restarts let through, whoever
\* asked for them (process.go:224-244).
GrantedWithin(r) == {g \in granted : g.id <= r.id /\ g.at > r.at - RestartWindow}
RestartsBounded == \A r \in granted : Cardinality(GrantedWithin(r)) <= MaxRestarts

\* What makes RestartsBounded inductive: s.restartTimes is finite and still
\* holds every granted restart that a later window can contain.
WindowInv ==
    /\ IsFiniteSet(restartTimes)
    /\ \A g \in granted :
        /\ g.id <= attempts
        /\ g.at > now - RestartWindow => g \in restartTimes
    /\ RestartsBounded

(***************************************************************************)
(* Properties of serial use: one caller, which does not call Start on a    *)
(* supervisor that has FAILED                                              *)
(***************************************************************************)
\* At any time at most one child is alive, and it is s.process: no call and no
\* crash leaves a child behind (process.go:121-264).
AtMostOneChild == \A p \in Live : p = process

\* When State says stopped, no child is alive (process.go:216, 347).
StoppedMeansNoChild == state = "stopped" => Live = {}

\* Every child that has not been reaped has its own monitor, which waits or
\* will wait for this child and for no other (process.go:317-328).
EveryChildHasAReaper ==
    \A p \in Procs : proc[p] \in {"alive", "zombie"} =>
        \/ mon[p] = "ready" /\ process = p
        \/ mon[p] = "reaping" /\ monProc[p] = p

\* A supervisor that is running, whether its child is alive or not, has a
\* monitor that has still to report that child's death (process.go:330-349).
RunningIsWatched ==
    state = "running" =>
        /\ mon[process] \in {"ready", "reaping", "reporting"}
        /\ process \notin cancelled

\* WaitGroup monitorWait is never misused, so no waiter panics (process.go:115,
\* 144-148, 193-196).
NoPanic == ~panicked

\* Stop and Restart return, even when the child ignores SIGTERM.
CallsReturn == \A c \in Callers : pc[c] # "idle" ~> pc[c] = "idle"

\* The death of a running child is reported: the state leaves running.
ChildIsDead == process # NoProc /\ proc[process] # "alive"
DeathIsReported == (state = "running" /\ ChildIsDead) ~> state # "running"

\* Every child that dies is reaped.
ZombiesAreReaped == \A p \in Procs : proc[p] = "zombie" ~> proc[p] = "reaped"
\* The abstract lifecycle: the children that are alive and the state reported.
Abstract == INSTANCE ChildLifecycle WITH live <- Live, status <- state
\* A caller that uses the supervisor alone sees the lifecycle of ChildLifecycle:
\* no two children at once, no stop reported of a live child, no way out of a
\* failure but a restart (process.go:48-264).
ImplementsLifecycle == Abstract!Spec

(***************************************************************************)
(* The inductive invariant of serial use                                   *)
(***************************************************************************)
SerialUse ==
    /\ \A c, d \in Callers : c = d
    /\ "failed" \notin StartFrom

Watching == {"ready", "reaping", "reporting"}

\* A monitor is as far as its own child is, and only the monitor of s.process
\* has still something to do before its Done.
MonitorInv(m) ==
    /\ mon[m] = "none" <=> proc[m] = "unborn"
    /\ mon[m] \in {"ready", "reaping"} => proc[m] \in {"alive", "zombie"}
    /\ mon[m] \in {"reporting", "exiting", "done"} => proc[m] = "reaped"
    /\ mon[m] = "reaping" => monProc[m] = m
    /\ mon[m] \in Watching => process = m
    /\ m \in cancelled => mon[m] = "done"

StateInv ==
    /\ monitorCancel = process
    /\ process # NoProc => mon[process] # "none"
    /\ state = "running" => process # NoProc /\ mon[process] \in Watching
    /\ state = "stopped" => \A m \in Procs : mon[m] \notin Watching

\* Where the caller is says which state it may find, and a waiter that got the
\* last Done knows that no monitor was added since.
CallerInv(c) ==
    /\ pc[c] \notin {"waiting", "killing"} => waiter[c] = "none" /\ state # "restarting"
    /\ pc[c] = "cleaning" => process = NoProc
    /\ pc[c] \in {"cleaning", "starting"} => state = "stopped"
    /\ waiter[c] \in {"woken", "closed"} => Unfinished = {}

\* Serial use keeps monitors, state and caller in step: the inductive invariant
\* from which the properties of serial use follow.
SerialInv ==
    /\ \A m \in Procs : MonitorInv(m)
    /\ StateInv
    /\ \A c \in Callers : CallerInv(c)
    /\ NoPanic

(***************************************************************************)
(* What the documents say and the code does not do                         *)
(***************************************************************************)
\* docs/ARCHITECTURE.md:163-176: on the way to FAILED the child is killed.
FailedMeansNoChild == state = "failed" => Live = {}
===============================================================================
