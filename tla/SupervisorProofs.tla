--------------------------- MODULE SupervisorProofs ---------------------------
(***************************************************************************)
(* Theorems about Supervisor, for every value of its constants, and about  *)
(* the two programs that use it: the tools, ToolCalls, for any number of   *)
(* tools, other callers and children, and `hydra run`, HydraRun.           *)
(***************************************************************************)
EXTENDS ToolCalls, HydraRun, FiniteSetTheorems, TLAPS

USE ConstantsOK DEF ConstantsOK

-------------------------------------------------------------------------------
(***************************************************************************)
(* Any callers                                                             *)
(***************************************************************************)
LEMMA StartBodyType ==
    ASSUME TypeOK, StartBody
    PROVE  /\ state' \in {"stopped", "running", "restarting", "failed"}
           /\ process' \in ProcOrNil /\ pid' \in ProcOrNil /\ monitorCancel' \in ProcOrNil
           /\ proc' \in [Procs -> {"unborn", "alive", "zombie", "reaped"}]
           /\ killed' \subseteq ProcOrNil
           /\ mon' \in [Procs -> {"none", "ready", "reaping", "reporting", "exiting", "done"}]
           /\ monProc' \in [Procs -> ProcOrNil]
           /\ cancelled' \subseteq Procs
BY DEF TypeOK, StartBody, Spawn, SpawnFails, AlreadyStarted, ProcOrNil, supVars, osVars, monVars

\* Nothing has been started.
LEMMA InitTypes ==
    ASSUME Init
    PROVE  TypeOK
<1>1. panicked \in BOOLEAN
  BY Zenon DEF Init
<1>2. /\ proc \in [Procs -> {"unborn", "alive", "zombie", "reaped"}]
      /\ mon \in [Procs -> {"none", "ready", "reaping", "reporting", "exiting", "done"}]
      /\ monProc \in [Procs -> ProcOrNil]
      /\ pc \in [Callers -> {"idle", "waiting", "killing", "cleaning", "starting"}]
      /\ op \in [Callers -> {"none", "Stop", "Restart"}]
      /\ target \in [Callers -> ProcOrNil]
      /\ waiter \in [Callers -> {"none", "checking", "parked", "woken", "closed"}]
  BY DEF Init, ProcOrNil
<1>3. QED
  BY <1>1, <1>2 DEF Init, TypeOK, ProcOrNil

\* One step keeps the types, whoever takes it.
LEMMA TypingStep ==
    ASSUME TypeOK, [Next]_vars
    PROVE  TypeOK'
<1> USE DEF supVars, osVars, monVars, callVars, timeVars, At, MonAt, WaiterAt
<1>1. ASSUME NEW c \in Callers, CallStart(c)
      PROVE  TypeOK'
  BY <1>1, StartBodyType DEF TypeOK, CallStart
<1>2. ASSUME NEW c \in Callers, CallStop(c)
      PROVE  TypeOK'
  BY <1>2 DEF TypeOK, CallStop, BeginWait, ProcOrNil
<1>3. ASSUME NEW c \in Callers, CallReset(c)
      PROVE  TypeOK'
  BY <1>3 DEF TypeOK, CallReset
<1>4. ASSUME NEW c \in Callers, CountAttempt(c)
      PROVE  /\ restartTimes' \subseteq Stamp
             /\ ThisAttempt \in Stamp
             /\ attempts' \in 0 .. MaxAttempts
             /\ now' \in 0 .. MaxTime
  BY <1>4 DEF TypeOK, CountAttempt, ValidRestarts, ThisAttempt, Stamp
<1>5. ASSUME NEW c \in Callers, RestartRefused(c)
      PROVE  TypeOK'
  BY <1>4, <1>5 DEF TypeOK, RestartRefused
<1>6. ASSUME NEW c \in Callers, RestartStops(c)
      PROVE  TypeOK'
  BY <1>4, <1>6 DEF TypeOK, RestartStops, BeginWait, ProcOrNil
<1>7. ASSUME NEW c \in Callers, RestartFindsNothing(c)
      PROVE  TypeOK'
  BY <1>4, <1>7 DEF TypeOK, RestartFindsNothing, ProcOrNil
<1>8. ASSUME NEW c \in Callers, RestartStarts(c)
      PROVE  TypeOK'
  BY <1>8, StartBodyType DEF TypeOK, RestartStarts
<1>9. ASSUME NEW c \in Callers, Cleanup(c)
      PROVE  TypeOK'
  BY <1>9 DEF TypeOK, Cleanup, cleanupAfterStop, cleanup, ProcOrNil
<1>10. ASSUME NEW c \in Callers, WaitTimesOut(c)
       PROVE  TypeOK'
  BY <1>10 DEF TypeOK, WaitTimesOut, ProcOrNil
<1>11. ASSUME NEW c \in Callers, WaiterChecks(c)
       PROVE  TypeOK'
  BY <1>11 DEF TypeOK, WaiterChecks
<1>12. ASSUME NEW c \in Callers, WaiterWakes(c)
       PROVE  TypeOK'
  BY <1>12 DEF TypeOK, WaiterWakes
<1>13. ASSUME NEW m \in Procs, MonitorReads(m)
       PROVE  TypeOK'
  BY <1>13 DEF TypeOK, MonitorReads, ProcOrNil
<1>14. ASSUME NEW m \in Procs, MonitorReaps(m)
       PROVE  TypeOK'
  BY <1>14 DEF TypeOK, MonitorReaps
<1>15. ASSUME NEW m \in Procs, MonitorReports(m)
       PROVE  TypeOK'
  BY <1>15 DEF TypeOK, MonitorReports, ProcOrNil
<1>16. ASSUME NEW m \in Procs, MonitorExits(m)
       PROVE  TypeOK'
  BY <1>16 DEF TypeOK, MonitorExits
<1>17. ASSUME NEW p \in Procs, Exit(p)
       PROVE  TypeOK'
  BY <1>17 DEF TypeOK, Exit
<1>18. CASE Tick
  BY <1>18 DEF TypeOK, Tick
<1>19. CASE UNCHANGED vars
  BY <1>19 DEF TypeOK, vars
<1>20. QED
  BY <1>1, <1>2, <1>3, <1>5, <1>6, <1>7, <1>8, <1>9, <1>10, <1>11, <1>12,
     <1>13, <1>14, <1>15, <1>16, <1>17, <1>18, <1>19
  DEF Next, CallerStep, MonitorStep, Rest

\* Every variable keeps its type, and no critical section leaves StateStarting
\* behind (process.go:48-119).
THEOREM Typing == Spec => []TypeOK
<1>1. Init => TypeOK
  BY InitTypes
<1>2. TypeOK /\ [Next]_vars => TypeOK'
  BY TypingStep
<1>3. QED
  BY <1>1, <1>2, PTL DEF Spec

-------------------------------------------------------------------------------
\* Under any callers, a supervisor that is running or restarting has a process:
\* Stop's branch for a nil process (process.go:130-135) is never taken.
THEOREM ActiveHasProcessAlways == Spec => []ActiveHasProcess
<1>1. Init => ActiveHasProcess
  BY DEF Init, ActiveHasProcess
<1>2. ActiveHasProcess /\ [Next]_vars => ActiveHasProcess'
  <2> SUFFICES ASSUME ActiveHasProcess, [Next]_vars
               PROVE  ActiveHasProcess'
    OBVIOUS
  <2> USE DEF ActiveHasProcess, supVars
  <2>1. ASSUME StartBody
        PROVE  ActiveHasProcess'
    BY <2>1 DEF StartBody, Spawn, SpawnFails, AlreadyStarted
  <2>2. ASSUME NEW c \in Callers, CallerStep(c)
        PROVE  ActiveHasProcess'
    <3>1. CASE CallStart(c) \/ RestartStarts(c)
      BY <2>1, <3>1 DEF CallStart, RestartStarts
    <3>2. CASE RestartStops(c) \/ RestartRefused(c) \/ RestartFindsNothing(c)
      BY <3>2 DEF RestartStops, RestartRefused, RestartFindsNothing
    <3>3. CASE Cleanup(c)
      BY <3>3 DEF Cleanup, cleanupAfterStop, cleanup
    <3>4. CASE CallStop(c) \/ CallReset(c) \/ WaitTimesOut(c)
                \/ WaiterChecks(c) \/ WaiterWakes(c)
      BY <3>4 DEF CallStop, CallReset, WaitTimesOut, WaiterChecks, WaiterWakes
    <3>5. QED
      BY <2>2, <3>1, <3>2, <3>3, <3>4 DEF CallerStep
  <2>3. ASSUME NEW m \in Procs, MonitorStep(m)
        PROVE  ActiveHasProcess'
    BY <2>3 DEF MonitorStep, MonitorReads, MonitorReaps, MonitorReports, MonitorExits
  <2>4. ASSUME NEW p \in Procs, Exit(p)
        PROVE  ActiveHasProcess'
    BY <2>4 DEF Exit
  <2>5. CASE Tick \/ UNCHANGED vars
    BY <2>5 DEF Tick, vars
  <2>6. QED
    BY <2>2, <2>3, <2>4, <2>5 DEF Next, Rest
<1>3. QED
  BY <1>1, <1>2, PTL DEF Spec

-------------------------------------------------------------------------------
\* Filtering keeps finitely many entries.
LEMMA ValidRestartsFinite ==
    ASSUME IsFiniteSet(restartTimes)
    PROVE  IsFiniteSet(ValidRestarts)
<1>1. IsFiniteSet(restartTimes \cup {ThisAttempt})
  BY FS_AddElement
<1>2. QED
  BY <1>1, FS_Subset DEF ValidRestarts

\* A granted restart keeps the bound: what its window holds is still in
\* s.restartTimes, which was just found small enough (process.go:224-244).
LEMMA GrantKeepsWindow ==
    ASSUME NEW c \in Callers, TypeOK, WindowInv, CountAttempt(c),
           ~TooMany(ValidRestarts), granted' = granted \cup {ThisAttempt}
    PROVE  WindowInv'
<1>1. /\ now \in Nat /\ attempts \in Nat /\ now' = now /\ attempts' = attempts + 1
      /\ restartTimes' = ValidRestarts
      /\ ThisAttempt \in Stamp /\ ThisAttempt.id = attempts + 1 /\ ThisAttempt.at = now
      /\ \A g \in granted : g.id \in Nat /\ g.at \in Nat
  BY DEF CountAttempt, TypeOK, Stamp, ThisAttempt
<1>2. IsFiniteSet(ValidRestarts)
  BY ValidRestartsFinite DEF WindowInv
<1>3. \A g \in granted' :
        g.id <= attempts' /\ (g.at > now' - RestartWindow => g \in restartTimes')
  BY <1>1 DEF WindowInv, ValidRestarts, InWindow
<1>4. ASSUME NEW r \in granted'
      PROVE  Cardinality(GrantedWithin(r)') <= MaxRestarts
  <2>1. CASE r \in granted
    <3>1. GrantedWithin(r)' = GrantedWithin(r)
      BY <1>1, <2>1 DEF GrantedWithin, WindowInv
    <3>2. QED
      BY <2>1, <3>1 DEF WindowInv, RestartsBounded
  <2>2. CASE r = ThisAttempt
    <3>1. GrantedWithin(r)' \subseteq ValidRestarts
      BY <1>1, <1>3, <2>2 DEF GrantedWithin
    <3>2. /\ Cardinality(GrantedWithin(r)') <= Cardinality(ValidRestarts)
          /\ IsFiniteSet(GrantedWithin(r)')
      BY <1>2, <3>1, FS_Subset
    <3>3. Cardinality(GrantedWithin(r)') \in Nat /\ Cardinality(ValidRestarts) \in Nat
      BY <1>2, <3>2, FS_CardinalityType
    <3>4. Cardinality(ValidRestarts) <= MaxRestarts
      BY <3>3 DEF TooMany
    <3>5. QED
      BY <3>2, <3>3, <3>4
  <2>3. QED
    BY <2>1, <2>2
<1>5. QED
  BY <1>1, <1>2, <1>3, <1>4 DEF WindowInv, RestartsBounded

\* Whoever calls Restart, no window of RestartWindow between two resets holds
\* more than MaxRestarts restarts that were let through (process.go:224-244).
THEOREM RestartsBoundedAlways == Spec => []RestartsBounded
<1>1. Init => WindowInv
  BY FS_EmptySet DEF Init, WindowInv, RestartsBounded
<1>2. TypeOK /\ WindowInv /\ [Next]_vars => WindowInv'
  <2> SUFFICES ASSUME TypeOK, WindowInv, [Next]_vars
               PROVE  WindowInv'
    OBVIOUS
  <2>1. ASSUME UNCHANGED <<restartTimes, now, attempts, granted>>
        PROVE  WindowInv'
    BY <2>1 DEF WindowInv, RestartsBounded, GrantedWithin
  <2>2. ASSUME NEW c \in Callers, CallReset(c)
        PROVE  WindowInv'
    BY <2>2, FS_EmptySet DEF CallReset, WindowInv, RestartsBounded
  <2>3. ASSUME NEW c \in Callers, RestartRefused(c)
        PROVE  WindowInv'
    <3>1. /\ now \in Nat /\ attempts \in Nat
          /\ \A g \in granted : g.id \in Nat /\ g.at \in Nat
      BY DEF TypeOK, Stamp
    <3>2. /\ granted' = granted /\ now' = now /\ attempts' = attempts + 1
          /\ restartTimes' = ValidRestarts
      BY <2>3 DEF RestartRefused, CountAttempt
    <3>3. QED
      BY <3>1, <3>2, ValidRestartsFinite
      DEF WindowInv, RestartsBounded, GrantedWithin, ValidRestarts, InWindow
  <2>4. ASSUME NEW c \in Callers, RestartStops(c) \/ RestartFindsNothing(c)
        PROVE  WindowInv'
    BY <2>4, GrantKeepsWindow DEF RestartStops, RestartFindsNothing
  <2>5. CASE Tick
    <3>1. /\ now \in Nat
          /\ \A g \in granted : g.at \in Nat
      BY DEF TypeOK, Stamp
    <3>2. QED
      BY <2>5, <3>1 DEF Tick, WindowInv, RestartsBounded, GrantedWithin
  <2>6. ASSUME NEW c \in Callers, CallerStep(c)
        PROVE  WindowInv'
    <3>1. CASE CallStart(c) \/ CallStop(c) \/ RestartStarts(c) \/ Cleanup(c)
               \/ WaitTimesOut(c) \/ WaiterChecks(c) \/ WaiterWakes(c)
      BY <2>1, <3>1 DEF CallStart, CallStop, RestartStarts, Cleanup, WaitTimesOut,
                        WaiterChecks, WaiterWakes, timeVars
    <3>2. QED
      BY <2>2, <2>3, <2>4, <2>6, <3>1 DEF CallerStep
  <2>7. ASSUME NEW m \in Procs, MonitorStep(m)
        PROVE  WindowInv'
    BY <2>1, <2>7
    DEF MonitorStep, MonitorReads, MonitorReaps, MonitorReports, MonitorExits, timeVars
  <2>8. ASSUME NEW p \in Procs, Exit(p)
        PROVE  WindowInv'
    BY <2>1, <2>8 DEF Exit, timeVars
  <2>9. CASE UNCHANGED vars
    BY <2>1, <2>9 DEF vars, timeVars
  <2>10. QED
    BY <2>5, <2>6, <2>7, <2>8, <2>9 DEF Next, Rest
<1>3. WindowInv => RestartsBounded
  BY DEF WindowInv
<1>4. QED
  BY <1>1, <1>2, <1>3, Typing, PTL DEF Spec

-------------------------------------------------------------------------------
(***************************************************************************)
(* Serial use                                                              *)
(***************************************************************************)
\* Start may create a child when no monitor has anything left to do.
LEMMA SpawnKeepsSerialInv ==
    ASSUME TypeOK, SerialInv, StartBody, UNCHANGED <<waiter, panicked>>,
           NEW c \in Callers, \A d \in Callers : d = c,
           pc[c] \in {"idle", "starting"}, pc' = [pc EXCEPT ![c] = "idle"],
           state # "failed"
    PROVE  SerialInv'
<1>1. CASE UNCHANGED <<supVars, osVars, monVars>>
  BY <1>1 DEF TypeOK, SerialInv, MonitorInv, StateInv, CallerInv, Unfinished, NoPanic,
              Watching, supVars, osVars, monVars
<1>2. CASE SpawnFails
  BY <1>2 DEF SpawnFails, AlreadyStarted, TypeOK, SerialInv, MonitorInv, StateInv,
              CallerInv, Unfinished, NoPanic, Watching, supVars, osVars, monVars
<1>3. ASSUME NEW p \in Procs, Spawn(p)
      PROVE  SerialInv'
  <2>1. state = "stopped"
    BY <1>3 DEF Spawn, AlreadyStarted, TypeOK, SerialInv, CallerInv
  <2>2. \A m \in Procs : mon[m] \notin Watching
    BY <2>1 DEF SerialInv, StateInv
  <2>3. mon[p] = "none" /\ mon'[p] = "ready" /\ proc'[p] = "alive"
    BY <1>3 DEF Spawn, SerialInv, MonitorInv, TypeOK
  <2>4. \A m \in Procs : MonitorInv(m)'
    BY <1>3, <2>2, <2>3 DEF Spawn, SerialInv, MonitorInv, TypeOK, Watching
  <2>5. StateInv'
    BY <1>3, <2>3 DEF Spawn, StateInv, Watching
  <2>6. CallerInv(c)'
    BY <1>3 DEF Spawn, SerialInv, CallerInv, TypeOK
  <2>7. QED
    BY <2>4, <2>5, <2>6 DEF SerialInv, NoPanic
<1>4. QED
  BY <1>1, <1>2, <1>3 DEF StartBody

\* The inductive step.  A restart's Cleanup finds no monitor with anything left
\* to do, because its waiter saw the counter at zero and only this caller starts.
LEMMA SerialStep ==
    ASSUME SerialUse, TypeOK, SerialInv, [Next]_vars
    PROVE  SerialInv'
<1> USE DEF SerialUse
<1>1. ASSUME NEW c \in Callers, CallStart(c)
      PROVE  SerialInv'
  <2>1. pc' = [pc EXCEPT ![c] = "idle"] /\ pc[c] = "idle"
    BY <1>1 DEF CallStart, At, TypeOK, callVars
  <2>2. state # "failed" /\ StartBody /\ UNCHANGED <<waiter, panicked>>
    BY <1>1 DEF CallStart, callVars
  <2>3. \A d \in Callers : d = c
    OBVIOUS
  <2>4. QED
    BY <2>1, <2>2, <2>3, SpawnKeepsSerialInv
<1>2. ASSUME NEW c \in Callers, RestartStarts(c)
      PROVE  SerialInv'
  <2>1. state = "stopped"
    BY <1>2 DEF RestartStarts, At, SerialInv, CallerInv
  <2>2. QED
    BY <1>2, <2>1, SpawnKeepsSerialInv DEF RestartStarts, At
<1>3. ASSUME NEW c \in Callers, CallStop(c)
      PROVE  SerialInv'
  BY <1>3 DEF CallStop, BeginWait, At, TypeOK, SerialInv, MonitorInv, StateInv, CallerInv,
              Unfinished, NoPanic, Watching, supVars, osVars, monVars
<1>4. ASSUME NEW c \in Callers, CallReset(c)
      PROVE  SerialInv'
  BY <1>4 DEF CallReset, TypeOK, SerialInv, MonitorInv, StateInv, CallerInv,
              Unfinished, NoPanic, Watching, supVars, osVars, monVars, callVars
<1>5. ASSUME NEW c \in Callers, RestartRefused(c)
      PROVE  SerialInv'
  BY <1>5 DEF RestartRefused, CountAttempt, At, TypeOK, SerialInv, MonitorInv, StateInv,
              CallerInv, Unfinished, NoPanic, Watching, osVars, monVars, callVars
<1>6. ASSUME NEW c \in Callers, RestartStops(c)
      PROVE  SerialInv'
  BY <1>6 DEF RestartStops, BeginWait, CountAttempt, At, TypeOK, SerialInv, MonitorInv,
              StateInv, CallerInv, Unfinished, NoPanic, Watching, osVars, monVars
<1>7. ASSUME NEW c \in Callers, RestartFindsNothing(c)
      PROVE  SerialInv'
  BY <1>7 DEF RestartFindsNothing, CountAttempt, At, TypeOK, SerialInv, MonitorInv,
              StateInv, CallerInv, Unfinished, NoPanic, Watching, osVars, monVars
<1>8. ASSUME NEW c \in Callers, Cleanup(c)
      PROVE  SerialInv'
  <2>1. Unfinished = {} \/ process = NoProc
    BY <1>8 DEF Cleanup, MonitorIsGone, SerialInv, CallerInv
  <2>2. \A m \in Procs : mon[m] \notin Watching
    BY <2>1 DEF Unfinished, Watching, SerialInv, MonitorInv
  <2>3. \A m \in cancelled' : mon[m] = "done"
    BY <1>8, <2>1 DEF Cleanup, cleanupAfterStop, cleanup, Unfinished, TypeOK, ProcOrNil,
                      SerialInv, MonitorInv, StateInv
  <2>4. \A m \in Procs : MonitorInv(m)'
    BY <1>8, <2>2, <2>3 DEF Cleanup, cleanupAfterStop, cleanup, SerialInv, MonitorInv, osVars
  <2>5. StateInv'
    BY <1>8, <2>2 DEF Cleanup, cleanupAfterStop, cleanup, StateInv
  <2>6. CallerInv(c)'
    <3>1. waiter[c] \in {"none", "closed"}
      BY <1>8 DEF Cleanup, MonitorIsGone, SerialInv, CallerInv
    <3>2. QED
      BY <1>8, <3>1 DEF Cleanup, cleanupAfterStop, cleanup, CallerInv, TypeOK
  <2>7. QED
    BY <1>8, <2>4, <2>5, <2>6 DEF SerialInv, NoPanic, Cleanup
<1>9. ASSUME NEW c \in Callers, WaitTimesOut(c) \/ WaiterChecks(c)
      PROVE  SerialInv'
  BY <1>9 DEF WaitTimesOut, WaiterChecks, At, WaiterAt, TypeOK, SerialInv, MonitorInv,
              StateInv, CallerInv, Unfinished, NoPanic, Watching, supVars, osVars, monVars
<1>10. ASSUME NEW c \in Callers, WaiterWakes(c)
       PROVE  SerialInv'
  BY <1>10 DEF WaiterWakes, WaiterAt, TypeOK, SerialInv, MonitorInv,
               StateInv, CallerInv, Unfinished, NoPanic, Watching, supVars, osVars, monVars
<1>11. ASSUME NEW m \in Procs, MonitorReads(m)
       PROVE  SerialInv'
  BY <1>11 DEF MonitorReads, MonAt, TypeOK, SerialInv, MonitorInv, StateInv, CallerInv,
               Unfinished, NoPanic, Watching, supVars, osVars, callVars
<1>12. ASSUME NEW m \in Procs, MonitorReaps(m)
       PROVE  SerialInv'
  BY <1>12 DEF MonitorReaps, MonAt, TypeOK, SerialInv, MonitorInv, StateInv, CallerInv,
               Unfinished, NoPanic, Watching, supVars, callVars
<1>13. ASSUME NEW m \in Procs, MonitorReports(m)
       PROVE  SerialInv'
  BY <1>13 DEF MonitorReports, MonAt, TypeOK, SerialInv, MonitorInv, StateInv, CallerInv,
               Unfinished, NoPanic, Watching, osVars, callVars
<1>14. ASSUME NEW m \in Procs, MonitorExits(m)
       PROVE  SerialInv'
  <2>1. Unfinished' = Unfinished \ {m}
    BY <1>14 DEF MonitorExits, MonAt, Unfinished, TypeOK
  <2>2. QED
    BY <1>14, <2>1 DEF MonitorExits, MonAt, TypeOK, SerialInv, MonitorInv, StateInv, CallerInv,
               NoPanic, Watching, supVars, osVars
<1>15. ASSUME NEW p \in Procs, Exit(p)
       PROVE  SerialInv'
  BY <1>15 DEF Exit, Alive, TypeOK, SerialInv, MonitorInv, StateInv, CallerInv,
               Unfinished, NoPanic, Watching, supVars, monVars, callVars
<1>16. CASE Tick \/ UNCHANGED vars
  BY <1>16 DEF Tick, vars, SerialInv, MonitorInv, StateInv, CallerInv,
               Unfinished, NoPanic, Watching, supVars, osVars, monVars, callVars
<1>17. QED
  BY <1>1, <1>2, <1>3, <1>4, <1>5, <1>6, <1>7, <1>8, <1>9, <1>10, <1>11, <1>12, <1>13,
     <1>14, <1>15, <1>16 DEF Next, CallerStep, MonitorStep, Rest

\* Nobody has called.
LEMMA SerialInvAtInit == Init => SerialInv
BY DEF Init, SerialInv, MonitorInv, StateInv, CallerInv, Unfinished, NoPanic, Watching

\* In serial use the inductive invariant always holds.
THEOREM SerialInvariant == ASSUME SerialUse PROVE Spec => []SerialInv
<1>1. Init => SerialInv
  BY SerialInvAtInit
<1>2. TypeOK /\ SerialInv /\ [Next]_vars => SerialInv'
  BY SerialStep
<1>3. QED
  BY <1>1, <1>2, Typing, PTL DEF Spec

\* What the inductive invariant says to a caller.
LEMMA SerialInvIsSafe ==
    ASSUME TypeOK, SerialInv
    PROVE  /\ AtMostOneChild /\ StoppedMeansNoChild /\ EveryChildHasAReaper
           /\ RunningIsWatched /\ NoPanic
<1>1. ASSUME NEW p \in Procs, proc[p] \in {"alive", "zombie"}
      PROVE  mon[p] \in {"ready", "reaping"} /\ process = p
  BY <1>1 DEF TypeOK, SerialInv, MonitorInv, Watching
<1>2. AtMostOneChild
  BY <1>1 DEF AtMostOneChild, Live, Alive
<1>3. StoppedMeansNoChild
  BY <1>1 DEF StoppedMeansNoChild, Live, Alive, SerialInv, StateInv, Watching
<1>4. EveryChildHasAReaper
  BY <1>1 DEF EveryChildHasAReaper, SerialInv, MonitorInv
<1>5. RunningIsWatched
  BY DEF RunningIsWatched, TypeOK, ProcOrNil, SerialInv, MonitorInv, StateInv, Watching
<1>6. QED
  BY <1>2, <1>3, <1>4, <1>5 DEF SerialInv

\* Serial use, with any number of children, restarts and crashes: no second
\* child, no stop reported of a live child, a reaper for every child, a report
\* to come for every death, and no panic (process.go:48-350).
THEOREM SerialUseIsSafe ==
    ASSUME SerialUse
    PROVE  Spec => [](/\ AtMostOneChild /\ StoppedMeansNoChild /\ EveryChildHasAReaper
                      /\ RunningIsWatched /\ NoPanic)
BY SerialInvIsSafe, SerialInvariant, Typing, PTL

\* In serial use every step of the supervisor is a step of ChildLifecycle on the
\* live children and the reported state, or leaves both alone.
THEOREM SerialUseImplementsLifecycle ==
    ASSUME SerialUse PROVE Spec => ImplementsLifecycle
<1>1. Init => Abstract!Init
  BY DEF Init, Abstract!Init, Live, Alive
<1>2. TypeOK /\ SerialInv /\ [Next]_vars => [Abstract!Next]_<<Live, state>>
  <2> SUFFICES ASSUME TypeOK, SerialInv, [Next]_vars
               PROVE  [Abstract!Next]_<<Live, state>>
    OBVIOUS
  <2> USE DEF SerialUse, Abstract!Next
  <2>1. ASSUME NEW p \in Live
        PROVE  /\ Live = {p} /\ p \in Procs
               /\ state # "stopped"
    BY DEF Live, Alive, TypeOK, SerialInv, MonitorInv, StateInv, Watching
  <2>2. ASSUME UNCHANGED <<proc, state>>
        PROVE  UNCHANGED <<Live, state>>
    BY <2>2 DEF Live, Alive
  <2>3. ASSUME StartBody, state \in {"stopped", "running"}
        PROVE  [Abstract!Next]_<<Live, state>>
    <3>1. CASE UNCHANGED <<supVars, osVars, monVars>>
      BY <2>2, <3>1 DEF supVars, osVars
    <3>2. CASE SpawnFails
      BY <2>3, <3>2 DEF SpawnFails, osVars, Live, Alive, Abstract!GiveUp
    <3>3. ASSUME NEW p \in Procs, Spawn(p)
          PROVE  [Abstract!Next]_<<Live, state>>
      <4>1. state = "stopped" /\ Live = {}
        BY <2>1, <2>3, <3>3 DEF Spawn, AlreadyStarted
      <4>2. Live' = {p} /\ state' = "running"
        BY <3>3, <4>1 DEF Spawn, Live, Alive, TypeOK
      <4>3. QED
        BY <4>1, <4>2 DEF Abstract!Spawn
    <3>4. QED
      BY <2>3, <3>1, <3>2, <3>3 DEF StartBody
  <2>4. ASSUME NEW c \in Callers, CallerStep(c)
        PROVE  [Abstract!Next]_<<Live, state>>
    <3>1. CASE CallStart(c)
      <4>1. state \in {"stopped", "running"}
        BY <3>1 DEF CallStart, At, TypeOK, SerialInv, CallerInv
      <4>2. QED
        BY <2>3, <3>1, <4>1 DEF CallStart
    <3>2. CASE RestartStarts(c)
      BY <2>3, <3>2 DEF RestartStarts, At, SerialInv, CallerInv
    <3>3. CASE RestartRefused(c)
      <4>1. state # "restarting"
        BY <3>3 DEF RestartRefused, CountAttempt, At, SerialInv, CallerInv
      <4>2. QED
        BY <3>3, <4>1 DEF RestartRefused, osVars, Live, Alive, Abstract!GiveUp
    <3>4. CASE RestartStops(c)
      <4>1. state # "restarting"
        BY <3>4 DEF RestartStops, CountAttempt, At, SerialInv, CallerInv
      <4>2. QED
        BY <3>4, <4>1 DEF RestartStops, osVars, Live, Alive, TypeOK, Abstract!BeginRestart
    <3>5. CASE RestartFindsNothing(c)
      <4>1. Live = {}
        BY <3>5 DEF RestartFindsNothing, Live, Alive, TypeOK, SerialInv, MonitorInv, Watching
      <4>2. QED
        BY <3>5, <4>1 DEF RestartFindsNothing, osVars, Live, Alive, Abstract!Report
    <3>6. CASE Cleanup(c)
      <4>1. Live = {}
        BY <3>6 DEF Cleanup, MonitorIsGone, Live, Alive, TypeOK, SerialInv, MonitorInv,
                    CallerInv, Unfinished, Watching
      <4>2. QED
        BY <3>6, <4>1
        DEF Cleanup, cleanupAfterStop, cleanup, osVars, Live, Alive, Abstract!Report
    <3>7. CASE CallStop(c) \/ CallReset(c) \/ WaitTimesOut(c) \/ WaiterChecks(c) \/ WaiterWakes(c)
      BY <2>2, <3>7
      DEF CallStop, CallReset, WaitTimesOut, WaiterChecks, WaiterWakes, supVars, osVars
    <3>8. QED
      BY <2>4, <3>1, <3>2, <3>3, <3>4, <3>5, <3>6, <3>7 DEF CallerStep
  <2>5. ASSUME NEW m \in Procs, MonitorStep(m)
        PROVE  [Abstract!Next]_<<Live, state>>
    <3>1. CASE MonitorReads(m) \/ MonitorExits(m)
      BY <2>2, <3>1 DEF MonitorReads, MonitorExits, supVars, osVars
    <3>2. CASE MonitorReaps(m)
      <4>1. Live' = Live
        BY <3>2 DEF MonitorReaps, Live, Alive, TypeOK
      <4>2. QED
        BY <3>2, <4>1 DEF MonitorReaps, supVars
    <3>3. CASE MonitorReports(m)
      <4>1. Live = {} /\ Live' = Live
        BY <3>3 DEF MonitorReports, MonAt, osVars, Live, Alive, TypeOK, SerialInv, MonitorInv,
                    Watching
      <4>2. QED
        BY <2>2, <3>3, <4>1 DEF MonitorReports, osVars, Abstract!Report
    <3>4. QED
      BY <2>5, <3>1, <3>2, <3>3 DEF MonitorStep
  <2>6. ASSUME NEW p \in Procs, Exit(p)
        PROVE  [Abstract!Next]_<<Live, state>>
    <3>1. Live = {p} /\ Live' = {} /\ state' = state
      BY <2>1, <2>6 DEF Exit, Alive, Live, TypeOK, supVars
    <3>2. QED
      BY <3>1 DEF Abstract!Die
  <2>7. CASE Tick \/ UNCHANGED vars
    BY <2>2, <2>7 DEF Tick, vars, supVars, osVars
  <2>8. QED
    BY <2>4, <2>5, <2>6, <2>7 DEF Next, Rest
<1>3. QED
  BY <1>1, <1>2, SerialInvariant, Typing, PTL
  DEF Spec, ImplementsLifecycle, Abstract!Spec, Abstract!lifecycle
-------------------------------------------------------------------------------
(***************************************************************************)
(* The tools.  A tool takes no step that the supervisor's module does not  *)
(* have, so the theorems above hold under the tools.                       *)
(***************************************************************************)
USE ToolConstants DEF ToolConstants

\* A step of a tool or of anybody else is a step of the supervisor.
LEMMA ToolStepIsSupervisorStep ==
    ASSUME [ToolNext]_allToolVars
    PROVE  [Next]_vars
<1>1. ASSUME NEW t \in ToolUsers, ToolStep(t)
      PROVE  UNCHANGED vars \/ CallerStep(t)
    BY <1>1 DEF ToolStep, RestartTool, ForceTool, ResetsCounter, RestartFails, RestartBegins,
        RestartGoesOn, RestartReturns, PollAnswers, PollTimesOut, CallerStep
<1>2. ASSUME OtherStep \/ ToolRest
      PROVE  [Next]_vars
    BY <1>2 DEF OtherStep, ToolRest, Rest, Next
<1> QED
    BY <1>1, <1>2 DEF ToolNext, allToolVars, Next

\* The tools use the supervisor as any callers may: whatever holds of Supervisor
\* holds of it here (restart.go:10-78).
THEOREM ToolsUseTheSupervisor == ToolSpec => Spec
<1>1. ToolInit => Init
    BY DEF ToolInit
<1> QED
    BY <1>1, ToolStepIsSupervisorStep, PTL DEF ToolSpec, Spec

\* Crash-loop detection is as tight under tools that reset its counter as without
\* (restart.go:60, process.go:224-244).
THEOREM ToolsKeepRestartsBounded == ToolSpec => []RestartsBounded
<1> QED
    BY ToolsUseTheSupervisor, RestartsBoundedAlways, PTL

-------------------------------------------------------------------------------
(***************************************************************************)
(* SuccessIsFresh.  It is not inductive: that the child of a tool that     *)
(* polls is new must be known when Restart calls Start, which may find a   *)
(* child that somebody else has started since.                             *)
(***************************************************************************)
FreshInv ==
    \A t \in ToolUsers :
        /\ old[t] \subseteq {p \in Procs : proc[p] # "unborn"}
        /\ tool[t] = "polling" \/ pc[t] = "starting" => process \notin old[t]

\* No step but Spawn gives the supervisor a process, and that one is unborn before.
LEMMA ProcessIsNew ==
    ASSUME TypeOK, [Next]_vars
    PROVE  /\ process' # process => process' = NoProc \/ proc[process'] = "unborn"
           /\ \A p \in Procs : proc[p] # "unborn" => proc'[p] # "unborn"
<1> USE DEF TypeOK, ProcOrNil
<1> USE DEF supVars, osVars, monVars, callVars, timeVars
<1>b. ASSUME StartBody
      PROVE  /\ process' # process => proc[process'] = "unborn"
             /\ \A p \in Procs : proc[p] # "unborn" => proc'[p] # "unborn"
    BY <1>b DEF StartBody, Spawn, SpawnFails
<1>1. ASSUME NEW c \in Callers, CallStart(c) \/ RestartStarts(c)
      PROVE  /\ process' # process => proc[process'] = "unborn"
             /\ \A p \in Procs : proc[p] # "unborn" => proc'[p] # "unborn"
    BY <1>1, <1>b DEF CallStart, RestartStarts
<1>2. ASSUME NEW c \in Callers,
             \/ CallStop(c) \/ CallReset(c) \/ RestartRefused(c) \/ RestartStops(c)
             \/ RestartFindsNothing(c) \/ WaitTimesOut(c) \/ WaiterChecks(c) \/ WaiterWakes(c)
      PROVE  UNCHANGED <<process, proc>>
    BY <1>2 DEF CallStop, CallReset, RestartRefused, RestartStops, RestartFindsNothing,
        WaitTimesOut, WaiterChecks, WaiterWakes
<1>3. ASSUME NEW c \in Callers, Cleanup(c)
      PROVE  process' = NoProc /\ proc' = proc
    BY <1>3 DEF Cleanup, cleanupAfterStop, cleanup
<1>4. ASSUME NEW m \in Procs, MonitorStep(m)
      PROVE  /\ process' = process
             /\ \A p \in Procs : proc[p] # "unborn" => proc'[p] # "unborn"
    BY <1>4 DEF MonitorStep, MonitorReads, MonitorReaps, MonitorReports, MonitorExits
<1>5. ASSUME (\E p \in Procs : Exit(p)) \/ Tick \/ Rest \/ UNCHANGED vars
      PROVE  /\ process' = process
             /\ \A p \in Procs : proc[p] # "unborn" => proc'[p] # "unborn"
    BY <1>5 DEF Exit, Tick, Rest, vars
<1> QED
    BY <1>1, <1>2, <1>3, <1>4, <1>5 DEF Next, CallerStep

\* The goroutine of another caller stays where it is.
LEMMA OnlyOwnCall ==
    ASSUME TypeOK, NEW c \in Callers, CallerStep(c), NEW d \in Callers, d # c
    PROVE  pc'[d] = pc[d]
BY DEF TypeOK, CallerStep, CallStart, CallStop, CallReset, RestartRefused, RestartStops,
    RestartFindsNothing, RestartStarts, Cleanup, WaitTimesOut, WaiterChecks, WaiterWakes,
    BeginWait, callVars

\* The steps of others leave a tool where it is.
LEMMA OthersKeepOut ==
    ASSUME ToolTypeOK, NEW t \in ToolUsers,
           \/ \E d \in ToolUsers : d # t /\ ToolStep(d)
           \/ OtherStep \/ ToolRest \/ UNCHANGED allToolVars
    PROVE  old'[t] = old[t] /\ tool'[t] = tool[t] /\ pc'[t] = pc[t]
<1>0. TypeOK
    BY DEF ToolTypeOK
<1>1. ASSUME NEW d \in ToolUsers, d # t, ToolStep(d)
      PROVE  old'[t] = old[t] /\ tool'[t] = tool[t] /\ pc'[t] = pc[t]
  <2>1. old'[t] = old[t] /\ tool'[t] = tool[t]
    BY <1>1 DEF ToolStep, RestartTool, ForceTool, ToolBegins, RestartsFirst, RestartFails,
        RestartBegins, WaitsForRestart, RestartGoesOn, RestartReturns, PollAnswers,
        PollTimesOut, Becomes, toolVars, ToolTypeOK
  <2>2. CallerStep(d) \/ UNCHANGED vars
    BY <1>1 DEF ToolStep, RestartTool, ForceTool, ResetsCounter, RestartFails, RestartBegins,
        RestartGoesOn, RestartReturns, PollAnswers, PollTimesOut, CallerStep
  <2> QED
    BY <1>1, <2>1, <2>2, <1>0, OnlyOwnCall DEF vars, callVars
<1>2. ASSUME OtherStep \/ ToolRest \/ UNCHANGED allToolVars
      PROVE  UNCHANGED toolVars /\ pc'[t] = pc[t]
  <2>1. ASSUME NEW c \in Callers \ ToolUsers, CallerStep(c)
        PROVE  pc'[t] = pc[t]
    BY <2>1, <1>0, OnlyOwnCall
  <2>2. ASSUME \/ \E m \in Procs : MonitorStep(m) \/ Exit(m)
               \/ Tick \/ Rest \/ UNCHANGED vars
        PROVE  pc' = pc
    BY <2>2 DEF MonitorStep, MonitorReads, MonitorReaps, MonitorReports, MonitorExits, Exit, Tick,
        Rest, vars, callVars
  <2> QED
    BY <1>2, <2>1, <2>2 DEF OtherStep, ToolRest, allToolVars
<1> QED
    BY <1>1, <1>2 DEF toolVars

\* Where a tool polls or Restart starts, the child stays one that the call of the tool did not find.
LEMMA FreshStep ==
    ASSUME TypeOK, ToolTypeOK, FreshInv, [ToolNext]_allToolVars
    PROVE  FreshInv'
<1>n. /\ process' # process => process' = NoProc \/ proc[process'] = "unborn"
      /\ \A p \in Procs : proc[p] # "unborn" => proc'[p] # "unborn"
    BY ToolStepIsSupervisorStep, ProcessIsNew
<1>s. ASSUME NEW t \in ToolUsers, process \notin old[t]
      PROVE  process' \notin old[t]
    BY <1>n, <1>s, ConstantsOK DEF FreshInv
<1> SUFFICES ASSUME NEW t \in ToolUsers
             PROVE  /\ old'[t] \subseteq {p \in Procs : proc'[p] # "unborn"}
                    /\ tool'[t] = "polling" \/ pc'[t] = "starting" => process' \notin old'[t]
    BY DEF FreshInv
<1>1. CASE RestartTool(t) \/ ForceTool(t)
  <2>1. /\ tool'[t] # "polling" /\ pc'[t] = "idle" /\ proc' = proc
        /\ old'[t] = {p \in Procs : proc[p] # "unborn"}
    BY <1>1 DEF RestartTool, ForceTool, ToolBegins, RestartsFirst, Becomes, ResetsCounter,
        CallReset, ToolTypeOK, TypeOK, InTool, At, callVars, osVars, vars
  <2> QED
    BY <2>1
<1>2. CASE RestartReturns(t)
  <2>1. pc[t] = "starting" /\ UNCHANGED old /\ pc'[t] = "idle"
    BY <1>2 DEF RestartReturns, RestartStarts, At, TypeOK
  <2> QED
    BY <2>1, <1>n, <1>s DEF FreshInv
<1>3. ASSUME ~RestartTool(t), ~ForceTool(t), ~RestartReturns(t), ToolStep(t)
      PROVE  /\ UNCHANGED old
             /\ tool'[t] = "polling" => tool[t] = "polling"
             /\ pc'[t] = "starting" => pc[t] = "starting" \/ process' = NoProc
  <2>1. CASE RestartFails(t) \/ PollAnswers(t) \/ PollTimesOut(t)
    BY <2>1 DEF RestartFails, PollAnswers, PollTimesOut, Becomes, RestartRefused, ToolTypeOK, vars,
        callVars
  <2>2. CASE RestartBegins(t)
    BY <2>2 DEF RestartBegins, WaitsForRestart, toolVars, Calling, InTool, RestartStops,
        RestartFindsNothing, BeginWait, ToolTypeOK, TypeOK
  <2>3. CASE RestartGoesOn(t)
    <3>2. UNCHANGED toolVars
      BY <2>3 DEF RestartGoesOn
    <3>3. ASSUME Cleanup(t)
          PROVE  process' = NoProc
      BY <3>3 DEF Cleanup, cleanupAfterStop, cleanup
    <3>4. ASSUME WaitTimesOut(t) \/ WaiterChecks(t) \/ WaiterWakes(t)
          PROVE  pc'[t] = "starting" => pc[t] = "starting"
      BY <3>4 DEF WaitTimesOut, WaiterChecks, WaiterWakes, TypeOK
    <3> QED
      BY <2>3, <3>2, <3>3, <3>4 DEF RestartGoesOn, toolVars
  <2> QED
    BY <1>3, <2>1, <2>2, <2>3 DEF ToolStep
<1>4. ASSUME (\E d \in ToolUsers : d # t /\ ToolStep(d)) \/ OtherStep \/ ToolRest \/ UNCHANGED allToolVars
      PROVE  old'[t] = old[t] /\ tool'[t] = tool[t] /\ pc'[t] = pc[t]
    BY <1>4, OthersKeepOut
<1> QED
  <2>1. CASE ToolStep(t)
    BY <1>1, <1>2, <1>3, <1>n, <1>s, <2>1, ConstantsOK DEF FreshInv
  <2>2. CASE (\E d \in ToolUsers : d # t /\ ToolStep(d)) \/ OtherStep \/ ToolRest \/ UNCHANGED allToolVars
    BY <1>4, <1>n, <1>s, <2>2 DEF FreshInv
  <2> QED
    BY <2>1, <2>2 DEF ToolNext

\* One step keeps the types of the tools.
LEMMA ToolTypingStep ==
    ASSUME ToolTypeOK, [ToolNext]_allToolVars
    PROVE  ToolTypeOK'
<1>1. TypeOK'
    BY ToolStepIsSupervisorStep, TypingStep DEF ToolTypeOK
<1>2. /\ tool' \in [ToolUsers -> {"none", "restart", "force", "polling"}]
      /\ old' \in [ToolUsers -> SUBSET Procs]
    BY DEF ToolTypeOK, ToolNext, ToolStep, RestartTool, ForceTool, ToolBegins, RestartsFirst,
        Becomes, RestartFails, RestartBegins, WaitsForRestart, RestartGoesOn, RestartReturns,
        PollAnswers, PollTimesOut, OtherStep, ToolRest, toolVars, allToolVars
<1>3. ASSUME NEW t \in ToolUsers, pc'[t] # "idle"
      PROVE  tool'[t] \in {"restart", "force"}
  <2>1. CASE ToolStep(t)
    <3>1. CASE \/ RestartTool(t) \/ ForceTool(t) \/ RestartFails(t) \/ RestartReturns(t)
      BY <1>3, <3>1 DEF RestartTool, ForceTool, ToolBegins, RestartsFirst, ResetsCounter, Becomes,
          InTool, CallReset, At, RestartFails, RestartRefused, CountAttempt, Calling, RestartReturns, RestartStarts,
          ToolTypeOK, TypeOK, vars, callVars
    <3>2. CASE PollAnswers(t) \/ PollTimesOut(t)
      BY <1>3, <3>2 DEF PollAnswers, PollTimesOut, InTool, ToolTypeOK, vars, callVars
    <3>3. CASE RestartBegins(t)
      BY <3>3 DEF RestartBegins, Calling, InTool, WaitsForRestart, toolVars
    <3>4. CASE RestartGoesOn(t)
      BY <1>3, <3>4 DEF RestartGoesOn, Cleanup, MonitorIsGone, WaitTimesOut, WaiterChecks, WaiterWakes, At,
          WaiterAt, ToolTypeOK, TypeOK, toolVars
    <3> QED
      BY <2>1, <3>1, <3>2, <3>3, <3>4 DEF ToolStep
  <2>2. CASE (\E d \in ToolUsers : d # t /\ ToolStep(d)) \/ OtherStep \/ ToolRest \/ UNCHANGED allToolVars
    BY <1>3, <2>2, OthersKeepOut DEF ToolTypeOK
  <2> QED
    BY <2>1, <2>2 DEF ToolNext
<1> QED
    BY <1>1, <1>2, <1>3 DEF ToolTypeOK

\* The supervisor's types, and who is inside Restart (restart.go:30, 62).
THEOREM ToolTyping == ToolSpec => []ToolTypeOK
<1>1. ToolInit => ToolTypeOK
    BY InitTypes DEF ToolInit, ToolTypeOK, Init
<1> QED
    BY <1>1, ToolTypingStep, PTL DEF ToolSpec

\* The RUNNING that a tool reports is that of a child started after it was called,
\* whoever else restarts or stops the server meanwhile (restart.go:30-45, 62-77).
THEOREM SuccessIsAlwaysFresh == ToolSpec => []SuccessIsFresh
<1>1. ToolInit => FreshInv
    BY DEF ToolInit, Init, FreshInv
<1>2. ToolTypeOK /\ FreshInv /\ [ToolNext]_allToolVars => FreshInv'
    BY FreshStep DEF ToolTypeOK
<1>3. FreshInv => SuccessIsFresh
    BY DEF FreshInv, SuccessIsFresh
<1> QED
    BY <1>1, <1>2, <1>3, ToolTyping, PTL DEF ToolSpec
-------------------------------------------------------------------------------
(***************************************************************************)
(* ForceGetsThrough.  The counter is empty as long as nobody has been let  *)
(* through since the last reset: by a reset, and because a first Restart   *)
(* is never refused, one that is refused would find the counter empty.     *)
(***************************************************************************)
QuietInv == MaxRestarts > 0 /\ granted = {} => restartTimes = {}

\* With an empty counter, a Restart is the only one in its window.
LEMMA FirstIsLetThrough ==
    ASSUME TypeOK, restartTimes = {}, MaxRestarts > 0
    PROVE  ~TooMany(ValidRestarts)
<1>1. ValidRestarts \subseteq {ThisAttempt}
    BY DEF ValidRestarts
<1>2. IsFiniteSet({ThisAttempt}) /\ Cardinality({ThisAttempt}) = 1
    BY FS_Singleton
<1>3. Cardinality(ValidRestarts) <= 1 /\ Cardinality(ValidRestarts) \in Nat
    BY <1>1, <1>2, FS_Subset, FS_CardinalityType
<1> QED
    BY <1>3 DEF TooMany

\* A time is recorded only with a restart that is granted.
LEMMA QuietStep ==
    ASSUME TypeOK, QuietInv, [Next]_vars
    PROVE  QuietInv'
<1>1. CASE UNCHANGED <<restartTimes, granted>>
    BY <1>1 DEF QuietInv
<1>2. ASSUME NEW c \in Callers, CallReset(c)
      PROVE  QuietInv'
    BY <1>2 DEF CallReset, QuietInv
<1>3. ASSUME NEW c \in Callers, RestartRefused(c)
      PROVE  QuietInv'
    BY <1>3, FirstIsLetThrough DEF RestartRefused, QuietInv
<1>4. ASSUME NEW c \in Callers, RestartStops(c) \/ RestartFindsNothing(c)
      PROVE  QuietInv'
    BY <1>4 DEF RestartStops, RestartFindsNothing, QuietInv
<1> QED
    BY <1>1, <1>2, <1>3, <1>4 DEF Next, CallerStep, MonitorStep, CallStart, CallStop, RestartStarts,
        Cleanup, WaitTimesOut, WaiterChecks, WaiterWakes, MonitorReads, MonitorReaps,
        MonitorReports, MonitorExits, Exit, Tick, Rest, timeVars, vars

\* After its reset, hydra_force_restart is not refused as a crash loop as long as nobody
\* else was let through in between (restart.go:60-67).
THEOREM ForceAlwaysGetsThrough == ToolSpec => []ForceGetsThrough
<1>1. Init => QuietInv
    BY DEF Init, QuietInv
<1>2. TypeOK /\ QuietInv /\ [Next]_vars => QuietInv'
    BY QuietStep
<1>3. TypeOK /\ QuietInv => ForceGetsThrough
    BY FirstIsLetThrough DEF QuietInv, ForceGetsThrough
<1> QED
    BY <1>1, <1>2, <1>3, Typing, ToolsUseTheSupervisor, PTL DEF Spec

-------------------------------------------------------------------------------
(***************************************************************************)
(* `hydra run`: the watcher's goroutine alone is a serial use, and main's  *)
(* Starts are Starts that wait for nothing.                                *)
(***************************************************************************)
\* Main's two calls change what a Start changes, and nothing else.
LEMMA MainStartsOnly ==
    ASSUME HydraTypeOK, Boot \/ ProxyRun
    PROVE  StartBody /\ UNCHANGED <<callVars, timeVars, panicked>>
BY DEF Boot, ProxyRun, MainStarts

\* Every step of the program is a step of the supervisor, or a Start of main's.
LEMMA HydraStepIsSupervisorStep ==
    ASSUME [HydraNext]_allVars
    PROVE  [Next]_vars \/ Boot \/ ProxyRun
BY DEF HydraNext, MainStep, Wire, LoopFails, LoopEnds, WatcherStep, ReaperStep, WorldStep, Over,
       allVars, Next

\* Every variable keeps its type under the whole program.
THEOREM HydraTyping == HydraSpec => []HydraTypeOK
<1>1. HydraInit => HydraTypeOK
  BY InitTypes DEF HydraInit, HydraTypeOK, ProcOrNil
<1>2. HydraTypeOK /\ [HydraNext]_allVars => HydraTypeOK'
  <2> SUFFICES ASSUME HydraTypeOK, [HydraNext]_allVars
               PROVE  HydraTypeOK'
    OBVIOUS
  <2>1. TypeOK'
    <3>1. ASSUME Boot \/ ProxyRun
          PROVE  TypeOK'
      BY <3>1, MainStartsOnly, StartBodyType DEF HydraTypeOK, TypeOK, callVars, timeVars
    <3>2. QED
      BY <3>1, TypingStep, HydraStepIsSupervisorStep DEF HydraTypeOK
  <2>2. runPc' \in {"boot", "wiring", "starting", "looping", "exited"} /\ conn' \in ProcOrNil
    BY DEF HydraTypeOK, TypeOK, HydraNext, MainStep, Boot, MainStarts, Wire, ProxyRun, LoopFails,
           LoopEnds, WatcherStep, ReaperStep, WorldStep, Over, hydraVars, allVars
  <2>3. clean' \in BOOLEAN
    <3>1. clean' = clean \/ clean' = (NoRestartInFlight /\ state # "failed")
      BY Zenon DEF HydraNext, MainStep, Boot, Wire, ProxyRun, LoopFails, LoopEnds,
                   WatcherStep, ReaperStep, WorldStep, Over, hydraVars, allVars
    <3>2. QED
      BY Zenon, <3>1 DEF HydraTypeOK
  <2>4. QED
    BY <2>1, <2>2, <2>3 DEF HydraTypeOK
<1>3. QED
  BY <1>1, <1>2, PTL DEF HydraSpec

-------------------------------------------------------------------------------
(***************************************************************************)
(* The inductive invariant: until proxy.Run has called Start, and after it *)
(* if no Restart was in flight then, the supervisor is in a state that     *)
(* serial use can reach.                                                   *)
(***************************************************************************)
BeforeTheLoop == runPc \in {"boot", "wiring", "starting"}

HydraInv ==
    /\ clean => SerialInv
    /\ BeforeTheLoop => clean
    /\ runPc = "boot" => NoRestartInFlight /\ state = "stopped"

\* A Start of main's that finds no Restart in flight and no failure is a Start of
\* serial use.
LEMMA MainStartIsSerial ==
    ASSUME HydraUse, HydraTypeOK, SerialInv, Boot \/ ProxyRun, NoRestartInFlight, state # "failed"
    PROVE  SerialInv'
<1>1. StartBody /\ UNCHANGED <<callVars, timeVars, panicked>>
  BY MainStartsOnly
<1>2. Watch \in Callers /\ \A d \in Callers : d = Watch
  BY DEF HydraUse
<1>3. pc[Watch] = "idle" /\ pc' = [pc EXCEPT ![Watch] = "idle"] /\ UNCHANGED <<waiter, panicked>>
  BY <1>1, <1>2 DEF NoRestartInFlight, callVars, HydraTypeOK, TypeOK
<1>4. QED
  BY <1>1, <1>2, <1>3, SpawnKeepsSerialInv DEF HydraTypeOK

\* After a clean start, a step of main, of the watcher or of a monitor is one of serial use.
LEMMA HydraInvStep ==
    ASSUME HydraUse, HydraTypeOK, HydraInv, [HydraNext]_allVars
    PROVE  HydraInv'
<1> USE DEF HydraInv, BeforeTheLoop
<1>1. CASE Boot
  <2>1. SerialInv'
    BY <1>1, MainStartIsSerial DEF Boot, MainAt
  <2>2. QED
    BY <1>1, <2>1 DEF Boot, MainAt, MainStarts
<1>2. CASE ProxyRun
  <2>1. clean' => SerialInv'
    BY <1>2, MainStartIsSerial DEF ProxyRun, MainAt
  <2>2. QED
    BY <1>2, <2>1 DEF ProxyRun, MainAt, MainStarts
<1>3. CASE [Next]_vars /\ ~Boot /\ ~ProxyRun
  <2>1. clean' = clean /\ (runPc' = "boot" => runPc = "boot") /\ (BeforeTheLoop' => BeforeTheLoop)
    BY <1>3 DEF HydraNext, MainStep, Wire, LoopFails, LoopEnds, WatcherStep, ReaperStep,
                WorldStep, Over, MainAt, hydraVars, allVars
  <2>2. SerialInv => SerialInv'
    <3>1. SerialUse
      BY DEF SerialUse, HydraUse
    <3>2. QED
      BY <1>3, <3>1, SerialStep DEF HydraTypeOK
  <2>3. ASSUME runPc' = "boot"
        PROVE  (NoRestartInFlight /\ state = "stopped")'
    <3>1. runPc = "boot" /\ ~WatcherStep
      BY <2>1, <2>3 DEF WatcherStep, WatcherRuns
    <3>2. ReaperStep \/ WorldStep \/ UNCHANGED vars
      BY <1>3, <3>1, <2>3 DEF HydraNext, MainStep, Wire, LoopFails, LoopEnds, MainAt, Over, allVars
    <3>3. CASE ReaperStep
      BY <3>1, <3>3 DEF ReaperStep, MonitorStep, MonitorReads, MonitorReaps, MonitorReports,
                        MonitorExits, NoRestartInFlight, supVars, callVars
    <3>4. CASE WorldStep
      BY <3>1, <3>4 DEF WorldStep, Tick, Exit, NoRestartInFlight, supVars, callVars
    <3>5. CASE UNCHANGED vars
      BY <3>1, <3>5 DEF NoRestartInFlight, vars, supVars, callVars
    <3>6. QED
      BY <3>2, <3>3, <3>4, <3>5
  <2>4. QED
    BY <2>1, <2>2, <2>3
<1>4. QED
  BY <1>1, <1>2, <1>3, HydraStepIsSupervisorStep

\* Whatever the number of children, restarts and crashes: main's two Starts and
\* the watcher's Restarts never leave a second child, a child without a reaper or
\* a panic, if proxy.Run's Start met no Restart in flight (run.go:118, 250 and
\* proxy.go:71).
THEOREM CleanStartIsAlwaysSafe ==
    ASSUME HydraUse
    PROVE  HydraSpec => []CleanStartIsSafe
<1>1. HydraInit => HydraInv
  BY SerialInvAtInit DEF HydraInit, HydraInv, BeforeTheLoop, Init, NoRestartInFlight
<1>2. HydraTypeOK /\ HydraInv /\ [HydraNext]_allVars => HydraInv'
  BY HydraInvStep
<1>3. HydraTypeOK /\ HydraInv => CleanStartIsSafe
  BY SerialInvIsSafe DEF HydraInv, CleanStartIsSafe, HydraTypeOK
<1>4. QED
  BY <1>1, <1>2, <1>3, HydraTyping, PTL DEF HydraSpec
===============================================================================
