------------------------------ MODULE ToolCalls ------------------------------
(***************************************************************************)
(* The tools hydra_restart and hydra_force_restart                         *)
(* (src/internal/injectable/restart.go) over the supervisor.               *)
(*                                                                         *)
(* A goroutine that handles a tool looks at the supervisor's state or      *)
(* resets its counter, calls Restart, and polls the state every 100 ms for *)
(* at most ten seconds.  Each of these takes the supervisor's lock of its  *)
(* own: in between the other callers, the watcher's goroutine say, call    *)
(* what they may, and children die.                                        *)
(***************************************************************************)
EXTENDS Supervisor

CONSTANT ToolUsers      \* the callers that use the supervisor through the tools

ASSUME ToolConstants ==
    /\ ToolUsers \subseteq Callers
    /\ \A t \in ToolUsers : MayCall[t] = {"Restart", "Reset"}

VARIABLES
    tool,           \* the tool each goroutine is in, "polling" after its Restart
    old             \* history: the children there were when the tool was called

toolVars == <<tool, old>>
allToolVars == <<vars, toolVars>>

ToolInit ==
    /\ Init
    /\ tool = [t \in ToolUsers |-> "none"]
    /\ old = [t \in ToolUsers |-> {}]

InTool(t, l) == ~panicked /\ tool[t] = l
Becomes(t, l) == tool' = [tool EXCEPT ![t] = l]

\* Mutated form: Restart runs beside the polling.
PollsAtOnce(t, name) == Becomes(t, "polling")

RestartsFirst(t, name) == Becomes(t, name)

ToolBegins(t, name) ==
    /\ InTool(t, "none")
    /\ attempts < MaxAttempts
    /\ RestartsFirst(t, name)
    /\ old' = [old EXCEPT ![t] = {p \in Procs : proc[p] # "unborn"}]

\* In StateFailed hydra_restart answers with an error and changes nothing.
RestartTool(t) ==
    /\ state # "failed"
    /\ ToolBegins(t, "restart")
    /\ UNCHANGED vars

\* Mutated form: the counter is not reset.
ResetsNothing(t) == At(t, "idle") /\ granted' = {} /\
    UNCHANGED <<supVars, osVars, monVars, callVars, restartTimes, now, attempts, panicked>>

ResetsCounter(t) == CallReset(t)

ForceTool(t) ==
    /\ ToolBegins(t, "force")
    /\ ResetsCounter(t)

Calling(t) == InTool(t, "restart") \/ InTool(t, "force")

RestartFails(t) ==
    /\ Calling(t)
    /\ RestartRefused(t)
    /\ Becomes(t, "none")
    /\ UNCHANGED old

WaitsForRestart(t) == UNCHANGED toolVars

RestartBegins(t) ==
    /\ Calling(t)
    /\ RestartStops(t) \/ RestartFindsNothing(t)
    /\ WaitsForRestart(t)

RestartGoesOn(t) ==
    /\ Cleanup(t) \/ WaitTimesOut(t) \/ WaiterChecks(t) \/ WaiterWakes(t)
    /\ UNCHANGED toolVars

\* Restart returns what its Start returns: an error exactly when Start set StateFailed.
RestartReturns(t) ==
    /\ RestartStarts(t)
    /\ Becomes(t, IF state' = "failed" THEN "none" ELSE "polling")
    /\ UNCHANGED old

\* A tick of the ticker that finds RUNNING or FAILED ends the tool.
PollAnswers(t) ==
    /\ InTool(t, "polling")
    /\ state \in {"running", "failed"}
    /\ Becomes(t, "none")
    /\ UNCHANGED <<vars, old>>

\* In any other state it polls on, until the ten seconds are over; they may be over
\* in any state, between two ticks or together with one.
PollTimesOut(t) ==
    /\ InTool(t, "polling")
    /\ Becomes(t, "none")
    /\ UNCHANGED <<vars, old>>

ToolStep(t) ==
    \/ RestartTool(t) \/ ForceTool(t) \/ RestartFails(t) \/ RestartBegins(t)
    \/ RestartGoesOn(t) \/ RestartReturns(t) \/ PollAnswers(t) \/ PollTimesOut(t)

OtherStep ==
    /\ \/ \E c \in Callers \ ToolUsers : CallerStep(c)
       \/ \E m \in Procs : MonitorStep(m)
       \/ \E p \in Procs : Exit(p)
       \/ Tick
    /\ UNCHANGED toolVars

\* Nobody has to call a tool; a call that is left over at the bound has no one to answer it.
ToolRest == Rest /\ UNCHANGED toolVars

ToolNext == (\E t \in ToolUsers : ToolStep(t)) \/ OtherStep \/ ToolRest

ToolSpec == ToolInit /\ [][ToolNext]_allToolVars

\* As in Supervisor; the ticker and the timeout of a poll fire.
ToolFairness ==
    /\ \A t \in ToolUsers :
        /\ WF_allToolVars(RestartGoesOn(t) /\ WaiterChecks(t))
        /\ WF_allToolVars(RestartGoesOn(t) /\ WaiterWakes(t))
        /\ WF_allToolVars(RestartGoesOn(t) /\ WaitTimesOut(t))
        /\ WF_allToolVars(RestartGoesOn(t) /\ Cleanup(t))
        /\ WF_allToolVars(RestartReturns(t))
        /\ WF_allToolVars(PollAnswers(t) \/ PollTimesOut(t))
    /\ \A c \in Callers \ ToolUsers :
        /\ WF_allToolVars(OtherStep /\ WaiterChecks(c))
        /\ WF_allToolVars(OtherStep /\ WaiterWakes(c))
        /\ WF_allToolVars(OtherStep /\ WaitTimesOut(c))
        /\ WF_allToolVars(OtherStep /\ Cleanup(c))
        /\ WF_allToolVars(OtherStep /\ RestartStarts(c))
    /\ \A p \in Procs :
        /\ WF_allToolVars(OtherStep /\ MonitorStep(p))
        /\ WF_allToolVars(OtherStep /\ p \in killed /\ Exit(p))

FairToolSpec == ToolSpec /\ ToolFairness

-------------------------------------------------------------------------------
\* The supervisor's types hold under the tools, and a goroutine that is inside Stop
\* or Restart is inside a tool's Restart (restart.go:30, 62).
ToolTypeOK ==
    /\ TypeOK
    /\ tool \in [ToolUsers -> {"none", "restart", "force", "polling"}]
    /\ old \in [ToolUsers -> SUBSET Procs]
    /\ \A t \in ToolUsers : pc[t] # "idle" => tool[t] \in {"restart", "force"}

\* Whoever else restarts or stops the server meanwhile, the RUNNING that a tool
\* reports is that of a child started after the tool was called, never that of the
\* child it was to replace (restart.go:30-45, 62-77, 90-93).
SuccessIsFresh ==
    \A t \in ToolUsers : tool[t] = "polling" /\ state = "running" => process \notin old[t]

\* hydra_force_restart is not refused as a crash loop unless others were let through
\* between its reset and its Restart (restart.go:60-67).
ForceGetsThrough ==
    \A t \in ToolUsers :
        tool[t] = "force" /\ pc[t] = "idle" /\ granted = {} /\ MaxRestarts > 0 =>
            ~TooMany(ValidRestarts)

(***************************************************************************)
(* What the documents say and the code does not do                         *)
(***************************************************************************)
\* docs/CONFIGURATION.md:115: "Max time for restart before FAILED": the Restart of a
\* tool comes to an end.
ToolAnswers ==
    \A t \in ToolUsers : pc[t] # "idle" ~> (pc[t] = "idle" \/ panicked)
===============================================================================
