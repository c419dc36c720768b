------------------------------- MODULE Watcher -------------------------------
(***************************************************************************)
(* The file watcher (src/internal/watcher/fswatch.go) and the goroutine of *)
(* run.go that restarts the server for its events.                         *)
(*                                                                         *)
(* The goroutine of run() (Loop) takes file events one at a time, keeps    *)
(* one pending event and arms a timer for it with time.AfterFunc; each     *)
(* timer's callback is a goroutine of its own that takes the pending event *)
(* under w.mu, releases w.mu and sends.  A timer that has fired cannot be  *)
(* stopped: its callback may take an event that came later.                *)
(*                                                                         *)
(* The consumer handles one event at a time and is busy while the          *)
(* supervisor restarts, so that the channel may fill and senders block.    *)
(* Which changes are reported, and which the ignore list drops, is the     *)
(* matter of WatchTree.                                                    *)
(***************************************************************************)
EXTENDS Integers, Sequences, FiniteSets

CONSTANTS
    Paths,          \* files under a watched directory
    Watched,        \* those whose extension the configuration names, or all of them
    NoPath,         \* a nil *WatchEvent
    Debounce,       \* w.debounce, in ticks
    BatchWindow,    \* w.batchWindow, in ticks
    EventsCap,      \* the capacity of w.events
    MayStop,        \* whether the program stops the watcher in this behaviour
    MaxChanges,     \* bound: changes of files in a behaviour
    MaxTime         \* bound: the clock runs on past it only for an armed timer

ASSUME WatcherConstants ==
    /\ Watched \subseteq Paths
    /\ NoPath \notin Paths
    /\ Debounce \in Nat
    /\ BatchWindow \in Nat
    /\ EventsCap \in Nat
    /\ MayStop \in BOOLEAN
    /\ MaxChanges \in Nat
    /\ MaxTime \in Nat

VARIABLES
    inbox,          \* w.watcher.Events: changes the kernel has reported
    pending,        \* w.pendingEvent
    lastEvent,      \* w.lastEvent
    batchTimer,     \* w.batchTimer, 0 when nil
    at,             \* the program counter of run and of each timer
    due,            \* when each armed timer fires
    holding,        \* the event that run or a callback has taken to send
    buffer,         \* w.events
    done,           \* w.done is closed
    closed,         \* w.events is closed
    panicked,       \* a send on the closed channel
    consumer,       \* the goroutine over w.Events(): waiting, restarting, ended
    now,
    changes,        \* bound: the changes so far
    armed,          \* the timers created so far, which names the next one
    handled,        \* history: the changes that run has handled
    sent,           \* history: the events sent
    lastChange,     \* history: when run last handled a change
    stale           \* history: "yes" when a watched file changed and no restart has
                    \* begun since, "hidden" when the consumer also skipped an event

loopVars == <<inbox, pending, lastEvent, batchTimer, at, due, holding, armed>>
chanVars == <<buffer, done, closed, panicked, consumer>>
histVars == <<handled, sent, lastChange>>
vars == <<loopVars, chanVars, histVars, now, changes, stale>>

Loop == 0
Timers == 1 .. MaxChanges
Flushers == {Loop} \cup Timers
At(f, l) == ~panicked /\ at[f] = l
ConsumerAt(l) == ~panicked /\ consumer = l

Never == 0 - BatchWindow - 1     \* the zero time: longer ago than any window

Init ==
    /\ inbox = <<>>
    /\ pending = NoPath
    /\ lastEvent = Never
    /\ batchTimer = 0
    /\ at = [f \in Flushers |-> IF f = Loop THEN "select" ELSE "unset"]
    /\ due = [t \in Timers |-> 0]
    /\ holding = [f \in Flushers |-> NoPath]
    /\ buffer = <<>>
    /\ done = FALSE
    /\ closed = FALSE
    /\ panicked = FALSE
    /\ consumer = "waiting"
    /\ now = 0
    /\ changes = 0
    /\ armed = 0
    /\ handled = 0
    /\ sent = 0
    /\ lastChange = Never
    /\ stale = "no"

(***************************************************************************)
(* The environment                                                         *)
(***************************************************************************)
Change(p) ==
    /\ changes < MaxChanges /\ now <= MaxTime
    /\ ~done /\ ~panicked
    /\ changes' = changes + 1
    /\ inbox' = Append(inbox, p)
    /\ stale' = IF p \in Watched THEN "yes" ELSE stale
    /\ UNCHANGED <<pending, lastEvent, batchTimer, at, due, holding, armed, chanVars, histVars, now>>

Tick ==
    /\ ~panicked
    /\ now < MaxTime \/ \E t \in Timers : at[t] = "armed" /\ due[t] > now
    /\ now' = now + 1
    /\ UNCHANGED <<loopVars, chanVars, histVars, changes, stale>>

(***************************************************************************)
(* The goroutine of run                                                    *)
(***************************************************************************)
LoopTakes ==
    /\ At(Loop, "select")
    /\ inbox # <<>>
    /\ inbox' = Tail(inbox)
    /\ handled' = handled + 1
    /\ lastChange' = now
    /\ UNCHANGED <<lastEvent, chanVars, sent, now, changes, stale>>

\* batchTimer.Stop, then time.AfterFunc: a timer that has fired stays fired.
StopBatchTimer(pcs) ==
    IF batchTimer # 0 /\ pcs[batchTimer] = "armed"
    THEN [pcs EXCEPT ![batchTimer] = "stopped"] ELSE pcs

Rearm ==
    /\ armed' = armed + 1
    /\ batchTimer' = armed + 1
    /\ at' = [StopBatchTimer(at) EXCEPT ![armed + 1] = "armed"]
    /\ due' = [due EXCEPT ![armed + 1] = now + Debounce]
    /\ UNCHANGED holding

FirstOfBatch ==
    /\ LoopTakes
    /\ pending = NoPath
    /\ pending' = Head(inbox)
    /\ Rearm

WindowExpired == now - lastEvent > BatchWindow

\* Mutated form: the timer is stopped and none is armed.
KeepDebouncingUnarmed ==
    /\ LoopTakes
    /\ pending # NoPath
    /\ ~WindowExpired
    /\ at' = StopBatchTimer(at)
    /\ UNCHANGED <<pending, batchTimer, due, holding, armed>>

\* The pending event keeps the path of the first change.
KeepDebouncing ==
    /\ LoopTakes
    /\ pending # NoPath
    /\ ~WindowExpired
    /\ Rearm
    /\ UNCHANGED pending

\* The batch window has expired: run itself flushes, without waiting.
FlushNow ==
    /\ LoopTakes
    /\ pending # NoPath
    /\ WindowExpired
    /\ holding' = [holding EXCEPT ![Loop] = pending]
    /\ pending' = NoPath
    /\ at' = [StopBatchTimer(at) EXCEPT ![Loop] = "taken"]
    /\ UNCHANGED <<batchTimer, due, armed>>

\* done, or w.watcher.Events closed by Stop: the deferred close of w.events.
LoopReturns ==
    /\ At(Loop, "select")
    /\ done
    /\ at' = [at EXCEPT ![Loop] = "returned"]
    /\ closed' = TRUE
    /\ UNCHANGED <<inbox, pending, lastEvent, batchTimer, due, holding, armed, buffer, done,
                   panicked, consumer, histVars, now, changes, stale>>

(***************************************************************************)
(* The timers                                                              *)
(***************************************************************************)
Fires(t) ==
    /\ At(t, "armed") /\ now >= due[t]
    /\ at' = [at EXCEPT ![t] = "fired"]
    /\ UNCHANGED <<inbox, pending, lastEvent, batchTimer, due, holding, armed, chanVars,
                   histVars, now, changes, stale>>

\* Mutated form: the callback leaves the pending event in place.
CallbackKeepsPending(t) ==
    /\ At(t, "fired")
    /\ holding' = [holding EXCEPT ![t] = pending]
    /\ at' = [at EXCEPT ![t] = IF pending = NoPath THEN "over" ELSE "taken"]
    /\ UNCHANGED <<inbox, pending, lastEvent, batchTimer, due, armed, chanVars, histVars, now,
                   changes, stale>>

\* The callback takes what is pending, be it nil or an event of a later batch.
CallbackTakes(t) ==
    /\ At(t, "fired")
    /\ holding' = [holding EXCEPT ![t] = pending]
    /\ pending' = NoPath
    /\ at' = [at EXCEPT ![t] = IF pending = NoPath THEN "over" ELSE "taken"]
    /\ UNCHANGED <<inbox, lastEvent, batchTimer, due, armed, chanVars, histVars, now, changes, stale>>

(***************************************************************************)
(* flushEvent, called by run and by the callbacks                          *)
(***************************************************************************)
Stamps(f) ==
    /\ At(f, "taken")
    /\ lastEvent' = now
    /\ at' = [at EXCEPT ![f] = "sending"]
    /\ UNCHANGED <<inbox, pending, batchTimer, due, holding, armed, chanVars, histVars, now,
                   changes, stale>>

AfterFlush(f) ==
    /\ at' = [at EXCEPT ![f] = IF f = Loop THEN "select" ELSE "over"]
    /\ holding' = [holding EXCEPT ![f] = NoPath]
    /\ UNCHANGED <<inbox, pending, lastEvent, batchTimer, due, armed, now, changes, stale>>

Sends(f) ==
    /\ At(f, "sending")
    /\ ~closed
    /\ Len(buffer) < EventsCap
    /\ buffer' = Append(buffer, holding[f])
    /\ sent' = sent + 1
    /\ AfterFlush(f)
    /\ UNCHANGED <<done, closed, panicked, consumer, handled, lastChange>>

GivesUp(f) ==
    /\ At(f, "sending")
    /\ done
    /\ AfterFlush(f)
    /\ UNCHANGED <<chanVars, histVars>>

\* A select may choose the send on a closed channel, and panics.
SendPanics(f) ==
    /\ At(f, "sending")
    /\ closed
    /\ panicked' = TRUE
    /\ AfterFlush(f)
    /\ UNCHANGED <<buffer, done, closed, consumer, histVars>>

(***************************************************************************)
(* Stop, and the consumer                                                  *)
(***************************************************************************)
Stop ==
    /\ MayStop /\ ~done /\ ~panicked
    /\ done' = TRUE
    /\ UNCHANGED <<loopVars, buffer, closed, panicked, consumer, histVars, now, changes, stale>>

BeginsRestart ==
    /\ ConsumerAt("waiting")
    /\ buffer # <<>> /\ Head(buffer) \in Watched
    /\ buffer' = Tail(buffer)
    /\ consumer' = "restarting"
    /\ stale' = "no"
    /\ UNCHANGED <<loopVars, done, closed, panicked, histVars, now, changes>>

\* The extension of the event's path is not one of those configured.
SkipsEvent ==
    /\ ConsumerAt("waiting")
    /\ buffer # <<>> /\ Head(buffer) \notin Watched
    /\ buffer' = Tail(buffer)
    /\ stale' = IF stale = "no" THEN "no" ELSE "hidden"
    /\ UNCHANGED <<loopVars, done, closed, panicked, consumer, histVars, now, changes>>

EndsRestart ==
    /\ ConsumerAt("restarting")
    /\ consumer' = "waiting"
    /\ UNCHANGED <<loopVars, buffer, done, closed, panicked, histVars, now, changes, stale>>

ConsumerEnds ==
    /\ ConsumerAt("waiting")
    /\ buffer = <<>> /\ closed
    /\ consumer' = "ended"
    /\ UNCHANGED <<loopVars, buffer, done, closed, panicked, histVars, now, changes, stale>>

\* No file has to change and nobody has to stop; a panic ends the program.
Rest ==
    /\ \/ panicked
       \/ /\ inbox = <<>> \/ at[Loop] = "returned"
          /\ buffer = <<>>
          /\ \A t \in Timers : at[t] \in {"unset", "stopped", "over"}
          /\ consumer \in {"waiting", "ended"}
    /\ UNCHANGED vars

LoopStep == FirstOfBatch \/ KeepDebouncing \/ FlushNow \/ LoopReturns
TimerStep(t) == Fires(t) \/ CallbackTakes(t)
FlushStep(f) == Stamps(f) \/ Sends(f) \/ GivesUp(f) \/ SendPanics(f)
ConsumerStep == BeginsRestart \/ SkipsEvent \/ EndsRestart \/ ConsumerEnds

Next ==
    \/ \E p \in Paths : Change(p)
    \/ Tick
    \/ LoopStep
    \/ \E t \in Timers : TimerStep(t)
    \/ \E f \in Flushers : FlushStep(f)
    \/ Stop
    \/ ConsumerStep
    \/ Rest

Spec == Init /\ [][Next]_vars

\* The scheduler runs every goroutine that can run, the clock goes on, and a
\* restart ends (CallsReturn of Supervisor).
Fairness ==
    /\ WF_vars(Tick)
    /\ WF_vars(LoopStep)
    /\ \A t \in Timers : WF_vars(TimerStep(t))
    /\ \A f \in Flushers : WF_vars(FlushStep(f))
    /\ WF_vars(ConsumerStep)

FairSpec == Spec /\ Fairness

-------------------------------------------------------------------------------
\* Every variable has its type, and a goroutine holds an event exactly between
\* taking and sending it: none is sent that is nil (fswatch.go:15-28, 150-161, 186).
TypeOK ==
    /\ inbox \in Seq(Paths) /\ buffer \in Seq(Paths) /\ Len(buffer) <= EventsCap
    /\ pending \in Paths \cup {NoPath}
    /\ lastEvent \in Int /\ now \in Nat /\ lastChange \in Int
    /\ batchTimer \in 0 .. armed /\ armed \in 0 .. changes
    /\ at \in [Flushers -> {"select", "returned", "unset", "armed", "stopped", "fired",
                            "taken", "sending", "over"}]
    /\ due \in [Timers -> Nat]
    /\ holding \in [Flushers -> Paths \cup {NoPath}]
    /\ \A f \in Flushers : holding[f] # NoPath <=> at[f] \in {"taken", "sending"}
    /\ done \in BOOLEAN /\ closed \in BOOLEAN /\ panicked \in BOOLEAN
    /\ stale \in {"no", "yes", "hidden"}
    /\ consumer \in {"waiting", "restarting", "ended"}
    /\ changes \in 0 .. MaxChanges /\ handled \in 0 .. changes /\ sent \in 0 .. handled

\* A pending change is never forgotten: the newest timer will flush it
\* (fswatch.go:119-165).
PendingIsScheduled ==
    pending # NoPath => batchTimer # 0 /\ at[batchTimer] \in {"armed", "fired"}

\* No change is reported twice: every event sent and every event on its way
\* stands for changes of its own (fswatch.go:132-135, 150-153).
OnWay == Cardinality({f \in Flushers : holding[f] # NoPath})
NoEventWithoutAChange == sent + OnWay + (IF pending = NoPath THEN 0 ELSE 1) <= handled

\* A watched file that changes is followed by a restart that begins after the
\* change, whatever the timers and a slow consumer do: unless the program stops
\* the watcher, or the consumer drops an event because of its path, which may
\* stand for this change too (fswatch.go:120-124, run.go:231-243).
ChangesAreServed == stale = "yes" ~> (stale # "yes" \/ done)

\* docs/CONFIGURATION.md:140: extensions are the "File extensions to watch": a
\* change of a watched file always leads to a restart.
EveryWatchedChangeCounts == stale # "no" ~> (stale = "no" \/ done)

\* docs/CONFIGURATION.md:109: debounce_ms is the "Wait time after last file change
\* before restart".
EventsWaitForQuiet ==
    [][\A f \in Flushers : at[f] # "taken" /\ at'[f] = "taken" => now >= lastChange' + Debounce]_vars

\* docs/ARCHITECTURE.md:738: a panic is never left to reach the runtime.
NeverPanics == ~panicked
===============================================================================
