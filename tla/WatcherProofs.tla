---------------------------- MODULE WatcherProofs ----------------------------
(***************************************************************************)
(* For any files and directories, any number of changes, any debounce and  *)
(* any window: what the run of WatchTree checks of its invariants, of the  *)
(* loop and the timers first and then of the directories.                  *)
(***************************************************************************)
EXTENDS WatchTree, FiniteSetTheorems, SequenceTheorems, TLAPS

InSeq(s) == {s[i] : i \in DOMAIN s}

(***************************************************************************)
(* The loop and its timers                                                 *)
(***************************************************************************)
\* Each change the loop has handled, or will, was counted, and armed at most one timer;
\* the others have not been touched.
CountInv ==
    /\ armed <= handled /\ handled + Len(inbox) <= changes
    /\ \A t \in Timers : t > armed => at[t] = "unset"

LoopInv == TypeOK /\ CountInv /\ PendingIsScheduled /\ NoEventWithoutAChange

\* Every step under the directories is one of Watcher, or drops what is ignored.
LEMMA TreeStepIsLoopStep ==
    ASSUME [TreeNext]_allVars
    PROVE  [Next]_vars \/ LoopIgnores
<1>1. CASE UNCHANGED allVars
    BY <1>1 DEF allVars
<1>2. ASSUME NEW p \in Paths, ChangeFile(p) PROVE [Next]_vars
    BY <1>2 DEF ChangeFile, Next
<1>3. ASSUME NEW d \in Dirs, MakeDir(d) PROVE [Next]_vars
    BY <1>3, TreeConstants DEF MakeDir, Next
<1>4. CASE TreeLoopStep
    BY <1>4 DEF TreeLoopStep, WalkReads, WalkAdds, WalkEnds, LoopWalks, TakesEvent, Next, LoopStep
<1>5. CASE StopsWatcher
    BY <1>5 DEF StopsWatcher, Next
<1>6. CASE Tick \/ ConsumerStep \/ Rest
    BY <1>6 DEF Next
<1>7. ASSUME NEW t \in Timers, TimerStep(t) PROVE [Next]_vars
    BY <1>7 DEF Next
<1>8. ASSUME NEW f \in Flushers, FlushStep(f) PROVE [Next]_vars
    BY <1>8 DEF Next
<1> QED
    BY <1>1, <1>2, <1>3, <1>4, <1>5, <1>6, <1>7, <1>8 DEF TreeNext

States == {"select", "returned", "unset", "armed", "stopped", "fired", "taken", "sending", "over"}
Busy == {"taken", "sending"}

\* Of the timers and the loop, and of what they hold.
AtTypes ==
    /\ at \in [Flushers -> States] /\ due \in [Timers -> Nat]
    /\ holding \in [Flushers -> Paths \cup {NoPath}]
    /\ \A f \in Flushers : holding[f] # NoPath <=> at[f] \in Busy

\* Stop spares a timer that has fired, and all that is not a timer.
LEMMA StoppedIs ==
    ASSUME TypeOK
    PROVE  /\ StopBatchTimer(at) \in [Flushers -> States]
           /\ \A f \in Flushers : \/ StopBatchTimer(at)[f] = at[f]
                                  \/ at[f] = "armed" /\ StopBatchTimer(at)[f] = "stopped"
BY DEF TypeOK, StopBatchTimer, States

\* There is a timer left for each change that the loop has still to handle.
LEMMA TimerIsThere ==
    ASSUME TypeOK, CountInv, inbox # <<>>
    PROVE  armed + 1 \in Timers /\ armed + 1 \in Flushers /\ armed + 1 # Loop /\ handled + 1 <= changes
<1>1. Len(inbox) \in Nat /\ Len(inbox) > 0
    BY DEF TypeOK
<1>2. armed \in Nat /\ handled \in Nat /\ changes \in Nat /\ changes <= MaxChanges /\ MaxChanges \in Nat
    BY WatcherConstants DEF TypeOK
<1>3. armed + 1 <= MaxChanges /\ handled + 1 <= changes
    BY <1>1, <1>2 DEF CountInv
<1> QED
    BY <1>2, <1>3 DEF Timers, Flushers, Loop

\* A timer is armed, and the one before stopped, while the loop holds nothing.
LEMMA RearmTypes ==
    ASSUME TypeOK, CountInv, Rearm, inbox # <<>>, at[Loop] = "select"
    PROVE  /\ AtTypes' /\ armed' = armed + 1 /\ batchTimer' = armed + 1
           /\ at'[armed + 1] = "armed" /\ holding' = holding /\ armed + 1 \in Timers
<1>1. armed + 1 \in Timers /\ armed + 1 \in Flushers /\ armed + 1 # Loop
    BY TimerIsThere
<1> DEFINE pcs == StopBatchTimer(at)
<1>2. /\ pcs \in [Flushers -> States]
      /\ \A f \in Flushers : pcs[f] = at[f] \/ (at[f] = "armed" /\ pcs[f] = "stopped")
    BY StoppedIs
<1>3. at' = [pcs EXCEPT ![armed + 1] = "armed"] /\ due' = [due EXCEPT ![armed + 1] = now + Debounce]
      /\ holding' = holding /\ armed' = armed + 1 /\ batchTimer' = armed + 1
    BY DEF Rearm
<1> HIDE DEF pcs
<1>4. at' \in [Flushers -> States] /\ at'[armed + 1] = "armed"
    BY <1>1, <1>2, <1>3 DEF States
<1>5. at[armed + 1] = "unset"
    BY <1>1, WatcherConstants DEF CountInv, TypeOK, Timers
<1>6. ASSUME NEW f \in Flushers PROVE holding[f] # NoPath <=> at'[f] \in Busy
    <2>1. holding[f] # NoPath <=> at[f] \in Busy
        BY DEF TypeOK, Busy
    <2>2. CASE f = armed + 1
        BY <1>4, <1>5, <2>1, <2>2 DEF Busy
    <2>3. CASE f # armed + 1
        BY <1>2, <1>3, <2>1, <2>3 DEF Busy
    <2> QED
        BY <2>2, <2>3
<1>7. due' \in [Timers -> Nat]
    <2>1. now + Debounce \in Nat /\ due \in [Timers -> Nat]
        BY WatcherConstants DEF TypeOK
    <2> QED
        BY <1>1, <1>3, <2>1
<1>8. holding' \in [Flushers -> Paths \cup {NoPath}]
    BY <1>3 DEF TypeOK
<1> QED
    BY <1>1, <1>3, <1>4, <1>6, <1>7, <1>8 DEF AtTypes

\* What is left of the inbox when the loop has taken its head.
LEMMA TakenIs ==
    ASSUME TypeOK, inbox # <<>>
    PROVE  /\ Tail(inbox) \in Seq(Paths) /\ Len(Tail(inbox)) = Len(inbox) - 1 /\ Len(inbox) \in Nat
           /\ Head(inbox) = inbox[1] /\ Head(inbox) \in Paths
           /\ 1 \in DOMAIN inbox /\ DOMAIN inbox = 1 .. Len(inbox) /\ DOMAIN Tail(inbox) = 1 .. Len(inbox) - 1
           /\ \A i \in 1 .. Len(inbox) - 1 : Tail(inbox)[i] = inbox[i + 1]
BY DEF TypeOK

\* What is left to show of a step: the types, the counts, and who will flush.
GoesOn == AtTypes' /\ CountInv' /\ PendingIsScheduled'

\* A step that arms a timer counts the change it is for.
LEMMA RearmGoesOn ==
    ASSUME TypeOK, CountInv, LoopTakes, Rearm
    PROVE  GoesOn
<1>1. inbox # <<>> /\ at[Loop] = "select" /\ handled' = handled + 1 /\ inbox' = Tail(inbox) /\ changes' = changes
    BY DEF LoopTakes, At
<1>2. /\ AtTypes' /\ armed' = armed + 1 /\ batchTimer' = armed + 1
      /\ at'[armed + 1] = "armed" /\ armed + 1 \in Timers
    BY <1>1, RearmTypes
<1>3. armed \in Nat /\ handled \in Nat /\ changes \in Nat
    BY DEF TypeOK
<1>4. ASSUME NEW t \in Timers, t > armed + 1 PROVE at'[t] = "unset"
    <2>1. at[t] = "unset" /\ t \in Flushers /\ t # armed + 1
        BY <1>3, <1>4 DEF CountInv, Timers, Flushers
    <2>2. StopBatchTimer(at)[t] = "unset" /\ StopBatchTimer(at) \in [Flushers -> States]
        BY <2>1, StoppedIs
    <2> QED
        BY <2>1, <2>2 DEF Rearm
<1>5. CountInv'
    BY <1>1, <1>2, <1>3, <1>4, TakenIs DEF CountInv
<1>6. PendingIsScheduled'
    BY <1>2, <1>3 DEF PendingIsScheduled
<1> QED
    BY <1>2, <1>5, <1>6 DEF GoesOn

\* The loop flushes the pending event itself.
LEMMA FlushNowGoesOn ==
    ASSUME TypeOK, CountInv, FlushNow
    PROVE  GoesOn
<1>1. /\ inbox # <<>> /\ at[Loop] = "select" /\ handled' = handled + 1 /\ inbox' = Tail(inbox)
      /\ pending # NoPath /\ pending' = NoPath /\ holding' = [holding EXCEPT ![Loop] = pending]
      /\ at' = [StopBatchTimer(at) EXCEPT ![Loop] = "taken"] /\ UNCHANGED <<batchTimer, due, armed, changes>>
    BY DEF LoopTakes, At, FlushNow
<1>2. Loop \in Flushers /\ \A t \in Timers : t \in Flushers /\ t # Loop
    BY WatcherConstants DEF Flushers, Loop, Timers
<1> DEFINE pcs == StopBatchTimer(at)
<1>3. /\ pcs \in [Flushers -> States]
      /\ \A f \in Flushers : pcs[f] = at[f] \/ (at[f] = "armed" /\ pcs[f] = "stopped")
    BY StoppedIs
<1> HIDE DEF pcs
<1>4. at' \in [Flushers -> States] /\ at'[Loop] = "taken" /\ \A f \in Flushers \ {Loop} : at'[f] = pcs[f]
    BY <1>1, <1>2, <1>3 DEF pcs, States
<1>5. /\ holding' \in [Flushers -> Paths \cup {NoPath}] /\ holding'[Loop] = pending
      /\ \A f \in Flushers \ {Loop} : holding'[f] = holding[f]
    BY <1>1, <1>2 DEF TypeOK
<1>6. ASSUME NEW f \in Flushers PROVE holding'[f] # NoPath <=> at'[f] \in Busy
    <2>1. holding[f] # NoPath <=> at[f] \in Busy
        BY DEF TypeOK, Busy
    <2>2. CASE f = Loop
        BY <1>1, <1>4, <1>5, <2>2 DEF Busy
    <2>3. CASE f # Loop
        BY <1>3, <1>4, <1>5, <2>1, <2>3 DEF Busy
    <2> QED
        BY <2>2, <2>3
<1>7. AtTypes'
    BY <1>1, <1>4, <1>5, <1>6 DEF AtTypes, TypeOK
<1>8. \A t \in Timers : t > armed => at'[t] = "unset"
    BY <1>2, <1>3, <1>4 DEF CountInv
<1>9. CountInv'
    <2>1. armed \in Nat /\ handled \in Nat /\ changes \in Nat
        BY DEF TypeOK
    <2> QED
        BY <1>1, <1>8, <2>1, TakenIs DEF CountInv
<1> QED
    BY <1>1, <1>7, <1>9 DEF GoesOn, PendingIsScheduled

\* A process moves on and takes up, or lays down, what it holds.
LEMMA MoveGoesOn ==
    ASSUME TypeOK, CountInv, PendingIsScheduled, NEW f \in Flushers, NEW l \in States,
           NEW h \in Paths \cup {NoPath}, h # NoPath <=> l \in Busy, at[f] # "unset",
           at' = [at EXCEPT ![f] = l], holding' = [holding EXCEPT ![f] = h],
           UNCHANGED <<inbox, batchTimer, armed, handled, changes, due>>,
           \/ pending' = NoPath
           \/ pending' = pending /\ (l = "fired" \/ at[f] \notin {"armed", "fired"})
    PROVE  GoesOn
<1>1. at' \in [Flushers -> States] /\ at'[f] = l /\ \A g \in Flushers \ {f} : at'[g] = at[g]
    BY DEF TypeOK, States
<1>2. /\ holding' \in [Flushers -> Paths \cup {NoPath}] /\ holding'[f] = h
      /\ \A g \in Flushers \ {f} : holding'[g] = holding[g]
    BY DEF TypeOK
<1>3. \A g \in Flushers : holding[g] # NoPath <=> at[g] \in Busy
    BY DEF TypeOK, Busy
<1>4. AtTypes'
    BY <1>1, <1>2, <1>3 DEF AtTypes, TypeOK
<1>5. \A t \in Timers : t \in Flushers
    BY DEF Flushers
<1>6. CountInv'
    BY <1>1, <1>5 DEF CountInv
<1>7. ASSUME pending' # NoPath PROVE batchTimer' # 0 /\ at'[batchTimer'] \in {"armed", "fired"}
    <2>1. pending # NoPath /\ batchTimer # 0 /\ at[batchTimer] \in {"armed", "fired"}
        BY <1>7 DEF PendingIsScheduled
    <2>2. batchTimer \in Flushers
        BY <2>1, WatcherConstants DEF TypeOK, Flushers, Timers
    <2> QED
        BY <1>1, <1>7, <2>1, <2>2
<1> QED
    BY <1>4, <1>6, <1>7 DEF GoesOn, PendingIsScheduled

\* The timers' callbacks, and the sends.
LEMMA ProcessGoesOn ==
    ASSUME TypeOK, CountInv, PendingIsScheduled,
           LoopReturns \/ (\E t \in Timers : TimerStep(t)) \/ (\E f \in Flushers : FlushStep(f))
    PROVE  GoesOn
<1>1. \A f \in Flushers : holding[f] # NoPath <=> at[f] \in Busy
    BY DEF TypeOK, Busy
<1>2. \A f \in Flushers : /\ holding[f] \in Paths \cup {NoPath}
                          /\ holding = [holding EXCEPT ![f] = holding[f]]
    BY DEF TypeOK
<1>3. Loop \in Flushers /\ \A t \in Timers : t \in Flushers /\ t # Loop
    BY WatcherConstants DEF Flushers, Loop, Timers
<1>4. CASE LoopReturns
    <2>1. at[Loop] = "select" /\ holding[Loop] = NoPath
        BY <1>1, <1>3, <1>4 DEF LoopReturns, At, Busy
    <2>2. /\ at' = [at EXCEPT ![Loop] = "returned"] /\ holding' = [holding EXCEPT ![Loop] = NoPath]
          /\ UNCHANGED <<inbox, batchTimer, armed, handled, changes, due, pending>>
        BY <1>2, <1>3, <1>4, <2>1 DEF LoopReturns, histVars
    <2>3. "returned" \in States /\ "returned" \notin Busy
        BY DEF States, Busy
    <2> QED
        BY <1>3, <2>1, <2>2, <2>3, MoveGoesOn
<1>5. ASSUME NEW t \in Timers, Fires(t) PROVE GoesOn
    <2>1. at[t] = "armed" /\ holding[t] = NoPath
        BY <1>1, <1>3, <1>5 DEF Fires, At, Busy
    <2>2. /\ at' = [at EXCEPT ![t] = "fired"] /\ holding' = [holding EXCEPT ![t] = NoPath]
          /\ UNCHANGED <<inbox, batchTimer, armed, handled, changes, due, pending>>
        BY <1>2, <1>3, <1>5, <2>1 DEF Fires, histVars
    <2>3. "fired" \in States /\ "fired" \notin Busy
        BY DEF States, Busy
    <2> QED
        BY <1>3, <2>1, <2>2, <2>3, MoveGoesOn
<1>6. ASSUME NEW t \in Timers, CallbackTakes(t) PROVE GoesOn
    <2> DEFINE l == IF pending = NoPath THEN "over" ELSE "taken"
    <2>1. at[t] = "fired" /\ pending' = NoPath
        BY <1>6 DEF CallbackTakes, At
    <2>2. /\ at' = [at EXCEPT ![t] = l] /\ holding' = [holding EXCEPT ![t] = pending]
          /\ UNCHANGED <<inbox, batchTimer, armed, handled, changes, due>>
        BY <1>6 DEF CallbackTakes, histVars
    <2>3. l \in States /\ (pending # NoPath <=> l \in Busy) /\ pending \in Paths \cup {NoPath}
        BY DEF States, Busy, TypeOK
    <2> HIDE DEF l
    <2> QED
        BY <1>3, <2>1, <2>2, <2>3, MoveGoesOn
<1>7. ASSUME NEW f \in Flushers, Stamps(f) PROVE GoesOn
    <2>1. at[f] = "taken" /\ holding[f] # NoPath
        BY <1>1, <1>7 DEF Stamps, At, Busy
    <2>2. /\ at' = [at EXCEPT ![f] = "sending"] /\ holding' = [holding EXCEPT ![f] = holding[f]]
          /\ UNCHANGED <<inbox, batchTimer, armed, handled, changes, due, pending>>
        BY <1>2, <1>7 DEF Stamps, histVars
    <2>3. "sending" \in States /\ "sending" \in Busy
        BY DEF States, Busy
    <2> QED
        BY <1>2, <2>1, <2>2, <2>3, MoveGoesOn
<1>8. ASSUME NEW f \in Flushers, at[f] = "sending", AfterFlush(f), handled' = handled PROVE GoesOn
    <2> DEFINE l == IF f = Loop THEN "select" ELSE "over"
    <2>1. /\ at' = [at EXCEPT ![f] = l] /\ holding' = [holding EXCEPT ![f] = NoPath]
          /\ UNCHANGED <<inbox, batchTimer, armed, handled, changes, due, pending>>
        BY <1>8 DEF AfterFlush
    <2>2. l \in States /\ l \notin Busy
        BY DEF States, Busy
    <2> HIDE DEF l
    <2> QED
        BY <1>8, <2>1, <2>2, MoveGoesOn
<1>9. ASSUME NEW f \in Flushers, Sends(f) \/ GivesUp(f) \/ SendPanics(f) PROVE GoesOn
    BY <1>8, <1>9 DEF Sends, GivesUp, SendPanics, At, histVars
<1> QED
    BY <1>4, <1>5, <1>6, <1>7, <1>9 DEF TimerStep, FlushStep

\* What others do: they change files, stop the watcher and read its events, or the loop
\* drops what is ignored.
Aside ==
    \/ \E p \in Paths : Change(p)
    \/ Tick \/ Stop \/ ConsumerStep \/ Rest \/ LoopIgnores \/ UNCHANGED vars
LEMMA AsideGoesOn ==
    ASSUME TypeOK, CountInv, PendingIsScheduled, Aside
    PROVE  /\ GoesOn /\ UNCHANGED <<pending, holding, at, sent, handled, lastEvent, lastChange, armed, batchTimer>>
           /\ inbox' \in Seq(Paths) /\ changes' \in 0 .. MaxChanges /\ changes <= changes'
<1>1. UNCHANGED <<pending, holding, at, due, sent, handled, lastEvent, lastChange, armed, batchTimer>>
    BY DEF Aside, Change, Tick, Stop, ConsumerStep, BeginsRestart, SkipsEvent, EndsRestart, ConsumerEnds,
           Rest, LoopIgnores, vars, loopVars, histVars
<1>2. /\ armed \in Nat /\ handled \in Nat /\ changes \in Nat /\ changes \in 0 .. MaxChanges /\ MaxChanges \in Nat
      /\ inbox \in Seq(Paths) /\ Len(inbox) \in Nat
    BY WatcherConstants DEF TypeOK
<1>3. CASE \E p \in Paths : Change(p)
    <2>1. PICK p \in Paths : Change(p)
        BY <1>3
    <2>2. /\ changes < MaxChanges /\ changes' = changes + 1 /\ inbox' = Append(inbox, p)
        BY <2>1 DEF Change
    <2>3. inbox' \in Seq(Paths) /\ Len(inbox') = Len(inbox) + 1
        BY <1>2, <2>2
    <2>4. CountInv'
        BY <1>1, <1>2, <2>2, <2>3 DEF CountInv
    <2> QED
        BY <1>1, <1>2, <2>2, <2>3, <2>4 DEF GoesOn, AtTypes, PendingIsScheduled, TypeOK, States, Busy
<1>4. CASE LoopIgnores
    <2>1. inbox # <<>> /\ inbox' = Tail(inbox) /\ changes' = changes
        BY <1>4 DEF LoopIgnores, Selects
    <2>2. CountInv'
        BY <1>1, <1>2, <2>1, TakenIs DEF CountInv
    <2> QED
        BY <1>1, <1>2, <2>1, <2>2, TakenIs DEF GoesOn, AtTypes, PendingIsScheduled, TypeOK, States, Busy
<1>5. CASE UNCHANGED <<inbox, changes>>
    BY <1>1, <1>2, <1>5 DEF GoesOn, AtTypes, CountInv, PendingIsScheduled, TypeOK, States, Busy
<1>6. UNCHANGED <<inbox, changes>> \/ (\E p \in Paths : Change(p)) \/ LoopIgnores
    BY DEF Aside, Tick, Stop, ConsumerStep, BeginsRestart, SkipsEvent, EndsRestart, ConsumerEnds,
           Rest, vars, loopVars
<1> QED
    BY <1>3, <1>4, <1>5, <1>6

\* The steps of Watcher and of the directories are these.
LEMMA StepsAre ==
    ASSUME [TreeNext]_allVars
    PROVE  FirstOfBatch \/ KeepDebouncing \/ FlushNow \/ LoopReturns \/ (\E t \in Timers : TimerStep(t))
           \/ (\E f \in Flushers : FlushStep(f)) \/ Aside
BY TreeStepIsLoopStep DEF Next, LoopStep, Aside

\* Each of the steps goes on so.
LEMMA AllGoOn ==
    ASSUME TypeOK, CountInv, PendingIsScheduled, [TreeNext]_allVars
    PROVE  GoesOn
<1>1. CASE FirstOfBatch \/ KeepDebouncing
    BY <1>1, RearmGoesOn DEF FirstOfBatch, KeepDebouncing
<1> QED
    BY <1>1, FlushNowGoesOn, ProcessGoesOn, AsideGoesOn, StepsAre

\* What is pending and what is held, as NoEventWithoutAChange counts it.
Pending == IF pending = NoPath THEN 0 ELSE 1
Holders == {f \in Flushers : holding[f] # NoPath}

\* There are finitely many timers, so that what they hold can be counted.
LEMMA HoldersAreFinite == IsFiniteSet(Holders) /\ OnWay \in Nat /\ OnWay = Cardinality(Holders)
<1>1. IsFiniteSet(Timers) /\ IsFiniteSet({Loop})
    <2>1. 1 \in Int /\ MaxChanges \in Int
        BY WatcherConstants
    <2> QED
        BY <2>1, FS_Interval, FS_Singleton DEF Timers
<1>2. IsFiniteSet(Flushers)
    BY <1>1, FS_Union DEF Flushers
<1>3. IsFiniteSet(Holders)
    BY <1>2, FS_Subset DEF Holders
<1> QED
    BY <1>3, FS_CardinalityType DEF OnWay, Holders

\* Who takes something up is one more, and who lays it down one less.
LEMMA TakingUp ==
    ASSUME TypeOK, NEW f \in Flushers, NEW h \in Paths \cup {NoPath}, holding' = [holding EXCEPT ![f] = h]
    PROVE  /\ holding[f] = NoPath /\ h # NoPath => OnWay' = OnWay + 1
           /\ holding[f] # NoPath /\ h = NoPath => OnWay' = OnWay - 1
           /\ (holding[f] = NoPath <=> h = NoPath) => OnWay' = OnWay
<1>1. holding'[f] = h /\ \A g \in Flushers \ {f} : holding'[g] = holding[g]
    BY DEF TypeOK
<1>2. IsFiniteSet(Holders) /\ OnWay = Cardinality(Holders)
    BY HoldersAreFinite
<1>3. OnWay' = Cardinality(Holders')
    BY DEF OnWay, Holders
<1>4. CASE holding[f] = NoPath /\ h # NoPath
    <2>1. Holders' = Holders \cup {f} /\ f \notin Holders
        BY <1>1, <1>4 DEF Holders
    <2> QED
        BY <1>2, <1>3, <1>4, <2>1, FS_AddElement
<1>5. CASE holding[f] # NoPath /\ h = NoPath
    <2>1. Holders' = Holders \ {f} /\ f \in Holders
        BY <1>1, <1>5 DEF Holders
    <2> QED
        BY <1>2, <1>3, <1>5, <2>1, FS_RemoveElement
<1>6. CASE holding[f] = NoPath <=> h = NoPath
    <2>1. Holders' = Holders
        BY <1>1, <1>6 DEF Holders
    <2> QED
        BY <1>2, <1>3, <1>6, <2>1
<1> QED
    BY <1>4, <1>5, <1>6

\* Every event is one of a change of its own: it is counted as it becomes pending, and moves
\* from there to a process and to the channel, or is given up.
LEMMA EventStep ==
    ASSUME TypeOK, CountInv, NoEventWithoutAChange, [TreeNext]_allVars
    PROVE  NoEventWithoutAChange'
<1>0. /\ sent \in Nat /\ handled \in Nat /\ OnWay \in Nat /\ Pending \in {0, 1} /\ sent + OnWay + Pending <= handled
      /\ Loop \in Flushers /\ \A t \in Timers : t \in Flushers
    BY HoldersAreFinite DEF TypeOK, NoEventWithoutAChange, Pending, Flushers
<1>1. NoEventWithoutAChange' <=> sent' + OnWay' + Pending' <= handled'
    BY DEF NoEventWithoutAChange, Pending, OnWay
<1>2. \A f \in Flushers : holding[f] # NoPath <=> at[f] \in Busy
    BY DEF TypeOK, Busy
<1>h. holding' = holding => OnWay' = OnWay
    BY DEF OnWay
<1>3. CASE FirstOfBatch
    <2>1. Pending = 0 /\ (Pending' = 0 \/ Pending' = 1) /\ sent' = sent /\ handled' = handled + 1 /\ holding' = holding
        BY <1>3 DEF FirstOfBatch, LoopTakes, Pending, Rearm
    <2> QED
        BY <1>0, <1>1, <1>h, <2>1
<1>4. CASE KeepDebouncing
    <2>1. Pending' = Pending /\ sent' = sent /\ handled' = handled + 1 /\ holding' = holding
        BY <1>4 DEF KeepDebouncing, LoopTakes, Pending, Rearm
    <2> QED
        BY <1>0, <1>1, <1>h, <2>1
<1>5. CASE FlushNow
    <2>1. /\ Pending = 1 /\ Pending' = 0 /\ sent' = sent /\ handled' = handled + 1
          /\ holding' = [holding EXCEPT ![Loop] = pending] /\ pending # NoPath /\ at[Loop] = "select"
        BY <1>5 DEF FlushNow, LoopTakes, Pending, At
    <2>2. holding[Loop] = NoPath /\ pending \in Paths \cup {NoPath}
        BY <1>0, <1>2, <2>1 DEF Busy, TypeOK
    <2>3. OnWay' = OnWay + 1
        BY <1>0, <2>1, <2>2, TakingUp
    <2> QED
        BY <1>0, <1>1, <2>1, <2>3
<1>6. ASSUME NEW t \in Timers, CallbackTakes(t) PROVE NoEventWithoutAChange'
    <2>1. /\ Pending' = 0 /\ sent' = sent /\ handled' = handled /\ at[t] = "fired"
          /\ holding' = [holding EXCEPT ![t] = pending]
        BY <1>6 DEF CallbackTakes, Pending, At, histVars
    <2>2. holding[t] = NoPath /\ pending \in Paths \cup {NoPath}
        BY <1>0, <1>2, <2>1 DEF Busy, TypeOK
    <2>3. pending # NoPath => OnWay' = OnWay + 1
        BY <1>0, <2>1, <2>2, TakingUp
    <2>4. pending = NoPath => OnWay' = OnWay
        BY <1>0, <2>1, <2>2, TakingUp
    <2>5. OnWay' = OnWay + Pending
        BY <1>0, <2>3, <2>4 DEF Pending
    <2> QED
        BY <1>0, <1>1, <2>1, <2>5
<1>7. ASSUME NEW f \in Flushers, at[f] = "sending", AfterFlush(f), handled' = handled, sent' = sent \/ sent' = sent + 1
      PROVE  NoEventWithoutAChange'
    <2>1. holding' = [holding EXCEPT ![f] = NoPath] /\ Pending' = Pending
        BY <1>7 DEF AfterFlush, Pending
    <2>2. holding[f] # NoPath
        BY <1>2, <1>7 DEF Busy
    <2>3. NoPath \in Paths \cup {NoPath}
        OBVIOUS
    <2>4. OnWay' = OnWay - 1
        BY <2>1, <2>2, <2>3, TakingUp
    <2> QED
        BY <1>0, <1>1, <1>7, <2>1, <2>4
<1>8. ASSUME NEW f \in Flushers, Sends(f) \/ GivesUp(f) \/ SendPanics(f) PROVE NoEventWithoutAChange'
    BY <1>7, <1>8 DEF Sends, GivesUp, SendPanics, At, histVars
<1>9. CASE UNCHANGED <<holding, pending, sent, handled>>
    BY <1>0, <1>1, <1>h, <1>9 DEF Pending
<1>10. ASSUME NEW t \in Timers, Fires(t) PROVE NoEventWithoutAChange'
    BY <1>9, <1>10 DEF Fires, histVars
<1>11. ASSUME NEW f \in Flushers, Stamps(f) PROVE NoEventWithoutAChange'
    BY <1>9, <1>11 DEF Stamps, histVars
<1>12. CASE LoopReturns
    BY <1>9, <1>12 DEF LoopReturns, histVars
<1>13. CASE Aside
    BY <1>9, <1>13 DEF Aside, Change, Tick, Stop, ConsumerStep, BeginsRestart, SkipsEvent, EndsRestart,
        ConsumerEnds, Rest, LoopIgnores, vars, loopVars, histVars
<1> QED
    BY <1>3, <1>4, <1>5, <1>6, <1>8, <1>10, <1>11, <1>12, <1>13, StepsAre DEF TimerStep, FlushStep

\* A part is no more than what the whole is below.
LEMMA PartIsBelow ==
    ASSUME NEW x \in Nat, NEW y \in Nat, \E n \in Nat, p \in {0, 1} : x + n + p <= y
    PROVE  x <= y
OBVIOUS

\* The types follow: a count stays below what is handled, and what is sent is a path.
LEMMA LoopTypes ==
    ASSUME TypeOK, CountInv, PendingIsScheduled, NoEventWithoutAChange, [TreeNext]_allVars
    PROVE  TypeOK'
<1>1. AtTypes' /\ CountInv'
    BY AllGoOn DEF GoesOn
<1>2. \E n \in Nat, p \in {0, 1} : sent' + n + p <= handled'
    <2>1. (OnWay \in Nat)'
        BY HoldersAreFinite, PTL
    <2>2. (sent + OnWay + Pending <= handled)'
        BY EventStep DEF NoEventWithoutAChange, Pending
    <2>3. Pending' \in {0, 1}
        BY DEF Pending
    <2> HIDE DEF OnWay, Pending
    <2> QED
        BY <2>1, <2>2, <2>3
<1>t. /\ inbox \in Seq(Paths) /\ buffer \in Seq(Paths) /\ Len(buffer) <= EventsCap /\ Len(buffer) \in Nat
      /\ pending \in Paths \cup {NoPath} /\ EventsCap \in Nat /\ MaxChanges \in Nat
      /\ lastEvent \in Int /\ now \in Nat /\ lastChange \in Int
      /\ batchTimer \in 0 .. armed /\ armed \in 0 .. changes
      /\ stale \in {"no", "yes", "hidden"} /\ consumer \in {"waiting", "restarting", "ended"}
      /\ changes \in 0 .. MaxChanges /\ handled \in 0 .. changes /\ sent \in 0 .. handled
    BY WatcherConstants DEF TypeOK
<1>b. done \in BOOLEAN /\ closed \in BOOLEAN /\ panicked \in BOOLEAN
    BY Zenon DEF TypeOK
<1>3. inbox' \in Seq(Paths) /\ changes' \in 0 .. MaxChanges
    <2>1. CASE Aside
        BY <2>1, AsideGoesOn
    <2>2. CASE LoopTakes
        BY <1>t, <2>2, TakenIs DEF LoopTakes
    <2>3. CASE UNCHANGED <<inbox, changes>>
        BY <1>t, <2>3
    <2> QED
        BY <2>1, <2>2, <2>3, StepsAre DEF FirstOfBatch, KeepDebouncing, FlushNow, LoopReturns, TimerStep, Fires,
            CallbackTakes, FlushStep, Stamps, Sends, GivesUp, SendPanics, AfterFlush
<1>4. pending' \in Paths \cup {NoPath}
    <2>1. CASE FirstOfBatch
        BY <2>1, TakenIs DEF FirstOfBatch, LoopTakes
    <2>2. CASE pending' \in {pending, NoPath}
        BY <1>t, <2>2
    <2> QED
        BY <2>1, <2>2, StepsAre, AsideGoesOn DEF KeepDebouncing, FlushNow, LoopReturns, TimerStep, Fires,
            CallbackTakes, FlushStep, Stamps, Sends, GivesUp, SendPanics, AfterFlush
<1>5. buffer' \in Seq(Paths) /\ Len(buffer') <= EventsCap
    <2>1. ASSUME NEW f \in Flushers, Sends(f)
          PROVE  buffer' \in Seq(Paths) /\ Len(buffer') <= EventsCap
        <3>1. holding[f] \in Paths
            BY <2>1 DEF Sends, At, TypeOK
        <3>2. buffer' = Append(buffer, holding[f]) /\ Len(buffer) < EventsCap
            BY <2>1 DEF Sends
        <3> QED
            BY <1>t, <3>1, <3>2
    <2>2. CASE buffer # <<>> /\ buffer' = Tail(buffer)
        BY <1>t, <2>2
    <2>3. CASE UNCHANGED buffer
        BY <1>t, <2>3
    <2> QED
        BY <2>1, <2>2, <2>3, StepsAre DEF FirstOfBatch, KeepDebouncing, FlushNow, LoopTakes, LoopReturns, TimerStep,
            Fires, CallbackTakes, FlushStep, Stamps, GivesUp, SendPanics, Aside, Change, Tick, Stop, ConsumerStep,
            BeginsRestart, SkipsEvent, EndsRestart, ConsumerEnds, Rest, LoopIgnores, vars, chanVars
<1>6. now' \in Nat /\ lastEvent' \in Int /\ lastChange' \in Int
    <2>1. CASE Tick
        BY <1>t, <2>1 DEF Tick, loopVars, histVars
    <2>2. (now' = now /\ lastEvent' \in {lastEvent, now} /\ lastChange' \in {lastChange, now}) \/ Tick
        BY StepsAre DEF FirstOfBatch, KeepDebouncing, FlushNow, LoopTakes, LoopReturns, TimerStep,
            Fires, CallbackTakes, FlushStep, Stamps, Sends, GivesUp, SendPanics, AfterFlush, Aside, Change, Stop,
            ConsumerStep, BeginsRestart, SkipsEvent, EndsRestart, ConsumerEnds, Rest, LoopIgnores, vars, loopVars,
            histVars
    <2> QED
        BY <1>t, <2>1, <2>2
<1>7. stale' \in {"no", "yes", "hidden"} /\ consumer' \in {"waiting", "restarting", "ended"}
    BY <1>t, StepsAre DEF FirstOfBatch, KeepDebouncing, FlushNow, LoopTakes, LoopReturns, TimerStep,
        Fires, CallbackTakes, FlushStep, Stamps, Sends, GivesUp, SendPanics, AfterFlush, Aside, Change, Tick, Stop,
        ConsumerStep, BeginsRestart, SkipsEvent, EndsRestart, ConsumerEnds, Rest, LoopIgnores, vars, chanVars
<1>8. done' \in BOOLEAN /\ closed' \in BOOLEAN /\ panicked' \in BOOLEAN
    <2>1. (done' = done \/ done' = TRUE) /\ (closed' = closed \/ closed' = TRUE) /\ (panicked' = panicked \/ panicked' = TRUE)
        BY Zenon, StepsAre DEF FirstOfBatch, KeepDebouncing, FlushNow, LoopTakes, LoopReturns, TimerStep,
            Fires, CallbackTakes, FlushStep, Stamps, Sends, GivesUp, SendPanics, Aside, Change, Tick, Stop,
            ConsumerStep, BeginsRestart, SkipsEvent, EndsRestart, ConsumerEnds, Rest, LoopIgnores, vars, chanVars
    <2> QED
        BY Zenon, <1>b, <2>1
<1>9. /\ armed' \in 0 .. changes' /\ batchTimer' \in 0 .. armed'
      /\ handled' \in 0 .. changes' /\ sent' \in 0 .. handled'
    <2>1. /\ (armed' = armed /\ batchTimer' = batchTimer) \/ (armed' = armed + 1 /\ batchTimer' = armed + 1)
          /\ handled' = handled \/ handled' = handled + 1
          /\ sent' = sent \/ sent' = sent + 1
        BY StepsAre, AsideGoesOn DEF FirstOfBatch, KeepDebouncing, FlushNow, LoopTakes, Rearm, LoopReturns, TimerStep,
            Fires, CallbackTakes, FlushStep, Stamps, Sends, GivesUp, SendPanics, AfterFlush, histVars
    <2>2. armed' <= handled' /\ handled' + Len(inbox') <= changes' /\ Len(inbox') \in Nat
        BY <1>1, <1>3 DEF CountInv
    <2>3. \E n \in Nat, p \in {0, 1} : sent' + n + p <= handled'
        BY <1>2
    <2>4. armed' \in Nat /\ batchTimer' \in 0 .. armed'
        BY <1>t, <2>1
    <2>5. handled' \in Nat /\ sent' \in Nat /\ changes' \in Nat
        BY <1>t, <1>3, <2>1
    <2>6. sent' <= handled'
        BY <2>3, <2>5, PartIsBelow
    <2> QED
        BY <2>2, <2>4, <2>5, <2>6
<1> QED
    BY <1>1, <1>3, <1>4, <1>5, <1>6, <1>7, <1>8, <1>9 DEF TypeOK, AtTypes, States, Busy

\* It starts so: nothing is armed, pending or held.
LEMMA LoopStarts ==
    ASSUME Init
    PROVE  LoopInv
<1>1. Holders = {}
    BY DEF Init, Holders
<1>2. OnWay = 0
    BY <1>1, HoldersAreFinite, FS_EmptySet
<1>3. /\ inbox = <<>> /\ pending = NoPath /\ lastEvent = Never /\ batchTimer = 0 /\ buffer = <<>>
      /\ now = 0 /\ changes = 0 /\ armed = 0 /\ handled = 0 /\ sent = 0 /\ lastChange = Never
      /\ stale = "no" /\ consumer = "waiting"
    BY DEF Init
<1>4. MaxChanges \in Nat /\ EventsCap \in Nat /\ Never \in Int
    BY WatcherConstants DEF Never
<1>5. Len(inbox) = 0 /\ Len(buffer) = 0 /\ inbox \in Seq(Paths) /\ buffer \in Seq(Paths)
    BY <1>3
<1>6. AtTypes /\ \A t \in Timers : at[t] = "unset"
    <2>1. \A t \in Timers : t \in Flushers /\ t # Loop
        BY WatcherConstants DEF Flushers, Timers, Loop
    <2>2. /\ at = [f \in Flushers |-> IF f = Loop THEN "select" ELSE "unset"]
          /\ due = [t \in Timers |-> 0] /\ holding = [f \in Flushers |-> NoPath]
        BY DEF Init
    <2> QED
        BY <2>1, <2>2 DEF AtTypes, States, Busy
<1>7. done \in BOOLEAN /\ closed \in BOOLEAN /\ panicked \in BOOLEAN
    BY Zenon DEF Init
<1>8. TypeOK
    BY <1>3, <1>4, <1>5, <1>6, <1>7 DEF TypeOK, AtTypes, States, Busy
<1>9. CountInv /\ PendingIsScheduled /\ NoEventWithoutAChange
    BY <1>2, <1>3, <1>5, <1>6 DEF CountInv, PendingIsScheduled, NoEventWithoutAChange
<1> QED
    BY <1>8, <1>9 DEF LoopInv

\* And goes on so, under the directories.
LEMMA LoopInvStep ==
    ASSUME LoopInv, [TreeNext]_allVars
    PROVE  LoopInv'
BY AllGoOn, EventStep, LoopTypes DEF LoopInv, GoesOn

\* The loop, the timers and the channel, whatever is watched.
LEMMA LoopInvAlways == TreeSpec => []LoopInv
<1>1. TreeInit => LoopInv
    BY LoopStarts DEF TreeInit
<1>2. LoopInv /\ [TreeNext]_allVars => LoopInv'
    BY LoopInvStep
<1> QED
    BY <1>1, <1>2, PTL DEF TreeSpec

(***************************************************************************)
(* The directories                                                         *)
(***************************************************************************)
\* The kernel reports d, or the walk or the loop has still to come to it; or nobody will.
Met(d) == done \/ d \in added \cup late \cup Ignored \cup InSeq(todo) \cup InSeq(inbox)

\* A walk for an event visits the directory whose event it is, before the event is taken.
WalkInv ==
    /\ ~Walking => todo = <<>>
    /\ names # Unread => Walking /\ todo # <<>>
    /\ walk \in {"event", "done"} =>
        inbox # <<>> /\ Head(inbox) \in Dirs \ Ignored /\ (done \/ Head(inbox) \in added \cup InSeq(todo))
    /\ done \/ Top \in added \cup InSeq(todo)

\* Only directories that there are get visited, and theirs are there too.
KnownInv ==
    /\ InSeq(todo) \subseteq present
    /\ names # Unread => InSeq(names) \subseteq present
    /\ InSeq(inbox) \cap Dirs \subseteq present
    /\ \A d \in present \ {Top} : DirOf[d] \in present

\* What is made in an added directory is met, and what is made in one that is about to be.
MetInv ==
    /\ \A d \in present \ {Top} : DirOf[d] \in added => Met(d)
    /\ names # Unread =>
        \A d \in present \ {Top} : DirOf[d] = Head(todo) => d \in InSeq(names) \/ Met(d)

\* The types of what the walk keeps, as in TreeTypeOK.
WalkTypes ==
    /\ present \subseteq Dirs \cup {Top} /\ added \subseteq present /\ late \subseteq present
    /\ walk \in {"start", "event", "done", "no"}
    /\ todo \in Seq(Dirs \cup {Top})
    /\ names = Unread \/ names \in Seq(Dirs)

TreeInv == WalkTypes /\ WalkInv /\ KnownInv /\ MetInv

\* What is in a sequence that loses its head, or gets another.
LEMMA InSeqFacts ==
    ASSUME NEW S, NEW s \in Seq(S)
    PROVE  /\ s # <<>> => /\ Head(s) \in S /\ Tail(s) \in Seq(S)
                          /\ InSeq(s) = {Head(s)} \cup InSeq(Tail(s))
           /\ \A x \in S : /\ Append(s, x) \in Seq(S) /\ Append(s, x) # <<>>
                           /\ InSeq(Append(s, x)) = InSeq(s) \cup {x}
                           /\ s # <<>> => Head(Append(s, x)) = Head(s)
<1>1. Len(s) \in Nat /\ DOMAIN s = 1 .. Len(s)
    OBVIOUS
<1>2. ASSUME s # <<>> PROVE /\ Head(s) \in S /\ Tail(s) \in Seq(S)
                            /\ InSeq(s) = {Head(s)} \cup InSeq(Tail(s))
    <2>1. /\ Len(s) >= 1 /\ Head(s) = s[1] /\ Tail(s) \in Seq(S) /\ Len(Tail(s)) = Len(s) - 1
          /\ \A i \in 1 .. Len(s) - 1 : Tail(s)[i] = s[i + 1]
        BY <1>1, <1>2
    <2>2. DOMAIN Tail(s) = 1 .. Len(s) - 1
        BY <2>1
    <2>3. ASSUME NEW i \in DOMAIN s PROVE s[i] \in {Head(s)} \cup InSeq(Tail(s))
        <3>1. CASE i = 1
            BY <2>1, <3>1
        <3>2. CASE i # 1
            <4>1. i - 1 \in DOMAIN Tail(s) /\ Tail(s)[i - 1] = s[i]
                BY <1>1, <2>1, <2>2, <3>2
            <4> QED
                BY <4>1 DEF InSeq
        <3> QED
            BY <3>1, <3>2
    <2>4. ASSUME NEW i \in DOMAIN Tail(s) PROVE Tail(s)[i] \in InSeq(s)
        <3>1. i + 1 \in DOMAIN s /\ Tail(s)[i] = s[i + 1]
            BY <1>1, <2>1, <2>2
        <3> QED
            BY <3>1 DEF InSeq
    <2>5. Head(s) \in InSeq(s)
        BY <1>1, <2>1 DEF InSeq
    <2>6. Head(s) \in S
        BY <1>1, <2>1
    <2> QED
        BY <2>1, <2>3, <2>4, <2>5, <2>6 DEF InSeq
<1>3. ASSUME NEW x \in S PROVE /\ Append(s, x) \in Seq(S) /\ Append(s, x) # <<>>
                               /\ InSeq(Append(s, x)) = InSeq(s) \cup {x}
                               /\ s # <<>> => Head(Append(s, x)) = Head(s)
    <2> DEFINE r == Append(s, x)
    <2>1. /\ r \in Seq(S) /\ Len(r) = Len(s) + 1 /\ r[Len(s) + 1] = x
          /\ \A i \in 1 .. Len(s) : r[i] = s[i]
        BY <1>1
    <2> HIDE DEF r
    <2>2. DOMAIN r = 1 .. Len(s) + 1
        BY <2>1
    <2>3. ASSUME NEW i \in DOMAIN r PROVE r[i] \in InSeq(s) \cup {x}
        <3>1. i \in DOMAIN s \/ i = Len(s) + 1
            BY <1>1, <2>2
        <3> QED
            BY <1>1, <2>1, <3>1 DEF InSeq
    <2>4. InSeq(s) \cup {x} \subseteq InSeq(r)
        <3>1. Len(s) + 1 \in DOMAIN r /\ \A i \in DOMAIN s : i \in DOMAIN r
            BY <1>1, <2>2
        <3> QED
            BY <1>1, <2>1, <3>1 DEF InSeq
    <2>5. InSeq(r) = InSeq(s) \cup {x}
        BY <2>3, <2>4 DEF InSeq
    <2>6. r # <<>>
        BY <1>1, <2>1
    <2>7. s # <<>> => Head(r) = Head(s)
        BY <1>1, <2>1
    <2> QED
        BY <2>1, <2>5, <2>6, <2>7 DEF r
<1> QED
    BY <1>2, <1>3

Both(s, r) == s \o r

\* What is in two sequences put together.
LEMMA InSeqBoth ==
    ASSUME NEW S, NEW s \in Seq(S), NEW r \in Seq(S)
    PROVE  Both(s, r) \in Seq(S) /\ InSeq(Both(s, r)) = InSeq(s) \cup InSeq(r)
<1>1. /\ Len(s) \in Nat /\ DOMAIN s = 1 .. Len(s) /\ Len(r) \in Nat /\ DOMAIN r = 1 .. Len(r)
      /\ s \o r \in Seq(S) /\ Len(s \o r) = Len(s) + Len(r)
    OBVIOUS
<1>2. DOMAIN (s \o r) = 1 .. Len(s) + Len(r)
    BY <1>1
<1>3. /\ \A i \in 1 .. Len(s) : (s \o r)[i] = s[i]
      /\ \A i \in 1 .. Len(r) : (s \o r)[Len(s) + i] = r[i]
    BY <1>1
<1>4. ASSUME NEW i \in DOMAIN (s \o r) PROVE (s \o r)[i] \in InSeq(s) \cup InSeq(r)
    <2>1. CASE i <= Len(s)
        BY <1>1, <1>2, <1>3, <2>1 DEF InSeq
    <2>2. CASE i > Len(s)
        <3>1. i - Len(s) \in DOMAIN r /\ Len(s) + (i - Len(s)) = i
            BY <1>1, <1>2, <2>2
        <3>2. (s \o r)[i] = r[i - Len(s)]
            BY <1>1, <1>3, <3>1
        <3> QED
            BY <3>1, <3>2 DEF InSeq
    <2> QED
        BY <1>1, <1>2, <2>1, <2>2
<1>5. InSeq(s) \subseteq InSeq(s \o r)
    BY <1>1, <1>2, <1>3 DEF InSeq
<1>6. InSeq(r) \subseteq InSeq(s \o r)
    <2>1. \A i \in DOMAIN r : Len(s) + i \in DOMAIN (s \o r) /\ (s \o r)[Len(s) + i] = r[i]
        BY <1>1, <1>2, <1>3
    <2> QED
        BY <2>1 DEF InSeq
<1>7. InSeq(s \o r) = InSeq(s) \cup InSeq(r)
    BY <1>4, <1>5, <1>6 DEF InSeq
<1> QED
    BY <1>1, <1>7 DEF Both

\* The steps that neither walk nor touch the inbox.
Elsewhere == UNCHANGED <<inbox, treeVars>> /\ (done => done')

\* The others are few.
LEMMA TreeStepsAre ==
    ASSUME [TreeNext]_allVars
    PROVE  \/ \E p \in Paths : ChangeFile(p)
           \/ \E d \in Dirs : MakeDir(d)
           \/ WalkReads \/ WalkAdds \/ WalkEnds \/ LoopIgnores \/ LoopWalks \/ TakesEvent \/ Elsewhere
<1>1. CASE UNCHANGED allVars
    BY <1>1 DEF allVars, vars, loopVars, chanVars, Elsewhere
<1>2. CASE walk = "no" /\ LoopReturns /\ UNCHANGED treeVars
    BY <1>2 DEF LoopReturns, Elsewhere
<1>3. CASE StopsWatcher
    BY <1>3 DEF StopsWatcher, Stop, loopVars, Elsewhere
<1>4. CASE (Tick \/ ConsumerStep \/ Rest) /\ UNCHANGED treeVars
    BY <1>4 DEF Tick, ConsumerStep, BeginsRestart, SkipsEvent, EndsRestart, ConsumerEnds, Rest, vars, loopVars,
        chanVars, Elsewhere
<1>5. ASSUME NEW t \in Timers, TimerStep(t), UNCHANGED treeVars PROVE Elsewhere
    BY <1>5 DEF TimerStep, Fires, CallbackTakes, chanVars, Elsewhere
<1>6. ASSUME NEW f \in Flushers, FlushStep(f), UNCHANGED treeVars PROVE Elsewhere
    BY <1>6 DEF FlushStep, Stamps, Sends, GivesUp, SendPanics, AfterFlush, chanVars, Elsewhere
<1> QED
    BY <1>1, <1>2, <1>3, <1>4, <1>5, <1>6 DEF TreeNext, TreeLoopStep

\* Nothing changes in the tree: what was met stays so.
LEMMA ElsewhereKeeps ==
    ASSUME TreeInv, Elsewhere
    PROVE  TreeInv'
<1>1. UNCHANGED <<inbox, present, added, walk, todo, names, late>> /\ (done => done')
    BY DEF Elsewhere, treeVars
<1> QED
    BY <1>1 DEF TreeInv, WalkTypes, WalkInv, KnownInv, MetInv, Met, Walking

\* A file changes: its path joins the inbox, and is no directory.
LEMMA ChangeFileKeeps ==
    ASSUME TypeOK, TreeInv, NEW p \in Paths, ChangeFile(p)
    PROVE  TreeInv'
<1>1. /\ p \notin Dirs /\ inbox' = Append(inbox, p) /\ UNCHANGED <<present, added, walk, todo, names, late, done>>
      /\ inbox \in Seq(Paths)
    BY DEF ChangeFile, Change, treeVars, chanVars, TypeOK
<1>2. /\ inbox' # <<>> /\ InSeq(inbox') = InSeq(inbox) \cup {p} /\ (inbox # <<>> => Head(inbox') = Head(inbox))
    BY <1>1, InSeqFacts
<1>3. WalkTypes' /\ WalkInv' /\ KnownInv' /\ MetInv'
    BY <1>1, <1>2 DEF TreeInv, WalkTypes, WalkInv, KnownInv, MetInv, Met, Walking
<1> QED
    BY <1>3 DEF TreeInv

\* A directory is made: the kernel reports it, or the names of its directory are still to be
\* read, or it is late.
LEMMA MakeDirKeeps ==
    ASSUME TypeOK, TreeInv, NEW d \in Dirs, MakeDir(d)
    PROVE  TreeInv'
<1>1. /\ d \notin present /\ DirOf[d] \in present /\ present' = present \cup {d}
      /\ UNCHANGED <<added, walk, todo, names, done>> /\ inbox \in Seq(Paths) /\ d \in Paths /\ d # Top
    BY TreeConstants DEF MakeDir, Change, vars, chanVars, TypeOK
<1>2. CASE DirOf[d] \in added
    <2>1. inbox' = Append(inbox, d) /\ late' = late
        BY <1>2 DEF MakeDir, Change
    <2>2. /\ inbox' # <<>> /\ InSeq(inbox') = InSeq(inbox) \cup {d} /\ (inbox # <<>> => Head(inbox') = Head(inbox))
        BY <1>1, <2>1, InSeqFacts
    <2>3. WalkTypes' /\ WalkInv' /\ KnownInv'
        BY <1>1, <2>1, <2>2 DEF TreeInv, WalkTypes, WalkInv, KnownInv, Walking
    <2>4. MetInv'
        BY <1>1, <2>1, <2>2 DEF TreeInv, MetInv, Met
    <2> QED
        BY <2>3, <2>4 DEF TreeInv
<1>3. CASE DirOf[d] \notin added
    <2>1. /\ inbox' = inbox
          /\ late' = IF names # Unread /\ Head(todo) = DirOf[d] THEN late \cup {d} ELSE late
        BY <1>3 DEF MakeDir, vars, loopVars
    <2>2. late \subseteq late' /\ late' \subseteq late \cup {d} /\ (names # Unread /\ Head(todo) = DirOf[d] => d \in late')
        BY <2>1
    <2>3. WalkTypes' /\ WalkInv' /\ KnownInv'
        BY <1>1, <2>1, <2>2 DEF TreeInv, WalkTypes, WalkInv, KnownInv, Walking
    <2>4. MetInv'
        BY <1>1, <1>3, <2>1, <2>2 DEF TreeInv, MetInv, Met
    <2> QED
        BY <2>3, <2>4 DEF TreeInv
<1> QED
    BY <1>2, <1>3

\* The names are those of what is in the directory now.
LEMMA WalkReadsKeeps ==
    ASSUME TreeInv, WalkReads
    PROVE  TreeInv'
<1>1. /\ Walking /\ todo # <<>> /\ names' \in NamesIn(Head(todo))
      /\ UNCHANGED <<inbox, present, added, walk, todo, late, done>>
    BY DEF WalkReads, vars, loopVars, chanVars
<1> DEFINE inside == {e \in present \ {Top} : DirOf[e] = Head(todo)}
<1>2. IsFiniteSet(inside) /\ inside \subseteq Dirs
    BY TreeConstants, FS_Subset DEF TreeInv, WalkTypes
<1>3. Cardinality(inside) \in Nat
    BY <1>2, FS_CardinalityType
<1>4. names' \in [1 .. Cardinality(inside) -> inside] /\ \A e \in inside : \E i \in DOMAIN names' : names'[i] = e
    BY <1>1 DEF NamesIn
<1> HIDE DEF inside
<1>5. InSeq(names') = inside /\ names' \in Seq(Dirs)
    <2>1. names' \in Seq(inside)
        BY <1>3, <1>4
    <2>2. names' \in Seq(Dirs)
        BY <1>2, <1>3, <1>4
    <2>3. DOMAIN names' = 1 .. Cardinality(inside) /\ \A i \in DOMAIN names' : names'[i] \in inside
        BY <1>4
    <2> QED
        BY <1>4, <2>2, <2>3 DEF InSeq
<1>6. inside \subseteq present /\ \A e \in present \ {Top} : DirOf[e] = Head(todo) => e \in inside
    BY DEF inside
<1>7. WalkTypes' /\ WalkInv' /\ KnownInv'
    BY <1>1, <1>5, <1>6 DEF TreeInv, WalkTypes, WalkInv, KnownInv, Walking
<1>8. MetInv'
    BY <1>1, <1>5, <1>6 DEF TreeInv, MetInv, Met
<1> QED
    BY <1>7, <1>8 DEF TreeInv

\* The directory at the head is dropped, for it is ignored, or gives way to what is in it.
LEMMA WalkAddsKeeps ==
    ASSUME TreeInv, WalkAdds
    PROVE  TreeInv'
<1> DEFINE h == Head(todo)
           rest == Tail(todo)
<1>1. /\ Walking /\ todo # <<>> /\ names # Unread /\ names' = Unread
      /\ UNCHANGED <<inbox, present, walk, late, done>>
    BY DEF WalkAdds, vars, loopVars, chanVars
<1>2. todo \in Seq(Dirs \cup {Top}) /\ names \in Seq(Dirs) /\ names \in Seq(Dirs \cup {Top})
    BY <1>1, SeqMonotonic DEF TreeInv, WalkTypes
<1>3. h \in Dirs \cup {Top} /\ rest \in Seq(Dirs \cup {Top}) /\ InSeq(todo) = {h} \cup InSeq(rest)
    BY <1>1, <1>2, InSeqFacts
<1>4. /\ Both(names, rest) \in Seq(Dirs \cup {Top})
      /\ InSeq(Both(names, rest)) = InSeq(names) \cup InSeq(rest)
    <2> HIDE DEF h, rest
    <2> QED
        BY <1>2, <1>3, InSeqBoth
<1>5. CASE h \in Ignored
    <2>1. todo' = rest /\ added' = added /\ h # Top
        BY <1>5, TreeConstants DEF WalkAdds
    <2> HIDE DEF h, rest
    <2>2. WalkTypes' /\ WalkInv' /\ KnownInv'
        BY <1>1, <1>3, <1>5, <2>1 DEF TreeInv, WalkTypes, WalkInv, KnownInv, Walking
    <2>3. MetInv'
        BY <1>1, <1>3, <1>5, <2>1 DEF TreeInv, MetInv, Met
    <2> QED
        BY <2>2, <2>3 DEF TreeInv
<1>6. CASE h \notin Ignored
    <2>1. todo' = Both(names, rest) /\ (added' = added \cup {h} \/ (done /\ added' = added))
        BY <1>6 DEF WalkAdds, Both
    <2>2. InSeq(todo') = InSeq(names) \cup InSeq(rest) /\ todo' \in Seq(Dirs \cup {Top})
        BY <1>4, <2>1
    <2>3. \A d \in present \ {Top} : DirOf[d] = h => d \in InSeq(names) \/ Met(d)
        BY <1>1 DEF TreeInv, MetInv
    <2> HIDE DEF h, rest
    <2>4. WalkTypes' /\ WalkInv' /\ KnownInv'
        BY <1>1, <1>3, <2>1, <2>2 DEF TreeInv, WalkTypes, WalkInv, KnownInv, Walking
    <2>5. ASSUME NEW d \in present \ {Top}, DirOf[d] \in added' PROVE Met(d)'
        <3>1. CASE done
            BY <1>1, <3>1 DEF Met
        <3>2. CASE ~done
            <4>1. added' = added \cup {h} /\ (d \in InSeq(names) \/ Met(d))
                BY <2>1, <2>3, <2>5, <3>2 DEF TreeInv, MetInv
            <4>2. d \in InSeq(names) \/ d \in added \cup late \cup Ignored \cup InSeq(todo) \cup InSeq(inbox)
                BY <3>2, <4>1 DEF Met
            <4> QED
                BY <1>1, <1>3, <2>2, <4>1, <4>2 DEF Met
        <3> QED
            BY <3>1, <3>2
    <2>6. MetInv'
        BY <1>1, <2>5 DEF MetInv
    <2> QED
        BY <2>4, <2>6 DEF TreeInv
<1> QED
    BY <1>5, <1>6

\* A walk that has nothing left has read no names.
LEMMA WalkEndsKeeps ==
    ASSUME TreeInv, WalkEnds
    PROVE  TreeInv'
<1>1. /\ todo = <<>> /\ UNCHANGED <<inbox, present, added, todo, names, late, done>>
      /\ walk \in {"start", "event"} /\ (walk' = "no" \/ (walk = "event" /\ walk' = "done"))
    BY DEF WalkEnds, Walking, vars, loopVars, chanVars
<1> QED
    BY <1>1 DEF TreeInv, WalkTypes, WalkInv, KnownInv, MetInv, Met, Walking

\* The loop sets out for a directory that has been made.
LEMMA LoopWalksKeeps ==
    ASSUME TypeOK, TreeInv, LoopWalks
    PROVE  TreeInv'
<1>1. /\ inbox # <<>> /\ walk = "no" /\ Head(inbox) \in Dirs \ Ignored /\ walk' = "event"
      /\ todo' = <<Head(inbox)>> /\ UNCHANGED <<inbox, present, added, names, late, done>>
      /\ inbox \in Seq(Paths)
    BY DEF LoopWalks, Selects, vars, loopVars, chanVars, TypeOK
<1>2. todo = <<>> /\ names = Unread
    BY <1>1 DEF TreeInv, WalkInv, Walking
<1>3. InSeq(inbox) = {Head(inbox)} \cup InSeq(Tail(inbox))
    BY <1>1, InSeqFacts
<1> DEFINE h == Head(inbox)
<1>4. h \in Dirs \cup {Top} /\ todo \in Seq(Dirs \cup {Top})
    BY <1>1 DEF TreeInv, WalkTypes
<1>5. todo' \in Seq(Dirs \cup {Top}) /\ InSeq(todo') = {h} /\ InSeq(todo) = {} /\ todo' # <<>>
    BY <1>1, <1>2, <1>4 DEF InSeq
<1> HIDE DEF h
<1>6. WalkTypes' /\ WalkInv' /\ KnownInv'
    BY <1>1, <1>2, <1>3, <1>5 DEF h, TreeInv, WalkTypes, WalkInv, KnownInv, Walking
<1>7. MetInv'
    BY <1>1, <1>2, <1>5 DEF TreeInv, MetInv, Met
<1> QED
    BY <1>6, <1>7 DEF TreeInv

\* The loop takes an event, or drops it, and no longer owes its directory a walk.
LEMMA TakingKeeps ==
    ASSUME TypeOK, TreeInv, LoopIgnores \/ TakesEvent
    PROVE  TreeInv'
<1>1. /\ inbox' = Tail(inbox) /\ inbox # <<>> /\ walk \in {"no", "done"} /\ walk' = "no"
      /\ UNCHANGED <<present, added, todo, names, late, done>> /\ inbox \in Seq(Paths)
    BY DEF LoopIgnores, TakesEvent, Selects, FirstOfBatch, KeepDebouncing, FlushNow, LoopTakes, treeVars, chanVars,
        TypeOK, TreeInv, WalkTypes
<1>2. todo = <<>> /\ names = Unread
    BY <1>1 DEF TreeInv, WalkInv, Walking
<1>3. InSeq(inbox) = {Head(inbox)} \cup InSeq(inbox')
    BY <1>1, InSeqFacts
<1>4. Head(inbox) \in Ignored \/ Head(inbox) \notin Dirs \/ done \/ Head(inbox) \in added
    <2>1. CASE walk = "done"
        <3>1. InSeq(todo) = {}
            BY <1>2 DEF InSeq
        <3> QED
            BY <2>1, <3>1 DEF TreeInv, WalkInv
    <2> QED
        BY <1>1, <2>1 DEF LoopIgnores, TakesEvent
<1>5. WalkTypes' /\ WalkInv' /\ KnownInv'
    BY <1>1, <1>2, <1>3 DEF TreeInv, WalkTypes, WalkInv, KnownInv, Walking
<1>6. present \ {Top} \subseteq Dirs
    BY DEF TreeInv, WalkTypes
<1>7. MetInv'
    BY <1>1, <1>2, <1>3, <1>4, <1>6 DEF TreeInv, MetInv, Met
<1> QED
    BY <1>5, <1>7 DEF TreeInv

\* It starts with the walk of the top directory.
LEMMA TreeStarts ==
    ASSUME TreeInit
    PROVE  TreeInv
<1>1. /\ present = {Top} /\ added = {} /\ walk = "start" /\ todo = <<Top>> /\ names = Unread /\ late = {}
      /\ inbox = <<>>
    BY DEF TreeInit, Init
<1>2. InSeq(todo) = {Top} /\ InSeq(inbox) = {} /\ todo # <<>> /\ todo \in Seq(Dirs \cup {Top})
    BY <1>1 DEF InSeq
<1> QED
    BY <1>1, <1>2 DEF TreeInv, WalkTypes, WalkInv, KnownInv, MetInv, Met, Walking

\* What the proofs know of every state: the loop's part and the tree's.
LEMMA TreeInvAlways == TreeSpec => [](LoopInv /\ TreeInv)
<1>1. TreeInit => LoopInv /\ TreeInv
    BY LoopStarts, TreeStarts DEF TreeInit
<1>2. LoopInv /\ TreeInv /\ [TreeNext]_allVars => TreeInv'
    BY TreeStepsAre, ElsewhereKeeps, ChangeFileKeeps, MakeDirKeeps, WalkReadsKeeps, WalkAddsKeeps, WalkEndsKeeps,
       LoopWalksKeeps, TakingKeeps DEF LoopInv
<1>3. LoopInv /\ TreeInv /\ [TreeNext]_allVars => LoopInv'
    BY LoopInvStep
<1> QED
    BY <1>1, <1>2, <1>3, PTL DEF TreeSpec

\* With d, Upwards has what each of its directories but Top is in, and nothing that is not in
\* every set of the kind.
LEMMA UpwardsAre ==
    ASSUME NEW d \in Dirs \cup {Top}
    PROVE  /\ d \in Upwards(d)
           /\ \A x \in Upwards(d) \ {Top} : DirOf[x] \in Upwards(d)
           /\ \A S \in SUBSET (Dirs \cup {Top}) :
                d \in S /\ (\A x \in S \ {Top} : DirOf[x] \in S) => Upwards(d) \subseteq S
<1>1. d \in Upwards(d)
    BY DEF Upwards
<1>2. ASSUME NEW x \in Upwards(d) \ {Top} PROVE DirOf[x] \in Upwards(d)
    <2>1. x \in Dirs /\ DirOf[x] \in Dirs \cup {Top}
        BY <1>2, TreeConstants DEF Upwards
    <2> QED
        BY <1>2, <2>1 DEF Upwards
<1> QED
    BY <1>1, <1>2 DEF Upwards

\* Of a directory that is not watched, none above it is, up to the top, which is.
LEMMA QuietSeesAll ==
    ASSUME TreeInv
    PROVE  SeenUnlessLate
<1> SUFFICES ASSUME Quiet, NEW d \in present, d \notin added, Upwards(d) \cap (late \cup Ignored) = {}
             PROVE  FALSE
    BY DEF SeenUnlessLate
<1>1. /\ walk = "no" /\ inbox = <<>> /\ ~done /\ todo = <<>> /\ InSeq(todo) = {} /\ InSeq(inbox) = {}
    BY DEF Quiet, TreeInv, WalkInv, Walking, InSeq
<1>2. Top \in added /\ d \in Dirs
    BY <1>1 DEF TreeInv, WalkTypes, WalkInv
<1>3. \A e \in present \ {Top} : DirOf[e] \in added => e \in added \cup late \cup Ignored
    BY <1>1 DEF TreeInv, MetInv, Met
<1> DEFINE S == (Upwards(d) \cap present) \ added
<1>4. d \in S /\ S \in SUBSET (Dirs \cup {Top})
    BY <1>2, UpwardsAre DEF TreeInv, WalkTypes
<1>5. ASSUME NEW x \in S \ {Top} PROVE DirOf[x] \in S
    <2>1. DirOf[x] \in Upwards(d)
        BY <1>2, <1>5, UpwardsAre
    <2>2. DirOf[x] \in present
        BY <1>5 DEF TreeInv, KnownInv
    <2>3. DirOf[x] \notin added
        BY <1>3, <1>5
    <2> QED
        BY <2>1, <2>2, <2>3
<1>6. Top \in Upwards(d)
    BY <1>2, TreeConstants
<1> HIDE DEF S
<1>7. Top \in S
    BY <1>2, <1>4, <1>5, <1>6, UpwardsAre
<1> QED
    BY <1>2, <1>7 DEF S

\* Every variable has its type, of the loop and of the tree, for any of the constants.
THEOREM TreeTyping == TreeSpec => []TreeTypeOK
<1>1. LoopInv /\ TreeInv => TreeTypeOK
    BY DEF LoopInv, TreeInv, WalkTypes, TreeTypeOK
<1> QED
    BY <1>1, TreeInvAlways, PTL

\* A pending change always has a timer that will flush it, whenever the loop rearms, flushes
\* itself or a callback that was not stopped in time takes what is pending (fswatch.go:119-165).
THEOREM PendingIsAlwaysScheduled == TreeSpec => []PendingIsScheduled
<1>1. LoopInv /\ TreeInv => PendingIsScheduled
    BY DEF LoopInv
<1> QED
    BY <1>1, TreeInvAlways, PTL

\* No change is ever reported twice, by the loop and by however many callbacks
\* (fswatch.go:132-135, 150-153).
THEOREM NeverAnEventWithoutAChange == TreeSpec => []NoEventWithoutAChange
<1>1. LoopInv /\ TreeInv => NoEventWithoutAChange
    BY DEF LoopInv
<1> QED
    BY <1>1, TreeInvAlways, PTL

\* In any tree, with any names in any order: a directory that is not watched when all is
\* quiet was late, ignored, or below one that was (fswatch.go:104-113, fswatch_paths.go:28-75).
THEOREM AlwaysSeenUnlessLate == TreeSpec => []SeenUnlessLate
<1>1. LoopInv /\ TreeInv => SeenUnlessLate
    BY QuietSeesAll
<1> QED
    BY <1>1, TreeInvAlways, PTL
==============================================================================
