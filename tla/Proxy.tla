-------------------------------- MODULE Proxy --------------------------------
(***************************************************************************)
(* The proxy between the client and the child server                       *)
(* (src/internal/proxy) with its restart queue and the state store         *)
(* (src/internal/statestore/store.go).                                     *)
(*                                                                         *)
(* One goroutine, that of loop(), handles one message at a time.  The      *)
(* others read and write p.state and the child transport without a lock:   *)
(* Shutdown may come, and the child may end, between a handler's look at   *)
(* the state, each of its writes to the child, and its own assignment of   *)
(* the state, so these are steps of their own.                             *)
(* The child transport is the package's Transport interface: it follows    *)
(* the child across a restart, as the stubs of the package's tests do.     *)
(* What run.go makes of it is the subject of HydraRun.                     *)
(*                                                                         *)
(* A client request is told by its id, its position in what the client     *)
(* sends.  Requests that hydra makes itself carry the ids "reinit" and     *)
(* "resub-<uri>"; here both have id 0.                                     *)
(***************************************************************************)
EXTENDS FiniteSets, ToolLists, Selection

CONSTANTS
    Uris,           \* resources to subscribe to
    NoUri,          \* the uri of a request that has none
    ClientSends,    \* of each request, the kinds that the client may send
    QueueMax,       \* q.max
    QueueTTL,       \* q.ttl, in ticks; 0 keeps requests for ever
    HydraTools,     \* the names of p.hydraTools
    ChildTools,     \* the lists with which a child may answer tools/list
    CollisionPolicy, \* opts.CollisionPolicy
    MaxRequests,    \* bound: requests the client sends
    MaxRestarts,    \* bound: calls of handleFileChange
    MaxTime         \* bound: ticks of the clock

ASSUME ProxyConstants ==
    /\ NoUri \notin Uris /\ IsFiniteSet(Uris)
    /\ ClientSends \in [1 .. MaxRequests -> SUBSET {"initialize", "subscribe", "unsubscribe", "list", "call"}]
    /\ QueueMax \in Nat \ {0}
    /\ QueueTTL \in Nat
    /\ \A list \in ChildTools \cup {HydraTools} : Len(list) \in Nat /\ DOMAIN list = 1 .. Len(list)
    /\ MaxRequests \in Nat /\ MaxRestarts \in Nat /\ MaxTime \in Nat

VARIABLES
    state,          \* p.state
    looping,        \* loop() has not returned
    handler,        \* where loop() is: at its select or in a handler
    outbox,         \* what the handler has still to write to the child
    queue,          \* q.buf: requests with the time of their arrival
    initialized,    \* the store has initialize params
    subs,           \* the URIs in the store's subscriptions
    toChild,        \* written to the child and not yet read by it
    fromChild,      \* written by the child and not yet read by the proxy
    work,           \* requests the child has read and not answered
    childSubs,      \* what the child itself believes is subscribed
    gone,           \* the child has ended, so that a write to it fails
    answers,        \* history: the ids of the responses the client got to its requests
    written,        \* history: the ids of the client's requests written to a child
    rejected,       \* history: the ids the proxy answered with an error of its own
    expired,        \* history: the ids that Drain dropped
    lost,           \* history: the ids whose write to the child failed
    told,           \* history: the entries of the last tools/list_changed
    hungUp,         \* the child transport was closed by Shutdown
    shut,           \* Shutdown was called
    now,
    requests,       \* the requests the client has sent so far
    restarts        \* bound: restarts so far

storeVars == <<initialized, subs>>
loopVars == <<looping, handler, outbox>>
childVars == <<toChild, fromChild, work, childSubs, gone>>
clientVars == <<answers, requests>>
histVars == <<written, rejected, expired, lost, told>>
shutVars == <<shut, hungUp>>
vars == <<state, loopVars, queue, storeVars, childVars, clientVars, histVars, shutVars, now, restarts>>

Kinds == {"initialize", "subscribe", "unsubscribe", "list", "call"}
Msg(id, kind, uri) == [id |-> id, kind |-> kind, uri |-> uri]
NeedsUri(kind) == kind \in {"subscribe", "unsubscribe"}
Messages == {m \in [id : 0 .. MaxRequests, kind : Kinds, uri : Uris \cup {NoUri}] :
                NeedsUri(m.kind) <=> m.uri \in Uris}

\* A request waits with the time of its arrival.
Items == [msg : Messages, at : 0 .. MaxTime]

\* The tools are those of the result of a tools/list.
Response(m, ok, tools) == [to |-> m, ok |-> ok, tools |-> tools]
Responses == [to : Messages, ok : BOOLEAN, tools : ChildTools \cup {<<>>}]

Init ==
    /\ state = "stopped" /\ looping = FALSE
    /\ handler = "select" /\ outbox = <<>>
    /\ queue = <<>>
    /\ initialized = FALSE /\ subs = {}
    /\ toChild = <<>> /\ fromChild = <<>> /\ work = {} /\ childSubs = {} /\ gone = FALSE
    /\ answers = <<>> /\ requests = 0
    /\ written = <<>> /\ rejected = {} /\ expired = {} /\ lost = {} /\ told = {}
    /\ hungUp = FALSE /\ shut = FALSE
    /\ now = 0 /\ restarts = 0

\* supervisor.Start succeeds or not; StateStarting ends before loop() begins.
Run ==
    /\ state = "stopped" /\ ~looping /\ ~shut
    /\ \/ state' = "running" /\ looping' = TRUE
       \/ state' = "failed" /\ UNCHANGED looping
    /\ UNCHANGED <<handler, outbox, queue, storeVars, childVars, clientVars, histVars, shutVars, now,
                   restarts>>

\* loop() takes the next of its inputs only when no handler is under way.
Selecting == looping /\ handler = "select"

(***************************************************************************)
(* Writing to the child                                                    *)
(***************************************************************************)
\* A write fails when the transport was closed or nobody reads the pipe any more.
Broken == hungUp \/ gone

\* The histories tell the client's requests; hydra's own have the id 0.
Counted(ids, id) == IF id = 0 THEN ids ELSE Append(ids, id)

\* The handlers write one message after the other; a request is the only one of its
\* handler, and after the writes of a restart there is its response to forward.
WritesOne ==
    /\ outbox # <<>>
    /\ outbox' = Tail(outbox)
    /\ handler' = IF handler = "forward" THEN "select" ELSE handler
    /\ UNCHANGED <<state, looping, queue, storeVars, fromChild, work, childSubs, gone, clientVars,
                   rejected, expired, told, shutVars, now, restarts>>

WriteToChild ==
    /\ ~Broken
    /\ WritesOne
    /\ LET m == Head(outbox)
       IN  /\ toChild' = Append(toChild, m)
           /\ written' = Counted(written, m.id)
    /\ UNCHANGED lost

\* The error is logged, or ignored by the replay: what was to be written is gone.
WriteFails ==
    /\ Broken
    /\ WritesOne
    /\ lost' = lost \cup ({Head(outbox).id} \ {0})
    /\ UNCHANGED <<toChild, written>>

(***************************************************************************)
(* Messages of the client                                                  *)
(***************************************************************************)
AddSubscription(m) == m.kind = "subscribe" /\ subs' = subs \cup {m.uri}
RemoveSubscription(m) == m.kind = "unsubscribe" /\ subs' = subs \ {m.uri}

\* updateStateStore, whatever becomes of the request afterwards.
StoreTakes(m) ==
    /\ initialized' = (initialized \/ m.kind = "initialize")
    /\ \/ AddSubscription(m) \/ RemoveSubscription(m)
       \/ ~NeedsUri(m.kind) /\ UNCHANGED subs

\* The client gets an error of hydra's own under the request's id.
ErrorResponse(id) == Append(answers, id)

ClientRequest(m) ==
    /\ Selecting
    /\ m.id = requests + 1 /\ m.kind \in ClientSends[m.id]
    /\ requests' = requests + 1
    /\ StoreTakes(m)
    /\ UNCHANGED <<state, looping, written, expired, lost, told, childVars, shutVars, now, restarts>>

\* What follows is the write alone, whatever becomes of the state.
ForwardRequest(m) ==
    /\ ClientRequest(m)
    /\ state = "running"
    /\ handler' = "forward"
    /\ outbox' = <<m>>
    /\ UNCHANGED <<queue, answers, rejected>>

HasRoom == Len(queue) < QueueMax

Enqueued(m) == Append(queue, [msg |-> m, at |-> now])

EnqueueRequest(m) ==
    /\ ClientRequest(m)
    /\ state \in {"starting", "restarting"}
    /\ HasRoom
    /\ queue' = Enqueued(m)
    /\ UNCHANGED <<handler, outbox, answers, rejected>>

\* Queue full while restarting, or not running at all.
RejectRequest(m) ==
    /\ ClientRequest(m)
    /\ \/ state \in {"starting", "restarting"} /\ ~HasRoom
       \/ state \in {"stopped", "failed"}
    /\ answers' = ErrorResponse(m.id)
    /\ rejected' = rejected \cup {m.id}
    /\ UNCHANGED <<queue, handler, outbox>>

(***************************************************************************)
(* Messages of the child                                                   *)
(***************************************************************************)
Expired(item) == QueueTTL > 0 /\ now - item.at > QueueTTL
Valid(item) == ~Expired(item)
Drained == LET items == Selected(queue, {item \in Items : Valid(item)})
           IN  [i \in DOMAIN items |-> items[i].msg]

\* GetSubscriptions lists all keys of a map, in any order.
Orders(S) == {s \in [1 .. Cardinality(S) -> S] : \A x \in S : \E i \in DOMAIN s : s[i] = x}

ReplayInit == IF initialized THEN <<Msg(0, "initialize", NoUri)>> ELSE <<>>
\* Mutated form: the subscriptions are not replayed.
NoResubscribe(order) == <<>>

Resubscribe(order) == [i \in DOMAIN order |-> Msg(0, "subscribe", order[i])]

\* Mutated form: the queue is drained before the state is replayed.
ResumedDrainFirst(order) == Drained \o ReplayInit \o Resubscribe(order)

Resumed(order) == ReplayInit \o Resubscribe(order) \o Drained

\* Mutated form: Drain does not empty the buffer.
QueueAfterDrainKept == queue

QueueAfterDrain == <<>>

\* Mutated form: any result is taken for the initialize response.
ResumesInAnyState(r) == r.ok

Resumes(r) == state \in {"starting", "restarting"} /\ r.ok

\* While restarting, the first result of whatever request ends the restart: the store
\* and the queue are written to the child, and until that is done the response waits.
InitializeResponse ==
    /\ Selecting
    /\ fromChild # <<>> /\ Resumes(Head(fromChild))
    /\ handler' = "resume"
    /\ \E order \in Orders(subs) : outbox' = Resumed(order)
    /\ expired' = expired \cup {queue[i].msg.id : i \in {j \in DOMAIN queue : Expired(queue[j])}}
    /\ queue' = QueueAfterDrain
    /\ UNCHANGED <<state, looping, storeVars, childVars, clientVars, written, rejected, lost, told, shutVars,
                   now, restarts>>

\* Only when all is written does the handler set the state, whatever it is by then.
StateAfterReplay == IF handler = "resume" THEN "running" ELSE state

\* tryMergeTools has something to do.
HasTools(r) == r.ok /\ r.to.kind = "list" /\ HydraTools # <<>>
Collides(r) == HasTools(r) /\ Collision(r.tools, HydraTools, CollisionPolicy)
CannotMerge(r) == HasTools(r) /\ (Collides(r) \/ BadPolicy(CollisionPolicy))

\* Every response is forwarded, the ones to hydra's own requests included; a
\* merged tool list is forwarded under the same id, after a tools/list_changed that
\* names the same tools.
ForwardResponse(r) ==
    /\ ~CannotMerge(r)
    /\ state' = StateAfterReplay
    /\ answers' = Counted(answers, r.to.id)
    /\ told' = IF HasTools(r) THEN MergeTools(r.tools, HydraTools, CollisionPolicy) ELSE told
    /\ UNCHANGED rejected

\* A list that cannot be merged is answered with an error, and a collision fails the
\* proxy; then the original response is forwarded all the same.
MergeFails(r) ==
    /\ CannotMerge(r)
    /\ state' = IF Collides(r) THEN "failed" ELSE StateAfterReplay
    /\ answers' = Append(ErrorResponse(r.to.id), r.to.id)
    /\ rejected' = rejected \cup {r.to.id}
    /\ UNCHANGED told

ChildMessage ==
    /\ fromChild # <<>>
    /\ \/ Selecting /\ ~Resumes(Head(fromChild))
       \/ handler = "resume" /\ outbox = <<>>
    /\ handler' = "select"
    /\ fromChild' = Tail(fromChild)
    /\ ForwardResponse(Head(fromChild)) \/ MergeFails(Head(fromChild))
    /\ UNCHANGED <<looping, outbox, queue, storeVars, toChild, work, childSubs, gone, requests, written,
                   expired, lost, shutVars, now, restarts>>

(***************************************************************************)
(* Restart, errors and shutdown                                            *)
(***************************************************************************)
crashLoop == state' = "failed"

\* handleFileChange, up to its look at the state.
FileChange ==
    /\ Selecting /\ state = "running"
    /\ restarts < MaxRestarts
    /\ restarts' = restarts + 1
    /\ handler' = "reload"
    /\ UNCHANGED <<state, looping, outbox, queue, storeVars, childVars, clientVars, histVars, shutVars, now>>

\* supervisor.Restart blocks, and returns with a new child or an error.  Of the old
\* child's last messages, one may already be in readLoop's hands.
Restart ==
    /\ handler = "reload"
    /\ handler' = "select"
    /\ \/ /\ state' = "restarting"
          /\ toChild' = <<>> /\ work' = {} /\ childSubs' = {} /\ gone' = FALSE
          /\ \/ fromChild' = <<>>
             \/ fromChild # <<>> /\ fromChild' = <<Head(fromChild)>>
       \/ crashLoop /\ UNCHANGED childVars
    /\ UNCHANGED <<looping, outbox, queue, storeVars, clientVars, histVars, shutVars, now, restarts>>

\* A reader fails at the end of the file; a transport that was closed drops what it
\* had still to deliver.
ReadFails == fromChild = <<>> \/ hungUp

\* The child's end of file, or a read error: loop() returns.
ChildReadError ==
    /\ Selecting
    /\ ReadFails
    /\ crashLoop
    /\ looping' = FALSE
    /\ UNCHANGED <<handler, outbox, queue, storeVars, childVars, clientVars, histVars, shutVars, now,
                   restarts>>

\* The client's end of file: loop() returns nil and the state stays.
ClientEOF ==
    /\ Selecting
    /\ looping' = FALSE
    /\ UNCHANGED <<state, handler, outbox, queue, storeVars, childVars, clientVars, histVars, shutVars, now,
                   restarts>>

\* Shutdown of a proxy that runs, on another goroutine and without a lock: first the
\* state ...
Shutdown ==
    /\ looping /\ ~shut
    /\ shut' = TRUE
    /\ state' = "stopped"
    /\ UNCHANGED <<loopVars, queue, storeVars, childVars, clientVars, histVars, hungUp, now, restarts>>

\* ... then the transport.  What is left is supervisor.Stop, after which the child ends
\* as in ChildDies; stopCh is not closed, and loop() goes on.
ShutdownCloses ==
    /\ looping /\ shut /\ ~hungUp
    /\ hungUp' = TRUE
    /\ UNCHANGED <<state, loopVars, queue, storeVars, childVars, clientVars, histVars, shut, now, restarts>>

(***************************************************************************)
(* The child server and the clock, followed only while loop() runs: after  *)
(* that nobody reads what a child answers                                  *)
(***************************************************************************)
ChildReads ==
    /\ looping
    /\ toChild # <<>>
    /\ toChild' = Tail(toChild)
    /\ work' = work \cup {Head(toChild)}
    /\ childSubs' = CASE Head(toChild).kind = "subscribe" -> childSubs \cup {Head(toChild).uri}
                      [] Head(toChild).kind = "unsubscribe" -> childSubs \ {Head(toChild).uri}
                      [] OTHER -> childSubs
    /\ UNCHANGED <<state, loopVars, queue, storeVars, fromChild, gone, clientVars, histVars, shutVars, now,
                   restarts>>

\* Requests are answered in any order, with a result or an error.
ChildAnswers(m) ==
    /\ looping
    /\ m \in work
    /\ work' = work \ {m}
    /\ \/ fromChild' = Append(fromChild, Response(m, FALSE, <<>>))
       \/ m.kind # "list" /\ fromChild' = Append(fromChild, Response(m, TRUE, <<>>))
       \/ /\ m.kind = "list"
          /\ \E tools \in ChildTools : fromChild' = Append(fromChild, Response(m, TRUE, tools))
    /\ UNCHANGED <<state, loopVars, queue, storeVars, toChild, childSubs, gone, clientVars, histVars,
                   shutVars, now, restarts>>

\* The child ends: of itself, or because the supervisor stops it.
ChildDies ==
    /\ looping /\ ~gone
    /\ gone' = TRUE
    /\ toChild' = <<>> /\ work' = {} /\ childSubs' = {}
    /\ UNCHANGED <<state, loopVars, queue, storeVars, fromChild, clientVars, histVars, shutVars, now, restarts>>

\* Only what is queued looks at the clock.
Tick ==
    /\ queue # <<>>
    /\ now < MaxTime
    /\ now' = now + 1
    /\ UNCHANGED <<state, loopVars, queue, storeVars, childVars, clientVars, histVars, shutVars, restarts>>

\* Nobody has to send, to change a file or to die.
Rest ==
    /\ ~looping \/ (fromChild = <<>> /\ toChild = <<>> /\ work = {})
    /\ UNCHANGED vars

Handle(m) == ForwardRequest(m) \/ EnqueueRequest(m) \/ RejectRequest(m)

Next ==
    \/ Run
    \/ \E m \in Messages : Handle(m)
    \/ WriteToChild \/ WriteFails
    \/ InitializeResponse \/ ChildMessage
    \/ FileChange \/ Restart \/ ChildReadError \/ ClientEOF
    \/ Shutdown \/ ShutdownCloses
    \/ ChildReads \/ ChildDies
    \/ \E m \in Messages : ChildAnswers(m)
    \/ Tick
    \/ Rest

Spec == Init /\ [][Next]_vars

\* The loop handles what arrives, the end of the child among it, and the child reads and
\* answers.
Fairness ==
    /\ WF_vars(WriteToChild \/ WriteFails) /\ WF_vars(InitializeResponse \/ ChildMessage)
    /\ WF_vars(Restart) /\ WF_vars(Broken /\ ChildReadError)
    /\ WF_vars(ChildReads)
    /\ \A m \in Messages : WF_vars(ChildAnswers(m))

FairSpec == Spec /\ Fairness
-------------------------------------------------------------------------------
\* Every variable has its type, and the queue its bound (queue.go:43-54).
TypeOK ==
    /\ state \in {"stopped", "running", "restarting", "failed"}
    /\ handler \in {"select", "forward", "resume", "reload"} /\ outbox \in Seq(Messages)
    /\ gone \in BOOLEAN /\ looping \in BOOLEAN /\ initialized \in BOOLEAN /\ hungUp \in BOOLEAN /\ shut \in BOOLEAN
    /\ queue \in Seq(Items) /\ Len(queue) <= QueueMax
    /\ subs \subseteq Uris /\ childSubs \subseteq Uris
    /\ toChild \in Seq(Messages) /\ fromChild \in Seq(Responses) /\ work \subseteq Messages
    /\ answers \in Seq(0 .. MaxRequests) /\ written \in Seq(1 .. MaxRequests)
    /\ rejected \subseteq 1 .. MaxRequests /\ expired \subseteq 1 .. MaxRequests
    /\ lost \subseteq 1 .. MaxRequests
    /\ \A entry \in told : entry.owner \in {"hydra", "child"}
    /\ now \in 0 .. MaxTime /\ requests \in 0 .. MaxRequests /\ restarts \in 0 .. MaxRestarts

QueuedIds == [i \in DOMAIN queue |-> queue[i].msg.id]
Ids(s) == {s[i] : i \in DOMAIN s}

\* Through restarts, queueing and draining, a child is sent the client's requests
\* in the client's order and none of them twice (message_handler.go:19-34,
\* forwarding.go:6-13).
OrderIsKept ==
    LET line == written \o QueuedIds
    IN  \A i, j \in DOMAIN line : i < j => line[i] < line[j]

\* What is replayed reaches a new child before any request of the client, the
\* initialize request first (statemachine.go:28-41).
ReplayComesFirst ==
    \A i, j \in DOMAIN toChild : i < j /\ toChild[j].id = 0 =>
        /\ toChild[i].id = 0
        /\ toChild[j].kind # "initialize"

\* As long as no request was refused, a child that lives and has read everything has
\* the subscriptions that the store would replay to its successor, although requests
\* expire, are both replayed and drained, and are lost with an earlier child
\* (state_updates.go:10-39, statemachine.go:66-87).
ChildIsUpToDate ==
    /\ state = "running" /\ ~Broken
    /\ \A i \in DOMAIN toChild : ~NeedsUri(toChild[i].kind)
    /\ \A i \in DOMAIN outbox : ~NeedsUri(outbox[i].kind)
SubscriptionsSurvive == ChildIsUpToDate /\ rejected = {} => childSubs = subs

\* Each request of the client was written to a child, is in the hands of the handler
\* that writes it, waits in the queue, was refused, expired in the queue, or was lost in
\* a write that failed, and only one of the six, wherever Shutdown and the child's end
\* fall between the steps of the handlers; a tools/list that could not be merged was
\* refused after it was written (message_handler.go:19-34, forwarding.go:6-24,
\* queue.go:56-66, proxy.go:87-94).
Merging == {id \in rejected : id \in Ids(written)}
InHand == {outbox[i].id : i \in DOMAIN outbox} \ {0}
Fates == <<Ids(written), InHand, Ids(QueuedIds), rejected \ Merging, expired, lost>>
NothingVanishes ==
    /\ 1 .. requests = UNION Ids(Fates)
    /\ \A i, j \in DOMAIN Fates : i # j => Fates[i] \cap Fates[j] = {}

\* No two tools of which the client is told have one name, whatever tools a child comes
\* back with after a reload (tools.go:11-59).
ToldNamesAreDistinct == \A x, y \in told : x.name = y.name => x = y

\* The client gets at most one response to a request, but for a list that could not be
\* merged, see RefusalIsTheAnswer (tool_injection.go:44-55).
AnsweredOnce ==
    \A i, j \in DOMAIN answers :
        answers[i] = answers[j] /\ answers[i] \notin Merging => i = j

\* A proxy that has failed stays so until it is shut down, and no request reaches
\* the child any more: no late response of a child, to a replayed request or to one
\* of before the failure, revives it (statemachine.go:28-31, message_handler.go:19-34).
FailedIsFinal ==
    [][state = "failed" => state' \in {"failed", "stopped"} /\ Len(toChild') <= Len(toChild)]_vars

(***************************************************************************)
(* What the documents say and the code does not do                         *)
(***************************************************************************)
\* docs/ARCHITECTURE.md:84-88: RESTARTING ends in RUNNING or FAILED.
RestartEnds == (state = "restarting" /\ looping) ~> (state # "restarting" \/ ~looping)

\* docs/ARCHITECTURE.md:161-175: on the way to FAILED the queue is flushed.
FailedMeansQueueFlushed == state = "failed" => queue = <<>>

\* docs/ARCHITECTURE.md:82: a clean shutdown ends in STOPPED.
ShutdownIsClean == shut => state = "stopped"

\* docs/INJECTABLE_TOOLS.md:41: on a collision of tools hydra refuses; the client that
\* got the error does not get the child's tool list as well.
RefusalIsTheAnswer == \A id \in rejected : Cardinality({i \in DOMAIN answers : answers[i] = id}) = 1

\* docs/testing/TEST_SCENARIOS.md:530: what is sent during a restart is answered.
NothingExpires == expired = {}

\* docs/INJECTABLE_TOOLS.md:42: under "warn" the child's tool is allowed.
WarnKeepsTheChildsTool ==
    \A child \in ChildTools : \A i \in DOMAIN child :
        \E entry \in MergeTools(child, HydraTools, "warn") : entry.name = child[i]

\* README.md:40-42: resources/subscribe requests are tracked and preserved.
SubscriptionsTracked == ChildIsUpToDate => childSubs = subs
===============================================================================
