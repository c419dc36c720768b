----------------------------- MODULE ProxyProofs -----------------------------
(***************************************************************************)
(* For a queue of any size, any number of requests, restarts and           *)
(* subscriptions: what Proxy's run checks of its invariants.               *)
(***************************************************************************)
EXTENDS Proxy, SelectionProofs, FiniteSetTheorems

(***************************************************************************)
(* The states of the proxy, and where its loop is in each.  A queue is     *)
(* only kept until the handler that ends the restart has drained it, and   *)
(* until then nothing is sent to the new child.                            *)
(***************************************************************************)
StateInv ==
    /\ hungUp => shut
    /\ state = "stopped" /\ ~shut => ~looping /\ queue = <<>> /\ toChild = <<>> /\ subs = {} /\ childSubs = {}
    /\ state = "running" => queue = <<>>
    /\ state = "restarting" => handler \in {"select", "resume"}
    /\ state = "restarting" /\ handler = "select" => toChild = <<>> /\ childSubs = {}
    /\ state = "failed" => handler = "select"
    /\ handler # "select" => looping /\ queue = <<>>
    /\ handler \in {"select", "reload"} => outbox = <<>>
    /\ handler = "forward" => Len(outbox) = 1

\* What hydra asks a child of itself.
OwnKinds == {"initialize", "subscribe"}
Plain(m) == m.id = 0 => m.kind \in OwnKinds
PlainInv ==
    /\ \A i \in DOMAIN outbox : Plain(outbox[i])
    /\ \A i \in DOMAIN toChild : Plain(toChild[i])
    /\ \A m \in work : Plain(m)
    /\ \A i \in DOMAIN fromChild : Plain(fromChild[i].to)

\* The queue is in the order of the ids and of the arrival, behind all that was written.
QueueInv ==
    /\ \A i \in DOMAIN queue : queue[i].msg.id \in 1 .. requests /\ queue[i].at <= now
    /\ \A i, j \in DOMAIN queue : i < j => queue[i].msg.id < queue[j].msg.id /\ queue[i].at <= queue[j].at
WrittenInv ==
    /\ \A i \in DOMAIN written : written[i] <= requests
    /\ \A i, j \in DOMAIN written : i < j => written[i] < written[j]
    /\ \A i \in DOMAIN written, j \in DOMAIN queue : written[i] < queue[j].msg.id

\* What a handler has in hand is in the order of the ids, behind all that was written.
OutboxInv ==
    /\ \A i \in DOMAIN outbox : outbox[i].id <= requests
    /\ \A i, j \in DOMAIN outbox : i < j /\ outbox[i].id # 0 /\ outbox[j].id # 0 => outbox[i].id < outbox[j].id
    /\ \A i \in DOMAIN written, j \in DOMAIN outbox : outbox[j].id # 0 => written[i] < outbox[j].id

\* The fate of each request, as NothingVanishes has it; what could not be merged was written.
Waiting == {queue[i].msg.id : i \in DOMAIN queue}
FateInv ==
    /\ 1 .. requests = Ids(written) \cup InHand \cup Waiting \cup rejected \cup expired \cup lost
    /\ Waiting \cap rejected = {} /\ Waiting \cap expired = {} /\ Waiting \cap lost = {}
    /\ expired \cap rejected = {} /\ expired \cap Ids(written) = {} /\ expired \cap lost = {}
    /\ InHand \cap rejected = {} /\ InHand \cap expired = {} /\ InHand \cap lost = {}
    /\ InHand \cap Ids(written) = {} /\ InHand \cap Waiting = {}
    /\ lost \cap rejected = {} /\ lost \cap Ids(written) = {}

\* Each of the client's requests is at one place at most, on its way to the child and back.
IdsToChild == {toChild[i].id : i \in DOMAIN toChild} \ {0}
IdsAtWork == {m.id : m \in work} \ {0}
IdsFromChild == {fromChild[i].to.id : i \in DOMAIN fromChild} \ {0}
Answered == Ids(answers) \ {0}

OnceInv ==
    /\ \A i, j \in DOMAIN toChild : toChild[i].id = toChild[j].id /\ toChild[i].id # 0 => i = j
    /\ \A m, n \in work : m.id = n.id /\ m.id # 0 => m = n
    /\ \A i, j \in DOMAIN fromChild :
        fromChild[i].to.id = fromChild[j].to.id /\ fromChild[i].to.id # 0 => i = j
PlaceInv ==
    /\ IdsToChild \cup IdsAtWork \cup IdsFromChild \subseteq Ids(written)
    /\ Answered \subseteq Ids(written) \cup rejected
    /\ IdsToChild \cap IdsAtWork = {} /\ IdsToChild \cap IdsFromChild = {}
    /\ IdsToChild \cap Answered = {} /\ IdsAtWork \cap IdsFromChild = {}
    /\ IdsAtWork \cap Answered = {} /\ IdsFromChild \cap Answered = {}

\* What is replayed comes before the client's requests, in the pipe and in hand.
ReplayFirst(messages) ==
    \A i, j \in DOMAIN messages : i < j /\ messages[j].id = 0 =>
        messages[i].id = 0 /\ messages[j].kind # "initialize"
ReplayInv ==
    /\ ReplayFirst(toChild) /\ ReplayFirst(outbox)
    /\ \A i \in DOMAIN toChild, j \in DOMAIN outbox :
        outbox[j].id = 0 => toChild[i].id = 0 /\ outbox[j].kind # "initialize"

\* The last of the messages about a URI says whether it is in S ...
Says(messages, S) ==
    \A u \in Uris, i \in DOMAIN messages :
        messages[i].uri = u /\ (\A j \in DOMAIN messages : i < j => messages[j].uri # u)
            => (messages[i].kind = "subscribe" <=> u \in S)
\* ... and of what is in none, C and S agree.
Agree(messages, C, S) ==
    \A u \in Uris : (\A i \in DOMAIN messages : messages[i].uri # u) => (u \in C <=> u \in S)
\* What is on its way to the child, in the pipe and in hand.
Way == toChild \o outbox
Queued == [i \in DOMAIN queue |-> queue[i].msg]
SubsInv ==
    rejected = {} /\ ~Broken =>
        /\ state = "running" \/ handler = "resume" => Says(Way, subs) /\ Agree(Way, childSubs, subs)
        /\ state = "restarting" /\ handler = "select" => Says(Queued, subs)

IInv ==
    /\ TypeOK /\ StateInv /\ PlainInv /\ QueueInv /\ WrittenInv /\ OutboxInv /\ FateInv /\ OnceInv /\ PlaceInv
    /\ SubsInv /\ ReplayInv /\ AnsweredOnce

\* f tells where in the queue each of the drained requests was.
DrainedBy(f) ==
    /\ f \in [1 .. Len(Drained) -> 1 .. Len(queue)]
    /\ \A i, j \in 1 .. Len(Drained) : i < j => f[i] < f[j]
    /\ \A i \in 1 .. Len(Drained) : Drained[i] = queue[f[i]].msg /\ Valid(queue[f[i]])
    /\ \A k \in 1 .. Len(queue) : Valid(queue[k]) => \E i \in 1 .. Len(Drained) : f[i] = k

\* The drained requests are those of the queue that have not expired, in its order.
LEMMA DrainKeepsOrder ==
    ASSUME queue \in Seq(Items)
    PROVE  Drained \in Seq(Messages) /\ Len(Drained) \in Nat /\ \E f : DrainedBy(f)
<1> DEFINE K == {item \in Items : Valid(item)}
           items == Selected(queue, K)
<1>1. items \in Seq(Items \cap K)
    BY SelectedType
<1>2. PICK f : Takes(f, queue, K)
    BY SelectedTakes
<1>3. Drained = [i \in 1 .. Len(items) |-> items[i].msg]
    <2>1. DOMAIN items = 1 .. Len(items)
        <3> HIDE DEF items
        <3> QED
            BY <1>1
    <2> QED
        BY <2>1 DEF Drained
<1>4. /\ f \in [1 .. Len(items) -> 1 .. Len(queue)]
      /\ \A i, j \in 1 .. Len(items) : i < j => f[i] < f[j]
      /\ \A i \in 1 .. Len(items) : items[i] = queue[f[i]] /\ queue[f[i]] \in K
      /\ \A k \in 1 .. Len(queue) : queue[k] \in K => \E i \in 1 .. Len(items) : f[i] = k
    BY <1>2 DEF Takes
<1>5. \A k \in 1 .. Len(queue) : Valid(queue[k]) => queue[k] \in K
    OBVIOUS
<1>6. \A k \in 1 .. Len(queue) : queue[k] \in K => Valid(queue[k])
    OBVIOUS
<1> HIDE DEF items, K
<1>7. Len(items) \in Nat
    BY <1>1
<1>8. \A i \in 1 .. Len(items) : items[i].msg \in Messages
    BY <1>1 DEF Items
<1>9. Drained \in Seq(Messages) /\ Len(Drained) = Len(items)
    BY <1>3, <1>7, <1>8
<1>10. \A i \in 1 .. Len(items) : Drained[i] = items[i].msg
    BY <1>3
<1> HIDE DEF Drained
<1>11. DrainedBy(f)
    BY <1>4, <1>5, <1>6, <1>9, <1>10 DEF DrainedBy
<1> QED
    BY <1>7, <1>9, <1>11

\* What is sent to a new child before the queue.
Replay(order) == ReplayInit \o Resubscribe(order)

\* The replay are hydra's own requests: the initialize first, and one for each subscription.
LEMMA ReplayIs ==
    ASSUME IsFiniteSet(Uris), NoUri \notin Uris, subs \subseteq Uris, MaxRequests \in Nat,
           initialized \in BOOLEAN, NEW order \in Orders(subs)
    PROVE  /\ Replay(order) \in Seq(Messages) /\ Len(Replay(order)) \in Nat
           /\ \A i \in 1 .. Len(Replay(order)) :
                /\ Replay(order)[i].id = 0
                /\ \/ Replay(order)[i].kind = "initialize" /\ i = 1 /\ Replay(order)[i].uri = NoUri
                   \/ Replay(order)[i].kind = "subscribe" /\ Replay(order)[i].uri \in subs
           /\ \A u \in subs : \E i \in 1 .. Len(Replay(order)) : Replay(order)[i].uri = u
<1> DEFINE n == Cardinality(subs)
           a == ReplayInit
           b == Resubscribe(order)
<1>1. n \in Nat
    BY FS_Subset, FS_CardinalityType
<1>2. order \in [1 .. n -> subs] /\ \A x \in subs : \E i \in 1 .. n : order[i] = x
    BY DEF Orders
<1> HIDE DEF n
<1>3. Msg(0, "initialize", NoUri) \in Messages /\ \A u \in Uris : Msg(0, "subscribe", u) \in Messages
    BY DEF Msg, Messages, Kinds, NeedsUri
<1>4. /\ b \in Seq(Messages) /\ Len(b) = n
      /\ \A i \in 1 .. n : b[i] = Msg(0, "subscribe", order[i]) /\ order[i] \in subs
    BY <1>1, <1>2, <1>3 DEF Resubscribe
<1>5. /\ a \in Seq(Messages) /\ Len(a) \in {0, 1}
      /\ \A i \in 1 .. Len(a) : a[i] = Msg(0, "initialize", NoUri) /\ i = 1
    BY <1>3 DEF ReplayInit
<1> HIDE DEF a, b
<1>6. /\ a \o b \in Seq(Messages) /\ Len(a \o b) = Len(a) + n
      /\ \A i \in 1 .. Len(a \o b) : (a \o b)[i] = IF i <= Len(a) THEN a[i] ELSE b[i - Len(a)]
    BY <1>1, <1>4, <1>5, ConcatProperties
<1>7. \A i \in 1 .. Len(a \o b) :
        \/ i \in 1 .. Len(a) /\ (a \o b)[i] = Msg(0, "initialize", NoUri) /\ i = 1
        \/ \E u \in subs : (a \o b)[i] = Msg(0, "subscribe", u)
    BY <1>1, <1>4, <1>5, <1>6
<1>8. ASSUME NEW u \in subs
      PROVE  \E i \in 1 .. Len(a \o b) : (a \o b)[i].uri = u
    <2>1. PICK i \in 1 .. n : order[i] = u
        BY <1>2
    <2>2. Len(a) + i \in 1 .. Len(a \o b) /\ (a \o b)[Len(a) + i] = Msg(0, "subscribe", u)
        BY <1>1, <1>4, <1>5, <1>6, <2>1
    <2> QED
        BY <2>2 DEF Msg
<1>9. Len(a \o b) \in Nat
    BY <1>1, <1>5, <1>6
<1>10. ASSUME NEW i \in 1 .. Len(a \o b)
       PROVE  /\ (a \o b)[i].id = 0
              /\ \/ (a \o b)[i].kind = "initialize" /\ i = 1 /\ (a \o b)[i].uri = NoUri
                 \/ (a \o b)[i].kind = "subscribe" /\ (a \o b)[i].uri \in subs
    <2> DEFINE x == (a \o b)[i]
    <2>1. CASE i = 1 /\ x = Msg(0, "initialize", NoUri)
        BY <2>1 DEF Msg
    <2>2. CASE \E u \in subs : x = Msg(0, "subscribe", u)
        <3> HIDE DEF x
        <3>1. x.id = 0 /\ x.kind = "subscribe" /\ x.uri \in subs
            BY <2>2 DEF Msg
        <3> QED
            BY <3>1 DEF x
    <2> QED
        BY <1>7, <2>1, <2>2
<1>11. Replay(order) = a \o b
    BY DEF Replay, a, b
<1> QED
    BY <1>6, <1>8, <1>9, <1>10, <1>11

\* The drained requests are the ones of the queue that have not expired, by their ids.
LEMMA DrainedIs ==
    ASSUME queue \in Seq(Items), QueueInv, requests \in Nat
    PROVE  /\ Drained \in Seq(Messages) /\ Len(Drained) \in Nat
           /\ \A i \in 1 .. Len(Drained) : Drained[i].id \in 1 .. requests
           /\ \A i, j \in 1 .. Len(Drained) : i < j => Drained[i].id < Drained[j].id
           /\ \A i \in 1 .. Len(Drained) : \E k \in 1 .. Len(queue) :
                Valid(queue[k]) /\ Drained[i] = queue[k].msg
           /\ \A k \in 1 .. Len(queue) : Valid(queue[k]) =>
                \E i \in 1 .. Len(Drained) : Drained[i] = queue[k].msg
<1>1. Drained \in Seq(Messages) /\ Len(Drained) \in Nat
    BY DrainKeepsOrder
<1>2. PICK f : DrainedBy(f)
    BY DrainKeepsOrder
<1>3. DOMAIN queue = 1 .. Len(queue) /\ DOMAIN Drained = 1 .. Len(Drained)
    BY <1>1
<1>4. /\ f \in [1 .. Len(Drained) -> 1 .. Len(queue)]
      /\ \A i, j \in 1 .. Len(Drained) : i < j => f[i] < f[j]
      /\ \A i \in 1 .. Len(Drained) : Drained[i] = queue[f[i]].msg /\ Valid(queue[f[i]])
      /\ \A k \in 1 .. Len(queue) : Valid(queue[k]) => \E i \in 1 .. Len(Drained) : f[i] = k
    BY <1>2 DEF DrainedBy
<1>5. \A i \in 1 .. Len(Drained) : Drained[i].id \in 1 .. requests
    BY <1>3, <1>4 DEF QueueInv
<1>6. \A i, j \in 1 .. Len(Drained) : i < j => Drained[i].id < Drained[j].id
    <2> SUFFICES ASSUME NEW i \in 1 .. Len(Drained), NEW j \in 1 .. Len(Drained), i < j
                 PROVE  Drained[i].id < Drained[j].id
        OBVIOUS
    <2>1. f[i] \in DOMAIN queue /\ f[j] \in DOMAIN queue /\ f[i] < f[j]
        BY <1>3, <1>4
    <2>2. queue[f[i]].msg.id < queue[f[j]].msg.id
        BY <2>1 DEF QueueInv
    <2> QED
        BY <1>4, <2>2
<1> QED
    BY <1>1, <1>3, <1>4, <1>5, <1>6

\* What ends a restart is put in hand: the store's state, and then the queue.
LEMMA ResumingIs ==
    ASSUME TypeOK, InitializeResponse
    PROVE  /\ state = "restarting" /\ handler = "select" /\ handler' = "resume" /\ looping
           /\ \E order \in Orders(subs) : outbox' = Replay(order) \o Drained
           /\ queue' = <<>>
           /\ expired' = expired \cup {queue[i].msg.id : i \in {j \in DOMAIN queue : Expired(queue[j])}}
           /\ UNCHANGED <<state, looping, initialized, subs, toChild, fromChild, work, childSubs, gone, answers,
                          requests, written, rejected, lost, told, shut, hungUp, now, restarts>>
<1>1. state = "restarting" /\ handler = "select" /\ handler' = "resume" /\ looping
    BY DEF InitializeResponse, Selecting, Resumes, TypeOK
<1>2. PICK order \in Orders(subs) : outbox' = Resumed(order)
    BY DEF InitializeResponse
<1>3. outbox' = Replay(order) \o Drained
    BY <1>2 DEF Resumed, Replay
<1>4. queue' = <<>>
    BY DEF InitializeResponse, QueueAfterDrain
<1>5. expired' = expired \cup {queue[i].msg.id : i \in {j \in DOMAIN queue : Expired(queue[j])}}
    BY Zenon DEF InitializeResponse
<1>6. UNCHANGED <<state, looping, initialized, subs, toChild, fromChild, work, childSubs, gone, answers,
                  requests, written, rejected, lost, told, shut, hungUp, now, restarts>>
    BY DEF InitializeResponse, storeVars, childVars, clientVars, shutVars
<1> QED
    BY <1>1, <1>3, <1>4, <1>5, <1>6, Zenon

(***************************************************************************)
(* The steps                                                               *)
(***************************************************************************)
\* Steps that leave alone what was sent, queued, answered or kept of the requests.
Calm ==
    \/ Run \/ FileChange \/ ChildReadError \/ ClientEOF \/ Shutdown \/ ShutdownCloses \/ Tick
    \/ UNCHANGED vars

\* Nothing but the state, the clock and where the loop is may differ after one.
LEMMA CalmIs ==
    ASSUME Calm
    PROVE  /\ UNCHANGED <<queue, outbox, initialized, subs, toChild, fromChild, work, childSubs, gone, answers,
                          requests, written, rejected, expired, lost, told>>
           /\ now' \in {now, now + 1}
<1>1. CASE Run \/ FileChange
    BY <1>1 DEF Run, FileChange, storeVars, childVars, clientVars, histVars
<1>2. CASE ChildReadError \/ ClientEOF
    BY <1>2 DEF ChildReadError, ClientEOF, storeVars, childVars, clientVars, histVars
<1>3. CASE Shutdown \/ ShutdownCloses
    BY <1>3 DEF Shutdown, ShutdownCloses, loopVars, storeVars, childVars, clientVars, histVars
<1>4. CASE Tick \/ UNCHANGED vars
    BY <1>4 DEF Tick, vars, loopVars, storeVars, childVars, clientVars, histVars
<1> QED
    BY <1>1, <1>2, <1>3, <1>4 DEF Calm

\* The cases of a step.
LEMMA StepIs ==
    ASSUME [Next]_vars
    PROVE  \/ Calm
           \/ \E m \in Messages : Handle(m)
           \/ WriteToChild \/ WriteFails \/ InitializeResponse \/ ChildMessage \/ Restart
           \/ ChildReads \/ ChildDies
           \/ \E m \in Messages : ChildAnswers(m)
BY DEF Next, Rest, Calm

\* A new request is the next one, and not hydra's own.
LEMMA RequestIs ==
    ASSUME TypeOK, NEW m \in Messages, Handle(m)
    PROVE  /\ m.id = requests + 1 /\ requests' = requests + 1 /\ requests \in Nat
           /\ m.id # 0 /\ m.id \in 1 .. MaxRequests
           /\ looping /\ handler = "select"
           /\ UNCHANGED <<state, looping, hungUp, shut, written, expired, lost, told, toChild, fromChild, work,
                          childSubs, gone, now, restarts>>
<1>1. ClientRequest(m)
    BY DEF Handle, ForwardRequest, EnqueueRequest, RejectRequest
<1>2. m.id \in 0 .. MaxRequests /\ requests \in Nat
    BY ProxyConstants DEF Messages, TypeOK
<1> QED
    BY <1>1, <1>2, ProxyConstants DEF ClientRequest, Selecting, childVars, shutVars

\* The first message in hand is written or lost, and the others stay.
LEMMA WritesOneIs ==
    ASSUME TypeOK, StateInv, WritesOne
    PROVE  /\ 1 \in DOMAIN outbox /\ outbox[1] \in Messages /\ Head(outbox) = outbox[1]
           /\ outbox' \in Seq(Messages) /\ outbox' = Tail(outbox)
           /\ \A i \in DOMAIN outbox' :
                i \in Nat /\ i # 0 /\ i + 1 \in DOMAIN outbox /\ outbox'[i] = outbox[i + 1]
           /\ \A i \in DOMAIN outbox : i \in Nat /\ (i = 1 \/ i - 1 \in DOMAIN outbox')
           /\ handler \in {"forward", "resume"} /\ looping /\ queue = <<>>
           /\ handler = "forward" => handler' = "select" /\ outbox' = <<>>
           /\ handler = "resume" => handler' = "resume"
           /\ UNCHANGED <<state, looping, queue, initialized, subs, fromChild, work, childSubs, gone, answers,
                          requests, rejected, expired, told, shut, hungUp, now, restarts>>
<1>1. outbox \in Seq(Messages) /\ outbox # <<>> /\ outbox' = Tail(outbox)
    BY DEF TypeOK, WritesOne
<1>2. Len(outbox) \in Nat /\ Len(outbox) > 0 /\ Head(outbox) = outbox[1] /\ outbox[1] \in Messages
    BY <1>1
<1>3. outbox' \in Seq(Messages) /\ Len(outbox') = Len(outbox) - 1
        /\ \A i \in 1 .. Len(outbox') : outbox'[i] = outbox[i + 1]
    BY <1>1, <1>2
<1>4. DOMAIN outbox = 1 .. Len(outbox) /\ DOMAIN outbox' = 1 .. Len(outbox')
    BY <1>1, <1>3
<1>5. handler \in {"forward", "resume"} /\ looping /\ queue = <<>>
    BY <1>1 DEF TypeOK, StateInv
<1>6. handler = "forward" => handler' = "select" /\ outbox' = <<>>
    BY <1>2, <1>3 DEF StateInv, WritesOne
<1>7. handler = "resume" => handler' = "resume"
    BY DEF WritesOne
<1>8. UNCHANGED <<state, looping, queue, initialized, subs, fromChild, work, childSubs, gone, answers,
                  requests, rejected, expired, told, shut, hungUp, now, restarts>>
    BY DEF WritesOne, storeVars, clientVars, shutVars
<1> QED
    BY <1>1, <1>2, <1>3, <1>4, <1>5, <1>6, <1>7, <1>8

\* It is the only one in hand with its id.
LEMMA HandIs ==
    ASSUME TypeOK, StateInv, OutboxInv, WritesOne
    PROVE  /\ InHand = InHand' \cup ({outbox[1].id} \ {0})
           /\ outbox[1].id \notin InHand'
<1>1. /\ 1 \in DOMAIN outbox /\ outbox[1] \in Messages
      /\ \A i \in DOMAIN outbox' :
            i \in Nat /\ i # 0 /\ i + 1 \in DOMAIN outbox /\ outbox'[i] = outbox[i + 1]
      /\ \A i \in DOMAIN outbox : i \in Nat /\ (i = 1 \/ i - 1 \in DOMAIN outbox')
    BY WritesOneIs
<1>2. InHand' \subseteq InHand
    BY <1>1 DEF InHand
<1>3. \A x \in InHand : x = outbox[1].id \/ x \in InHand'
    <2> SUFFICES ASSUME NEW i \in DOMAIN outbox, i # 1
                 PROVE  \E k \in DOMAIN outbox' : outbox'[k].id = outbox[i].id
        BY DEF InHand
    <2>1. i - 1 \in DOMAIN outbox' /\ (i - 1) + 1 = i
        BY <1>1
    <2>2. outbox'[i - 1] = outbox[i]
        BY <1>1, <2>1
    <2> QED
        BY <2>1, <2>2
<1>4. ASSUME NEW i \in DOMAIN outbox', outbox'[i].id = outbox[1].id, outbox[1].id # 0
      PROVE  FALSE
    <2>1. i + 1 \in DOMAIN outbox /\ 1 < i + 1 /\ outbox[i + 1].id = outbox[1].id
        BY <1>1, <1>4
    <2>2. outbox[1].id < outbox[i + 1].id
        BY <1>1, <1>4, <2>1 DEF OutboxInv
    <2>3. outbox[1].id \in Nat
        BY <1>1, ProxyConstants DEF Messages
    <2> QED
        BY <2>1, <2>2, <2>3
<1>5. outbox[1].id \notin InHand'
    BY <1>4 DEF InHand
<1>6. outbox[1].id # 0 => outbox[1].id \in InHand
    BY <1>1 DEF InHand
<1>7. 0 \notin InHand
    BY DEF InHand
<1> QED
    BY <1>2, <1>3, <1>5, <1>6, <1>7

\* A write that succeeds appends to the pipe.
LEMMA WriteIs ==
    ASSUME TypeOK, StateInv, WriteToChild
    PROVE  /\ toChild' = Append(toChild, outbox[1]) /\ toChild' \in Seq(Messages)
           /\ DOMAIN toChild = 1 .. Len(toChild) /\ Len(toChild) \in Nat
           /\ DOMAIN toChild' = 1 .. Len(toChild) + 1
           /\ toChild'[Len(toChild) + 1] = outbox[1]
           /\ \A i \in DOMAIN toChild : toChild'[i] = toChild[i]
           /\ outbox[1].id = 0 => written' = written
           /\ outbox[1].id # 0 => written' = Append(written, outbox[1].id)
           /\ WritesOne /\ ~Broken /\ lost' = lost
<1>1. WritesOne /\ ~Broken /\ lost' = lost
    BY DEF WriteToChild
<1>2. Head(outbox) = outbox[1] /\ outbox[1] \in Messages
    BY <1>1, WritesOneIs
<1>3. toChild' = Append(toChild, outbox[1]) /\ toChild \in Seq(Messages)
    BY <1>2 DEF WriteToChild, TypeOK
<1>4. written' = Counted(written, outbox[1].id)
    BY <1>2 DEF WriteToChild
<1> QED
    BY <1>1, <1>2, <1>3, <1>4 DEF Counted

\* The message handled is one of a child, and is taken from the pipe; what else it may
\* change is the state.
LEMMA ResponseIs ==
    ASSUME TypeOK, StateInv, ChildMessage
    PROVE  /\ Head(fromChild) \in Responses /\ fromChild' = Tail(fromChild)
           /\ Len(fromChild) \in Nat /\ Len(fromChild) > 0 /\ Head(fromChild) = fromChild[1]
           /\ fromChild' \in Seq(Responses) /\ Len(fromChild') = Len(fromChild) - 1
           /\ \A i \in 1 .. Len(fromChild') : fromChild'[i] = fromChild[i + 1]
           /\ handler \in {"select", "resume"} /\ outbox = <<>> /\ handler' = "select" /\ looping
           /\ handler = "select" => state' \in {state, "failed"}
           /\ handler = "resume" => state' \in {"running", "failed"}
           /\ UNCHANGED <<looping, outbox, queue, initialized, subs, toChild, work, childSubs, gone, requests,
                          written, expired, lost, shut, hungUp, now, restarts>>
<1>1. /\ Head(fromChild) \in Responses /\ fromChild' = Tail(fromChild)
      /\ Len(fromChild) \in Nat /\ Len(fromChild) > 0 /\ Head(fromChild) = fromChild[1]
      /\ fromChild' \in Seq(Responses) /\ Len(fromChild') = Len(fromChild) - 1
      /\ \A i \in 1 .. Len(fromChild') : fromChild'[i] = fromChild[i + 1]
    BY DEF TypeOK, ChildMessage
<1>2. handler \in {"select", "resume"} /\ outbox = <<>> /\ handler' = "select" /\ looping
    BY DEF ChildMessage, Selecting, StateInv
<1>3. /\ handler = "select" => state' \in {state, "failed"}
      /\ handler = "resume" => state' \in {"running", "failed"}
    BY DEF ChildMessage, ForwardResponse, MergeFails, StateAfterReplay
<1>4. UNCHANGED <<looping, outbox, queue, initialized, subs, toChild, work, childSubs, gone, requests,
                  written, expired, lost, shut, hungUp, now, restarts>>
    BY DEF ChildMessage, storeVars, shutVars
<1> QED
    BY <1>1, <1>2, <1>3, <1>4

\* A restart brings a new child, to which nothing was sent, or the proxy fails.
LEMMA RestartIs ==
    ASSUME TypeOK, StateInv, Restart
    PROVE  /\ handler = "reload" /\ handler' = "select" /\ outbox = <<>> /\ queue = <<>> /\ looping
           /\ \/ /\ state' = "restarting" /\ toChild' = <<>> /\ work' = {} /\ childSubs' = {} /\ gone' = FALSE
                 /\ fromChild' = <<>> \/ (fromChild # <<>> /\ fromChild' = <<Head(fromChild)>>)
              \/ state' = "failed" /\ UNCHANGED <<toChild, fromChild, work, childSubs, gone>>
           /\ UNCHANGED <<looping, outbox, queue, initialized, subs, answers, requests, written, rejected, expired,
                          lost, told, shut, hungUp, now, restarts>>
<1>1. handler = "reload" /\ handler' = "select" /\ outbox = <<>> /\ queue = <<>> /\ looping
    BY DEF Restart, StateInv
<1>2. \/ /\ state' = "restarting" /\ toChild' = <<>> /\ work' = {} /\ childSubs' = {} /\ gone' = FALSE
         /\ fromChild' = <<>> \/ (fromChild # <<>> /\ fromChild' = <<Head(fromChild)>>)
      \/ state' = "failed" /\ UNCHANGED <<toChild, fromChild, work, childSubs, gone>>
    BY Zenon DEF Restart, crashLoop, childVars
<1>3. UNCHANGED <<looping, outbox, queue, initialized, subs, answers, requests, written, rejected, expired,
                  lost, told, shut, hungUp, now, restarts>>
    BY DEF Restart, storeVars, clientVars, histVars, shutVars
<1> QED
    BY <1>1, <1>2, <1>3

\* The child takes the first message of its pipe.
LEMMA ReadIs ==
    ASSUME TypeOK, ChildReads
    PROVE  /\ 1 \in DOMAIN toChild /\ toChild[1] \in Messages /\ Head(toChild) = toChild[1]
           /\ toChild' \in Seq(Messages) /\ toChild' = Tail(toChild)
           /\ Len(toChild) \in Nat /\ Len(toChild') = Len(toChild) - 1
           /\ \A i \in DOMAIN toChild' :
                i \in Nat /\ i # 0 /\ i + 1 \in DOMAIN toChild /\ toChild'[i] = toChild[i + 1]
           /\ \A i \in DOMAIN toChild : i = 1 \/ i - 1 \in DOMAIN toChild'
           /\ work' = work \cup {toChild[1]} /\ looping
           /\ UNCHANGED <<state, looping, handler, outbox, queue, initialized, subs, fromChild, gone, answers,
                          requests, written, rejected, expired, lost, told, shut, hungUp, now, restarts>>
<1>1. /\ toChild \in Seq(Messages) /\ toChild # <<>> /\ toChild' = Tail(toChild)
      /\ work' = work \cup {Head(toChild)} /\ looping
    BY DEF TypeOK, ChildReads
<1>2. Len(toChild) \in Nat /\ Len(toChild) > 0 /\ Head(toChild) = toChild[1] /\ toChild[1] \in Messages
    BY <1>1
<1>3. toChild' \in Seq(Messages) /\ Len(toChild') = Len(toChild) - 1
        /\ \A i \in 1 .. Len(toChild') : toChild'[i] = toChild[i + 1]
    BY <1>1, <1>2
<1>4. DOMAIN toChild = 1 .. Len(toChild) /\ DOMAIN toChild' = 1 .. Len(toChild')
    BY <1>1, <1>3
<1>5. UNCHANGED <<state, looping, handler, outbox, queue, initialized, subs, fromChild, gone, answers,
                  requests, written, rejected, expired, lost, told, shut, hungUp, now, restarts>>
    BY DEF ChildReads, loopVars, storeVars, clientVars, histVars, shutVars
<1> QED
    BY <1>1, <1>2, <1>3, <1>4, <1>5

\* The child's end empties its pipe.
LEMMA DeathIs ==
    ASSUME ChildDies
    PROVE  /\ gone' = TRUE /\ toChild' = <<>> /\ work' = {} /\ childSubs' = {} /\ looping
           /\ UNCHANGED <<state, looping, handler, outbox, queue, initialized, subs, fromChild, answers,
                          requests, written, rejected, expired, lost, told, shut, hungUp, now, restarts>>
BY DEF ChildDies, loopVars, storeVars, clientVars, histVars, shutVars

\* A child answers one of the requests it has read.
LEMMA AnswerIs ==
    ASSUME NEW m \in Messages, ChildAnswers(m)
    PROVE  /\ m \in work /\ work' = work \ {m}
           /\ \E x \in Responses : fromChild' = Append(fromChild, x) /\ x.to = m
           /\ UNCHANGED <<state, looping, handler, outbox, queue, initialized, subs, toChild, childSubs, gone,
                          answers, requests, written, rejected, expired, lost, told, shut, hungUp, now, restarts>>
<1>1. /\ Response(m, FALSE, <<>>) \in Responses /\ Response(m, FALSE, <<>>).to = m
      /\ \A tools \in ChildTools \cup {<<>>} :
            Response(m, TRUE, tools) \in Responses /\ Response(m, TRUE, tools).to = m
    BY DEF Response, Responses
<1>2. \/ fromChild' = Append(fromChild, Response(m, FALSE, <<>>))
      \/ \E tools \in ChildTools \cup {<<>>} : fromChild' = Append(fromChild, Response(m, TRUE, tools))
    BY DEF ChildAnswers
<1>3. \E x \in Responses : fromChild' = Append(fromChild, x) /\ x.to = m
    BY <1>1, <1>2
<1> QED
    BY <1>3 DEF ChildAnswers, loopVars, storeVars, clientVars, histVars, shutVars

(***************************************************************************)
(* Types                                                                   *)
(***************************************************************************)
\* A sequence with one more element.
LEMMA OneMore ==
    ASSUME NEW S, NEW s \in Seq(S), NEW x \in S
    PROVE  Append(s, x) \in Seq(S)
OBVIOUS

\* At first nothing was sent or kept.
LEMMA InitTypes == Init => TypeOK
<1> SUFFICES ASSUME Init PROVE TypeOK
    OBVIOUS
<1>1. /\ queue \in Seq(Items) /\ Len(queue) <= QueueMax /\ outbox \in Seq(Messages)
      /\ toChild \in Seq(Messages) /\ fromChild \in Seq(Responses)
      /\ answers \in Seq(0 .. MaxRequests) /\ written \in Seq(1 .. MaxRequests)
    BY ProxyConstants DEF Init
<1>2. now \in 0 .. MaxTime /\ requests \in 0 .. MaxRequests /\ restarts \in 0 .. MaxRestarts
    BY ProxyConstants DEF Init
<1> QED
    BY <1>1, <1>2 DEF Init, TypeOK

\* A request is put in hand, queued or refused with its type.
LEMMA RequestTypes ==
    ASSUME TypeOK, NEW m \in Messages, Handle(m)
    PROVE  TypeOK'
<1>1. m.id \in 0 .. MaxRequests /\ (m.kind = "subscribe" => m.uri \in Uris)
    BY DEF Messages, NeedsUri
<1>2. ClientRequest(m)
    BY DEF Handle, ForwardRequest, EnqueueRequest, RejectRequest
<1>3. m.id = requests + 1 /\ requests' = requests + 1 /\ m.id \in 1 .. MaxRequests
    BY RequestIs
<1>4. subs' \subseteq Uris /\ initialized' \in BOOLEAN
    BY <1>1, <1>2 DEF TypeOK, ClientRequest, StoreTakes, AddSubscription, RemoveSubscription
<1>5. UNCHANGED <<state, looping, hungUp, shut, written, expired, lost, told, toChild, fromChild, work, childSubs,
                  gone, now, restarts>>
    BY RequestIs
<1>6. CASE ForwardRequest(m)
    <2>1. outbox' \in Seq(Messages) /\ handler' = "forward"
        BY <1>6 DEF ForwardRequest
    <2> QED
        BY <1>3, <1>4, <1>5, <1>6, <2>1, ProxyConstants DEF TypeOK, ForwardRequest
<1>7. CASE EnqueueRequest(m)
    <2>1. [msg |-> m, at |-> now] \in Items
        BY DEF Items, TypeOK
    <2>2. queue' \in Seq(Items) /\ Len(queue') <= QueueMax
        BY <1>7, <2>1, ProxyConstants DEF TypeOK, EnqueueRequest, Enqueued, HasRoom
    <2> QED
        BY <1>3, <1>4, <1>5, <1>7, <2>2, ProxyConstants DEF TypeOK, EnqueueRequest
<1>8. CASE RejectRequest(m)
    <2>1. answers' \in Seq(0 .. MaxRequests) /\ rejected' \subseteq 1 .. MaxRequests
        BY <1>1, <1>3, <1>8 DEF TypeOK, RejectRequest, ErrorResponse
    <2> QED
        BY <1>3, <1>4, <1>5, <1>8, <2>1, ProxyConstants DEF TypeOK, RejectRequest
<1> QED
    BY <1>6, <1>7, <1>8 DEF Handle

\* A write moves a message of the client or of hydra, and keeps its type.
LEMMA WriteTypes ==
    ASSUME TypeOK, StateInv, WriteToChild \/ WriteFails
    PROVE  TypeOK'
<1>1. WritesOne
    BY DEF WriteToChild, WriteFails
<1>2. /\ outbox[1] \in Messages /\ Head(outbox) = outbox[1] /\ outbox' \in Seq(Messages)
      /\ handler' \in {"select", "resume"}
      /\ UNCHANGED <<state, looping, queue, initialized, subs, fromChild, work, childSubs, gone, answers,
                     requests, rejected, expired, told, shut, hungUp, now, restarts>>
    BY <1>1, WritesOneIs
<1>3. outbox[1].id \in 0 .. MaxRequests
    BY <1>2 DEF Messages
<1>4. CASE WriteToChild
    <2>1. toChild' \in Seq(Messages) /\ lost' = lost
        BY <1>4, WriteIs
    <2>2. written' \in Seq(1 .. MaxRequests)
        <3>1. written \in Seq(1 .. MaxRequests)
            BY DEF TypeOK
        <3>2. /\ outbox[1].id = 0 => written' = written
              /\ outbox[1].id # 0 => written' = Append(written, outbox[1].id)
            BY <1>4, WriteIs
        <3>3. outbox[1].id # 0 => outbox[1].id \in 1 .. MaxRequests
            BY <1>3, ProxyConstants
        <3> QED
            BY <3>1, <3>2, <3>3, OneMore, Zenon
    <2> QED
        BY <1>2, <2>1, <2>2 DEF TypeOK
<1>5. CASE WriteFails
    <2>1. lost' = lost \cup ({outbox[1].id} \ {0}) /\ UNCHANGED <<toChild, written>>
        <3>1. lost' = lost \cup ({Head(outbox).id} \ {0}) /\ UNCHANGED <<toChild, written>>
            BY <1>5 DEF WriteFails
        <3>2. Head(outbox) = outbox[1]
            BY <1>2
        <3> QED
            BY <3>1, <3>2
    <2>2. outbox[1].id # 0 => outbox[1].id \in 1 .. MaxRequests
        BY <1>3, ProxyConstants
    <2>3. lost' \subseteq 1 .. MaxRequests
        BY <2>1, <2>2 DEF TypeOK
    <2> QED
        BY <1>2, <2>1, <2>3 DEF TypeOK
<1> QED
    BY <1>4, <1>5

\* What ends a restart is in hand with its type: hydra's own requests and the client's.
LEMMA ResumingTypes ==
    ASSUME TypeOK, QueueInv, InitializeResponse
    PROVE  TypeOK'
<1>1. PICK order \in Orders(subs) : outbox' = Replay(order) \o Drained
    BY ResumingIs
<1>2. Replay(order) \in Seq(Messages)
    BY ReplayIs, ProxyConstants DEF TypeOK
<1>3. requests \in Nat /\ 1 .. requests \subseteq 1 .. MaxRequests
    BY ProxyConstants DEF TypeOK
<1>4. Drained \in Seq(Messages)
    BY <1>3, DrainedIs DEF TypeOK
<1>5. outbox' \in Seq(Messages)
    <2> HIDE DEF Drained
    <2> QED
        BY <1>1, <1>2, <1>4, ConcatProperties
<1>6. expired' \subseteq 1 .. MaxRequests
    <2>1. expired' = expired \cup {queue[i].msg.id : i \in {j \in DOMAIN queue : Expired(queue[j])}}
        BY ResumingIs, Zenon
    <2>2. expired \subseteq 1 .. MaxRequests /\ \A i \in DOMAIN queue : queue[i].msg.id \in 1 .. MaxRequests
        BY <1>3 DEF TypeOK, QueueInv
    <2> QED
        BY <2>1, <2>2
<1>7. queue' \in Seq(Items) /\ Len(queue') <= QueueMax /\ handler' = "resume"
    BY ResumingIs, ProxyConstants
<1>8. UNCHANGED <<state, looping, initialized, subs, toChild, fromChild, work, childSubs, gone, answers,
                  requests, written, rejected, lost, told, shut, hungUp, now, restarts>>
    BY ResumingIs
<1> QED
    BY <1>5, <1>6, <1>7, <1>8 DEF TypeOK

\* The entries of a merged list are hydra's or the child's.
LEMMA MergeOwners ==
    ASSUME NEW child, NEW hydra, NEW policy, NEW entry \in MergeTools(child, hydra, policy)
    PROVE  entry.owner \in {"hydra", "child"}
BY DEF MergeTools, KeptOfHydra, KeptOfChild, Entry

\* A response keeps the types: hydra itself asks for no list.
LEMMA ResponseTypes ==
    ASSUME TypeOK, StateInv, PlainInv, ChildMessage
    PROVE  TypeOK'
<1> DEFINE r == Head(fromChild)
<1>1. r \in Responses /\ fromChild' \in Seq(Responses) /\ r.to \in Messages /\ r.to.id \in 0 .. MaxRequests
    BY ResponseIs DEF Responses, Messages
<1>2. r.to.kind = "list" => r.to.id \in 1 .. MaxRequests
    BY <1>1, ResponseIs DEF PlainInv, Plain, OwnKinds
<1>3. /\ handler' = "select"
      /\ UNCHANGED <<looping, outbox, queue, initialized, subs, toChild, work, childSubs, gone, requests,
                     written, expired, lost, shut, hungUp, now, restarts>>
    BY ResponseIs
<1>4. state' \in {"stopped", "running", "restarting", "failed"}
    BY ResponseIs DEF TypeOK
<1>5. /\ answers' \in Seq(0 .. MaxRequests) /\ rejected' \subseteq 1 .. MaxRequests
      /\ \A entry \in told' : entry.owner \in {"hydra", "child"}
    <2>1. CASE ForwardResponse(r)
        <3>1. \A entry \in told' : entry.owner \in {"hydra", "child"}
            BY <2>1, MergeOwners DEF TypeOK, ForwardResponse
        <3>2. answers' \in Seq(0 .. MaxRequests)
            <4>1. answers' = answers \/ answers' = Append(answers, r.to.id)
                <5>1. answers' = Counted(answers, r.to.id)
                    BY <2>1 DEF ForwardResponse
                <5> QED
                    BY <5>1 DEF Counted
            <4>2. answers \in Seq(0 .. MaxRequests) /\ r.to.id \in 0 .. MaxRequests
                BY <1>1 DEF TypeOK
            <4> HIDE DEF r
            <4> QED
                BY <4>1, <4>2, OneMore, Zenon
        <3> QED
            BY <2>1, <3>1, <3>2 DEF TypeOK, ForwardResponse
    <2>2. CASE MergeFails(r)
        <3>1. answers' \in Seq(0 .. MaxRequests)
            BY <1>1, <2>2 DEF TypeOK, MergeFails, ErrorResponse
        <3>2. r.to.kind = "list"
            BY <2>2 DEF MergeFails, CannotMerge, HasTools, Collides
        <3> QED
            BY <1>2, <2>2, <3>1, <3>2 DEF TypeOK, MergeFails
    <2> QED
        BY <2>1, <2>2 DEF ChildMessage
<1> HIDE DEF r
<1> QED
    BY <1>1, <1>3, <1>4, <1>5 DEF TypeOK

\* Of the old child's messages, one may stay.
LEMMA RestartTypes ==
    ASSUME TypeOK, StateInv, Restart
    PROVE  TypeOK'
<1>1. fromChild' \in Seq(Responses)
    <2>1. \/ fromChild' = fromChild \/ fromChild' = <<>>
          \/ fromChild # <<>> /\ fromChild' = <<Head(fromChild)>>
        BY RestartIs, Zenon
    <2>2. fromChild \in Seq(Responses) /\ <<>> \in Seq(Responses)
        BY DEF TypeOK
    <2>3. fromChild # <<>> => <<Head(fromChild)>> \in Seq(Responses)
        BY <2>2
    <2> QED
        BY <2>1, <2>2, <2>3
<1>2. toChild' \in Seq(Messages) /\ work' \subseteq Messages /\ childSubs' \subseteq Uris /\ gone' \in BOOLEAN
    <2>1. \/ toChild' = <<>> /\ work' = {} /\ childSubs' = {} /\ gone' = FALSE
          \/ UNCHANGED <<toChild, work, childSubs, gone>>
        BY RestartIs, Zenon
    <2>2. <<>> \in Seq(Messages)
        OBVIOUS
    <2> QED
        BY <2>1, <2>2 DEF TypeOK
<1>3. /\ handler' = "select" /\ state' \in {"restarting", "failed"}
      /\ UNCHANGED <<looping, outbox, queue, initialized, subs, answers, requests, written, rejected, expired,
                     lost, told, shut, hungUp, now, restarts>>
    BY RestartIs
<1> QED
    BY <1>1, <1>2, <1>3 DEF TypeOK

\* Each step keeps the types.
LEMMA TypeStep ==
    ASSUME TypeOK, StateInv, QueueInv, PlainInv, [Next]_vars
    PROVE  TypeOK'
<1>1. CASE Calm
    <2>1. UNCHANGED <<queue, outbox, initialized, subs, toChild, fromChild, work, childSubs, gone, answers,
                      requests, written, rejected, expired, lost, told>>
        BY <1>1, CalmIs
    <2>2. /\ state' \in {"stopped", "running", "restarting", "failed"}
          /\ handler' \in {"select", "forward", "resume", "reload"}
          /\ looping' \in BOOLEAN /\ hungUp' \in BOOLEAN /\ shut' \in BOOLEAN
        BY <1>1 DEF Calm, Run, FileChange, ChildReadError, ClientEOF, Shutdown, ShutdownCloses, Tick, vars, TypeOK,
                    crashLoop, loopVars, shutVars
    <2>3. now' \in 0 .. MaxTime /\ restarts' \in 0 .. MaxRestarts
        BY <1>1, ProxyConstants
        DEF Calm, Run, FileChange, ChildReadError, ClientEOF, Shutdown, ShutdownCloses, Tick, vars, TypeOK
    <2> QED
        BY <2>1, <2>2, <2>3 DEF TypeOK
<1>2. CASE ChildReads
    <2>1. /\ toChild[1] \in Messages /\ Head(toChild) = toChild[1] /\ toChild' \in Seq(Messages)
          /\ work' = work \cup {toChild[1]}
          /\ UNCHANGED <<state, looping, handler, outbox, queue, initialized, subs, fromChild, gone, answers,
                         requests, written, rejected, expired, lost, told, shut, hungUp, now, restarts>>
        BY <1>2, ReadIs
    <2>2. childSubs' \subseteq Uris
        BY <1>2, <2>1 DEF TypeOK, ChildReads, Messages, NeedsUri
    <2> QED
        BY <2>1, <2>2 DEF TypeOK
<1>3. CASE ChildDies
    <2>1. <<>> \in Seq(Messages)
        OBVIOUS
    <2> QED
        BY <1>3, <2>1, DeathIs DEF TypeOK
<1>4. ASSUME NEW m \in Messages, ChildAnswers(m)
      PROVE  TypeOK'
    <2>1. PICK x \in Responses : fromChild' = Append(fromChild, x)
        BY <1>4, AnswerIs
    <2>2. fromChild' \in Seq(Responses)
        BY <2>1 DEF TypeOK
    <2> QED
        BY <1>4, <2>2, AnswerIs DEF TypeOK
<1> QED
    BY <1>1, <1>2, <1>3, <1>4, StepIs, RequestTypes, WriteTypes, ResumingTypes, ResponseTypes, RestartTypes


(***************************************************************************)
(* The states, hydra's own requests, the queue and what was written        *)
(***************************************************************************)
\* Each step keeps what the states allow to be queued, sent or in hand.
LEMMA StateStep ==
    ASSUME TypeOK, StateInv, [Next]_vars
    PROVE  StateInv'
<1>1. CASE Calm
    <2>1. UNCHANGED <<queue, outbox, subs, toChild, childSubs>>
        BY <1>1, CalmIs
    <2>2. CASE Run
        BY <2>1, <2>2 DEF StateInv, Run, shutVars
    <2>3. CASE FileChange
        BY <2>1, <2>3 DEF StateInv, FileChange, Selecting, shutVars
    <2>4. CASE ChildReadError \/ ClientEOF
        BY <2>1, <2>4 DEF StateInv, ChildReadError, ClientEOF, Selecting, crashLoop, shutVars
    <2>5. CASE Shutdown \/ ShutdownCloses
        BY <2>1, <2>5 DEF StateInv, Shutdown, ShutdownCloses, loopVars
    <2>6. CASE Tick \/ UNCHANGED vars
        BY <2>6 DEF StateInv, Tick, vars, loopVars, storeVars, childVars, shutVars
    <2> QED
        BY <1>1, <2>2, <2>3, <2>4, <2>5, <2>6 DEF Calm
<1>2. ASSUME NEW m \in Messages, Handle(m)
      PROVE  StateInv'
    <2>1. /\ looping /\ handler = "select"
          /\ UNCHANGED <<state, looping, hungUp, shut, toChild, childSubs>>
        BY <1>2, RequestIs
    <2>2. CASE ForwardRequest(m)
        <3>1. Len(<<m>>) = 1
            OBVIOUS
        <3> QED
            BY <2>1, <2>2, <3>1 DEF StateInv, ForwardRequest
    <2>3. CASE EnqueueRequest(m)
        BY <2>1, <2>3 DEF StateInv, EnqueueRequest
    <2>4. CASE RejectRequest(m)
        BY <2>1, <2>4 DEF StateInv, RejectRequest
    <2> QED
        BY <1>2, <2>2, <2>3, <2>4 DEF Handle
<1>3. CASE WriteToChild \/ WriteFails
    <2>1. WritesOne
        BY <1>3 DEF WriteToChild, WriteFails
    <2>2. /\ handler \in {"forward", "resume"} /\ looping /\ queue = <<>>
          /\ handler = "forward" => handler' = "select" /\ outbox' = <<>>
          /\ handler = "resume" => handler' = "resume"
          /\ UNCHANGED <<state, looping, queue, subs, childSubs, shut, hungUp>>
        BY <2>1, WritesOneIs
    <2>3. state # "stopped" \/ shut
        BY <2>2 DEF StateInv
    <2>4. state = "restarting" => handler = "resume"
        BY <2>2 DEF StateInv
    <2> QED
        BY <2>2, <2>3, <2>4 DEF StateInv
<1>4. CASE InitializeResponse
    <2>1. /\ state = "restarting" /\ looping /\ queue' = <<>> /\ handler' = "resume"
          /\ UNCHANGED <<state, looping, subs, toChild, childSubs, shut, hungUp>>
        BY <1>4, ResumingIs
    <2> QED
        BY <2>1 DEF StateInv
<1>5. CASE ChildMessage
    BY <1>5, ResponseIs DEF StateInv
<1>6. CASE Restart
    <2>1. /\ handler' = "select" /\ outbox = <<>> /\ queue = <<>>
          /\ UNCHANGED <<looping, outbox, queue, subs, shut, hungUp>>
        BY <1>6, RestartIs
    <2>2. \/ state' = "restarting" /\ toChild' = <<>> /\ childSubs' = {}
          \/ state' = "failed"
        BY <1>6, RestartIs, Zenon
    <2> QED
        BY <2>1, <2>2 DEF StateInv
<1>7. CASE ChildReads
    <2>1. /\ toChild # <<>> /\ toChild' \in Seq(Messages) /\ looping
          /\ UNCHANGED <<state, looping, handler, outbox, queue, subs, shut, hungUp>>
        BY <1>7, ReadIs DEF ChildReads
    <2>2. state # "stopped" \/ shut
        BY <2>1 DEF StateInv
    <2>3. ~ (state = "restarting" /\ handler = "select")
        BY <2>1 DEF StateInv
    <2> QED
        BY <2>1, <2>2, <2>3 DEF StateInv
<1>8. CASE ChildDies
    BY <1>8, DeathIs DEF StateInv
<1>9. ASSUME NEW m \in Messages, ChildAnswers(m)
      PROVE  StateInv'
    BY <1>9, AnswerIs DEF StateInv
<1> QED
    BY <1>1, <1>2, <1>3, <1>4, <1>5, <1>6, <1>7, <1>8, <1>9, StepIs

\* What ends a restart has been put in hand: the replay, with ids 0, and then what was kept.
LEMMA ResumedIs ==
    ASSUME TypeOK, QueueInv, InitializeResponse
    PROVE  \E order \in Orders(subs) :
             /\ outbox' \in Seq(Messages)
             /\ Len(Replay(order)) \in Nat /\ Len(Drained) \in Nat
             /\ DOMAIN outbox' = 1 .. Len(Replay(order)) + Len(Drained)
             /\ \A i \in 1 .. Len(Replay(order)) : outbox'[i] = Replay(order)[i]
             /\ \A j \in 1 .. Len(Drained) : outbox'[Len(Replay(order)) + j] = Drained[j]
             /\ \A i \in DOMAIN outbox' : \/ i \in 1 .. Len(Replay(order))
                                          \/ \E j \in 1 .. Len(Drained) : i = Len(Replay(order)) + j
<1>1. PICK order \in Orders(subs) : outbox' = Replay(order) \o Drained
    BY ResumingIs
<1>2. Replay(order) \in Seq(Messages) /\ Drained \in Seq(Messages)
    BY ReplayIs, DrainKeepsOrder, ProxyConstants DEF TypeOK
<1> HIDE DEF Drained
<1>3. /\ outbox' \in Seq(Messages) /\ Len(Replay(order)) \in Nat /\ Len(Drained) \in Nat
      /\ Len(outbox') = Len(Replay(order)) + Len(Drained)
      /\ \A i \in 1 .. Len(Replay(order)) : outbox'[i] = Replay(order)[i]
      /\ \A j \in 1 .. Len(Drained) : outbox'[Len(Replay(order)) + j] = Drained[j]
      /\ \A i \in 1 .. Len(outbox') : \/ i \in 1 .. Len(Replay(order))
                                      \/ \E j \in 1 .. Len(Drained) : i = Len(Replay(order)) + j
    <2> DEFINE a == Replay(order)
               b == Drained
    <2>1. a \in Seq(Messages) /\ b \in Seq(Messages)
        BY <1>2
    <2> HIDE DEF a
    <2>2. /\ a \o b \in Seq(Messages) /\ Len(a) \in Nat /\ Len(b) \in Nat /\ Len(a \o b) = Len(a) + Len(b)
          /\ \A i \in 1 .. Len(a) : (a \o b)[i] = a[i]
          /\ \A j \in 1 .. Len(b) : (a \o b)[Len(a) + j] = b[j]
          /\ \A i \in 1 .. Len(a \o b) : i \in 1 .. Len(a) \/ \E j \in 1 .. Len(b) : i = Len(a) + j
        BY <2>1, ConcatIs
    <2> QED
        BY <1>1, <2>2 DEF a
<1>4. DOMAIN outbox' = 1 .. Len(Replay(order)) + Len(Drained)
    BY <1>3
<1> QED
    BY <1>3, <1>4

\* Each of it is one of hydra's own requests or one that was drained, in the order of the
\* ids; hydra's own come first, the initialize request before the others.
LEMMA InHandAfterDrain ==
    ASSUME TypeOK, QueueInv, InitializeResponse
    PROVE  /\ \A i \in DOMAIN outbox' : i \in Nat /\ i # 0
           /\ \A i \in DOMAIN outbox' :
                \/ /\ outbox'[i].id = 0 /\ outbox'[i].kind \in OwnKinds
                   /\ outbox'[i].kind = "initialize" => i = 1
                \/ outbox'[i].id \in 1 .. requests /\ \E j \in DOMAIN Drained : outbox'[i] = Drained[j]
           /\ \A i, j \in DOMAIN outbox' : i < j /\ outbox'[j].id = 0 => outbox'[i].id = 0
           /\ \A i, j \in DOMAIN outbox' :
                i < j /\ outbox'[i].id # 0 /\ outbox'[j].id # 0 => outbox'[i].id < outbox'[j].id
           /\ \A j \in DOMAIN Drained : \E i \in DOMAIN outbox' : outbox'[i] = Drained[j]
<1>1. PICK order \in Orders(subs) :
             /\ Len(Replay(order)) \in Nat /\ Len(Drained) \in Nat
             /\ DOMAIN outbox' = 1 .. Len(Replay(order)) + Len(Drained)
             /\ \A i \in 1 .. Len(Replay(order)) : outbox'[i] = Replay(order)[i]
             /\ \A j \in 1 .. Len(Drained) : outbox'[Len(Replay(order)) + j] = Drained[j]
             /\ \A i \in DOMAIN outbox' : \/ i \in 1 .. Len(Replay(order))
                                          \/ \E j \in 1 .. Len(Drained) : i = Len(Replay(order)) + j
    BY ResumedIs
<1>2. \A i \in 1 .. Len(Replay(order)) :
        /\ Replay(order)[i].id = 0 /\ Replay(order)[i].kind \in OwnKinds
        /\ Replay(order)[i].kind = "initialize" => i = 1
    BY ReplayIs, ProxyConstants DEF TypeOK, OwnKinds
<1>3. requests \in Nat /\ queue \in Seq(Items)
    BY ProxyConstants DEF TypeOK
<1>4. /\ Drained \in Seq(Messages)
      /\ \A j \in 1 .. Len(Drained) : Drained[j].id \in 1 .. requests
      /\ \A i, j \in 1 .. Len(Drained) : i < j => Drained[i].id < Drained[j].id
    BY <1>3, DrainedIs
<1>5. DOMAIN Drained = 1 .. Len(Drained)
    <2> HIDE DEF Drained
    <2> QED
        BY <1>4
<1> DEFINE a == Replay(order)
           b == Drained
           n == Len(Replay(order))
           k == Len(Drained)
<1>6. /\ n \in Nat /\ k \in Nat /\ DOMAIN outbox' = 1 .. n + k
      /\ \A i \in 1 .. n : /\ outbox'[i].id = 0 /\ outbox'[i].kind \in OwnKinds
                           /\ outbox'[i].kind = "initialize" => i = 1
      /\ \A j \in 1 .. k : outbox'[n + j] = b[j] /\ b[j].id \in 1 .. requests
      /\ \A i, j \in 1 .. k : i < j => b[i].id < b[j].id
      /\ \A i \in DOMAIN outbox' : i \in 1 .. n \/ \E j \in 1 .. k : i = n + j
      /\ DOMAIN b = 1 .. k
    BY <1>1, <1>2, <1>4, <1>5
<1> HIDE DEF a, b, n, k
<1>7. \A i \in DOMAIN outbox' : i \in Nat /\ i # 0
    BY <1>6
<1>8. \A i \in DOMAIN outbox' :
        \/ /\ outbox'[i].id = 0 /\ outbox'[i].kind \in OwnKinds
           /\ outbox'[i].kind = "initialize" => i = 1
        \/ outbox'[i].id \in 1 .. requests /\ \E j \in DOMAIN b : outbox'[i] = b[j]
    BY <1>6
<1>9. ASSUME NEW i \in DOMAIN outbox', NEW j \in DOMAIN outbox', i < j
      PROVE  /\ outbox'[j].id = 0 => outbox'[i].id = 0
             /\ outbox'[i].id # 0 /\ outbox'[j].id # 0 => outbox'[i].id < outbox'[j].id
    <2>1. CASE i \in 1 .. n
        BY <1>6, <2>1
    <2>2. ASSUME NEW x \in 1 .. k, i = n + x
          PROVE  outbox'[j].id # 0 /\ outbox'[i].id < outbox'[j].id
        <3>1. PICK y \in 1 .. k : j = n + y
            BY <1>6, <1>9, <2>2
        <3>2. x < y
            BY <1>6, <1>9, <2>2, <3>1
        <3>3. outbox'[i] = b[x] /\ outbox'[j] = b[y] /\ b[x].id < b[y].id /\ b[y].id # 0
            BY <1>3, <1>6, <2>2, <3>1, <3>2
        <3> QED
            BY <3>3
    <2> QED
        BY <1>6, <2>1, <2>2
<1>10. \A j \in DOMAIN b : \E i \in DOMAIN outbox' : outbox'[i] = b[j]
    <2> SUFFICES ASSUME NEW j \in 1 .. k
                 PROVE  n + j \in DOMAIN outbox' /\ outbox'[n + j] = b[j]
        BY <1>6
    <2> QED
        BY <1>6
<1> QED
    BY <1>7, <1>8, <1>9, <1>10 DEF b

\* Hydra's own requests stay what they are on their way through the child.
LEMMA PlainStep ==
    ASSUME TypeOK, StateInv, PlainInv, QueueInv, [Next]_vars
    PROVE  PlainInv'
<1>t. fromChild \in Seq(Responses) /\ DOMAIN fromChild = 1 .. Len(fromChild) /\ Len(fromChild) \in Nat
    BY DEF TypeOK
<1>1. CASE Calm
    BY <1>1, CalmIs DEF PlainInv
<1>2. ASSUME NEW m \in Messages, Handle(m)
      PROVE  PlainInv'
    <2>1. UNCHANGED <<toChild, work, fromChild>> /\ Plain(m)
        BY <1>2, RequestIs DEF Plain
    <2>2. outbox' = outbox \/ outbox' = <<m>>
        BY <1>2 DEF Handle, ForwardRequest, EnqueueRequest, RejectRequest
    <2>3. \A i \in DOMAIN outbox' : Plain(outbox'[i])
        BY <2>1, <2>2 DEF PlainInv
    <2> QED
        BY <2>1, <2>3 DEF PlainInv
<1>3. CASE WriteToChild \/ WriteFails
    <2>1. WritesOne
        BY <1>3 DEF WriteToChild, WriteFails
    <2>2. /\ 1 \in DOMAIN outbox /\ UNCHANGED <<work, fromChild>>
          /\ \A i \in DOMAIN outbox' : i + 1 \in DOMAIN outbox /\ outbox'[i] = outbox[i + 1]
        BY <2>1, WritesOneIs
    <2>3. \A i \in DOMAIN outbox' : Plain(outbox'[i])
        BY <2>2 DEF PlainInv
    <2>4. CASE WriteToChild
        <3>1. /\ DOMAIN toChild = 1 .. Len(toChild) /\ Len(toChild) \in Nat
              /\ DOMAIN toChild' = 1 .. Len(toChild) + 1 /\ toChild'[Len(toChild) + 1] = outbox[1]
              /\ \A i \in DOMAIN toChild : toChild'[i] = toChild[i]
            BY <2>4, WriteIs
        <3>2. \A i \in DOMAIN toChild' : i \in DOMAIN toChild \/ i = Len(toChild) + 1
            BY <3>1
        <3>3. \A i \in DOMAIN toChild' : Plain(toChild'[i])
            BY <2>2, <3>1, <3>2 DEF PlainInv
        <3> QED
            BY <2>2, <2>3, <3>3 DEF PlainInv
    <2>5. CASE WriteFails
        BY <2>2, <2>3, <2>5 DEF PlainInv, WriteFails
    <2> QED
        BY <1>3, <2>4, <2>5
<1>4. CASE InitializeResponse
    <2>1. \A i \in DOMAIN outbox' :
            (outbox'[i].id = 0 /\ outbox'[i].kind \in OwnKinds) \/ outbox'[i].id \in 1 .. requests
        BY <1>4, InHandAfterDrain
    <2>2. \A n \in 1 .. requests : n # 0
        BY ProxyConstants DEF TypeOK
    <2>3. \A i \in DOMAIN outbox' : Plain(outbox'[i])
        BY <2>1, <2>2 DEF Plain
    <2>4. UNCHANGED <<toChild, work, fromChild>>
        BY <1>4, ResumingIs
    <2> QED
        BY <2>3, <2>4 DEF PlainInv
<1>5. CASE ChildMessage
    <2>1. /\ fromChild' \in Seq(Responses) /\ Len(fromChild') = Len(fromChild) - 1
          /\ \A i \in 1 .. Len(fromChild') : fromChild'[i] = fromChild[i + 1]
          /\ UNCHANGED <<outbox, toChild, work>>
        BY <1>5, ResponseIs
    <2>2. DOMAIN fromChild' = 1 .. Len(fromChild')
        BY <2>1
    <2>3. \A i \in DOMAIN fromChild' : i + 1 \in DOMAIN fromChild /\ fromChild'[i] = fromChild[i + 1]
        BY <1>t, <2>1, <2>2
    <2>4. \A i \in DOMAIN fromChild' : Plain(fromChild'[i].to)
        BY <2>3 DEF PlainInv
    <2> QED
        BY <2>1, <2>4 DEF PlainInv
<1>6. CASE Restart
    <2>1. /\ outbox' = outbox
          /\ \/ /\ toChild' = <<>> /\ work' = {}
                /\ fromChild' = <<>> \/ (fromChild # <<>> /\ fromChild' = <<Head(fromChild)>>)
             \/ UNCHANGED <<toChild, fromChild, work>>
        BY <1>6, RestartIs, Zenon
    <2>2. \A i \in DOMAIN fromChild' : i \in DOMAIN fromChild /\ fromChild'[i] = fromChild[i]
        BY <1>t, <2>1
    <2>3. \A i \in DOMAIN fromChild' : Plain(fromChild'[i].to)
        BY <2>2 DEF PlainInv
    <2> QED
        BY <2>1, <2>3 DEF PlainInv
<1>7. CASE ChildReads
    <2>1. /\ 1 \in DOMAIN toChild /\ work' = work \cup {toChild[1]} /\ UNCHANGED <<outbox, fromChild>>
          /\ \A i \in DOMAIN toChild' : i + 1 \in DOMAIN toChild /\ toChild'[i] = toChild[i + 1]
        BY <1>7, ReadIs
    <2> QED
        BY <2>1 DEF PlainInv
<1>8. CASE ChildDies
    BY <1>8, DeathIs DEF PlainInv
<1>9. ASSUME NEW m \in Messages, ChildAnswers(m)
      PROVE  PlainInv'
    <2>1. PICK x \in Responses : fromChild' = Append(fromChild, x) /\ x.to = m
        BY <1>9, AnswerIs
    <2>2. UNCHANGED <<outbox, toChild>> /\ work' \subseteq work /\ m \in work
        BY <1>9, AnswerIs
    <2>3. \A i \in DOMAIN fromChild' : Plain(fromChild'[i].to)
        BY <1>t, <2>1, <2>2 DEF PlainInv
    <2> QED
        BY <2>2, <2>3 DEF PlainInv
<1> QED
    BY <1>1, <1>2, <1>3, <1>4, <1>5, <1>6, <1>7, <1>8, <1>9, StepIs


\* What is queued is a message with a time.
LEMMA ItemTypes ==
    ASSUME TypeOK, NEW i \in 1 .. Len(queue)
    PROVE  queue[i].msg \in Messages /\ queue[i].at \in Nat /\ queue[i].msg.id \in Nat
<1>1. queue[i] \in Items
    BY DEF TypeOK
<1>2. queue[i].msg \in Messages /\ queue[i].at \in 0 .. MaxTime
    BY <1>1 DEF Items
<1>3. queue[i].msg.id \in 0 .. MaxRequests
    BY <1>2 DEF Messages
<1> QED
    BY <1>2, <1>3, ProxyConstants

\* A new request has the highest id and the latest time.
LEMMA QueueStep ==
    ASSUME TypeOK, StateInv, QueueInv, [Next]_vars
    PROVE  QueueInv'
<1>t. queue \in Seq(Items) /\ requests \in Nat /\ now \in Nat /\ DOMAIN queue = 1 .. Len(queue) /\ Len(queue) \in Nat
    BY ProxyConstants DEF TypeOK
<1>a. \A i \in 1 .. Len(queue) : queue[i].at \in Nat /\ queue[i].msg.id \in Nat
    BY ItemTypes
<1>1. CASE queue' = queue /\ requests' \in {requests, requests + 1} /\ now' \in {now, now + 1}
    BY <1>1, <1>t, <1>a DEF QueueInv
<1>2. CASE queue' = <<>>
    BY <1>2 DEF QueueInv
<1>3. ASSUME NEW m \in Messages, EnqueueRequest(m)
      PROVE  QueueInv'
    <2>1. m.id = requests + 1 /\ requests' = requests + 1 /\ now' = now
        BY <1>3, RequestIs DEF Handle
    <2>2. queue' = Append(queue, [msg |-> m, at |-> now])
        BY <1>3 DEF EnqueueRequest, Enqueued
    <2>3. [msg |-> m, at |-> now] \in Items
        BY DEF Items, TypeOK
    <2> DEFINE n == Len(queue) + 1
    <2>4. /\ DOMAIN queue' = 1 .. n /\ queue'[n] = [msg |-> m, at |-> now]
          /\ \A i \in 1 .. Len(queue) : queue'[i] = queue[i]
        BY <1>t, <2>2, <2>3
    <2>5. \A i \in DOMAIN queue' : queue'[i].msg.id \in 1 .. requests' /\ queue'[i].at <= now'
        BY <1>t, <1>a, <2>1, <2>4 DEF QueueInv
    <2>6. ASSUME NEW i \in DOMAIN queue', NEW j \in DOMAIN queue', i < j
          PROVE  queue'[i].msg.id < queue'[j].msg.id /\ queue'[i].at <= queue'[j].at
        <3>1. i \in 1 .. Len(queue) /\ (j \in 1 .. Len(queue) \/ j = n)
            BY <1>t, <2>4, <2>6
        <3> QED
            BY <1>t, <1>a, <2>1, <2>4, <2>6, <3>1 DEF QueueInv
    <2> QED
        BY <2>5, <2>6 DEF QueueInv
<1>4. ASSUME NEW m \in Messages, ForwardRequest(m) \/ RejectRequest(m)
      PROVE  QueueInv'
    BY <1>1, <1>4, RequestIs DEF Handle, ForwardRequest, RejectRequest
<1>5. CASE InitializeResponse
    BY <1>2, <1>5, ResumingIs
<1>6. CASE WriteToChild \/ WriteFails
    <2>1. WritesOne
        BY <1>6 DEF WriteToChild, WriteFails
    <2> QED
        BY <1>1, <2>1, WritesOneIs
<1>7. CASE Calm \/ ChildMessage \/ Restart \/ ChildReads \/ ChildDies \/ (\E m \in Messages : ChildAnswers(m))
    BY <1>1, <1>7, CalmIs, ResponseIs, RestartIs, ReadIs, DeathIs, AnswerIs
<1> QED
    BY <1>3, <1>4, <1>5, <1>6, <1>7, StepIs DEF Handle

\* The ids of a line that gets longer.
LEMMA IdsAppend ==
    ASSUME NEW s \in Seq(Nat), NEW n \in Nat
    PROVE  Ids(Append(s, n)) = Ids(s) \cup {n}
<1>1. DOMAIN s = 1 .. Len(s) /\ DOMAIN Append(s, n) = 1 .. Len(s) + 1 /\ Len(s) \in Nat
    OBVIOUS
<1>2. Append(s, n)[Len(s) + 1] = n /\ \A i \in 1 .. Len(s) : Append(s, n)[i] = s[i]
    OBVIOUS
<1> QED
    BY <1>1, <1>2 DEF Ids

\* Steps that write nothing leave what was written and what is in hand alone.
LEMMA IdleSteps ==
    ASSUME TypeOK, StateInv,
           Calm \/ ChildMessage \/ Restart \/ ChildReads \/ ChildDies \/ (\E m \in Messages : ChildAnswers(m))
    PROVE  UNCHANGED <<queue, outbox, requests, written, expired, lost, initialized, subs>>
BY CalmIs, ResponseIs, RestartIs, ReadIs, DeathIs, AnswerIs

\* What is written was in hand, behind all that was written before.
LEMMA WrittenStep ==
    ASSUME TypeOK, StateInv, QueueInv, WrittenInv, OutboxInv, [Next]_vars
    PROVE  WrittenInv'
<1>t. /\ queue \in Seq(Items) /\ requests \in Nat /\ DOMAIN queue = 1 .. Len(queue) /\ Len(queue) \in Nat
      /\ written \in Seq(1 .. MaxRequests) /\ DOMAIN written = 1 .. Len(written) /\ Len(written) \in Nat
      /\ \A i \in 1 .. Len(written) : written[i] \in Nat
    BY ProxyConstants DEF TypeOK
<1>a. \A i \in 1 .. Len(queue) : queue[i].msg.id \in Nat
    BY ItemTypes
<1>1. CASE queue' = queue /\ written' = written /\ requests' \in {requests, requests + 1}
    BY <1>1, <1>t, <1>a DEF WrittenInv
<1>2. ASSUME NEW m \in Messages, EnqueueRequest(m)
      PROVE  WrittenInv'
    <2>1. m.id = requests + 1 /\ requests' = requests + 1 /\ written' = written
        BY <1>2, RequestIs DEF Handle
    <2>2. queue' = Append(queue, [msg |-> m, at |-> now])
        BY <1>2 DEF EnqueueRequest, Enqueued
    <2>3. [msg |-> m, at |-> now] \in Items
        BY DEF Items, TypeOK
    <2>4. \A j \in DOMAIN queue' : (j \in DOMAIN queue /\ queue'[j] = queue[j]) \/ queue'[j].msg.id = requests + 1
        BY <1>t, <2>1, <2>2, <2>3
    <2>5. \A i \in DOMAIN written, j \in DOMAIN queue' : written[i] < queue'[j].msg.id
        BY <1>t, <1>a, <2>4 DEF WrittenInv
    <2> QED
        BY <1>t, <2>1, <2>5 DEF WrittenInv
<1>3. ASSUME NEW m \in Messages, ForwardRequest(m) \/ RejectRequest(m)
      PROVE  WrittenInv'
    BY <1>1, <1>3, RequestIs DEF Handle, ForwardRequest, RejectRequest
<1>4. CASE WriteToChild
    <2>1. /\ 1 \in DOMAIN outbox /\ outbox[1] \in Messages /\ requests' = requests /\ queue' = <<>>
        BY <1>4, WriteIs, WritesOneIs
    <2>2. DOMAIN queue' = {}
        BY <2>1
    <2>3. /\ outbox[1].id = 0 => written' = written
          /\ outbox[1].id # 0 => written' = Append(written, outbox[1].id)
        BY <1>4, WriteIs
    <2>4. CASE written' = written
        BY <2>1, <2>2, <2>4 DEF WrittenInv
    <2>5. CASE outbox[1].id # 0
        <3> DEFINE id == outbox[1].id
        <3>1. id \in 0 .. MaxRequests /\ id # 0 /\ id <= requests
            BY <2>1, <2>5 DEF Messages, OutboxInv
        <3>2. \A i \in DOMAIN written : written[i] < id
            BY <2>1, <2>5 DEF OutboxInv
        <3>3. id \in Nat
            BY <3>1
        <3>4. written' = Append(written, id)
            BY <2>3, <2>5
        <3> HIDE DEF id
        <3>5. /\ DOMAIN written' = 1 .. Len(written) + 1 /\ written'[Len(written) + 1] = id
              /\ \A i \in 1 .. Len(written) : written'[i] = written[i]
            BY <1>t, <3>4
        <3>6. \A i \in DOMAIN written' : i \in 1 .. Len(written) \/ i = Len(written) + 1
            BY <1>t, <3>5
        <3>7. \A i \in DOMAIN written' : written'[i] <= requests'
            BY <1>t, <2>1, <3>1, <3>5, <3>6 DEF WrittenInv
        <3>8. ASSUME NEW i \in DOMAIN written', NEW j \in DOMAIN written', i < j
              PROVE  written'[i] < written'[j]
            <4>1. i \in 1 .. Len(written)
                BY <1>t, <3>5, <3>6, <3>8
            <4>2. CASE j \in 1 .. Len(written)
                BY <1>t, <3>5, <3>8, <4>1, <4>2 DEF WrittenInv
            <4>3. CASE j = Len(written) + 1
                BY <1>t, <3>2, <3>5, <4>1, <4>3
            <4> QED
                BY <3>6, <4>2, <4>3
        <3> QED
            BY <2>2, <3>7, <3>8 DEF WrittenInv
    <2> QED
        BY <2>3, <2>4, <2>5
<1>5. CASE WriteFails
    <2>1. WritesOne /\ written' = written
        BY <1>5 DEF WriteFails
    <2> QED
        BY <1>1, <2>1, WritesOneIs
<1>6. CASE InitializeResponse
    <2>1. queue' = <<>> /\ UNCHANGED <<written, requests>>
        BY <1>6, ResumingIs
    <2>2. DOMAIN queue' = {}
        BY <2>1
    <2> QED
        BY <2>1, <2>2 DEF WrittenInv
<1>7. CASE Calm \/ ChildMessage \/ Restart \/ ChildReads \/ ChildDies \/ (\E m \in Messages : ChildAnswers(m))
    BY <1>1, <1>7, IdleSteps
<1> QED
    BY <1>2, <1>3, <1>4, <1>5, <1>6, <1>7, StepIs DEF Handle

\* What a handler takes in hand comes behind all that was written.
LEMMA OutboxStep ==
    ASSUME TypeOK, StateInv, QueueInv, WrittenInv, OutboxInv, [Next]_vars
    PROVE  OutboxInv'
<1>t. /\ queue \in Seq(Items) /\ requests \in Nat /\ DOMAIN queue = 1 .. Len(queue)
      /\ written \in Seq(1 .. MaxRequests) /\ DOMAIN written = 1 .. Len(written) /\ Len(written) \in Nat
      /\ \A i \in 1 .. Len(written) : written[i] \in Nat
      /\ outbox \in Seq(Messages) /\ DOMAIN outbox = 1 .. Len(outbox)
    BY ProxyConstants DEF TypeOK
<1>a. \A i \in DOMAIN outbox : outbox[i].id \in Nat
    <2>1. \A i \in DOMAIN outbox : outbox[i] \in Messages
        BY <1>t
    <2> QED
        BY <2>1, ProxyConstants DEF Messages
<1>1. CASE outbox' = outbox /\ written' = written /\ requests' \in {requests, requests + 1}
    BY <1>1, <1>t, <1>a DEF OutboxInv
<1>2. ASSUME NEW m \in Messages, ForwardRequest(m)
      PROVE  OutboxInv'
    <2>1. m.id = requests + 1 /\ requests' = requests + 1 /\ written' = written
        BY <1>2, RequestIs DEF Handle
    <2>2. outbox' = <<m>>
        BY <1>2 DEF ForwardRequest
    <2>3. DOMAIN outbox' = {1} /\ outbox'[1] = m
        BY <2>2
    <2>4. \A i \in DOMAIN written : written[i] < requests + 1
        BY <1>t DEF WrittenInv
    <2>5. requests + 1 <= requests + 1 /\ ~ (1 < 1)
        BY <1>t
    <2>6. \A i \in DOMAIN outbox' : outbox'[i].id <= requests'
        BY <2>1, <2>3, <2>5
    <2>7. \A i, j \in DOMAIN outbox' : ~ (i < j)
        BY <2>3, <2>5
    <2>8. \A i \in DOMAIN written', j \in DOMAIN outbox' : written'[i] < outbox'[j].id
        BY <2>1, <2>3, <2>4
    <2> QED
        BY <2>6, <2>7, <2>8 DEF OutboxInv
<1>3. ASSUME NEW m \in Messages, EnqueueRequest(m) \/ RejectRequest(m)
      PROVE  OutboxInv'
    BY <1>1, <1>3, RequestIs DEF Handle, EnqueueRequest, RejectRequest
<1>4. CASE WriteToChild \/ WriteFails
    <2>1. WritesOne
        BY <1>4 DEF WriteToChild, WriteFails
    <2>2. /\ 1 \in DOMAIN outbox /\ outbox[1] \in Messages /\ requests' = requests
          /\ \A i \in DOMAIN outbox' :
                i \in Nat /\ i # 0 /\ i + 1 \in DOMAIN outbox /\ outbox'[i] = outbox[i + 1]
        BY <2>1, WritesOneIs
    <2>3. \A i \in DOMAIN outbox' : outbox'[i].id <= requests'
        BY <2>2 DEF OutboxInv
    <2>4. ASSUME NEW i \in DOMAIN outbox', NEW j \in DOMAIN outbox', i < j, outbox'[i].id # 0, outbox'[j].id # 0
          PROVE  outbox'[i].id < outbox'[j].id
        <3>1. i + 1 < j + 1 /\ i + 1 \in DOMAIN outbox /\ j + 1 \in DOMAIN outbox
            BY <2>2, <2>4
        <3> QED
            BY <2>2, <2>4, <3>1 DEF OutboxInv
    <2>5. ASSUME NEW j \in DOMAIN outbox', outbox'[j].id # 0
          PROVE  /\ \A i \in DOMAIN written : written[i] < outbox'[j].id
                 /\ outbox[1].id # 0 => outbox[1].id < outbox'[j].id
        <3>1. 1 < j + 1 /\ j + 1 \in DOMAIN outbox /\ outbox'[j] = outbox[j + 1]
            BY <2>2
        <3> QED
            BY <2>2, <2>5, <3>1 DEF OutboxInv
    <2>6. CASE written' = written
        BY <2>3, <2>4, <2>5, <2>6 DEF OutboxInv
    <2>7. CASE outbox[1].id # 0 /\ written' = Append(written, outbox[1].id)
        <3>1. outbox[1].id \in Nat
            BY <1>a, <2>2
        <3>2. /\ DOMAIN written' = 1 .. Len(written) + 1 /\ written'[Len(written) + 1] = outbox[1].id
              /\ \A i \in 1 .. Len(written) : written'[i] = written[i]
            BY <1>t, <2>7, <3>1
        <3>3. \A i \in DOMAIN written' : i \in 1 .. Len(written) \/ i = Len(written) + 1
            BY <1>t, <3>2
        <3>4. \A i \in DOMAIN written', j \in DOMAIN outbox' : outbox'[j].id # 0 => written'[i] < outbox'[j].id
            BY <1>t, <2>5, <2>7, <3>2, <3>3
        <3> QED
            BY <2>3, <2>4, <3>4 DEF OutboxInv
    <2>8. CASE WriteFails
        BY <2>6, <2>8 DEF WriteFails
    <2>9. CASE WriteToChild
        BY <2>6, <2>7, <2>9, WriteIs
    <2> QED
        BY <1>4, <2>8, <2>9
<1>5. CASE InitializeResponse
    <2>1. UNCHANGED <<written, requests>>
        BY <1>5, ResumingIs
    <2>2. \A i \in DOMAIN outbox' :
            outbox'[i].id = 0 \/ (outbox'[i].id \in 1 .. requests /\ \E j \in DOMAIN Drained : outbox'[i] = Drained[j])
        BY <1>5, InHandAfterDrain
    <2>3. \A i, j \in DOMAIN outbox' :
            i < j /\ outbox'[i].id # 0 /\ outbox'[j].id # 0 => outbox'[i].id < outbox'[j].id
        BY <1>5, InHandAfterDrain
    <2>4. \A j \in DOMAIN Drained : \E k \in DOMAIN queue : Drained[j] = queue[k].msg
        <3>1. /\ Drained \in Seq(Messages)
              /\ \A i \in 1 .. Len(Drained) : \E k \in 1 .. Len(queue) : Drained[i] = queue[k].msg
            BY <1>t, DrainedIs
        <3> HIDE DEF Drained
        <3>2. DOMAIN Drained = 1 .. Len(Drained)
            BY <3>1
        <3> QED
            BY <1>t, <3>1, <3>2
    <2> HIDE DEF Drained
    <2>5. \A i \in DOMAIN outbox' : outbox'[i].id <= requests'
        BY <1>t, <2>1, <2>2
    <2>6. ASSUME NEW i \in DOMAIN written, NEW j \in DOMAIN outbox', outbox'[j].id # 0
          PROVE  written[i] < outbox'[j].id
        <3>1. PICK k \in DOMAIN queue : outbox'[j] = queue[k].msg
            BY <2>2, <2>4, <2>6
        <3> QED
            BY <3>1 DEF WrittenInv
    <2> QED
        BY <2>1, <2>3, <2>5, <2>6 DEF OutboxInv
<1>6. CASE Calm \/ ChildMessage \/ Restart \/ ChildReads \/ ChildDies \/ (\E m \in Messages : ChildAnswers(m))
    BY <1>1, <1>6, IdleSteps
<1> QED
    BY <1>2, <1>3, <1>4, <1>5, <1>6, StepIs DEF Handle


(***************************************************************************)
(* The fate of a request, and its way                                      *)
(***************************************************************************)
Kept == {queue[i].msg.id : i \in {j \in DOMAIN queue : Valid(queue[j])}}
Dropped == {queue[i].msg.id : i \in {j \in DOMAIN queue : Expired(queue[j])}}

\* Of what waits, a part is kept by Drain and the rest is dropped.
LEMMA DrainParts ==
    ASSUME TypeOK, QueueInv
    PROVE  Waiting = Kept \cup Dropped /\ Kept \cap Dropped = {}
<1>1. \A i \in DOMAIN queue : Valid(queue[i]) <=> ~Expired(queue[i])
    BY DEF Valid
<1>2. Waiting = Kept \cup Dropped
    BY <1>1 DEF Waiting, Kept, Dropped
<1>3. DOMAIN queue = 1 .. Len(queue) /\ Len(queue) \in Nat
    BY DEF TypeOK
<1>4. ASSUME NEW i \in DOMAIN queue, NEW j \in DOMAIN queue, queue[i].msg.id = queue[j].msg.id
      PROVE  i = j
    <2>1. queue[i].msg.id \in Nat /\ queue[j].msg.id \in Nat
        BY <1>3, ItemTypes
    <2>2. ~ (i < j) /\ ~ (j < i)
        BY <1>4, <2>1 DEF QueueInv
    <2> QED
        BY <1>3, <2>2
<1>5. Kept \cap Dropped = {}
    BY <1>1, <1>4 DEF Kept, Dropped
<1> QED
    BY <1>2, <1>5

\* What ends a restart takes in hand what is kept, and nothing waits any more.
LEMMA DrainFates ==
    ASSUME TypeOK, QueueInv, InitializeResponse
    PROVE  InHand' = Kept /\ Waiting' = {} /\ expired' = expired \cup Dropped
<1>1. queue' = <<>> /\ expired' = expired \cup Dropped
    BY ResumingIs DEF Dropped
<1>2. requests \in Nat /\ queue \in Seq(Items) /\ DOMAIN queue = 1 .. Len(queue)
    BY ProxyConstants DEF TypeOK
<1>3. /\ \A i \in DOMAIN outbox' :
            outbox'[i].id = 0 \/ (outbox'[i].id \in 1 .. requests /\ \E j \in DOMAIN Drained : outbox'[i] = Drained[j])
      /\ \A j \in DOMAIN Drained : \E i \in DOMAIN outbox' : outbox'[i] = Drained[j]
    BY InHandAfterDrain
<1>4. /\ Drained \in Seq(Messages)
      /\ \A i \in 1 .. Len(Drained) : \E k \in 1 .. Len(queue) : Valid(queue[k]) /\ Drained[i] = queue[k].msg
      /\ \A k \in 1 .. Len(queue) : Valid(queue[k]) => \E i \in 1 .. Len(Drained) : Drained[i] = queue[k].msg
    BY <1>2, DrainedIs
<1> HIDE DEF Drained
<1>5. DOMAIN Drained = 1 .. Len(Drained)
    BY <1>4
<1>6. ASSUME NEW i \in DOMAIN outbox', outbox'[i].id # 0
      PROVE  outbox'[i].id \in Kept
    <2>1. PICK j \in DOMAIN Drained : outbox'[i] = Drained[j]
        BY <1>3, <1>6
    <2>2. PICK k \in 1 .. Len(queue) : Valid(queue[k]) /\ Drained[j] = queue[k].msg
        BY <1>4, <1>5
    <2> QED
        BY <1>2, <2>1, <2>2 DEF Kept
<1>7. ASSUME NEW k \in DOMAIN queue, Valid(queue[k])
      PROVE  queue[k].msg.id # 0 /\ \E i \in DOMAIN outbox' : outbox'[i].id = queue[k].msg.id
    <2>1. PICK j \in DOMAIN Drained : Drained[j] = queue[k].msg
        BY <1>2, <1>4, <1>5, <1>7
    <2>2. PICK i \in DOMAIN outbox' : outbox'[i] = Drained[j]
        BY <1>3
    <2>3. queue[k].msg.id # 0
        BY <1>2 DEF QueueInv
    <2> QED
        BY <2>1, <2>2, <2>3
<1>8. InHand' = Kept
    BY <1>6, <1>7 DEF InHand, Kept
<1> QED
    BY <1>1, <1>8 DEF Waiting

\* The id that is answered is one that was on its way back; nothing is answered twice
\* but a list that could not be merged, and that had been written.
LEMMA ResponseFates ==
    ASSUME TypeOK, StateInv, PlainInv, PlaceInv, ChildMessage
    PROVE  \E id \in 0 .. MaxRequests :
             /\ id = fromChild[1].to.id
             /\ id # 0 => id \in IdsFromChild /\ id \in Ids(written)
             /\ \/ id = 0 /\ answers' = answers /\ rejected' = rejected
                \/ id # 0 /\ answers' = Append(answers, id) /\ rejected' = rejected
                \/ /\ id # 0 /\ answers' = Append(Append(answers, id), id)
                   /\ rejected' = rejected \cup {id}
<1> DEFINE r == Head(fromChild)
           id == r.to.id
<1>1. /\ r \in Responses /\ r = fromChild[1] /\ 1 \in DOMAIN fromChild
      /\ r.to \in Messages /\ id \in 0 .. MaxRequests
    <2>1. r \in Responses /\ r = fromChild[1] /\ Len(fromChild) \in Nat /\ Len(fromChild) > 0
        BY ResponseIs
    <2>2. 1 \in DOMAIN fromChild
        BY <2>1 DEF TypeOK
    <2> QED
        BY <2>1, <2>2 DEF Responses, Messages
<1>2. id # 0 => id \in IdsFromChild
    BY <1>1 DEF IdsFromChild
<1>3. id # 0 => id \in Ids(written)
    BY <1>2 DEF PlaceInv
<1>4. r.to.kind = "list" => id # 0
    BY <1>1 DEF PlainInv, Plain, OwnKinds
<1>5. CASE ForwardResponse(r)
    <2>1. answers' = Counted(answers, id) /\ rejected' = rejected
        BY <1>5 DEF ForwardResponse
    <2>2. \/ id = 0 /\ answers' = answers
          \/ id # 0 /\ answers' = Append(answers, id)
        BY <2>1 DEF Counted
    <2> HIDE DEF id
    <2>3. id = fromChild[1].to.id
        BY <1>1 DEF id
    <2> QED
        BY <1>1, <1>2, <1>3, <2>1, <2>2, <2>3
<1>6. CASE MergeFails(r)
    <2>1. answers' = Append(Append(answers, id), id) /\ rejected' = rejected \cup {id}
        BY <1>6 DEF MergeFails, ErrorResponse
    <2>2. r.to.kind = "list"
        BY <1>6 DEF MergeFails, CannotMerge, HasTools, Collides
    <2> QED
        BY <1>1, <1>2, <1>3, <1>4, <2>1, <2>2
<1> QED
    BY <1>5, <1>6 DEF ChildMessage

\* What was written does not wait.
LEMMA WrittenDoesNotWait ==
    ASSUME TypeOK, QueueInv, WrittenInv
    PROVE  Ids(written) \cap Waiting = {}
<1>1. SUFFICES ASSUME NEW i \in DOMAIN written, NEW j \in DOMAIN queue, written[i] = queue[j].msg.id
               PROVE  FALSE
    BY DEF Ids, Waiting
<1>2. DOMAIN queue = 1 .. Len(queue)
    BY DEF TypeOK
<1>3. queue[j].msg.id \in Nat
    BY <1>2, ItemTypes
<1> QED
    BY <1>1, <1>3 DEF WrittenInv

\* A request gets a fate as it arrives, and changes it as it is drained and as it is written.
LEMMA FateStep ==
    ASSUME TypeOK, StateInv, PlainInv, QueueInv, WrittenInv, OutboxInv, PlaceInv, FateInv, [Next]_vars
    PROVE  FateInv'
<1>t. requests \in Nat /\ written \in Seq(1 .. MaxRequests) /\ queue \in Seq(Items)
    BY ProxyConstants DEF TypeOK
<1>w. Ids(written) \cap Waiting = {}
    BY WrittenDoesNotWait
<1>i. Ids(written)' = Ids(written')
    BY DEF Ids
<1>1. ASSUME NEW m \in Messages, Handle(m)
      PROVE  FateInv'
    <2>1. /\ m.id = requests + 1 /\ requests' = requests + 1 /\ m.id # 0
          /\ UNCHANGED <<written, expired, lost>>
        BY <1>1, RequestIs
    <2>2. /\ 1 .. requests' = (1 .. requests) \cup {m.id} /\ m.id \notin 1 .. requests
        BY <1>t, <2>1
    <2>3. Ids(written)' = Ids(written)
        BY <1>i, <2>1
    <2>4. CASE ForwardRequest(m)
        <3>1. outbox = <<>> /\ outbox' = <<m>>
            BY <2>4 DEF ForwardRequest, ClientRequest, Selecting, StateInv
        <3>2. InHand = {} /\ InHand' = {m.id}
            BY <2>1, <3>1 DEF InHand
        <3>3. Waiting' = Waiting /\ rejected' = rejected
            BY <2>4 DEF ForwardRequest, Waiting
        <3> QED
            BY <2>1, <2>2, <2>3, <3>2, <3>3 DEF FateInv
    <2>5. CASE EnqueueRequest(m)
        <3>1. Waiting' = Waiting \cup {m.id}
            <4>1. [msg |-> m, at |-> now] \in Items
                BY DEF Items, TypeOK
            <4>2. queue' = Append(queue, [msg |-> m, at |-> now])
                BY <2>5 DEF EnqueueRequest, Enqueued
            <4>3. /\ DOMAIN queue' = 1 .. Len(queue) + 1 /\ DOMAIN queue = 1 .. Len(queue) /\ Len(queue) \in Nat
                  /\ queue'[Len(queue) + 1] = [msg |-> m, at |-> now]
                  /\ \A i \in 1 .. Len(queue) : queue'[i] = queue[i]
                BY <1>t, <4>1, <4>2
            <4> QED
                BY <4>3 DEF Waiting
        <3>2. InHand' = InHand /\ rejected' = rejected
            BY <2>5 DEF EnqueueRequest, InHand
        <3> QED
            BY <2>1, <2>2, <2>3, <3>1, <3>2 DEF FateInv
    <2>6. CASE RejectRequest(m)
        <3>1. rejected' = rejected \cup {m.id} /\ InHand' = InHand /\ Waiting' = Waiting
            BY <2>6 DEF RejectRequest, InHand, Waiting
        <3> QED
            BY <2>1, <2>2, <2>3, <3>1 DEF FateInv
    <2> QED
        BY <1>1, <2>4, <2>5, <2>6 DEF Handle
<1>2. CASE WriteToChild \/ WriteFails
    <2> DEFINE id == outbox[1].id
    <2>1. WritesOne
        BY <1>2 DEF WriteToChild, WriteFails
    <2>2. /\ outbox[1] \in Messages /\ Head(outbox) = outbox[1]
          /\ UNCHANGED <<queue, requests, rejected, expired>>
        BY <2>1, WritesOneIs
    <2>3. InHand = InHand' \cup ({id} \ {0}) /\ id \notin InHand'
        BY <2>1, HandIs
    <2>4. Waiting' = Waiting
        BY <2>2 DEF Waiting
    <2>5. CASE WriteToChild
        <3>1. lost' = lost /\ (id = 0 => written' = written) /\ (id # 0 => written' = Append(written, id))
            BY <2>5, WriteIs
        <3>2. written \in Seq(Nat) /\ id \in Nat
            <4>1. 1 .. MaxRequests \subseteq Nat
                OBVIOUS
            <4> QED
                BY <1>t, <2>2, <4>1, SeqMonotonic, ProxyConstants DEF Messages
        <3>3. Ids(Append(written, id)) = Ids(written) \cup {id}
            BY <3>2, IdsAppend
        <3> HIDE DEF id
        <3>4. Ids(written)' = Ids(written) \cup ({id} \ {0})
            BY <1>i, <3>1, <3>3
        <3> QED
            BY <2>2, <2>3, <2>4, <3>1, <3>4 DEF FateInv
    <2>6. CASE WriteFails
        <3>1. lost' = lost \cup ({Head(outbox).id} \ {0}) /\ written' = written
            BY <2>6 DEF WriteFails
        <3>2. lost' = lost \cup ({id} \ {0})
            BY <2>2, <3>1
        <3>3. Ids(written)' = Ids(written)
            BY <1>i, <3>1
        <3> HIDE DEF id
        <3> QED
            BY <2>2, <2>3, <2>4, <3>2, <3>3 DEF FateInv
    <2> QED
        BY <1>2, <2>5, <2>6
<1>3. CASE InitializeResponse
    <2>1. InHand' = Kept /\ Waiting' = {} /\ expired' = expired \cup Dropped
        BY <1>3, DrainFates
    <2>2. Waiting = Kept \cup Dropped /\ Kept \cap Dropped = {}
        BY DrainParts
    <2>3. UNCHANGED <<written, rejected, lost, requests>>
        BY <1>3, ResumingIs
    <2>4. Ids(written)' = Ids(written)
        BY <1>i, <2>3
    <2>5. InHand = {}
        <3>1. outbox = <<>>
            BY <1>3, ResumingIs DEF StateInv
        <3> QED
            BY <3>1 DEF InHand
    <2> QED
        BY <1>w, <2>1, <2>2, <2>3, <2>4, <2>5 DEF FateInv
<1>4. CASE ChildMessage
    <2>1. rejected \subseteq rejected' /\ rejected' \subseteq rejected \cup Ids(written)
        BY <1>4, ResponseFates
    <2>2. UNCHANGED <<requests, written, queue, outbox, expired, lost>>
        BY <1>4, IdleSteps
    <2>3. Ids(written)' = Ids(written) /\ Waiting' = Waiting /\ InHand' = InHand
        BY <1>i, <2>2 DEF Waiting, InHand
    <2> QED
        BY <1>w, <2>1, <2>2, <2>3 DEF FateInv
<1>5. CASE Calm \/ Restart \/ ChildReads \/ ChildDies \/ (\E m \in Messages : ChildAnswers(m))
    <2>1. UNCHANGED <<requests, written, queue, outbox, expired, lost>>
        BY <1>5, IdleSteps
    <2>2. rejected' = rejected
        BY <1>5, CalmIs, RestartIs, ReadIs, DeathIs, AnswerIs
    <2>3. Ids(written)' = Ids(written) /\ Waiting' = Waiting /\ InHand' = InHand
        BY <1>i, <2>1 DEF Waiting, InHand
    <2> QED
        BY <2>1, <2>2, <2>3 DEF FateInv
<1> QED
    BY <1>1, <1>2, <1>3, <1>4, <1>5, StepIs


\* Steps that leave the way to the child and back alone.
Still == Calm \/ (\E m \in Messages : Handle(m)) \/ WriteFails \/ InitializeResponse

\* The pipes and the child stay as they were.
LEMMA StillIs ==
    ASSUME TypeOK, StateInv, Still
    PROVE  UNCHANGED <<toChild, fromChild, work>>
<1>1. CASE WriteFails
    <2>1. WritesOne /\ toChild' = toChild
        BY <1>1 DEF WriteFails
    <2> QED
        BY <2>1, WritesOneIs
<1> QED
    BY <1>1, CalmIs, RequestIs, ResumingIs DEF Still

\* The cases of a step, for those ways.
LEMMA WayIs ==
    ASSUME [Next]_vars
    PROVE  \/ Still \/ WriteToChild \/ ChildMessage \/ Restart \/ ChildReads \/ ChildDies
           \/ \E m \in Messages : ChildAnswers(m)
BY StepIs DEF Still

\* A restart leaves nothing on the way that was not there.
LEMMA RestartDrops ==
    ASSUME TypeOK, StateInv, Restart \/ ChildDies
    PROVE  /\ \A i \in DOMAIN toChild' : i \in DOMAIN toChild /\ toChild'[i] = toChild[i]
           /\ work' \subseteq work
           /\ \A i \in DOMAIN fromChild' : i \in DOMAIN fromChild /\ fromChild'[i] = fromChild[i]
<1>1. /\ \/ toChild' = <<>> /\ work' = {}
         \/ UNCHANGED <<toChild, work>>
      /\ \/ fromChild' = <<>> \/ fromChild' = fromChild
         \/ fromChild # <<>> /\ fromChild' = <<Head(fromChild)>>
    <2>1. CASE Restart
        BY <2>1, RestartIs, Zenon
    <2>2. CASE ChildDies
        BY <2>2, DeathIs, Zenon
    <2> QED
        BY <2>1, <2>2
<1>2. fromChild \in Seq(Responses)
    BY DEF TypeOK
<1> QED
    BY <1>1, <1>2

\* On its way to the child, and back, an id is met once.
LEMMA OnceStep ==
    ASSUME TypeOK, StateInv, OutboxInv, FateInv, OnceInv, PlaceInv, [Next]_vars
    PROVE  OnceInv'
<1>t. /\ toChild \in Seq(Messages) /\ DOMAIN toChild = 1 .. Len(toChild) /\ Len(toChild) \in Nat
      /\ fromChild \in Seq(Responses) /\ DOMAIN fromChild = 1 .. Len(fromChild) /\ Len(fromChild) \in Nat
    BY DEF TypeOK
<1>1. CASE UNCHANGED <<toChild, work, fromChild>>
    BY <1>1 DEF OnceInv
<1>2. CASE WriteToChild
    <2>1. /\ DOMAIN toChild' = 1 .. Len(toChild) + 1 /\ toChild'[Len(toChild) + 1] = outbox[1]
          /\ \A i \in DOMAIN toChild : toChild'[i] = toChild[i]
          /\ 1 \in DOMAIN outbox /\ UNCHANGED <<work, fromChild>>
        BY <1>2, WriteIs, WritesOneIs
    <2>2. outbox[1].id # 0 => outbox[1].id \in InHand
        BY <2>1 DEF InHand
    <2>3. outbox[1].id # 0 => \A i \in DOMAIN toChild : toChild[i].id # outbox[1].id
        <3> SUFFICES ASSUME NEW i \in DOMAIN toChild, toChild[i].id = outbox[1].id, outbox[1].id # 0
                     PROVE  FALSE
            OBVIOUS
        <3>1. toChild[i].id \in Ids(written)
            BY DEF PlaceInv, IdsToChild
        <3> QED
            BY <2>2, <3>1 DEF FateInv
    <2>4. \A i \in DOMAIN toChild' : i \in DOMAIN toChild \/ i = Len(toChild) + 1
        BY <1>t, <2>1
    <2>5. ASSUME NEW i \in DOMAIN toChild', NEW j \in DOMAIN toChild',
                 toChild'[i].id = toChild'[j].id, toChild'[i].id # 0
          PROVE  i = j
        <3>1. CASE i \in DOMAIN toChild /\ j \in DOMAIN toChild
            BY <2>1, <2>5, <3>1 DEF OnceInv
        <3>2. CASE i = Len(toChild) + 1 /\ j \in DOMAIN toChild
            BY <2>1, <2>3, <2>5, <3>2
        <3>3. CASE j = Len(toChild) + 1 /\ i \in DOMAIN toChild
            BY <2>1, <2>3, <2>5, <3>3
        <3> QED
            BY <2>4, <3>1, <3>2, <3>3
    <2> QED
        BY <2>1, <2>5 DEF OnceInv
<1>3. CASE ChildMessage
    <2>1. /\ fromChild' \in Seq(Responses) /\ Len(fromChild') = Len(fromChild) - 1
          /\ \A i \in 1 .. Len(fromChild') : fromChild'[i] = fromChild[i + 1]
          /\ UNCHANGED <<toChild, work>>
        BY <1>3, ResponseIs
    <2>2. DOMAIN fromChild' = 1 .. Len(fromChild')
        BY <2>1
    <2>3. \A i \in DOMAIN fromChild' : i \in Nat /\ i + 1 \in DOMAIN fromChild /\ fromChild'[i] = fromChild[i + 1]
        BY <1>t, <2>1, <2>2
    <2>4. \A i, j \in DOMAIN fromChild' :
            fromChild'[i].to.id = fromChild'[j].to.id /\ fromChild'[i].to.id # 0 => i = j
        BY <2>3 DEF OnceInv
    <2> QED
        BY <2>1, <2>4 DEF OnceInv
<1>4. CASE Restart \/ ChildDies
    BY <1>4, RestartDrops DEF OnceInv
<1>5. CASE ChildReads
    <2>1. /\ 1 \in DOMAIN toChild
          /\ \A i \in DOMAIN toChild' : i \in Nat /\ i + 1 \in DOMAIN toChild /\ toChild'[i] = toChild[i + 1]
          /\ work' = work \cup {toChild[1]} /\ fromChild' = fromChild
        BY <1>5, ReadIs
    <2>2. toChild[1].id # 0 => \A n \in work : n.id # toChild[1].id
        BY <2>1 DEF PlaceInv, IdsToChild, IdsAtWork
    <2>3. \A i, j \in DOMAIN toChild' : toChild'[i].id = toChild'[j].id /\ toChild'[i].id # 0 => i = j
        BY <2>1 DEF OnceInv
    <2>4. \A m, n \in work' : m.id = n.id /\ m.id # 0 => m = n
        BY <2>1, <2>2 DEF OnceInv
    <2> QED
        BY <2>1, <2>3, <2>4 DEF OnceInv
<1>6. ASSUME NEW m \in Messages, ChildAnswers(m)
      PROVE  OnceInv'
    <2>1. m \in work /\ work' = work \ {m} /\ toChild' = toChild
        BY <1>6, AnswerIs
    <2>2. PICK x \in Responses : fromChild' = Append(fromChild, x) /\ x.to = m
        BY <1>6, AnswerIs
    <2>3. /\ DOMAIN fromChild' = 1 .. Len(fromChild) + 1 /\ fromChild'[Len(fromChild) + 1] = x
          /\ \A i \in 1 .. Len(fromChild) : fromChild'[i] = fromChild[i]
        BY <1>t, <2>2
    <2>4. m.id # 0 => \A i \in DOMAIN fromChild : fromChild[i].to.id # m.id
        BY <2>1 DEF PlaceInv, IdsAtWork, IdsFromChild
    <2>5. \A i, j \in DOMAIN fromChild' :
            fromChild'[i].to.id = fromChild'[j].to.id /\ fromChild'[i].to.id # 0 => i = j
        BY <1>t, <2>2, <2>3, <2>4 DEF OnceInv
    <2> QED
        BY <2>1, <2>5 DEF OnceInv
<1> QED
    BY <1>1, <1>2, <1>3, <1>4, <1>5, <1>6, StillIs, WayIs

\* Nothing of what came before has the id of the next request.
LEMMA NextIsNew ==
    ASSUME TypeOK, FateInv
    PROVE  requests + 1 \notin Ids(written) /\ requests + 1 \notin rejected
<1>1. requests \in Nat
    BY ProxyConstants DEF TypeOK
<1>2. Ids(written) \subseteq 1 .. requests /\ rejected \subseteq 1 .. requests
    BY DEF FateInv
<1>3. requests + 1 \notin 1 .. requests
    BY <1>1
<1> QED
    BY <1>2, <1>3

\* What was written or refused stays so.
LEMMA FatesStay ==
    ASSUME TypeOK, StateInv, PlainInv, PlaceInv, [Next]_vars
    PROVE  Ids(written) \subseteq Ids(written)' /\ rejected \subseteq rejected'
<1>1. Ids(written)' = Ids(written')
    BY DEF Ids
<1>2. CASE \E m \in Messages : Handle(m)
    <2>1. rejected \subseteq rejected' /\ written' = written
        BY <1>2, RequestIs DEF Handle, ForwardRequest, EnqueueRequest, RejectRequest
    <2> QED
        BY <1>1, <2>1
<1>3. CASE WriteToChild
    <2>1. /\ written' = written \/ written' = Append(written, outbox[1].id)
          /\ WritesOne
        BY <1>3, WriteIs
    <2>2. rejected' = rejected /\ outbox[1] \in Messages
        BY <2>1, WritesOneIs
    <2>3. written \in Seq(Nat) /\ outbox[1].id \in Nat
        <3>1. 1 .. MaxRequests \subseteq Nat
            OBVIOUS
        <3> QED
            BY <2>2, <3>1, ProxyConstants, SeqMonotonic DEF TypeOK, Messages
    <2>4. Ids(Append(written, outbox[1].id)) = Ids(written) \cup {outbox[1].id}
        BY <2>3, IdsAppend
    <2> QED
        BY <1>1, <2>1, <2>2, <2>4
<1>4. CASE WriteFails
    <2>1. WritesOne /\ written' = written
        BY <1>4 DEF WriteFails
    <2> QED
        BY <1>1, <2>1, WritesOneIs
<1>5. CASE InitializeResponse
    BY <1>1, <1>5, ResumingIs
<1>6. CASE ChildMessage
    <2>1. rejected \subseteq rejected'
        BY <1>6, ResponseFates
    <2>2. written' = written
        BY <1>6, ResponseIs
    <2> QED
        BY <1>1, <2>1, <2>2
<1>7. CASE Calm \/ Restart \/ ChildReads \/ ChildDies \/ (\E m \in Messages : ChildAnswers(m))
    BY <1>1, <1>7, CalmIs, RestartIs, ReadIs, DeathIs, AnswerIs
<1> QED
    BY <1>2, <1>3, <1>4, <1>5, <1>6, <1>7, StepIs

\* The places follow one another, as a request moves from one to the next.
LEMMA PlaceStep ==
    ASSUME TypeOK, StateInv, PlainInv, OutboxInv, FateInv, OnceInv, PlaceInv, [Next]_vars
    PROVE  PlaceInv'
<1>t. /\ toChild \in Seq(Messages) /\ DOMAIN toChild = 1 .. Len(toChild) /\ Len(toChild) \in Nat
      /\ fromChild \in Seq(Responses) /\ DOMAIN fromChild = 1 .. Len(fromChild) /\ Len(fromChild) \in Nat
      /\ answers \in Seq(0 .. MaxRequests)
    BY DEF TypeOK
<1>n. answers \in Seq(Nat)
    <2>1. 0 .. MaxRequests \subseteq Nat
        OBVIOUS
    <2> QED
        BY <1>t, <2>1, SeqMonotonic
<1>f. Ids(written) \subseteq Ids(written)' /\ rejected \subseteq rejected'
    BY FatesStay
<1>1. ASSUME NEW m \in Messages, Handle(m)
      PROVE  PlaceInv'
    <2>1. m.id = requests + 1 /\ UNCHANGED <<toChild, work, fromChild>> /\ m.id \in Nat
        BY <1>1, RequestIs
    <2>2. m.id \notin Ids(written) /\ m.id \notin rejected
        BY <2>1, NextIsNew
    <2>3. IdsAtWork' = IdsAtWork /\ IdsFromChild' = IdsFromChild /\ IdsToChild' = IdsToChild
        BY <2>1 DEF IdsAtWork, IdsFromChild, IdsToChild
    <2>4. CASE ForwardRequest(m) \/ EnqueueRequest(m)
        <3>1. Answered' = Answered
            BY <2>4 DEF ForwardRequest, EnqueueRequest, Answered, Ids
        <3> QED
            BY <1>f, <2>3, <3>1 DEF PlaceInv
    <2>5. CASE RejectRequest(m)
        <3>1. m.id \in rejected'
            BY <2>5 DEF RejectRequest
        <3>2. Answered' \subseteq Answered \cup {m.id}
            <4>1. answers' = Append(answers, m.id)
                BY <2>5 DEF RejectRequest, ErrorResponse
            <4>2. Ids(Append(answers, m.id)) = Ids(answers) \cup {m.id}
                BY <1>n, <2>1, IdsAppend
            <4>3. Ids(answers)' = Ids(answers')
                BY DEF Ids
            <4> QED
                BY <4>1, <4>2, <4>3 DEF Answered
        <3> QED
            BY <1>f, <2>2, <2>3, <3>1, <3>2 DEF PlaceInv
    <2> QED
        BY <1>1, <2>4, <2>5 DEF Handle
<1>2. CASE ChildMessage
    <2>1. PICK id \in 0 .. MaxRequests :
             /\ id = fromChild[1].to.id
             /\ id # 0 => id \in IdsFromChild /\ id \in Ids(written)
             /\ \/ answers' = answers
                \/ answers' = Append(answers, id)
                \/ answers' = Append(Append(answers, id), id)
        BY <1>2, ResponseFates
    <2>2. Answered' \subseteq Answered \cup ({id} \ {0})
        <3>0. id \in Nat
            OBVIOUS
        <3>1. Ids(Append(answers, id)) = Ids(answers) \cup {id} /\ Append(answers, id) \in Seq(Nat)
            BY <1>n, <3>0, IdsAppend
        <3>2. Ids(Append(Append(answers, id), id)) = Ids(Append(answers, id)) \cup {id}
            BY <3>0, <3>1, IdsAppend
        <3>3. Ids(answers)' = Ids(answers')
            BY DEF Ids
        <3> QED
            BY <2>1, <3>1, <3>2, <3>3 DEF Answered
    <2>3. IdsFromChild' \subseteq IdsFromChild /\ (id # 0 => id \notin IdsFromChild')
        <3>1. /\ fromChild' \in Seq(Responses) /\ Len(fromChild') = Len(fromChild) - 1
              /\ Len(fromChild) > 0
              /\ \A i \in 1 .. Len(fromChild') : fromChild'[i] = fromChild[i + 1]
            BY <1>2, ResponseIs
        <3>2. DOMAIN fromChild' = 1 .. Len(fromChild') /\ 1 \in DOMAIN fromChild
            BY <1>t, <3>1
        <3>3. \A i \in DOMAIN fromChild' :
                i \in Nat /\ i # 0 /\ i + 1 \in DOMAIN fromChild /\ fromChild'[i] = fromChild[i + 1]
            BY <1>t, <3>1, <3>2
        <3>4. \A i \in DOMAIN fromChild' : fromChild'[i].to.id # 0 => fromChild'[i].to.id # fromChild[1].to.id
            <4> SUFFICES ASSUME NEW i \in DOMAIN fromChild',
                                fromChild'[i].to.id # 0, fromChild'[i].to.id = fromChild[1].to.id
                         PROVE  FALSE
                OBVIOUS
            <4>1. i + 1 = 1
                BY <3>2, <3>3 DEF OnceInv
            <4> QED
                BY <3>3, <4>1
        <3> QED
            BY <2>1, <3>3, <3>4 DEF IdsFromChild
    <2>4. IdsAtWork' = IdsAtWork /\ IdsToChild' = IdsToChild
        BY <1>2, ResponseIs DEF IdsAtWork, IdsToChild
    <2> QED
        BY <1>f, <2>1, <2>2, <2>3, <2>4 DEF PlaceInv
<1>3. CASE Restart \/ ChildDies
    <2>1. IdsToChild' \subseteq IdsToChild /\ IdsAtWork' \subseteq IdsAtWork /\ IdsFromChild' \subseteq IdsFromChild
        BY <1>3, RestartDrops DEF IdsToChild, IdsAtWork, IdsFromChild
    <2>2. Answered' = Answered
        BY <1>3, RestartIs, DeathIs DEF Answered, Ids
    <2> QED
        BY <1>f, <2>1, <2>2 DEF PlaceInv
<1>4. CASE ChildReads
    <2>1. /\ 1 \in DOMAIN toChild
          /\ \A i \in DOMAIN toChild' : i \in Nat /\ i + 1 \in DOMAIN toChild /\ toChild'[i] = toChild[i + 1]
          /\ work' = work \cup {toChild[1]} /\ UNCHANGED <<fromChild, answers>>
          /\ toChild' \in Seq(Messages)
        BY <1>4, ReadIs
    <2> DEFINE id == toChild[1].id
    <2>2. IdsAtWork' \subseteq IdsAtWork \cup ({id} \ {0})
        BY <2>1 DEF IdsAtWork
    <2>3. id # 0 => id \in IdsToChild
        BY <2>1 DEF IdsToChild
    <2>4. IdsToChild' \subseteq IdsToChild /\ (id # 0 => id \notin IdsToChild')
        <3>1. DOMAIN toChild' = 1 .. Len(toChild')
            BY <2>1
        <3>2. \A i \in DOMAIN toChild' : toChild'[i].id # 0 => toChild'[i].id # toChild[1].id
            <4> SUFFICES ASSUME NEW i \in DOMAIN toChild',
                                toChild'[i].id # 0, toChild'[i].id = toChild[1].id
                         PROVE  FALSE
                OBVIOUS
            <4>1. i + 1 = 1
                BY <2>1 DEF OnceInv
            <4>2. i \in 1 .. Len(toChild')
                BY <3>1
            <4> QED
                BY <4>1, <4>2
        <3> QED
            BY <2>1, <3>2 DEF IdsToChild
    <2>5. IdsFromChild' = IdsFromChild /\ Answered' = Answered
        BY <2>1 DEF IdsFromChild, Answered, Ids
    <2> HIDE DEF id
    <2> QED
        BY <1>f, <2>2, <2>3, <2>4, <2>5 DEF PlaceInv
<1>5. ASSUME NEW m \in Messages, ChildAnswers(m)
      PROVE  PlaceInv'
    <2>1. m \in work /\ work' = work \ {m} /\ UNCHANGED <<toChild, answers>>
        BY <1>5, AnswerIs
    <2>2. PICK x \in Responses : fromChild' = Append(fromChild, x) /\ x.to = m
        BY <1>5, AnswerIs
    <2>3. IdsFromChild' \subseteq IdsFromChild \cup ({m.id} \ {0})
        <3>1. /\ DOMAIN fromChild' = 1 .. Len(fromChild) + 1 /\ fromChild'[Len(fromChild) + 1] = x
              /\ \A i \in 1 .. Len(fromChild) : fromChild'[i] = fromChild[i]
            BY <1>t, <2>2
        <3>2. \A i \in DOMAIN fromChild' :
                fromChild'[i].to = m \/ (i \in DOMAIN fromChild /\ fromChild'[i] = fromChild[i])
            <4>1. \A i \in DOMAIN fromChild' : i \in 1 .. Len(fromChild) \/ i = Len(fromChild) + 1
                BY <1>t, <3>1
            <4>2. ASSUME NEW i \in DOMAIN fromChild'
                  PROVE  fromChild'[i].to = m \/ (i \in DOMAIN fromChild /\ fromChild'[i] = fromChild[i])
                <5>1. CASE i \in 1 .. Len(fromChild)
                    BY <1>t, <3>1, <5>1
                <5>2. CASE i = Len(fromChild) + 1
                    BY <1>t, <2>2, <3>1, <5>2
                <5> QED
                    BY <4>1, <5>1, <5>2
            <4> QED
                BY <4>2
        <3> QED
            BY <3>2 DEF IdsFromChild
    <2>4. /\ m.id # 0 => m.id \in IdsAtWork
          /\ IdsAtWork' \subseteq IdsAtWork /\ (m.id # 0 => m.id \notin IdsAtWork')
        BY <2>1 DEF IdsAtWork, OnceInv
    <2>5. IdsToChild' = IdsToChild /\ Answered' = Answered
        BY <2>1 DEF IdsToChild, Answered, Ids
    <2> QED
        BY <1>f, <2>3, <2>4, <2>5 DEF PlaceInv
<1>6. CASE WriteToChild
    <2>1. /\ DOMAIN toChild' = 1 .. Len(toChild) + 1 /\ toChild'[Len(toChild) + 1] = outbox[1]
          /\ \A i \in DOMAIN toChild : toChild'[i] = toChild[i]
          /\ WritesOne
          /\ outbox[1].id # 0 => written' = Append(written, outbox[1].id)
        BY <1>6, WriteIs
    <2>2. 1 \in DOMAIN outbox /\ outbox[1] \in Messages /\ UNCHANGED <<work, fromChild, answers>>
        BY <2>1, WritesOneIs
    <2> DEFINE id == outbox[1].id
    <2>3. id # 0 => id \in InHand
        BY <2>2 DEF InHand
    <2>4. id # 0 => id \notin Ids(written) /\ id \notin rejected
        BY <2>3 DEF FateInv
    <2>5. id # 0 => id \in Ids(written)'
        <3> SUFFICES ASSUME id # 0 PROVE id \in Ids(written)'
            OBVIOUS
        <3>1. written' = Append(written, id) /\ written \in Seq(1 .. MaxRequests)
            BY <2>1 DEF TypeOK
        <3> HIDE DEF id
        <3>2. Len(written) + 1 \in DOMAIN written' /\ written'[Len(written) + 1] = id
            BY <3>1
        <3> QED
            BY <3>2 DEF Ids
    <2>6. \A i \in DOMAIN toChild' : i \in DOMAIN toChild \/ i = Len(toChild) + 1
        BY <1>t, <2>1
    <2>7. IdsToChild' \subseteq IdsToChild \cup ({id} \ {0})
        BY <2>1, <2>6 DEF IdsToChild
    <2>8. IdsAtWork' = IdsAtWork /\ IdsFromChild' = IdsFromChild /\ Answered' = Answered
        BY <2>2 DEF IdsAtWork, IdsFromChild, Answered, Ids
    <2> HIDE DEF id
    <2> QED
        BY <1>f, <2>4, <2>5, <2>7, <2>8 DEF PlaceInv
<1>7. CASE WriteFails \/ InitializeResponse \/ Calm
    <2>1. UNCHANGED <<toChild, work, fromChild>>
        BY <1>7, StillIs DEF Still
    <2>2. UNCHANGED answers
        <3>1. CASE WriteFails
            <4>1. WritesOne
                BY <3>1 DEF WriteFails
            <4> QED
                BY <4>1, WritesOneIs
        <3> QED
            BY <1>7, <3>1, ResumingIs, CalmIs
    <2>3. IdsToChild' = IdsToChild /\ IdsAtWork' = IdsAtWork
        BY <2>1 DEF IdsToChild, IdsAtWork
    <2>4. IdsFromChild' = IdsFromChild /\ Answered' = Answered
        BY <2>1, <2>2 DEF IdsFromChild, Answered, Ids
    <2> QED
        BY <1>f, <2>3, <2>4 DEF PlaceInv
<1> QED
    BY <1>1, <1>2, <1>3, <1>4, <1>5, <1>6, <1>7, StepIs

(***************************************************************************)
(* Answers                                                                 *)
(***************************************************************************)
\* What is not in X is at one place of s at most.
Once(s, X) == \A i, j \in DOMAIN s : s[i] = s[j] /\ s[i] \notin X => i = j

\* A new element is met once.
LEMMA OnceAppend ==
    ASSUME NEW s \in Seq(Nat), NEW x \in Nat, NEW X, Once(s, X), x \in X \/ x \notin Ids(s)
    PROVE  Once(Append(s, x), X)
<1>1. /\ DOMAIN s = 1 .. Len(s) /\ DOMAIN Append(s, x) = 1 .. Len(s) + 1 /\ Len(s) \in Nat
      /\ Append(s, x)[Len(s) + 1] = x
      /\ \A i \in 1 .. Len(s) : Append(s, x)[i] = s[i]
    OBVIOUS
<1>2. x \in X \/ \A i \in 1 .. Len(s) : s[i] # x
    BY <1>1 DEF Ids
<1> QED
    BY <1>1, <1>2 DEF Once

\* A response takes the last place of its id, so that no second one follows.
LEMMA AnsweredStep ==
    ASSUME TypeOK, StateInv, PlainInv, FateInv, PlaceInv, AnsweredOnce, [Next]_vars
    PROVE  AnsweredOnce'
<1> DEFINE X == Merging
<1>1. answers \in Seq(Nat) /\ requests \in Nat
    <2>1. 0 .. MaxRequests \subseteq Nat
        OBVIOUS
    <2> QED
        BY <2>1, SeqMonotonic, ProxyConstants DEF TypeOK
<1>2. X \subseteq X'
    BY FatesStay DEF Merging
<1>3. Once(answers, X)
    BY DEF AnsweredOnce, Once
<1>4. Once(answers, X')
    <2> HIDE DEF X
    <2> QED
        BY <1>2, <1>3 DEF Once
<1>5. SUFFICES Once(answers', X')
    BY DEF AnsweredOnce, Once, Merging, Ids
<1>6. ASSUME NEW m \in Messages, Handle(m)
      PROVE  Once(answers', X')
    <2>1. m.id = requests + 1 /\ m.id # 0
        BY <1>6, RequestIs
    <2>2. m.id \notin Ids(answers)
        BY <2>1, NextIsNew DEF PlaceInv, Answered
    <2>3. answers' = answers \/ answers' = Append(answers, m.id)
        BY <1>6 DEF Handle, ForwardRequest, EnqueueRequest, RejectRequest, ErrorResponse
    <2>4. m.id \in Nat
        BY <1>1, <2>1
    <2> HIDE DEF X
    <2> QED
        BY <1>1, <1>4, <2>2, <2>3, <2>4, OnceAppend
<1>7. CASE ChildMessage
    <2>1. PICK id \in 0 .. MaxRequests :
             /\ id # 0 => id \in IdsFromChild /\ id \in Ids(written)
             /\ \/ id = 0 /\ answers' = answers
                \/ id # 0 /\ answers' = Append(answers, id)
                \/ /\ id # 0 /\ answers' = Append(Append(answers, id), id)
                   /\ rejected' = rejected \cup {id}
        BY <1>7, ResponseFates
    <2>2. id \in Nat
        OBVIOUS
    <2>3. id # 0 => id \notin Ids(answers)
        BY <2>1 DEF PlaceInv, Answered
    <2>4. rejected' = rejected \cup {id} /\ id # 0 => id \in X'
        BY <2>1, FatesStay DEF Merging
    <2> HIDE DEF X
    <2>5. id # 0 => Once(Append(answers, id), X') /\ Append(answers, id) \in Seq(Nat)
        BY <1>1, <1>4, <2>2, <2>3, OnceAppend
    <2>6. id # 0 /\ id \in X' => Once(Append(Append(answers, id), id), X')
        BY <2>2, <2>5, OnceAppend
    <2> QED
        BY <1>4, <2>1, <2>4, <2>5, <2>6
<1>8. CASE answers' = answers
    BY <1>4, <1>8
<1>9. CASE WriteToChild \/ WriteFails
    <2>1. WritesOne
        BY <1>9 DEF WriteToChild, WriteFails
    <2> QED
        BY <1>8, <2>1, WritesOneIs
<1>10. CASE Calm \/ InitializeResponse \/ Restart \/ ChildReads \/ ChildDies \/ (\E m \in Messages : ChildAnswers(m))
    BY <1>8, <1>10, CalmIs, ResumingIs, RestartIs, ReadIs, DeathIs, AnswerIs
<1> QED
    BY <1>6, <1>7, <1>9, <1>10, StepIs


(***************************************************************************)
(* Replay and subscriptions                                                *)
(***************************************************************************)
\* Hydra's own requests come first, on their way into the pipe and out of it.
LEMMA ReplayStep ==
    ASSUME TypeOK, StateInv, QueueInv, ReplayInv, [Next]_vars
    PROVE  ReplayInv'
<1>t. toChild \in Seq(Messages) /\ DOMAIN toChild = 1 .. Len(toChild) /\ Len(toChild) \in Nat
    BY DEF TypeOK
<1>1. CASE UNCHANGED <<toChild, outbox>>
    BY <1>1 DEF ReplayInv, ReplayFirst
<1>2. ASSUME NEW m \in Messages, Handle(m)
      PROVE  ReplayInv'
    <2>1. m.id # 0 /\ toChild' = toChild
        BY <1>2, RequestIs
    <2>2. outbox' = outbox \/ outbox' = <<m>>
        BY <1>2 DEF Handle, ForwardRequest, EnqueueRequest, RejectRequest
    <2>3. CASE outbox' = <<m>>
        <3>1. \A j \in DOMAIN outbox' : outbox'[j].id # 0
            BY <2>1, <2>3
        <3> QED
            BY <2>1, <3>1 DEF ReplayInv, ReplayFirst
    <2> QED
        BY <1>1, <2>1, <2>2, <2>3
<1>3. CASE WriteToChild \/ WriteFails
    <2>1. WritesOne
        BY <1>3 DEF WriteToChild, WriteFails
    <2>2. /\ 1 \in DOMAIN outbox
          /\ \A i \in DOMAIN outbox' :
                i \in Nat /\ i # 0 /\ i + 1 \in DOMAIN outbox /\ outbox'[i] = outbox[i + 1]
        BY <2>1, WritesOneIs
    <2>3. ReplayFirst(outbox')
        BY <2>2 DEF ReplayInv, ReplayFirst
    <2>4. ASSUME NEW j \in DOMAIN outbox', outbox'[j].id = 0
          PROVE  /\ outbox[1].id = 0 /\ outbox'[j].kind # "initialize"
                 /\ \A i \in DOMAIN toChild : toChild[i].id = 0
        <3>1. 1 < j + 1 /\ j + 1 \in DOMAIN outbox /\ outbox'[j] = outbox[j + 1]
            BY <2>2
        <3> QED
            BY <2>2, <2>4, <3>1 DEF ReplayInv, ReplayFirst
    <2>5. CASE WriteFails
        <3>1. toChild' = toChild
            BY <2>5 DEF WriteFails
        <3>2. ReplayFirst(toChild) /\ ReplayFirst(outbox)'
            BY <2>3 DEF ReplayInv, ReplayFirst
        <3> QED
            BY <2>4, <3>1, <3>2 DEF ReplayInv, ReplayFirst
    <2>6. CASE WriteToChild
        <3>1. /\ DOMAIN toChild' = 1 .. Len(toChild) + 1 /\ toChild'[Len(toChild) + 1] = outbox[1]
              /\ \A i \in DOMAIN toChild : toChild'[i] = toChild[i]
            BY <2>6, WriteIs
        <3>2. \A i \in DOMAIN toChild' : i \in DOMAIN toChild \/ i = Len(toChild) + 1
            BY <1>t, <3>1
        <3>3. ASSUME NEW i \in DOMAIN toChild', NEW j \in DOMAIN toChild', i < j, toChild'[j].id = 0
              PROVE  toChild'[i].id = 0 /\ toChild'[j].kind # "initialize"
            <4>1. i \in DOMAIN toChild
                BY <1>t, <3>1, <3>2, <3>3
            <4>2. CASE j \in DOMAIN toChild
                BY <3>1, <3>3, <4>1, <4>2 DEF ReplayInv, ReplayFirst
            <4>3. CASE j = Len(toChild) + 1
                BY <2>2, <3>1, <3>3, <4>1, <4>3 DEF ReplayInv
            <4> QED
                BY <3>2, <4>2, <4>3
        <3>4. ASSUME NEW i \in DOMAIN toChild', NEW j \in DOMAIN outbox', outbox'[j].id = 0
              PROVE  toChild'[i].id = 0 /\ outbox'[j].kind # "initialize"
            BY <2>4, <3>1, <3>2, <3>4
        <3>5. ReplayFirst(toChild')
            BY <3>3 DEF ReplayFirst
        <3>6. ReplayFirst(toChild)' /\ ReplayFirst(outbox)'
            BY <2>3, <3>5 DEF ReplayFirst
        <3> QED
            BY <3>4, <3>6 DEF ReplayInv
    <2> QED
        BY <1>3, <2>5, <2>6
<1>4. CASE InitializeResponse
    <2>1. /\ \A i \in DOMAIN outbox' : i \in Nat /\ i # 0
          /\ \A i \in DOMAIN outbox' :
                (outbox'[i].id = 0 /\ (outbox'[i].kind = "initialize" => i = 1)) \/ outbox'[i].id \in 1 .. requests
          /\ \A i, j \in DOMAIN outbox' : i < j /\ outbox'[j].id = 0 => outbox'[i].id = 0
        BY <1>4, InHandAfterDrain
    <2>2. toChild' = <<>>
        BY <1>4, ResumingIs DEF StateInv
    <2>3. \A n \in 1 .. requests : n # 0
        BY ProxyConstants DEF TypeOK
    <2>4. ASSUME NEW i \in DOMAIN outbox', NEW j \in DOMAIN outbox', i < j, outbox'[j].id = 0
          PROVE  outbox'[i].id = 0 /\ outbox'[j].kind # "initialize"
        <3>1. j # 1
            BY <2>1, <2>4
        <3> QED
            BY <2>1, <2>3, <2>4, <3>1
    <2>5. DOMAIN toChild' = {}
        BY <2>2
    <2>6. ReplayFirst(outbox)' /\ ReplayFirst(toChild)'
        BY <2>4, <2>5 DEF ReplayFirst
    <2> QED
        BY <2>5, <2>6 DEF ReplayInv
<1>5. CASE Restart \/ ChildDies
    <2>1. \A i \in DOMAIN toChild' : i \in DOMAIN toChild /\ toChild'[i] = toChild[i]
        BY <1>5, RestartDrops
    <2>2. outbox' = outbox
        BY <1>5, RestartIs, DeathIs
    <2> QED
        BY <2>1, <2>2 DEF ReplayInv, ReplayFirst
<1>6. CASE ChildReads
    <2>1. /\ \A i \in DOMAIN toChild' : i \in Nat /\ i + 1 \in DOMAIN toChild /\ toChild'[i] = toChild[i + 1]
          /\ outbox' = outbox
        BY <1>6, ReadIs
    <2> QED
        BY <2>1 DEF ReplayInv, ReplayFirst
<1>7. CASE Calm \/ ChildMessage \/ (\E m \in Messages : ChildAnswers(m))
    BY <1>1, <1>7, CalmIs, ResponseIs, AnswerIs
<1> QED
    BY <1>2, <1>3, <1>4, <1>5, <1>6, <1>7, StepIs

\* One request more: the last about its URI, as the store has it, and about no other.
LEMMA SaysAppend ==
    ASSUME NEW s \in Seq(Messages), NEW m \in Messages, NEW S, NEW T, NEW C,
           m.uri \in Uris => (m.kind = "subscribe" <=> m.uri \in T),
           \A u \in Uris \ {m.uri} : u \in T <=> u \in S
    PROVE  /\ Says(s, S) => Says(Append(s, m), T)
           /\ Agree(s, C, S) => Agree(Append(s, m), C, T)
<1> DEFINE t == Append(s, m)
           n == Len(s)
<1>1. /\ n \in Nat /\ DOMAIN s = 1 .. n /\ DOMAIN t = 1 .. n + 1 /\ t[n + 1] = m
      /\ \A i \in 1 .. n : t[i] = s[i]
    OBVIOUS
<1> HIDE DEF t, n
<1>2. ASSUME Says(s, S),
             NEW u \in Uris, NEW i \in DOMAIN t, t[i].uri = u,
             \A j \in DOMAIN t : i < j => t[j].uri # u
      PROVE  t[i].kind = "subscribe" <=> u \in T
    <2>1. CASE i = n + 1
        BY <1>1, <1>2, <2>1
    <2>2. CASE i \in 1 .. n
        <3>1. u # m.uri
            BY <1>1, <1>2, <2>2
        <3>2. \A j \in DOMAIN s : i < j => s[j].uri # u
            BY <1>1, <1>2
        <3>3. s[i].kind = "subscribe" <=> u \in S
            BY <1>1, <1>2, <2>2, <3>2 DEF Says
        <3> QED
            BY <1>1, <2>2, <3>1, <3>3
    <2> QED
        BY <1>1, <2>1, <2>2
<1>3. ASSUME Agree(s, C, S),
             NEW u \in Uris, \A i \in DOMAIN t : t[i].uri # u
      PROVE  u \in C <=> u \in T
    <2>1. u # m.uri /\ \A i \in DOMAIN s : s[i].uri # u
        BY <1>1, <1>3
    <2> QED
        BY <1>3, <2>1 DEF Agree
<1> QED
    BY <1>2, <1>3 DEF Says, Agree, t

\* The first message is read: what is left, and what the child then has, say the same.
LEMMA SaysTail ==
    ASSUME NEW s \in Seq(Messages), s # <<>>, NEW S, NEW C, NEW D,
           Head(s).kind = "subscribe" => D = C \cup {Head(s).uri},
           Head(s).kind = "unsubscribe" => D = C \ {Head(s).uri},
           ~NeedsUri(Head(s).kind) => D = C,
           Says(s, S), Agree(s, C, S)
    PROVE  Says(Tail(s), S) /\ Agree(Tail(s), D, S)
<1> DEFINE h == Head(s)
           t == Tail(s)
           n == Len(s)
<1>1. /\ n \in Nat /\ DOMAIN s = 1 .. n /\ 1 \in DOMAIN s /\ h = s[1] /\ h \in Messages
      /\ DOMAIN t = 1 .. n - 1 /\ \A i \in DOMAIN t : t[i] = s[i + 1]
    <2>1. Len(s) \in Nat /\ Len(s) > 0 /\ DOMAIN s = 1 .. Len(s) /\ Head(s) = s[1] /\ Head(s) \in Messages
        OBVIOUS
    <2>2. Tail(s) \in Seq(Messages) /\ Len(Tail(s)) = Len(s) - 1
            /\ \A i \in 1 .. Len(Tail(s)) : Tail(s)[i] = s[i + 1]
        BY <2>1
    <2>3. DOMAIN Tail(s) = 1 .. Len(Tail(s))
        BY <2>2
    <2> QED
        BY <2>1, <2>2, <2>3
<1>2. /\ h.kind = "subscribe" => D = C \cup {h.uri}
      /\ h.kind = "unsubscribe" => D = C \ {h.uri}
      /\ ~NeedsUri(h.kind) => D = C
    OBVIOUS
<1>3. NeedsUri(h.kind) <=> h.uri \in Uris
    BY <1>1 DEF Messages
<1> HIDE DEF h, t, n
<1>4. ASSUME NEW u \in Uris, NEW i \in DOMAIN t, t[i].uri = u, \A j \in DOMAIN t : i < j => t[j].uri # u
      PROVE  t[i].kind = "subscribe" <=> u \in S
    <2>1. i + 1 \in DOMAIN s /\ s[i + 1] = t[i] /\ i \in Nat
        BY <1>1
    <2>2. ASSUME NEW j \in DOMAIN s, i + 1 < j
          PROVE  s[j].uri # u
        <3>1. j - 1 \in DOMAIN t /\ i < j - 1 /\ (j - 1) + 1 = j
            BY <1>1, <2>1, <2>2
        <3>2. t[j - 1] = s[j]
            BY <1>1, <3>1
        <3> QED
            BY <1>4, <3>1, <3>2
    <2> QED
        BY <1>4, <2>1, <2>2 DEF Says
<1>5. ASSUME NEW u \in Uris, \A i \in DOMAIN t : t[i].uri # u
      PROVE  u \in D <=> u \in S
    <2>1. ASSUME NEW j \in DOMAIN s, j # 1
          PROVE  s[j].uri # u
        <3>1. j - 1 \in DOMAIN t /\ (j - 1) + 1 = j
            BY <1>1, <2>1
        <3>2. t[j - 1] = s[j]
            BY <1>1, <3>1
        <3> QED
            BY <1>5, <3>1, <3>2
    <2>2. CASE h.uri = u
        <3>1. h.kind = "subscribe" <=> u \in S
            <4>1. \A j \in DOMAIN s : 1 < j => s[j].uri # u
                BY <2>1
            <4> QED
                BY <1>1, <2>2, <4>1 DEF Says
        <3> QED
            BY <1>2, <1>3, <2>2, <3>1 DEF NeedsUri
    <2>3. CASE h.uri # u
        <3>1. \A j \in DOMAIN s : s[j].uri # u
            BY <1>1, <2>1, <2>3
        <3>2. u \in C <=> u \in S
            BY <3>1 DEF Agree
        <3> QED
            BY <1>2, <2>3, <3>2 DEF NeedsUri
    <2> QED
        BY <2>2, <2>3
<1> QED
    BY <1>4, <1>5 DEF Says, Agree, t

\* A message that moves from the front of t to the end of s leaves the two in a row the same.
LEMMA MovesOn ==
    ASSUME NEW s \in Seq(Messages), NEW t \in Seq(Messages), t # <<>>
    PROVE  s \o t = Append(s, Head(t)) \o Tail(t)
<1> DEFINE h == Head(t)
           r == Tail(t)
           one == <<h>>
<1>1. h \in Messages /\ r \in Seq(Messages) /\ Len(r) = Len(t) - 1
        /\ \A i \in 1 .. Len(r) : r[i] = t[i + 1]
    BY HeadTailProperties
<1>2. one \in Seq(Messages) /\ Len(one) = 1 /\ one[1] = t[1] /\ Len(t) \in Nat /\ Len(t) > 0
    BY <1>1
<1>3. Append(s, h) = s \o one
    BY <1>1, AppendIsConcat
<1> HIDE DEF one, r
<1>4. (s \o one) \o r = s \o (one \o r)
    BY <1>1, <1>2, ConcatAssociative
<1>5. one \o r = t
    <2>0. /\ one \o r \in Seq(Messages) /\ Len(one \o r) = Len(one) + Len(r)
          /\ \A i \in 1 .. Len(one) + Len(r) : (one \o r)[i] = IF i <= Len(one) THEN one[i] ELSE r[i - Len(one)]
        <3>1. one \in Seq(Messages) /\ r \in Seq(Messages)
            BY <1>1, <1>2
        <3> QED
            BY <3>1, ConcatProperties, Zenon
    <2>1. Len(one) + Len(r) = Len(t)
        BY <1>1, <1>2
    <2> DEFINE w == one \o r
    <2>2. /\ w \in Seq(Messages) /\ Len(w) = Len(t)
          /\ \A i \in 1 .. Len(t) : w[i] = IF i <= 1 THEN one[i] ELSE r[i - 1]
        BY <1>2, <2>0, <2>1
    <2> HIDE DEF w
    <2>3. Len(w) = Len(t) /\ \A i \in 1 .. Len(w) : w[i] = t[i]
        BY <1>1, <1>2, <2>2
    <2>4. w = t
        BY <2>2, <2>3, SeqEqual, Zenon
    <2> QED
        BY <2>4 DEF w
<1> QED
    BY <1>3, <1>4, <1>5 DEF r

\* The first of two in a row is the first of the one, if it has any.
LEMMA ReadsOn ==
    ASSUME NEW s \in Seq(Messages), NEW t \in Seq(Messages), s # <<>>
    PROVE  /\ s \o t \in Seq(Messages) /\ s \o t # <<>>
           /\ Head(s \o t) = s[1] /\ Tail(s \o t) = Tail(s) \o t
<1> DEFINE w == s \o t
           r == Tail(s)
           v == r \o t
<1>1. /\ w \in Seq(Messages) /\ Len(w) = Len(s) + Len(t) /\ Len(s) \in Nat /\ Len(t) \in Nat /\ Len(s) > 0
      /\ \A i \in 1 .. Len(s) + Len(t) : w[i] = IF i <= Len(s) THEN s[i] ELSE t[i - Len(s)]
    BY ConcatProperties
<1>2. r \in Seq(Messages) /\ Len(r) = Len(s) - 1 /\ \A i \in 1 .. Len(r) : r[i] = s[i + 1]
    BY HeadTailProperties
<1> HIDE DEF r
<1>3. /\ v \in Seq(Messages) /\ Len(v) = Len(r) + Len(t)
      /\ \A i \in 1 .. Len(r) + Len(t) : v[i] = IF i <= Len(r) THEN r[i] ELSE t[i - Len(r)]
    BY <1>2, ConcatProperties
<1> HIDE DEF w, v
<1>4. w # <<>> /\ w[1] = s[1]
    BY <1>1
<1>5. Head(w) = w[1]
    BY <1>1, <1>4
<1> DEFINE x == Tail(w)
<1>6. x \in Seq(Messages) /\ Len(x) = Len(w) - 1 /\ \A i \in 1 .. Len(x) : x[i] = w[i + 1]
    BY <1>1, <1>4, HeadTailProperties
<1> HIDE DEF x
<1>7. Len(x) = Len(v)
    BY <1>1, <1>2, <1>3, <1>6
<1>8. ASSUME NEW i \in 1 .. Len(v)
      PROVE  x[i] = v[i]
    <2>1. x[i] = w[i + 1] /\ i + 1 \in 1 .. Len(s) + Len(t) /\ i \in 1 .. Len(r) + Len(t)
        BY <1>1, <1>2, <1>3, <1>6, <1>7
    <2>2. CASE i <= Len(r)
        BY <1>1, <1>2, <1>3, <2>1, <2>2
    <2>3. CASE ~(i <= Len(r))
        <3>1. v[i] = t[i - Len(r)]
            BY <1>3, <2>1, <2>3
        <3>2. w[i + 1] = t[(i + 1) - Len(s)]
            BY <1>1, <1>2, <2>1, <2>3
        <3>3. (i + 1) - Len(s) = i - Len(r)
            BY <1>1, <1>2
        <3> QED
            BY <2>1, <3>1, <3>2, <3>3
    <2> QED
        BY <2>2, <2>3
<1>9. x = v
    <2>1. \A i \in 1 .. Len(x) : x[i] = v[i]
        BY <1>7, <1>8
    <2> QED
        BY <1>3, <1>6, <1>7, <2>1, SeqEqual, Zenon
<1> QED
    BY <1>1, <1>4, <1>5, <1>9 DEF w, x, v, r

\* What the store takes from a request.
LEMMA StoreIs ==
    ASSUME NoUri \notin Uris, NEW m \in Messages, Handle(m)
    PROVE  /\ m.uri \in Uris => (m.kind = "subscribe" <=> m.uri \in subs')
           /\ \A u \in Uris \ {m.uri} : u \in subs' <=> u \in subs
<1>1. StoreTakes(m)
    BY DEF Handle, ForwardRequest, EnqueueRequest, RejectRequest, ClientRequest
<1>2. NeedsUri(m.kind) <=> m.uri \in Uris
    BY DEF Messages
<1> QED
    BY <1>1, <1>2 DEF StoreTakes, AddSubscription, RemoveSubscription, NeedsUri

\* A request that came later has not expired when one before it has not.
LEMMA LaterIsValid ==
    ASSUME TypeOK, QueueInv, NEW k \in 1 .. Len(queue), NEW l \in 1 .. Len(queue), k < l, Valid(queue[k])
    PROVE  Valid(queue[l]) /\ queue[k].msg.id < queue[l].msg.id
<1>1. DOMAIN queue = 1 .. Len(queue) /\ now \in Nat
    BY ProxyConstants DEF TypeOK
<1>2. queue[k].at \in Nat /\ queue[l].at \in Nat
    BY ItemTypes
<1>3. queue[k].msg.id < queue[l].msg.id /\ queue[k].at <= queue[l].at
    BY <1>1 DEF QueueInv
<1> QED
    BY <1>1, <1>2, <1>3, ProxyConstants DEF Valid, Expired

\* What is taken in hand for a new child brings it to the state of the store.
LEMMA ResumedSays ==
    ASSUME TypeOK, QueueInv, InitializeResponse, Says(Queued, subs)
    PROVE  Says(outbox', subs) /\ Agree(outbox', {}, subs)
<1>1. PICK order \in Orders(subs) :
         /\ Len(Replay(order)) \in Nat /\ Len(Drained) \in Nat
         /\ DOMAIN outbox' = 1 .. Len(Replay(order)) + Len(Drained)
         /\ \A i \in 1 .. Len(Replay(order)) : outbox'[i] = Replay(order)[i]
         /\ \A j \in 1 .. Len(Drained) : outbox'[Len(Replay(order)) + j] = Drained[j]
         /\ \A i \in DOMAIN outbox' : \/ i \in 1 .. Len(Replay(order))
                                       \/ \E j \in 1 .. Len(Drained) : i = Len(Replay(order)) + j
    BY ResumedIs
<1> DEFINE a == Replay(order)
<1>2. /\ \A i \in 1 .. Len(a) :
            \/ a[i].kind = "initialize" /\ a[i].uri = NoUri
            \/ a[i].kind = "subscribe" /\ a[i].uri \in subs
      /\ \A u \in subs : \E i \in 1 .. Len(a) : a[i].uri = u
    <2>1. /\ \A i \in 1 .. Len(a) :
            \/ a[i].kind = "initialize" /\ i = 1 /\ a[i].uri = NoUri
            \/ a[i].kind = "subscribe" /\ a[i].uri \in subs
          /\ \A u \in subs : \E i \in 1 .. Len(a) : a[i].uri = u
        BY ReplayIs, ProxyConstants DEF TypeOK
    <2> QED
        BY <2>1
<1>3. queue \in Seq(Items) /\ DOMAIN queue = 1 .. Len(queue) /\ requests \in Nat /\ Len(queue) \in Nat
    BY ProxyConstants DEF TypeOK
<1>4. /\ \A i, j \in 1 .. Len(Drained) : i < j => Drained[i].id < Drained[j].id
      /\ \A i \in 1 .. Len(Drained) : \E k \in 1 .. Len(queue) : Valid(queue[k]) /\ Drained[i] = queue[k].msg
      /\ \A k \in 1 .. Len(queue) : Valid(queue[k]) => \E i \in 1 .. Len(Drained) : Drained[i] = queue[k].msg
    BY <1>3, DrainedIs
<1> HIDE DEF a, Drained
<1>5. ASSUME NEW u \in Uris, NEW i \in DOMAIN outbox', outbox'[i].uri = u,
             \A j \in DOMAIN outbox' : i < j => outbox'[j].uri # u
      PROVE  outbox'[i].kind = "subscribe" <=> u \in subs
    <2>1. CASE i \in 1 .. Len(a)
        BY <1>1, <1>2, <1>5, <2>1, ProxyConstants DEF a
    <2>2. ASSUME NEW j \in 1 .. Len(Drained), i = Len(a) + j
          PROVE  outbox'[i].kind = "subscribe" <=> u \in subs
        <3>1. outbox'[i] = Drained[j]
            BY <1>1, <2>2 DEF a
        <3>2. PICK k \in 1 .. Len(queue) : Valid(queue[k]) /\ Drained[j] = queue[k].msg
            BY <1>4
        <3>3. ASSUME NEW l \in 1 .. Len(queue), k < l, queue[l].msg.uri = u
              PROVE  FALSE
            <4>1. Valid(queue[l]) /\ queue[k].msg.id < queue[l].msg.id
                BY <3>2, <3>3, LaterIsValid
            <4>2. PICK o \in 1 .. Len(Drained) : Drained[o] = queue[l].msg
                BY <1>4, <4>1
            <4>3. queue[k].msg.id \in Nat /\ queue[l].msg.id \in Nat
                BY ItemTypes
            <4>4. j < o
                <5>1. ~ (o < j)
                    <6> SUFFICES ASSUME o < j PROVE FALSE
                        OBVIOUS
                    <6>1. queue[l].msg.id < queue[k].msg.id
                        BY <1>4, <3>2, <4>2
                    <6> QED
                        BY <4>1, <4>3, <6>1
                <5>2. o # j
                    BY <3>2, <4>1, <4>2, <4>3
                <5> QED
                    BY <1>1, <5>1, <5>2
            <4>5. Len(a) + o \in DOMAIN outbox' /\ i < Len(a) + o /\ outbox'[Len(a) + o] = Drained[o]
                BY <1>1, <2>2, <4>4 DEF a
            <4> QED
                BY <1>5, <3>3, <4>2, <4>5
        <3>4. DOMAIN Queued = 1 .. Len(queue) /\ \A l \in 1 .. Len(queue) : Queued[l] = queue[l].msg
            BY <1>3 DEF Queued
        <3>5. Queued[k].uri = u /\ \A l \in DOMAIN Queued : k < l => Queued[l].uri # u
            BY <1>5, <3>1, <3>2, <3>3, <3>4
        <3>6. Queued[k].kind = "subscribe" <=> u \in subs
            BY <3>4, <3>5 DEF Says
        <3> QED
            BY <3>1, <3>2, <3>4, <3>6
    <2> QED
        BY <1>1, <2>1, <2>2 DEF a
<1>6. ASSUME NEW u \in Uris, \A i \in DOMAIN outbox' : outbox'[i].uri # u
      PROVE  u \notin subs
    <2> SUFFICES ASSUME u \in subs PROVE FALSE
        OBVIOUS
    <2>1. PICK i \in 1 .. Len(a) : a[i].uri = u
        BY <1>2
    <2>2. i \in DOMAIN outbox' /\ outbox'[i] = a[i]
        BY <1>1 DEF a
    <2> QED
        BY <1>6, <2>1, <2>2
<1> QED
    BY <1>5, <1>6 DEF Says, Agree


\* As long as none is refused and the child lives, what is on its way to the child, or
\* still queued for a new one, brings it to the subscriptions of the store.
LEMMA SubsStep ==
    ASSUME TypeOK, StateInv, PlainInv, QueueInv, PlaceInv, SubsInv, [Next]_vars
    PROVE  SubsInv'
<1> SUFFICES ASSUME rejected' = {}, ~hungUp', ~gone'
             PROVE  /\ state' = "running" \/ handler' = "resume" =>
                        Says(Way', subs') /\ Agree(Way', childSubs', subs')
                    /\ state' = "restarting" /\ handler' = "select" => Says(Queued', subs')
    BY DEF SubsInv, Says, Agree, Broken
<1>0. rejected = {}
    BY FatesStay
<1>t. /\ toChild \in Seq(Messages) /\ outbox \in Seq(Messages) /\ <<>> \in Seq(Messages)
      /\ queue \in Seq(Items) /\ DOMAIN queue = 1 .. Len(queue) /\ Len(queue) \in Nat
    BY DEF TypeOK
<1>w. Way \in Seq(Messages)
    BY <1>t, ConcatProperties DEF Way
<1>q. Queued \in Seq(Messages) /\ DOMAIN Queued = 1 .. Len(queue) /\ Len(Queued) = Len(queue)
    <2>1. \A i \in 1 .. Len(queue) : queue[i].msg \in Messages
        BY ItemTypes
    <2> QED
        BY <1>t, <2>1 DEF Queued
<1>1. ASSUME ~Broken, Way' = Way, queue' = queue, UNCHANGED <<subs, childSubs>>,
             state' = "running" \/ handler' = "resume" => state = "running" \/ handler = "resume",
             state' = "restarting" /\ handler' = "select" => state = "restarting" /\ handler = "select"
      PROVE  /\ state' = "running" \/ handler' = "resume" =>
                    Says(Way', subs') /\ Agree(Way', childSubs', subs')
             /\ state' = "restarting" /\ handler' = "select" => Says(Queued', subs')
    BY <1>0, <1>1 DEF SubsInv, Queued
<1>2. ASSUME NEW m \in Messages, Handle(m)
      PROVE  /\ state' = "running" \/ handler' = "resume" =>
                    Says(Way', subs') /\ Agree(Way', childSubs', subs')
             /\ state' = "restarting" /\ handler' = "select" => Says(Queued', subs')
    <2>1. UNCHANGED <<state, toChild, childSubs>> /\ handler = "select" /\ ~Broken
        BY <1>2, RequestIs DEF Broken
    <2>2. /\ m.uri \in Uris => (m.kind = "subscribe" <=> m.uri \in subs')
          /\ \A u \in Uris \ {m.uri} : u \in subs' <=> u \in subs
        BY <1>2, StoreIs, ProxyConstants
    <2>3. CASE ForwardRequest(m)
        <3>1. state = "running" /\ outbox' = <<m>> /\ outbox = <<>>
            BY <2>1, <2>3 DEF ForwardRequest, StateInv
        <3>2. Way' = Append(Way, m)
            <4>1. Way = toChild
                BY <1>t, <3>1, ConcatEmptySeq DEF Way
            <4>2. Append(toChild, m) = toChild \o <<m>>
                BY <1>t, AppendIsConcat
            <4> QED
                BY <2>1, <3>1, <4>1, <4>2 DEF Way
        <3>3. Says(Way, subs) /\ Agree(Way, childSubs, subs)
            BY <1>0, <2>1, <3>1 DEF SubsInv
        <3>4. Says(Append(Way, m), subs') /\ Agree(Append(Way, m), childSubs, subs')
            BY <1>w, <2>2, <3>3, SaysAppend
        <3> QED
            BY <2>1, <3>1, <3>2, <3>4
    <2>4. CASE EnqueueRequest(m)
        <3>1. state = "restarting" /\ handler' = "select"
            BY <2>1, <2>4 DEF EnqueueRequest, TypeOK
        <3>2. Queued' = Append(Queued, m)
            <4>1. queue' = Append(queue, [msg |-> m, at |-> now])
                BY <2>4 DEF EnqueueRequest, Enqueued
            <4>2. [msg |-> m, at |-> now] \in Items
                BY DEF Items, TypeOK
            <4>3. /\ DOMAIN queue' = 1 .. Len(queue) + 1
                  /\ queue'[Len(queue) + 1] = [msg |-> m, at |-> now]
                  /\ \A i \in 1 .. Len(queue) : queue'[i] = queue[i]
                BY <1>t, <4>1, <4>2
            <4>4. Queued' = [i \in 1 .. Len(queue) + 1 |-> queue'[i].msg]
                BY <4>3 DEF Queued
            <4>5. /\ Append(Queued, m) \in Seq(Messages) /\ Len(Append(Queued, m)) = Len(queue) + 1
                  /\ Append(Queued, m)[Len(queue) + 1] = m
                  /\ \A i \in 1 .. Len(queue) : Append(Queued, m)[i] = Queued[i]
                BY <1>q, <1>t
            <4>6. \A i \in 1 .. Len(queue) : Queued[i] = queue[i].msg
                BY <1>t DEF Queued
            <4>7. \A i \in 1 .. Len(queue) + 1 : queue'[i].msg = Append(Queued, m)[i]
                BY <1>t, <4>3, <4>5, <4>6
            <4>8. DOMAIN Append(Queued, m) = 1 .. Len(queue) + 1
                BY <4>5
            <4> DEFINE t == Append(Queued, m)
            <4>9. /\ t \in Seq(Messages) /\ DOMAIN t = 1 .. Len(queue) + 1
                  /\ \A i \in 1 .. Len(queue) + 1 : queue'[i].msg = t[i]
                BY <4>5, <4>7, <4>8
            <4> HIDE DEF t
            <4>10. Len(t) \in Nat /\ t = [i \in 1 .. Len(t) |-> t[i]]
                BY <4>9
            <4>11. t = [i \in 1 .. Len(queue) + 1 |-> t[i]]
                BY <4>9, <4>10
            <4> QED
                BY <4>4, <4>9, <4>11 DEF t
        <3>3. Says(Queued, subs)
            BY <1>0, <2>1, <3>1 DEF SubsInv
        <3>4. Says(Append(Queued, m), subs')
            BY <1>q, <2>2, <3>3, SaysAppend
        <3> QED
            BY <2>1, <3>1, <3>2, <3>4
    <2>5. CASE RejectRequest(m)
        BY <2>5 DEF RejectRequest
    <2> QED
        BY <1>2, <2>3, <2>4, <2>5 DEF Handle
<1>3. CASE WriteToChild
    <2>1. /\ WritesOne /\ ~Broken /\ toChild' = Append(toChild, outbox[1])
        BY <1>3, WriteIs
    <2>2. /\ 1 \in DOMAIN outbox /\ Head(outbox) = outbox[1] /\ outbox' = Tail(outbox)
          /\ handler \in {"forward", "resume"}
          /\ handler = "forward" => handler' = "select"
          /\ UNCHANGED <<state, queue, subs, childSubs>>
        BY <2>1, WritesOneIs
    <2>3. Way' = Way
        <3>1. outbox # <<>>
            BY <2>1 DEF WritesOne
        <3>2. toChild \o outbox = Append(toChild, Head(outbox)) \o Tail(outbox)
            BY <1>t, <3>1, MovesOn
        <3> QED
            BY <2>1, <2>2, <3>2 DEF Way
    <2>4. state = "restarting" => handler = "resume" /\ handler' = "resume"
        BY <2>1, <2>2, WritesOneIs DEF StateInv
    <2>5. /\ state' = "running" \/ handler' = "resume" => state = "running" \/ handler = "resume"
          /\ state' = "restarting" /\ handler' = "select" => state = "restarting" /\ handler = "select"
        BY <2>2, <2>4
    <2> QED
        BY <1>1, <2>1, <2>2, <2>3, <2>5
<1>4. CASE WriteFails
    <2>1. Broken /\ UNCHANGED <<hungUp, gone>>
        BY <1>4, WritesOneIs DEF WriteFails
    <2> QED
        BY <2>1 DEF Broken
<1>5. CASE InitializeResponse
    <2>1. /\ state = "restarting" /\ handler = "select" /\ handler' = "resume"
          /\ UNCHANGED <<subs, toChild, childSubs>> /\ ~Broken
        BY <1>5, ResumingIs DEF Broken
    <2>2. toChild = <<>> /\ childSubs = {} /\ Says(Queued, subs)
        BY <1>0, <2>1 DEF StateInv, SubsInv
    <2>3. Says(outbox', subs) /\ Agree(outbox', {}, subs)
        BY <1>5, <2>2, ResumedSays
    <2>4. Way' = outbox'
        <3>1. outbox' \in Seq(Messages)
            BY <1>5, ResumingTypes DEF TypeOK
        <3>2. <<>> \o outbox' = outbox'
            BY <3>1, ConcatEmptySeq
        <3> QED
            BY <2>1, <2>2, <3>2 DEF Way
    <2> QED
        BY <2>1, <2>2, <2>3, <2>4
<1>6. CASE ChildMessage
    <2>1. /\ handler \in {"select", "resume"} /\ handler' = "select"
          /\ handler = "select" => state' \in {state, "failed"}
          /\ handler = "resume" => state' \in {"running", "failed"}
          /\ UNCHANGED <<outbox, queue, subs, toChild, childSubs, gone, hungUp>>
        BY <1>6, ResponseIs
    <2> QED
        BY <1>1, <2>1 DEF Way, Broken
<1>7. CASE Restart
    <2>1. /\ handler' = "select" /\ queue' = <<>>
          /\ state' \in {"restarting", "failed"}
        BY <1>7, RestartIs
    <2>2. DOMAIN Queued' = {}
        BY <2>1 DEF Queued
    <2> QED
        BY <2>1, <2>2 DEF Says
<1>8. CASE ChildReads
    <2>1. /\ 1 \in DOMAIN toChild /\ toChild' = Tail(toChild) /\ toChild # <<>>
          /\ UNCHANGED <<state, handler, outbox, queue, subs, gone, hungUp>>
        BY <1>8, ReadIs DEF ChildReads
    <2>2. Way # <<>> /\ Head(Way) = toChild[1] /\ Way' = Tail(Way)
        BY <1>t, <2>1, ReadsOn DEF Way
    <2>3. ~ (state = "restarting" /\ handler = "select")
        BY <2>1 DEF StateInv
    <2> DEFINE h == toChild[1]
    <2>4. h \in Messages /\ Head(toChild) = h
        BY <1>8, ReadIs
    <2>5. /\ h.kind = "subscribe" => childSubs' = childSubs \cup {h.uri}
          /\ h.kind = "unsubscribe" => childSubs' = childSubs \ {h.uri}
          /\ ~NeedsUri(h.kind) => childSubs' = childSubs
        BY <1>8, <2>4 DEF ChildReads, NeedsUri
    <2>6. ASSUME state = "running" \/ handler = "resume"
          PROVE  Says(Tail(Way), subs) /\ Agree(Tail(Way), childSubs', subs)
        <3>1. Says(Way, subs) /\ Agree(Way, childSubs, subs)
            BY <1>0, <2>1, <2>6 DEF SubsInv, Broken
        <3>2. /\ Head(Way).kind = "subscribe" => childSubs' = childSubs \cup {Head(Way).uri}
              /\ Head(Way).kind = "unsubscribe" => childSubs' = childSubs \ {Head(Way).uri}
              /\ ~NeedsUri(Head(Way).kind) => childSubs' = childSubs
            BY <2>2, <2>5
        <3> QED
            BY <1>w, <2>2, <3>1, <3>2, SaysTail
    <2> QED
        BY <2>1, <2>2, <2>3, <2>6
<1>9. CASE ChildDies
    BY <1>9, DeathIs
<1>10. ASSUME NEW m \in Messages, ChildAnswers(m)
       PROVE  /\ state' = "running" \/ handler' = "resume" =>
                    Says(Way', subs') /\ Agree(Way', childSubs', subs')
              /\ state' = "restarting" /\ handler' = "select" => Says(Queued', subs')
    <2>1. UNCHANGED <<state, handler, outbox, queue, subs, toChild, childSubs, gone, hungUp>>
        BY <1>10, AnswerIs
    <2> QED
        BY <1>1, <2>1 DEF Way, Broken
<1>11. CASE Calm
    <2>1. UNCHANGED <<queue, outbox, subs, toChild, childSubs, gone>>
        BY <1>11, CalmIs
    <2>2. Way' = Way
        BY <2>1 DEF Way
    <2>3. CASE Run
        <3>1. state = "stopped" /\ ~looping /\ ~shut /\ handler' = handler /\ state' \in {"running", "failed"}
            BY <2>3 DEF Run
        <3>2. toChild = <<>> /\ subs = {} /\ childSubs = {} /\ outbox = <<>>
            BY <3>1 DEF StateInv, TypeOK
        <3>3. DOMAIN Way' = {}
            BY <2>2, <3>2 DEF Way
        <3>4. Says(Way', subs') /\ Agree(Way', childSubs', subs')
            BY <2>1, <3>2, <3>3 DEF Says, Agree
        <3> QED
            BY <3>1, <3>4
    <2>4. CASE FileChange \/ ChildReadError \/ ClientEOF \/ Shutdown \/ ShutdownCloses \/ Tick \/ UNCHANGED vars
        <3>1. ~Broken
            BY <2>1, <2>4 DEF Broken, FileChange, ChildReadError, ClientEOF, Shutdown, ShutdownCloses, Tick, vars,
                              shutVars
        <3>2. /\ state' = "running" \/ handler' = "resume" => state = "running" \/ handler = "resume"
              /\ state' = "restarting" /\ handler' = "select" => state = "restarting" /\ handler = "select"
            BY <2>4 DEF FileChange, ChildReadError, ClientEOF, Shutdown, ShutdownCloses, Tick, vars, loopVars,
                        crashLoop
        <3> QED
            BY <1>1, <2>1, <2>2, <3>1, <3>2
    <2> QED
        BY <1>11, <2>3, <2>4 DEF Calm
<1> QED
    BY <1>2, <1>3, <1>4, <1>5, <1>6, <1>7, <1>8, <1>9, <1>10, <1>11, StepIs


(***************************************************************************)
(* The invariant, and what follows from it                                 *)
(***************************************************************************)
\* Nothing was sent, queued, refused or answered.
LEMMA InitInv == Init => IInv
<1> SUFFICES ASSUME Init PROVE IInv
    OBVIOUS
<1>1. TypeOK
    BY InitTypes
<1>2. DOMAIN queue = {} /\ DOMAIN toChild = {} /\ DOMAIN outbox = {} /\ DOMAIN fromChild = {}
      /\ DOMAIN written = {} /\ DOMAIN answers = {} /\ work = {}
    BY DEF Init
<1>3. StateInv /\ PlainInv
    BY <1>2 DEF Init, StateInv, PlainInv
<1>4. QueueInv /\ WrittenInv /\ OutboxInv
    BY <1>2 DEF QueueInv, WrittenInv, OutboxInv
<1>5. /\ Ids(written) = {} /\ InHand = {} /\ Waiting = {} /\ rejected = {} /\ expired = {} /\ lost = {}
      /\ 1 .. requests = {}
    BY <1>2 DEF Init, Ids, InHand, Waiting
<1>6. FateInv
    BY <1>5 DEF FateInv
<1>7. OnceInv
    BY <1>2 DEF OnceInv
<1>8. IdsToChild = {} /\ IdsAtWork = {} /\ IdsFromChild = {} /\ Answered = {}
    BY <1>2 DEF IdsToChild, IdsAtWork, IdsFromChild, Answered, Ids
<1>9. PlaceInv
    BY <1>5, <1>8 DEF PlaceInv
<1>10. SubsInv /\ ReplayInv /\ AnsweredOnce
    BY <1>2 DEF Init, SubsInv, ReplayInv, ReplayFirst, AnsweredOnce
<1> QED
    BY <1>1, <1>3, <1>4, <1>6, <1>7, <1>9, <1>10 DEF IInv

\* Each part is kept by what the parts before it say of the step.
LEMMA InvStep == IInv /\ [Next]_vars => IInv'
<1> SUFFICES ASSUME IInv, [Next]_vars PROVE IInv'
    OBVIOUS
<1>1. /\ TypeOK /\ StateInv /\ PlainInv /\ QueueInv /\ WrittenInv /\ OutboxInv /\ FateInv /\ OnceInv /\ PlaceInv
      /\ SubsInv /\ ReplayInv /\ AnsweredOnce
    BY DEF IInv
<1>2. TypeOK' /\ StateInv' /\ PlainInv' /\ QueueInv'
    BY <1>1, TypeStep, StateStep, PlainStep, QueueStep
<1>3. WrittenInv' /\ OutboxInv' /\ FateInv' /\ OnceInv' /\ PlaceInv'
    BY <1>1, WrittenStep, OutboxStep, FateStep, OnceStep, PlaceStep
<1>4. SubsInv' /\ ReplayInv' /\ AnsweredOnce'
    BY <1>1, SubsStep, ReplayStep, AnsweredStep
<1> QED
    BY <1>2, <1>3, <1>4 DEF IInv

\* The invariant of the proxy.
LEMMA ProxyInvariant == Spec => []IInv
BY InitInv, InvStep, PTL DEF Spec

\* Through any number of requests and restarts every variable keeps its type, and the
\* queue its bound (queue.go:43-54).
THEOREM ProxyTyping == Spec => []TypeOK
<1>1. IInv => TypeOK
    BY DEF IInv
<1> QED
    BY <1>1, ProxyInvariant, PTL

\* What was written and what waits is one ascending line.
LEMMA OneLine ==
    ASSUME TypeOK, QueueInv, WrittenInv
    PROVE  OrderIsKept
<1> DEFINE w == written
           q == QueuedIds
<1>1. w \in Seq(Nat) /\ DOMAIN w = 1 .. Len(w)
    <2>1. 1 .. MaxRequests \subseteq Nat
        OBVIOUS
    <2>2. written \in Seq(1 .. MaxRequests)
        BY DEF TypeOK
    <2>3. written \in Seq(Nat)
        BY <2>1, <2>2, SeqMonotonic
    <2> QED
        BY <2>3
<1>2. queue \in Seq(Items) /\ DOMAIN queue = 1 .. Len(queue) /\ Len(queue) \in Nat
    BY DEF TypeOK
<1>3. \A i \in 1 .. Len(queue) : queue[i].msg.id \in Nat
    BY ItemTypes
<1>4. q \in Seq(Nat) /\ Len(q) = Len(queue) /\ \A i \in 1 .. Len(queue) : q[i] = queue[i].msg.id
    BY <1>2, <1>3 DEF QueuedIds
<1>5. /\ \A i, j \in 1 .. Len(w) : i < j => w[i] < w[j]
      /\ \A i, j \in 1 .. Len(q) : i < j => q[i] < q[j]
      /\ \A i \in 1 .. Len(w), j \in 1 .. Len(q) : w[i] < q[j]
    BY <1>1, <1>2, <1>4 DEF QueueInv, WrittenInv
<1>6. OrderIsKept = LET line == w \o q IN \A i, j \in DOMAIN line : i < j => line[i] < line[j]
    BY DEF OrderIsKept
<1> HIDE DEF w, q
<1>7. /\ w \o q \in Seq(Nat) /\ Len(w) \in Nat /\ Len(q) \in Nat /\ Len(w \o q) = Len(w) + Len(q)
      /\ \A i \in 1 .. Len(w) : (w \o q)[i] = w[i]
      /\ \A j \in 1 .. Len(q) : (w \o q)[Len(w) + j] = q[j]
      /\ \A i \in 1 .. Len(w \o q) : i \in 1 .. Len(w) \/ \E j \in 1 .. Len(q) : i = Len(w) + j
    BY <1>1, <1>4, ConcatIs
<1> DEFINE line == w \o q
<1>8. DOMAIN line = 1 .. Len(line)
    BY <1>7
<1> HIDE DEF line
<1>9. ASSUME NEW i \in DOMAIN line, NEW j \in DOMAIN line, i < j
      PROVE  line[i] < line[j]
    <2>1. CASE j \in 1 .. Len(w)
        <3>1. i \in 1 .. Len(w)
            BY <1>7, <1>8, <1>9, <2>1 DEF line
        <3> QED
            BY <1>5, <1>7, <1>9, <2>1, <3>1 DEF line
    <2>2. ASSUME NEW b \in 1 .. Len(q), j = Len(w) + b
          PROVE  line[i] < line[j]
        <3>1. CASE i \in 1 .. Len(w)
            BY <1>5, <1>7, <2>2, <3>1 DEF line
        <3>2. ASSUME NEW a \in 1 .. Len(q), i = Len(w) + a
              PROVE  line[i] < line[j]
            <4>1. a < b
                BY <1>7, <1>9, <2>2, <3>2
            <4> QED
                BY <1>5, <1>7, <2>2, <3>2, <4>1 DEF line
        <3> QED
            BY <1>7, <1>8, <3>1, <3>2 DEF line
    <2> QED
        BY <1>7, <1>8, <2>1, <2>2 DEF line
<1> QED
    BY <1>6, <1>9 DEF line

\* Whatever is queued, drained, expired or forwarded, a child is sent the client's
\* requests in the client's order and none of them twice (message_handler.go:19-34,
\* forwarding.go:6-13).
THEOREM OrderIsAlwaysKept == Spec => []OrderIsKept
<1>1. IInv => OrderIsKept
    BY OneLine DEF IInv
<1> QED
    BY <1>1, ProxyInvariant, PTL

\* What is replayed reaches a new child before any request of the client, the
\* initialize request first (statemachine.go:28-41).
THEOREM ReplayAlwaysComesFirst == Spec => []ReplayComesFirst
<1>1. IInv => ReplayComesFirst
    BY DEF IInv, ReplayInv, ReplayFirst, ReplayComesFirst
<1> QED
    BY <1>1, ProxyInvariant, PTL

\* The client gets at most one response to a request, but for a list that could not be
\* merged: no late response of an old child makes a second one
\* (tool_injection.go:44-55, message_handler.go:37-57).
THEOREM AnsweredAtMostOnce == Spec => []AnsweredOnce
<1>1. IInv => AnsweredOnce
    BY DEF IInv
<1> QED
    BY <1>1, ProxyInvariant, PTL

\* The six fates are disjoint and leave nothing out.
LEMMA SixFates ==
    ASSUME TypeOK, QueueInv, WrittenInv, FateInv
    PROVE  NothingVanishes
<1> DEFINE a == Ids(written)
           h == InHand
           b == Ids(QueuedIds)
           c == rejected \ Merging
           d == expired
           l == lost
<1>1. b = Waiting
    BY DEF Ids, QueuedIds, Waiting
<1>2. c = rejected \ a
    BY DEF Merging
<1>3. a \cap Waiting = {}
    BY WrittenDoesNotWait
<1>4. /\ 1 .. requests = a \cup h \cup b \cup c \cup d \cup l
      /\ a \cap h = {} /\ a \cap b = {} /\ a \cap c = {} /\ a \cap d = {} /\ a \cap l = {}
      /\ h \cap b = {} /\ h \cap c = {} /\ h \cap d = {} /\ h \cap l = {}
      /\ b \cap c = {} /\ b \cap d = {} /\ b \cap l = {}
      /\ c \cap d = {} /\ c \cap l = {} /\ d \cap l = {}
    BY <1>1, <1>2, <1>3 DEF FateInv
<1>5. Fates = <<a, h, b, c, d, l>>
    BY DEF Fates
<1> HIDE DEF a, h, b, c, d, l
<1>6. /\ DOMAIN Fates = {1, 2, 3, 4, 5, 6}
      /\ Fates[1] = a /\ Fates[2] = h /\ Fates[3] = b /\ Fates[4] = c /\ Fates[5] = d /\ Fates[6] = l
    BY <1>5
<1>7. Ids(Fates) = {a, h, b, c, d, l}
    BY <1>6 DEF Ids
<1>8. UNION Ids(Fates) = a \cup h \cup b \cup c \cup d \cup l
    BY <1>7
<1>9. \A i, j \in DOMAIN Fates : i # j => Fates[i] \cap Fates[j] = {}
    <2> SUFFICES ASSUME NEW i \in {1, 2, 3, 4, 5, 6}, NEW j \in {1, 2, 3, 4, 5, 6}, i # j
                 PROVE  Fates[i] \cap Fates[j] = {}
        BY <1>6
    <2>1. CASE i = 1
        BY <1>4, <1>6, <2>1
    <2>2. CASE i = 2
        BY <1>4, <1>6, <2>2
    <2>3. CASE i = 3
        BY <1>4, <1>6, <2>3
    <2>4. CASE i = 4
        BY <1>4, <1>6, <2>4
    <2>5. CASE i = 5
        BY <1>4, <1>6, <2>5
    <2>6. CASE i = 6
        BY <1>4, <1>6, <2>6
    <2> QED
        BY <2>1, <2>2, <2>3, <2>4, <2>5, <2>6
<1> QED
    BY <1>4, <1>8, <1>9 DEF NothingVanishes

\* Every request the client ever sent was written, is in the hands of a handler, waits,
\* was refused, expired, or was lost in a write that failed, and only one of the six,
\* wherever Shutdown or the child's end falls between the handler's look at the state and
\* its write (message_handler.go:19-34, forwarding.go:6-24, queue.go:56-66,
\* proxy.go:87-94).
THEOREM NothingEverVanishes == Spec => []NothingVanishes
<1>1. IInv => NothingVanishes
    BY SixFates DEF IInv
<1> QED
    BY <1>1, ProxyInvariant, PTL

\* As long as no request was refused, a child that has read what asks for a
\* subscription has those of the store, whatever expired or was drained twice
\* (state_updates.go:10-39, statemachine.go:66-87).
THEOREM SubscriptionsAlwaysSurvive == Spec => []SubscriptionsSurvive
<1>1. ASSUME IInv PROVE SubscriptionsSurvive
    <2>1. TypeOK /\ SubsInv
        BY <1>1 DEF IInv
    <2>2. SUFFICES ASSUME ChildIsUpToDate, rejected = {} PROVE childSubs = subs
        BY DEF SubscriptionsSurvive
    <2>3. Agree(Way, childSubs, subs)
        BY <2>1, <2>2 DEF SubsInv, ChildIsUpToDate
    <2>4. ASSUME NEW m \in Messages, ~NeedsUri(m.kind) PROVE m.uri \notin Uris
        BY <2>4 DEF Messages
    <2>5. toChild \in Seq(Messages) /\ outbox \in Seq(Messages)
        BY <2>1 DEF TypeOK
    <2>6. /\ \A i \in 1 .. Len(toChild) : toChild[i].uri \notin Uris
          /\ \A i \in 1 .. Len(outbox) : outbox[i].uri \notin Uris
        <3>1. /\ \A i \in 1 .. Len(toChild) : toChild[i] \in Messages /\ ~NeedsUri(toChild[i].kind)
              /\ \A i \in 1 .. Len(outbox) : outbox[i] \in Messages /\ ~NeedsUri(outbox[i].kind)
            BY <2>2, <2>5 DEF ChildIsUpToDate
        <3> QED
            BY <2>4, <3>1
    <2>7. ASSUME NEW i \in DOMAIN Way PROVE Way[i].uri \notin Uris
        <3>1. /\ Way \in Seq(Messages)
              /\ \A k \in 1 .. Len(toChild) : Way[k] = toChild[k]
              /\ \A k \in 1 .. Len(outbox) : Way[Len(toChild) + k] = outbox[k]
              /\ \A k \in 1 .. Len(Way) : k \in 1 .. Len(toChild) \/ \E l \in 1 .. Len(outbox) : k = Len(toChild) + l
            BY <2>5, ConcatIs DEF Way
        <3>2. i \in 1 .. Len(Way)
            <4> HIDE DEF Way
            <4> QED
                BY <2>7, <3>1
        <3>3. CASE i \in 1 .. Len(toChild)
            BY <2>6, <3>1, <3>3
        <3>4. ASSUME NEW l \in 1 .. Len(outbox), i = Len(toChild) + l PROVE Way[i].uri \notin Uris
            BY <2>6, <3>1, <3>4
        <3> QED
            BY <3>1, <3>2, <3>3, <3>4
    <2>8. \A u \in Uris : u \in childSubs <=> u \in subs
        BY <2>3, <2>7 DEF Agree
    <2> QED
        BY <2>1, <2>8 DEF TypeOK
<1>2. IInv => SubscriptionsSurvive
    BY <1>1
<1> QED
    BY <1>2, ProxyInvariant, PTL

\* A failed proxy sends nothing and is not revived: no late response, to a replayed
\* request or to one of before the failure, ends a restart that is over
\* (statemachine.go:28-31, message_handler.go:19-34).
LEMMA FailedStep ==
    ASSUME TypeOK, StateInv, state = "failed", [Next]_vars
    PROVE  state' \in {"failed", "stopped"} /\ Len(toChild') <= Len(toChild)
<1>0. toChild \in Seq(Messages) /\ Len(toChild) \in Nat /\ handler = "select" /\ outbox = <<>>
    BY DEF TypeOK, StateInv
<1>1. CASE Calm
    <2>1. toChild' = toChild
        BY <1>1, CalmIs
    <2>2. state' \in {"failed", "stopped"}
        BY <1>1 DEF Calm, Run, FileChange, ChildReadError, ClientEOF, Shutdown, ShutdownCloses, Tick, vars, crashLoop
    <2> QED
        BY <1>0, <2>1, <2>2
<1>2. ASSUME NEW m \in Messages, Handle(m)
      PROVE  state' \in {"failed", "stopped"} /\ Len(toChild') <= Len(toChild)
    BY <1>0, <1>2, RequestIs
<1>3. CASE WriteToChild \/ WriteFails \/ InitializeResponse \/ Restart
    <2>1. ~WritesOne
        BY <1>0 DEF WritesOne
    <2>2. ~InitializeResponse /\ ~Restart
        BY <1>0, ResumingIs, RestartIs
    <2> QED
        BY <1>3, <2>1, <2>2 DEF WriteToChild, WriteFails
<1>4. CASE ChildMessage
    BY <1>0, <1>4, ResponseIs
<1>5. CASE ChildReads
    BY <1>0, <1>5, ReadIs
<1>6. CASE ChildDies
    <2>1. state' = state /\ toChild' = <<>> /\ Len(<<>>) = 0
        BY <1>6, DeathIs
    <2> QED
        BY <1>0, <2>1
<1>7. ASSUME NEW m \in Messages, ChildAnswers(m)
      PROVE  state' \in {"failed", "stopped"} /\ Len(toChild') <= Len(toChild)
    BY <1>0, <1>7, AnswerIs
<1> QED
    BY <1>1, <1>2, <1>3, <1>4, <1>5, <1>6, <1>7, StepIs

\* No late response of a child revives a failed proxy, and no request reaches the child
\* of one (statemachine.go:28-31, message_handler.go:19-34).
THEOREM FailedStaysFinal == Spec => FailedIsFinal
<1>1. IInv /\ [Next]_vars =>
        [state = "failed" => state' \in {"failed", "stopped"} /\ Len(toChild') <= Len(toChild)]_vars
    BY FailedStep DEF IInv
<1> QED
    BY <1>1, ProxyInvariant, PTL DEF Spec, FailedIsFinal

(***************************************************************************)
(* The names of the tools                                                  *)
(***************************************************************************)
\* A merge that succeeds gives no name to two tools, if neither list has one twice.
LEMMA MergedNamesDiffer ==
    ASSUME NEW child, NEW hydra, NEW policy, NamesDiffer(child), NamesDiffer(hydra),
           policy # "", ~BadPolicy(policy), ~Collision(child, hydra, policy),
           NEW x \in MergeTools(child, hydra, policy), NEW y \in MergeTools(child, hydra, policy),
           x.name = y.name
    PROVE  x = y
<1>1. policy \in {"error", "warn", "disable_hydra_tool"}
    BY DEF BadPolicy, AcceptedPolicies
<1> DEFINE Hydras(e) == \E i \in DOMAIN hydra : e = Entry("hydra", i, hydra[i])
           Childs(e) == \E i \in DOMAIN child : e = Entry("child", i, child[i])
<1>2. ASSUME NEW e \in KeptOfHydra(child, hydra, policy) PROVE Hydras(e)
    <2>1. PICK i \in DOMAIN hydra : e = Entry("hydra", i, hydra[i])
        BY DEF KeptOfHydra
    <2> QED
        BY <2>1
<1>3. ASSUME NEW e \in KeptOfChild(child, hydra, policy) PROVE Childs(e)
    <2>1. PICK i \in DOMAIN child : e = Entry("child", i, child[i])
        BY DEF KeptOfChild
    <2> QED
        BY <2>1
<1>4. ASSUME NEW e, NEW f, Hydras(e), Hydras(f), e.name = f.name PROVE e = f
    <2>1. PICK i \in DOMAIN hydra : e = Entry("hydra", i, hydra[i])
        BY <1>4
    <2>2. PICK j \in DOMAIN hydra : f = Entry("hydra", j, hydra[j])
        BY <1>4
    <2>3. e.name = hydra[i] /\ f.name = hydra[j]
        BY <2>1, <2>2 DEF Entry
    <2>4. i = j
        BY <1>4, <2>3 DEF NamesDiffer
    <2> QED
        BY <2>1, <2>2, <2>4
<1>5. ASSUME NEW e, NEW f, Childs(e), Childs(f), e.name = f.name PROVE e = f
    <2>1. PICK i \in DOMAIN child : e = Entry("child", i, child[i])
        BY <1>5
    <2>2. PICK j \in DOMAIN child : f = Entry("child", j, child[j])
        BY <1>5
    <2>3. e.name = child[i] /\ f.name = child[j]
        BY <2>1, <2>2 DEF Entry
    <2>4. i = j
        BY <1>5, <2>3 DEF NamesDiffer
    <2> QED
        BY <2>1, <2>2, <2>4
<1>6. ASSUME NEW e \in KeptOfHydra(child, hydra, policy), NEW f \in KeptOfChild(child, hydra, policy),
             e.name = f.name
      PROVE  FALSE
    <2>1. PICK i \in DOMAIN hydra :
            /\ e = Entry("hydra", i, hydra[i])
            /\ policy \in {"warn", "disable_hydra_tool"} => ~InChildSet(child, hydra, policy, i)
        BY DEF KeptOfHydra
    <2>2. PICK k \in DOMAIN child :
            /\ f = Entry("child", k, child[k])
            /\ policy = "warn" => ~Offers(hydra, child[k])
        BY DEF KeptOfChild
    <2>3. hydra[i] = child[k]
        BY <1>6, <2>1, <2>2 DEF Entry
    <2>4. Offers(child, hydra[i]) /\ Offers(hydra, child[k])
        BY <2>3 DEF Offers
    <2>5. CASE policy = "error"
        BY <2>4, <2>5 DEF Collision
    <2>6. CASE policy = "warn"
        BY <2>2, <2>4, <2>6
    <2>7. CASE policy = "disable_hydra_tool"
        BY <2>1, <2>4, <2>7 DEF InChildSet
    <2> QED
        BY <1>1, <2>5, <2>6, <2>7
<1>7. \A e \in {x, y} : e \in KeptOfHydra(child, hydra, policy) \/ e \in KeptOfChild(child, hydra, policy)
    BY DEF MergeTools
<1> QED
    BY <1>2, <1>3, <1>4, <1>5, <1>6, <1>7

\* An empty list has no name twice.
LEMMA NoNameTwice ==
    ASSUME NEW list \in Seq(Nat), Len(list) = 0
    PROVE  NamesDiffer(list)
<1>1. DOMAIN list = 1 .. Len(list)
    OBVIOUS
<1>2. \A i \in DOMAIN list : FALSE
    BY <1>1
<1> QED
    BY <1>2 DEF NamesDiffer

\* Of two tools of which the client is told, no two have one name, with any list a child
\* comes back with after a reload that has no name twice, under any policy that the
\* configuration can hold: it is "error" by default and a merge keeps what is not empty
\* (tools.go:11-59, config.go:118, loader.go:159-240).
THEOREM ToldNamesAlwaysDiffer ==
    ASSUME NamesDiffer(HydraTools), \A list \in ChildTools : NamesDiffer(list), CollisionPolicy # ""
    PROVE  Spec => []ToldNamesAreDistinct
<1>1. Init => ToldNamesAreDistinct
    BY DEF Init, ToldNamesAreDistinct
<1>2. ASSUME TypeOK, StateInv, ToldNamesAreDistinct, [Next]_vars
      PROVE  ToldNamesAreDistinct'
    <2>1. CASE told' = told
        BY <1>2, <2>1 DEF ToldNamesAreDistinct
    <2>2. CASE ChildMessage
        <3> DEFINE r == Head(fromChild)
        <3>1. CASE ForwardResponse(r) /\ HasTools(r)
            <4>1. told' = MergeTools(r.tools, HydraTools, CollisionPolicy)
                BY <3>1 DEF ForwardResponse
            <4>2. ~Collision(r.tools, HydraTools, CollisionPolicy) /\ ~BadPolicy(CollisionPolicy)
                BY <3>1 DEF ForwardResponse, CannotMerge, Collides
            <4>3. r.tools \in ChildTools \cup {<<>>}
                BY <1>2, <2>2, ResponseIs DEF Responses
            <4>4. NamesDiffer(<<>>)
                BY EmptySeq, NoNameTwice
            <4>5. NamesDiffer(r.tools)
                BY <4>3, <4>4
            <4> HIDE DEF r
            <4>6. \A x, y \in told' : x.name = y.name => x = y
                BY <4>1, <4>2, <4>5, MergedNamesDiffer
            <4> QED
                BY <4>6 DEF ToldNamesAreDistinct
        <3>2. CASE ~(ForwardResponse(r) /\ HasTools(r))
            BY <2>1, <2>2, <3>2 DEF ChildMessage, ForwardResponse, MergeFails
        <3> QED
            BY <3>1, <3>2
    <2>3. ASSUME NEW m \in Messages, Handle(m) PROVE told' = told
        BY <2>3, <1>2, RequestIs
    <2>4. ASSUME NEW m \in Messages, ChildAnswers(m) PROVE told' = told
        BY <2>4, AnswerIs
    <2>5. CASE WriteToChild \/ WriteFails
        <3>1. told' = told
            BY <1>2, <2>5, WritesOneIs DEF WriteToChild, WriteFails
        <3> QED
            BY <2>1, <3>1
    <2>6. CASE Calm \/ InitializeResponse \/ Restart \/ ChildReads \/ ChildDies
        <3>1. told' = told
            BY <1>2, <2>6, CalmIs, ResumingIs, RestartIs, ReadIs, DeathIs
        <3> QED
            BY <2>1, <3>1
    <2> QED
        BY <1>2, <2>1, <2>2, <2>3, <2>4, <2>5, <2>6, StepIs
<1>3. IInv /\ ToldNamesAreDistinct /\ [Next]_vars => ToldNamesAreDistinct'
    BY <1>2 DEF IInv
<1> QED
    BY <1>1, <1>3, ProxyInvariant, PTL DEF Spec
==============================================================================
