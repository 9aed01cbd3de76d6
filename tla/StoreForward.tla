----------------------------- MODULE StoreForward -----------------------------
(***************************************************************************)
(* Store-and-forward of pathweave-core (node.rs): store_forward and        *)
(* store_forward_routed, the two pending stores, and the drains that the   *)
(* event task (on PeerConnected), add_peer and connect run, any number of  *)
(* them at once.  Router::send is abstract here: it succeeds or fails.     *)
(*                                                                         *)
(* Messages are numbered in the order of their store calls, so queued_at   *)
(* is the number, and time is the number of the youngest message older     *)
(* than store_ttl.                                                         *)
(***************************************************************************)
EXTENDS Integers, Sequences, FiniteSets, Functions

CONSTANTS
    Peer,           \* destinations and neighbours
    Drainer,        \* tasks that may run a drain
    EventTask,      \* the one of them spawned by PathweaveNode::new
    Setups          \* the node's configuration and the bounds of a behaviour:
                    \*   drainers  tasks that do run drains
                    \*   queues    queues that messages are stored in
                    \*   msgs      store calls
                    \*   appear    PeerConnected events fired by discovery
                    \*   bounded   is max_queue_depth Some(_)?
                    \*   depth     the value in that Some
                    \*   cap       capacity of the event channel (64 in Router::new)

Queue == {"direct", "routed"} \X Peer

ASSUME DrainerType == EventTask \in Drainer
ASSUME SetupsType ==
    Setups # {} /\ \A u \in Setups :
        /\ u.drainers \subseteq Drainer /\ u.queues \subseteq Queue
        /\ u.msgs \in Nat /\ u.appear \in Nat /\ u.depth \in Nat
        /\ u.bounded \in BOOLEAN
        /\ u.cap \in Nat \ {0}

Msg == UNION {1..u.msgs : u \in Setups}

VARIABLES
    setup,          \* one of Setups
    pending,        \* pending_direct and pending_routed, a missing key as <<>>
    known,          \* peers that have addresses in the peer table
    stage,          \* stage[m]: how far message m is
    home,           \* home[m]: the queue m belongs to
    accepted,       \* number of store calls so far
    horizon,        \* messages up to this one are older than store_ttl
    task,           \* task[d]: what drainer d is doing
    todo,           \* todo[d]: entries d has taken and not tried yet
    failures,       \* failures[d]: entries d has tried in vain
    events,         \* the event task's view of the broadcast channel
    appeared,       \* number of discoveries so far
    attempted,      \* history: messages that some send was attempted for
    arrivals        \* history: messages in the order they were queued

vars == <<setup, pending, known, stage, home, accepted, horizon, task, todo, failures,
          events, appeared, attempted, arrivals>>
callVars == <<home, accepted>>
drainVars == <<task, todo, failures>>

(* What a drain is doing: nothing; about to take the direct queue of peer; *)
(* sending what it took from queue at; about to list the routed queues;    *)
(* or visiting the ones it listed.                                         *)
Phase == {"idle", "start", "send", "list", "visit"}
Rest == [phase |-> "idle", by |-> "none", at |-> <<>>, left |-> {}, now |-> 0]
Tasks == [phase : Phase, by : {"none", "event", "add_peer", "connect"},
          at : Queue \cup {<<>>}, left : SUBSET Queue, now : Nat]

Stages == {"new", "sending", "queueing", "waiting", "acked", "failed"}
InCall == {m \in Msg : stage[m] \in {"sending", "queueing"}}

TypeOK ==
    /\ setup \in Setups
    /\ pending \in [Queue -> Seq(Msg)]
    /\ known \subseteq Peer
    /\ stage \in [Msg -> Stages]
    /\ home \in [Msg -> Queue \cup {<<>>}]
    /\ accepted \in 0..setup.msgs
    /\ horizon \in 0..accepted
    /\ task \in [Drainer -> Tasks]
    /\ todo \in [Drainer -> Seq(Msg)]
    /\ failures \in [Drainer -> Seq(Msg)]
    /\ events \in Seq(Peer \cup {"other"}) /\ Len(events) <= setup.cap
    /\ appeared \in 0..setup.appear
    /\ attempted \subseteq Msg
    /\ arrivals \in Seq(Msg)

Init ==
    /\ setup \in Setups
    /\ pending = [q \in Queue |-> <<>>]
    /\ known = {}
    /\ stage = [m \in Msg |-> "new"]
    /\ home = [m \in Msg |-> <<>>]
    /\ accepted = 0
    /\ horizon = 0
    /\ task = [d \in Drainer |-> Rest]
    /\ todo = [d \in Drainer |-> <<>>]
    /\ failures = [d \in Drainer |-> <<>>]
    /\ events = <<>>
    /\ appeared = 0
    /\ attempted = {}
    /\ arrivals = <<>>

-----------------------------------------------------------------------------
(* broadcast::Sender::send: a full channel loses its oldest event for a    *)
(* receiver that lags (RecvError::Lagged is skipped).                      *)
Emit(e) ==
    events' = IF Len(events) < setup.cap THEN Append(events, e) ELSE Append(Tail(events), e)

(* Does the peer table offer anything to send q's entries to?  Its own     *)
(* addresses for a direct queue, any neighbour for a routed one.           *)
Reachable(q) == IF q[1] = "direct" THEN q[2] \in known ELSE known # {}

Exclusive == \E d \in Drainer : task[d].by = "connect"

(* store_forward and store_forward_routed: number the message, look the    *)
(* destination up, and go to the immediate attempt or to the queue.        *)
StoreCall(q) ==
    /\ accepted < setup.msgs
    /\ ~Exclusive
    /\ accepted' = accepted + 1
    /\ home' = [home EXCEPT ![accepted + 1] = q]
    /\ stage' = [stage EXCEPT ![accepted + 1] =
                   IF Reachable(q) THEN "sending" ELSE "queueing"]
    /\ UNCHANGED <<setup, pending, known, horizon, drainVars, events, appeared, attempted, arrivals>>

(* The immediate attempt returns; only a success is announced, with        *)
(* MessageDelivered.                                                       *)
CallSendOk(m) ==
    /\ stage[m] = "sending"
    /\ stage' = [stage EXCEPT ![m] = "acked"]
    /\ attempted' = attempted \cup {m}
    /\ Emit("other")
    /\ UNCHANGED <<setup, pending, known, callVars, horizon, drainVars, appeared, arrivals>>

CallSendErr(m) ==
    /\ stage[m] = "sending"
    /\ stage' = [stage EXCEPT ![m] = "queueing"]
    /\ attempted' = attempted \cup {m}
    /\ UNCHANGED <<setup, pending, known, callVars, horizon, drainVars, events, appeared, arrivals>>

Full(q) == setup.bounded /\ Len(pending[q]) >= setup.depth

(* The tail of the call, under the store's lock: queue the message, or     *)
(* reject it with StoreFailed when its queue is full.                      *)
Enqueue(m) ==
    /\ stage[m] = "queueing"
    /\ ~Full(home[m])
    /\ pending' = [pending EXCEPT ![home[m]] = Append(@, m)]
    /\ stage' = [stage EXCEPT ![m] = "waiting"]
    /\ arrivals' = Append(arrivals, m)
    /\ UNCHANGED <<setup, known, callVars, horizon, drainVars, events, appeared, attempted>>

Reject(m) ==
    /\ stage[m] = "queueing"
    /\ Full(home[m])
    /\ stage' = [stage EXCEPT ![m] = "failed"]
    /\ Emit("other")
    /\ UNCHANGED <<setup, pending, known, callVars, horizon, drainVars, appeared, attempted, arrivals>>

-----------------------------------------------------------------------------
(* peer_stream: a peer enters the table, then PeerConnected is fired.      *)
Discover(p) ==
    /\ appeared < setup.appear
    /\ appeared' = appeared + 1
    /\ known' = known \cup {p}
    /\ Emit(p)
    /\ UNCHANGED <<setup, pending, stage, callVars, horizon, drainVars, attempted, arrivals>>

BeginDrain(d, p, by) ==
    /\ task[d].phase = "idle"
    /\ task' = [task EXCEPT ![d] = [Rest EXCEPT !.phase = "start", !.by = by,
                                                !.at = <<"direct", p>>]]

(* Fault: an appearance is ignored when nothing is queued for that peer.   *)
OnEventIfQueued ==
    /\ events # <<>>
    /\ events' = Tail(events)
    /\ task[EventTask].phase = "idle"
    /\ IF Head(events) = "other" THEN UNCHANGED task
       ELSE IF pending[<<"direct", Head(events)>>] = <<>> THEN UNCHANGED task
       ELSE BeginDrain(EventTask, Head(events), "event")
    /\ UNCHANGED <<setup, pending, known, stage, callVars, horizon, todo, failures, appeared, attempted, arrivals>>

(* The event task receives one event; PeerConnected starts a drain.        *)
OnEvent ==
    /\ events # <<>>
    /\ events' = Tail(events)
    /\ IF Head(events) = "other"
       THEN task[EventTask].phase = "idle" /\ UNCHANGED task
       ELSE BeginDrain(EventTask, Head(events), "event")
    /\ UNCHANGED <<setup, pending, known, stage, callVars, horizon, todo, failures, appeared, attempted, arrivals>>

(* add_peer (spawns its drain) and connect (drains before it returns) take *)
(* &mut self, so no store call is in progress when they start.             *)
ApiDrain(d, p, by) ==
    /\ d # EventTask
    /\ InCall = {}
    /\ ~Exclusive
    /\ known' = known \cup {p}
    /\ BeginDrain(d, p, by)
    /\ UNCHANGED <<setup, pending, stage, callVars, horizon, todo, failures, events, appeared, attempted, arrivals>>

AddPeer(d, p) == ApiDrain(d, p, "add_peer")
Connect(d, p) == ApiDrain(d, p, "connect")

-----------------------------------------------------------------------------
(* The head of a drain: remove the queue under the lock, and read the      *)
(* clock.  The peer table is read too, and never found empty: a drain      *)
(* starts after a peer has entered it, and none leaves.                    *)
Take(d, q, left) ==
    /\ pending' = [pending EXCEPT ![q] = <<>>]
    /\ todo' = [todo EXCEPT ![d] = pending[q]]
    /\ task' = [task EXCEPT ![d].phase = "send", ![d].at = q, ![d].left = left,
                            ![d].now = horizon]

TakeDirect(d) ==
    /\ task[d].phase = "start"
    /\ Take(d, task[d].at, {})
    /\ UNCHANGED <<setup, known, stage, callVars, horizon, failures, events, appeared, attempted, arrivals>>

(* drain_routed_all visits the destinations it listed, in any order.       *)
TakeRouted(d) ==
    /\ task[d].phase = "visit"
    /\ \E q \in task[d].left : Take(d, q, task[d].left \ {q})
    /\ UNCHANGED <<setup, known, stage, callVars, horizon, failures, events, appeared, attempted, arrivals>>

(* One iteration of the loop over the taken entries: expired, sent, or     *)
(* failed.                                                                 *)
Expire(d) ==
    /\ todo[d] # <<>>
    /\ Head(todo[d]) <= task[d].now
    /\ todo' = [todo EXCEPT ![d] = Tail(@)]
    /\ stage' = [stage EXCEPT ![Head(todo[d])] = "failed"]
    /\ Emit("other")
    /\ UNCHANGED <<setup, pending, known, callVars, horizon, task, failures, appeared, attempted, arrivals>>

SendOk(d) ==
    /\ todo[d] # <<>>
    /\ Head(todo[d]) > task[d].now
    /\ todo' = [todo EXCEPT ![d] = Tail(@)]
    /\ stage' = [stage EXCEPT ![Head(todo[d])] = "acked"]
    /\ attempted' = attempted \cup {Head(todo[d])}
    /\ Emit("other")
    /\ UNCHANGED <<setup, pending, known, callVars, horizon, task, failures, appeared, arrivals>>

(* Fault: a failed entry goes to the end of the same pass.                 *)
SendErrRetries(d) ==
    /\ todo[d] # <<>>
    /\ Head(todo[d]) > task[d].now
    /\ todo' = [todo EXCEPT ![d] = Append(Tail(@), Head(@))]
    /\ attempted' = attempted \cup {Head(todo[d])}
    /\ UNCHANGED <<setup, pending, known, stage, callVars, horizon, task, failures, events, appeared, arrivals>>

SendErr(d) ==
    /\ todo[d] # <<>>
    /\ Head(todo[d]) > task[d].now
    /\ todo' = [todo EXCEPT ![d] = Tail(@)]
    /\ failures' = [failures EXCEPT ![d] = Append(@, Head(todo[d]))]
    /\ attempted' = attempted \cup {Head(todo[d])}
    /\ UNCHANGED <<setup, pending, known, stage, callVars, horizon, task, events, appeared, arrivals>>

(* Faults of Requeue: failures replacing what was queued meanwhile, and    *)
(* failures going to the back.                                             *)
RequeueWith(d, q) ==
    /\ task[d].phase = "send"
    /\ todo[d] = <<>>
    /\ pending' = [pending EXCEPT ![task[d].at] = q]
    /\ failures' = [failures EXCEPT ![d] = <<>>]
    /\ task' = [task EXCEPT ![d].phase = IF task[d].at[1] = "direct" THEN "list" ELSE "visit"]
    /\ UNCHANGED <<setup, known, stage, callVars, horizon, todo, events, appeared, attempted, arrivals>>

RequeueReplacing(d) == RequeueWith(d, failures[d])
RequeueAtBack(d) == RequeueWith(d, pending[task[d].at] \o failures[d])

(* The end of one queue: failures go back to its front, in order.          *)
Requeue(d) ==
    /\ task[d].phase = "send"
    /\ todo[d] = <<>>
    /\ pending' = [pending EXCEPT ![task[d].at] = failures[d] \o @]
    /\ failures' = [failures EXCEPT ![d] = <<>>]
    /\ task' = [task EXCEPT ![d].phase = IF task[d].at[1] = "direct" THEN "list" ELSE "visit"]
    /\ UNCHANGED <<setup, known, stage, callVars, horizon, todo, events, appeared, attempted, arrivals>>

(* drain_routed_all lists the destinations that have a routed queue.       *)
ListRouted(d) ==
    /\ task[d].phase = "list"
    /\ task' = [task EXCEPT ![d].phase = "visit",
                  ![d].left = {q \in Queue : q[1] = "routed" /\ pending[q] # <<>>}]
    /\ UNCHANGED <<setup, pending, known, stage, callVars, horizon, todo, failures, events, appeared, attempted, arrivals>>

EndDrain(d) ==
    /\ task[d].phase = "visit"
    /\ task[d].left = {}
    /\ task' = [task EXCEPT ![d] = Rest]
    /\ UNCHANGED <<setup, pending, known, stage, callVars, horizon, todo, failures, events, appeared, attempted, arrivals>>

(* Time passes: the oldest message not yet past store_ttl passes it.       *)
Age ==
    /\ horizon < accepted
    /\ horizon' = horizon + 1
    /\ UNCHANGED <<setup, pending, known, stage, callVars, drainVars, events, appeared, attempted, arrivals>>

CallStep == \E m \in Msg : CallSendOk(m) \/ CallSendErr(m) \/ Enqueue(m) \/ Reject(m)
SendStep(d) == SendOk(d) \/ SendErr(d)
OwnStep(d) ==
    \/ TakeDirect(d) \/ TakeRouted(d) \/ Expire(d)
    \/ Requeue(d) \/ ListRouted(d) \/ EndDrain(d)
DrainStep(d) == OwnStep(d) \/ SendStep(d)

Next ==
    \/ \E q \in setup.queues : StoreCall(q)
    \/ CallStep
    \/ \E p \in Peer : Discover(p)
    \/ OnEvent
    \/ \E d \in setup.drainers, p \in Peer : AddPeer(d, p) \/ Connect(d, p)
    \/ \E d \in Drainer : DrainStep(d)
    \/ Age

Spec == Init /\ [][Next]_vars

(* The steps of a drain that wait for nobody are taken, and the event task *)
(* keeps receiving.  A Router::send need not return: no timeout covers its *)
(* connect and its handshake (try_send), so nothing is assumed of SendStep *)
(* or of the immediate attempt of a store call.                            *)
Fairness ==
    /\ \A d \in Drainer : WF_vars(OwnStep(d))
    /\ WF_vars(OnEvent)

FairSpec == Spec /\ Fairness

-----------------------------------------------------------------------------
(* Where a waiting message can be: in a store, or in the hands of a drain. *)
Place == ({"pending"} \X Queue) \cup ({"todo", "failures"} \X Drainer)
Content(x) ==
    IF x[1] = "pending" THEN pending[x[2]]
    ELSE IF x[1] = "todo" THEN todo[x[2]] ELSE failures[x[2]]
QueueOf(x) == IF x[1] = "pending" THEN x[2] ELSE task[x[2]].at

(* No accepted payload is lost or doubled.  A message that is neither with *)
(* its caller nor settled (acknowledged, or reported by StoreFailed) is in *)
(* exactly one place, once, and on its way to or from its own queue; and a *)
(* settled message is nowhere, so it is not sent or reported again.  Any   *)
(* number of drains and calls may overlap.                                 *)
(* Every variable has its type, too.                                       *)
Conservation ==
    /\ TypeOK
    /\ \A x, y \in Place : \A i \in DOMAIN Content(x), j \in DOMAIN Content(y) :
          Content(x)[i] = Content(y)[j] => x = y /\ i = j
    /\ \A x \in Place : \A i \in DOMAIN Content(x) :
          /\ stage[Content(x)[i]] = "waiting"
          /\ home[Content(x)[i]] = QueueOf(x)
    /\ \A m \in Msg : stage[m] = "waiting" => \E x \in Place : m \in Range(Content(x))

(* "re-prepends failures to preserve FIFO order" (drain_direct_for_peer,   *)
(* drain_routed_all): a store lists its messages in the order in which     *)
(* they were queued.                                                       *)
ArrivalOf(m) == CHOOSE i \in DOMAIN arrivals : arrivals[i] = m
FifoOrder ==
    \A q \in Queue : \A i, j \in DOMAIN pending[q] :
       i < j => ArrivalOf(pending[q][i]) < ArrivalOf(pending[q][j])

(* With the event task as the only drain, that order survives failing      *)
(* drains and calls that queue meanwhile.                                  *)
LoneDrainKeepsOrder == setup.drainers = {EventTask} => FifoOrder

(* "Maximum number of payloads held per destination" (NodeConfig,          *)
(* max_queue_depth).                                                       *)
DepthWithinBound == setup.bounded => \A q \in Queue : Len(pending[q]) <= setup.depth

(* Will a drain of q still start, or has one started that has not reached  *)
(* q yet?                                                                  *)
DrainOwed(q) ==
    \/ \E e \in Range(events) \ {"other"} : q[1] = "routed" \/ e = q[2]
    \/ \E d \in Drainer :
          \/ q[1] = "routed" /\ task[d].phase \in {"start", "list"}
          \/ q[1] = "routed" /\ task[d].phase = "send" /\ task[d].at[1] = "direct"
          \/ task[d].phase = "start" /\ task[d].at = q
          \/ q \in task[d].left

(* "If the peer is already reachable, delivery is attempted right away ... *)
(* It drains when the peer next appears" (store_forward): a message at     *)
(* rest in a queue, whose destination the node can reach, has been tried.  *)
NeverStranded ==
    \A q \in Queue : \A m \in Range(pending[q]) :
       Reachable(q) /\ ~DrainOwed(q) => m \in attempted

(* "Drain queued payloads whenever a PeerConnected event arrives from      *)
(* discovery" (PathweaveNode::new): an appearance leaves the event channel *)
(* only as the event task starts the drain it calls for.                   *)
AppearanceStartsDrain ==
    [][\A p \in Peer : p \in Range(events) /\ p \notin Range(events') =>
          task'[EventTask].phase = "start" /\ task'[EventTask].at = <<"direct", p>>]_vars

(* Every Router::send that drain d starts returns.                         *)
SendsReturn(d) == WF_vars(SendStep(d))

(* A drain whose sends all return comes to an end, however many of them    *)
(* fail, however many other drains and calls refill the stores meanwhile,  *)
(* and whether or not the sends of those return.                           *)
DrainsEnd ==
    \A d \in Drainer : SendsReturn(d) => (task[d].phase # "idle" ~> task[d].phase = "idle")

(* An appearance reported by discovery gets its drain, also when it comes  *)
(* during another one, as long as the sends of the event task return and   *)
(* the channel has room for what happens meanwhile.                        *)
Roomy == setup.cap >= setup.appear + setup.msgs
AppearanceIsServed ==
    SendsReturn(EventTask) =>
       \A p \in Peer : Roomy /\ p \in Range(events) ~>
          task[EventTask].phase = "start" /\ task[EventTask].at = <<"direct", p>>

(* "Drain queued payloads whenever a PeerConnected event arrives"          *)
(* (PathweaveNode::new): the event task comes back from every drain.       *)
EventTaskReturns == task[EventTask].phase # "idle" ~> task[EventTask].phase = "idle"
=============================================================================
