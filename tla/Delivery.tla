------------------------------- MODULE Delivery -------------------------------
(***************************************************************************)
(* One message on its way from Router::send (router.rs) to the receiver's  *)
(* on_message (handle_incoming and dispatch_payload, node.rs): the retry   *)
(* loop over candidates, the connection each try opens, the address        *)
(* exchange, the delivery ACK, and the receivers' deduplication caches.    *)
(*                                                                         *)
(* Connections are ordered and may break at any time.  Time is counted in  *)
(* seconds.  It passes while the sender awaits something and between two   *)
(* sends, whatever the receivers' tasks are doing meanwhile.  The code     *)
(* limits the waits for the address exchange, for the ACK and between      *)
(* attempts; it limits neither connect nor the handshake, nor when a drain *)
(* sends the message again.                                                *)
(***************************************************************************)
EXTENDS Integers, Sequences, FiniteSets, FiniteSetsExt

CONSTANTS
    Tables,         \* what the peer table may list; t[i] answers at the i-th
                    \* (transport, address) pair of table t
    Cost,           \* Cost[i]: rank of that pair's transport, Free = 0
    Ticks,          \* the clock moves by one of these, or to the end of a wait
    MaxOutside,     \* bound: seconds that pass where the code sets no limit
    MaxSends,       \* bound: sends of this message, with the one message id
    MaxConns,       \* bound: connections whose receivers are at work at once
    DedupTTL        \* DEDUP_TTL, 60 in the code

MaxAttempts == 3                    \* MAX_SEND_ATTEMPTS
ExchangeTimeout == 2                \* ADDR_EXCHANGE_TIMEOUT
AckTimeout == 5
Backoff == 1                        \* RETRY_BACKOFF

Node == {"dest", "other"}
Slot == UNION {1..Len(t) : t \in Tables}
Conn == 1..MaxConns
Never == -1

(* "mute" accepts a connection and never answers.                          *)
ASSUME TablesType == Tables # {} /\ \A t \in Tables : t \in Seq({"dest", "other", "mute"})
ASSUME CostType == Cost \in [Slot -> 0..2]
ASSUME TimeTypes ==
    /\ Ticks \subseteq Nat /\ MaxOutside \in Nat
    /\ DedupTTL \in Nat \ {0} /\ MaxSends \in Nat /\ MaxConns \in Nat \ {0}

VARIABLES
    owner,          \* the table this send works with
    key,            \* does the sender's registry hold the destination's key?
    sends,          \* sends begun
    phase,          \* what Router::send is doing
    attempt,        \* its loop counter
    queue,          \* candidates of this attempt not tried yet
    pattern,        \* handshake pattern of the current try
    at,             \* pair of the current try
    cur,            \* its connection
    left,           \* seconds until the deadline of its wait, if that has one
    exchanged,      \* did this try's address exchange get its reply in time?
    rcv,            \* rcv[k]: what the receiver's task for connection k is doing
    peer,           \* peer[k]: whose task it is
    toRcv,          \* toRcv[k]: frames on their way to it
    toSnd,          \* toSnd[k]: frames on their way back
    seen,           \* seen[n]: age of the record in n's DeduplicationCache
    handler,        \* handler[n]: has n registered its on_message?
    outside,        \* history: seconds that passed where the code sets no limit
    recorded,       \* history: nodes that ever recorded the message
    handled         \* history: handled[n]: calls of n's on_message

sndVars == <<key, sends, phase, attempt, queue, pattern, at, cur, left, exchanged>>
rcvVars == <<rcv, peer, toRcv, toSnd>>
appVars == <<handler, recorded, handled>>
vars == <<owner, seen, outside, sndVars, rcvVars, appVars>>

Pair == DOMAIN owner

Untimed == {"connect", "handshake"}
Timed == {"exchange", "ack", "backoff"}
Returned == {"ok", "failed", "unavailable"}
Frame == {"addr", "msg", "ack"}

TypeOK ==
    /\ owner \in Tables
    /\ key \in BOOLEAN
    /\ sends \in 0..MaxSends
    /\ phase \in {"idle", "attempt", "next"} \cup Untimed \cup Timed \cup Returned
    /\ attempt \in 0..(MaxAttempts - 1)
    /\ queue \in Seq(Pair)
    /\ pattern \in {"XX", "XK"}
    /\ at \in {0} \cup Pair
    /\ cur \in {0} \cup Conn
    /\ left \in 0..AckTimeout
    /\ exchanged \in BOOLEAN
    /\ rcv \in [Conn -> {"none", "hs", "first", "app", "handle", "reply", "loop", "done"}]
    /\ peer \in [Conn -> Node \cup {"mute", "nobody"}]
    /\ toRcv \in [Conn -> Seq(Frame)] /\ toSnd \in [Conn -> Seq(Frame)]
    /\ seen \in [Node -> 0..DedupTTL \cup {Never}]
    /\ handler \in [Node -> BOOLEAN]
    /\ outside \in 0..MaxOutside
    /\ recorded \subseteq Node
    /\ handled \in [Node -> Nat]

(* The peer table is one of Tables; the key may be known from an earlier   *)
(* handshake or from gossip.                                               *)
Init ==
    /\ owner \in Tables
    /\ key \in BOOLEAN
    /\ sends = 0 /\ phase = "idle" /\ attempt = 0 /\ queue = <<>>
    /\ pattern = "XX" /\ at = 0 /\ cur = 0
    /\ left = 0 /\ exchanged = FALSE
    /\ rcv = [k \in Conn |-> "none"]
    /\ peer = [k \in Conn |-> "nobody"]
    /\ toRcv = [k \in Conn |-> <<>>] /\ toSnd = [k \in Conn |-> <<>>]
    /\ seen = [n \in Node |-> Never]
    /\ handler \in [Node -> BOOLEAN] /\ \A n \in Node : handler[n] => n \in Range(owner)
    /\ outside = 0 /\ recorded = {} /\ handled = [n \in Node |-> 0]

-----------------------------------------------------------------------------
(* The sender.                                                             *)

Limit(p) ==
    CASE p = "exchange" -> ExchangeTimeout
      [] p = "ack" -> AckTimeout
      [] p = "backoff" -> Backoff
      [] OTHER -> 0
Goto(p) == phase' = p /\ left' = Limit(p)

(* Router::send begins: without any available transport it returns.  The   *)
(* health monitors decide what is available, so any set of pairs may be.   *)
(* A drain sends a message it failed to deliver again, under the same id.  *)
Send ==
    /\ phase \in {"idle", "failed", "unavailable"}
    /\ sends < MaxSends
    /\ sends' = sends + 1
    /\ attempt' = 0
    /\ \E up \in SUBSET Pair : Goto(IF up = {} THEN "unavailable" ELSE "attempt")
    /\ UNCHANGED <<owner, seen, outside, key, queue, pattern, at, cur, exchanged, rcvVars, appVars>>

(* An attempt lists the pairs whose transport is available, by cost; pairs *)
(* of equal cost stay in their order (so there is just one such list).     *)
Cheaper(i, j) == Cost[i] < Cost[j] \/ (Cost[i] = Cost[j] /\ i < j)
Candidates(up) ==
    {s \in [1..Cardinality(up) -> up] : \A i, j \in DOMAIN s : i < j => Cheaper(s[i], s[j])}

BeginAttempt ==
    /\ phase = "attempt"
    /\ \E up \in SUBSET Pair :
          /\ queue' \in Candidates(up)
          /\ Goto(IF up = {} THEN "unavailable" ELSE "next")
    /\ UNCHANGED <<owner, seen, outside, key, sends, attempt, pattern, at, cur, exchanged, rcvVars, appVars>>

(* The sender holds connection cur until the try ends; every other one it  *)
(* has dropped.                                                            *)
Closed(k) == k # cur \/ phase \notin {"handshake", "exchange", "ack"}
Settled(k) == rcv[k] \in {"none", "done"}

(* A connection both sides have finished with is forgotten, and its number *)
(* used again.                                                             *)
Clean(f, x) == [k \in Conn |-> IF Settled(k) THEN x ELSE f[k]]

(* try_send begins: it reads the key registry, then connects.              *)
BeginTry ==
    /\ phase = "next"
    /\ queue # <<>>
    /\ at' = Head(queue)
    /\ queue' = Tail(queue)
    /\ pattern' = IF key THEN "XK" ELSE "XX"
    /\ cur' \in Conn /\ Settled(cur') /\ \A k \in Conn : Settled(k) => cur' <= k
    /\ exchanged' = FALSE
    /\ Goto("connect")
    /\ rcv' = Clean(rcv, "none") /\ peer' = Clean(peer, "nobody")
    /\ toRcv' = Clean(toRcv, <<>>) /\ toSnd' = Clean(toSnd, <<>>)
    /\ UNCHANGED <<owner, seen, outside, key, sends, attempt, appVars>>

(* try_send ends without an ACK, and what was local to it is gone.         *)
EndTry == Goto("next") /\ pattern' = "XX" /\ at' = 0 /\ cur' = 0 /\ exchanged' = FALSE

EndAttempt ==
    /\ phase = "next"
    /\ queue = <<>>
    /\ Goto(IF attempt + 1 < MaxAttempts THEN "backoff" ELSE "failed")
    /\ UNCHANGED <<owner, seen, outside, key, sends, attempt, queue, pattern, at, cur, exchanged, rcvVars, appVars>>

BackoffOver ==
    /\ phase = "backoff"
    /\ left = 0
    /\ attempt' = attempt + 1
    /\ Goto("attempt")
    /\ UNCHANGED <<owner, seen, outside, key, sends, queue, pattern, at, cur, exchanged, rcvVars, appVars>>

ConnectOk ==
    /\ phase = "connect"
    /\ Goto("handshake")
    /\ rcv' = [rcv EXCEPT ![cur] = "hs"]
    /\ peer' = [peer EXCEPT ![cur] = owner[at]]
    /\ UNCHANGED <<owner, seen, outside, key, sends, attempt, queue, pattern, at, cur, exchanged, toRcv, toSnd, appVars>>

ConnectErr ==
    /\ phase = "connect"
    /\ EndTry
    /\ UNCHANGED <<owner, seen, outside, key, sends, attempt, queue, rcvVars, appVars>>

(* The handshake completes: XX with whoever answers, XK only with the      *)
(* holder of the key.  The owner's key enters the registry, and the        *)
(* address exchange is sent.  What the frames do on a connection that is   *)
(* gone is nothing.                                                        *)
Deliver(k, f) == toRcv' = IF rcv[k] = "done" THEN toRcv ELSE [toRcv EXCEPT ![k] = Append(@, f)]

HandshakeOk ==
    /\ phase = "handshake"
    /\ rcv[cur] = "hs"
    /\ peer[cur] \in Node
    /\ pattern = "XK" => peer[cur] = "dest"
    /\ key' = (key \/ peer[cur] = "dest")
    /\ rcv' = [rcv EXCEPT ![cur] = "first"]
    /\ Deliver(cur, "addr")
    /\ Goto("exchange")
    /\ UNCHANGED <<owner, seen, outside, sends, attempt, queue, pattern, at, cur, exchanged, peer, toSnd, appVars>>

(* It fails: the wrong peer under XK, or the connection broke.  A failed   *)
(* XK evicts the key.                                                      *)
HandshakeErr ==
    /\ phase = "handshake"
    /\ rcv[cur] = "done" \/ (pattern = "XK" /\ peer[cur] = "other")
    /\ key' = (key /\ pattern # "XK")
    /\ rcv' = [rcv EXCEPT ![cur] = "done"]
    /\ EndTry
    /\ UNCHANGED <<owner, seen, outside, sends, attempt, queue, peer, toRcv, toSnd, appVars>>

(* The address exchange ends with a frame, an error or its timeout; all    *)
(* three go on to send the message.  A write is buffered and takes no time. *)
SendMessage ==
    /\ Deliver(cur, "msg")
    /\ Goto("ack")
    /\ UNCHANGED <<owner, seen, outside, key, sends, attempt, queue, pattern, at, cur, rcv, peer, appVars>>

ExchangeReply ==
    /\ phase = "exchange"
    /\ toSnd[cur] # <<>>
    /\ toSnd' = [toSnd EXCEPT ![cur] = Tail(@)]
    /\ exchanged' = TRUE
    /\ SendMessage

ExchangeSkipped ==
    /\ phase = "exchange"
    /\ toSnd[cur] = <<>>
    /\ left = 0 \/ rcv[cur] = "done"
    /\ UNCHANGED <<toSnd, exchanged>>
    /\ SendMessage

(* try_send takes any frame for the delivery ACK, and Router::send returns. *)
AckReceived ==
    /\ phase = "ack"
    /\ toSnd[cur] # <<>>
    /\ toSnd' = [toSnd EXCEPT ![cur] = Tail(@)]
    /\ Goto("ok")
    /\ UNCHANGED <<owner, seen, outside, key, sends, attempt, queue, pattern, at, cur, exchanged, rcv, peer, toRcv, appVars>>

(* Fault: the wait for the ACK has no timeout.                             *)
AckMissingUntimed ==
    /\ phase = "ack"
    /\ toSnd[cur] = <<>>
    /\ rcv[cur] = "done"
    /\ EndTry
    /\ UNCHANGED <<owner, seen, outside, key, sends, attempt, queue, rcvVars, appVars>>

AckMissing ==
    /\ phase = "ack"
    /\ toSnd[cur] = <<>>
    /\ left = 0 \/ rcv[cur] = "done"
    /\ EndTry
    /\ UNCHANGED <<owner, seen, outside, key, sends, attempt, queue, rcvVars, appVars>>

(* Time passes: in a wait with a deadline, up to that; without one, in a   *)
(* connect, in a handshake and after the send, however long.               *)
Older(n, t) == IF seen[n] = Never THEN Never ELSE Min({seen[n] + t, DedupTTL})
Pass(t) ==
    /\ seen' = [n \in Node |-> Older(n, t)]    \* all ages from DedupTTL on are alike
    /\ UNCHANGED <<owner, key, sends, phase, attempt, queue, pattern, at, cur, exchanged, rcvVars, appVars>>

Elapse ==
    /\ phase \in Timed
    /\ \E t \in (Ticks \cup {left}) \ {0} :
          /\ t <= left
          /\ left' = left - t
          /\ Pass(t)
    /\ UNCHANGED outside

ElapseOutside ==
    /\ phase \in Untimed \cup Returned
    /\ \E t \in Ticks :
          /\ outside + t <= MaxOutside
          /\ outside' = outside + t
          /\ Pass(t)
    /\ UNCHANGED left

-----------------------------------------------------------------------------
(* The receivers.                                                          *)

Reply(k, f) == toSnd' = IF Closed(k) THEN toSnd ELSE [toSnd EXCEPT ![k] = Append(@, f)]

(* Fault: every frame is acknowledged, the exchange too.                   *)
AnswerExchangeAndAck(k) ==
    /\ rcv[k] = "first"
    /\ toRcv[k] # <<>>
    /\ toRcv' = [toRcv EXCEPT ![k] = Tail(@)]
    /\ toSnd' = IF Closed(k) THEN toSnd ELSE [toSnd EXCEPT ![k] = @ \o <<"addr", "ack">>]
    /\ rcv' = [rcv EXCEPT ![k] = "app"]
    /\ UNCHANGED <<owner, seen, outside, sndVars, peer, appVars>>

(* handle_incoming answers the first frame with its own addresses.         *)
AnswerExchange(k) ==
    /\ rcv[k] = "first"
    /\ toRcv[k] # <<>>
    /\ toRcv' = [toRcv EXCEPT ![k] = Tail(@)]
    /\ Reply(k, "addr")
    /\ rcv' = [rcv EXCEPT ![k] = "app"]
    /\ UNCHANGED <<owner, seen, outside, sndVars, peer, appVars>>

(* Fault: a window as long as one wait for an ACK.                         *)
IsDupShort(n) == seen[n] # Never /\ seen[n] < AckTimeout

(* DeduplicationCache::check_and_insert, entries expiring after the TTL.   *)
IsDup(n) == seen[n] # Never /\ seen[n] < DedupTTL

(* dispatch_payload of a direct message.                                   *)
CheckAndInsert(k) ==
    /\ rcv[k] = "app"
    /\ toRcv[k] # <<>>
    /\ toRcv' = [toRcv EXCEPT ![k] = Tail(@)]
    /\ IF IsDup(peer[k])
       THEN rcv' = [rcv EXCEPT ![k] = "reply"] /\ UNCHANGED <<seen, recorded>>
       ELSE /\ rcv' = [rcv EXCEPT ![k] = "handle"]
            /\ seen' = [seen EXCEPT ![peer[k]] = 0]
            /\ recorded' = recorded \cup {peer[k]}
    /\ UNCHANGED <<owner, outside, sndVars, peer, toSnd, handler, handled>>

Handle(k) ==
    /\ rcv[k] = "handle"
    /\ handled' = IF handler[peer[k]] THEN [handled EXCEPT ![peer[k]] = @ + 1] ELSE handled
    /\ rcv' = [rcv EXCEPT ![k] = "reply"]
    /\ UNCHANGED <<owner, seen, outside, sndVars, peer, toRcv, toSnd, handler, recorded>>

SendAck(k) ==
    /\ rcv[k] = "reply"
    /\ Reply(k, "ack")
    /\ rcv' = [rcv EXCEPT ![k] = "loop"]
    /\ UNCHANGED <<owner, seen, outside, sndVars, peer, toRcv, appVars>>

(* session.recv() ends with an error once the sender has dropped the       *)
(* connection; this ends the task.  What it had sent is not read any more. *)
Hangup(k) ==
    /\ Closed(k)
    /\ rcv[k] \in {"hs", "first", "app", "loop"}
    /\ toRcv[k] = <<>>
    /\ rcv' = [rcv EXCEPT ![k] = "done"]
    /\ toSnd' = [toSnd EXCEPT ![k] = <<>>]
    /\ UNCHANGED <<owner, seen, outside, sndVars, peer, toRcv, appVars>>

(* A connection breaks: what was on its way to the receiver is lost, what  *)
(* was on its way back may be.                                             *)
Break(k) ==
    /\ rcv[k] \in {"hs", "first", "app", "loop"}
    /\ rcv' = [rcv EXCEPT ![k] = "done"]
    /\ toRcv' = [toRcv EXCEPT ![k] = <<>>]
    /\ toSnd' \in {toSnd, [toSnd EXCEPT ![k] = <<>>]}
    /\ UNCHANGED <<owner, seen, outside, sndVars, peer, appVars>>

RegisterHandler(n) ==
    /\ ~handler[n]
    /\ n \in Range(owner)
    /\ handler' = [handler EXCEPT ![n] = TRUE]
    /\ UNCHANGED <<owner, seen, outside, sndVars, rcvVars, recorded, handled>>

SenderStep ==
    \/ BeginAttempt \/ BeginTry \/ EndAttempt \/ BackoffOver
    \/ ConnectOk \/ ConnectErr \/ HandshakeOk \/ HandshakeErr
    \/ ExchangeReply \/ ExchangeSkipped \/ AckReceived \/ AckMissing
ReceiverStep(k) ==
    \/ AnswerExchange(k) \/ CheckAndInsert(k) \/ Handle(k) \/ SendAck(k) \/ Hangup(k)

Next ==
    \/ Send \/ SenderStep \/ Elapse \/ ElapseOutside
    \/ \E k \in Conn : ReceiverStep(k) \/ Break(k)
    \/ \E n \in Node : RegisterHandler(n)

Spec == Init /\ [][Next]_vars

(* What the sender's task does by itself, and what it does once the        *)
(* connection is gone.  Nothing makes a peer take a connection or answer a *)
(* handshake.                                                              *)
OwnStep ==
    \/ BeginAttempt \/ BeginTry \/ EndAttempt \/ BackoffOver
    \/ HandshakeErr /\ rcv[cur] = "done"
    \/ ExchangeReply \/ ExchangeSkipped \/ AckReceived \/ AckMissing

(* The sender's task runs and its timers fire.  A receiver may be silent   *)
(* at any point; that its task ends once the sender has dropped the        *)
(* connection is needed only for MaxConns to hold nobody up.               *)
FairSpec ==
    /\ Spec
    /\ WF_vars(OwnStep) /\ WF_vars(Elapse)
    /\ \A k \in Conn : WF_vars(Closed(k) /\ ReceiverStep(k))
-----------------------------------------------------------------------------
(* A frame taken for the ACK of a try whose exchange was answered is an    *)
(* ACK: the node at the other end has recorded the message, and under XK   *)
(* this node is the destination.                                           *)
(* Every variable has its type, too.                                       *)
AckIsGenuine ==
    /\ TypeOK
    /\ phase = "ok" /\ exchanged =>
          peer[cur] \in recorded /\ (pattern = "XK" => peer[cur] = "dest")

(* No on_message is called twice for one message, whatever is retried, on  *)
(* however many connections at once, as long as the deduplication window   *)
(* outlasts the sends made so far: the seconds their waits may take from   *)
(* the moment the first message is out, and those that passed where the    *)
(* code sets no limit.                                                     *)
SendTime == MaxAttempts * (Len(owner) * (ExchangeTimeout + AckTimeout)) + (MaxAttempts - 1) * Backoff
Elapsed == outside + sends * SendTime - ExchangeTimeout
AtMostOnce == Elapsed < DedupTTL => \A n \in Node : handled[n] <= 1

(* DEDUP_TTL "gives a large margin" (ADR 011), with no word on how long a  *)
(* handshake may take or how many addresses there are.                     *)
NeverTwice == \A n \in Node : handled[n] <= 1

(* "Returns Ok(()) when the receiver has confirmed delivery" (README).     *)
OkMeansDelivered == phase = "ok" => peer[cur] \in recorded

(* "Sends payload to the peer identified by peer_id" (PathweaveNode::send): *)
(* Ok comes from that peer.                                                *)
OkFromThatPeer == phase = "ok" => peer[cur] = "dest"

(* A connect and a handshake are all that a send may wait for without end: *)
(* it returns unless one of its own lasts for ever.  Every other wait is   *)
(* limited, a receiver that falls silent after the handshake, a wrong one  *)
(* or a lost connection costs a try, and the tries come to an end.         *)
SendReturns == []<>(phase \notin Untimed) => (phase = "attempt" ~> phase \in Returned)

(* A send that has begun returns.                                          *)
SendAlwaysReturns == phase = "attempt" ~> phase \in Returned
=============================================================================
