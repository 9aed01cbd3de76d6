--------------------------------- MODULE Mesh ---------------------------------
(***************************************************************************)
(* Flooding in pathweave-core: send_routed, send_routed_sealed and         *)
(* flood_key_announcement put a frame on the way to every neighbour, and   *)
(* dispatch_payload (node.rs) delivers, relays or drops what arrives, with *)
(* a hop count and a cache of message ids.                                 *)
(*                                                                         *)
(* A hop is one Router::send, whose retries module Delivery models: here a *)
(* frame in flight arrives, arrives twice, or is lost.                     *)
(***************************************************************************)
EXTENDS Naturals, FiniteSets

CONSTANTS
    Node,
    Link,           \* pairs <<n, p>>: p may enter n's peer table
    Met,            \* the links that are up at the start
    MaxTTL,         \* MAX_TTL
    Msg,            \* messages given to send_routed and send_routed_sealed
    Sealed,         \* the sealed ones
    From, Dest,     \* From[m], Dest[m]
    MaxSent,        \* bound: messages sent
    MaxFault        \* bound: see Faults

ASSUME LinkTypes == Met \subseteq Link /\ Link \subseteq Node \X Node
ASSUME MsgTypes == Sealed \subseteq Msg /\ From \in [Msg -> Node] /\ Dest \in [Msg -> Node]
ASSUME IdsDiffer == Msg \cap (Node \X Node) = {}      \* see Announcement
ASSUME NumberTypes == {MaxTTL, MaxSent, MaxFault} \subseteq Nat

(* The id of an announcement: who announces whose key.  A node announces a *)
(* key when it first learns it, so once.                                   *)
Announcement == Node \X Node
Id == Msg \cup Announcement
Frame == [id : Id, from : Node, to : Node, ttl : 0..MaxTTL]

VARIABLES
    table,          \* the peer tables, as a set of links
    keys,           \* keys[n]: whose keys n's registry has
    learned,        \* KeyLearned events not yet handled
    frames,         \* frames in flight
    seen,           \* seen[n]: ids in seen_routed
    sent,           \* messages given to send_routed and send_routed_sealed
    handled,        \* handled[m]: nodes whose handler got m, and how often
    due,            \* history: messages whose destination was near enough
    expired,        \* history: has an entry of a cache ever expired?
    losses, dups    \* frames lost, frames that came again

vars == <<table, keys, learned, frames, seen, sent, handled, due, expired, losses, dups>>

TypeOK ==
    /\ table \subseteq Link
    /\ keys \in [Node -> SUBSET Node]
    /\ learned \subseteq Announcement
    /\ frames \subseteq Frame
    /\ seen \in [Node -> SUBSET Id]
    /\ due \subseteq sent /\ sent \subseteq Msg
    /\ handled \in [Msg -> [Node -> Nat]]
    /\ losses \in 0..MaxFault /\ dups \in 0..MaxFault /\ expired \in BOOLEAN

Neighbours(n) == {p \in Node : <<n, p>> \in table} \ {n}

(* Nodes within k hops of n: the ends of walks of k steps, some of them    *)
(* steps on the spot.                                                      *)
Within(n, k) ==
    {p \in Node : \E walk \in [0..k -> Node] :
        /\ walk[0] = n /\ walk[k] = p
        /\ \A i \in 1..k : walk[i] \in {walk[i - 1]} \cup Neighbours(walk[i - 1])}

(* Both ends of a link that is up have met: each has the other's key.      *)
MetKeys(n) == {p \in Node : <<n, p>> \in Met \/ <<p, n>> \in Met}

Init ==
    /\ table = Met
    /\ keys = [n \in Node |-> MetKeys(n)]
    /\ learned = {}
    /\ frames = {}
    /\ seen = [n \in Node |-> {}]
    /\ sent = {} /\ due = {}
    /\ handled = [m \in Msg |-> [n \in Node |-> 0]]
    /\ losses = 0 /\ dups = 0 /\ expired = FALSE

-----------------------------------------------------------------------------
(* Frames lost, frames that come again, and one for caches that forget,    *)
(* however much they forget: MaxFault bounds the sum.                      *)
Faults == losses + dups + (IF expired THEN 1 ELSE 0)

(* Frames for the neighbours `to' of n.                                    *)
FramesTo(id, n, to, ttl) == {[id |-> id, from |-> n, to |-> p, ttl |-> ttl] : p \in to}

(* A first handshake of n and p: their tables and registries gain each     *)
(* other, and each end fires KeyLearned if the key is new to it.           *)
Meet(n, p) ==
    /\ <<n, p>> \in Link \ table
    /\ table' = table \cup ({<<n, p>>, <<p, n>>} \cap Link)
    /\ keys' = [keys EXCEPT ![n] = @ \cup {p}, ![p] = @ \cup {n}]
    /\ learned' = learned \cup {e \in {<<n, p>>, <<p, n>>} : e[2] \notin keys[e[1]]}
    /\ UNCHANGED <<frames, seen, sent, handled, due, expired, losses, dups>>

(* The background task takes KeyLearned: flood_key_announcement.           *)
Announce(n, p) ==
    /\ <<n, p>> \in learned
    /\ learned' = learned \ {<<n, p>>}
    /\ frames' = frames \cup FramesTo(<<n, p>>, n, Neighbours(n) \ {p}, MaxTTL)
    /\ UNCHANGED <<table, keys, seen, sent, handled, due, expired, losses, dups>>

(* send_routed and send_routed_sealed: refused without neighbours, and a   *)
(* sealed message without the destination's key.                           *)
SendRouted(m) ==
    /\ m \notin sent
    /\ Cardinality(sent) < MaxSent
    /\ Neighbours(From[m]) # {}
    /\ m \in Sealed => Dest[m] \in keys[From[m]]
    /\ sent' = sent \cup {m}
    /\ due' = IF Dest[m] \in Within(From[m], MaxTTL + 1) THEN due \cup {m} ELSE due
    /\ frames' = frames \cup FramesTo(m, From[m], Neighbours(From[m]), MaxTTL)
    /\ UNCHANGED <<table, keys, learned, seen, handled, expired, losses, dups>>

-----------------------------------------------------------------------------
(* dispatch_payload.                                                       *)

(* The frame is off the wire, or, its ACK lost, will come again.           *)
Left(f, again) == IF again THEN frames ELSE frames \ {f}
Again(again) ==
    /\ again => Faults < MaxFault
    /\ dups' = IF again THEN dups + 1 ELSE dups

(* check_and_insert_routed *)
IsDup(f) == f.id \in seen[f.to]
Insert(f) == seen' = [seen EXCEPT ![f.to] = @ \cup {f.id}]

(* Fault: the frame goes out as it came in.                                *)
RelayNoDecrement(f) == FramesTo(f.id, f.to, Neighbours(f.to) \ {f.from}, f.ttl)

(* spawn_relay_to_neighbors, with one hop less to go.                      *)
Relay(f) == FramesTo(f.id, f.to, Neighbours(f.to) \ {f.from}, f.ttl - 1)

(* The handler (there is one: Delivery has the case without) gets a        *)
(* message; a sealed one only if the key of its sender is there to open it *)
(* with.                                                                   *)
Handle(m, n) ==
    handled' = IF m \in Sealed /\ From[m] \notin keys[n] THEN handled
               ELSE [handled EXCEPT ![m][n] = @ + 1]

(* Fault: the destination does not record what it delivers.                *)
DeliverUnrecorded(f, again) ==
    /\ f.id \in Msg
    /\ f.to = Dest[f.id]
    /\ Again(again)
    /\ frames' = Left(f, again)
    /\ IF IsDup(f) THEN UNCHANGED handled ELSE Handle(f.id, f.to)
    /\ UNCHANGED <<table, keys, learned, seen, sent, due, expired, losses>>

(* Routed or sealed, at its destination.                                   *)
Deliver(f, again) ==
    /\ f.id \in Msg
    /\ f.to = Dest[f.id]
    /\ Again(again)
    /\ frames' = Left(f, again)
    /\ IF IsDup(f) THEN UNCHANGED <<seen, handled>>
       ELSE Insert(f) /\ Handle(f.id, f.to)
    /\ UNCHANGED <<table, keys, learned, sent, due, expired, losses>>

(* Fault: the test for zero comes after the decrement.                     *)
ForwardStopsEarly(f, again) ==
    /\ f.id \in Msg
    /\ f.to # Dest[f.id]
    /\ Again(again)
    /\ IF f.ttl = 0 \/ IsDup(f)
       THEN frames' = Left(f, again) /\ UNCHANGED seen
       ELSE frames' = Left(f, again) \cup (IF f.ttl = 1 THEN {} ELSE Relay(f)) /\ Insert(f)
    /\ UNCHANGED <<table, keys, learned, sent, handled, due, expired, losses>>

(* Fault: the test for zero is missing.                                    *)
ForwardAlways(f, again) ==
    /\ f.id \in Msg
    /\ f.to # Dest[f.id]
    /\ Again(again)
    /\ IF IsDup(f)
       THEN frames' = Left(f, again) /\ UNCHANGED seen
       ELSE frames' = Left(f, again) \cup Relay(f) /\ Insert(f)
    /\ UNCHANGED <<table, keys, learned, sent, handled, due, expired, losses>>

(* Routed or sealed, elsewhere.  With no hops left it is dropped before    *)
(* the cache is asked.                                                     *)
Forward(f, again) ==
    /\ f.id \in Msg
    /\ f.to # Dest[f.id]
    /\ Again(again)
    /\ IF f.ttl = 0 \/ IsDup(f)
       THEN frames' = Left(f, again) /\ UNCHANGED seen
       ELSE frames' = Left(f, again) \cup Relay(f) /\ Insert(f)
    /\ UNCHANGED <<table, keys, learned, sent, handled, due, expired, losses>>

(* A key announcement: insert_gossip, which fires no KeyLearned.           *)
LearnKey(f, again) ==
    /\ f.id \in Announcement
    /\ Again(again)
    /\ IF IsDup(f)
       THEN frames' = Left(f, again) /\ UNCHANGED <<seen, keys>>
       ELSE /\ frames' = Left(f, again) \cup (IF f.ttl = 0 THEN {} ELSE Relay(f))
            /\ Insert(f)
            /\ keys' = [keys EXCEPT ![f.to] = @ \cup {f.id[2]}]
    /\ UNCHANGED <<table, learned, sent, handled, due, expired, losses>>

(* Every attempt of the hop failed.                                        *)
Lose(f) ==
    /\ Faults < MaxFault
    /\ losses' = losses + 1
    /\ frames' = frames \ {f}
    /\ UNCHANGED <<table, keys, learned, seen, sent, handled, due, expired, dups>>

(* An entry is older than DEDUP_TTL when next asked for.                   *)
Expire(n, id) ==
    /\ expired \/ Faults < MaxFault
    /\ id \in seen[n]
    /\ seen' = [seen EXCEPT ![n] = @ \ {id}]
    /\ expired' = TRUE
    /\ UNCHANGED <<table, keys, learned, frames, sent, handled, due, losses, dups>>

Receive(f, again) == Deliver(f, again) \/ Forward(f, again) \/ LearnKey(f, again)

Next ==
    \/ \E n, p \in Node : Meet(n, p) \/ Announce(n, p)
    \/ \E m \in Msg : SendRouted(m)
    \/ \E f \in frames : Lose(f) \/ \E again \in BOOLEAN : Receive(f, again)
    \/ \E n \in Node : \E id \in seen[n] : Expire(n, id)

Spec == Init /\ [][Next]_vars

(* While frames are in flight, one after the other arrives or is given up  *)
(* (Router::send returns).                                                 *)
FairSpec ==
    /\ Spec
    /\ WF_vars(\E f \in frames : Lose(f) \/ Receive(f, FALSE))

-----------------------------------------------------------------------------
(* While the caches remember, a destination's handler gets a message at    *)
(* most once, over every path, retry and relay, the originator's own relay *)
(* of its flood included; and nobody else's handler ever gets it.          *)
AtMostOnce ==
    \A m \in Msg, n \in Node :
       /\ n # Dest[m] => handled[m][n] = 0
       /\ ~expired => handled[m][n] <= 1

(* Floods of messages and of announcements end, on the hop count alone:    *)
(* relays stand in a cycle, and caches forget what they relayed.           *)
FloodEnds == frames # {} ~> frames = {}

Quiet == frames = {} /\ learned = {}

(* "every reachable node receives the message exactly once, regardless of  *)
(* topology" (ADR 019): when no frame is lost, a destination that was      *)
(* within MAX_TTL relays at the time of the send has got the message once  *)
(* the flood is over.                                                      *)
Covered ==
    Quiet /\ losses = 0 => \A m \in due \ Sealed : handled[m][Dest[m]] >= 1

(* "the sender's key should already be in the registry via gossip if any   *)
(* honest path exists" (ADR 023): when no frame is lost, a sealed message  *)
(* is opened by a destination within reach, if it was sent after all       *)
(* announcements had gone round.                                           *)
SealedOpens ==
    Quiet /\ losses = 0 /\ table = Link /\ sent = {} =>
       \A m \in Sealed : Dest[m] \in Within(From[m], MaxTTL + 1) => From[m] \in keys[Dest[m]]
=============================================================================
