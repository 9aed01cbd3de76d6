----------------------------- MODULE KeyRegistry -----------------------------
(***************************************************************************)
(* KeyRegistryState of pathweave-core (lib.rs): the map from PeerId to     *)
(* static public key, shared behind a mutex by every task of a node, with  *)
(* the queue of gossip-learned peers that decides what a full registry     *)
(* evicts.  The actions are its operations together with the code that     *)
(* calls them: handshakes that complete (insert_direct), key announcements *)
(* that arrive (insert_gossip), and try_send, which reads a key before the *)
(* handshake and removes it afterwards when that handshake failed, with    *)
(* other tasks at work in between.                                         *)
(***************************************************************************)
EXTENDS Integers, FiniteSets, Sequences, SequencesExt

CONSTANTS
    PeerId,     \* identities
    Key,        \* static public keys
    KeyId,      \* KeyId[k] is the PeerId that is the hash of k
    Bounded,    \* TRUE iff max_size is Some(_)
    MaxSize,    \* the value in that Some
    Task        \* tasks that may be inside try_send

ASSUME PeerIdFinite == IsFiniteSet(PeerId)

(* peer_id_from_public_key: a hash without collisions.                     *)
ASSUME KeyIdInjective ==
    /\ KeyId \in [Key -> PeerId]
    /\ \A k1, k2 \in Key : KeyId[k1] = KeyId[k2] => k1 = k2

ASSUME BoundType == Bounded \in BOOLEAN /\ MaxSize \in Nat

VARIABLES
    entries,        \* the HashMap<PeerId, [u8; 32]>
    gossip_order,   \* the VecDeque<PeerId>, oldest first
    attempt,        \* attempt[t]: the peer t is handshaking with, and how
    confirmed       \* history: peers with a direct handshake since their last removal

vars == <<entries, gossip_order, attempt, confirmed>>

Known == DOMAIN entries
Idle == [peer |-> "none", pattern |-> "none"]
Attempts == [peer : PeerId, pattern : {"XK", "XX"}] \cup {Idle}

(* VecDeque::retain(|q| q != p).  The first two cases are the ones a queue *)
(* without duplicates meets.                                               *)
Retain(s, p) ==
    IF p \notin ToSet(s) THEN s
    ELSE IF IsInjective(s) THEN RemoveAt(s, CHOOSE i \in DOMAIN s : s[i] = p)
    ELSE Remove(s, p)

(* HashMap::insert and HashMap::remove.                                    *)
Put(f, p, k) == [q \in DOMAIN f \cup {p} |-> IF q = p THEN k ELSE f[q]]
Without(f, p) == [q \in DOMAIN f \ {p} |-> f[q]]

TypeOK ==
    /\ Known \subseteq PeerId
    /\ entries \in [Known -> Key]
    /\ gossip_order \in Seq(PeerId)
    /\ attempt \in [Task -> Attempts]
    /\ confirmed \subseteq PeerId

Init ==
    /\ entries = [p \in {} |-> p]
    /\ gossip_order = <<>>
    /\ attempt = [t \in Task |-> Idle]
    /\ confirmed = {}

-----------------------------------------------------------------------------
(* Fault: the handshake does not take the peer off the gossip queue.       *)
InsertDirectKeepsQueue(k) ==
    LET p == KeyId[k] IN
    /\ UNCHANGED gossip_order
    /\ entries' = Put(entries, p, k)
    /\ confirmed' = confirmed \cup {p}

(* KeyRegistryState::insert_direct, with the peer and key of one session.  *)
InsertDirect(k) ==
    LET p == KeyId[k] IN
    /\ gossip_order' = Retain(gossip_order, p)
    /\ entries' = Put(entries, p, k)
    /\ confirmed' = confirmed \cup {p}

(* The same peer again: the key is refreshed in place.                     *)
RefreshGossip(p, k) ==
    /\ p \in Known
    /\ entries' = [entries EXCEPT ![p] = k]
    /\ UNCHANGED gossip_order

AtCapacity == Bounded /\ Cardinality(Known) >= MaxSize

(* Every slot is directly handshaked: the new key is dropped.              *)
DropGossip(p) ==
    /\ p \notin Known
    /\ AtCapacity
    /\ gossip_order = <<>>
    /\ UNCHANGED <<entries, gossip_order>>

(* Fault: a full registry drops every gossip-learned entry at once.        *)
EvictAllForGossip(p, k) ==
    /\ p \notin Known
    /\ AtCapacity
    /\ gossip_order # <<>>
    /\ entries' = Put([q \in Known \ ToSet(gossip_order) |-> entries[q]], p, k)
    /\ gossip_order' = <<p>>

(* The oldest gossip-learned entry makes room.                             *)
EvictForGossip(p, k) ==
    /\ p \notin Known
    /\ AtCapacity
    /\ gossip_order # <<>>
    /\ entries' = Put(Without(entries, Head(gossip_order)), p, k)
    /\ gossip_order' = Append(Tail(gossip_order), p)

AddGossip(p, k) ==
    /\ p \notin Known
    /\ ~AtCapacity
    /\ entries' = Put(entries, p, k)
    /\ gossip_order' = Append(gossip_order, p)

(* KeyRegistryState::insert_gossip.                                        *)
InsertGossip(p, k) ==
    \/ RefreshGossip(p, k)
    \/ DropGossip(p)
    \/ EvictForGossip(p, k)
    \/ AddGossip(p, k)

(* KeyRegistryState::remove.                                               *)
RemoveKey(p) ==
    /\ gossip_order' = Retain(gossip_order, p)
    /\ entries' = Without(entries, p)
    /\ confirmed' = confirmed \ {p}

(* Fault: announcements are taken as they come.                            *)
AnyAnnouncement(p, k) == TRUE

(* validate_key_announcement: the announced pair is bound by the hash.     *)
ValidAnnouncement(p, k) == KeyId[k] = p

-----------------------------------------------------------------------------
(* A handshake outside try_send completes: try_connect on the initiator's  *)
(* side, handle_incoming on the responder's.                               *)
Handshake(k) ==
    /\ InsertDirect(k)
    /\ UNCHANGED attempt

(* dispatch_payload, route_flag 0x02: a pair that fails validation is      *)
(* dropped, which changes nothing.                                         *)
ReceiveAnnouncement(p, k) ==
    /\ ValidAnnouncement(p, k)
    /\ InsertGossip(p, k)
    /\ UNCHANGED <<attempt, confirmed>>

(* try_send reads the registry and starts XK with a key, XX without.       *)
BeginSend(t, p) ==
    /\ attempt[t] = Idle
    /\ attempt' = [attempt EXCEPT ![t] =
                     [peer |-> p, pattern |-> IF p \in Known THEN "XK" ELSE "XX"]]
    /\ UNCHANGED <<entries, gossip_order, confirmed>>

(* Transport::connect fails: try_send returns before the handshake.        *)
ConnectFails(t) ==
    /\ attempt[t] # Idle
    /\ attempt' = [attempt EXCEPT ![t] = Idle]
    /\ UNCHANGED <<entries, gossip_order, confirmed>>

(* Fault: every failed handshake evicts.                                   *)
HandshakeFailsAlwaysEvicts(t) ==
    /\ attempt[t] # Idle
    /\ attempt' = [attempt EXCEPT ![t] = Idle]
    /\ RemoveKey(attempt[t].peer)

(* Session::initiate fails: only a handshake that used a key evicts.       *)
HandshakeFails(t) ==
    /\ attempt[t] # Idle
    /\ attempt' = [attempt EXCEPT ![t] = Idle]
    /\ IF attempt[t].pattern = "XK"
       THEN RemoveKey(attempt[t].peer)
       ELSE UNCHANGED <<entries, gossip_order, confirmed>>

(* Session::initiate succeeds.  XK fixes the remote key; XX accepts the    *)
(* key of whoever holds the address.                                       *)
HandshakeSucceeds(t, k) ==
    /\ attempt[t] # Idle
    /\ attempt[t].pattern = "XK" => KeyId[k] = attempt[t].peer
    /\ attempt' = [attempt EXCEPT ![t] = Idle]
    /\ InsertDirect(k)

Next ==
    \/ \E k \in Key : Handshake(k)
    \/ \E p \in PeerId, k \in Key : ReceiveAnnouncement(p, k)
    \/ \E t \in Task, p \in PeerId : BeginSend(t, p)
    \/ \E t \in Task : ConnectFails(t) \/ HandshakeFails(t)
    \/ \E t \in Task, k \in Key : HandshakeSucceeds(t, k)

Spec == Init /\ [][Next]_vars

-----------------------------------------------------------------------------
(* "gossip_order is the sole record of which entries were learned via      *)
(* gossip" (lib.rs): at any moment it lists, once each, exactly the        *)
(* entries that no direct handshake has confirmed, whatever mixture of     *)
(* handshakes, announcements, evictions and failed sends came before.      *)
GossipOrderIsExact ==
    /\ IsInjective(gossip_order)
    /\ confirmed \subseteq Known
    /\ ToSet(gossip_order) = Known \ confirmed

(* A stored key hashes to the peer it is stored under, so an XK handshake  *)
(* started from the registry is aimed at that peer.                        *)
KeysBindTheirPeer == \A p \in Known : KeyId[entries[p]] = p

(* The limit bounds what gossip alone can make the registry hold.          *)
GossipWithinLimit == Bounded => Len(gossip_order) <= MaxSize

(* A peer confirmed by a handshake leaves the registry only when a send    *)
(* that had read a key for that very peer fails; neither gossip at the     *)
(* size limit nor the failure of a keyless (XX) attempt that was in flight *)
(* while the key was learned may take it out.                              *)
ConfirmedLeavesOnlyByFailedXK ==
    [][\A p \in confirmed : p \notin DOMAIN entries' =>
          \E t \in Task : /\ attempt[t] = [peer |-> p, pattern |-> "XK"]
                          /\ attempt'[t] = Idle]_vars

(* The registry behaves as the bounded cache PeerKeyCache, in which gossip *)
(* displaces only gossip; the abstract sets are read off entries and       *)
(* gossip_order alone.                                                     *)
Cache == INSTANCE PeerKeyCache WITH
            confirmed <- Known \ ToSet(gossip_order),
            heard <- ToSet(gossip_order)
ImplementsCache == Cache!CacheSpec

(* NodeConfig::max_key_registry_size is documented as the "maximum number  *)
(* of entries in the key registry".                                        *)
SizeWithinLimit == Bounded => Cardinality(Known) <= MaxSize
=============================================================================
