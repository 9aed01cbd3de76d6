-------------------------- MODULE KeyRegistryProofs --------------------------
(***************************************************************************)
(* For every set of peers, every size limit and every number of concurrent *)
(* sends: the registry keeps gossip_order exact, keeps gossip within the   *)
(* limit, binds keys to their peers, loses a confirmed key only to a       *)
(* failed XK handshake, and implements PeerKeyCache.                       *)
(***************************************************************************)
EXTENDS KeyRegistry, SequenceTheorems, FiniteSetTheorems, TLAPS

(* Taking out position i shifts what follows it one place forward.         *)
LEMMA RemoveAtShifts ==
    ASSUME NEW S, NEW s \in Seq(S), NEW i \in 1..Len(s)
    PROVE  /\ RemoveAt(s, i) \in Seq(S)
           /\ Len(RemoveAt(s, i)) = Len(s) - 1
           /\ \A j \in 1..Len(s)-1 :
                 RemoveAt(s, i)[j] = IF j < i THEN s[j] ELSE s[j+1]
<1>len. Len(s) \in Nat /\ i \in Int
  BY LenProperties
<1> DEFINE a == SubSeq(s, 1, i-1)
           b == SubSeq(s, i+1, Len(s))
<1>1. /\ a \in Seq(S)
      /\ Len(a) = i - 1
      /\ \A j \in 1..i-1 : a[j] = s[j]
  BY SubSeqProperties
<1>2. /\ b \in Seq(S)
      /\ Len(b) = Len(s) - i
      /\ \A j \in 1..Len(s)-i : b[j] = s[i+j]
  BY SubSeqProperties
<1>3. RemoveAt(s, i) = a \o b
  BY Zenon DEF RemoveAt
<1> HIDE DEF a, b
<1>4. /\ a \o b \in Seq(S)
      /\ Len(a \o b) = Len(a) + Len(b)
      /\ \A j \in 1..Len(a)+Len(b) :
            (a \o b)[j] = IF j <= Len(a) THEN a[j] ELSE b[j - Len(a)]
  BY <1>1, <1>2, ConcatProperties, Zenon
<1>5. ASSUME NEW j \in 1..Len(s)-1
      PROVE  (a \o b)[j] = IF j < i THEN s[j] ELSE s[j+1]
  <2>1. CASE j < i
    BY <1>1, <1>2, <1>4, <2>1, SMTT(30)
  <2>2. CASE j >= i
    <3> DEFINE k == j - (i-1)
    <3>1. k \in 1..Len(s)-i /\ i + k = j + 1 /\ k = j - Len(a)
      BY <1>1, <2>2
    <3>2. (a \o b)[j] = b[k]
      BY <1>1, <1>2, <1>4, <2>2, <3>1, SMTT(30)
    <3> HIDE DEF k
    <3>3. b[k] = s[j+1]
      BY <1>2, <3>1, Zenon
    <3>4. QED
      BY <1>len, <2>2, <3>2, <3>3, SMTT(30)
  <2>3. j < i \/ j >= i
    BY <1>len
  <2>4. QED
    BY <2>1, <2>2, <2>3, Zenon
<1>6. QED
  BY <1>1, <1>2, <1>3, <1>4, <1>5, SMTT(30)

(* What VecDeque::retain does to a queue without duplicates: it takes out  *)
(* exactly the given peer, keeps the queue without duplicates and never    *)
(* lengthens it.                                                           *)
LEMMA RetainProperties ==
    ASSUME NEW s \in Seq(PeerId), NEW p, IsInjective(s)
    PROVE  /\ Retain(s, p) \in Seq(PeerId)
           /\ IsInjective(Retain(s, p))
           /\ ToSet(Retain(s, p)) = ToSet(s) \ {p}
           /\ Len(Retain(s, p)) <= Len(s)
<1>1. CASE p \notin ToSet(s)
  BY <1>1 DEF Retain
<1>2. CASE p \in ToSet(s)
  <2> DEFINE i == CHOOSE j \in DOMAIN s : s[j] = p
             r == RemoveAt(s, i)
  <2>1. i \in 1..Len(s) /\ s[i] = p
    BY <1>2 DEF ToSet
  <2>2. \A j \in DOMAIN s : s[j] = p => j = i
    BY <2>1, Zenon DEF IsInjective
  <2>3. Retain(s, p) = r
    BY <1>2, <2>1, <2>2, Zenon DEF Retain
  <2>4. /\ r \in Seq(PeerId)
        /\ Len(r) = Len(s) - 1
        /\ \A j \in 1..Len(s)-1 : r[j] = IF j < i THEN s[j] ELSE s[j+1]
    BY <2>1, RemoveAtShifts, Zenon
  <2> HIDE DEF i, r
  <2>5. IsInjective(r)
    <3> SUFFICES ASSUME NEW a \in DOMAIN r, NEW b \in DOMAIN r, r[a] = r[b]
                 PROVE  a = b
      BY Zenon DEF IsInjective
    <3> DEFINE at(j) == IF j < i THEN j ELSE j + 1
    <3>1. a \in 1..Len(s)-1 /\ b \in 1..Len(s)-1 /\ Len(s) \in Nat /\ i \in 1..Len(s)
      BY <2>1, <2>4, SMTT(30)
    <3>2. at(a) \in DOMAIN s /\ at(b) \in DOMAIN s
      BY <3>1
    <3>3. r[a] = s[at(a)] /\ r[b] = s[at(b)]
      BY <3>1, <2>4, Zenon
    <3>4. at(a) = at(b)
      BY <3>2, <3>3, Zenon DEF IsInjective
    <3>5. QED
      BY <3>1, <3>4
  <2>6. ToSet(r) = ToSet(s) \ {p}
    <3>1. ASSUME NEW q \in ToSet(r) PROVE q \in ToSet(s) \ {p}
      BY <2>1, <2>2, <2>4, SMTT(30) DEF ToSet
    <3>2. ASSUME NEW q \in ToSet(s) \ {p} PROVE q \in ToSet(r)
      <4>1. PICK j \in 1..Len(s) : s[j] = q
        BY DEF ToSet
      <4>2. CASE j < i
        BY <4>1, <4>2, <2>1, <2>4, SMTT(30) DEF ToSet
      <4>3. CASE j > i
        <5>1. j - 1 \in 1..Len(s)-1 /\ r[j-1] = s[j]
          BY <4>3, <2>1, <2>4, SMTT(30)
        <5>2. QED
          BY <5>1, <4>1, <2>4, SMTT(30) DEF ToSet
      <4>4. QED
        BY <4>1, <4>2, <4>3, <2>1
    <3>3. QED
      BY <3>1, <3>2, Zenon
  <2>7. QED
    BY <2>3, <2>4, <2>5, <2>6, SMTT(30)
<1>3. QED
  BY <1>1, <1>2, Zenon

(* push_back of a peer that is not in the queue.                           *)
LEMMA PushBackProperties ==
    ASSUME NEW s \in Seq(PeerId), NEW p \in PeerId, IsInjective(s), p \notin ToSet(s)
    PROVE  /\ Append(s, p) \in Seq(PeerId)
           /\ IsInjective(Append(s, p))
           /\ ToSet(Append(s, p)) = ToSet(s) \cup {p}
           /\ Len(Append(s, p)) = Len(s) + 1
<1>1. /\ Append(s, p) \in Seq(PeerId)
      /\ Len(Append(s, p)) = Len(s) + 1
      /\ \A i \in 1..Len(s) : Append(s, p)[i] = s[i]
      /\ Append(s, p)[Len(s) + 1] = p
  BY AppendProperties
<1>2. IsInjective(Append(s, p))
  BY <1>1 DEF IsInjective, ToSet
<1>3. ToSet(Append(s, p)) = ToSet(s) \cup {p}
  BY <1>1 DEF ToSet
<1>4. QED
  BY <1>1, <1>2, <1>3, Zenon

(* pop_front of a non-empty queue without duplicates.                      *)
LEMMA PopFrontProperties ==
    ASSUME NEW s \in Seq(PeerId), IsInjective(s), s # <<>>
    PROVE  /\ Head(s) \in ToSet(s)
           /\ Tail(s) \in Seq(PeerId)
           /\ IsInjective(Tail(s))
           /\ ToSet(Tail(s)) = ToSet(s) \ {Head(s)}
           /\ Len(Tail(s)) = Len(s) - 1
           /\ Len(s) > 0
<1>1. /\ Tail(s) \in Seq(PeerId)
      /\ Len(Tail(s)) = Len(s) - 1
      /\ Len(s) \in Nat \ {0}
      /\ \A i \in 1..Len(s)-1 : Tail(s)[i] = s[i+1]
  BY HeadTailProperties, EmptySeq, Zenon
<1>2. Head(s) = s[1] /\ Head(s) \in ToSet(s)
  BY <1>1 DEF ToSet
<1>3. IsInjective(Tail(s))
  BY <1>1 DEF IsInjective
<1>4. ToSet(Tail(s)) = ToSet(s) \ {Head(s)}
  <2>1. ASSUME NEW q \in ToSet(Tail(s)) PROVE q \in ToSet(s) \ {Head(s)}
    BY <1>1, <1>2, SMTT(30) DEF ToSet, IsInjective
  <2>2. ASSUME NEW q \in ToSet(s) \ {Head(s)} PROVE q \in ToSet(Tail(s))
    <3>1. PICK j \in 1..Len(s) : s[j] = q
      BY DEF ToSet
    <3> j # 1
      BY <1>2, <3>1, Zenon
    <3> DEFINE k == j - 1
    <3>2. k \in 1..Len(s)-1 /\ k + 1 = j
      BY <1>1
    <3> HIDE DEF k
    <3>3. QED
      <4>1. Tail(s)[k] = q /\ k \in DOMAIN Tail(s)
        BY <1>1, <3>1, <3>2, SMTT(30)
      <4>2. QED
        BY <4>1, Zenon DEF ToSet
  <2>3. QED
    BY <2>1, <2>2, SMTT(30)
<1>5. QED
  BY <1>1, <1>2, <1>3, <1>4, SMTT(30)

(* A queue without duplicates is no longer than a finite set that holds    *)
(* its elements, and its elements are as many as it is long.               *)
LEMMA QueueCardinality ==
    ASSUME NEW s \in Seq(PeerId), IsInjective(s)
    PROVE  /\ IsFiniteSet(ToSet(s))
           /\ Cardinality(ToSet(s)) = Len(s)
<1>1. IsFiniteSet(1..Len(s)) /\ Cardinality(1..Len(s)) = Len(s)
  <2>1. Len(s) \in Nat
    BY LenProperties, Zenon
  <2>2. /\ IsFiniteSet(1..Len(s))
        /\ Cardinality(1..Len(s)) = IF 1 > Len(s) THEN 0 ELSE Len(s)-1+1
    <3>1. 1 \in Int /\ Len(s) \in Int
      BY <2>1
    <3>2. QED
      BY <3>1, FS_Interval, Zenon
  <2>3. QED
    BY <2>1, <2>2
<1> s \in [1..Len(s) -> ToSet(s)] /\ DOMAIN s = 1..Len(s)
  BY LenProperties DEF ToSet
<1>2. s \in Surjection(1..Len(s), ToSet(s))
  BY Zenon DEF Surjection, ToSet
<1>3. s \in Injection(1..Len(s), ToSet(s))
  BY Zenon DEF Injection, IsInjective
<1>4. QED
  BY <1>1, <1>2, <1>3, FS_Surjection, SMTT(30)
-----------------------------------------------------------------------------
(* The inductive invariant: the three state properties need one another.   *)
(* Exactness of gossip_order is what makes retain and pop_front take out   *)
(* the entry they mean, and the bound on gossip follows from exactness     *)
(* because the capacity test counts all entries.                           *)
RegistryInv ==
    /\ TypeOK
    /\ GossipOrderIsExact
    /\ KeysBindTheirPeer
    /\ GossipWithinLimit

(* insert_direct preserves the invariant.                                  *)
LEMMA InsertDirectPreserves ==
    ASSUME RegistryInv, NEW k \in Key, InsertDirect(k), attempt' \in [Task -> Attempts]
    PROVE  RegistryInv'
<1> USE DEF RegistryInv, Known
<1> DEFINE p == KeyId[k]
<1>1. p \in PeerId
  BY KeyIdInjective, Zenon
<1>2. /\ gossip_order' \in Seq(PeerId)
      /\ IsInjective(gossip_order')
      /\ ToSet(gossip_order') = ToSet(gossip_order) \ {p}
      /\ Len(gossip_order') <= Len(gossip_order)
  BY RetainProperties DEF InsertDirect, TypeOK, GossipOrderIsExact
<1>3. /\ entries' \in [DOMAIN entries \cup {p} -> Key]
      /\ DOMAIN entries' = DOMAIN entries \cup {p}
      /\ \A q \in DOMAIN entries' : KeyId[entries'[q]] = q
  BY Zenon DEF InsertDirect, Put, TypeOK, KeysBindTheirPeer
<1>4. TypeOK'
  BY <1>1, <1>2, <1>3, SMTT(30) DEF TypeOK, InsertDirect
<1>5. GossipOrderIsExact'
  BY <1>2, <1>3 DEF GossipOrderIsExact, InsertDirect
<1>6. KeysBindTheirPeer'
  BY <1>3, Zenon DEF KeysBindTheirPeer
<1>7. GossipWithinLimit'
  <2>1. Len(gossip_order) \in Nat /\ Len(gossip_order') \in Nat
    BY <1>2, LenProperties, Zenon DEF TypeOK
  <2>2. QED
    BY <1>2, <2>1, BoundType, SMTT(30) DEF GossipWithinLimit
<1>8. QED
  BY <1>4, <1>5, <1>6, <1>7, SMTT(30)

(* remove preserves the invariant.                                         *)
LEMMA RemoveKeyPreserves ==
    ASSUME RegistryInv, NEW p, RemoveKey(p), attempt' \in [Task -> Attempts]
    PROVE  RegistryInv'
<1> USE DEF RegistryInv, Known
<1>2. /\ gossip_order' \in Seq(PeerId)
      /\ IsInjective(gossip_order')
      /\ ToSet(gossip_order') = ToSet(gossip_order) \ {p}
      /\ Len(gossip_order') <= Len(gossip_order)
  BY RetainProperties DEF RemoveKey, TypeOK, GossipOrderIsExact
<1>3. /\ entries' \in [DOMAIN entries \ {p} -> Key]
      /\ DOMAIN entries' = DOMAIN entries \ {p}
      /\ \A q \in DOMAIN entries' : KeyId[entries'[q]] = q
  BY Zenon DEF RemoveKey, Without, TypeOK, KeysBindTheirPeer
<1>4. TypeOK'
  BY <1>2, <1>3, SMTT(30) DEF TypeOK, RemoveKey
<1>5. GossipOrderIsExact'
  BY <1>2, <1>3, SMTT(30) DEF GossipOrderIsExact, RemoveKey
<1>6. KeysBindTheirPeer'
  BY <1>3 DEF KeysBindTheirPeer
<1>7. GossipWithinLimit'
  <2>1. Len(gossip_order) \in Nat /\ Len(gossip_order') \in Nat
    BY <1>2, LenProperties, SMTT(30) DEF TypeOK
  <2>2. QED
    BY <1>2, <2>1, BoundType, SMTT(30) DEF GossipWithinLimit
<1>8. QED
  BY <1>4, <1>5, <1>6, <1>7, SMTT(30)

(* A registry below its limit has room in the gossip queue too.            *)
LEMMA RoomForGossip ==
    ASSUME RegistryInv, ~AtCapacity, Bounded
    PROVE  Len(gossip_order) < MaxSize
<1> USE DEF RegistryInv, Known
<1>1. Cardinality(ToSet(gossip_order)) = Len(gossip_order) /\ Len(gossip_order) \in Nat
  BY QueueCardinality, LenProperties, Zenon DEF TypeOK, GossipOrderIsExact
<1>2. IsFiniteSet(DOMAIN entries)
  BY PeerIdFinite, FS_Subset DEF TypeOK
<1>3. Cardinality(ToSet(gossip_order)) <= Cardinality(DOMAIN entries)
  BY <1>2, FS_Subset, SMTT(30) DEF GossipOrderIsExact
<1>4. Cardinality(DOMAIN entries) \in Nat
  BY <1>2, FS_CardinalityType, SMTT(30)
<1>5. QED
  BY <1>1, <1>3, <1>4, BoundType, SMTT(30) DEF AtCapacity

(* insert_gossip of a valid announcement preserves the invariant, at the   *)
(* limit and below it.                                                     *)
LEMMA InsertGossipPreserves ==
    ASSUME RegistryInv, NEW p \in PeerId, NEW k \in Key, ValidAnnouncement(p, k),
           InsertGossip(p, k), UNCHANGED <<attempt, confirmed>>
    PROVE  RegistryInv'
<1> USE DEF RegistryInv, Known
<1>len. Len(gossip_order) \in Nat
  BY LenProperties, Zenon DEF TypeOK
<1>1. CASE RefreshGossip(p, k)
  <2>1. /\ entries' \in [DOMAIN entries -> Key]
        /\ DOMAIN entries' = DOMAIN entries
        /\ \A q \in DOMAIN entries' : KeyId[entries'[q]] = q
    BY <1>1 DEF RefreshGossip, TypeOK, KeysBindTheirPeer, ValidAnnouncement
  <2>2. QED
    BY <1>1, <2>1, SMTT(30) DEF RefreshGossip, TypeOK, GossipOrderIsExact, KeysBindTheirPeer,
                      GossipWithinLimit
<1>2. CASE DropGossip(p)
  BY <1>2, SMTT(30) DEF DropGossip, TypeOK, GossipOrderIsExact, KeysBindTheirPeer, GossipWithinLimit
<1>3. CASE EvictForGossip(p, k)
  <2> DEFINE h == Head(gossip_order)
  <2>1. /\ h \in ToSet(gossip_order)
        /\ Tail(gossip_order) \in Seq(PeerId)
        /\ IsInjective(Tail(gossip_order))
        /\ ToSet(Tail(gossip_order)) = ToSet(gossip_order) \ {h}
        /\ Len(Tail(gossip_order)) = Len(gossip_order) - 1
    BY <1>3, PopFrontProperties, SMTT(30) DEF EvictForGossip, TypeOK, GossipOrderIsExact
  <2> HIDE DEF h
  <2>2. p \notin ToSet(Tail(gossip_order))
    BY <1>3, <2>1, Zenon DEF EvictForGossip, GossipOrderIsExact
  <2>3. /\ gossip_order' \in Seq(PeerId)
        /\ IsInjective(gossip_order')
        /\ ToSet(gossip_order') = (ToSet(gossip_order) \ {h}) \cup {p}
        /\ Len(gossip_order') = Len(gossip_order)
    <3>1. gossip_order' = Append(Tail(gossip_order), p)
      BY <1>3 DEF EvictForGossip
    <3> DEFINE t == Tail(gossip_order)
    <3> HIDE DEF t
    <3>2. /\ Append(t, p) \in Seq(PeerId)
          /\ IsInjective(Append(t, p))
          /\ ToSet(Append(t, p)) = ToSet(t) \cup {p}
          /\ Len(Append(t, p)) = Len(t) + 1
      BY <2>1, <2>2, PushBackProperties, Zenon DEF t
    <3>3. QED
      BY <2>1, <3>1, <3>2, <1>len, SMTT(30) DEF t
  <2>4. /\ DOMAIN entries' = (DOMAIN entries \ {h}) \cup {p}
        /\ entries' \in [DOMAIN entries' -> Key]
        /\ \A q \in DOMAIN entries' : KeyId[entries'[q]] = q
    BY <1>3 DEF EvictForGossip, Put, Without, TypeOK, KeysBindTheirPeer,
                ValidAnnouncement, h
  <2>5. QED
    BY <1>3, <2>1, <2>3, <2>4, SMTT(30)
       DEF EvictForGossip, TypeOK, GossipOrderIsExact, KeysBindTheirPeer, GossipWithinLimit
<1>4. CASE AddGossip(p, k)
  <2>1. p \notin ToSet(gossip_order)
    BY <1>4 DEF AddGossip, GossipOrderIsExact
  <2>2. /\ gossip_order' \in Seq(PeerId)
        /\ IsInjective(gossip_order')
        /\ ToSet(gossip_order') = ToSet(gossip_order) \cup {p}
        /\ Len(gossip_order') = Len(gossip_order) + 1
    BY <1>4, <2>1, PushBackProperties, SMTT(30) DEF AddGossip, TypeOK, GossipOrderIsExact
  <2>3. /\ DOMAIN entries' = DOMAIN entries \cup {p}
        /\ entries' \in [DOMAIN entries' -> Key]
        /\ \A q \in DOMAIN entries' : KeyId[entries'[q]] = q
    BY <1>4, Zenon DEF AddGossip, Put, TypeOK, KeysBindTheirPeer, ValidAnnouncement
  <2>4. GossipWithinLimit'
    BY <1>4, <2>2, <1>len, RoomForGossip, BoundType, SMTT(30) DEF AddGossip, GossipWithinLimit
  <2>5. QED
    BY <1>4, <2>1, <2>2, <2>3, <2>4, SMTT(30)
       DEF AddGossip, TypeOK, GossipOrderIsExact, KeysBindTheirPeer
<1>5. QED
  BY <1>1, <1>2, <1>3, <1>4, SMTT(30) DEF InsertGossip

(* The initial registry is empty.                                          *)
LEMMA InitEstablishes == Init => RegistryInv
<1> SUFFICES ASSUME Init PROVE RegistryInv
  BY Zenon
<1>1. TypeOK
  BY DEF Init, TypeOK, Known, Attempts
<1>2. GossipOrderIsExact /\ KeysBindTheirPeer
  BY DEF Init, GossipOrderIsExact, KeysBindTheirPeer, Known, IsInjective, ToSet
<1>3. GossipWithinLimit
  BY BoundType DEF Init, GossipWithinLimit
<1>4. QED
  BY <1>1, <1>2, <1>3, SMTT(30) DEF RegistryInv

(* Every step of the registry and its callers preserves the invariant.     *)
LEMMA StepPreserves == RegistryInv /\ [Next]_vars => RegistryInv'
<1> SUFFICES ASSUME RegistryInv, [Next]_vars PROVE RegistryInv'
  BY Zenon
<1> USE DEF RegistryInv
<1>1. ASSUME NEW k \in Key, Handshake(k) PROVE RegistryInv'
  BY <1>1, InsertDirectPreserves, Zenon DEF Handshake, TypeOK
<1>2. ASSUME NEW p \in PeerId, NEW k \in Key, ReceiveAnnouncement(p, k) PROVE RegistryInv'
  BY <1>2, InsertGossipPreserves, Zenon DEF ReceiveAnnouncement
<1>3. ASSUME NEW t \in Task, NEW p \in PeerId, BeginSend(t, p) PROVE RegistryInv'
  <2>1. attempt' \in [Task -> Attempts]
    BY <1>3, Zenon DEF BeginSend, TypeOK, Attempts
  <2>2. QED
    BY <1>3, <2>1, Zenon DEF BeginSend, TypeOK, GossipOrderIsExact, KeysBindTheirPeer,
                      GossipWithinLimit, Known
<1>4. ASSUME NEW t \in Task, ConnectFails(t) \/ HandshakeFails(t) PROVE RegistryInv'
  <2>1. attempt' \in [Task -> Attempts]
    BY <1>4, Zenon DEF ConnectFails, HandshakeFails, TypeOK, Attempts
  <2>2. CASE UNCHANGED <<entries, gossip_order, confirmed>>
    BY <2>1, <2>2, SMTT(30) DEF TypeOK, GossipOrderIsExact, KeysBindTheirPeer, GossipWithinLimit, Known
  <2>3. CASE RemoveKey(attempt[t].peer)
    BY <2>1, <2>3, RemoveKeyPreserves, SMTT(30)
  <2>4. QED
    BY <1>4, <2>2, <2>3, Zenon DEF ConnectFails, HandshakeFails
<1>5. ASSUME NEW t \in Task, NEW k \in Key, HandshakeSucceeds(t, k) PROVE RegistryInv'
  <2>1. attempt' \in [Task -> Attempts]
    BY <1>5, Zenon DEF HandshakeSucceeds, TypeOK, Attempts
  <2>2. QED
    BY <1>5, <2>1, InsertDirectPreserves, SMTT(30) DEF HandshakeSucceeds
<1>6. CASE UNCHANGED vars
  BY <1>6, Zenon DEF vars, TypeOK, GossipOrderIsExact, KeysBindTheirPeer, GossipWithinLimit, Known
<1>7. QED
  BY <1>1, <1>2, <1>3, <1>4, <1>5, <1>6, Zenon DEF Next

(* Each of the registry's state properties holds in every reachable state, *)
(* for any peers, any limit and any number of sends in flight.             *)
THEOREM RegistryInvariant ==
    Spec => [](TypeOK /\ GossipOrderIsExact /\ KeysBindTheirPeer /\ GossipWithinLimit)
<1>1. RegistryInv => TypeOK /\ GossipOrderIsExact /\ KeysBindTheirPeer /\ GossipWithinLimit
  BY Zenon DEF RegistryInv
<1>2. QED
  BY <1>1, InitEstablishes, StepPreserves, PTL DEF Spec

(* A key in the registry hashes to the peer it is stored under, so an XK   *)
(* handshake that try_send starts from it is aimed at that peer, whatever  *)
(* announcements, evictions and failing sends came before.                 *)
THEOREM StoredKeysBind == Spec => []KeysBindTheirPeer
BY RegistryInvariant, PTL

-----------------------------------------------------------------------------
(* What one step may do to a confirmed peer.                               *)
ConfirmedStep ==
    \A p \in confirmed : p \notin DOMAIN entries' =>
       \E t \in Task : /\ attempt[t] = [peer |-> p, pattern |-> "XK"]
                       /\ attempt'[t] = Idle

(* No interleaving of gossip at the size limit, handshakes and failing     *)
(* sends takes out a key confirmed by a handshake, except a failing send   *)
(* that had itself read a key for that peer.                               *)
THEOREM ConfirmedKeysAreSafe == Spec => ConfirmedLeavesOnlyByFailedXK
<1>1. RegistryInv /\ [Next]_vars => [ConfirmedStep]_vars
  <2> SUFFICES ASSUME RegistryInv, Next, NEW p \in confirmed, p \notin DOMAIN entries'
               PROVE  \E t \in Task : /\ attempt[t] = [peer |-> p, pattern |-> "XK"]
                                      /\ attempt'[t] = Idle
    BY Zenon DEF ConfirmedStep
  <2> USE DEF RegistryInv, Known
  <2>1. p \in DOMAIN entries /\ p \notin ToSet(gossip_order)
    BY Zenon DEF GossipOrderIsExact
  <2>2. ASSUME NEW k \in Key, InsertDirect(k) PROVE FALSE
    BY <2>1, <2>2, Zenon DEF InsertDirect, Put
  <2>3. ASSUME NEW q \in PeerId, NEW k \in Key, InsertGossip(q, k) PROVE FALSE
    <3>1. CASE RefreshGossip(q, k) \/ DropGossip(q) \/ AddGossip(q, k)
      BY <2>1, <3>1, Zenon DEF RefreshGossip, DropGossip, AddGossip, Put, TypeOK
    <3>2. CASE EvictForGossip(q, k)
      <4>1. Head(gossip_order) \in ToSet(gossip_order)
        BY <3>2, PopFrontProperties, Zenon DEF EvictForGossip, TypeOK, GossipOrderIsExact
      <4>2. QED
        BY <2>1, <3>2, <4>1, Zenon DEF EvictForGossip, Put, Without
    <3>3. QED
      BY <2>3, <3>1, <3>2, SMTT(30) DEF InsertGossip
  <2>4. ASSUME NEW t \in Task, HandshakeFails(t)
        PROVE  attempt[t] = [peer |-> p, pattern |-> "XK"] /\ attempt'[t] = Idle
    <3>1. attempt[t] \in Attempts \ {Idle} /\ attempt'[t] = Idle
      BY <2>4, Zenon DEF HandshakeFails, TypeOK
    <3>2. attempt[t].pattern = "XK" /\ RemoveKey(attempt[t].peer)
      BY <2>1, <2>4, Zenon DEF HandshakeFails
    <3>3. attempt[t].peer = p
      BY <2>1, <3>2, Zenon DEF RemoveKey, Without
    <3>4. QED
      BY <3>1, <3>2, <3>3, SMTT(30) DEF Attempts
  <2>5. CASE \E t \in Task, q \in PeerId : BeginSend(t, q)
    BY <2>1, <2>5, Zenon DEF BeginSend
  <2>6. CASE \E t \in Task : ConnectFails(t)
    BY <2>1, <2>6, Zenon DEF ConnectFails
  <2>7. QED
    BY <2>2, <2>3, <2>4, <2>5, <2>6, SMTT(30) DEF Next, Handshake, ReceiveAnnouncement, HandshakeSucceeds
<1>2. QED
  BY <1>1, InitEstablishes, StepPreserves, PTL
     DEF Spec, ConfirmedLeavesOnlyByFailedXK, ConfirmedStep

-----------------------------------------------------------------------------
(* insert_direct is the abstract Confirm.                                  *)
LEMMA InsertDirectConfirms ==
    ASSUME RegistryInv, NEW k \in Key, InsertDirect(k)
    PROVE  Cache!CacheNext
<1> DEFINE p == KeyId[k]
<1>1. p \in PeerId
  BY KeyIdInjective, Zenon
<1>2. ToSet(gossip_order') = ToSet(gossip_order) \ {p}
  BY RetainProperties, Zenon DEF InsertDirect, RegistryInv, TypeOK, GossipOrderIsExact
<1>3. DOMAIN entries' = DOMAIN entries \cup {p}
  BY Zenon DEF InsertDirect, Put
<1>4. Cache!Confirm(p)
  BY <1>2, <1>3, Zenon DEF Cache!Confirm, Known
<1>5. QED
  BY <1>1, <1>4, Zenon DEF Cache!CacheNext

(* remove is the abstract Forget.                                          *)
LEMMA RemoveKeyForgets ==
    ASSUME RegistryInv, NEW p \in PeerId, RemoveKey(p)
    PROVE  Cache!CacheNext
<1>1. ToSet(gossip_order') = ToSet(gossip_order) \ {p}
  BY RetainProperties, Zenon DEF RemoveKey, RegistryInv, TypeOK, GossipOrderIsExact
<1>2. DOMAIN entries' = DOMAIN entries \ {p}
  BY Zenon DEF RemoveKey, Without
<1>3. Cache!Forget(p)
  BY <1>1, <1>2, SMTT(30) DEF Cache!Forget, Known
<1>4. QED
  BY <1>3, Zenon DEF Cache!CacheNext

(* insert_gossip is the abstract Hear, or changes no abstract state.       *)
LEMMA InsertGossipHears ==
    ASSUME RegistryInv, RegistryInv', NEW p \in PeerId, NEW k \in Key, InsertGossip(p, k)
    PROVE  Cache!CacheNext \/ UNCHANGED Cache!cacheVars
<1> USE DEF Known
<1>1. CASE RefreshGossip(p, k) \/ DropGossip(p)
  <2>1. DOMAIN entries' = DOMAIN entries /\ gossip_order' = gossip_order
    BY <1>1, Zenon DEF RefreshGossip, DropGossip, RegistryInv, TypeOK
  <2>2. QED
    BY <2>1, Zenon DEF Cache!cacheVars
<1>2. ASSUME NEW out \in SUBSET ToSet(gossip_order), Cardinality(out) <= 1,
             p \notin DOMAIN entries,
             DOMAIN entries' = (DOMAIN entries \ out) \cup {p},
             ToSet(gossip_order') = (ToSet(gossip_order) \ out) \cup {p}
      PROVE  Cache!CacheNext
  <2>1. ToSet(gossip_order) \subseteq DOMAIN entries
    BY Zenon DEF RegistryInv, GossipOrderIsExact
  <2>2. Bounded => Cardinality(ToSet(gossip_order')) <= MaxSize
    BY QueueCardinality, Zenon DEF RegistryInv, TypeOK, GossipOrderIsExact, GossipWithinLimit
  <2>3. Cache!Hear(p)
    <3>1. p \notin (Known \ ToSet(gossip_order)) \cup ToSet(gossip_order)
      BY <1>2, <2>1, Zenon
    <3>2. DOMAIN entries' \ ToSet(gossip_order') = DOMAIN entries \ ToSet(gossip_order)
      BY <1>2, <2>1, Zenon
    <3>3. \E o \in SUBSET ToSet(gossip_order) :
             /\ Cardinality(o) <= 1
             /\ ToSet(gossip_order') = (ToSet(gossip_order) \ o) \cup {p}
      BY <1>2, Zenon
    <3>4. QED
      BY <2>2, <3>1, <3>2, <3>3, ZenonT(40) DEF Cache!Hear, Cardinality, Cache!Cardinality
  <2>4. QED
    BY <2>3, Zenon DEF Cache!CacheNext
<1>3. CASE EvictForGossip(p, k)
  <2> DEFINE h == Head(gossip_order)
  <2>1. /\ h \in ToSet(gossip_order)
        /\ Tail(gossip_order) \in Seq(PeerId)
        /\ IsInjective(Tail(gossip_order))
        /\ ToSet(Tail(gossip_order)) = ToSet(gossip_order) \ {h}
    BY <1>3, PopFrontProperties, Zenon DEF EvictForGossip, RegistryInv, TypeOK, GossipOrderIsExact
  <2>2. p \notin ToSet(Tail(gossip_order))
    BY <1>3, <2>1, Zenon DEF EvictForGossip, RegistryInv, GossipOrderIsExact
  <2>3. ToSet(gossip_order') = (ToSet(gossip_order) \ {h}) \cup {p}
    <3> DEFINE t == Tail(gossip_order)
    <3> HIDE DEF t, h
    <3>1. gossip_order' = Append(t, p)
      BY <1>3, Zenon DEF EvictForGossip, t
    <3>2. ToSet(Append(t, p)) = ToSet(t) \cup {p}
      BY <2>1, <2>2, PushBackProperties, Zenon DEF t
    <3>3. QED
      BY <2>1, <3>1, <3>2, Zenon DEF t
  <2>4. DOMAIN entries' = (DOMAIN entries \ {h}) \cup {p} /\ p \notin DOMAIN entries
    BY <1>3, Zenon DEF EvictForGossip, Put, Without
  <2>5. Cardinality({h}) <= 1
    <3>1. Cardinality({h}) = 1
      BY FS_Singleton, Zenon
    <3>2. QED
      BY <3>1
  <2>6. QED
    BY <1>2, <2>1, <2>3, <2>4, <2>5, SMTT(30)
<1>4. CASE AddGossip(p, k)
  <2>1. p \notin ToSet(gossip_order)
    BY <1>4, Zenon DEF AddGossip, RegistryInv, GossipOrderIsExact
  <2>2. ToSet(gossip_order') = (ToSet(gossip_order) \ {}) \cup {p}
    BY <1>4, <2>1, PushBackProperties, Zenon DEF AddGossip, RegistryInv, TypeOK, GossipOrderIsExact
  <2>3. DOMAIN entries' = (DOMAIN entries \ {}) \cup {p} /\ p \notin DOMAIN entries
    BY <1>4, Zenon DEF AddGossip, Put
  <2>4. Cardinality({}) <= 1
    BY FS_EmptySet, SMTT(30)
  <2>5. QED
    BY <1>2, <2>2, <2>3, <2>4, SMTT(30)
<1>5. QED
  BY <1>1, <1>3, <1>4, SMTT(30) DEF InsertGossip

(* The registry implements the abstract cache: whatever its callers do,    *)
(* gossip only ever displaces gossip, one entry at a time and within the   *)
(* limit.                                                                  *)
THEOREM RegistryImplementsCache == Spec => ImplementsCache
<1>1. Init => Cache!CacheInit
  BY DEF Init, Cache!CacheInit, Known, ToSet
<1>2. RegistryInv /\ RegistryInv' /\ [Next]_vars => [Cache!CacheNext]_(Cache!cacheVars)
  <2> SUFFICES ASSUME RegistryInv, RegistryInv', [Next]_vars
               PROVE  Cache!CacheNext \/ UNCHANGED Cache!cacheVars
    BY Zenon
  <2>1. ASSUME NEW p \in PeerId, NEW k \in Key, ReceiveAnnouncement(p, k)
        PROVE  Cache!CacheNext \/ UNCHANGED Cache!cacheVars
    BY <2>1, InsertGossipHears, Zenon DEF ReceiveAnnouncement
  <2>2. ASSUME NEW k \in Key, InsertDirect(k) PROVE Cache!CacheNext
    BY <2>2, InsertDirectConfirms, SMTT(30)
  <2>3. ASSUME NEW t \in Task, HandshakeFails(t)
        PROVE  Cache!CacheNext \/ UNCHANGED Cache!cacheVars
    <3>1. CASE attempt[t].pattern = "XK"
      <4>1. attempt[t].peer \in PeerId
        BY <2>3, <3>1, Zenon DEF HandshakeFails, RegistryInv, TypeOK, Attempts, Idle
      <4>2. QED
        BY <2>3, <3>1, <4>1, RemoveKeyForgets, SMTT(30) DEF HandshakeFails
    <3>2. CASE attempt[t].pattern # "XK"
      BY <2>3, <3>2, Zenon DEF HandshakeFails, Cache!cacheVars, Known
    <3>3. QED
      BY <3>1, <3>2, SMTT(30)
  <2>4. CASE UNCHANGED <<entries, gossip_order>>
    BY <2>4, Zenon DEF Cache!cacheVars, Known
  <2>5. QED
    BY <2>1, <2>2, <2>3, <2>4, ZenonT(40)
       DEF Next, vars, Handshake, BeginSend, ConnectFails, HandshakeSucceeds
<1>3. QED
  BY <1>1, <1>2, InitEstablishes, StepPreserves, PTL DEF Spec, ImplementsCache, Cache!CacheSpec
=============================================================================
