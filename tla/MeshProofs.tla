------------------------------ MODULE MeshProofs ------------------------------
(* Theorems about Mesh, for every topology, hop limit and set of messages, *)
(* with any number of frames lost or repeated and of cache entries that    *)
(* expire.                                                                 *)
EXTENDS Mesh, FiniteSetTheorems, WellFoundedInduction, TLAPS

(* While the caches remember, what a handler has got is in the cache of    *)
(* its node: the strengthening that makes AtMostOnce inductive.            *)
RecordedAt(m, n) ==
    /\ n # Dest[m] => handled[m][n] = 0
    /\ ~expired => handled[m][n] <= IF m \in seen[n] THEN 1 ELSE 0
Recorded == \A m \in Msg, n \in Node : RecordedAt(m, n)

IInv == TypeOK /\ Recorded

(* A frame built by a node for its neighbours is a frame.                  *)
LEMMA FramesToType ==
    ASSUME NEW id \in Id, NEW n \in Node, NEW to \in SUBSET Node, NEW ttl \in 0..MaxTTL
    PROVE  FramesTo(id, n, to, ttl) \subseteq Frame
BY DEF FramesTo, Frame

(* So is what a relay sends on, if the frame that came in has hops left:   *)
(* the decrement of the byte never wraps.                                  *)
LEMMA RelayType ==
    ASSUME NEW f \in Frame, f.ttl # 0
    PROVE  Relay(f) \subseteq Frame
<1>1. MaxTTL \in Nat /\ f.ttl \in 0..MaxTTL /\ f.id \in Id /\ f.to \in Node
  BY NumberTypes, Zenon DEF Frame
<1>2. f.ttl - 1 \in 0..MaxTTL
  BY <1>1
<1>3. Neighbours(f.to) \ {f.from} \in SUBSET Node
  BY Zenon DEF Neighbours
<1> QED
  BY <1>1, <1>2, <1>3, FramesToType, Zenon DEF Relay

(* Initially nothing has been handled.                                     *)
LEMMA InitInv == Init => IInv
<1> SUFFICES ASSUME Init PROVE IInv
  BY Zenon
<1>1. MaxFault \in Nat
  BY NumberTypes, Zenon
<1>2. keys \in [Node -> SUBSET Node]
  BY Zenon DEF Init, MetKeys
<1>3. handled \in [Msg -> [Node -> Nat]] /\ \A m \in Msg, n \in Node : handled[m][n] = 0
  BY Zenon DEF Init
<1>4. TypeOK
  <2>1. expired \in BOOLEAN
    BY Zenon DEF Init
  <2>2. losses \in 0..MaxFault /\ dups \in 0..MaxFault
    BY <1>1 DEF Init
  <2>3. /\ table \subseteq Link /\ learned \subseteq Announcement /\ frames \subseteq Frame
        /\ seen \in [Node -> SUBSET Id] /\ due \subseteq sent /\ sent \subseteq Msg
    BY LinkTypes, Zenon DEF Init
  <2> QED
    BY <2>1, <2>2, <2>3, <1>2, <1>3, Zenon DEF TypeOK
<1>5. Recorded
  BY <1>3 DEF Recorded, RecordedAt
<1> QED
  BY <1>4, <1>5, Zenon DEF IInv

(* What a step that leaves handled alone keeps, if it forgets nothing.     *)
LEMMA RecordedKept ==
    ASSUME Recorded, TypeOK, UNCHANGED <<handled, expired>>, seen' \in [Node -> SUBSET Id],
           \A n \in Node : seen[n] \subseteq seen'[n]
    PROVE  Recorded'
<1> SUFFICES ASSUME NEW m \in Msg, NEW n \in Node
             PROVE  RecordedAt(m, n)'
  BY Zenon DEF Recorded
<1>1. handled[m][n] \in Nat
  BY Zenon DEF TypeOK
<1>2. RecordedAt(m, n)
  BY Zenon DEF Recorded
<1>3. m \in seen[n] => m \in seen'[n]
  BY Zenon
<1> QED
  BY <1>1, <1>2, <1>3, SMTT(30) DEF RecordedAt

(* The cache after an insertion.                                           *)
LEMMA InsertGrows ==
    ASSUME TypeOK, NEW f \in Frame, Insert(f)
    PROVE  /\ seen' \in [Node -> SUBSET Id]
           /\ \A n \in Node : seen[n] \subseteq seen'[n]
           /\ f.id \in seen'[f.to]
           /\ \A n \in Node \ {f.to} : seen'[n] = seen[n]
BY Zenon DEF TypeOK, Insert, Frame

(* A frame that arrives, once or again, leaves well-typed bookkeeping.     *)
LEMMA ArrivalType ==
    ASSUME TypeOK, NEW f \in frames, NEW again \in BOOLEAN, Again(again)
    PROVE  dups' \in 0..MaxFault /\ Left(f, again) \subseteq Frame /\ f \in Frame
<1>1. dups' \in 0..MaxFault
  BY NumberTypes DEF TypeOK, Again, Faults
<1>2. Left(f, again) \subseteq Frame /\ f \in Frame
  BY Zenon DEF TypeOK, Left
<1> QED
  BY <1>1, <1>2, Zenon

(* Deliver counts a message only when it enters the cache.                 *)
LEMMA DeliverInv ==
    ASSUME IInv, NEW f \in frames, NEW again \in BOOLEAN, Deliver(f, again)
    PROVE  IInv'
<1>0. TypeOK /\ Recorded /\ UNCHANGED expired
  BY Zenon DEF IInv, Deliver
<1>1. dups' \in 0..MaxFault /\ Left(f, again) \subseteq Frame /\ f \in Frame
  BY <1>0, ArrivalType, Zenon DEF Deliver
<1>2. f.id \in Msg /\ f.to \in Node /\ f.to = Dest[f.id]
  BY <1>1, Zenon DEF Deliver, Frame
<1>3. CASE IsDup(f)
  <2>1. UNCHANGED <<seen, handled>>
    BY <1>3, Zenon DEF Deliver
  <2>2. TypeOK'
    BY <1>0, <1>1, <2>1, Zenon DEF Deliver, TypeOK
  <2>3. Recorded'
    BY <1>0, <2>1, RecordedKept, Zenon DEF TypeOK
  <2> QED
    BY <2>2, <2>3, Zenon DEF IInv
<1>4. CASE ~IsDup(f)
  <2>1. Insert(f) /\ Handle(f.id, f.to)
    BY <1>4, Zenon DEF Deliver
  <2>2. /\ seen' \in [Node -> SUBSET Id]
        /\ \A n \in Node : seen[n] \subseteq seen'[n]
        /\ f.id \in seen'[f.to]
    BY <1>0, <1>1, <2>1, InsertGrows, Zenon
  <2>3. CASE UNCHANGED handled
    <3>1. TypeOK'
      BY <1>0, <1>1, <2>2, <2>3, Zenon DEF Deliver, TypeOK
    <3>2. Recorded'
      BY <1>0, <2>2, <2>3, RecordedKept, Zenon
    <3> QED
      BY <3>1, <3>2, Zenon DEF IInv
  <2>4. CASE handled' = [handled EXCEPT ![f.id][f.to] = @ + 1]
    <3>1. handled' \in [Msg -> [Node -> Nat]]
      BY <1>0, <1>2, <2>4 DEF TypeOK
    <3>2. TypeOK'
      BY <1>0, <1>1, <2>2, <3>1, Zenon DEF Deliver, TypeOK
    <3>3. ASSUME NEW m \in Msg, NEW n \in Node
          PROVE  RecordedAt(m, n)'
      <4>0. RecordedAt(m, n) /\ handled[m][n] \in Nat
        BY <1>0, Zenon DEF Recorded, TypeOK
      <4>1. CASE m = f.id /\ n = f.to
        <5>1. handled'[m][n] = handled[m][n] + 1
          BY <4>1, <1>0, <1>2, <2>4, Zenon DEF TypeOK
        <5>2. ~expired => handled[m][n] = 0
          BY <4>0, <4>1, <1>4, SMTT(30) DEF RecordedAt, IsDup
        <5> QED
          BY <4>0, <4>1, <5>1, <5>2, <1>0, <1>2, <2>2, SMTT(30) DEF RecordedAt
      <4>2. CASE ~(m = f.id /\ n = f.to)
        <5>1. handled'[m][n] = handled[m][n]
          BY <4>2, <1>0, <1>2, <2>4, Zenon DEF TypeOK
        <5> QED
          BY <4>0, <5>1, <1>0, <2>2, SMTT(30) DEF RecordedAt
      <4> QED
        BY <4>1, <4>2, Zenon
    <3> QED
      BY <3>2, <3>3, Zenon DEF IInv, Recorded
  <2> QED
    BY <2>1, <2>3, <2>4, Zenon DEF Handle
<1> QED
  BY <1>3, <1>4, Zenon

(* Forward leaves handled alone and only adds to the cache.                *)
LEMMA ForwardInv ==
    ASSUME IInv, NEW f \in frames, NEW again \in BOOLEAN, Forward(f, again)
    PROVE  IInv'
<1>0. TypeOK /\ Recorded /\ UNCHANGED <<handled, expired>>
  BY Zenon DEF IInv, Forward
<1>1. dups' \in 0..MaxFault /\ Left(f, again) \subseteq Frame /\ f \in Frame
  BY <1>0, ArrivalType, Zenon DEF Forward
<1>2. CASE f.ttl = 0 \/ IsDup(f)
  <2>1. frames' = Left(f, again) /\ UNCHANGED seen
    BY <1>2, Zenon DEF Forward
  <2>2. TypeOK'
    BY <1>0, <1>1, <2>1, Zenon DEF Forward, TypeOK
  <2>3. Recorded'
    BY <1>0, <2>1, RecordedKept, Zenon DEF TypeOK
  <2> QED
    BY <2>2, <2>3, Zenon DEF IInv
<1>3. CASE ~(f.ttl = 0 \/ IsDup(f))
  <2>1. frames' = Left(f, again) \cup Relay(f) /\ Insert(f)
    BY <1>3, Zenon DEF Forward
  <2>2. frames' \subseteq Frame
    BY <1>1, <1>3, <2>1, RelayType, Zenon
  <2>3. seen' \in [Node -> SUBSET Id] /\ \A n \in Node : seen[n] \subseteq seen'[n]
    BY <1>0, <1>1, <2>1, InsertGrows, Zenon
  <2>4. TypeOK'
    BY <1>0, <1>1, <2>2, <2>3, Zenon DEF Forward, TypeOK
  <2>5. Recorded'
    BY <1>0, <2>3, RecordedKept, Zenon
  <2> QED
    BY <2>4, <2>5, Zenon DEF IInv
<1> QED
  BY <1>2, <1>3, Zenon

(* So does LearnKey, which also adds to the registry.                      *)
LEMMA LearnKeyInv ==
    ASSUME IInv, NEW f \in frames, NEW again \in BOOLEAN, LearnKey(f, again)
    PROVE  IInv'
<1>0. TypeOK /\ Recorded /\ UNCHANGED <<handled, expired>>
  BY Zenon DEF IInv, LearnKey
<1>1. dups' \in 0..MaxFault /\ Left(f, again) \subseteq Frame /\ f \in Frame
  BY <1>0, ArrivalType, Zenon DEF LearnKey
<1>2. CASE IsDup(f)
  <2>1. frames' = Left(f, again) /\ UNCHANGED <<seen, keys>>
    BY <1>2, Zenon DEF LearnKey
  <2>2. TypeOK'
    BY <1>0, <1>1, <2>1, Zenon DEF LearnKey, TypeOK
  <2>3. Recorded'
    BY <1>0, <2>1, RecordedKept, Zenon DEF TypeOK
  <2> QED
    BY <2>2, <2>3, Zenon DEF IInv
<1>3. CASE ~IsDup(f)
  <2>1. /\ frames' = Left(f, again) \cup (IF f.ttl = 0 THEN {} ELSE Relay(f))
        /\ Insert(f)
        /\ keys' = [keys EXCEPT ![f.to] = @ \cup {f.id[2]}]
    BY <1>3, Zenon DEF LearnKey
  <2>2. frames' \subseteq Frame
    BY <1>1, <2>1, RelayType, Zenon
  <2>3. seen' \in [Node -> SUBSET Id] /\ \A n \in Node : seen[n] \subseteq seen'[n]
    BY <1>0, <1>1, <2>1, InsertGrows, Zenon
  <2>4. f.id[2] \in Node /\ f.to \in Node
    BY <1>1, Zenon DEF LearnKey, Announcement, Frame
  <2>5. keys' \in [Node -> SUBSET Node]
    BY <1>0, <2>1, <2>4, Zenon DEF TypeOK
  <2>6. TypeOK'
    BY <1>0, <1>1, <2>2, <2>3, <2>5, Zenon DEF LearnKey, TypeOK
  <2>7. Recorded'
    BY <1>0, <2>3, RecordedKept, Zenon
  <2> QED
    BY <2>6, <2>7, Zenon DEF IInv
<1> QED
  BY <1>2, <1>3, Zenon

(* The steps outside dispatch_payload touch neither cache nor handler.     *)
LEMMA OtherInv ==
    ASSUME IInv,
           \/ \E n, p \in Node : Meet(n, p) \/ Announce(n, p)
           \/ \E m \in Msg : SendRouted(m)
           \/ \E f \in frames : Lose(f)
    PROVE  IInv'
<1>0. TypeOK /\ Recorded
  BY Zenon DEF IInv
<1>1. UNCHANGED <<handled, seen, expired>>
  BY Zenon DEF Meet, Announce, SendRouted, Lose
<1>2. Recorded'
  BY <1>0, <1>1, RecordedKept, Zenon DEF TypeOK
<1>3. MaxTTL \in 0..MaxTTL /\ MaxFault \in Nat
  BY NumberTypes
<1>4. ASSUME NEW n \in Node, NEW p \in Node, Meet(n, p) PROVE TypeOK'
  <2>1. keys' \in [Node -> SUBSET Node]
    BY <1>0, <1>4, Zenon DEF TypeOK, Meet
  <2>2. learned' \subseteq Announcement
    BY <1>0, <1>4, SMTT(30) DEF TypeOK, Meet, Announcement
  <2> QED
    BY <1>0, <1>4, <2>1, <2>2, Zenon DEF TypeOK, Meet
<1>5. ASSUME NEW n \in Node, NEW p \in Node, Announce(n, p) PROVE TypeOK'
  <2>1. <<n, p>> \in Id /\ Neighbours(n) \ {p} \in SUBSET Node
    BY Zenon DEF Id, Announcement, Neighbours
  <2>2. FramesTo(<<n, p>>, n, Neighbours(n) \ {p}, MaxTTL) \subseteq Frame
    BY <2>1, <1>3, FramesToType, Zenon
  <2> QED
    BY <1>0, <1>5, <2>2, Zenon DEF TypeOK, Announce
<1>6. ASSUME NEW m \in Msg, SendRouted(m) PROVE TypeOK'
  <2>1. m \in Id /\ From[m] \in Node /\ Neighbours(From[m]) \in SUBSET Node
    BY MsgTypes, Zenon DEF Id, Neighbours
  <2>2. FramesTo(m, From[m], Neighbours(From[m]), MaxTTL) \subseteq Frame
    BY <2>1, <1>3, FramesToType, Zenon
  <2> QED
    BY <1>0, <1>6, <2>2, Zenon DEF TypeOK, SendRouted
<1>7. ASSUME NEW f \in frames, Lose(f) PROVE TypeOK'
  BY <1>0, <1>3, <1>7, SMTT(30) DEF TypeOK, Lose, Faults
<1> QED
  BY <1>2, <1>4, <1>5, <1>6, <1>7, Zenon DEF IInv

(* Once an entry has expired, only the destination's own count is free.    *)
LEMMA ExpireInv ==
    ASSUME IInv, NEW n \in Node, NEW id \in seen[n], Expire(n, id)
    PROVE  IInv'
<1>0. TypeOK /\ Recorded /\ expired' /\ UNCHANGED handled
  BY Zenon DEF IInv, Expire
<1>1. seen' \in [Node -> SUBSET Id]
  BY <1>0, Zenon DEF TypeOK, Expire
<1>2. TypeOK'
  BY <1>0, <1>1, Zenon DEF TypeOK, Expire
<1>3. Recorded'
  BY <1>0, Zenon DEF Recorded, RecordedAt
<1> QED
  BY <1>2, <1>3, Zenon DEF IInv

(* Every step keeps the invariant.                                         *)
LEMMA StepInv == IInv /\ [Next]_vars => IInv'
<1> SUFFICES ASSUME IInv, [Next]_vars PROVE IInv'
  BY Zenon
<1>1. CASE UNCHANGED vars
  BY <1>1, Zenon DEF IInv, TypeOK, Recorded, RecordedAt, vars
<1>2. CASE \/ \E n, p \in Node : Meet(n, p) \/ Announce(n, p)
           \/ \E m \in Msg : SendRouted(m)
           \/ \E f \in frames : Lose(f)
  BY <1>2, OtherInv, Zenon
<1>3. ASSUME NEW f \in frames, NEW again \in BOOLEAN, Receive(f, again) PROVE IInv'
  BY <1>3, DeliverInv, ForwardInv, LearnKeyInv, Zenon DEF Receive
<1>4. ASSUME NEW n \in Node, NEW id \in seen[n], Expire(n, id) PROVE IInv'
  BY <1>4, ExpireInv, Zenon
<1> QED
  BY <1>1, <1>2, <1>3, <1>4, Zenon DEF Next

(* Types are kept: in particular no hop count ever wraps below zero, where *)
(* dispatch_payload decrements the byte it read.                           *)
THEOREM FloodTypes == Spec => []TypeOK
<1>1. IInv => TypeOK
  BY Zenon DEF IInv
<1> QED
  BY <1>1, StepInv, InitInv, PTL DEF Spec

(* Nobody but the destination gets a message, and its handler gets it once *)
(* as long as no entry of a cache expires: for every topology, hop limit,  *)
(* loss and repetition.                                                    *)
THEOREM FloodAtMostOnce == Spec => []AtMostOnce
<1>1. IInv => AtMostOnce
  <2> SUFFICES ASSUME IInv, NEW m \in Msg, NEW n \in Node
               PROVE  /\ n # Dest[m] => handled[m][n] = 0
                      /\ ~expired => handled[m][n] <= 1
    BY Zenon DEF AtMostOnce
  <2>1. handled[m][n] \in Nat /\ RecordedAt(m, n)
    BY Zenon DEF IInv, TypeOK, Recorded
  <2> QED
    BY <2>1 DEF RecordedAt
<1> QED
  BY <1>1, StepInv, InitInv, PTL DEF Spec
-----------------------------------------------------------------------------
(* Coverage.  A copy pays for each hop with the entry of another cache, so *)
(* while the mesh is small enough no copy runs out of hops at a node that  *)
(* has yet to see the message, unless the destination has it.  That keeps  *)
(* up a flood's front: every set of nodes that holds those who have seen   *)
(* the message, and not the destination, is left by a link over which the  *)
(* message is on its way, or will be.                                      *)

SmallMesh ==
    /\ IsFiniteSet(Node) /\ Cardinality(Node) <= MaxTTL + 1
    /\ \A m \in Msg : From[m] # Dest[m]

Reached(m) == {n \in Node : m \in seen[n]}
Touched(m) == {From[m]} \cup Reached(m)

(* A copy in flight comes from a node that has the message, and the hops   *)
(* it has done are no more than the caches that have it.                   *)
TracedAt(f) ==
    /\ f.id \in sent
    /\ f.from \in Touched(f.id)
    /\ MaxTTL <= f.ttl + Cardinality(Reached(f.id))
Traced == \A f \in frames : f.id \in Msg => TracedAt(f)

(* A link leaves A, and if the node it starts from has the message, a copy *)
(* is in flight to the node it ends at.                                    *)
Crossing(m, A, p, q) ==
    /\ <<p, q>> \in table
    /\ p \in A /\ q \in Node \ A
    /\ p \in Touched(m) => \E f \in frames : f.id = m /\ f.to = q
Front(m) ==
    losses = 0 /\ m \in due =>
       \A A \in SUBSET Node :
          Touched(m) \subseteq A /\ Dest[m] \notin A => \E p, q \in Node : Crossing(m, A, p, q)

(* A message nobody sent is in no cache, and one in the cache of its       *)
(* destination has been handled.                                           *)
CachedAt(m) ==
    /\ m \notin sent => Reached(m) = {}
    /\ m \notin Sealed /\ m \in seen[Dest[m]] => handled[m][Dest[m]] >= 1

CInv == ~expired => Traced /\ \A m \in Msg : Front(m) /\ CachedAt(m)

(* A non-empty set of naturals has a least element.                        *)
LEMMA LeastNatural ==
    ASSUME NEW T \in SUBSET Nat, T # {}
    PROVE  \E x \in T : \A y \in T : x <= y
<1>1. PICK R : R = OpToRel(<, Nat)
  BY Zenon
<1>2. IsWellFoundedOn(R, Nat)
  BY <1>1, NatLessThanWellFounded, Zenon
<1>3. PICK x \in T : \A y \in T : ~ (<<y, x>> \in R)
  BY <1>2, WFMin, Zenon
<1>4. ASSUME NEW y \in T PROVE x <= y
  <2>1. y \in Nat /\ x \in Nat
    BY Zenon
  <2>2. <<y, x>> \notin R
    BY <1>3, Zenon
  <2>3. R = {ss \in Nat \X Nat : ss[1] < ss[2]}
    BY <1>1, Zenon DEF OpToRel
  <2>4. y < x => <<y, x>> \in R
    BY <2>1, <2>3, Zenon
  <2> QED
    BY <2>1, <2>2, <2>4, SMTT(30)
<1> QED
  BY <1>4, Zenon

(* A walk from inside A to outside A crosses a link that leaves A: the one *)
(* to the first node outside.                                              *)
LEMMA WalkLeaves ==
    ASSUME NEW A \in SUBSET Node, NEW n \in A, NEW k \in Nat, NEW d \in Within(n, k), d \notin A
    PROVE  \E p \in A, q \in Node \ A : <<p, q>> \in table
<1>1. PICK walk \in [0..k -> Node] :
         /\ walk[0] = n /\ walk[k] = d
         /\ \A i \in 1..k : walk[i] \in {walk[i - 1]} \cup Neighbours(walk[i - 1])
  BY Zenon DEF Within
<1>2. PICK T : T = {i \in 0..k : walk[i] \notin A}
  BY Zenon
<1>3. T \in SUBSET Nat /\ k \in T
  BY <1>1, <1>2, SMTT(30)
<1>4. PICK i \in T : \A j \in T : i <= j
  BY <1>3, LeastNatural, Zenon
<1>5. i \in 0..k /\ walk[i] \in Node \ A
  BY <1>1, <1>2, Zenon
<1>6. i # 0
  BY <1>1, <1>5, Zenon
<1>7. i \in 1..k /\ i - 1 \in 0..k /\ ~ (i <= i - 1)
  BY <1>5, <1>6
<1>8. i - 1 \notin T
  BY <1>4, <1>7, Zenon
<1>9. walk[i - 1] \in A
  BY <1>2, <1>7, <1>8, Zenon
<1>10. walk[i] \in Neighbours(walk[i - 1])
  BY <1>1, <1>5, <1>7, <1>9, Zenon
<1>11. <<walk[i - 1], walk[i]>> \in table
  BY <1>10, Zenon DEF Neighbours
<1> QED
  BY <1>5, <1>9, <1>11, Zenon

(* Caches are finite, and one more has the message when it is new to one.  *)
LEMMA ReachedSize ==
    ASSUME SmallMesh, NEW m \in Msg
    PROVE  IsFiniteSet(Reached(m)) /\ Cardinality(Reached(m)) \in Nat
<1>1. IsFiniteSet(Node) /\ Reached(m) \in SUBSET Node
  BY Zenon DEF SmallMesh, Reached
<1>2. IsFiniteSet(Reached(m))
  BY <1>1, FS_Subset, Zenon
<1> QED
  BY <1>2, FS_CardinalityType, Zenon

(* No copy runs out of hops at a node to which the message is new while    *)
(* the destination has yet to see it.                                      *)
LEMMA HopsSuffice ==
    ASSUME SmallMesh, TypeOK, NEW f \in frames, f.id \in Msg, TracedAt(f),
           f.to # Dest[f.id], f.to \notin Reached(f.id), Dest[f.id] \notin Reached(f.id)
    PROVE  f.ttl # 0
<1>1. f \in Frame
  BY Zenon DEF TypeOK
<1>2. PICK R : R = Reached(f.id)
  BY Zenon
<1>3. PICK a, b : a = f.to /\ b = Dest[f.id]
  BY Zenon
<1>4. a \in Node /\ b \in Node /\ a # b /\ a \notin R /\ b \notin R
  BY <1>1, <1>2, <1>3, MsgTypes, Zenon DEF Frame
<1>5. IsFiniteSet(R) /\ Cardinality(R) \in Nat /\ R \subseteq Node
  BY <1>2, ReachedSize, Zenon DEF Reached
<1>6. PICK Ra : Ra = R \cup {a}
  BY Zenon
<1>7. IsFiniteSet(Ra) /\ Cardinality(Ra) = Cardinality(R) + 1 /\ b \notin Ra
  BY <1>4, <1>5, <1>6, FS_AddElement, Zenon
<1>8. PICK Rab : Rab = Ra \cup {b}
  BY Zenon
<1>9. Cardinality(Rab) = Cardinality(Ra) + 1
  BY <1>7, <1>8, FS_AddElement, Zenon
<1>10. Cardinality(Rab) <= Cardinality(Node) /\ Cardinality(Node) \in Nat
  <2>1. Rab \in SUBSET Node /\ IsFiniteSet(Node)
    BY <1>4, <1>5, <1>6, <1>8, ZenonT(40) DEF SmallMesh
  <2> QED
    BY <2>1, FS_Subset, FS_CardinalityType, Zenon
<1>11. Cardinality(R) + 2 <= MaxTTL + 1
  BY <1>5, <1>7, <1>9, <1>10, NumberTypes, SMTT(30) DEF SmallMesh
<1>12. MaxTTL <= f.ttl + Cardinality(R)
  BY <1>2, Zenon DEF TracedAt
<1> QED
  BY <1>5, <1>11, <1>12, NumberTypes, SMTT(30)

(* A step after which the same caches have m, and that takes away no copy  *)
(* of m but for one to a node that has it, leaves the front where it is.   *)
LEMMA FrontKept ==
    ASSUME NEW m \in Msg, Front(m), Touched(m)' = Touched(m), table \subseteq table',
           losses' = 0 => losses = 0, m \in due' => m \in due,
           losses' = 0 => \A f \in frames : f.id = m /\ f.to \notin Touched(m) => f \in frames'
    PROVE  Front(m)'
<1> SUFFICES ASSUME losses' = 0, m \in due', NEW A \in SUBSET Node,
                    Touched(m)' \subseteq A, Dest[m] \notin A
             PROVE  \E p, q \in Node : Crossing(m, A, p, q)'
  BY Zenon DEF Front
<1>1. PICK p, q \in Node : Crossing(m, A, p, q)
  BY Zenon DEF Front
<1>2. q \notin Touched(m)
  BY <1>1, Zenon DEF Crossing
<1>3. Crossing(m, A, p, q)'
  <2>1. <<p, q>> \in table' /\ p \in A /\ q \in Node \ A
    BY <1>1, Zenon DEF Crossing
  <2>2. ASSUME p \in Touched(m)' PROVE \E f \in frames' : f.id = m /\ f.to = q
    <3>1. PICK f \in frames : f.id = m /\ f.to = q
      BY <1>1, <2>2, Zenon DEF Crossing
    <3> QED
      BY <1>2, <3>1, Zenon
  <2> QED
    BY <2>1, <2>2, Zenon DEF Crossing
<1> QED
  BY <1>3, Zenon

(* The send puts a copy on every link that leaves the originator; beyond   *)
(* it the walk that makes the message due shows the link.                  *)
LEMMA SendFront ==
    ASSUME TypeOK, NEW m \in Msg, SendRouted(m), Reached(m) = {}
    PROVE  Front(m)'
<1> SUFFICES ASSUME m \in due', NEW A \in SUBSET Node,
                    Touched(m)' \subseteq A, Dest[m] \notin A
             PROVE  \E p, q \in Node : Crossing(m, A, p, q)'
  BY Zenon DEF Front
<1>1. UNCHANGED <<seen, table>> /\ m \notin due
  BY Zenon DEF SendRouted, TypeOK
<1>2. Touched(m)' = {From[m]} /\ From[m] \in A
  BY <1>1, Zenon DEF Touched, Reached
<1>3. Dest[m] \in Within(From[m], MaxTTL + 1) /\ MaxTTL + 1 \in Nat
  BY <1>1, NumberTypes, SMTT(30) DEF SendRouted
<1>4. PICK p \in A, q \in Node \ A : <<p, q>> \in table
  BY <1>2, <1>3, WalkLeaves, Zenon
<1>5. ASSUME p = From[m] PROVE \E f \in frames' : f.id = m /\ f.to = q
  <2>1. q \in Neighbours(From[m])
    BY <1>2, <1>4, <1>5, Zenon DEF Neighbours
  <2>2. [id |-> m, from |-> From[m], to |-> q, ttl |-> MaxTTL] \in frames'
    BY <2>1, Zenon DEF SendRouted, FramesTo
  <2> QED
    BY <2>2, Zenon
<1>6. Crossing(m, A, p, q)'
  BY <1>1, <1>2, <1>4, <1>5, Zenon DEF Crossing
<1> QED
  BY <1>6, Zenon

(* A relay moves the front past the node that relays: it sends a copy over *)
(* every link but the one the message came by, which leads back.           *)
LEMMA RelayFront ==
    ASSUME TypeOK, NEW f \in frames, NEW again \in BOOLEAN, f.id \in Msg, TracedAt(f), Front(f.id),
           frames' = Left(f, again) \cup Relay(f), Insert(f), UNCHANGED <<table, due, losses>>
    PROVE  Front(f.id)'
<1> DEFINE m == f.id
<1> SUFFICES ASSUME losses' = 0, m \in due', NEW A \in SUBSET Node,
                    Touched(m)' \subseteq A, Dest[m] \notin A
             PROVE  \E p, q \in Node : Crossing(m, A, p, q)'
  BY Zenon DEF Front
<1>1. f \in Frame /\ f.to \in Node
  BY Zenon DEF TypeOK, Frame
<1>2. Touched(m)' = Touched(m) \cup {f.to}
  BY <1>1, Zenon DEF Touched, Reached, Insert, TypeOK
<1>3. PICK p, q \in Node : Crossing(m, A, p, q)
  BY <1>2, Zenon DEF Front
<1>4. p \in A /\ q \notin A /\ <<p, q>> \in table'
  BY <1>3, Zenon DEF Crossing
<1>5. f.to \in A /\ f.from \in A
  BY <1>2, Zenon DEF TracedAt
<1>6. ASSUME p \in Touched(m) PROVE \E g \in frames' : g.id = m /\ g.to = q
  <2>1. PICK g \in frames : g.id = m /\ g.to = q
    BY <1>3, <1>6, Zenon DEF Crossing
  <2>2. g # f
    BY <1>4, <1>5, <2>1, ZenonT(40)
  <2> QED
    BY <2>1, <2>2, Zenon DEF Left
<1>7. ASSUME p = f.to PROVE \E g \in frames' : g.id = m /\ g.to = q
  <2>1. q \in Neighbours(f.to) \ {f.from}
    BY <1>4, <1>5, <1>7, Zenon DEF Neighbours
  <2>2. [id |-> m, from |-> f.to, to |-> q, ttl |-> f.ttl - 1] \in Relay(f)
    BY <2>1, Zenon DEF Relay, FramesTo
  <2> QED
    BY <2>2, SMTT(30)
<1>8. p \in Touched(m)' => \E g \in frames' : g.id = m /\ g.to = q
  BY <1>2, <1>6, <1>7, Zenon
<1>9. Crossing(m, A, p, q)'
  BY <1>3, <1>4, <1>8, Zenon DEF Crossing
<1> QED
  BY <1>9, Zenon

(* What is said of a message and its copies stays true in a step that      *)
(* touches no cache and no handler, adds copies only of other ids, and     *)
(* takes copies away only at a loss or at a node that has the message.     *)
LEMMA MessageKept ==
    ASSUME NEW m \in Msg, Front(m), CachedAt(m), Reached(m)' = Reached(m), table \subseteq table',
           losses' = 0 => losses = 0, m \in due' => m \in due, m \in sent => m \in sent',
           m \in seen[Dest[m]]' => m \in seen[Dest[m]], handled'[m][Dest[m]] = handled[m][Dest[m]],
           losses' = 0 => \A f \in frames : f.id = m /\ f.to \notin Touched(m) => f \in frames'
    PROVE  Front(m)' /\ CachedAt(m)'
<1>1. Touched(m)' = Touched(m)
  BY Zenon DEF Touched
<1>2. Front(m)'
  BY <1>1, FrontKept, Zenon
<1>3. CachedAt(m)'
  BY Zenon DEF CachedAt
<1> QED
  BY <1>2, <1>3, Zenon

(* A copy is still traced when the caches have lost nothing.               *)
LEMMA TracedKept ==
    ASSUME SmallMesh, NEW f \in Frame, f.id \in Msg, TracedAt(f), sent \subseteq sent',
           Reached(f.id) \subseteq Reached(f.id)'
    PROVE  TracedAt(f)'
<1>1. PICK R, S : R = Reached(f.id) /\ S = Reached(f.id)'
  BY Zenon
<1>2. IsFiniteSet(Node) /\ R \in SUBSET S /\ S \in SUBSET Node
  BY <1>1, Zenon DEF SmallMesh, Reached
<1>3. IsFiniteSet(S) /\ IsFiniteSet(R)
  BY <1>2, FS_Subset, Zenon
<1>4. Cardinality(R) \in Nat /\ Cardinality(S) \in Nat /\ Cardinality(R) <= Cardinality(S)
  BY <1>2, <1>3, FS_Subset, FS_CardinalityType, SMTT(30)
<1>5. f.ttl \in Nat /\ MaxTTL \in Nat
  BY NumberTypes, SMTT(30) DEF Frame
<1>6. MaxTTL <= f.ttl + Cardinality(S)
  BY <1>1, <1>4, <1>5, SMTT(30) DEF TracedAt
<1>7. f.from \in Touched(f.id)' /\ f.id \in sent'
  BY Zenon DEF TracedAt, Touched
<1> QED
  BY <1>1, <1>6, <1>7, SMTT(30) DEF TracedAt

(* A new link or an announcement.                                          *)
LEMMA LinkCovers ==
    ASSUME SmallMesh, TypeOK, CInv, ~expired, NEW n \in Node, NEW p \in Node, Meet(n, p) \/ Announce(n, p)
    PROVE  CInv'
<1>1. UNCHANGED <<seen, sent, due, handled, losses>> /\ table \subseteq table' /\ frames \subseteq frames'
  BY Zenon DEF Meet, Announce
<1>2. \A f \in frames' : f.id \in Msg => f \in frames
  <2>1. CASE Meet(n, p)
    BY <2>1, ZenonT(40) DEF Meet
  <2>2. CASE Announce(n, p)
    <3>1. <<n, p>> \notin Msg
      BY IdsDiffer
    <3> QED
      BY <2>2, <3>1, SMTT(30) DEF Announce, FramesTo
  <2> QED
    BY <2>1, <2>2, Zenon
<1>3. \A m \in Msg : Reached(m)' = Reached(m)
  BY <1>1, Zenon DEF Reached
<1>4. ASSUME NEW m \in Msg PROVE Front(m)' /\ CachedAt(m)'
  <2>1. Front(m) /\ CachedAt(m)
    BY Zenon DEF CInv
  <2> QED
    BY <1>1, <1>3, <2>1, MessageKept, SMTT(30)
<1>5. Traced'
  <2> SUFFICES ASSUME NEW f \in frames', f.id \in Msg PROVE TracedAt(f)'
    BY Zenon DEF Traced
  <2>1. f \in frames /\ TracedAt(f)
    BY <1>2, Zenon DEF CInv, Traced
  <2> QED
    BY <1>1, <1>3, <2>1, SMTT(30) DEF TracedAt, Touched
<1> QED
  BY <1>4, <1>5, Zenon DEF CInv

(* A send.                                                                 *)
LEMMA SendCovers ==
    ASSUME SmallMesh, TypeOK, CInv, ~expired, NEW m \in Msg, SendRouted(m)
    PROVE  CInv'
<1>1. UNCHANGED <<table, seen, handled, losses>> /\ frames \subseteq frames' /\ sent' = sent \cup {m} /\ m \notin sent
  BY Zenon DEF SendRouted
<1>2. \A k \in Msg : Reached(k)' = Reached(k)
  BY <1>1, Zenon DEF Reached
<1>3. Reached(m) = {}
  BY <1>1, ZenonT(40) DEF CInv, CachedAt
<1>4. ASSUME NEW k \in Msg, k # m PROVE Front(k)' /\ CachedAt(k)'
  <2>1. Front(k) /\ CachedAt(k)
    BY Zenon DEF CInv
  <2>2. k \in due' => k \in due
    BY <1>4, Zenon DEF SendRouted
  <2> QED
    BY <1>1, <1>2, <2>1, <2>2, MessageKept, SMTT(30)
<1>5. Front(m)'
  BY <1>3, SendFront, Zenon
<1>6. CachedAt(m)'
  <2>1. CachedAt(m)
    BY Zenon DEF CInv
  <2> QED
    BY <1>1, <2>1, Zenon DEF CachedAt
<1>7. Traced'
  <2> SUFFICES ASSUME NEW f \in frames', f.id \in Msg PROVE TracedAt(f)'
    BY Zenon DEF Traced
  <2>1. CASE f \in frames
    <3>1. TracedAt(f)
      BY <2>1, Zenon DEF CInv, Traced
    <3> QED
      BY <1>1, <1>2, <3>1, ZenonT(40) DEF TracedAt, Touched
  <2>2. CASE f \notin frames
    <3>1. f.id = m /\ f.from = From[m] /\ f.ttl = MaxTTL
      BY <2>2 DEF SendRouted, FramesTo
    <3>2. Cardinality(Reached(m)') = 0
      BY <1>2, <1>3, FS_EmptySet, Zenon
    <3>3. MaxTTL <= MaxTTL + 0
      BY NumberTypes, SMTT(30)
    <3> QED
      BY <1>1, <3>1, <3>2, <3>3, SMTT(30) DEF TracedAt, Touched
  <2> QED
    BY <2>1, <2>2, Zenon
<1> QED
  BY <1>4, <1>5, <1>6, <1>7, SMTT(30) DEF CInv

(* A lost copy, or one that finds the message at its node: the front is    *)
(* not promised after a loss.                                              *)
LEMMA DropCovers ==
    ASSUME SmallMesh, TypeOK, CInv, ~expired, NEW f \in frames,
           UNCHANGED <<table, seen, sent, due, handled>>, frames' \subseteq frames,
           frames \ {f} \subseteq frames',
           losses' = 0 => losses = 0 /\ (f.id \in Msg => f.to \in Touched(f.id))
    PROVE  CInv'
<1>1. \A m \in Msg : Reached(m)' = Reached(m)
  BY Zenon DEF Reached
<1>2. ASSUME NEW m \in Msg PROVE Front(m)' /\ CachedAt(m)'
  <2>1. Front(m) /\ CachedAt(m)
    BY Zenon DEF CInv
  <2>2. losses' = 0 => \A g \in frames : g.id = m /\ g.to \notin Touched(m) => g \in frames'
    BY Zenon
  <2> QED
    BY <1>1, <2>1, <2>2, MessageKept, SMTT(30)
<1>3. Traced'
  <2> SUFFICES ASSUME NEW g \in frames', g.id \in Msg PROVE TracedAt(g)'
    BY Zenon DEF Traced
  <2>1. TracedAt(g)
    BY Zenon DEF CInv, Traced
  <2> QED
    BY <1>1, <2>1, Zenon DEF TracedAt, Touched
<1> QED
  BY <1>2, <1>3, Zenon DEF CInv

(* An id that enters a cache is new to the set of those who have it, and   *)
(* changes nothing for other ids.                                          *)
LEMMA InsertReaches ==
    ASSUME TypeOK, NEW f \in Frame, Insert(f)
    PROVE  /\ Reached(f.id)' = Reached(f.id) \cup {f.to}
           /\ \A m \in Msg \ {f.id} : Reached(m)' = Reached(m)
           /\ \A m \in Msg \ {f.id} : \A n \in Node : m \in seen'[n] <=> m \in seen[n]
<1>1. f.to \in Node
  BY Zenon DEF Frame
<1>2. \A n \in Node : seen'[n] = IF n = f.to THEN seen[n] \cup {f.id} ELSE seen[n]
  BY <1>1, Zenon DEF Insert, TypeOK
<1> QED
  BY <1>1, <1>2, Zenon DEF Reached

(* A copy that is new to its node: what is said of other messages, and of  *)
(* the copies there were before, stays true.                               *)
LEMMA InsertKeeps ==
    ASSUME SmallMesh, TypeOK, CInv, ~expired, NEW f \in frames, NEW again \in BOOLEAN, Insert(f),
           UNCHANGED <<table, sent, due, losses>>, Left(f, again) \subseteq frames',
           \A m \in Msg \ {f.id} : handled'[m][Dest[m]] = handled[m][Dest[m]]
    PROVE  /\ \A m \in Msg \ {f.id} : Front(m)' /\ CachedAt(m)'
           /\ \A g \in frames : g.id \in Msg => TracedAt(g)'
<1>1. f \in Frame
  BY Zenon DEF TypeOK
<1>2. /\ Reached(f.id)' = Reached(f.id) \cup {f.to}
      /\ \A m \in Msg \ {f.id} : Reached(m)' = Reached(m)
      /\ \A m \in Msg \ {f.id} : \A n \in Node : m \in seen'[n] <=> m \in seen[n]
  BY <1>1, InsertReaches, Zenon
<1>3. ASSUME NEW m \in Msg \ {f.id} PROVE Front(m)' /\ CachedAt(m)'
  <2>1. Front(m) /\ CachedAt(m) /\ Dest[m] \in Node
    BY MsgTypes, Zenon DEF CInv
  <2>2. \A g \in frames : g.id = m => g \in frames'
    BY Zenon DEF Left
  <2> QED
    BY <1>2, <2>1, <2>2, MessageKept, SMTT(30)
<1>4. ASSUME NEW g \in frames, g.id \in Msg PROVE TracedAt(g)'
  <2>1. TracedAt(g) /\ g \in Frame
    BY <1>4, Zenon DEF CInv, Traced, TypeOK
  <2>2. Reached(g.id) \subseteq Reached(g.id)'
    BY <1>2, <1>4, Zenon
  <2> QED
    BY <1>4, <2>1, <2>2, TracedKept, SMTT(30)
<1> QED
  BY <1>3, <1>4, Zenon

(* Delivery: the destination has the message, and no cut is left.          *)
LEMMA DeliverCovers ==
    ASSUME SmallMesh, TypeOK, CInv, ~expired, NEW f \in frames, NEW again \in BOOLEAN, Deliver(f, again)
    PROVE  CInv'
<1>1. /\ f \in Frame /\ f.id \in Msg /\ f.to \in Node /\ f.to = Dest[f.id]
      /\ UNCHANGED <<table, sent, due, losses>> /\ frames' = Left(f, again)
  BY Zenon DEF Deliver, TypeOK, Frame
<1>2. CASE IsDup(f)
  <2>1. UNCHANGED <<seen, handled>>
    BY <1>2, Zenon DEF Deliver
  <2>2. f.to \in Touched(f.id)
    BY <1>1, <1>2, Zenon DEF IsDup, Touched, Reached
  <2>3. frames' \subseteq frames /\ frames \ {f} \subseteq frames'
    BY <1>1, Zenon DEF Left
  <2> QED
    BY <1>1, <2>1, <2>2, <2>3, DropCovers, SMTT(30)
<1>3. CASE ~IsDup(f)
  <2>1. Insert(f) /\ Handle(f.id, f.to)
    BY <1>3, Zenon DEF Deliver
  <2>2. \A m \in Msg \ {f.id} : handled'[m][Dest[m]] = handled[m][Dest[m]]
    BY <1>1, <2>1, ZenonT(40) DEF Handle, TypeOK
  <2>3. /\ \A m \in Msg \ {f.id} : Front(m)' /\ CachedAt(m)'
        /\ \A g \in frames : g.id \in Msg => TracedAt(g)'
    BY <1>1, <2>1, <2>2, InsertKeeps, SMTT(30)
  <2>4. Dest[f.id] \in Touched(f.id)'
    BY <1>1, <2>1, InsertReaches, Zenon DEF Touched
  <2>5. Front(f.id)'
    BY <2>4, Zenon DEF Front
  <2>6. CachedAt(f.id)'
    <3>1. f.id \in sent'
      BY <1>1, ZenonT(40) DEF CInv, Traced, TracedAt
    <3>2. ASSUME f.id \notin Sealed PROVE handled'[f.id][Dest[f.id]] >= 1
      <4>1. handled'[f.id][f.to] = handled[f.id][f.to] + 1 /\ handled[f.id][f.to] \in Nat
        BY <1>1, <2>1, <3>2, SMTT(30) DEF Handle, TypeOK
      <4> QED
        BY <1>1, <4>1, SMTT(30)
    <3> QED
      BY <3>1, <3>2, Zenon DEF CachedAt
  <2>7. Traced'
    BY <1>1, <2>3, Zenon DEF Traced, Left
  <2> QED
    BY <2>3, <2>5, <2>6, <2>7, SMTT(30) DEF CInv
<1> QED
  BY <1>2, <1>3, Zenon

(* Elsewhere: a copy with no hops left is only dropped where another has   *)
(* been, or after the destination has the message.                         *)
LEMMA ForwardCovers ==
    ASSUME SmallMesh, TypeOK, CInv, ~expired, NEW f \in frames, NEW again \in BOOLEAN, Forward(f, again)
    PROVE  CInv'
<1>1. /\ f \in Frame /\ f.id \in Msg /\ f.to \in Node /\ f.to # Dest[f.id] /\ Dest[f.id] \in Node
      /\ UNCHANGED <<table, sent, due, losses, handled>> /\ TracedAt(f)
  BY MsgTypes, Zenon DEF Forward, TypeOK, Frame, CInv, Traced
<1>2. CASE IsDup(f)
  <2>1. frames' = Left(f, again) /\ UNCHANGED seen
    BY <1>2, Zenon DEF Forward
  <2>2. f.to \in Touched(f.id)
    BY <1>1, <1>2, ZenonT(40) DEF IsDup, Touched, Reached
  <2>3. frames' \subseteq frames /\ frames \ {f} \subseteq frames'
    BY <2>1, Zenon DEF Left
  <2> QED
    BY <1>1, <2>1, <2>2, <2>3, DropCovers, ZenonT(40)
<1>3. CASE ~IsDup(f) /\ f.ttl = 0
  <2>1. frames' = Left(f, again) /\ UNCHANGED seen
    BY <1>3, Zenon DEF Forward
  <2>2. f.to \notin Reached(f.id)
    BY <1>3, ZenonT(40) DEF IsDup, Reached
  <2>3. Dest[f.id] \in Reached(f.id)
    BY <1>1, <1>3, <2>2, HopsSuffice, SMTT(30)
  <2>4. \A m \in Msg : Reached(m)' = Reached(m)
    BY <2>1, Zenon DEF Reached
  <2>5. Dest[f.id] \in Touched(f.id)'
    BY <1>1, <2>3, <2>4, ZenonT(40) DEF Touched
  <2>6. Front(f.id)'
    BY <2>5, Zenon DEF Front
  <2>7. \A m \in Msg : CachedAt(m)'
    BY <1>1, <2>1, <2>4, ZenonT(40) DEF CInv, CachedAt
  <2>8. ASSUME NEW m \in Msg \ {f.id} PROVE Front(m)'
    <3>1. Front(m) /\ CachedAt(m)
      BY Zenon DEF CInv
    <3>2. \A g \in frames : g.id = m => g \in frames'
      BY <2>1, Zenon DEF Left
    <3> QED
      BY <1>1, <2>1, <2>4, <3>1, <3>2, MessageKept, ZenonT(40)
  <2>9. Traced'
    <3> SUFFICES ASSUME NEW g \in frames', g.id \in Msg PROVE TracedAt(g)'
      BY Zenon DEF Traced
    <3>1. TracedAt(g)
      BY <2>1, ZenonT(40) DEF CInv, Traced, Left
    <3> QED
      BY <1>1, <2>4, <3>1, ZenonT(40) DEF TracedAt, Touched
  <2> QED
    BY <2>6, <2>7, <2>8, <2>9, ZenonT(40) DEF CInv
<1>4. CASE ~IsDup(f) /\ f.ttl # 0
  <2>1. frames' = Left(f, again) \cup Relay(f) /\ Insert(f)
    BY <1>4, Zenon DEF Forward
  <2>2. /\ \A m \in Msg \ {f.id} : Front(m)' /\ CachedAt(m)'
        /\ \A g \in frames : g.id \in Msg => TracedAt(g)'
    BY <1>1, <2>1, InsertKeeps, ZenonT(40)
  <2>3. Front(f.id)'
    BY <1>1, <2>1, RelayFront, ZenonT(40) DEF CInv
  <2>4. Reached(f.id)' = Reached(f.id) \cup {f.to} /\ f.to \notin Reached(f.id)
    BY <1>1, <1>4, <2>1, InsertReaches, ZenonT(40) DEF IsDup, Reached
  <2>5. CachedAt(f.id)'
    <3>1. f.id \in sent' /\ CachedAt(f.id)
      BY <1>1, Zenon DEF TracedAt, CInv
    <3>2. Dest[f.id] \in Reached(f.id)' => Dest[f.id] \in Reached(f.id)
      BY <1>1, <2>4, ZenonT(40)
    <3>3. f.id \in seen[Dest[f.id]]' => f.id \in seen[Dest[f.id]]
      BY <1>1, <3>2, ZenonT(40) DEF Reached
    <3> QED
      BY <1>1, <3>1, <3>3, ZenonT(40) DEF CachedAt
  <2>6. Traced'
    <3> SUFFICES ASSUME NEW g \in frames', g.id \in Msg PROVE TracedAt(g)'
      BY Zenon DEF Traced
    <3>1. CASE g \in frames
      BY <2>2, <3>1, ZenonT(40)
    <3>2. CASE g \in Relay(f)
      <4>1. g.id = f.id /\ g.from = f.to /\ g.ttl = f.ttl - 1
        BY <3>2, SMTT(30) DEF Relay, FramesTo
      <4>2. g.from \in Touched(g.id)' /\ g.id \in sent'
        BY <1>1, <2>4, <4>1, ZenonT(40) DEF Touched, TracedAt
      <4>3. PICK R : R = Reached(f.id)
        BY Zenon
      <4>4. IsFiniteSet(R) /\ Cardinality(R) \in Nat
        BY <1>1, <4>3, ReachedSize, ZenonT(40)
      <4>5. Cardinality(R \cup {f.to}) = Cardinality(R) + 1
        BY <2>4, <4>3, <4>4, FS_AddElement, ZenonT(40)
      <4>6. MaxTTL <= f.ttl + Cardinality(R) /\ f.ttl \in Nat /\ MaxTTL \in Nat
        BY <1>1, <4>3, NumberTypes, SMTT(30) DEF TracedAt, Frame
      <4>7. Reached(g.id)' = R \cup {f.to}
        BY <2>4, <4>1, <4>3, ZenonT(40)
      <4>8. MaxTTL <= (f.ttl - 1) + (Cardinality(R) + 1)
        BY <4>4, <4>6, SMTT(30)
      <4> QED
        BY <4>1, <4>2, <4>5, <4>7, <4>8, SMTT(30) DEF TracedAt
    <3> QED
      BY <2>1, <3>1, <3>2, ZenonT(40) DEF Left
  <2> QED
    BY <2>2, <2>3, <2>5, <2>6, ZenonT(40) DEF CInv
<1> QED
  BY <1>2, <1>3, <1>4, ZenonT(40)

(* An announcement is nobody's message.                                    *)
LEMMA LearnKeyCovers ==
    ASSUME SmallMesh, TypeOK, CInv, ~expired, NEW f \in frames, NEW again \in BOOLEAN, LearnKey(f, again)
    PROVE  CInv'
<1>1. /\ f \in Frame /\ f.id \notin Msg
      /\ UNCHANGED <<table, sent, due, losses, handled>>
  BY IdsDiffer, Zenon DEF LearnKey, TypeOK, Announcement
<1>2. CASE IsDup(f)
  <2>1. frames' = Left(f, again) /\ UNCHANGED seen
    BY <1>2, Zenon DEF LearnKey
  <2>2. frames' \subseteq frames /\ frames \ {f} \subseteq frames'
    BY <2>1, Zenon DEF Left
  <2> QED
    BY <1>1, <2>1, <2>2, DropCovers, ZenonT(40)
<1>3. CASE ~IsDup(f)
  <2>1. frames' = Left(f, again) \cup (IF f.ttl = 0 THEN {} ELSE Relay(f)) /\ Insert(f)
    BY <1>3, Zenon DEF LearnKey
  <2>2. /\ \A m \in Msg \ {f.id} : Front(m)' /\ CachedAt(m)'
        /\ \A g \in frames : g.id \in Msg => TracedAt(g)'
    BY <1>1, <2>1, InsertKeeps, ZenonT(40)
  <2>3. \A g \in frames' : g.id \in Msg => g \in frames
    BY <1>1, <2>1, SMTT(30) DEF Left, Relay, FramesTo
  <2>4. Traced'
    BY <2>2, <2>3, Zenon DEF Traced
  <2> QED
    BY <1>1, <2>2, <2>4, SMTT(30) DEF CInv
<1> QED
  BY <1>2, <1>3, ZenonT(40)

(* Every step keeps the invariant.                                         *)
LEMMA StepCovers ==
    ASSUME SmallMesh, IInv, CInv, [Next]_vars
    PROVE  CInv'
<1>0. TypeOK
  BY Zenon DEF IInv
<1>1. CASE expired'
  BY <1>1, ZenonT(40) DEF CInv
<1>2. CASE ~expired' /\ UNCHANGED vars
  BY <1>2, SMTT(30) DEF CInv, Traced, TracedAt, Front, Crossing, CachedAt, Touched, Reached, vars
<1>3. CASE ~expired' /\ Next
  <2>1. \A n \in Node : \A id \in seen[n] : ~Expire(n, id)
    BY <1>3, SMTT(30) DEF Expire
  <2>2. ~expired
    BY <1>3, <2>1, ZenonT(40) DEF Next, Meet, Announce, SendRouted, Lose, Receive, Deliver, Forward, LearnKey
  <2>3. ASSUME NEW n \in Node, NEW p \in Node, Meet(n, p) \/ Announce(n, p) PROVE CInv'
    BY <1>0, <2>2, <2>3, LinkCovers, ZenonT(40)
  <2>4. ASSUME NEW m \in Msg, SendRouted(m) PROVE CInv'
    BY <1>0, <2>2, <2>4, SendCovers, SMTT(30)
  <2>5. ASSUME NEW f \in frames, Lose(f) PROVE CInv'
    <3>1. losses' # 0
      BY <1>0, <2>5, SMTT(30) DEF Lose, TypeOK
    <3>2. /\ UNCHANGED <<table, seen, sent, due, handled>>
          /\ frames' \subseteq frames /\ frames \ {f} \subseteq frames'
      BY <2>5, Zenon DEF Lose
    <3> QED
      BY <1>0, <2>2, <2>5, <3>1, <3>2, DropCovers, SMTT(30)
  <2>6. ASSUME NEW f \in frames, NEW again \in BOOLEAN, Receive(f, again) PROVE CInv'
    BY <1>0, <2>2, <2>6, DeliverCovers, ForwardCovers, LearnKeyCovers, SMTT(30) DEF Receive
  <2> QED
    BY <1>3, <2>1, <2>3, <2>4, <2>5, <2>6, ZenonT(40) DEF Next
<1> QED
  BY <1>1, <1>2, <1>3, SMTT(30)

(* When a flood is over, the set of those who have the message is left by  *)
(* no link: the destination is among them.                                 *)
LEMMA QuietIsCovered ==
    ASSUME SmallMesh, TypeOK, CInv, ~expired
    PROVE  Covered
<1> SUFFICES ASSUME Quiet, losses = 0, NEW m \in due \ Sealed
             PROVE  handled[m][Dest[m]] >= 1
  BY Zenon DEF Covered
<1>1. m \in Msg /\ From[m] # Dest[m] /\ From[m] \in Node /\ Dest[m] \in Node
  BY MsgTypes, Zenon DEF TypeOK, SmallMesh
<1>2. Front(m) /\ CachedAt(m)
  BY <1>1, Zenon DEF CInv
<1>3. Touched(m) \in SUBSET Node /\ ~ \E p, q \in Node : Crossing(m, Touched(m), p, q)
  BY <1>1, Zenon DEF Crossing, Quiet, Touched, Reached
<1>4. Dest[m] \in Touched(m)
  BY <1>2, <1>3, Zenon DEF Front
<1>5. m \in seen[Dest[m]]
  BY <1>1, <1>4, Zenon DEF Touched, Reached
<1> QED
  BY <1>2, <1>5, Zenon DEF CachedAt

(* "every reachable node receives the message exactly once, regardless of  *)
(* topology" (ADR 019), in every mesh of at most MAX_TTL + 1 nodes: while  *)
(* no frame is lost and no cache entry expires, a destination that could   *)
(* be reached at the time of the send has got the message once the flood   *)
(* is over, whatever links come up meanwhile and in whatever order copies  *)
(* with different hop counts arrive.                                       *)
THEOREM FloodCovers ==
    ASSUME SmallMesh
    PROVE  Spec => [](~expired => Covered)
<1>1. Init => CInv
  <2>1. Init => \A m \in Msg : Reached(m) = {} /\ m \notin due
    BY Zenon DEF Init, Reached
  <2>2. Init => frames = {} /\ \A m \in Msg : m \notin seen[Dest[m]]
    BY MsgTypes, SMTT(30) DEF Init
  <2> QED
    BY <2>1, <2>2, Zenon DEF CInv, Traced, Front, CachedAt
<1>2. IInv /\ CInv /\ [Next]_vars => CInv'
  BY StepCovers, Zenon
<1>3. IInv /\ CInv => (~expired => Covered)
  BY QuietIsCovered, Zenon DEF IInv
<1> QED
  BY <1>1, <1>2, <1>3, StepInv, InitInv, PTL DEF Spec
=============================================================================
