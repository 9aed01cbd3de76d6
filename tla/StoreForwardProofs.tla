--------------------------- MODULE StoreForwardProofs -------------------------
(***************************************************************************)
(* StoreForward loses and doubles nothing, and one drain alone keeps the   *)
(* order of a queue: Conservation and LoneDrainKeepsOrder, for any number  *)
(* of peers, drains, messages and events and any queue depth.              *)
(***************************************************************************)
EXTENDS StoreForward, SequenceTheorems, TLAPS

-----------------------------------------------------------------------------
(* Sequences over M kept at the places of a set P.  C and D are what the   *)
(* places hold before and after the head of place x was taken away,        *)
(* something new was appended at x, or all of x went to the front of y.    *)

Unique(P, C) ==
    \A x, y \in P : \A i \in DOMAIN C[x], j \in DOMAIN C[y] : C[x][i] = C[y][j] => x = y /\ i = j
Change(P, M, C, D) == C \in [P -> Seq(M)] /\ D \in [P -> Seq(M)] /\ Unique(P, C)
TakesHead(P, M, C, D, x) ==
    /\ Change(P, M, C, D)
    /\ x \in P /\ C[x] # <<>>
    /\ D[x] = Tail(C[x]) /\ \A y \in P \ {x} : D[y] = C[y]
AppendsNew(P, M, C, D, x, m) ==
    /\ Change(P, M, C, D)
    /\ x \in P /\ m \in M /\ \A y \in P : m \notin Range(C[y])
    /\ D[x] = Append(C[x], m) /\ \A y \in P \ {x} : D[y] = C[y]
Joins(P, M, C, D, x, y) ==
    /\ Change(P, M, C, D)
    /\ x \in P /\ y \in P /\ x # y
    /\ D[y] = C[x] \o C[y] /\ D[x] = <<>> /\ \A z \in P \ {x, y} : D[z] = C[z]

LEMMA TailFacts ==
    ASSUME NEW M, NEW s \in Seq(M), s # <<>>
    PROVE  /\ Tail(s) \in Seq(M) /\ Head(s) \in M /\ Len(s) \in Nat \ {0}
           /\ DOMAIN s = 1..Len(s) /\ DOMAIN Tail(s) = 1..(Len(s) - 1)
           /\ Head(s) = s[1]
           /\ \A i \in 1..(Len(s) - 1) : Tail(s)[i] = s[i + 1]
BY HeadTailProperties, LenProperties, EmptySeq

LEMMA AppendFacts ==
    ASSUME NEW M, NEW s \in Seq(M), NEW m \in M
    PROVE  /\ Append(s, m) \in Seq(M) /\ Len(s) \in Nat
           /\ DOMAIN s = 1..Len(s) /\ DOMAIN Append(s, m) = 1..(Len(s) + 1)
           /\ \A i \in 1..Len(s) : Append(s, m)[i] = s[i]
           /\ Append(s, m)[Len(s) + 1] = m
           /\ Range(Append(s, m)) = Range(s) \cup {m}
<1>1. /\ Append(s, m) \in Seq(M) /\ Len(s) \in Nat
      /\ DOMAIN s = 1..Len(s) /\ DOMAIN Append(s, m) = 1..(Len(s) + 1)
      /\ \A i \in 1..Len(s) : Append(s, m)[i] = s[i]
      /\ Append(s, m)[Len(s) + 1] = m
    OBVIOUS
<1> QED
    BY <1>1 DEF Range

LEMMA JoinFacts ==
    ASSUME NEW M, NEW s \in Seq(M), NEW t \in Seq(M)
    PROVE  /\ s \o t \in Seq(M) /\ Len(s) \in Nat /\ Len(t) \in Nat
           /\ DOMAIN s = 1..Len(s) /\ DOMAIN t = 1..Len(t)
           /\ DOMAIN (s \o t) = 1..(Len(s) + Len(t))
           /\ \A i \in 1..Len(s) : (s \o t)[i] = s[i]
           /\ \A i \in (Len(s) + 1)..(Len(s) + Len(t)) : (s \o t)[i] = t[i - Len(s)]
           /\ Range(s \o t) = Range(s) \cup Range(t)
<1>1. /\ s \o t \in Seq(M) /\ Len(s) \in Nat /\ Len(t) \in Nat
      /\ DOMAIN s = 1..Len(s) /\ DOMAIN t = 1..Len(t)
      /\ DOMAIN (s \o t) = 1..(Len(s) + Len(t))
      /\ \A i \in 1..Len(s) : (s \o t)[i] = s[i]
      /\ \A i \in (Len(s) + 1)..(Len(s) + Len(t)) : (s \o t)[i] = t[i - Len(s)]
    BY ConcatProperties, LenProperties
<1>2. ASSUME NEW a \in Range(s \o t) PROVE a \in Range(s) \cup Range(t)
    <2> PICK i \in DOMAIN (s \o t) : a = (s \o t)[i]
        BY Zenon DEF Range
    <2>1. CASE i \in 1..Len(s)
        BY <1>1, <2>1, Zenon DEF Range
    <2>2. CASE i \in (Len(s) + 1)..(Len(s) + Len(t))
        <3>1. i - Len(s) \in 1..Len(t)
            BY <1>1, <2>2
        <3> QED
            BY <1>1, <2>2, <3>1, Zenon DEF Range
    <2> QED
        BY <1>1, <2>1, <2>2
<1>3. ASSUME NEW a \in Range(s) PROVE a \in Range(s \o t)
    BY <1>1 DEF Range
<1>4. ASSUME NEW a \in Range(t) PROVE a \in Range(s \o t)
    <2> PICK i \in 1..Len(t) : a = t[i]
        BY <1>1, Zenon DEF Range
    <2>1. i + Len(s) \in (Len(s) + 1)..(Len(s) + Len(t)) /\ (i + Len(s)) - Len(s) = i
        BY <1>1
    <2>2. (s \o t)[i + Len(s)] = a /\ i + Len(s) \in DOMAIN (s \o t)
        BY <1>1, <2>1
    <2> QED
        BY <2>2, Zenon DEF Range
<1> QED
    BY <1>1, <1>2, <1>3, <1>4, Zenon

LEMMA UniqueShrinks ==
    ASSUME NEW P, NEW M, NEW C, NEW D, NEW x, TakesHead(P, M, C, D, x)
    PROVE  /\ Unique(P, D)
           /\ \A y \in P : Range(D[y]) = Range(C[y]) \ {Head(C[x])}
<1> USE DEF TakesHead, Change
<1>1. /\ Len(C[x]) \in Nat \ {0} /\ DOMAIN C[x] = 1..Len(C[x])
      /\ DOMAIN D[x] = 1..(Len(C[x]) - 1) /\ Head(C[x]) = C[x][1]
      /\ \A i \in 1..(Len(C[x]) - 1) : D[x][i] = C[x][i + 1] /\ i + 1 \in DOMAIN C[x]
    BY TailFacts
<1>2. ASSUME NEW y \in P, NEW z \in P, NEW i \in DOMAIN D[y], NEW j \in DOMAIN D[z], D[y][i] = D[z][j]
      PROVE  y = z /\ i = j
    <2> DEFINE i0 == IF y = x THEN i + 1 ELSE i
               j0 == IF z = x THEN j + 1 ELSE j
    <2>1. i0 \in DOMAIN C[y] /\ D[y][i] = C[y][i0]
        BY <1>1, Zenon
    <2>2. j0 \in DOMAIN C[z] /\ D[z][j] = C[z][j0]
        BY <1>1, Zenon
    <2>3. y = z /\ i0 = j0
        <3> HIDE DEF i0, j0
        <3>1. C[y][i0] = C[z][j0]
            BY <1>2, <2>1, <2>2, Zenon
        <3>2. \A i1 \in DOMAIN C[y], j1 \in DOMAIN C[z] : C[y][i1] = C[z][j1] => y = z /\ i1 = j1
            BY Zenon DEF Unique
        <3> QED
            BY <2>1, <2>2, <3>1, <3>2, Zenon
    <2> QED
        BY <1>1, <2>3
<1>3. ASSUME NEW y \in P PROVE Range(D[y]) = Range(C[y]) \ {Head(C[x])}
    <2>1. CASE y # x
        BY <1>1, <2>1 DEF Unique, Range
    <2>2. CASE y = x
        <3>1. ASSUME NEW a \in Range(D[x]) PROVE a \in Range(C[x]) \ {Head(C[x])}
            <4> PICK i \in 1..(Len(C[x]) - 1) : a = C[x][i + 1]
                BY <1>1 DEF Range
            <4> QED
                BY <1>1, SMTT(30) DEF Unique, Range
        <3>2. ASSUME NEW a \in Range(C[x]), a # Head(C[x]) PROVE a \in Range(D[x])
            <4> PICK i \in 1..Len(C[x]) : a = C[x][i] /\ i # 1
                BY <1>1, <3>2 DEF Range
            <4>1. i - 1 \in 1..(Len(C[x]) - 1) /\ (i - 1) + 1 = i
                BY <1>1
            <4>2. D[x][i - 1] = a
                BY <1>1, <4>1, Zenon
            <4> QED
                BY <1>1, <4>1, <4>2, Zenon DEF Range
        <3> QED
            BY <2>2, <3>1, <3>2, Zenon
    <2> QED
        BY <2>1, <2>2, Zenon
<1> QED
    BY <1>2, <1>3, Zenon DEF Unique

LEMMA UniqueGrows ==
    ASSUME NEW P, NEW M, NEW C, NEW D, NEW x, NEW m, AppendsNew(P, M, C, D, x, m)
    PROVE  /\ Unique(P, D)
           /\ Range(D[x]) = Range(C[x]) \cup {m}
<1> USE DEF AppendsNew, Change
<1>1. /\ Len(C[x]) \in Nat /\ DOMAIN C[x] = 1..Len(C[x])
      /\ DOMAIN D[x] = 1..(Len(C[x]) + 1) /\ D[x][Len(C[x]) + 1] = m
      /\ \A i \in 1..Len(C[x]) : D[x][i] = C[x][i]
      /\ Range(D[x]) = Range(C[x]) \cup {m}
    BY AppendFacts
<1>2. \A y \in P : \A i \in DOMAIN D[y] :
          \/ i \in DOMAIN C[y] /\ D[y][i] = C[y][i] /\ D[y][i] # m
          \/ y = x /\ i = Len(C[x]) + 1 /\ D[y][i] = m
    BY <1>1, SMTT(30) DEF Range
<1>3. ASSUME NEW y \in P, NEW z \in P, NEW i \in DOMAIN D[y], NEW j \in DOMAIN D[z], D[y][i] = D[z][j]
      PROVE  y = z /\ i = j
    BY <1>2, <1>3 DEF Unique
<1> QED
    BY <1>1, <1>3, Zenon DEF Unique

LEMMA UniqueJoins ==
    ASSUME NEW P, NEW M, NEW C, NEW D, NEW x, NEW y, Joins(P, M, C, D, x, y)
    PROVE  /\ Unique(P, D)
           /\ Range(D[y]) = Range(C[x]) \cup Range(C[y]) /\ Range(D[x]) = {}
<1> USE DEF Joins, Change
<1> DEFINE n == Len(C[x])
           W(z, i) == IF z = y /\ i <= n THEN x ELSE z
           I(z, i) == IF z = y /\ i > n THEN i - n ELSE i
<1>1. /\ n \in Nat /\ Len(C[y]) \in Nat /\ DOMAIN C[x] = 1..n /\ DOMAIN C[y] = 1..Len(C[y])
      /\ DOMAIN D[y] = 1..(n + Len(C[y])) /\ DOMAIN D[x] = {}
      /\ \A i \in 1..n : D[y][i] = C[x][i]
      /\ \A i \in (n + 1)..(n + Len(C[y])) : D[y][i] = C[y][i - n]
      /\ Range(D[y]) = Range(C[x]) \cup Range(C[y])
    BY JoinFacts
<1>2. ASSUME NEW z \in P, NEW i \in DOMAIN D[z]
      PROVE  z # x /\ W(z, i) \in P /\ I(z, i) \in DOMAIN C[W(z, i)] /\ D[z][i] = C[W(z, i)][I(z, i)]
    <2>1. CASE z = y
        BY <1>1, <2>1, SMTT(30)
    <2>2. CASE z # y
        BY <1>1, <2>2, Zenon
    <2> QED
        BY <2>1, <2>2, Zenon
<1>3. ASSUME NEW u \in P, NEW v \in P, NEW i \in DOMAIN D[u], NEW j \in DOMAIN D[v], D[u][i] = D[v][j]
      PROVE  u = v /\ i = j
    <2>1. W(u, i) = W(v, j) /\ I(u, i) = I(v, j) /\ u # x /\ v # x
        <3> HIDE DEF W, I
        <3> QED
            BY <1>2, <1>3, SMTT(30) DEF Unique
    <2>2. u = v
        BY <2>1, Zenon
    <2>3. CASE u = y
        BY <1>1, <2>1, <2>2, <2>3
    <2>4. CASE u # y
        BY <2>1, <2>2, <2>4, Zenon
    <2> QED
        BY <2>2, <2>3, <2>4, Zenon
<1>4. Unique(P, D)
    BY <1>3, Zenon DEF Unique
<1>5. Range(D[x]) = {}
    BY <1>1, Zenon DEF Range
<1> QED
    BY <1>1, <1>4, <1>5, Zenon

-----------------------------------------------------------------------------
(* The inductive invariant.  Conservation speaks about where messages are; *)
(* what keeps it is that a drain has messages in its hands only between    *)
(* taking a queue and requeueing its failures, and that a call which has   *)
(* not queued its message yet knows the queue it is for.                   *)

Contents == [x \in Place |-> Content(x)]

Placed ==
    \A x \in Place : \A m \in Range(Contents[x]) : stage[m] = "waiting" /\ home[m] = QueueOf(x)
Kept == \A m \in Msg : stage[m] = "waiting" => \E x \in Place : m \in Range(Contents[x])
Placement == Unique(Place, Contents) /\ Placed /\ Kept

Hands ==
    \A d \in Drainer :
        /\ todo[d] # <<>> \/ failures[d] # <<>> => task[d].phase = "send"
        /\ task[d].phase \in {"start", "send"} => task[d].at \in Queue
Calls ==
    \A m \in Msg : (m > accepted => stage[m] = "new") /\ (stage[m] # "new" => home[m] \in Queue)

IInv == TypeOK /\ Placement /\ Hands /\ Calls

(* Messages and setups.                                                    *)
LEMMA MsgFacts ==
    ASSUME setup \in Setups
    PROVE  /\ setup.msgs \in Nat /\ setup.appear \in Nat /\ setup.cap \in Nat \ {0}
           /\ setup.queues \subseteq Queue /\ setup.drainers \subseteq Drainer
           /\ 1..setup.msgs \subseteq Msg /\ Msg \subseteq Nat
BY SetupsType DEF Msg

LEMMA PlaceCases ==
    \A x \in Place : \/ \E q \in Queue : x = <<"pending", q>>
                     \/ \E d \in Drainer : x = <<"todo", d>>
                     \/ \E d \in Drainer : x = <<"failures", d>>
BY DEF Place

LEMMA ContentsAt ==
    /\ \A q \in Queue : <<"pending", q>> \in Place /\ Contents[<<"pending", q>>] = pending[q]
    /\ \A d \in Drainer : <<"todo", d>> \in Place /\ Contents[<<"todo", d>>] = todo[d]
    /\ \A d \in Drainer : <<"failures", d>> \in Place /\ Contents[<<"failures", d>>] = failures[d]
BY Zenon DEF Contents, Content, Place

LEMMA NextContentsAt ==
    /\ \A q \in Queue : Contents'[<<"pending", q>>] = pending'[q]
    /\ \A d \in Drainer : Contents'[<<"todo", d>>] = todo'[d]
    /\ \A d \in Drainer : Contents'[<<"failures", d>>] = failures'[d]
BY Zenon DEF Contents, Content, Place

(* Only the places in X change.                                            *)
LEMMA Elsewhere ==
    ASSUME NEW X,
           \A q \in Queue : <<"pending", q>> \in X \/ pending'[q] = pending[q],
           \A d \in Drainer : <<"todo", d>> \in X \/ todo'[d] = todo[d],
           \A d \in Drainer : <<"failures", d>> \in X \/ failures'[d] = failures[d]
    PROVE  \A z \in Place \ X : Contents'[z] = Contents[z]
<1> SUFFICES ASSUME NEW z \in Place \ X PROVE Contents'[z] = Contents[z]
    BY Zenon
<1>1. CASE \E q \in Queue : z = <<"pending", q>>
    <2>1. PICK q \in Queue : z = <<"pending", q>>
        BY <1>1, Zenon
    <2>2. Contents[z] = pending[q] /\ Contents'[z] = pending'[q]
        BY <2>1, ContentsAt, NextContentsAt, Zenon
    <2> QED
        BY <2>1, <2>2, Zenon
<1>2. CASE \E d \in Drainer : z = <<"todo", d>>
    <2>1. PICK d \in Drainer : z = <<"todo", d>>
        BY <1>2, Zenon
    <2>2. Contents[z] = todo[d] /\ Contents'[z] = todo'[d]
        BY <2>1, ContentsAt, NextContentsAt, Zenon
    <2> QED
        BY <2>1, <2>2, Zenon
<1>3. CASE \E d \in Drainer : z = <<"failures", d>>
    <2>1. PICK d \in Drainer : z = <<"failures", d>>
        BY <1>3, Zenon
    <2>2. Contents[z] = failures[d] /\ Contents'[z] = failures'[d]
        BY <2>1, ContentsAt, NextContentsAt, Zenon
    <2> QED
        BY <2>1, <2>2, Zenon
<1> QED
    BY <1>1, <1>2, <1>3, PlaceCases, Zenon

LEMMA QueueOfAt ==
    /\ \A q \in Queue : QueueOf(<<"pending", q>>) = q
    /\ \A d \in Drainer : QueueOf(<<"todo", d>>) = task[d].at /\ QueueOf(<<"failures", d>>) = task[d].at
BY Zenon DEF QueueOf

LEMMA ContentsType ==
    TypeOK => Contents \in [Place -> Seq(Msg)] /\ \A x \in Place : Range(Contents[x]) \subseteq Msg
<1> SUFFICES ASSUME TypeOK PROVE Contents \in [Place -> Seq(Msg)] /\ \A x \in Place : Range(Contents[x]) \subseteq Msg
    BY Zenon
<1>1. ASSUME NEW x \in Place PROVE Contents[x] \in Seq(Msg)
    BY PlaceCases, ContentsAt DEF TypeOK
<1>2. Contents \in [Place -> Seq(Msg)]
    BY <1>1, Zenon DEF Contents
<1> QED
    BY <1>1, <1>2 DEF Range

LEMMA NextContentsType == TypeOK' => Contents' \in [Place -> Seq(Msg)]
BY DEF Contents, Content, Place, TypeOK

LEMMA IInvIsConservation == IInv => Conservation
<1> SUFFICES ASSUME IInv PROVE Conservation
    BY Zenon
<1>1. \A x \in Place : Contents[x] = Content(x)
    BY Zenon DEF Contents
<1>2. \A x \in Place : \A i \in DOMAIN Content(x) : Content(x)[i] \in Range(Contents[x])
    BY <1>1, Zenon DEF Range
<1> QED
    BY <1>1, <1>2 DEF IInv, Placement, Unique, Placed, Kept, Conservation

LEMMA InitHolds == Init => IInv
<1> SUFFICES ASSUME Init PROVE IInv
    BY Zenon
<1>1. TypeOK
    BY MsgFacts, DrainerType DEF Init, TypeOK, Tasks, Phase, Rest, Stages
<1>2. \A x \in Place : Contents[x] = <<>>
    BY PlaceCases, ContentsAt DEF Init
<1>3. Placement
    BY <1>2 DEF Placement, Unique, Placed, Kept, Range, Init
<1> QED
    BY <1>1, <1>3, Zenon DEF IInv, Hands, Calls, Init, Rest

-----------------------------------------------------------------------------
(* The types.                                                              *)

LEMMA EmitType ==
    ASSUME TypeOK, NEW e \in Peer \cup {"other"}, Emit(e)
    PROVE  events' \in Seq(Peer \cup {"other"}) /\ Len(events') <= setup.cap
<1>1. setup.cap \in Nat \ {0} /\ events \in Seq(Peer \cup {"other"}) /\ Len(events) <= setup.cap
    BY MsgFacts, Zenon DEF TypeOK
<1>2. CASE Len(events) < setup.cap
    BY <1>1, <1>2 DEF Emit
<1>3. CASE ~(Len(events) < setup.cap)
    <2>1. events # <<>> /\ Len(events) \in Nat
        BY <1>1, <1>3
    <2>2. Tail(events) \in Seq(Peer \cup {"other"}) /\ Len(Tail(events)) = Len(events) - 1
        BY <1>1, <2>1
    <2> QED
        BY <1>1, <1>3, <2>1, <2>2 DEF Emit
<1> QED
    BY <1>2, <1>3, Zenon

LEMMA CallTypes ==
    ASSUME IInv
    PROVE  /\ \A q \in setup.queues : StoreCall(q) => TypeOK'
           /\ CallStep => TypeOK'
<1> USE MsgFacts DEF IInv
<1>1. ASSUME NEW q \in setup.queues, StoreCall(q) PROVE TypeOK'
    <2>0. setup \in Setups /\ setup.msgs \in Nat /\ accepted \in 0..setup.msgs /\ accepted < setup.msgs
        BY <1>1, Zenon DEF StoreCall, TypeOK
    <2>1. accepted + 1 \in 1..setup.msgs /\ accepted + 1 \in 0..setup.msgs
        BY <2>0
    <2>2. accepted + 1 \in Msg /\ q \in Queue
        BY <2>0, <2>1, Zenon
    <2>3. horizon \in 0..accepted
        BY Zenon DEF TypeOK
    <2>4. horizon \in 0..(accepted + 1)
        BY <2>0, <2>3, SMTT(30)
    <2> QED
        BY <1>1, <2>1, <2>2, <2>4, SMTT(30) DEF StoreCall, TypeOK, drainVars, Stages
<1>2. ASSUME NEW m \in Msg, CallSendOk(m) PROVE TypeOK'
    BY <1>2, EmitType, Zenon DEF CallSendOk, TypeOK, drainVars, callVars, Stages
<1>3. ASSUME NEW m \in Msg, CallSendErr(m) PROVE TypeOK'
    BY <1>3, Zenon DEF CallSendErr, TypeOK, drainVars, callVars, Stages
<1>4. ASSUME NEW m \in Msg, Enqueue(m) PROVE TypeOK'
    <2>1. home[m] \in Queue
        BY <1>4, Zenon DEF Enqueue, Calls
    <2> QED
        BY <1>4, <2>1, SMTT(30) DEF Enqueue, TypeOK, drainVars, callVars, Stages
<1>5. ASSUME NEW m \in Msg, Reject(m) PROVE TypeOK'
    BY <1>5, EmitType, SMTT(30) DEF Reject, TypeOK, drainVars, callVars, Stages
<1> QED
    BY <1>1, <1>2, <1>3, <1>4, <1>5, Zenon DEF CallStep

LEMMA OtherTypes ==
    ASSUME IInv
    PROVE  /\ \A p \in Peer : Discover(p) => TypeOK'
           /\ OnEvent \/ Age => TypeOK'
           /\ \A d \in setup.drainers, p \in Peer : AddPeer(d, p) \/ Connect(d, p) => TypeOK'
<1> USE MsgFacts, DrainerType DEF IInv
<1>1. ASSUME NEW p \in Peer, Discover(p) PROVE TypeOK'
    BY <1>1, EmitType, SMTT(30) DEF Discover, TypeOK, drainVars, callVars
<1>2. ASSUME NEW d \in Drainer, NEW p \in Peer, NEW by \in {"event", "add_peer", "connect"}, BeginDrain(d, p, by)
      PROVE  task' \in [Drainer -> Tasks]
    BY <1>2, Zenon DEF BeginDrain, TypeOK, Tasks, Rest, Queue, Phase
<1>3. ASSUME OnEvent PROVE TypeOK'
    <2>1. /\ Head(events) \in Peer \cup {"other"} /\ Tail(events) \in Seq(Peer \cup {"other"})
          /\ Len(Tail(events)) <= setup.cap
        BY <1>3 DEF OnEvent, TypeOK
    <2>2. task' \in [Drainer -> Tasks]
        BY <1>2, <1>3, <2>1, Zenon DEF OnEvent, TypeOK
    <2> QED
        BY <1>3, <2>1, <2>2, Zenon DEF OnEvent, TypeOK, callVars
<1>4. ASSUME Age PROVE TypeOK'
    BY <1>4, SMTT(30) DEF Age, TypeOK, drainVars, callVars
<1>5. ASSUME NEW d \in setup.drainers, NEW p \in Peer, AddPeer(d, p) \/ Connect(d, p) PROVE TypeOK'
    <2> PICK by \in {"add_peer", "connect"} : ApiDrain(d, p, by)
        BY <1>5, Zenon DEF AddPeer, Connect
    <2>1. d \in Drainer
        BY Zenon DEF TypeOK
    <2>2. task' \in [Drainer -> Tasks]
        BY <1>2, <2>1 DEF ApiDrain
    <2> QED
        BY <2>2, Zenon DEF ApiDrain, TypeOK, callVars
<1> QED
    BY <1>1, <1>3, <1>4, <1>5

LEMMA TakeType ==
    ASSUME IInv, NEW d \in Drainer, NEW q \in Queue, NEW left \in SUBSET Queue, Take(d, q, left)
    PROVE  /\ pending' \in [Queue -> Seq(Msg)] /\ todo' \in [Drainer -> Seq(Msg)]
           /\ task' \in [Drainer -> Tasks]
<1>1. task[d] \in Tasks /\ horizon \in Nat
    BY MsgFacts DEF IInv, TypeOK
<1>2. task'[d] = [task[d] EXCEPT !.phase = "send", !.at = q, !.left = left, !.now = horizon]
    BY Zenon DEF Take, IInv, TypeOK, Tasks
<1>3. task'[d] \in Tasks /\ \A c \in Drainer \ {d} : task'[c] = task[c]
    BY <1>1, <1>2, Zenon DEF Take, IInv, TypeOK, Tasks, Phase
<1>4. task' \in [Drainer -> Tasks]
    BY <1>3, Zenon DEF Take, IInv, TypeOK
<1> QED
    BY <1>4 DEF Take, IInv, TypeOK

LEMMA PhaseType ==
    ASSUME TypeOK, NEW d \in Drainer, NEW p \in Phase, task' = [task EXCEPT ![d].phase = p]
    PROVE  task' \in [Drainer -> Tasks]
<1>1. task'[d] = [task[d] EXCEPT !.phase = p] /\ task[d] \in Tasks
    BY Zenon DEF TypeOK
<1>2. task'[d] \in Tasks
    BY <1>1 DEF Tasks
<1> QED
    BY <1>2, Zenon DEF TypeOK

LEMMA DrainTypes ==
    ASSUME IInv, NEW d \in Drainer, DrainStep(d)
    PROVE  TypeOK'
<1> USE MsgFacts DEF IInv
<1>1. CASE TakeDirect(d)
    <2>1. task[d].at \in Queue
        BY <1>1, Zenon DEF TakeDirect, Hands
    <2>2. /\ pending' \in [Queue -> Seq(Msg)] /\ todo' \in [Drainer -> Seq(Msg)]
          /\ task' \in [Drainer -> Tasks]
        BY <1>1, <2>1, TakeType, {} \in SUBSET Queue, Zenon DEF TakeDirect
    <2> QED
        BY <1>1, <2>2, Zenon DEF TakeDirect, TypeOK, callVars
<1>2. CASE TakeRouted(d)
    <2> PICK q \in task[d].left : Take(d, q, task[d].left \ {q})
        BY <1>2, Zenon DEF TakeRouted
    <2>1. q \in Queue /\ task[d].left \ {q} \in SUBSET Queue
        BY Zenon DEF TypeOK, Tasks
    <2> QED
        BY <1>2, <2>1, TakeType, Zenon DEF TakeRouted, TypeOK, callVars
<1>3. CASE Expire(d) \/ SendOk(d) \/ SendErr(d)
    <2>1. Head(todo[d]) \in Msg /\ Tail(todo[d]) \in Seq(Msg)
        BY <1>3, TailFacts, Zenon DEF Expire, SendOk, SendErr, TypeOK
    <2>2. todo' \in [Drainer -> Seq(Msg)]
        BY <1>3, <2>1, Zenon DEF Expire, SendOk, SendErr, TypeOK
    <2>3. CASE Expire(d)
        BY <2>1, <2>2, <2>3, EmitType, Zenon DEF Expire, TypeOK, callVars, Stages
    <2>4. CASE SendOk(d)
        BY <2>1, <2>2, <2>4, EmitType, Zenon DEF SendOk, TypeOK, callVars, Stages
    <2>5. CASE SendErr(d)
        <3>1. failures' \in [Drainer -> Seq(Msg)]
            BY <2>1, <2>5 DEF SendErr, TypeOK
        <3> QED
            BY <2>1, <2>2, <2>5, <3>1, Zenon DEF SendErr, TypeOK, callVars
    <2> QED
        BY <1>3, <2>3, <2>4, <2>5, Zenon
<1>4. CASE Requeue(d)
    <2>1. task[d].at \in Queue
        BY <1>4, Zenon DEF Requeue, Hands
    <2>2. failures[d] \o pending[task[d].at] \in Seq(Msg)
        BY <2>1, JoinFacts DEF TypeOK
    <2>3. pending' \in [Queue -> Seq(Msg)] /\ failures' \in [Drainer -> Seq(Msg)]
        BY <1>4, <2>1, <2>2, Zenon DEF Requeue, TypeOK
    <2>4. task' \in [Drainer -> Tasks]
        BY <1>4, PhaseType, Zenon DEF Requeue, Phase
    <2> QED
        BY <1>4, <2>3, <2>4, Zenon DEF Requeue, TypeOK, callVars
<1>5. CASE ListRouted(d)
    <2> DEFINE all == {q \in Queue : q[1] = "routed" /\ pending[q] # <<>>}
    <2>1. all \in SUBSET Queue
        BY Zenon
    <2>2. task'[d] = [task[d] EXCEPT !.phase = "visit", !.left = all]
        BY <1>5, Zenon DEF ListRouted, TypeOK, Tasks
    <2>3. task[d] \in Tasks
        BY DEF TypeOK
    <2>4. task'[d] \in Tasks
        <3> HIDE DEF all
        <3> QED BY <2>1, <2>2, <2>3, Zenon DEF Tasks, Phase
    <2>5. task' \in [Drainer -> Tasks]
        BY <1>5, <2>4, SMTT(30) DEF ListRouted, TypeOK
    <2> QED
        BY <1>5, <2>5, Zenon DEF ListRouted, TypeOK, callVars
<1>6. CASE EndDrain(d)
    <2>1. task' \in [Drainer -> Tasks]
        BY <1>6, Zenon DEF EndDrain, TypeOK, Tasks, Phase, Rest
    <2> QED
        BY <1>6, <2>1, SMTT(30) DEF EndDrain, TypeOK, callVars
<1> QED
    BY <1>1, <1>2, <1>3, <1>4, <1>5, <1>6, Zenon DEF DrainStep, OwnStep, SendStep

LEMMA TypeStep == IInv /\ [Next]_vars => TypeOK'
<1>1. IInv /\ UNCHANGED vars => TypeOK'
    BY Zenon DEF IInv, TypeOK, vars
<1> QED
    BY <1>1, CallTypes, OtherTypes, DrainTypes DEF Next

-----------------------------------------------------------------------------
(* Hands and calls.                                                        *)

LEMMA HandsStep == IInv /\ [Next]_vars => Hands'
<1> SUFFICES ASSUME IInv, [Next]_vars PROVE Hands'
    BY Zenon
<1> USE DEF IInv, Hands
<1>1. CASE UNCHANGED drainVars
    BY <1>1, Zenon DEF drainVars
<1>2. CASE \E d \in Drainer, p \in Peer, by \in {"event", "add_peer", "connect"} :
             BeginDrain(d, p, by) /\ UNCHANGED <<todo, failures>>
    BY <1>2 DEF BeginDrain, TypeOK, Rest, Queue
<1>3. ASSUME NEW d \in Drainer, DrainStep(d) PROVE Hands'
    <2> SUFFICES ASSUME NEW c \in Drainer
                 PROVE  /\ todo'[c] # <<>> \/ failures'[c] # <<>> => task'[c].phase = "send"
                        /\ task'[c].phase \in {"start", "send"} => task'[c].at \in Queue
        BY Zenon
    <2>1. CASE c # d
        BY <1>3, <2>1, Zenon DEF DrainStep, OwnStep, SendStep, TakeDirect, TakeRouted, Take, Expire, SendOk, SendErr, Requeue,
                          ListRouted, EndDrain, TypeOK
    <2>2. CASE c = d
        <3>1. CASE TakeDirect(d)
            BY <2>2, <3>1 DEF TakeDirect, Take, TypeOK, Tasks
        <3>2. CASE TakeRouted(d)
            <4> PICK q \in task[d].left : Take(d, q, task[d].left \ {q})
                BY <3>2, Zenon DEF TakeRouted
            <4>1. q \in Queue
                BY Zenon DEF TypeOK, Tasks
            <4> QED
                BY <2>2, <4>1 DEF Take, TypeOK, Tasks
        <3>3. CASE Expire(d) \/ SendOk(d) \/ SendErr(d)
            BY <2>2, <3>3, SMTT(30) DEF Expire, SendOk, SendErr, TypeOK
        <3>4. CASE Requeue(d)
            BY <2>2, <3>4 DEF Requeue, TypeOK, Tasks
        <3>5. CASE ListRouted(d)
            BY <2>2, <3>5 DEF ListRouted, TypeOK, Tasks
        <3>6. CASE EndDrain(d)
            BY <2>2, <3>6, Zenon DEF EndDrain, TypeOK, Rest
        <3> QED
            BY <1>3, <3>1, <3>2, <3>3, <3>4, <3>5, <3>6, Zenon DEF DrainStep, OwnStep, SendStep
    <2> QED
        BY <2>1, <2>2, Zenon
<1>4. CASE OnEvent
    <2>1. Head(events) \in Peer \cup {"other"}
        BY <1>4 DEF OnEvent, TypeOK
    <2> QED
        BY <1>1, <1>2, <1>4, <2>1, DrainerType, SMTT(30) DEF OnEvent, drainVars
<1>5. CASE \E d \in setup.drainers, p \in Peer : AddPeer(d, p) \/ Connect(d, p)
    BY <1>2, <1>5, MsgFacts, SMTT(30) DEF AddPeer, Connect, ApiDrain, TypeOK
<1>6. CASE UNCHANGED vars \/ (\E q \in setup.queues : StoreCall(q)) \/ CallStep \/ Age \/ (\E p \in Peer : Discover(p))
    BY <1>1, <1>6 DEF vars, drainVars, StoreCall, CallStep, CallSendOk, CallSendErr, Enqueue, Reject, Age, Discover
<1> QED
    BY <1>3, <1>4, <1>5, <1>6 DEF Next

LEMMA CallsStep == IInv /\ [Next]_vars => Calls'
<1> SUFFICES ASSUME IInv, [Next]_vars PROVE Calls'
    BY Zenon
<1> USE DEF IInv, Calls
<1>1. CASE UNCHANGED <<stage, home, accepted>>
    BY <1>1, Zenon
<1>2. ASSUME NEW m \in Msg, NEW v \in Stages, stage[m] # "new", stage' = [stage EXCEPT ![m] = v], UNCHANGED callVars
      PROVE  Calls'
    BY <1>2, Zenon DEF callVars, TypeOK
<1>3. ASSUME NEW q \in setup.queues, StoreCall(q) PROVE Calls'
    <2>1. accepted \in Nat /\ q \in Queue /\ Msg \subseteq Nat
        BY MsgFacts DEF TypeOK
    <2>2. \A m \in Msg \ {accepted + 1} : stage'[m] = stage[m] /\ home'[m] = home[m]
        BY <1>3, Zenon DEF StoreCall, TypeOK
    <2>3. accepted + 1 \in Msg => home'[accepted + 1] = q
        BY <1>3 DEF StoreCall, TypeOK
    <2>4. accepted' = accepted + 1
        BY <1>3, Zenon DEF StoreCall
    <2> QED
        BY <2>1, <2>2, <2>3, <2>4
<1>4. CASE CallStep
    BY <1>2, <1>4, Zenon DEF CallStep, CallSendOk, CallSendErr, Enqueue, Reject, Stages
<1>5. ASSUME NEW d \in Drainer, Expire(d) \/ SendOk(d) PROVE Calls'
    <2>1. Head(todo[d]) \in Msg /\ stage[Head(todo[d])] = "waiting"
        <3>1. todo[d] \in Seq(Msg) /\ todo[d] # <<>>
            BY <1>5, Zenon DEF Expire, SendOk, TypeOK
        <3>2. Head(todo[d]) \in Range(todo[d]) /\ Head(todo[d]) \in Msg
            BY <3>1, TailFacts DEF Range
        <3> QED
            BY <3>2, ContentsAt, ZenonT(40) DEF Placement, Placed
    <2> QED
        BY <1>2, <1>5, <2>1 DEF Expire, SendOk, Stages
<1>6. ASSUME NEW d \in Drainer, DrainStep(d) PROVE Calls'
    BY <1>1, <1>5, <1>6, Zenon DEF DrainStep, OwnStep, SendStep, TakeDirect, TakeRouted, SendErr, Requeue, ListRouted, EndDrain, callVars
<1> QED
    BY <1>1, <1>3, <1>4, <1>6 DEF Next, Discover, OnEvent, AddPeer, Connect, ApiDrain, Age, callVars, vars

-----------------------------------------------------------------------------
(* Where the messages are.                                                 *)

(* Nothing moves.                                                          *)
LEMMA Unmoved ==
    ASSUME IInv, UNCHANGED <<pending, todo, failures>>,
           \A m \in Msg : (stage[m] = "waiting") <=> (stage'[m] = "waiting"),
           \A m \in Msg : stage[m] = "waiting" => home'[m] = home[m],
           \A d \in Drainer : task[d].phase = "send" => task'[d].at = task[d].at
    PROVE  Placement'
<1>1. Contents' = Contents
    BY Zenon DEF Contents, Content
<1>2. ASSUME NEW x \in Place, NEW m \in Range(Contents[x]) PROVE QueueOf(x)' = QueueOf(x)
    <2>1. \A d \in Drainer : task[d].phase = "send" \/ (Contents[<<"todo", d>>] = <<>> /\ Contents[<<"failures", d>>] = <<>>)
        BY ContentsAt, Zenon DEF IInv, Hands
    <2>2. Contents[x] # <<>>
        BY DEF Range
    <2>3. CASE \E q \in Queue : x = <<"pending", q>>
        BY <2>3 DEF QueueOf
    <2>4. CASE \E d \in Drainer : x = <<"todo", d>> \/ x = <<"failures", d>>
        <3> PICK d \in Drainer : x = <<"todo", d>> \/ x = <<"failures", d>>
            BY <2>4, Zenon
        <3>1. task'[d].at = task[d].at
            BY <2>1, <2>2, Zenon
        <3> QED
            BY <3>1 DEF QueueOf
    <2> QED
        BY <2>3, <2>4, PlaceCases
<1>3. \A x \in Place : Range(Contents[x]) \subseteq Msg
    BY ContentsType, Zenon DEF IInv
<1>4. Placed'
    BY <1>1, <1>2, <1>3 DEF Placed, IInv, Placement
<1>5. Kept'
    BY <1>1, Zenon DEF Kept, IInv, Placement
<1>6. Unique(Place, Contents')
    BY <1>1, Zenon DEF IInv, Placement
<1> QED
    BY <1>4, <1>5, <1>6, Zenon DEF Placement, Unique

LEMMA CallMoves == IInv /\ CallStep /\ TypeOK' => Placement'
<1> SUFFICES ASSUME IInv, TypeOK', CallStep PROVE Placement'
    BY Zenon
<1>1. ASSUME NEW m \in Msg, CallSendOk(m) \/ CallSendErr(m) \/ Reject(m) PROVE Placement'
    BY <1>1, Unmoved DEF CallSendOk, CallSendErr, Reject, drainVars, callVars, IInv, TypeOK
<1>2. ASSUME NEW m \in Msg, Enqueue(m) PROVE Placement'
    <2> DEFINE q == home[m]
               x == <<"pending", q>>
               C == Contents
               D == Contents'
    <2>1. q \in Queue /\ x \in Place
        BY <1>2, ContentsAt, Zenon DEF Enqueue, IInv, Calls
    <2>2. C \in [Place -> Seq(Msg)] /\ D \in [Place -> Seq(Msg)]
        BY ContentsType, NextContentsType, Zenon DEF IInv
    <2>3. \A y \in Place : m \notin Range(C[y])
        BY <1>2, Zenon DEF Enqueue, IInv, Placement, Placed
    <2>4. D[x] = Append(C[x], m) /\ \A y \in Place \ {x} : D[y] = C[y]
        <3>1. pending'[q] = Append(pending[q], m) /\ \A r \in Queue \ {q} : pending'[r] = pending[r]
            BY <1>2, <2>1 DEF Enqueue, IInv, TypeOK
        <3>2. todo' = todo /\ failures' = failures
            BY <1>2, Zenon DEF Enqueue, drainVars
        <3>3. D[x] = Append(C[x], m)
            BY <2>1, <3>1, ContentsAt, NextContentsAt, Zenon
        <3>4. \A y \in Place \ {x} : D[y] = C[y]
            <4>1. \A r \in Queue : <<"pending", r>> \in {x} \/ pending'[r] = pending[r]
                BY <3>1, Zenon
            <4> HIDE DEF x
            <4> QED
                BY <3>2, <4>1, Elsewhere, Zenon
        <3> QED
            BY <3>3, <3>4, ZenonT(40)
    <2>5. Unique(Place, C)
        BY Zenon DEF IInv, Placement
    <2>6. Unique(Place, D) /\ Range(D[x]) = Range(C[x]) \cup {m}
        <3>1. AppendsNew(Place, Msg, C, D, x, m)
            <4> HIDE DEF C, D, x
            <4> QED BY <2>1, <2>2, <2>3, <2>4, <2>5, Zenon DEF AppendsNew, Change
        <3> HIDE DEF C, D, x
        <3> QED BY <3>1, UniqueGrows
    <2>7. /\ stage'[m] = "waiting" /\ \A k \in Msg \ {m} : stage'[k] = stage[k]
          /\ home' = home /\ task' = task
        BY <1>2 DEF Enqueue, callVars, drainVars, IInv, TypeOK
    <2>8. \A y \in Place : QueueOf(y)' = QueueOf(y)
        BY <2>7 DEF QueueOf
    <2>9. QueueOf(x) = q
        BY Zenon DEF QueueOf
    <2>10. Placed'
        <3>1. \A y \in Place : \A k \in Range(C[y]) : k \in Msg /\ k # m /\ stage[k] = "waiting" /\ home[k] = QueueOf(y)
            BY <2>3, ContentsType DEF IInv, Placement, Placed
        <3> SUFFICES ASSUME NEW y \in Place, NEW k \in Range(D[y])
                     PROVE  stage'[k] = "waiting" /\ home'[k] = QueueOf(y)'
            BY Zenon DEF Placed
        <3>2. k \in Range(C[y]) \/ (k = m /\ y = x)
            <4> HIDE DEF C, D, x
            <4> QED BY <2>4, <2>6, Zenon
        <3> QED
            BY <2>7, <2>8, <2>9, <3>1, <3>2
    <2>11. Kept'
        <3>1. \A y \in Place : Range(C[y]) \subseteq Range(D[y])
            <4> HIDE DEF C, D, x
            <4> QED BY <2>4, <2>6, Zenon
        <3>2. m \in Range(D[x])
            <4> HIDE DEF C, D, x
            <4> QED BY <2>6, Zenon
        <3>3. \A k \in Msg : stage'[k] = "waiting" => \E y \in Place : k \in Range(D[y])
            BY <2>1, <2>7, <3>1, <3>2, Zenon DEF IInv, Placement, Kept
        <3> QED
            BY <3>3 DEF Kept
    <2> QED
        BY <2>6, <2>10, <2>11, Zenon DEF Placement, Unique
<1> QED
    BY <1>1, <1>2, Zenon DEF CallStep

(* A whole place is moved: a queue into the hands of a drain, or the       *)
(* failures of a drain to the front of their queue.                        *)
LEMMA Joined ==
    ASSUME IInv, NEW x, NEW y, Joins(Place, Msg, Contents, Contents', x, y),
           stage' = stage, home' = home,
           \A z \in Place \ {x} : Contents[z] # <<>> => QueueOf(z)' = QueueOf(z),
           Contents[x] # <<>> => QueueOf(y)' = QueueOf(x)
    PROVE  Placement'
<1> DEFINE C == Contents
           D == Contents'
<1>1. /\ x \in Place /\ y \in Place /\ x # y /\ \A z \in Place \ {x, y} : D[z] = C[z]
    BY Zenon DEF Joins
<1>2. /\ Unique(Place, D)
      /\ Range(D[y]) = Range(C[x]) \cup Range(C[y]) /\ Range(D[x]) = {}
    BY UniqueJoins, Zenon
<1>3. \A z \in Place : Range(C[z]) # {} => C[z] # <<>>
    BY DEF Range
<1>4. Placed'
    <2> SUFFICES ASSUME NEW z \in Place, NEW k \in Range(D[z])
                 PROVE  stage[k] = "waiting" /\ home[k] = QueueOf(z)'
        BY Zenon DEF Placed
    <2>1. \/ z # x /\ k \in Range(C[z])
          \/ z = y /\ k \in Range(C[x])
        <3> HIDE DEF C, D
        <3> QED BY <1>1, <1>2, Zenon
    <2>2. \A w \in Place : k \in Range(C[w]) => stage[k] = "waiting" /\ home[k] = QueueOf(w) /\ C[w] # <<>>
        BY <1>3, Zenon DEF IInv, Placement, Placed
    <2> QED
        BY <1>1, <2>1, <2>2, Zenon
<1>5. Kept'
    <2>1. ASSUME NEW k \in Msg, NEW z \in Place, k \in Range(C[z]) PROVE \E w \in Place : k \in Range(D[w])
        <3> HIDE DEF C, D
        <3>1. k \in Range(D[z]) \/ k \in Range(D[y])
            BY <1>1, <1>2, <2>1, Zenon
        <3> QED BY <1>1, <3>1, Zenon
    <2> QED
        BY <2>1, Zenon DEF IInv, Placement, Kept
<1> QED
    BY <1>2, <1>4, <1>5, Zenon DEF Placement

LEMMA TakeMoves ==
    ASSUME IInv, TypeOK', NEW d \in Drainer, NEW q \in Queue, NEW left, Take(d, q, left),
           task[d].phase # "send", UNCHANGED <<failures, stage, home>>
    PROVE  Placement'
<1> DEFINE x == <<"pending", q>>
           y == <<"todo", d>>
<1>1. todo[d] = <<>> /\ failures[d] = <<>>
    BY Zenon DEF IInv, Hands
<1>2. Contents' \in [Place -> Seq(Msg)] /\ Contents \in [Place -> Seq(Msg)]
    BY ContentsType, NextContentsType DEF IInv
<1>3. /\ x \in Place /\ y \in Place /\ x # y
      /\ Contents[x] = pending[q] /\ Contents[y] = <<>>
      /\ Contents'[y] = pending[q] /\ Contents'[x] = <<>>
    BY <1>1, ContentsAt, Zenon DEF Take, IInv, TypeOK, Contents, Content
<1>4. \A z \in Place \ {x, y} : Contents'[z] = Contents[z]
    <2>1. /\ \A r \in Queue : r = q \/ pending'[r] = pending[r]
          /\ \A e \in Drainer : e = d \/ todo'[e] = todo[e]
          /\ failures' = failures
        BY Zenon DEF Take, IInv, TypeOK
    <2>2. /\ \A r \in Queue : <<"pending", r>> \in {x, y} \/ pending'[r] = pending[r]
          /\ \A e \in Drainer : <<"todo", e>> \in {x, y} \/ todo'[e] = todo[e]
        BY <2>1, Zenon
    <2> HIDE DEF x, y
    <2> QED
        BY <2>1, <2>2, Elsewhere, Zenon
<1>5. pending[q] \o <<>> = pending[q]
    BY ConcatEmptySeq, Zenon DEF IInv, TypeOK
<1>6. Joins(Place, Msg, Contents, Contents', x, y)
    BY <1>2, <1>3, <1>4, <1>5 DEF Joins, Change, IInv, Placement
<1>7. QueueOf(y)' = q /\ QueueOf(x) = q
    BY DEF QueueOf, Take, IInv, TypeOK, Tasks
<1>8. ASSUME NEW z \in Place, Contents[z] # <<>> PROVE QueueOf(z)' = QueueOf(z)
    <2>1. CASE \E p \in Queue : z = <<"pending", p>>
        BY <2>1 DEF QueueOf
    <2>2. ASSUME NEW c \in Drainer, z = <<"todo", c>> \/ z = <<"failures", c>> PROVE QueueOf(z)' = QueueOf(z)
        <3>1. c # d
            BY <1>1, <1>8, <2>2, ContentsAt
        <3>2. task'[c] = task[c]
            BY <3>1, Zenon DEF Take, IInv, TypeOK
        <3> QED
            BY <2>2, <3>2 DEF QueueOf
    <2> QED
        BY <2>1, <2>2, PlaceCases, Zenon
<1>9. x \in Place /\ y \in Place
    BY <1>3, Zenon
<1> QED
    <2> HIDE DEF x, y
    <2> QED BY <1>6, <1>7, <1>8, Joined

LEMMA RequeueMoves ==
    ASSUME IInv, TypeOK', NEW d \in Drainer, Requeue(d)
    PROVE  Placement'
<1> DEFINE q == task[d].at
           x == <<"failures", d>>
           y == <<"pending", q>>
<1>1. q \in Queue
    BY Zenon DEF IInv, Hands, Requeue
<1>2. Contents' \in [Place -> Seq(Msg)] /\ Contents \in [Place -> Seq(Msg)]
    BY ContentsType, NextContentsType, Zenon DEF IInv
<1>3. /\ x \in Place /\ y \in Place /\ x # y
      /\ Contents[x] = failures[d] /\ Contents[y] = pending[q]
      /\ Contents'[y] = failures[d] \o pending[q] /\ Contents'[x] = <<>>
    BY <1>1, ContentsAt, Zenon DEF Requeue, IInv, TypeOK, Contents, Content
<1>4. \A z \in Place \ {x, y} : Contents'[z] = Contents[z]
    <2>1. /\ \A r \in Queue : r = q \/ pending'[r] = pending[r]
          /\ \A e \in Drainer : e = d \/ failures'[e] = failures[e]
          /\ todo' = todo
        BY Zenon DEF Requeue, IInv, TypeOK
    <2>2. /\ \A r \in Queue : <<"pending", r>> \in {x, y} \/ pending'[r] = pending[r]
          /\ \A e \in Drainer : <<"failures", e>> \in {x, y} \/ failures'[e] = failures[e]
        BY <2>1, Zenon
    <2> HIDE DEF x, y
    <2> QED
        BY <2>1, <2>2, Elsewhere, Zenon
<1>5. Joins(Place, Msg, Contents, Contents', x, y)
    BY <1>2, <1>3, <1>4, Zenon DEF Joins, Change, IInv, Placement
<1>6. \A c \in Drainer : task'[c].at = task[c].at
    BY DEF Requeue, IInv, TypeOK, Tasks
<1>7. \A z \in Place : QueueOf(z)' = QueueOf(z)
    BY <1>6, Zenon DEF QueueOf, Place
<1>8. QueueOf(x) = q /\ QueueOf(y) = q
    BY Zenon DEF QueueOf
<1>9. stage' = stage /\ home' = home
    BY Zenon DEF Requeue, callVars
<1> QED
    <2> HIDE DEF x, y
    <2> QED BY <1>3, <1>5, <1>7, <1>8, <1>9, Joined

(* The head of what a drain has taken is settled, or joins its failures.   *)
LEMMA SendMoves ==
    ASSUME IInv, TypeOK', NEW d \in Drainer, Expire(d) \/ SendOk(d) \/ SendErr(d)
    PROVE  Placement'
<1> DEFINE C == Contents
           D == Contents'
           x == <<"todo", d>>
           y == <<"failures", d>>
           m == Head(todo[d])
           E == [C EXCEPT ![x] = Tail(todo[d])]
<1>1. todo[d] \in Seq(Msg) /\ todo[d] # <<>>
    BY Zenon DEF Expire, SendOk, SendErr, IInv, TypeOK
<1>2. m \in Msg /\ Tail(todo[d]) \in Seq(Msg) /\ m \in Range(todo[d])
    BY <1>1, TailFacts DEF Range
<1>3. D \in [Place -> Seq(Msg)] /\ C \in [Place -> Seq(Msg)] /\ E \in [Place -> Seq(Msg)]
    BY <1>2, ContentsType, NextContentsType, Zenon DEF IInv
<1>4. /\ x \in Place /\ y \in Place /\ x # y /\ C[x] = todo[d] /\ C[y] = failures[d]
      /\ E[x] = Tail(C[x]) /\ \A z \in Place \ {x} : E[z] = C[z]
    BY <1>3, ContentsAt, Zenon
<1>5. TakesHead(Place, Msg, C, E, x)
    <2>1. Unique(Place, C)
        BY Zenon DEF IInv, Placement
    <2> HIDE DEF C, E, x, y
    <2> QED BY <1>1, <1>3, <1>4, <2>1 DEF TakesHead, Change
<1>6. Unique(Place, E) /\ \A z \in Place : Range(E[z]) = Range(C[z]) \ {m}
    <2> HIDE DEF C, E, x, y
    <2> QED BY <1>4, <1>5, UniqueShrinks
<1>7. \A z \in Place : QueueOf(z)' = QueueOf(z)
    BY Zenon DEF QueueOf, Expire, SendOk, SendErr
<1>8. /\ home' = home /\ \A k \in Msg \ {m} : stage'[k] = stage[k]
    BY Zenon DEF Expire, SendOk, SendErr, callVars, IInv, TypeOK
<1>9. \A z \in Place : \A k \in Range(C[z]) : k \in Msg /\ stage[k] = "waiting" /\ home[k] = QueueOf(z)
    BY ContentsType, Zenon DEF IInv, Placement, Placed
<1>10. CASE Expire(d) \/ SendOk(d)
    <2>1. D[x] = Tail(todo[d]) /\ \A z \in Place \ {x} : D[z] = C[z]
        <3>1. /\ todo'[d] = Tail(todo[d]) /\ \A e \in Drainer : e = d \/ todo'[e] = todo[e]
              /\ pending' = pending /\ failures' = failures
            BY <1>10, Zenon DEF Expire, SendOk, IInv, TypeOK
        <3>2. D[x] = Tail(todo[d]) /\ \A e \in Drainer : <<"todo", e>> \in {x} \/ todo'[e] = todo[e]
            BY <3>1, NextContentsAt, Zenon
        <3> HIDE DEF x
        <3>3. \A z \in Place \ {x} : D[z] = C[z]
            BY <3>1, <3>2, Elsewhere, Zenon
        <3> QED
            BY <3>2, <3>3, Zenon
    <2>2. D = E
        <3> HIDE DEF D, C, x
        <3> QED BY <1>3, <1>4, <2>1, Zenon
    <2>3. stage'[m] # "waiting"
        BY <1>2, <1>10, Zenon DEF Expire, SendOk, IInv, TypeOK
    <2>4. Placed'
        <3> SUFFICES ASSUME NEW z \in Place, NEW k \in Range(E[z])
                     PROVE  stage'[k] = "waiting" /\ home'[k] = QueueOf(z)'
            BY <2>2, Zenon DEF Placed
        <3>1. k \in Range(C[z]) /\ k # m
            <4> HIDE DEF C, E, m
            <4> QED BY <1>6, Zenon
        <3> QED
            BY <1>7, <1>8, <1>9, <3>1
    <2>5. Kept'
        <3>1. ASSUME NEW k \in Msg, stage'[k] = "waiting" PROVE \E z \in Place : k \in Range(E[z])
            <4>1. k # m /\ stage[k] = "waiting"
                BY <1>8, <2>3, <3>1, Zenon
            <4>2. \E z \in Place : k \in Range(C[z])
                BY <4>1, Zenon DEF IInv, Placement, Kept
            <4> HIDE DEF C, E, m
            <4> QED BY <1>6, <4>1, <4>2
        <3> QED
            BY <2>2, <3>1, Zenon DEF Kept
    <2> QED
        BY <1>6, <2>2, <2>4, <2>5, ZenonT(40) DEF Placement
<1>11. CASE SendErr(d)
    <2>1. /\ D[x] = Tail(todo[d]) /\ D[y] = Append(failures[d], m)
          /\ \A z \in Place \ {x, y} : D[z] = C[z]
        <3>1. /\ todo'[d] = Tail(todo[d]) /\ \A e \in Drainer : e = d \/ todo'[e] = todo[e]
              /\ failures'[d] = Append(failures[d], m) /\ \A e \in Drainer : e = d \/ failures'[e] = failures[e]
              /\ pending' = pending
            BY <1>11, Zenon DEF SendErr, IInv, TypeOK
        <3>2. D[x] = Tail(todo[d]) /\ D[y] = Append(failures[d], m)
            BY <3>1, NextContentsAt, Zenon
        <3>3. /\ \A r \in Queue : <<"pending", r>> \in {x, y} \/ pending'[r] = pending[r]
              /\ \A e \in Drainer : <<"todo", e>> \in {x, y} \/ todo'[e] = todo[e]
              /\ \A e \in Drainer : <<"failures", e>> \in {x, y} \/ failures'[e] = failures[e]
            BY <3>1, Zenon
        <3> HIDE DEF x, y
        <3>4. \A z \in Place \ {x, y} : D[z] = C[z]
            BY <3>3, Elsewhere, Zenon
        <3> QED
            BY <3>2, <3>4, Zenon
    <2>2. AppendsNew(Place, Msg, E, D, y, m)
        <3> HIDE DEF C, D, E, x, y, m
        <3> QED BY <1>2, <1>3, <1>4, <1>6, <2>1, Zenon DEF AppendsNew, Change
    <2>3. Unique(Place, D) /\ Range(D[y]) = Range(E[y]) \cup {m}
        <3> HIDE DEF C, D, E, x, y, m
        <3> QED BY <2>2, UniqueGrows
    <2>4. \A z \in Place \ {y} : Range(D[z]) = Range(E[z])
        <3> HIDE DEF C, D, E, x, y, m
        <3> QED BY <1>4, <2>1, Zenon
    <2>5. stage' = stage /\ stage[m] = "waiting" /\ home[m] = QueueOf(x) /\ QueueOf(y) = QueueOf(x)
        BY <1>2, <1>4, <1>9, <1>11, Zenon DEF SendErr, QueueOf
    <2>6. Placed'
        <3> SUFFICES ASSUME NEW z \in Place, NEW k \in Range(D[z])
                     PROVE  stage[k] = "waiting" /\ home[k] = QueueOf(z)
            BY <1>7, <1>8, <2>5, SMTT(30) DEF Placed
        <3>1. k \in Range(C[z]) \/ (k = m /\ z = y)
            <4> HIDE DEF C, D, E, y, m
            <4> QED BY <1>6, <2>3, <2>4
        <3> QED
            BY <1>9, <2>5, <3>1, SMTT(30)
    <2>7. Kept'
        <3>1. ASSUME NEW k \in Msg, NEW z \in Place, k \in Range(C[z]) PROVE \E w \in Place : k \in Range(D[w])
            <4> HIDE DEF C, D, E, y, m
            <4>1. k = m \/ k \in Range(E[z])
                BY <1>6, <3>1, Zenon
            <4>2. k \in Range(D[y]) \/ k \in Range(D[z])
                BY <2>3, <2>4, <4>1, Zenon
            <4> QED BY <1>4, <4>2
        <3> QED
            BY <2>5, <3>1, Zenon DEF IInv, Placement, Kept
    <2> QED
        BY <2>3, <2>6, <2>7, ZenonT(40) DEF Placement
<1> QED
    BY <1>10, <1>11, Zenon

LEMMA PlacementStep == IInv /\ [Next]_vars => Placement'
<1> SUFFICES ASSUME IInv, [Next]_vars PROVE Placement'
    BY Zenon
<1>1. TypeOK'
    BY TypeStep, Zenon
<1>2. CASE UNCHANGED <<pending, stage, home, todo, failures, task>>
    BY <1>2, Unmoved, Zenon
<1>3. ASSUME NEW d \in Drainer, NEW p \in Peer, NEW by, BeginDrain(d, p, by),
             UNCHANGED <<pending, stage, home, todo, failures>>
      PROVE  Placement'
    <2>1. \A c \in Drainer : task[c].phase = "send" => task'[c].at = task[c].at
        BY <1>3, Zenon DEF BeginDrain, IInv, TypeOK
    <2> QED
        BY <1>3, <2>1, Unmoved
<1>4. ASSUME NEW q \in setup.queues, StoreCall(q) PROVE Placement'
    <2>1. accepted \in Nat /\ Msg \subseteq Nat
        BY MsgFacts, SMTT(30) DEF IInv, TypeOK
    <2>2. accepted + 1 \in Msg => stage[accepted + 1] = "new" /\ stage'[accepted + 1] # "waiting"
        BY <1>4, <2>1 DEF StoreCall, IInv, TypeOK, Calls
    <2>3. \A m \in Msg \ {accepted + 1} : stage'[m] = stage[m] /\ home'[m] = home[m]
        BY <1>4, Zenon DEF StoreCall, IInv, TypeOK
    <2> QED
        BY <1>4, <2>2, <2>3, Unmoved, SMTT(30) DEF StoreCall, drainVars
<1>5. ASSUME NEW d \in Drainer, DrainStep(d) PROVE Placement'
    <2>1. CASE TakeDirect(d)
        BY <1>1, <2>1, TakeMoves, SMTT(30) DEF TakeDirect, callVars, IInv, Hands
    <2>2. CASE TakeRouted(d)
        <3> PICK q \in task[d].left : Take(d, q, task[d].left \ {q})
            BY <2>2, Zenon DEF TakeRouted
        <3>1. q \in Queue
            BY Zenon DEF IInv, TypeOK, Tasks
        <3> QED
            BY <1>1, <2>2, <3>1, TakeMoves DEF TakeRouted, callVars
    <2>3. CASE ListRouted(d) \/ EndDrain(d)
        <3>1. \A c \in Drainer : task[c].phase = "send" => task'[c].at = task[c].at
            BY <2>3, Zenon DEF ListRouted, EndDrain, IInv, TypeOK, Tasks
        <3> QED
            BY <2>3, <3>1, Unmoved DEF ListRouted, EndDrain, callVars
    <2> QED
        BY <1>1, <1>5, <2>1, <2>2, <2>3, SendMoves, RequeueMoves, SMTT(30) DEF DrainStep, OwnStep, SendStep
<1>6. CASE OnEvent
    <2>1. Head(events) \in Peer \cup {"other"}
        BY <1>6 DEF OnEvent, IInv, TypeOK
    <2> QED
        BY <1>2, <1>3, <1>6, <2>1, DrainerType, SMTT(30) DEF OnEvent, callVars
<1>7. CASE \E d \in setup.drainers, p \in Peer : AddPeer(d, p) \/ Connect(d, p)
    BY <1>3, <1>7, MsgFacts, Zenon DEF AddPeer, Connect, ApiDrain, callVars, IInv, TypeOK
<1>8. CASE UNCHANGED vars \/ Age \/ \E p \in Peer : Discover(p)
    BY <1>2, <1>8 DEF vars, Age, Discover, drainVars, callVars
<1> QED
    BY <1>1, <1>4, <1>5, <1>6, <1>7, <1>8, CallMoves, SMTT(30) DEF Next

LEMMA InvariantHolds == Spec => []IInv
<1>1. IInv /\ [Next]_vars => IInv'
    BY TypeStep, PlacementStep, HandsStep, CallsStep DEF IInv
<1> QED
    BY <1>1, InitHolds, PTL DEF Spec

(* No accepted payload is lost, doubled or put in another queue, whatever  *)
(* drains and store calls overlap (store_forward, store_forward_routed,    *)
(* drain_direct_for_peer, drain_routed_all): for any number of peers,      *)
(* drains, messages and events, and any queue depth and channel capacity.  *)
THEOREM NothingIsLost == Spec => []Conservation
BY InvariantHolds, IInvIsConservation, PTL

-----------------------------------------------------------------------------
(* Order.  Earlier(a, m, n): m is before n in the sequence a of arrivals.  *)

Earlier(a, m, n) == \E i, j \in DOMAIN a : i < j /\ a[i] = m /\ a[j] = n
InOrder(a, s) == \A i, j \in DOMAIN s : i < j => Earlier(a, s[i], s[j])
AllBefore(a, s, t) == \A m \in Range(s), n \in Range(t) : Earlier(a, m, n)

LEMMA OrderOfTail ==
    ASSUME NEW a, NEW M, NEW s \in Seq(M), s # <<>>, InOrder(a, s)
    PROVE  /\ InOrder(a, Tail(s)) /\ Range(Tail(s)) \subseteq Range(s) /\ Head(s) \in Range(s)
           /\ \A n \in Range(Tail(s)) : Earlier(a, Head(s), n)
<1>1. /\ Len(s) \in Nat \ {0} /\ DOMAIN s = 1..Len(s) /\ DOMAIN Tail(s) = 1..(Len(s) - 1)
      /\ Head(s) = s[1] /\ \A i \in 1..(Len(s) - 1) : Tail(s)[i] = s[i + 1]
    BY TailFacts, Zenon
<1>2. \A i \in DOMAIN Tail(s) : i + 1 \in DOMAIN s /\ 1 \in DOMAIN s /\ 1 < i + 1 /\ Tail(s)[i] = s[i + 1]
    BY <1>1
<1>3. \A i, j \in DOMAIN Tail(s) : i < j => i + 1 < j + 1
    BY <1>1
<1>4. InOrder(a, Tail(s))
    <2> SUFFICES ASSUME NEW i \in DOMAIN Tail(s), NEW j \in DOMAIN Tail(s), i < j
                 PROVE  Earlier(a, Tail(s)[i], Tail(s)[j])
        BY Zenon DEF InOrder
    <2>1. i + 1 \in DOMAIN s /\ j + 1 \in DOMAIN s /\ i + 1 < j + 1
        BY <1>2, <1>3
    <2>2. Earlier(a, s[i + 1], s[j + 1])
        BY <2>1, Zenon DEF InOrder
    <2> QED
        BY <1>2, <2>2
<1>5. ASSUME NEW n \in Range(Tail(s)) PROVE n \in Range(s) /\ Earlier(a, Head(s), n)
    <2> PICK i \in DOMAIN Tail(s) : n = Tail(s)[i]
        BY Zenon DEF Range
    <2>1. i + 1 \in DOMAIN s /\ 1 \in DOMAIN s /\ 1 < i + 1 /\ n = s[i + 1]
        BY <1>2, Zenon
    <2> QED
        BY <1>1, <2>1 DEF InOrder, Range
<1>6. Head(s) \in Range(s)
    BY <1>1, SMTT(30) DEF Range
<1> QED
    BY <1>4, <1>5, <1>6

LEMMA OrderOfAppend ==
    ASSUME NEW a, NEW M, NEW s \in Seq(M), NEW m \in M, InOrder(a, s), \A n \in Range(s) : Earlier(a, n, m)
    PROVE  InOrder(a, Append(s, m))
<1>1. /\ Len(s) \in Nat /\ DOMAIN s = 1..Len(s) /\ DOMAIN Append(s, m) = 1..(Len(s) + 1)
      /\ \A i \in 1..Len(s) : Append(s, m)[i] = s[i]
      /\ Append(s, m)[Len(s) + 1] = m
    BY AppendFacts
<1> SUFFICES ASSUME NEW i \in DOMAIN Append(s, m), NEW j \in DOMAIN Append(s, m), i < j
             PROVE  Earlier(a, Append(s, m)[i], Append(s, m)[j])
    BY Zenon DEF InOrder
<1>2. i \in DOMAIN s /\ Append(s, m)[i] = s[i] /\ s[i] \in Range(s)
    BY <1>1 DEF Range
<1>3. CASE j \in DOMAIN s
    BY <1>1, <1>2, <1>3, Zenon DEF InOrder
<1>4. CASE j = Len(s) + 1
    BY <1>1, <1>2, <1>4, Zenon
<1> QED
    BY <1>1, <1>3, <1>4, SMTT(30)

LEMMA OrderOfJoin ==
    ASSUME NEW a, NEW M, NEW s \in Seq(M), NEW t \in Seq(M),
           InOrder(a, s), InOrder(a, t), AllBefore(a, s, t)
    PROVE  InOrder(a, s \o t)
<1>1. /\ Len(s) \in Nat /\ Len(t) \in Nat
      /\ DOMAIN s = 1..Len(s) /\ DOMAIN t = 1..Len(t)
      /\ DOMAIN (s \o t) = 1..(Len(s) + Len(t))
      /\ \A i \in 1..Len(s) : (s \o t)[i] = s[i]
      /\ \A i \in (Len(s) + 1)..(Len(s) + Len(t)) : (s \o t)[i] = t[i - Len(s)]
    BY JoinFacts
<1> SUFFICES ASSUME NEW i \in DOMAIN (s \o t), NEW j \in DOMAIN (s \o t), i < j
             PROVE  Earlier(a, (s \o t)[i], (s \o t)[j])
    BY Zenon DEF InOrder
<1>2. CASE j <= Len(s)
    <2>1. i \in DOMAIN s /\ j \in DOMAIN s /\ (s \o t)[i] = s[i] /\ (s \o t)[j] = s[j]
        BY <1>1, <1>2
    <2> QED
        BY <2>1, Zenon DEF InOrder
<1>3. CASE i > Len(s)
    <2>1. /\ i - Len(s) \in DOMAIN t /\ j - Len(s) \in DOMAIN t /\ i - Len(s) < j - Len(s)
          /\ (s \o t)[i] = t[i - Len(s)] /\ (s \o t)[j] = t[j - Len(s)]
        BY <1>1, <1>3
    <2> QED
        BY <2>1, Zenon DEF InOrder
<1>4. CASE i <= Len(s) /\ j > Len(s)
    <2>1. /\ i \in DOMAIN s /\ j - Len(s) \in DOMAIN t
          /\ (s \o t)[i] = s[i] /\ (s \o t)[j] = t[j - Len(s)]
        BY <1>1, <1>4
    <2> QED
        BY <2>1, Zenon DEF AllBefore, Range
<1> QED
    BY <1>1, <1>2, <1>3, <1>4, SMTT(30)

(* An arrival changes nothing for the earlier ones, and comes after them.  *)
LEMMA EarlierGrows ==
    ASSUME NEW M, NEW a \in Seq(M), NEW k \in M
    PROVE  /\ \A m, n : Earlier(a, m, n) => Earlier(Append(a, k), m, n)
           /\ \A m \in Range(a) : Earlier(Append(a, k), m, k)
<1>1. /\ Len(a) \in Nat /\ DOMAIN a = 1..Len(a) /\ DOMAIN Append(a, k) = 1..(Len(a) + 1)
      /\ \A i \in 1..Len(a) : Append(a, k)[i] = a[i]
      /\ Append(a, k)[Len(a) + 1] = k
    BY AppendFacts
<1>2. ASSUME NEW m, NEW n, Earlier(a, m, n) PROVE Earlier(Append(a, k), m, n)
    BY <1>1, <1>2 DEF Earlier
<1>3. ASSUME NEW m \in Range(a) PROVE Earlier(Append(a, k), m, k)
    <2> PICK i \in DOMAIN a : m = a[i]
        BY Zenon DEF Range
    <2>1. i < Len(a) + 1 /\ i \in DOMAIN Append(a, k) /\ Len(a) + 1 \in DOMAIN Append(a, k)
        BY <1>1
    <2>2. Append(a, k)[i] = m /\ Append(a, k)[Len(a) + 1] = k
        BY <1>1, Zenon
    <2> QED
        BY <2>1, <2>2, Zenon DEF Earlier
<1> QED
    BY <1>2, <1>3, Zenon

(* What keeps the order of the queues when the event task drains alone:    *)
(* every queued message has arrived once, and while the drain sends, its   *)
(* failures come before what it has still to try, and both before what was *)
(* queued meanwhile.                                                       *)
Arrived ==
    /\ \A i, j \in DOMAIN arrivals : arrivals[i] = arrivals[j] => i = j
    /\ \A m \in Msg : stage[m] \in {"new", "sending", "queueing"} => m \notin Range(arrivals)
    /\ \A m \in Msg : stage[m] = "waiting" => m \in Range(arrivals)

Sequenced(e) ==
    /\ \A d \in Drainer \ {e} : task[d].phase = "idle"
    /\ \A q \in Queue : InOrder(arrivals, pending[q])
    /\ InOrder(arrivals, todo[e]) /\ InOrder(arrivals, failures[e])
    /\ AllBefore(arrivals, failures[e], todo[e])
    /\ task[e].phase = "send" =>
          /\ AllBefore(arrivals, todo[e], pending[task[e].at])
          /\ AllBefore(arrivals, failures[e], pending[task[e].at])

Orderly == Arrived /\ (setup.drainers = {EventTask} => Sequenced(EventTask))

LEMMA OrderlyIsFifo == TypeOK /\ Orderly => LoneDrainKeepsOrder
<1> SUFFICES ASSUME TypeOK, Arrived, Sequenced(EventTask),
                    NEW q \in Queue, NEW i \in DOMAIN pending[q], NEW j \in DOMAIN pending[q], i < j
             PROVE  ArrivalOf(pending[q][i]) < ArrivalOf(pending[q][j])
    BY Zenon DEF Orderly, LoneDrainKeepsOrder, FifoOrder
<1>1. Earlier(arrivals, pending[q][i], pending[q][j])
    BY Zenon DEF Sequenced, InOrder
<1> PICK k \in DOMAIN arrivals, l \in DOMAIN arrivals :
        k < l /\ arrivals[k] = pending[q][i] /\ arrivals[l] = pending[q][j]
    BY <1>1, Zenon DEF Earlier
<1>2. ArrivalOf(pending[q][i]) = k /\ ArrivalOf(pending[q][j]) = l
    BY Zenon DEF ArrivalOf, Arrived
<1> QED
    BY <1>2, Zenon

LEMMA ArrivedStep == IInv /\ Arrived /\ [Next]_vars => Arrived'
<1> SUFFICES ASSUME IInv, Arrived, [Next]_vars PROVE Arrived'
    BY Zenon
<1> USE DEF Arrived
<1>1. CASE UNCHANGED <<stage, arrivals>>
    BY <1>1, Zenon
<1>2. ASSUME NEW m \in Msg, NEW v \in {"acked", "failed"}, stage' = [stage EXCEPT ![m] = v], arrivals' = arrivals
      PROVE  Arrived'
    BY <1>2, Zenon DEF IInv, TypeOK
<1>3. ASSUME NEW q \in setup.queues, StoreCall(q) PROVE Arrived'
    <2>1. accepted \in Nat /\ Msg \subseteq Nat
        BY MsgFacts, SMTT(30) DEF IInv, TypeOK
    <2>2. accepted + 1 \in Msg => stage[accepted + 1] = "new" /\ stage'[accepted + 1] # "waiting"
        BY <1>3, <2>1, SMTT(30) DEF StoreCall, IInv, TypeOK, Calls
    <2>3. \A m \in Msg \ {accepted + 1} : stage'[m] = stage[m]
        BY <1>3 DEF StoreCall, IInv, TypeOK
    <2> QED
        BY <1>3, <2>2, <2>3, SMTT(30) DEF StoreCall
<1>4. ASSUME NEW m \in Msg, CallSendErr(m) PROVE Arrived'
    BY <1>4, Zenon DEF CallSendErr, IInv, TypeOK
<1>5. ASSUME NEW m \in Msg, Enqueue(m) PROVE Arrived'
    <2>1. m \notin Range(arrivals) /\ arrivals \in Seq(Msg)
        BY <1>5, Zenon DEF Enqueue, IInv, TypeOK
    <2>2. /\ Len(arrivals) \in Nat
          /\ DOMAIN arrivals = 1..Len(arrivals) /\ DOMAIN arrivals' = 1..(Len(arrivals) + 1)
          /\ \A i \in 1..Len(arrivals) : arrivals'[i] = arrivals[i]
          /\ arrivals'[Len(arrivals) + 1] = m
          /\ Range(arrivals') = Range(arrivals) \cup {m}
        BY <1>5, <2>1, AppendFacts, SMTT(30) DEF Enqueue
    <2>3. \A i \in DOMAIN arrivals' :
             (i \in DOMAIN arrivals /\ arrivals'[i] = arrivals[i] /\ arrivals'[i] # m) \/ (i = Len(arrivals) + 1 /\ arrivals'[i] = m)
        BY <2>1, <2>2 DEF Range
    <2>4. \A i, j \in DOMAIN arrivals' : arrivals'[i] = arrivals'[j] => i = j
        BY <2>3, Zenon
    <2>5. stage'[m] = "waiting" /\ \A k \in Msg \ {m} : stage'[k] = stage[k]
        BY <1>5, Zenon DEF Enqueue, IInv, TypeOK
    <2> QED
        BY <2>2, <2>4, <2>5
<1>6. CASE CallStep
    BY <1>2, <1>4, <1>5, <1>6, Zenon DEF CallStep, CallSendOk, Reject
<1>7. ASSUME NEW d \in Drainer, DrainStep(d) PROVE Arrived'
    <2>1. CASE Expire(d) \/ SendOk(d)
        <3>1. Head(todo[d]) \in Msg
            BY <2>1, TailFacts DEF Expire, SendOk, IInv, TypeOK
        <3> QED
            BY <1>2, <2>1, <3>1, SMTT(30) DEF Expire, SendOk
    <2> QED
        BY <1>1, <1>7, <2>1, Zenon DEF DrainStep, OwnStep, SendStep, TakeDirect, TakeRouted, SendErr, Requeue, ListRouted, EndDrain
<1> QED
    BY <1>1, <1>3, <1>6, <1>7, Zenon DEF Next, Discover, OnEvent, AddPeer, Connect, ApiDrain, Age, vars

(* The event task's own steps.                                             *)
LEMMA DrainOrder ==
    ASSUME IInv, NEW e \in Drainer, Sequenced(e), DrainStep(e)
    PROVE  Sequenced(e)'
<1> DEFINE a == arrivals
<1>1. arrivals' = a /\ \A d \in Drainer \ {e} : task'[d] = task[d]
    BY Zenon DEF DrainStep, OwnStep, SendStep, TakeDirect, TakeRouted, Take, Expire, SendOk, SendErr, Requeue, ListRouted, EndDrain,
           IInv, TypeOK
<1>2. todo[e] \in Seq(Msg) /\ failures[e] \in Seq(Msg) /\ \A q \in Queue : pending[q] \in Seq(Msg)
    BY Zenon DEF IInv, TypeOK
<1>3. InOrder(a, <<>>) /\ \A s : AllBefore(a, <<>>, s) /\ AllBefore(a, s, <<>>)
    BY SMTT(30) DEF InOrder, AllBefore, Range
<1>4. ASSUME NEW q \in Queue, NEW left, Take(e, q, left), UNCHANGED failures, task[e].phase # "send"
      PROVE  Sequenced(e)'
    <2>1. failures[e] = <<>>
        BY <1>4 DEF IInv, Hands
    <2>2. /\ pending'[q] = <<>> /\ \A p \in Queue \ {q} : pending'[p] = pending[p]
          /\ todo'[e] = pending[q] /\ failures'[e] = <<>> /\ task'[e].at = q
        BY <1>4, <2>1, Zenon DEF Take, IInv, TypeOK, Tasks
    <2> QED
        BY <1>1, <1>3, <2>2, Zenon DEF Sequenced
<1>5. CASE TakeDirect(e)
    BY <1>4, <1>5, Zenon DEF TakeDirect, IInv, Hands
<1>6. CASE TakeRouted(e)
    <2> PICK q \in task[e].left : Take(e, q, task[e].left \ {q})
        BY <1>6 DEF TakeRouted
    <2>1. q \in Queue
        BY Zenon DEF IInv, TypeOK, Tasks
    <2> QED
        BY <1>4, <1>6, <2>1, Zenon DEF TakeRouted
<1>7. CASE Expire(e) \/ SendOk(e)
    <2>1. todo[e] # <<>> /\ todo'[e] = Tail(todo[e]) /\ UNCHANGED <<pending, failures, task>>
        BY <1>7, Zenon DEF Expire, SendOk, IInv, TypeOK
    <2>2. InOrder(a, Tail(todo[e])) /\ Range(Tail(todo[e])) \subseteq Range(todo[e])
        BY <1>2, <2>1, OrderOfTail, Zenon DEF Sequenced
    <2> QED
        BY <1>1, <2>1, <2>2, Zenon DEF Sequenced, AllBefore
<1>8. CASE SendErr(e)
    <2> DEFINE m == Head(todo[e])
    <2>1. /\ todo[e] # <<>> /\ todo'[e] = Tail(todo[e]) /\ failures'[e] = Append(failures[e], m)
          /\ UNCHANGED <<pending, task>>
        BY <1>8, Zenon DEF SendErr, IInv, TypeOK
    <2>2. /\ InOrder(a, Tail(todo[e])) /\ Range(Tail(todo[e])) \subseteq Range(todo[e])
          /\ m \in Range(todo[e]) /\ \A n \in Range(Tail(todo[e])) : Earlier(a, m, n)
        BY <1>2, <2>1, OrderOfTail, ZenonT(40) DEF Sequenced
    <2>3. m \in Msg /\ \A n \in Range(failures[e]) : Earlier(a, n, m)
        BY <1>2, <2>1, <2>2, TailFacts, SMTT(30) DEF Sequenced, AllBefore
    <2>4. InOrder(a, Append(failures[e], m)) /\ Range(Append(failures[e], m)) = Range(failures[e]) \cup {m}
        <3> HIDE DEF m, a
        <3> QED BY <1>2, <2>3, OrderOfAppend, AppendFacts, SMTT(30) DEF Sequenced, a
    <2>5. AllBefore(a, Append(failures[e], m), Tail(todo[e]))
        <3> HIDE DEF m
        <3> QED BY <2>2, <2>4, Zenon DEF AllBefore, Sequenced
    <2>6. ASSUME task[e].phase = "send"
          PROVE  /\ AllBefore(a, Tail(todo[e]), pending[task[e].at])
                 /\ AllBefore(a, Append(failures[e], m), pending[task[e].at])
        <3> HIDE DEF m
        <3> QED BY <2>2, <2>4, <2>6, Zenon DEF AllBefore, Sequenced
    <2> QED
        BY <1>1, <2>1, <2>2, <2>4, <2>5, <2>6, Zenon DEF Sequenced
<1>9. CASE Requeue(e)
    <2> DEFINE q == task[e].at
    <2>1. q \in Queue /\ task[e].phase = "send" /\ todo[e] = <<>>
        BY <1>9 DEF Requeue, IInv, Hands
    <2>2. /\ pending'[q] = failures[e] \o pending[q] /\ \A p \in Queue \ {q} : pending'[p] = pending[p]
          /\ failures'[e] = <<>> /\ todo'[e] = <<>> /\ task'[e].phase # "send"
        BY <1>9, <2>1, ZenonT(40) DEF Requeue, IInv, TypeOK, Tasks
    <2>3. InOrder(a, failures[e] \o pending[q])
        BY <1>2, <2>1, OrderOfJoin DEF Sequenced
    <2>4. \A p \in Queue : InOrder(a, pending'[p])
        BY <2>2, <2>3, Zenon DEF Sequenced
    <2> QED
        BY <1>1, <1>3, <2>2, <2>4, Zenon DEF Sequenced
<1>10. CASE ListRouted(e) \/ EndDrain(e)
    <2>1. UNCHANGED <<pending, todo, failures>> /\ task'[e].phase # "send"
        BY <1>10, SMTT(30) DEF ListRouted, EndDrain, IInv, TypeOK, Tasks, Rest
    <2> QED
        BY <1>1, <2>1, Zenon DEF Sequenced
<1> QED
    BY <1>5, <1>6, <1>7, <1>8, <1>9, <1>10, SMTT(30) DEF DrainStep, OwnStep, SendStep

(* A store call queues its message while the event task drains.            *)
LEMMA EnqueueOrder ==
    ASSUME IInv, Arrived, NEW e \in Drainer, Sequenced(e), NEW m \in Msg, Enqueue(m)
    PROVE  Sequenced(e)'
<1> DEFINE a == arrivals
           b == arrivals'
           q == home[m]
<1>1. /\ q \in Queue /\ b = Append(a, m) /\ a \in Seq(Msg) /\ pending[q] \in Seq(Msg)
      /\ pending'[q] = Append(pending[q], m) /\ \A p \in Queue \ {q} : pending'[p] = pending[p]
      /\ UNCHANGED <<task, todo, failures>>
    BY Zenon DEF Enqueue, IInv, TypeOK, Calls, drainVars
<1>2. /\ \A k, n : Earlier(a, k, n) => Earlier(b, k, n)
      /\ \A k \in Range(a) : Earlier(b, k, m)
    <2> HIDE DEF a, b
    <2> QED BY <1>1, EarlierGrows, Zenon
<1>3. /\ \A p \in Queue : Range(pending[p]) \subseteq Range(a)
      /\ Range(todo[e]) \subseteq Range(a) /\ Range(failures[e]) \subseteq Range(a)
    <2>1. \A x \in Place : Range(Contents[x]) \subseteq Range(a)
        BY ContentsType, Zenon DEF IInv, Placement, Placed, Arrived
    <2> QED
        BY <2>1, ContentsAt, Zenon
<1>4. \A s : InOrder(a, s) => InOrder(b, s)
    <2> HIDE DEF a, b
    <2> QED BY <1>2, Zenon DEF InOrder
<1>5. \A s, t : AllBefore(a, s, t) => AllBefore(b, s, t)
    <2> HIDE DEF a, b
    <2> QED BY <1>2, Zenon DEF AllBefore
<1>6. InOrder(b, Append(pending[q], m)) /\ Range(Append(pending[q], m)) = Range(pending[q]) \cup {m}
    <2>1. InOrder(b, pending[q]) /\ \A n \in Range(pending[q]) : Earlier(b, n, m)
        <3>1. InOrder(a, pending[q])
            BY <1>1, Zenon DEF Sequenced
        <3> HIDE DEF a, b, q
        <3> QED BY <1>1, <1>2, <1>3, <1>4, <3>1, Zenon
    <2> HIDE DEF a, b, q
    <2> QED BY <1>1, <2>1, OrderOfAppend, AppendFacts
<1>7. ASSUME NEW s, Range(s) \subseteq Range(a), AllBefore(a, s, pending[q])
      PROVE  AllBefore(b, s, Append(pending[q], m))
    <2> HIDE DEF a, b, q
    <2> QED BY <1>2, <1>6, <1>7, Zenon DEF AllBefore
<1>8. ASSUME task[e].phase = "send"
      PROVE  /\ AllBefore(b, todo[e], pending'[task[e].at])
             /\ AllBefore(b, failures[e], pending'[task[e].at])
    <2>1. task[e].at \in Queue
        BY <1>8, Zenon DEF IInv, Hands
    <2>2. AllBefore(a, todo[e], pending[task[e].at]) /\ AllBefore(a, failures[e], pending[task[e].at])
        BY <1>8, Zenon DEF Sequenced
    <2> HIDE DEF a, b, q
    <2>3. CASE task[e].at = q
        BY <1>1, <1>3, <1>7, <2>2, <2>3, Zenon
    <2>4. CASE task[e].at # q
        BY <1>1, <1>5, <2>1, <2>2, <2>4, Zenon
    <2> QED
        BY <2>3, <2>4, Zenon
<1>9. \A p \in Queue : InOrder(b, pending'[p])
    <2>1. \A p \in Queue : InOrder(a, pending[p])
        BY Zenon DEF Sequenced
    <2> HIDE DEF a, b, q
    <2> QED BY <1>1, <1>4, <1>6, <2>1, Zenon
<1>10. InOrder(b, todo[e]) /\ InOrder(b, failures[e]) /\ AllBefore(b, failures[e], todo[e])
    <2>1. InOrder(a, todo[e]) /\ InOrder(a, failures[e]) /\ AllBefore(a, failures[e], todo[e])
        BY Zenon DEF Sequenced
    <2> HIDE DEF a, b
    <2> QED BY <1>4, <1>5, <2>1
<1> QED
    BY <1>1, <1>8, <1>9, <1>10, Zenon DEF Sequenced

LEMMA OrderStep == IInv /\ Orderly /\ [Next]_vars => Orderly'
<1> SUFFICES ASSUME IInv, Orderly, [Next]_vars PROVE Orderly'
    BY Zenon
<1>1. Arrived' /\ setup' = setup
    BY ArrivedStep, Zenon DEF Orderly, Next, StoreCall, CallStep, CallSendOk, CallSendErr, Enqueue, Reject, Discover,
       OnEvent, AddPeer, Connect, ApiDrain, DrainStep, OwnStep, SendStep, TakeDirect, TakeRouted, Expire, SendOk, SendErr,
       Requeue, ListRouted, EndDrain, Age, vars
<1> SUFFICES ASSUME setup.drainers = {EventTask} PROVE Sequenced(EventTask)'
    BY <1>1 DEF Orderly
<1> USE DrainerType
<1>2. Sequenced(EventTask)
    BY Zenon DEF Orderly
<1>3. CASE UNCHANGED <<pending, todo, failures, task, arrivals>>
    BY <1>2, <1>3, Zenon DEF Sequenced
<1>4. CASE CallStep
    BY <1>2, <1>3, <1>4, EnqueueOrder, Zenon DEF CallStep, CallSendOk, CallSendErr, Reject, drainVars, Orderly
<1>5. ASSUME NEW d \in Drainer, DrainStep(d) PROVE Sequenced(EventTask)'
    <2>1. d = EventTask
        <3>1. d # EventTask => task[d].phase = "idle" /\ todo[d] = <<>>
            BY <1>2, Zenon DEF Sequenced, IInv, Hands
        <3> QED
            BY <1>5, <3>1, Zenon DEF DrainStep, OwnStep, SendStep, TakeDirect, TakeRouted, Expire, SendOk, SendErr, Requeue, ListRouted, EndDrain
    <2> QED
        BY <1>2, <1>5, <2>1, DrainOrder, Zenon
<1>6. CASE OnEvent
    <2>1. UNCHANGED <<pending, todo, failures, arrivals>>
        BY <1>6, Zenon DEF OnEvent
    <2>2. CASE UNCHANGED task
        BY <1>3, <2>1, <2>2, Zenon
    <2>3. CASE BeginDrain(EventTask, Head(events), "event")
        <3>1. /\ \A d \in Drainer \ {EventTask} : task'[d] = task[d]
              /\ task'[EventTask].phase = "start"
            BY <2>3, Zenon DEF BeginDrain, IInv, TypeOK, Rest
        <3> QED
            BY <1>2, <2>1, <3>1, Zenon DEF Sequenced
    <2> QED
        BY <1>6, <2>2, <2>3, Zenon DEF OnEvent
<1>7. ~\E d \in setup.drainers, p \in Peer : AddPeer(d, p) \/ Connect(d, p)
    BY Zenon DEF AddPeer, Connect, ApiDrain
<1>8. CASE UNCHANGED vars \/ Age \/ (\E p \in Peer : Discover(p)) \/ (\E q \in setup.queues : StoreCall(q))
    BY <1>3, <1>8, Zenon DEF vars, Age, Discover, StoreCall, drainVars
<1> QED
    BY <1>4, <1>5, <1>6, <1>7, <1>8, Zenon DEF Next

(* "re-prepends failures to preserve FIFO order" (drain_direct_for_peer,   *)
(* drain_routed_all): with the event task as the only drain, the queues    *)
(* keep the order of arrival, whatever fails and whatever is queued while  *)
(* it drains, for any number of peers, queues, messages and events.        *)
THEOREM OrderIsKept == Spec => []LoneDrainKeepsOrder
<1>1. Init => Orderly
    <2> SUFFICES ASSUME Init PROVE Arrived /\ Sequenced(EventTask)
        BY Zenon DEF Orderly
    <2>1. Range(<<>>) = {} /\ \A a : InOrder(a, <<>>) /\ AllBefore(a, <<>>, <<>>)
        BY DEF InOrder, AllBefore, Range
    <2>2. Arrived
        BY <2>1 DEF Init, Arrived
    <2>3. Sequenced(EventTask)
        BY <2>1, DrainerType, Zenon DEF Init, Sequenced, Rest
    <2> QED
        BY <2>2, <2>3, Zenon
<1>2. IInv => TypeOK
    BY Zenon DEF IInv
<1> QED
    BY <1>1, <1>2, InvariantHolds, OrderStep, OrderlyIsFifo, PTL DEF Spec
=============================================================================
