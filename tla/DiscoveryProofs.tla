---------------------------- MODULE DiscoveryProofs ---------------------------
(***************************************************************************)
(* Only a send that somebody else answers lists an address under a name    *)
(* that was not its own: AddressesBelong of Discovery, for any nodes,      *)
(* transports and addresses and any number of moves, restarts and calls.   *)
(***************************************************************************)
EXTENDS Discovery, SequenceTheorems, TLAPS

(* What is stored later is true when it is learned: where a transport is,  *)
(* and the address that connect carries from its handshake to its stores,  *)
(* are addresses the peer has had.  Peers move on in between.              *)
HomeIsOwned == \A x \in Port : home[x] # Nowhere => <<Of[x], home[x]>> \in owned
ConnIsOwned == conn # NoConn => conn.addr \in Addr /\ <<conn.peer, conn.addr>> \in owned
Belongs(p, a) == \E q \in Peer : <<q, a>> \in owned /\ (q = p \/ <<p, q>> \in crossed)
RowsBelong == \A p \in Peer : \A a \in peers[p] \ {AnyAddr} : Belongs(p, a)

IInv == TypeOK /\ HomeIsOwned /\ ConnIsOwned /\ RowsBelong

-----------------------------------------------------------------------------
(* What an answerer says it listens on is the wildcard or its own.         *)
LEMMA ListenOwn ==
    ASSUME IInv, NEW x \in Port, home[x] # Nowhere
    PROVE  /\ Listen(x) \in Addr \cup {AnyAddr}
           /\ Listen(x) # AnyAddr => <<Of[x], Listen(x)>> \in owned
BY DEF IInv, TypeOK, Place, HomeIsOwned, Listen

LEMMA ListensOwn ==
    ASSUME IInv, NEW p \in Peer
    PROVE  /\ Listens(p) \in Row
           /\ \A a \in Listens(p) \ {AnyAddr} : <<p, a>> \in owned
<1> SUFFICES ASSUME NEW a \in Listens(p)
             PROVE  a \in Addr \cup {AnyAddr} /\ (a # AnyAddr => <<p, a>> \in owned)
    BY Zenon DEF Row
<1> PICK x \in Port : Of[x] = p /\ home[x] # Nowhere /\ a = Listen(x)
    BY Zenon DEF Listens
<1> QED
    BY ListenOwn, Zenon

(* A step that adds to one row what belongs there keeps the rows.          *)
LEMMA SetRow ==
    ASSUME IInv, NEW p \in Peer, NEW new \in Row,
           peers' = [peers EXCEPT ![p] = Upsert(@, new)],
           owned \subseteq owned', crossed \subseteq crossed',
           \A a \in new \ {AnyAddr} : Belongs(p, a)'
    PROVE  peers' \in [Peer -> Row] /\ RowsBelong'
<1>1. peers \in [Peer -> Row]
    BY Zenon DEF IInv, TypeOK
<1>2. peers' \in [Peer -> Row]
    BY <1>1, SMTT(30) DEF Row, Upsert
<1>3. ASSUME NEW q \in Peer, NEW a \in peers'[q], a # AnyAddr
      PROVE  Belongs(q, a)'
    <2>1. CASE a \in peers[q]
        BY <2>1, <1>3, ZenonT(40) DEF IInv, RowsBelong, Belongs
    <2>2. CASE a \notin peers[q]
        <3>1. q = p /\ a \in new
            BY <2>2, <1>1, <1>3, SMTT(30) DEF Upsert
        <3> QED
            BY <3>1, <1>3, Zenon
    <2> QED
        BY <2>1, <2>2, Zenon
<1> QED
    BY <1>2, <1>3, Zenon DEF RowsBelong

(* A step that leaves the table alone keeps them, too.                     *)
LEMMA SameRows ==
    ASSUME IInv, UNCHANGED <<peers, crossed>>, owned \subseteq owned'
    PROVE  RowsBelong'
BY ZenonT(40) DEF IInv, RowsBelong, Belongs

(* The row after an exchange adds to the row only what belongs there.      *)
LEMMA ExchangedAdds ==
    ASSUME IInv, NEW p \in Peer, NEW row \in Exchanged(p)
    PROVE  \E new \in Row : /\ row = Upsert(peers[p], new)
                            /\ \A a \in new \ {AnyAddr} : <<p, a>> \in owned
<1>1. CASE row = peers[p]
    <2>1. {} \in Row /\ row = Upsert(peers[p], {})
        BY <1>1, SMT DEF Row, Upsert
    <2> QED
        BY <2>1, Zenon
<1>2. CASE row = Upsert(peers[p], Listens(p))
    BY <1>2, ListensOwn, Zenon
<1> QED
    BY <1>1, <1>2, Zenon DEF Exchanged

-----------------------------------------------------------------------------
LEMMA InitHolds == Init => IInv
<1> SUFFICES ASSUME Init PROVE IInv
    OBVIOUS
<1> USE PeerTypes, AddrTypes, HomeTypes, BoundTypes
<1>1. home \in [Port -> Place] /\ owned \subseteq Peer \X Addr /\ HomeIsOwned
    BY SMTT(30) DEF Init, Place, HomeIsOwned
<1>2. 0 \in Start
    BY SMT DEF Start
<1>3. TypeOK
    BY <1>1, <1>2, SMTT(30) DEF Init, TypeOK, NoConn, Place, Row
<1>4. ConnIsOwned /\ RowsBelong
    BY SMTT(30) DEF Init, ConnIsOwned, RowsBelong
<1> QED
    BY <1>1, <1>3, <1>4, Zenon DEF IInv

(* The network and the bridge: nothing is written, and what is owned grows. *)
LEMMA NetworkStep ==
    ASSUME IInv, NEW x \in Port
    PROVE  /\ \A a \in Addr : Appear(x, a) => IInv'
           /\ Announce(x) \/ Leave(x) => IInv'
<1> USE PeerTypes, AddrTypes, BoundTypes
<1>1. ASSUME NEW a \in Addr, Appear(x, a) PROVE IInv'
    <2>1. TypeOK'
        BY <1>1, SMTT(30) DEF IInv, TypeOK, Place, Appear, bridgeVars, streamVars, tableVars, callVars
    <2>2. HomeIsOwned' /\ ConnIsOwned'
        BY <1>1, SMTT(30) DEF IInv, TypeOK, Place, Appear, callVars, HomeIsOwned, ConnIsOwned
    <2>3. RowsBelong'
        BY <1>1, SameRows, Zenon DEF Appear, tableVars, callVars
    <2> QED
        BY <2>1, <2>2, <2>3, Zenon DEF IInv
<1>2. ASSUME Announce(x) PROVE IInv'
    <2>1. home[x] \in Addr /\ restarts \in Start /\ arrivals \in [Start -> Seq(Addr)]
        BY <1>2, SMT DEF IInv, TypeOK, Place, Announce
    <2>2. arrivals' \in [Start -> Seq(Addr)]
        BY <1>2, <2>1, SMTT(30) DEF Announce
    <2>3. resolved' \in [Port -> Place]
        BY <1>2, <2>1, SMTT(30) DEF IInv, TypeOK, Place, Announce
    <2>4. TypeOK'
        BY <1>2, <2>2, <2>3, ZenonT(40)
           DEF IInv, TypeOK, Announce, netVars, streamVars, tableVars, callVars
    <2>5. HomeIsOwned' /\ ConnIsOwned'
        BY <1>2, ZenonT(40) DEF IInv, Announce, netVars, callVars, HomeIsOwned, ConnIsOwned
    <2>6. RowsBelong'
        BY <1>2, SameRows, Zenon DEF Announce, netVars, tableVars, callVars
    <2> QED
        BY <2>4, <2>5, <2>6, Zenon DEF IInv
<1>3. ASSUME Leave(x) PROVE IInv'
    <2>1. restarts \in Start /\ departures \in [Start -> Seq(Addr)] /\ resolved[x] \in Place
        BY SMT DEF IInv, TypeOK
    <2>2. departures' \in [Start -> Seq(Addr)]
        BY <1>3, <2>1, SMTT(30) DEF Leave, Place
    <2>3. /\ resolved' \in [Port -> Place] /\ home' \in [Port -> Place]
          /\ moves' \in 0..MaxMove
        BY <1>3, SMTT(30) DEF IInv, TypeOK, Place, Leave
    <2>4. TypeOK'
        BY <1>3, <2>2, <2>3, ZenonT(40)
           DEF IInv, TypeOK, Leave, streamVars, tableVars, callVars
    <2>5. HomeIsOwned' /\ ConnIsOwned'
        BY <1>3, SMTT(30) DEF IInv, TypeOK, Leave, callVars, HomeIsOwned, ConnIsOwned
    <2>6. RowsBelong'
        BY <1>3, SameRows, Zenon DEF Leave, tableVars, callVars
    <2> QED
        BY <2>4, <2>5, <2>6, Zenon DEF IInv
<1> QED
    BY <1>1, <1>2, <1>3, Zenon

(* The restart of the transport, and peer_stream between its streams.      *)
LEMMA RestartStep ==
    ASSUME IInv, \/ StopTransport \/ StartTransport
                 \/ Subscribe \/ StreamsEnd \/ SeeStop
    PROVE  IInv'
<1> USE AddrTypes, BoundTypes
<1>1. UNCHANGED <<home, owned, peers, conn, crossed>>
    BY ZenonT(40) DEF StopTransport, StartTransport, Subscribe, StreamsEnd, SeeStop,
           netVars, bridgeVars, tableVars, callVars
<1>2. HomeIsOwned' /\ ConnIsOwned' /\ RowsBelong'
    BY <1>1, SameRows, ZenonT(40) DEF IInv, HomeIsOwned, ConnIsOwned
<1>3. TypeOK'
    <2>1. CASE StopTransport
        <3>1. restarts' \in Start
            BY <2>1, SMT DEF StopTransport, IInv, TypeOK, Start
        <3>2. resolved' \in [Port -> Place]
            BY <2>1, SMT DEF StopTransport, Place
        <3> QED
            BY <2>1, <3>1, <3>2, ZenonT(40)
               DEF StopTransport, IInv, TypeOK, netVars, streamVars, tableVars, callVars
    <2>2. CASE StartTransport
        BY <2>2, ZenonT(40)
           DEF StartTransport, IInv, TypeOK, netVars, streamVars, tableVars, callVars
    <2>3. CASE Subscribe \/ StreamsEnd \/ SeeStop
        BY <2>3, ZenonT(40) DEF Subscribe, StreamsEnd, SeeStop, IInv, TypeOK,
               netVars, bridgeVars, tableVars, callVars
    <2> QED
        BY <2>1, <2>2, <2>3, Zenon
<1> QED
    BY <1>2, <1>3, Zenon DEF IInv

(* peer_stream.                                                            *)
LEMMA StreamStep ==
    ASSUME IInv, TakeArrival \/ TakeDeparture \/ DialErr
    PROVE  IInv'
<1> USE AddrTypes, BoundTypes
<1>1. UNCHANGED <<home, owned, peers, conn, crossed>>
    BY ZenonT(40) DEF TakeArrival, TakeDeparture, DialErr, netVars, callVars
<1>2. HomeIsOwned' /\ ConnIsOwned' /\ RowsBelong'
    BY <1>1, SameRows, ZenonT(40) DEF IInv, HomeIsOwned, ConnIsOwned
<1>3. reads \in Start /\ arrivals \in [Start -> Seq(Addr)] /\ departures \in [Start -> Seq(Addr)]
    BY Zenon DEF IInv, TypeOK
<1>4. TypeOK'
    <2>1. CASE TakeArrival
        <3>1. arrivals[reads] \in Seq(Addr) /\ arrivals[reads] # <<>>
            BY <2>1, <1>3, Zenon DEF TakeArrival
        <3>2. Head(arrivals[reads]) \in Addr /\ Tail(arrivals[reads]) \in Seq(Addr)
            BY <3>1, SMT
        <3>3. arrivals' \in [Start -> Seq(Addr)]
            BY <2>1, <1>3, <3>2, SMT DEF TakeArrival
        <3>4. known' \subseteq Addr /\ dial' \in Place /\ dial' \in known' \cup {Nowhere}
            BY <2>1, <3>2, SMTT(30) DEF TakeArrival, IInv, TypeOK, Place
        <3> QED
            BY <2>1, <3>3, <3>4, ZenonT(40)
               DEF TakeArrival, IInv, TypeOK, netVars, streamVars, callVars
    <2>2. CASE TakeDeparture
        <3>1. departures[reads] \in Seq(Addr) /\ departures[reads] # <<>>
            BY <2>2, <1>3, Zenon DEF TakeDeparture
        <3>2. Tail(departures[reads]) \in Seq(Addr)
            BY <3>1, SMT
        <3>3. departures' \in [Start -> Seq(Addr)]
            BY <2>2, <1>3, <3>2, SMT DEF TakeDeparture
        <3>4. /\ known' \subseteq Addr
              /\ told' \in [Peer -> {"nothing", "connected", "disconnected"}]
            BY <2>2, ZenonT(40) DEF IInv, TypeOK, TakeDeparture
        <3>5. dial' = Nowhere
            BY <2>2, Zenon DEF TakeDeparture
        <3>6. dial' \in Place /\ dial' \in known' \cup {Nowhere}
            BY <3>5, SMT DEF Place
        <3> QED
            BY <2>2, <3>3, <3>4, <3>6, ZenonT(40)
               DEF TakeDeparture, IInv, TypeOK, netVars, streamVars, callVars
    <2>3. CASE DialErr
        <3>1. known' \subseteq Addr /\ dial' \in Place /\ dial' \in known' \cup {Nowhere}
            BY <2>3, SMT DEF DialErr, IInv, TypeOK, Place
        <3> QED
            BY <2>3, <3>1, ZenonT(40)
               DEF DialErr, IInv, TypeOK, netVars, bridgeVars, streamVars, callVars
    <2> QED
        BY <2>1, <2>2, <2>3, Zenon
<1> QED
    BY <1>2, <1>4, Zenon DEF IInv

LEMMA DialStep ==
    ASSUME IInv, NEW x \in Port, DialOk(x)
    PROVE  IInv'
<1> USE PeerTypes, AddrTypes, BoundTypes
<1> DEFINE p == Of[x]
<1>1. p \in Peer /\ dial \in Addr /\ <<p, dial>> \in owned
    BY SMTT(30) DEF DialOk, IInv, TypeOK, Place, HomeIsOwned
<1> PICK row \in Exchanged(p) :
        /\ peers' = [peers EXCEPT ![p] = IF p = Self THEN row ELSE row \cup {dial}]
        /\ repeated' = (repeated \/ (p # Self /\ dial \in row))
    BY Zenon DEF DialOk
<1> HIDE DEF p
<1> PICK new \in Row : /\ row = Upsert(peers[p], new)
                       /\ \A a \in new \ {AnyAddr} : <<p, a>> \in owned
    BY <1>1, ExchangedAdds, Zenon
<1> DEFINE add == IF p = Self THEN new ELSE new \cup {dial}
<1>2. add \in Row /\ \A a \in add \ {AnyAddr} : <<p, a>> \in owned
    BY <1>1, SMTT(30) DEF Row
<1>3. peers' = [peers EXCEPT ![p] = Upsert(@, add)]
    <2>1. (IF p = Self THEN row ELSE row \cup {dial}) = Upsert(peers[p], add)
        BY SMTT(30) DEF Upsert
    <2>2. peers \in [Peer -> Row]
        BY Zenon DEF IInv, TypeOK
    <2> HIDE DEF add
    <2> QED
        BY <1>1, <2>1, <2>2, Zenon
<1>4. owned' = owned /\ crossed' = crossed
    BY Zenon DEF DialOk, netVars, callVars
<1> HIDE DEF add
<1>5. \A a \in add \ {AnyAddr} : Belongs(p, a)'
    BY <1>1, <1>2, <1>4, Zenon DEF Belongs
<1>6. peers' \in [Peer -> Row] /\ RowsBelong'
    BY <1>1, <1>2, <1>3, <1>4, <1>5, SetRow, Zenon
<1>7. TypeOK'
    <2>1. told' \in [Peer -> {"nothing", "connected", "disconnected"}]
        BY SMTT(30) DEF DialOk, IInv, TypeOK
    <2>2. repeated' \in BOOLEAN
        BY Zenon
    <2>3. dial' \in Place /\ dial' \in known' \cup {Nowhere}
        BY SMT DEF DialOk, Place
    <2> QED
        BY <1>6, <2>1, <2>2, <2>3, ZenonT(40)
           DEF DialOk, IInv, TypeOK, netVars, bridgeVars, streamVars, callVars
<1>8. HomeIsOwned' /\ ConnIsOwned'
    BY ZenonT(40) DEF DialOk, IInv, netVars, callVars, HomeIsOwned, ConnIsOwned
<1> QED
    BY <1>6, <1>7, <1>8, Zenon DEF IInv

(* The calls of the node.                                                  *)
LEMMA AddPeerStep ==
    ASSUME IInv, NEW p \in Peer, NEW a \in Addr, AddPeer(p, a)
    PROVE  IInv'
<1> USE AddrTypes, BoundTypes
<1>1. {a} \in Row /\ \A b \in {a} \ {AnyAddr} : Belongs(p, b)'
    BY SMTT(30) DEF AddPeer, Row, Belongs
<1>2. peers' \in [Peer -> Row] /\ RowsBelong'
    BY <1>1, SetRow, ZenonT(40) DEF AddPeer
<1>3. /\ known' \subseteq Addr /\ owned' \subseteq Peer \X Addr /\ calls' \in 0..MaxApi
      /\ dial' \in known' \cup {Nowhere}
    BY SMTT(30) DEF AddPeer, Call, IInv, TypeOK
<1>4. TypeOK'
    BY <1>2, <1>3, ZenonT(40) DEF AddPeer, IInv, TypeOK, bridgeVars, streamVars
<1>5. HomeIsOwned' /\ ConnIsOwned'
    BY SMTT(30) DEF AddPeer, IInv, HomeIsOwned, ConnIsOwned
<1> QED
    BY <1>2, <1>4, <1>5, Zenon DEF IInv

LEMMA ConnectStep ==
    ASSUME IInv, NEW x \in Port, Connect(x)
    PROVE  IInv'
<1> USE PeerTypes, AddrTypes, BoundTypes
<1> DEFINE p == Of[x]
<1>1. p \in Peer /\ home[x] \in Addr /\ <<p, home[x]>> \in owned
    BY SMTT(30) DEF Connect, IInv, TypeOK, Place, HomeIsOwned
<1>2. conn' = [peer |-> p, addr |-> home[x]]
    BY Zenon DEF Connect
<1> PICK row \in Exchanged(p) : peers' = [peers EXCEPT ![p] = row]
    BY Zenon DEF Connect
<1> HIDE DEF p
<1> PICK new \in Row : /\ row = Upsert(peers[p], new)
                       /\ \A a \in new \ {AnyAddr} : <<p, a>> \in owned
    BY <1>1, ExchangedAdds, Zenon
<1>3. peers' = [peers EXCEPT ![p] = Upsert(@, new)]
    <2>1. peers \in [Peer -> Row]
        BY Zenon DEF IInv, TypeOK
    <2> QED
        BY <1>1, <2>1, Zenon
<1>4. owned' = owned /\ crossed' = crossed /\ home' = home
    BY Zenon DEF Connect, netVars
<1>5. \A a \in new \ {AnyAddr} : Belongs(p, a)'
    BY <1>1, <1>4, Zenon DEF Belongs
<1>6. peers' \in [Peer -> Row] /\ RowsBelong'
    BY <1>1, <1>3, <1>4, <1>5, SetRow, Zenon
<1>7. conn' \in [peer : Peer, addr : Place] /\ calls' \in 0..MaxApi
    BY <1>1, <1>2, SMTT(30) DEF Connect, Call, IInv, TypeOK, Place
<1>8. TypeOK'
    BY <1>6, <1>7, ZenonT(40) DEF Connect, IInv, TypeOK, netVars, bridgeVars, streamVars
<1>9. HomeIsOwned' /\ ConnIsOwned'
    BY <1>1, <1>2, <1>4, SMTT(30) DEF IInv, HomeIsOwned, ConnIsOwned
<1> QED
    BY <1>6, <1>8, <1>9, Zenon DEF IInv

LEMMA ConnectStoreStep ==
    ASSUME IInv, ConnectStore
    PROVE  IInv'
<1> USE PeerTypes, AddrTypes, BoundTypes
<1>1. conn.peer \in Peer /\ conn.addr \in Addr /\ <<conn.peer, conn.addr>> \in owned
    BY SMT DEF ConnectStore, IInv, ConnIsOwned, TypeOK
<1>2. /\ {conn.addr} \in Row
      /\ \A b \in {conn.addr} \ {AnyAddr} : Belongs(conn.peer, b)
    BY <1>1, SMTT(30) DEF Row, Belongs
<1>3. owned' = owned /\ crossed' = crossed
    BY Zenon DEF ConnectStore, netVars
<1>4. PICK p \in Peer, new \in Row :
        /\ peers' = [peers EXCEPT ![p] = Upsert(@, new)]
        /\ \A b \in new \ {AnyAddr} : Belongs(p, b)
    BY <1>1, <1>2, Zenon DEF ConnectStore
<1>5. \A b \in new \ {AnyAddr} : Belongs(p, b)'
    BY <1>3, <1>4, Zenon DEF Belongs
<1>6. peers' \in [Peer -> Row] /\ RowsBelong'
    BY <1>3, <1>4, <1>5, SetRow, Zenon
<1>7. /\ known' \subseteq Addr /\ dial' \in known' \cup {Nowhere}
      /\ conn' \in [peer : Peer, addr : Place]
    BY <1>1, SMTT(30) DEF ConnectStore, IInv, TypeOK, NoConn, Place
<1>8. TypeOK'
    BY <1>6, <1>7, ZenonT(40) DEF ConnectStore, IInv, TypeOK, netVars, bridgeVars, streamVars
<1>9. HomeIsOwned' /\ ConnIsOwned'
    BY ZenonT(40) DEF ConnectStore, IInv, netVars, HomeIsOwned, ConnIsOwned
<1> QED
    BY <1>6, <1>8, <1>9, Zenon DEF IInv

LEMMA IncomingStep ==
    ASSUME IInv, NEW x \in Port, Incoming(x)
    PROVE  IInv'
<1> USE PeerTypes, AddrTypes, BoundTypes
<1>1. Of[x] \in Peer /\ home[x] # Nowhere
    BY SMT DEF Incoming
<1>2. /\ {Listen(x)} \in Row
      /\ \A b \in {Listen(x)} \ {AnyAddr} : <<Of[x], b>> \in owned
    <2>1. /\ Listen(x) \in Addr \cup {AnyAddr}
          /\ Listen(x) # AnyAddr => <<Of[x], Listen(x)>> \in owned
        BY <1>1, ListenOwn, Zenon
    <2> QED
        BY <2>1, SMT DEF Row
<1>3. owned' = owned /\ crossed' = crossed
    BY Zenon DEF Incoming, netVars
<1>4. PICK p \in Peer, new \in Row :
        /\ peers' = [peers EXCEPT ![p] = Upsert(@, new)]
        /\ \A b \in new \ {AnyAddr} : <<p, b>> \in owned
    BY <1>1, <1>2, Zenon DEF Incoming
<1>5. \A b \in new \ {AnyAddr} : Belongs(p, b)'
    BY <1>3, <1>4, Zenon DEF Belongs
<1>6. peers' \in [Peer -> Row] /\ RowsBelong'
    BY <1>3, <1>4, <1>5, SetRow, Zenon
<1>7. calls' \in 0..MaxApi
    BY SMT DEF Incoming, Call, IInv, TypeOK
<1>8. TypeOK'
    BY <1>6, <1>7, ZenonT(40) DEF Incoming, IInv, TypeOK, netVars, bridgeVars, streamVars
<1>9. HomeIsOwned' /\ ConnIsOwned'
    BY ZenonT(40) DEF Incoming, IInv, netVars, HomeIsOwned, ConnIsOwned
<1> QED
    BY <1>6, <1>8, <1>9, Zenon DEF IInv

(* A send: what comes in is the answerer's, and the send has crossed.      *)
LEMMA SendStep ==
    ASSUME IInv, NEW p \in Peer, NEW x \in Port, SendExchange(p, x)
    PROVE  IInv'
<1> USE PeerTypes, AddrTypes, BoundTypes
<1>1. PICK q \in Peer : q = Of[x]
    BY Zenon
<1>2. Listens(q) \in Row /\ \A b \in Listens(q) \ {AnyAddr} : <<q, b>> \in owned
    BY ListensOwn, Zenon
<1>3. /\ owned' = owned /\ crossed' = crossed \cup {<<p, q>>}
      /\ peers' = [peers EXCEPT ![p] = Upsert(@, Listens(q))]
    BY <1>1, Zenon DEF SendExchange, netVars
<1>4. \A b \in Listens(q) \ {AnyAddr} : Belongs(p, b)'
    BY <1>2, <1>3, Zenon DEF Belongs
<1>5. owned \subseteq owned' /\ crossed \subseteq crossed'
    BY <1>3, Zenon
<1>6. peers' \in [Peer -> Row] /\ RowsBelong'
    BY <1>2, <1>3, <1>4, <1>5, SetRow, Zenon
<1>7. calls' \in 0..MaxApi
    BY SMT DEF SendExchange, Call, IInv, TypeOK
<1>8. crossed' \subseteq Peer \X Peer
    BY <1>3, SMT DEF IInv, TypeOK
<1>9. TypeOK'
    BY <1>6, <1>7, <1>8, ZenonT(40)
       DEF SendExchange, IInv, TypeOK, netVars, bridgeVars, streamVars
<1>10. HomeIsOwned' /\ ConnIsOwned'
    BY ZenonT(40) DEF SendExchange, IInv, netVars, HomeIsOwned, ConnIsOwned
<1> QED
    BY <1>6, <1>9, <1>10, Zenon DEF IInv

-----------------------------------------------------------------------------
(* Whatever announcements, exchanges, calls and sends bring in, and        *)
(* however peers move between a handshake and the store of its result, an  *)
(* address in the peer table is one that its peer has had, or one of a     *)
(* node that has answered a send meant for that peer (try_send).           *)
THEOREM TableIsTrue == Spec => []AddressesBelong
<1>1. Init => IInv
    BY InitHolds
<1>2. IInv /\ [Next]_vars => IInv'
  <2> SUFFICES ASSUME IInv, [Next]_vars PROVE IInv'
      OBVIOUS
  <2>1. CASE \E x \in Port, a \in Addr : Appear(x, a)
      BY <2>1, NetworkStep, Zenon
  <2>2. CASE \E x \in Port : Announce(x) \/ Leave(x) \/ Connect(x) \/ Incoming(x) \/ DialOk(x)
      BY <2>2, NetworkStep, ConnectStep, IncomingStep, DialStep, Zenon
  <2>3. CASE \E p \in Peer, a \in Addr : AddPeer(p, a)
      BY <2>3, AddPeerStep, Zenon
  <2>4. CASE \E p \in Peer, x \in Port : SendExchange(p, x)
      BY <2>4, SendStep, Zenon
  <2>5. CASE StopTransport \/ StartTransport \/ Subscribe \/ StreamsEnd \/ SeeStop
      BY <2>5, RestartStep, Zenon
  <2>6. CASE TakeArrival \/ TakeDeparture \/ DialErr
      BY <2>6, StreamStep, Zenon
  <2>7. CASE ConnectStore
      BY <2>7, ConnectStoreStep, Zenon
  <2>8. CASE UNCHANGED vars
      <3>1. TypeOK'
          BY <2>8, ZenonT(40) DEF vars, netVars, bridgeVars, streamVars, tableVars, callVars,
                 IInv, TypeOK
      <3>2. HomeIsOwned' /\ ConnIsOwned' /\ RowsBelong'
          BY <2>8, SameRows, ZenonT(40) DEF vars, netVars, tableVars, callVars, IInv,
                 HomeIsOwned, ConnIsOwned
      <3> QED
          BY <3>1, <3>2, Zenon DEF IInv
  <2> QED
      BY <2>1, <2>2, <2>3, <2>4, <2>5, <2>6, <2>7, <2>8, ZenonT(40) DEF Next
<1>3. IInv => AddressesBelong
    BY Zenon DEF IInv, RowsBelong, Belongs, AddressesBelong
<1> QED
    BY <1>1, <1>2, <1>3, PTL DEF Spec
=============================================================================
