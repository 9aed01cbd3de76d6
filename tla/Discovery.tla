------------------------------- MODULE Discovery ------------------------------
(***************************************************************************)
(* How the peer table of pathweave-core is filled: the QUIC transport's    *)
(* mDNS bridge feeds arrivals and departures to peer_stream (router.rs),   *)
(* which dials every address not in known_addrs; connect, add_peer, sends  *)
(* and incoming sessions write the table beside it, and every session's    *)
(* address exchange adds what the other side says it listens on.  A row of *)
(* the table is a set here, with a note when its Vec repeats an address.   *)
(***************************************************************************)
EXTENDS Naturals, Sequences, FiniteSets, SequencesExt

CONSTANTS
    Peer,           \* nodes on the network, this one included
    Self,           \* this one
    Port,           \* their QUIC transports; a node may register several
    Of,             \* Of[x]: the node x belongs to
    Addr,           \* socket addresses
    AnyAddr,        \* the wildcard address, as in 0.0.0.0:9001
    Nowhere,        \* not an address
    Wild,           \* the transports that listen on the wildcard address
    Homes,          \* where the transports may be when this node starts
    MaxMove,        \* bound: transports of the network coming and going
    MaxRestart,     \* bound: restarts of this node's transport
    MaxApi          \* bound: add_peer, connect, sends and incoming sessions

ASSUME PeerTypes == Self \in Peer /\ Of \in [Port -> Peer] /\ Wild \subseteq Port
ASSUME AddrTypes == AnyAddr \notin Addr /\ Nowhere \notin Addr \cup {AnyAddr}
ASSUME HomeTypes ==
    /\ Homes \subseteq [Port -> Addr \cup {Nowhere}]
    /\ \A h \in Homes : \A x, y \in Port : h[x] = h[y] => x = y \/ h[x] = Nowhere
ASSUME BoundTypes == MaxMove \in Nat /\ MaxRestart \in Nat /\ MaxApi \in Nat

VARIABLES
    home,           \* home[x]: where x is bound now, if anywhere
    started,        \* the watch that health_monitor sets for peer_stream
    resolved,       \* resolved[x]: the bridge's record of x's service
    arrivals,       \* arrivals[g]: the channel to discover() of start g
    departures,     \* departures[g]: its channel to departures()
    stream,         \* what peer_stream waits for: a start, events, or a stop
    reads,          \* the start whose channels it has taken
    known,          \* known_addrs
    peers,          \* the peer table: peers[p] is the set of p's addresses
    repeated,       \* some row of it lists an address twice
    dial,           \* the address peer_stream is dialling, if any
    conn,           \* connect, between its handshake and its stores
    told,           \* told[p]: the last event fired about p
    owned,          \* history: pairs of a peer and an address it has had, or
                    \* was said to have by a caller of add_peer
    crossed,        \* history: <<p, q>> when q has answered a send to p
    moves, restarts, calls      \* counters for the bounds

netVars == <<home, owned, moves>>
bridgeVars == <<started, resolved, arrivals, departures, restarts>>
streamVars == <<stream, reads>>
tableVars == <<known, peers, repeated, dial, told>>
callVars == <<conn, crossed, calls>>
vars == <<netVars, bridgeVars, streamVars, tableVars, callVars>>

Place == Addr \cup {Nowhere}
Row == SUBSET (Addr \cup {AnyAddr})
Start == 0..MaxRestart      \* restarts numbers the starts

TypeOK ==
    /\ home \in [Port -> Place]
    /\ started \in BOOLEAN
    /\ resolved \in [Port -> Place]
    /\ arrivals \in [Start -> Seq(Addr)] /\ departures \in [Start -> Seq(Addr)]
    /\ stream \in {"start", "event", "stop"} /\ reads \in Start
    /\ known \subseteq Addr
    /\ peers \in [Peer -> Row] /\ repeated \in BOOLEAN
    /\ dial \in Place /\ dial \in known \cup {Nowhere}
    /\ told \in [Peer -> {"nothing", "connected", "disconnected"}]
    /\ conn \in [peer : Peer, addr : Place]
    /\ owned \subseteq Peer \X Addr /\ crossed \subseteq Peer \X Peer
    /\ moves \in 0..MaxMove /\ restarts \in Start /\ calls \in 0..MaxApi

NoConn == [peer |-> Self, addr |-> Nowhere]

(* The other nodes may be up before this one starts its transport.         *)
Init ==
    /\ home \in Homes
    /\ owned = {<<Of[x], home[x]>> : x \in {y \in Port : home[y] # Nowhere}}
    /\ started = TRUE
    /\ resolved = [x \in Port |-> Nowhere]
    /\ arrivals = [g \in Start |-> <<>>] /\ departures = [g \in Start |-> <<>>]
    /\ stream = "start" /\ reads = 0
    /\ known = {}
    /\ peers = [p \in Peer |-> {}] /\ repeated = FALSE
    /\ dial = Nowhere
    /\ told = [p \in Peer |-> "nothing"]
    /\ conn = NoConn
    /\ crossed = {}
    /\ moves = 0 /\ restarts = 0 /\ calls = 0

-----------------------------------------------------------------------------
(* The network, and the bridge that translates mDNS events.                *)

Appear(x, a) ==
    /\ moves < MaxMove
    /\ moves' = moves + 1
    /\ home[x] = Nowhere
    /\ \A y \in Port : home[y] # a
    /\ home' = [home EXCEPT ![x] = a]
    /\ owned' = owned \cup {<<Of[x], a>>}
    /\ UNCHANGED <<bridgeVars, streamVars, tableVars, callVars>>

(* mDNS announces a present service when it comes and from time to time.   *)
(* ServiceResolved: its address goes to discover() and into the record.    *)
Announce(x) ==
    /\ started
    /\ home[x] # Nowhere
    /\ home[x] \notin ToSet(arrivals[restarts])
    /\ resolved' = [resolved EXCEPT ![x] = home[x]]
    /\ arrivals' = [arrivals EXCEPT ![restarts] = Append(@, home[x])]
    /\ UNCHANGED <<netVars, started, departures, restarts, streamVars, tableVars, callVars>>

(* ServiceRemoved names the service only: its address is looked up.        *)
Leave(x) ==
    /\ moves < MaxMove
    /\ moves' = moves + 1
    /\ home[x] # Nowhere
    /\ home' = [home EXCEPT ![x] = Nowhere]
    /\ departures' = IF resolved[x] = Nowhere THEN departures
                     ELSE [departures EXCEPT ![restarts] = Append(@, resolved[x])]
    /\ resolved' = [resolved EXCEPT ![x] = Nowhere]
    /\ UNCHANGED <<owned, started, arrivals, restarts, streamVars, tableVars, callVars>>

(* health_monitor clears the watch and stops the transport: the bridge and *)
(* its record go.  What the streams hold is still read, known_addrs stays. *)
StopTransport ==
    /\ started
    /\ restarts < MaxRestart
    /\ restarts' = restarts + 1
    /\ started' = FALSE
    /\ resolved' = [x \in Port |-> Nowhere]
    /\ UNCHANGED <<netVars, arrivals, departures, streamVars, tableVars, callVars>>

(* It starts it again, with a new bridge and new channels, and sets the    *)
(* watch; a start that fails is tried again.                               *)
StartTransport ==
    /\ ~started
    /\ started' = TRUE
    /\ UNCHANGED <<netVars, resolved, arrivals, departures, restarts, streamVars,
                   tableVars, callVars>>

-----------------------------------------------------------------------------
(* peer_stream between its streams: it takes the channels of this start,   *)
(* reads them until the bridge is gone and both are empty, then waits for  *)
(* the watch to be clear.  A watch has only its present value: a stop and  *)
(* a start that both come before it looks leave it waiting.                *)

Subscribe ==
    /\ stream = "start"
    /\ started
    /\ stream' = "event" /\ reads' = restarts
    /\ UNCHANGED <<netVars, bridgeVars, tableVars, callVars>>

StreamsEnd ==
    /\ stream = "event" /\ dial = Nowhere
    /\ reads # restarts
    /\ arrivals[reads] = <<>> /\ departures[reads] = <<>>
    /\ stream' = "stop"
    /\ UNCHANGED <<netVars, bridgeVars, reads, tableVars, callVars>>

SeeStop ==
    /\ stream = "stop"
    /\ ~started
    /\ stream' = "start"
    /\ UNCHANGED <<netVars, bridgeVars, reads, tableVars, callVars>>

-----------------------------------------------------------------------------
(* Writes to the table.                                                    *)

(* upsert_peer_addresses, and the guarded push of connect and add_peer.    *)
Upsert(row, new) == row \cup new

(* What x says it listens on; what p's transports say (local_addresses).   *)
Listen(x) == IF x \in Wild THEN AnyAddr ELSE home[x]
Listens(p) == {Listen(x) : x \in {y \in Port : Of[y] = p /\ home[y] # Nowhere}}

(* p's row after the address exchange of a session this node has opened,   *)
(* which may time out: the answerer sends the addresses of all transports. *)
Exchanged(p) == {peers[p], Upsert(peers[p], Listens(p))}

(* peer_stream takes an arrival: an address that is known is skipped, any  *)
(* other is dialled.  The select of the two streams may favour either.     *)
TakeArrival ==
    /\ stream = "event" /\ dial = Nowhere
    /\ arrivals[reads] # <<>>
    /\ arrivals' = [arrivals EXCEPT ![reads] = Tail(@)]
    /\ LET a == Head(arrivals[reads])
       IN  IF a \in known
           THEN UNCHANGED <<known, dial>>
           ELSE known' = known \cup {a} /\ dial' = a
    /\ UNCHANGED <<netVars, started, resolved, departures, restarts, streamVars,
                   peers, repeated, told, callVars>>

(* try_connect succeeds with whoever is there: the exchange is upserted,   *)
(* then, unless it is this node itself, the announcement is pushed and     *)
(* PeerConnected fired.                                                    *)
DialOk(x) ==
    /\ dial # Nowhere
    /\ started
    /\ home[x] = dial
    /\ dial' = Nowhere
    /\ LET p == Of[x]
       IN  /\ \E row \in Exchanged(p) :
                 /\ peers' = [peers EXCEPT ![p] = IF p = Self THEN row ELSE row \cup {dial}]
                 /\ repeated' = (repeated \/ (p # Self /\ dial \in row))
           /\ told' = IF p = Self THEN told ELSE [told EXCEPT ![p] = "connected"]
    /\ UNCHANGED <<netVars, bridgeVars, streamVars, known, callVars>>

(* Fault: a failed address stays known.                                    *)
DialErrKeepsKnown ==
    /\ dial # Nowhere
    /\ dial' = Nowhere
    /\ UNCHANGED <<netVars, bridgeVars, streamVars, known, peers, repeated, told, callVars>>

(* A failed dial forgets the address, so that the next announcement is     *)
(* tried.                                                                  *)
DialErr ==
    /\ dial # Nowhere
    /\ known' = known \ {dial}
    /\ dial' = Nowhere
    /\ UNCHANGED <<netVars, bridgeVars, streamVars, peers, repeated, told, callVars>>

(* peer_stream takes a departure: some peer that has the address in the    *)
(* table is reported gone; the table keeps the address.                    *)
TakeDeparture ==
    /\ stream = "event" /\ dial = Nowhere
    /\ departures[reads] # <<>>
    /\ departures' = [departures EXCEPT ![reads] = Tail(@)]
    /\ LET a == Head(departures[reads])
           holders == {p \in Peer : a \in peers[p]}
       IN  \/ /\ holders = {}
              /\ UNCHANGED <<known, told>>
           \/ /\ known' = known \ {a}
              /\ \E p \in holders : told' = [told EXCEPT ![p] = "disconnected"]
    /\ UNCHANGED <<netVars, started, resolved, arrivals, restarts, streamVars,
                   peers, repeated, dial, callVars>>

-----------------------------------------------------------------------------
(* Calls of the node, and sessions others open to it.  connect and         *)
(* add_peer take the node mutably, so neither overlaps a connect.          *)

Call ==
    /\ calls < MaxApi
    /\ calls' = calls + 1

AddPeer(p, a) ==
    /\ Call
    /\ conn = NoConn
    /\ p # Self
    /\ known' = known \cup {a}
    /\ peers' = [peers EXCEPT ![p] = Upsert(@, {a})]
    /\ owned' = owned \cup {<<p, a>>}
    /\ UNCHANGED <<home, moves, bridgeVars, streamVars, repeated, dial, told, conn, crossed>>

(* connect dials an address of a transport x; try_connect upserts the      *)
(* exchange.                                                               *)
Connect(x) ==
    /\ Call
    /\ conn = NoConn
    /\ home[x] # Nowhere
    /\ conn' = [peer |-> Of[x], addr |-> home[x]]
    /\ \E row \in Exchanged(Of[x]) : peers' = [peers EXCEPT ![Of[x]] = row]
    /\ UNCHANGED <<netVars, bridgeVars, streamVars, known, repeated, dial, told, crossed>>

(* connect goes on to store the address.  It fires no event.               *)
ConnectStore ==
    /\ conn # NoConn
    /\ known' = known \cup {conn.addr}
    /\ peers' = [peers EXCEPT ![conn.peer] = Upsert(@, {conn.addr})]
    /\ conn' = NoConn
    /\ UNCHANGED <<netVars, bridgeVars, streamVars, repeated, dial, told, crossed, calls>>

(* Fault: the exchange is stored under local_peer_id, which is also in     *)
(* scope there.                                                            *)
IncomingUnderSelf(x) ==
    /\ Call
    /\ home[x] # Nowhere
    /\ peers' = [peers EXCEPT ![Self] = Upsert(@, {Listen(x)})]
    /\ UNCHANGED <<netVars, bridgeVars, streamVars, known, repeated, dial, told, conn, crossed>>

(* handle_incoming: a node has opened a session with its transport x, and  *)
(* sent the address of that one.                                           *)
Incoming(x) ==
    /\ Call
    /\ home[x] # Nowhere
    /\ peers' = [peers EXCEPT ![Of[x]] = Upsert(@, {Listen(x)})]
    /\ UNCHANGED <<netVars, bridgeVars, streamVars, known, repeated, dial, told, conn, crossed>>

(* try_send, for p, at an address of p's row: the node of x answers, with  *)
(* the addresses of all its transports.  XK accepts only p; but a failed   *)
(* XK evicts the key, the next try is an XX, and XX takes anybody.  The    *)
(* exchange goes under p's name.                                           *)
SendExchange(p, x) ==
    /\ Call
    /\ home[x] \in peers[p]
    /\ peers' = [peers EXCEPT ![p] = Upsert(@, Listens(Of[x]))]
    /\ crossed' = crossed \cup {<<p, Of[x]>>}
    /\ UNCHANGED <<netVars, bridgeVars, streamVars, known, repeated, dial, told, conn>>

Next ==
    \/ \E x \in Port, a \in Addr : Appear(x, a)
    \/ \E x \in Port : Announce(x) \/ Leave(x) \/ Connect(x) \/ Incoming(x) \/ DialOk(x)
    \/ \E p \in Peer, a \in Addr : AddPeer(p, a)
    \/ \E p \in Peer, x \in Port : SendExchange(p, x)
    \/ StopTransport \/ StartTransport
    \/ Subscribe \/ StreamsEnd \/ SeeStop
    \/ TakeArrival \/ TakeDeparture \/ DialErr
    \/ ConnectStore

Spec == Init /\ [][Next]_vars

(* The steps of peer_stream that wait for nobody run, and its select polls *)
(* both streams.  Nothing is assumed of a dial, which may last forever, of *)
(* the watch, nor of a start, which may fail every time.                   *)
FairSpec ==
    /\ Spec
    /\ WF_vars(Subscribe) /\ WF_vars(StreamsEnd) /\ WF_vars(SeeStop)
    /\ SF_vars(TakeArrival) /\ SF_vars(TakeDeparture)

-----------------------------------------------------------------------------
(* Every address in the table, the wildcard apart, is one its peer has     *)
(* had, or one of a node that has answered a send meant for that peer:     *)
(* whatever announcements, exchanges and calls bring in, and however       *)
(* addresses change hands between a handshake and the store of its result, *)
(* only try_send puts another node's addresses under a peer's name.        *)
(* Every variable has its type, too.                                       *)
AddressesBelong ==
    /\ TypeOK
    /\ \A p \in Peer : \A a \in peers[p] \ {AnyAddr} :
          \E q \in Peer : <<q, a>> \in owned /\ (q = p \/ <<p, q>> \in crossed)

(* peer_stream waits for a stop that has come and gone.                    *)
Deaf == stream = "stop" /\ started

Stays(x) ==
    home[x] # Nowhere /\ \A q \in Peer \ {Of[x]} : <<q, home[x]>> \notin owned
Listed(x) == home[x] \in peers[Of[x]]

(* A peer that stays at an address nobody else ever had, goes on being     *)
(* announced and answers when it is dialled over and over ends up in the   *)
(* table with it, unless this node's transport never starts again, a dial  *)
(* never returns, or peer_stream has missed a stop of its transport and no *)
(* other follows.  Nothing else keeps it out: failed dials (peer_stream    *)
(* removes the address from known_addrs), departures, restarts and         *)
(* concurrent calls only delay it.                                         *)
FreshIsListed ==
    \A x \in {y \in Port : Of[y] # Self} :
       <>[]Stays(x) /\ WF_vars(Announce(x)) /\ SF_vars(DialOk(x))
          => <>[]Listed(x) \/ <>[](~started) \/ <>[](dial # Nowhere) \/ <>[]Deaf

(* "Drives peer discovery for a single transport across restarts"          *)
(* (router.rs, of peer_stream): the same, and no stop is missed.           *)
RestartResumesListing ==
    \A x \in {y \in Port : Of[y] # Self} :
       <>[]Stays(x) /\ WF_vars(Announce(x)) /\ SF_vars(DialOk(x))
          => <>[]Listed(x) \/ <>[](~started) \/ <>[](dial # Nowhere)

(* "both sides upsert the received addresses into the peer table" (ADR     *)
(* 017): under the name of the node they came from.                        *)
OwnAddressesOnly ==
    \A p \in Peer : \A a \in peers[p] \ {AnyAddr} : <<p, a>> \in owned

(* "prevents a given address from reaching the handshake or the Vec a      *)
(* second time" (ARCHITECTURE.md): a row of the table has no address       *)
(* twice.                                                                  *)
NoDuplicateAddress == ~repeated

(* "exchange the list of PeerAddress values they are currently advertising *)
(* on active transports" (ADR 017): the table has only addresses a peer    *)
(* advertises.                                                             *)
AdvertisedOnly == \A p \in Peer : AnyAddr \notin peers[p]

Quiet ==
    /\ \A g \in Start : arrivals[g] = <<>> /\ departures[g] = <<>>
    /\ dial = Nowhere

(* "The correct signal is peer absence from the discovery layer"           *)
(* (ARCHITECTURE.md, of PeerDisconnected): once everything is processed, a *)
(* peer last reported gone is not one the discovery layer has.             *)
GoneMeansGone ==
    Quiet => \A x \in Port : told[Of[x]] = "disconnected" => resolved[x] = Nowhere

(* "It drains when the peer next appears via discovery" (store_forward):   *)
(* once everything is processed, a peer that the discovery layer has, and  *)
(* will not be dialled for when it is announced again, has had its         *)
(* PeerConnected, which starts the drain.                                  *)
AppearanceReported ==
    Quiet => \A x \in Port : /\ Of[x] # Self
                             /\ resolved[x] # Nowhere /\ resolved[x] \in known
                             => told[Of[x]] = "connected"
=============================================================================
