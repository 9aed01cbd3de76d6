----------------------------- MODULE BleAdvertising -----------------------------
(***************************************************************************)
(* BleAdvertisingTransport (advertising.rs): virtual connections over       *)
(* broadcast frames.  Each node's dispatcher reads what its bearer hears,   *)
(* drops echoes, and hands a frame to the connection its map holds for the *)
(* source, or opens one.  The map's lock is released between looking the   *)
(* connection up and using it, abort does not wait for a turn that is      *)
(* under way, and connect, stop and the users of connections run meanwhile. *)
(***************************************************************************)
EXTENDS Integers, Sequences, FiniteSets, Functions

CONSTANTS
    Node,           \* nodes in range of one another (their short ids)
    Absent,         \* short ids of nodes out of range
    Dialers,        \* nodes that call connect
    Restarting,     \* nodes whose transport is stopped and started
    Calls,          \* bound: calls of connect, stops and rechecks
    Airings,        \* bound: calls of send_bytes
    Backlog         \* bound: frames one dispatcher is behind its bearer

VARIABLES
    up,             \* up[n]: local_short_id is set
    turn,           \* turn[n]: where n's dispatcher is
    late,           \* late[n]: an aborted dispatcher finishing its turn
    recent,         \* recent[n]: (source, payload) seen within DEDUP_TTL
    scan,           \* scan[n]: frames the bearer has passed on
    connections,    \* connections[n][p]: the connection for p, or 0
    incoming,       \* incoming[n]: connections waiting for accept
    dialing,        \* dialing[n]: peer of a connect past its first lock
    conns,          \* the BroadcastConnections made so far
    air,            \* air[c]: the frame connection c is advertising
    heard,          \* heard[c]: nodes that have heard it
    announced,      \* announced[n]: peers discover() has reported
    aired,          \* history: frames advertised
    lost,           \* history: some frame was not heard by a node in range
    mishap,         \* history: a stop met a dispatcher turn or a connect, or a
                    \* frame was read again after DEDUP_TTL
    calls

nodeVars == <<up, turn, late, recent, scan, connections, incoming, dialing, announced>>
vars == <<nodeVars, conns, air, heard, aired, lost, mishap, calls>>

Id == Node \cup Absent
Conn == DOMAIN conns
None == 0

(* A frame: header, payload, and for the properties which connection sent  *)
(* it and when.  The first payload of every session is the same (the       *)
(* pattern byte in bundle 0), later ones are ciphertexts.                  *)
Hello == 0
Quiet(c) == \A i \in DOMAIN aired : aired[i].via # c
Frame(c) ==
    [dest |-> conns[c].peer, source |-> conns[c].node, via |-> c, id |-> Len(aired) + 1,
     payload |-> IF conns[c].dialled /\ Quiet(c) THEN Hello ELSE Len(aired) + 1]

NoFrame == [dest |-> "", source |-> "", via |-> 0, id |-> 0, payload |-> 0]

(* A dispatcher is off, waiting for scan.next(), or about to use what its  *)
(* lookup of the frame's source found.                                     *)
At(pc, f, tx) == [pc |-> pc, frame |-> f, tx |-> tx]
Off == At("off", NoFrame, None)
Waiting == At("scan", NoFrame, None)
Busy(t) == t.pc = "route"

(* stream: what has been sent into its channel.                            *)
Connection(n, p, dialled, stream) ==
    [node |-> n, peer |-> p, dialled |-> dialled, state |-> IF dialled THEN "open" ELSE "queued",
     stream |-> stream]

Turns == [pc : {"off", "scan", "route"}, frame : {NoFrame} \cup Range(aired),
          tx : {None} \cup Conn]

TypeOK ==
    /\ up \in [Node -> BOOLEAN]
    /\ turn \in [Node -> Turns] /\ late \in [Node -> Turns]
    /\ \A n \in Node :
          /\ up[n] <=> turn[n].pc # "off"
          /\ late[n] = Off \/ Busy(late[n])
          /\ scan[n] \in Seq(Range(aired))
          /\ \A p \in Id : connections[n][p] # None =>
                conns[connections[n][p]].node = n /\ conns[connections[n][p]].peer = p
          /\ \A i \in DOMAIN incoming[n] : conns[incoming[n][i]].state = "queued"
          /\ announced[n] \subseteq Node \ {n}
    /\ air \in [Conn -> {NoFrame} \cup Range(aired)]

Init ==
    /\ up = [n \in Node |-> TRUE]
    /\ turn = [n \in Node |-> Waiting] /\ late = [n \in Node |-> Off]
    /\ recent = [n \in Node |-> {}] /\ scan = [n \in Node |-> <<>>]
    /\ connections = [n \in Node |-> [p \in Id |-> None]]
    /\ incoming = [n \in Node |-> <<>>]
    /\ dialing = [n \in Node |-> ""]
    /\ conns = <<>> /\ air = <<>> /\ heard = <<>> /\ aired = <<>>
    /\ announced = [n \in Node |-> {}]
    /\ lost = FALSE /\ mishap = FALSE
    /\ calls = 0

-----------------------------------------------------------------------------
(* start and stop, as health_monitor calls them.                           *)

Start(n) ==
    /\ ~up[n]
    /\ up' = [up EXCEPT ![n] = TRUE]
    /\ turn' = [turn EXCEPT ![n] = Waiting]
    /\ recent' = [recent EXCEPT ![n] = {}]
    /\ scan' = [scan EXCEPT ![n] = <<>>]
    /\ UNCHANGED <<late, connections, incoming, dialing, announced, conns, air, heard, aired, lost, mishap, calls>>

(* Fault: the map survives.                                                *)
StopKeepsMap(n) ==
    /\ n \in Restarting /\ up[n]
    /\ calls < Calls /\ late[n] = Off
    /\ calls' = calls + 1
    /\ up' = [up EXCEPT ![n] = FALSE]
    /\ turn' = [turn EXCEPT ![n] = Off]
    /\ late' = [late EXCEPT ![n] = IF Busy(turn[n]) THEN turn[n] ELSE Off]
    /\ mishap' = (mishap \/ Busy(turn[n]) \/ dialing[n] # "")
    /\ UNCHANGED <<recent, scan, connections, incoming, dialing, announced, conns, air, heard, aired, lost>>

Stop(n) ==
    /\ n \in Restarting /\ up[n]
    /\ calls < Calls /\ late[n] = Off
    /\ calls' = calls + 1
    /\ up' = [up EXCEPT ![n] = FALSE]
    /\ turn' = [turn EXCEPT ![n] = Off]
    /\ late' = [late EXCEPT ![n] = IF Busy(turn[n]) THEN turn[n] ELSE Off]
    /\ connections' = [connections EXCEPT ![n] = [p \in Id |-> None]]
    /\ mishap' = (mishap \/ Busy(turn[n]) \/ dialing[n] # "")
    /\ UNCHANGED <<recent, scan, incoming, dialing, announced, conns, air, heard, aired, lost>>

-----------------------------------------------------------------------------
(* dispatch_loop                                                           *)

Key(f) == <<f.source, f.payload>>

(* Fault: no frame is taken for an echo.                                   *)
IsEchoNever(n, f) == f.source = n

(* Fault: a source's second frame is taken for its first.                  *)
IsEchoBySource(n, f) == f.source = n \/ \E k \in recent[n] : k[1] = f.source

(* Its own frame, or one it has seen.                                      *)
IsEcho(n, f) == f.source = n \/ Key(f) \in recent[n]

(* A turn up to and including the lookup of its source.                    *)
Take(n) ==
    LET f == Head(scan[n]) IN
    /\ turn[n] = Waiting
    /\ scan[n] # <<>>
    /\ scan' = [scan EXCEPT ![n] = Tail(@)]
    /\ IF IsEcho(n, f) THEN UNCHANGED <<recent, announced, turn>>
       ELSE /\ recent' = [recent EXCEPT ![n] = @ \cup {Key(f)}]
            /\ announced' = [announced EXCEPT ![n] = @ \cup {f.source}]
            /\ turn' = IF f.dest = n THEN [turn EXCEPT ![n] = At("route", f, connections[n][f.source])] ELSE turn
    /\ UNCHANGED <<up, late, connections, incoming, dialing, conns, air, heard, aired, lost, mishap, calls>>

(* recent.retain: DEDUP_TTL (2 s) outlasts ADVERTISE_HOLD (500 ms), and    *)
(* copies do not wait in the scan stream for the difference.  A ciphertext *)
(* comes again later only when it is rechecked.                            *)
Expire(n) ==
    /\ \E k \in recent[n] :
          /\ k[2] = Hello
          /\ \A c \in Conn : air[c] # NoFrame => Key(air[c]) # k
          /\ \A i \in DOMAIN scan[n] : Key(scan[n][i]) # k
          /\ recent' = [recent EXCEPT ![n] = @ \ {k}]
    /\ UNCHANGED <<up, turn, late, scan, connections, incoming, dialing, announced, conns, air, heard, aired, lost, mishap, calls>>

(* The rest of a turn, of the running dispatcher or of an aborted one.     *)
Route(n, t) ==
    LET f == t.frame
        new == Len(conns) + 1 IN
    IF t.tx # None
    THEN /\ conns' = IF conns[t.tx].state = "dropped" THEN conns
                     ELSE [conns EXCEPT ![t.tx].stream = Append(@, f)]
         /\ UNCHANGED <<connections, incoming, air, heard>>
    ELSE /\ conns' = Append(conns, Connection(n, f.source, FALSE, <<f>>))
         /\ air' = Append(air, NoFrame) /\ heard' = Append(heard, {})
         /\ connections' = [connections EXCEPT ![n][f.source] = new]
         /\ incoming' = [incoming EXCEPT ![n] = Append(@, new)]

Dispatch(n) ==
    \/ /\ Busy(turn[n])
       /\ Route(n, turn[n])
       /\ turn' = [turn EXCEPT ![n] = Waiting]
       /\ UNCHANGED late
    \/ /\ Busy(late[n])
       /\ Route(n, late[n])
       /\ late' = [late EXCEPT ![n] = Off]
       /\ UNCHANGED turn

DispatchStep(n) ==
    /\ Dispatch(n)
    /\ UNCHANGED <<up, recent, scan, dialing, announced, aired, lost, mishap, calls>>

-----------------------------------------------------------------------------
(* connect and accept                                                      *)

ConnectCheck(n, p) ==
    /\ n \in Dialers /\ p # n
    /\ calls < Calls /\ dialing[n] = ""
    /\ up[n]
    /\ calls' = calls + 1
    /\ dialing' = [dialing EXCEPT ![n] = p]
    /\ UNCHANGED <<up, turn, late, recent, scan, connections, incoming, announced, conns, air, heard, aired, lost, mishap>>

(* The new connection replaces the one the map has.                        *)
ConnectInsert(n) ==
    /\ dialing[n] # ""
    /\ conns' = Append(conns, Connection(n, dialing[n], TRUE, <<>>))
    /\ air' = Append(air, NoFrame) /\ heard' = Append(heard, {})
    /\ connections' = [connections EXCEPT ![n][dialing[n]] = Len(conns) + 1]
    /\ dialing' = [dialing EXCEPT ![n] = ""]
    /\ UNCHANGED <<up, turn, late, recent, scan, incoming, announced, aired, lost, mishap, calls>>

Accept(n) ==
    /\ incoming[n] # <<>>
    /\ conns' = [conns EXCEPT ![Head(incoming[n])].state = "open"]
    /\ incoming' = [incoming EXCEPT ![n] = Tail(@)]
    /\ UNCHANGED <<up, turn, late, recent, scan, connections, dialing, announced, air, heard, aired, lost, mishap, calls>>

-----------------------------------------------------------------------------
(* BroadcastConnection, and the session that uses it.                      *)

(* send_bytes advertises the frame and returns when it is withdrawn.       *)
SendBytes(c) ==
    /\ conns[c].state = "open" /\ air[c] = NoFrame
    /\ Len(aired) < Airings
    /\ aired' = Append(aired, Frame(c))
    /\ air' = [air EXCEPT ![c] = Frame(c)]
    /\ heard' = [heard EXCEPT ![c] = {}]
    /\ UNCHANGED <<nodeVars, conns, lost, mishap, calls>>

(* The session reads what is in the channel.  When every sender is gone,   *)
(* recv_bytes fails and the session is dropped.                            *)
HasSender(c) ==
    \E n \in Node : \/ \E p \in Id : connections[n][p] = c
                    \/ turn[n].tx = c \/ late[n].tx = c

RecvClosed(c) ==
    /\ conns[c].state = "open" /\ air[c] = NoFrame
    /\ ~HasSender(c)
    /\ conns' = [conns EXCEPT ![c].state = "dropped"]
    /\ UNCHANGED <<nodeVars, air, heard, aired, lost, mishap, calls>>

(* A session that is over, or whose advertise() has failed; the map is not *)
(* told.                                                                   *)
Drop(c) ==
    /\ conns[c].state = "open" /\ air[c] = NoFrame
    /\ conns' = [conns EXCEPT ![c].state = "dropped"]
    /\ UNCHANGED <<nodeVars, air, heard, aired, lost, mishap, calls>>

-----------------------------------------------------------------------------
(* The bearer: an advertisement is repeated while it is held, and heard by *)
(* anyone who scans.  That the sender hears it too is left out: its        *)
(* dispatcher would drop the frame and change nothing.                     *)

Hear(n, c) ==
    /\ air[c] # NoFrame
    /\ n # conns[c].node
    /\ up[n] /\ Len(scan[n]) < Backlog
    /\ heard' = [heard EXCEPT ![c] = @ \cup {n}]
    /\ scan' = [scan EXCEPT ![n] = Append(@, air[c])]
    /\ UNCHANGED <<up, turn, late, recent, connections, incoming, dialing, announced, conns, air, aired, lost, mishap, calls>>

Withdraw(c) ==
    /\ air[c] # NoFrame
    /\ lost' = (lost \/ heard[c] \cup {conns[c].node} # Node)
    /\ air' = [air EXCEPT ![c] = NoFrame]
    /\ heard' = [heard EXCEPT ![c] = {}]
    /\ UNCHANGED <<nodeVars, conns, aired, mishap, calls>>

(* The Linux bearer reads a device's cached data again when any of its     *)
(* properties changes (check_and_forward), maybe after DEDUP_TTL.          *)
Recheck(n) ==
    /\ up[n] /\ Len(scan[n]) < Backlog
    /\ calls < Calls
    /\ calls' = calls + 1
    /\ \E k \in DOMAIN aired :
          LET f == aired[k] IN
          /\ f.source # n /\ \A j \in DOMAIN aired : aired[j].source = f.source => j <= k
          /\ scan' = [scan EXCEPT ![n] = Append(@, f)]
          /\ \/ (Key(f) \in recent[n] \/ air[f.via] = f) /\ UNCHANGED <<recent, mishap>>
             \/ /\ air[f.via] # f
                /\ recent' = [recent EXCEPT ![n] = @ \ {Key(f)}]
                /\ mishap' = TRUE
    /\ UNCHANGED <<up, turn, late, connections, incoming, dialing, announced, conns, air, heard, aired, lost>>

-----------------------------------------------------------------------------
NodeStep(n) == Take(n) \/ DispatchStep(n) \/ ConnectInsert(n) \/ Accept(n) \/ Start(n)
ConnStep(c) == RecvClosed(c) \/ Withdraw(c)

Next ==
    \/ \E n \in Node :
          \/ NodeStep(n) \/ Expire(n) \/ Stop(n) \/ Recheck(n)
          \/ \E p \in Id : ConnectCheck(n, p)
          \/ \E c \in Conn : Hear(n, c)
    \/ \E c \in Conn : ConnStep(c) \/ SendBytes(c) \/ Drop(c)

Spec == Init /\ [][Next]_vars

(* The dispatchers, accept loops and sessions run, and no advertisement is *)
(* held for ever.                                                          *)
FairSpec ==
    /\ Spec
    /\ \A n \in Node : WF_vars(NodeStep(n))
    /\ WF_vars(\E c \in Conn : ConnStep(c))

-----------------------------------------------------------------------------
(* A connection carries only frames its peer sent to its node, those of    *)
(* one sending connection once each and in the order they were sent,       *)
(* however often the bearer repeats them and whoever else is on the air;   *)
(* unless a stop met a turn of the dispatcher or a read came too late.     *)
(* Every variable has its type, too.                                       *)
InOrder(s) == \A i, j \in DOMAIN s : i < j /\ s[i].via = s[j].via => s[i].id < s[j].id

StreamsAreInOrder ==
    /\ TypeOK
    /\ \A c \in Conn :
        LET s == conns[c].stream IN
        /\ \A i \in DOMAIN s : s[i].source = conns[c].peer /\ s[i].dest = conns[c].node
        /\ ~mishap => InOrder(s)

(* What linux_adv.rs says of its repeated reads: "the dispatcher's own     *)
(* dedup (by source + payload hash, see advertising.rs) collapses any      *)
(* duplicate checks this produces".                                        *)
RechecksCollapse == \A c \in Conn : InOrder(conns[c].stream)

(* stop leaves no connection whose reader would wait for ever.             *)
StopReleases ==
    \A n \in Node : ~up[n] /\ ~mishap => \A p \in Id : connections[n][p] = None

(* A frame addressed to a node in range, heard by it and not a copy of one *)
(* it has just seen, reaches a connection for its source (ADR 018: "handed *)
(* to the virtual connection for the source_short_id peer (or used to open *)
(* a new incoming connection if no such virtual connection exists)").      *)
Sent(k) == k <= Len(aired) /\ aired[k].dest \in Node
Reached(k) ==
    /\ Sent(k)
    /\ \E c \in Conn :
          /\ conns[c].node = aired[k].dest
          /\ \E i \in DOMAIN conns[c].stream : conns[c].stream[i].id = k
Calm == ~lost /\ \A n \in Node : up[n]

FramesAreHandedOver == []Calm => \A k \in 1..Airings : Sent(k) ~> Reached(k)

(* What does hold: ciphertexts arrive as long as no connection was         *)
(* dropped.                                                                *)
Ciphertext(k) == Sent(k) /\ aired[k].payload # Hello
CiphertextsAreHandedOver ==
    [](Calm /\ \A c \in Conn : conns[c].state # "dropped") =>
        \A k \in 1..Airings : Ciphertext(k) ~> Reached(k)
=============================================================================
