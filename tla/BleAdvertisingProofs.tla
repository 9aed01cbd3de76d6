-------------------------- MODULE BleAdvertisingProofs --------------------------
(***************************************************************************)
(* What a virtual connection over broadcast frames carries, and what stop  *)
(* leaves behind: for any number of nodes in range, of connections, of     *)
(* frames, and of stops and restarts.                                      *)
(***************************************************************************)
EXTENDS BleAdvertising, SequenceTheorems, TLAPS

-----------------------------------------------------------------------------
(* The inductive invariant.                                                *)

Framed == [dest : Id, source : Node, via : Nat, id : Nat, payload : Nat]
Connected == [node : Node, peer : Id, dialled : BOOLEAN, state : {"queued", "open", "dropped"}, stream : Seq(Framed)]
Turning == [pc : {"off", "scan", "route"}, frame : {NoFrame} \cup Framed, tx : Nat]

Shapes ==
    /\ aired \in Seq(Framed) /\ conns \in Seq(Connected)
    /\ air \in Seq({NoFrame} \cup Framed) /\ Len(air) = Len(conns)
    /\ up \in [Node -> BOOLEAN] /\ turn \in [Node -> Turning] /\ late \in [Node -> Turning]
    /\ recent \in [Node -> SUBSET (Node \X Nat)] /\ scan \in [Node -> Seq(Framed)]
    /\ connections \in [Node -> [Id -> Nat]] /\ incoming \in [Node -> Seq(Nat)]
    /\ dialing \in [Node -> Id \cup {""}] /\ announced \in [Node -> SUBSET Node]
    /\ mishap \in BOOLEAN

(* A frame was sent by the connection it names, over its node's radio.     *)
Sendings ==
    \A i \in DOMAIN aired :
        /\ aired[i].id = i /\ aired[i].via \in Conn
        /\ conns[aired[i].via].node = aired[i].source /\ conns[aired[i].via].peer = aired[i].dest

(* What is on the air was sent, and nothing was sent after it by the same  *)
(* connection.                                                             *)
OnAir ==
    \A c \in Conn : air[c] # NoFrame =>
        /\ air[c] \in Range(aired) /\ air[c].via = c
        /\ \A g \in Range(aired) : g.via = c => g.id <= air[c].id

(* Frames wait in the order they were sent.                                *)
Backlogs ==
    \A n \in Node :
        /\ \A i \in DOMAIN scan[n] : scan[n][i] \in Range(aired)
        /\ \A i, j \in DOMAIN scan[n] : i < j /\ scan[n][i].via = scan[n][j].via => scan[n][i].id <= scan[n][j].id

(* A turn is about a frame for this node, and about a connection with the  *)
(* frame's source.                                                         *)
Routes(n, t) ==
    /\ t.frame = NoFrame \/ t.frame \in Range(aired)
    /\ t.tx # None => t.tx \in Conn
    /\ Busy(t) => /\ t.frame \in Range(aired) /\ t.frame.dest = n /\ t.frame.source # n
                  /\ t.tx # None => conns[t.tx].node = n /\ conns[t.tx].peer = t.frame.source

Dispatchers ==
    \A n \in Node :
        /\ Routes(n, turn[n]) /\ Routes(n, late[n])
        /\ up[n] <=> turn[n].pc # "off"
        /\ late[n] = Off \/ Busy(late[n])
        /\ n \notin announced[n]

Maps ==
    \A n \in Node : \A p \in Id : connections[n][p] # None =>
        /\ connections[n][p] \in Conn
        /\ conns[connections[n][p]].node = n /\ conns[connections[n][p]].peer = p

(* A connection waits for accept in one place.                             *)
Queues ==
    \A n \in Node :
        /\ \A i \in DOMAIN incoming[n] :
              /\ incoming[n][i] \in Conn
              /\ conns[incoming[n][i]].node = n /\ conns[incoming[n][i]].state = "queued"
        /\ \A i, j \in DOMAIN incoming[n] : incoming[n][i] = incoming[n][j] => i = j

Streams ==
    \A c \in Conn : \A i \in DOMAIN conns[c].stream :
        /\ conns[c].stream[i] \in Range(aired)
        /\ conns[c].stream[i].source = conns[c].peer /\ conns[c].stream[i].dest = conns[c].node

(* Whatever n may still hear of g's connection comes after g, or is g and  *)
(* known to be an echo.                                                    *)
Follows(n, h, g) == h.via = g.via => h.id >= g.id /\ (h.id = g.id => Key(g) \in recent[n])
Passed(n, g) ==
    /\ \A i \in DOMAIN scan[n] : Follows(n, scan[n][i], g)
    /\ \A c \in Conn : air[c] # NoFrame => Follows(n, air[c], g)

(* What holds unless a stop met a turn or a connect, or a frame was read   *)
(* again too late.                                                         *)
StopIsClean ==
    \A n \in Node : ~Busy(late[n]) /\ (~up[n] => dialing[n] = "" /\ \A p \in Id : connections[n][p] = None)
LivePassed ==
    \A n \in Node : \A p \in Id : connections[n][p] # None =>
        \A i \in DOMAIN conns[connections[n][p]].stream : Passed(n, conns[connections[n][p]].stream[i])
TurnPassed ==
    \A n \in Node : Busy(turn[n]) =>
        /\ Passed(n, turn[n].frame)
        /\ turn[n].tx # None =>
              \A i \in DOMAIN conns[turn[n].tx].stream :
                  conns[turn[n].tx].stream[i].via = turn[n].frame.via =>
                      conns[turn[n].tx].stream[i].id < turn[n].frame.id
InOrderAll == \A c \in Conn : InOrder(conns[c].stream)

Ordered == ~mishap => StopIsClean /\ LivePassed /\ TurnPassed /\ InOrderAll

IInv ==
    /\ Shapes /\ Sendings /\ OnAir /\ Backlogs /\ Dispatchers /\ Maps /\ Queues /\ Streams /\ Ordered

-----------------------------------------------------------------------------
(* Sequences.                                                              *)

LEMMA AppendFacts ==
    ASSUME NEW S, NEW s \in Seq(S), NEW x \in S
    PROVE  /\ Append(s, x) \in Seq(S) /\ Len(s) \in Nat /\ Len(Append(s, x)) = Len(s) + 1
           /\ DOMAIN s = 1..Len(s) /\ DOMAIN Append(s, x) = 1..(Len(s) + 1)
           /\ \A i \in 1..Len(s) : Append(s, x)[i] = s[i]
           /\ Append(s, x)[Len(s) + 1] = x
BY AppendProperties

LEMMA AppendCases ==
    ASSUME NEW S, NEW s \in Seq(S), NEW x \in S, NEW i \in DOMAIN Append(s, x)
    PROVE  \/ i \in DOMAIN s /\ Append(s, x)[i] = s[i]
           \/ i = Len(s) + 1 /\ Append(s, x)[i] = x
<1>1. i \in 1..(Len(s) + 1) /\ DOMAIN s = 1..Len(s) /\ Len(s) \in Nat
    BY AppendFacts, Zenon
<1>2. i \in 1..Len(s) \/ i = Len(s) + 1
    BY <1>1
<1> QED
    BY <1>1, <1>2, AppendFacts

LEMMA AppendSet ==
    ASSUME NEW S, NEW s \in Seq(S), NEW x \in S
    PROVE  Range(Append(s, x)) = Range(s) \cup {x}
<1>1. ASSUME NEW y \in Range(Append(s, x)) PROVE y \in Range(s) \cup {x}
    BY AppendFacts DEF Range
<1>2. ASSUME NEW y \in Range(s) PROVE y \in Range(Append(s, x))
    <2>1. PICK i \in 1..Len(s) : y = s[i]
        BY DEF Range
    <2>2. i \in DOMAIN Append(s, x) /\ Append(s, x)[i] = y
        BY <2>1, AppendFacts
    <2> QED
        BY <2>2, Zenon DEF Range
<1>3. x \in Range(Append(s, x))
    <2>1. Len(s) + 1 \in DOMAIN Append(s, x) /\ Append(s, x)[Len(s) + 1] = x
        BY AppendFacts
    <2> QED
        BY <2>1, Zenon DEF Range
<1> QED
    BY <1>1, <1>2, <1>3, Zenon

LEMMA ExceptFacts ==
    ASSUME NEW S, NEW s \in Seq(S), NEW i \in 1..Len(s), NEW x \in S
    PROVE  LET u == [s EXCEPT ![i] = x] IN
           /\ u \in Seq(S) /\ Len(u) = Len(s) /\ DOMAIN u = 1..Len(s)
           /\ u[i] = x /\ \A j \in 1..Len(s) \ {i} : u[j] = s[j]
BY ExceptSeq

LEMMA TailFacts ==
    ASSUME NEW S, NEW s \in Seq(S), s # <<>>
    PROVE  /\ 1 \in DOMAIN s /\ Head(s) = s[1] /\ Head(s) \in S /\ Tail(s) \in Seq(S)
           /\ \A i \in DOMAIN Tail(s) : i + 1 \in DOMAIN s /\ Tail(s)[i] = s[i + 1] /\ i \in Nat \ {0}
OBVIOUS

LEMMA NoFrameFacts == NoFrame.via = 0 /\ NoFrame.id = 0
BY Zenon DEF NoFrame

LEMMA TurnFacts ==
    /\ Off \in Turning /\ Waiting \in Turning /\ ~Busy(Off) /\ ~Busy(Waiting)
    /\ Off.pc = "off" /\ Waiting.pc = "scan" /\ Off.frame = NoFrame /\ Waiting.frame = NoFrame
    /\ Off.tx = None /\ Waiting.tx = None
BY Zenon DEF Off, Waiting, At, Turning, Busy, None

(* Frames are told apart by their ids.                                     *)
LEMMA AiredFacts ==
    ASSUME Shapes, Sendings
    PROVE  /\ \A g \in Range(aired) : /\ g \in Framed /\ g.id \in DOMAIN aired /\ g.id \in Nat /\ g = aired[g.id]
                                     /\ g # NoFrame /\ g.via \in Conn /\ g.source \in Node /\ g.dest \in Id
                                     /\ conns[g.via].node = g.source /\ conns[g.via].peer = g.dest
           /\ \A g, h \in Range(aired) : g.id = h.id => g = h
<1>1. ASSUME NEW g \in Range(aired)
      PROVE  /\ g \in Framed /\ g.id \in DOMAIN aired /\ g.id \in Nat /\ g = aired[g.id]
             /\ g # NoFrame /\ g.via \in Conn /\ g.source \in Node /\ g.dest \in Id
             /\ conns[g.via].node = g.source /\ conns[g.via].peer = g.dest
    <2>1. PICK i \in DOMAIN aired : g = aired[i]
        BY Zenon DEF Range
    <2>2. i \in 1..Len(aired) /\ aired[i] \in Framed /\ i \in Nat \ {0}
        <3>1. aired \in Seq(Framed)
            BY Zenon DEF Shapes
        <3> QED
            BY <3>1
    <2>3. g.id = i /\ g.via \in Conn /\ conns[g.via].node = g.source /\ conns[g.via].peer = g.dest
        BY <2>1, Zenon DEF Sendings
    <2>4. g \in Framed
        BY <2>1, <2>2, Zenon
    <2>5. g.source \in Node /\ g.dest \in Id
        BY <2>4, Zenon DEF Framed
    <2> QED
        BY <2>1, <2>2, <2>3, <2>4, <2>5, NoFrameFacts, Zenon
<1>2. \A g, h \in Range(aired) : g.id = h.id => g = h
    BY <1>1
<1> QED
    BY <1>1, <1>2, Zenon

LEMMA ConnFacts ==
    ASSUME Shapes
    PROVE  Len(conns) \in Nat /\ Conn = 1..Len(conns) /\ DOMAIN air = Conn /\ \A c \in Conn : conns[c] \in Connected
<1>1. conns \in Seq(Connected) /\ air \in Seq({NoFrame} \cup Framed) /\ Len(air) = Len(conns)
    BY Zenon DEF Shapes
<1>2. DOMAIN air = 1..Len(air)
    BY <1>1
<1> QED
    BY <1>1, <1>2 DEF Conn

-----------------------------------------------------------------------------
LEMMA InitHolds == Init => IInv
<1> SUFFICES ASSUME Init PROVE IInv
    BY Zenon
<1>1. DOMAIN <<>> = {} /\ Len(<<>>) = 0 /\ Range(<<>>) = {}
    BY DEF Range
<1>2. \A n \in Node : /\ up[n] = TRUE /\ turn[n] = Waiting /\ late[n] = Off /\ recent[n] = {} /\ scan[n] = <<>>
                      /\ incoming[n] = <<>> /\ dialing[n] = "" /\ announced[n] = {}
                      /\ \A p \in Id : connections[n][p] = None
    BY Zenon DEF Init
<1>3. conns = <<>> /\ air = <<>> /\ aired = <<>> /\ mishap = FALSE /\ Conn = {}
    BY <1>1, Zenon DEF Init, Conn
<1>4. Shapes
    <2>1. turn \in [Node -> Turning] /\ late \in [Node -> Turning]
        BY TurnFacts, Zenon DEF Init
    <2>2. connections \in [Node -> [Id -> Nat]] /\ incoming \in [Node -> Seq(Nat)] /\ scan \in [Node -> Seq(Framed)]
        <3>1. <<>> \in Seq(Nat) /\ <<>> \in Seq(Framed) /\ None \in Nat
            BY DEF None
        <3>2. [p \in Id |-> None] \in [Id -> Nat]
            BY <3>1, Zenon
        <3> QED
            BY <3>1, <3>2, Zenon DEF Init
    <2>3. aired \in Seq(Framed) /\ conns \in Seq(Connected) /\ air \in Seq({NoFrame} \cup Framed)
        BY <1>3
    <2> QED
        BY <1>3, <2>1, <2>2, <2>3, Zenon DEF Init, Shapes
<1>5. Sendings /\ OnAir /\ Streams
    BY <1>1, <1>3, Zenon DEF Sendings, OnAir, Streams
<1>6. Backlogs /\ Queues /\ Maps
    BY <1>1, <1>2, Zenon DEF Backlogs, Queues, Maps
<1>7. Dispatchers
    BY <1>2, TurnFacts, Zenon DEF Dispatchers, Routes
<1>8. Ordered
    <2>1. StopIsClean
        BY <1>2, TurnFacts, Zenon DEF StopIsClean
    <2>2. LivePassed /\ TurnPassed /\ InOrderAll
        BY <1>2, <1>3, TurnFacts, Zenon DEF LivePassed, TurnPassed, InOrderAll
    <2> QED
        BY <2>1, <2>2, Zenon DEF Ordered
<1> QED
    BY <1>4, <1>5, <1>6, <1>7, <1>8, Zenon DEF IInv

-----------------------------------------------------------------------------
(* start and stop                                                          *)

LEMMA StartHolds == ASSUME IInv, NEW n \in Node, Start(n) PROVE IInv'
<1> USE DEF IInv
<1>1. /\ UNCHANGED <<late, connections, incoming, dialing, announced, conns, air, aired, mishap>>
      /\ ~up[n] /\ up'[n] = TRUE /\ turn'[n] = Waiting /\ recent'[n] = {} /\ scan'[n] = <<>>
      /\ \A m \in Node \ {n} : up'[m] = up[m] /\ turn'[m] = turn[m] /\ recent'[m] = recent[m] /\ scan'[m] = scan[m]
    BY Zenon DEF Start, Shapes
<1>2. Shapes'
    <2>1. turn' \in [Node -> Turning] /\ up' \in [Node -> BOOLEAN] /\ recent' \in [Node -> SUBSET (Node \X Nat)]
        BY TurnFacts, Zenon DEF Start, Shapes
    <2>2. <<>> \in Seq(Framed)
        OBVIOUS
    <2>3. scan' \in [Node -> Seq(Framed)]
        BY <2>2, Zenon DEF Start, Shapes
    <2> QED
        BY <1>1, <2>1, <2>3, Zenon DEF Shapes
<1>3. Sendings' /\ OnAir' /\ Maps' /\ Queues' /\ Streams'
    <2>1. Sendings'
        BY <1>1, Zenon DEF Sendings, Conn
    <2>2. OnAir'
        BY <1>1, Zenon DEF OnAir, Conn
    <2>3. Maps'
        BY <1>1, Zenon DEF Maps, Conn
    <2>4. Queues'
        BY <1>1, ZenonT(40) DEF Queues, Conn
    <2>5. Streams'
        BY <1>1, Zenon DEF Streams, Conn
    <2> QED
        BY <2>1, <2>2, <2>3, <2>4, <2>5, Zenon
<1>4. Backlogs'
    BY <1>1, SMTT(30) DEF Backlogs
<1>5. Dispatchers'
    BY <1>1, TurnFacts DEF Dispatchers, Routes, Conn
<1>6. ASSUME ~mishap PROVE StopIsClean' /\ LivePassed' /\ TurnPassed' /\ InOrderAll'
    <2>1. StopIsClean /\ LivePassed /\ TurnPassed /\ InOrderAll
        BY <1>6, Zenon DEF Ordered
    <2>2. \A m \in Node \ {n} : \A g : Passed(m, g) => Passed(m, g)'
        BY <1>1 DEF Passed, Follows, Conn
    <2>3. StopIsClean'
        BY <1>1, <2>1, Zenon DEF StopIsClean
    <2>4. LivePassed'
        BY <1>1, <2>1, <2>2, ZenonT(40) DEF LivePassed, StopIsClean
    <2>5. TurnPassed'
        BY <1>1, <2>1, <2>2, TurnFacts DEF TurnPassed
    <2>6. InOrderAll'
        BY <1>1, <2>1, Zenon DEF InOrderAll, Conn
    <2> QED
        BY <2>3, <2>4, <2>5, <2>6, Zenon
<1> QED
    BY <1>1, <1>2, <1>3, <1>4, <1>5, <1>6, Zenon DEF Ordered

LEMMA StopHolds == ASSUME IInv, NEW n \in Node, Stop(n) PROVE IInv'
<1> USE DEF IInv
<1>1. /\ UNCHANGED <<recent, scan, incoming, dialing, announced, conns, air, aired>>
      /\ up[n] /\ up'[n] = FALSE /\ turn'[n] = Off /\ late'[n] = (IF Busy(turn[n]) THEN turn[n] ELSE Off)
      /\ \A p \in Id : connections'[n][p] = None
      /\ \A m \in Node \ {n} : up'[m] = up[m] /\ turn'[m] = turn[m] /\ late'[m] = late[m] /\ connections'[m] = connections[m]
    BY Zenon DEF Stop, Shapes
<1>2. mishap' = (mishap \/ Busy(turn[n]) \/ dialing[n] # "")
    BY Zenon DEF Stop
<1>3. Shapes'
    <2>1. connections' \in [Node -> [Id -> Nat]]
        BY Zenon DEF Stop, Shapes, None
    <2>2. turn' \in [Node -> Turning] /\ late' \in [Node -> Turning] /\ up' \in [Node -> BOOLEAN]
        BY TurnFacts, Zenon DEF Stop, Shapes
    <2>3. mishap' \in BOOLEAN
        BY <1>2, Zenon
    <2> QED
        BY <1>1, <2>1, <2>2, <2>3, Zenon DEF Shapes
<1>4. Sendings' /\ OnAir' /\ Backlogs' /\ Queues' /\ Streams'
    <2>1. Sendings'
        BY <1>1, Zenon DEF Sendings, Conn
    <2>2. OnAir'
        BY <1>1, Zenon DEF OnAir, Conn
    <2>3. Backlogs'
        BY <1>1, Zenon DEF Backlogs, Conn
    <2>4. Queues'
        BY <1>1, Zenon DEF Queues, Conn
    <2>5. Streams'
        BY <1>1, Zenon DEF Streams, Conn
    <2> QED
        BY <2>1, <2>2, <2>3, <2>4, <2>5, Zenon
<1>5. Maps'
    BY <1>1 DEF Maps, Conn
<1>6. Dispatchers'
    BY <1>1, TurnFacts DEF Dispatchers, Routes, Conn
<1>7. ASSUME ~mishap' PROVE StopIsClean' /\ LivePassed' /\ TurnPassed' /\ InOrderAll'
    <2>1. ~mishap /\ ~Busy(turn[n]) /\ dialing[n] = ""
        BY <1>2, <1>7, Zenon
    <2>2. StopIsClean /\ LivePassed /\ TurnPassed /\ InOrderAll
        BY <2>1, Zenon DEF Ordered
    <2>3. \A m \in Node : \A g : Passed(m, g) => Passed(m, g)'
        BY <1>1 DEF Passed, Follows, Conn
    <2>4. StopIsClean'
        <3>1. late'[n] = Off
            BY <1>1, <2>1, Zenon
        <3> SUFFICES ASSUME NEW m \in Node
                     PROVE  ~Busy(late'[m]) /\ (~up'[m] => dialing[m] = "" /\ \A p \in Id : connections'[m][p] = None)
            BY <1>1, Zenon DEF StopIsClean
        <3>2. CASE m = n
            BY <1>1, <2>1, <3>1, <3>2, TurnFacts, Zenon
        <3>3. CASE m # n
            BY <1>1, <2>2, <3>3, ZenonT(40) DEF StopIsClean
        <3> QED
            BY <3>2, <3>3, Zenon
    <2>5. LivePassed'
        BY <1>1, <2>2, <2>3 DEF LivePassed
    <2>6. TurnPassed'
        BY <1>1, <2>2, <2>3, TurnFacts DEF TurnPassed
    <2>7. InOrderAll'
        BY <1>1, <2>2, Zenon DEF InOrderAll, Conn
    <2> QED
        BY <2>4, <2>5, <2>6, <2>7, Zenon
<1> QED
    BY <1>3, <1>4, <1>5, <1>6, <1>7, Zenon DEF Ordered

-----------------------------------------------------------------------------
(* Steps that leave connections, their streams and the map as they are:    *)
(* Passed is all that is left of the order.                                *)
LEMMA OrderKept ==
    ASSUME IInv, UNCHANGED <<up, late, connections, conns, dialing, turn>>, mishap => mishap',
           ~mishap' => \A n \in Node : \A g \in Range(aired) : Passed(n, g) => Passed(n, g)'
    PROVE  Ordered'
<1> SUFFICES ASSUME ~mishap' PROVE StopIsClean' /\ LivePassed' /\ TurnPassed' /\ InOrderAll'
    BY Zenon DEF Ordered
<1>1. StopIsClean /\ LivePassed /\ TurnPassed /\ InOrderAll
    BY Zenon DEF IInv, Ordered
<1>2. StopIsClean' /\ InOrderAll'
    BY <1>1, Zenon DEF StopIsClean, InOrderAll, Conn
<1>3. LivePassed'
    <2> SUFFICES ASSUME NEW n \in Node, NEW p \in Id, connections[n][p] # None,
                        NEW i \in DOMAIN conns[connections[n][p]].stream
                 PROVE  Passed(n, conns[connections[n][p]].stream[i])'
        BY Zenon DEF LivePassed
    <2>1. PICK g : g = conns[connections[n][p]].stream[i]
        BY Zenon
    <2>2. g \in Range(aired) /\ Passed(n, g)
        BY <1>1, <2>1, Zenon DEF IInv, LivePassed, Maps, Streams
    <2>3. Passed(n, g)'
        BY <2>2, Zenon
    <2> QED
        BY <2>1, <2>3, Zenon
<1>4. TurnPassed'
    <2> SUFFICES ASSUME NEW n \in Node, Busy(turn[n])
                 PROVE  /\ Passed(n, turn[n].frame)'
                        /\ turn[n].tx # None =>
                              \A i \in DOMAIN conns[turn[n].tx].stream :
                                  conns[turn[n].tx].stream[i].via = turn[n].frame.via =>
                                      conns[turn[n].tx].stream[i].id < turn[n].frame.id
        BY Zenon DEF TurnPassed
    <2>1. PICK g : g = turn[n].frame
        BY Zenon
    <2>2. g \in Range(aired) /\ Passed(n, g)
        BY <1>1, <2>1, Zenon DEF IInv, TurnPassed, Dispatchers, Routes
    <2>3. Passed(n, g)'
        BY <2>2, Zenon
    <2> QED
        BY <1>1, <2>1, <2>3, Zenon DEF TurnPassed
<1> QED
    BY <1>2, <1>3, <1>4, Zenon

LEMMA ExpireHolds == ASSUME IInv, NEW n \in Node, Expire(n) PROVE IInv'
<1> USE DEF IInv
<1>1. PICK k \in recent[n] :
          /\ \A c \in Conn : air[c] # NoFrame => Key(air[c]) # k
          /\ \A i \in DOMAIN scan[n] : Key(scan[n][i]) # k
          /\ recent' = [recent EXCEPT ![n] = @ \ {k}]
    BY Zenon DEF Expire
<1>2. UNCHANGED <<up, turn, late, scan, connections, incoming, dialing, announced, conns, air, aired, mishap>>
    BY Zenon DEF Expire
<1>3. recent'[n] = recent[n] \ {k} /\ \A m \in Node \ {n} : recent'[m] = recent[m]
    BY <1>1, Zenon DEF Shapes
<1>4. Shapes'
    BY <1>1, <1>2, Zenon DEF Shapes
<1>5. Sendings' /\ OnAir' /\ Backlogs' /\ Maps' /\ Queues' /\ Streams'
    <2>1. Sendings'
        BY <1>2, Zenon DEF Sendings, Conn
    <2>2. OnAir'
        BY <1>2, Zenon DEF OnAir, Conn
    <2>3. Backlogs'
        BY <1>2, Zenon DEF Backlogs
    <2>4. Maps'
        BY <1>2 DEF Maps, Conn
    <2>5. Queues'
        BY <1>2 DEF Queues, Conn
    <2>6. Streams'
        BY <1>2, Zenon DEF Streams, Conn
    <2> QED
        BY <2>1, <2>2, <2>3, <2>4, <2>5, <2>6, Zenon
<1>6. Dispatchers'
    BY <1>2 DEF Dispatchers, Routes, Conn
<1>7. ASSUME NEW m \in Node, NEW g \in Range(aired), Passed(m, g) PROVE Passed(m, g)'
    <2>1. ASSUME NEW h \in Range(aired), Follows(m, h, g), m = n => Key(h) # k
          PROVE  Follows(m, h, g)'
        <3>1. h.id = g.id => h = g
            BY AiredFacts, Zenon
        <3> QED
            BY <1>3, <2>1, <3>1, Zenon DEF Follows
    <2>2. \A i \in DOMAIN scan[m] : scan[m][i] \in Range(aired) /\ Follows(m, scan[m][i], g) /\ (m = n => Key(scan[m][i]) # k)
        BY <1>1, <1>7, Zenon DEF Passed, Backlogs
    <2>3. \A c \in Conn : air[c] # NoFrame => air[c] \in Range(aired) /\ Follows(m, air[c], g) /\ (m = n => Key(air[c]) # k)
        BY <1>1, <1>7, Zenon DEF Passed, OnAir
    <2>4. \A i \in DOMAIN scan[m] : Follows(m, scan[m][i], g)'
        BY <1>2, <2>1, <2>2, Zenon
    <2>5. \A c \in Conn : air[c] # NoFrame => Follows(m, air[c], g)'
        BY <1>2, <2>1, <2>3, Zenon
    <2> QED
        BY <1>2, <2>4, <2>5, Zenon DEF Passed, Conn
<1>8. Ordered'
    BY <1>2, <1>7, OrderKept, Zenon
<1> QED
    BY <1>4, <1>5, <1>6, <1>8, Zenon

LEMMA ConnectCheckHolds == ASSUME IInv, NEW n \in Node, NEW p \in Id, ConnectCheck(n, p) PROVE IInv'
<1> USE DEF IInv
<1>1. /\ UNCHANGED <<up, turn, late, recent, scan, connections, incoming, announced, conns, air, aired, mishap>>
      /\ up[n] /\ dialing' = [dialing EXCEPT ![n] = p]
    BY Zenon DEF ConnectCheck
<1>2. Shapes' /\ \A m \in Node \ {n} : dialing'[m] = dialing[m]
    BY <1>1, Zenon DEF Shapes
<1>3. Sendings' /\ OnAir' /\ Backlogs' /\ Maps' /\ Queues' /\ Streams'
    <2>1. Sendings'
        BY <1>1, Zenon DEF Sendings, Conn
    <2>2. OnAir'
        BY <1>1, Zenon DEF OnAir, Conn
    <2>3. Backlogs'
        BY <1>1, Zenon DEF Backlogs
    <2>4. Maps'
        BY <1>1, SMTT(30) DEF Maps, Conn
    <2>5. Queues'
        BY <1>1 DEF Queues, Conn
    <2>6. Streams'
        BY <1>1, Zenon DEF Streams, Conn
    <2> QED
        BY <2>1, <2>2, <2>3, <2>4, <2>5, <2>6, Zenon
<1>4. Dispatchers'
    BY <1>1, ZenonT(40) DEF Dispatchers, Routes, Conn
<1>5. ASSUME ~mishap PROVE StopIsClean' /\ LivePassed' /\ TurnPassed' /\ InOrderAll'
    <2>1. StopIsClean /\ LivePassed /\ TurnPassed /\ InOrderAll
        BY <1>5, Zenon DEF Ordered
    <2>2. StopIsClean'
        BY <1>1, <1>2, <2>1, Zenon DEF StopIsClean
    <2>3. \A m \in Node : \A g : Passed(m, g) => Passed(m, g)'
        BY <1>1, ZenonT(40) DEF Passed, Follows, Conn
    <2>4. LivePassed'
        BY <1>1, <2>1, <2>3, Zenon DEF LivePassed
    <2>5. TurnPassed' /\ InOrderAll'
        BY <1>1, <2>1, <2>3, Zenon DEF TurnPassed, InOrderAll, Conn
    <2> QED
        BY <2>2, <2>4, <2>5, Zenon
<1> QED
    BY <1>1, <1>2, <1>3, <1>4, <1>5, Zenon DEF Ordered

LEMMA WithdrawHolds == ASSUME IInv, NEW c \in Conn, Withdraw(c) PROVE IInv'
<1> USE DEF IInv
<1>1. UNCHANGED <<up, turn, late, recent, scan, connections, incoming, dialing, announced, conns, aired, mishap>>
    BY Zenon DEF Withdraw, nodeVars
<1>2. /\ air' \in Seq({NoFrame} \cup Framed) /\ Len(air') = Len(air)
      /\ \A d \in Conn : air'[d] # NoFrame => air'[d] = air[d]
    <2>1. c \in 1..Len(air) /\ air \in Seq({NoFrame} \cup Framed) /\ air' = [air EXCEPT ![c] = NoFrame] /\ Conn = 1..Len(air)
        BY ConnFacts, Zenon DEF Withdraw, Shapes
    <2> DEFINE S == {NoFrame} \cup Framed
    <2>2. air \in Seq(S) /\ NoFrame \in S
        BY <2>1, Zenon
    <2> HIDE DEF S
    <2>3. air' \in Seq(S) /\ Len(air') = Len(air) /\ air'[c] = NoFrame /\ \A j \in 1..Len(air) \ {c} : air'[j] = air[j]
        BY <2>1, <2>2, ExceptFacts
    <2> QED
        BY <2>1, <2>3, Zenon DEF S
<1>3. Shapes'
    BY <1>1, <1>2, Zenon DEF Shapes
<1>4. Sendings' /\ Backlogs' /\ Maps' /\ Queues' /\ Streams'
    BY <1>1 DEF Sendings, Backlogs, Maps, Queues, Streams, Conn
<1>5. OnAir'
    BY <1>1, <1>2, Zenon DEF OnAir, Conn
<1>6. Dispatchers'
    BY <1>1 DEF Dispatchers, Routes, Conn
<1>7. ASSUME NEW m \in Node, NEW g \in Range(aired), Passed(m, g) PROVE Passed(m, g)'
    BY <1>1, <1>2, <1>7, Zenon DEF Passed, Follows, Conn
<1>8. Ordered'
    BY <1>1, <1>7, OrderKept, Zenon
<1> QED
    BY <1>3, <1>4, <1>5, <1>6, <1>8, Zenon

-----------------------------------------------------------------------------
(* A frame is heard, or read again.                                        *)

(* A frame that nothing of its connection follows is appended to n's       *)
(* backlog.                                                                *)
LEMMA BacklogGrows ==
    ASSUME IInv, NEW n \in Node, NEW f \in Range(aired), scan' = [scan EXCEPT ![n] = Append(@, f)],
           \A g \in Range(aired) : g.via = f.via => g.id <= f.id, UNCHANGED aired
    PROVE  /\ scan' \in [Node -> Seq(Framed)] /\ Backlogs'
           /\ \A m \in Node \ {n} : scan'[m] = scan[m]
           /\ \A i \in DOMAIN scan'[n] : scan'[n][i] = f \/ (i \in DOMAIN scan[n] /\ scan'[n][i] = scan[n][i])
<1>1. f \in Framed /\ scan \in [Node -> Seq(Framed)] /\ scan[n] \in Seq(Framed)
    BY AiredFacts, Zenon DEF IInv, Shapes
<1>2. PICK s : s = scan[n]
    BY Zenon
<1>3. scan'[n] = Append(s, f) /\ s \in Seq(Framed)
    BY <1>1, <1>2, Zenon
<1>4. /\ Append(s, f) \in Seq(Framed) /\ Len(s) \in Nat /\ DOMAIN s = 1..Len(s) /\ DOMAIN Append(s, f) = 1..(Len(s) + 1)
      /\ \A i \in 1..Len(s) : Append(s, f)[i] = s[i]
      /\ Append(s, f)[Len(s) + 1] = f
    BY <1>1, <1>3, AppendFacts
<1>5. \A m \in Node \ {n} : scan'[m] = scan[m]
    BY <1>1, Zenon
<1>6. scan' \in [Node -> Seq(Framed)]
    BY <1>1, <1>2, <1>4, Zenon
<1>7. \A i \in DOMAIN scan'[n] : scan'[n][i] = f \/ (i \in DOMAIN s /\ scan'[n][i] = s[i])
    BY <1>3, <1>4
<1>8. Backlogs'
    <2> SUFFICES ASSUME NEW m \in Node
                 PROVE  /\ \A i \in DOMAIN scan'[m] : scan'[m][i] \in Range(aired)
                        /\ \A i, j \in DOMAIN scan'[m] :
                              i < j /\ scan'[m][i].via = scan'[m][j].via => scan'[m][i].id <= scan'[m][j].id
        BY Zenon DEF Backlogs
    <2>1. CASE m # n
        BY <1>5, <2>1, SMTT(30) DEF IInv, Backlogs
    <2>2. CASE m = n
        <3>1. \A i \in DOMAIN s : s[i] \in Range(aired)
            BY <1>2, Zenon DEF IInv, Backlogs
        <3>2. \A i \in DOMAIN scan'[n] : scan'[n][i] \in Range(aired)
            BY <1>7, <3>1, Zenon
        <3>3. ASSUME NEW i \in DOMAIN scan'[n], NEW j \in DOMAIN scan'[n], i < j, scan'[n][i].via = scan'[n][j].via
              PROVE  scan'[n][i].id <= scan'[n][j].id
            <4>1. CASE j = Len(s) + 1
                BY <1>3, <1>4, <3>2, <3>3, <4>1
            <4>2. CASE j # Len(s) + 1
                <5>1. i \in DOMAIN s /\ j \in DOMAIN s /\ scan'[n][i] = s[i] /\ scan'[n][j] = s[j]
                    BY <1>3, <1>4, <3>3, <4>2
                <5> QED
                    BY <1>2, <3>3, <5>1, Zenon DEF IInv, Backlogs
            <4> QED
                BY <4>1, <4>2, Zenon
        <3> QED
            BY <2>2, <3>2, <3>3
    <2> QED
        BY <2>1, <2>2, Zenon
<1> QED
    BY <1>2, <1>5, <1>6, <1>7, <1>8, Zenon

LEMMA HearHolds == ASSUME IInv, NEW n \in Node, NEW c \in Conn, Hear(n, c) PROVE IInv'
<1> USE DEF IInv
<1>1. UNCHANGED <<up, turn, late, recent, connections, incoming, dialing, announced, conns, air, aired, mishap>>
    BY Zenon DEF Hear
<1>2. PICK f : f = air[c]
    BY Zenon
<1>3. f \in Range(aired) /\ f.via = c /\ scan' = [scan EXCEPT ![n] = Append(@, f)] /\ air[c] # NoFrame
      /\ \A g \in Range(aired) : g.via = f.via => g.id <= f.id
    BY <1>2, Zenon DEF Hear, OnAir
<1>4. /\ scan' \in [Node -> Seq(Framed)] /\ Backlogs'
      /\ \A m \in Node \ {n} : scan'[m] = scan[m]
      /\ \A i \in DOMAIN scan'[n] : scan'[n][i] = f \/ (i \in DOMAIN scan[n] /\ scan'[n][i] = scan[n][i])
    BY <1>1, <1>3, BacklogGrows, ZenonT(40)
<1>5. Shapes'
    BY <1>1, <1>4, Zenon DEF Shapes
<1>6. Sendings' /\ OnAir' /\ Maps' /\ Queues' /\ Streams'
    <2>1. Sendings'
        BY <1>1, Zenon DEF Sendings, Conn
    <2>2. OnAir'
        BY <1>1, Zenon DEF OnAir, Conn
    <2>3. Maps'
        BY <1>1, ZenonT(40) DEF Maps, Conn
    <2>4. Queues'
        BY <1>1, Zenon DEF Queues, Conn
    <2>5. Streams'
        BY <1>1, Zenon DEF Streams, Conn
    <2> QED
        BY <2>1, <2>2, <2>3, <2>4, <2>5, Zenon
<1>7. Dispatchers'
    BY <1>1, ZenonT(40) DEF Dispatchers, Routes, Conn
<1>8. ASSUME NEW m \in Node, NEW g \in Range(aired), Passed(m, g) PROVE Passed(m, g)'
    <2>1. \A i \in DOMAIN scan'[m] : Follows(m, scan'[m][i], g)
        BY <1>2, <1>3, <1>4, <1>8 DEF Passed
    <2> QED
        BY <1>1, <1>8, <2>1, Zenon DEF Passed, Conn, Follows
<1>9. Ordered'
    BY <1>1, <1>8, OrderKept, Zenon
<1> QED
    BY <1>4, <1>5, <1>6, <1>7, <1>9, Zenon

LEMMA RecheckHolds == ASSUME IInv, NEW n \in Node, Recheck(n) PROVE IInv'
<1> USE DEF IInv
<1>1. UNCHANGED <<up, turn, late, connections, incoming, dialing, announced, conns, air, aired>>
    BY Zenon DEF Recheck
<1>2. PICK k \in DOMAIN aired :
          /\ \A j \in DOMAIN aired : aired[j].source = aired[k].source => j <= k
          /\ scan' = [scan EXCEPT ![n] = Append(@, aired[k])]
          /\ \/ (Key(aired[k]) \in recent[n] \/ air[aired[k].via] = aired[k]) /\ UNCHANGED <<recent, mishap>>
             \/ /\ air[aired[k].via] # aired[k]
                /\ recent' = [recent EXCEPT ![n] = @ \ {Key(aired[k])}]
                /\ mishap' = TRUE
    BY Zenon DEF Recheck
<1>3. PICK f : f = aired[k]
    BY Zenon
<1>4. f \in Range(aired) /\ \A g \in Range(aired) : g.via = f.via => g.id <= f.id
    <2>1. f \in Range(aired) /\ f.id = k
        BY <1>3, Zenon DEF Range, Sendings
    <2> QED
        BY <1>2, <1>3, <2>1, AiredFacts
<1>5. /\ scan' \in [Node -> Seq(Framed)] /\ Backlogs'
      /\ \A m \in Node \ {n} : scan'[m] = scan[m]
      /\ \A i \in DOMAIN scan'[n] : scan'[n][i] = f \/ (i \in DOMAIN scan[n] /\ scan'[n][i] = scan[n][i])
    <2>1. scan' = [scan EXCEPT ![n] = Append(@, f)] /\ UNCHANGED aired
        BY <1>1, <1>2, <1>3, Zenon
    <2> QED
        BY <1>4, <2>1, BacklogGrows, ZenonT(40)
<1>6. Shapes'
    <2>1. recent' \in [Node -> SUBSET (Node \X Nat)]
        <3>1. recent \in [Node -> SUBSET (Node \X Nat)]
            BY Zenon DEF Shapes
        <3>2. [recent EXCEPT ![n] = @ \ {Key(aired[k])}] \in [Node -> SUBSET (Node \X Nat)]
            BY <3>1, Zenon
        <3> QED
            BY <1>2, <3>1, <3>2, Zenon
    <2>2. mishap' \in BOOLEAN
        BY <1>2, Zenon DEF Shapes
    <2> QED
        BY <1>1, <1>5, <2>1, <2>2, Zenon DEF Shapes
<1>7. Sendings' /\ OnAir' /\ Maps' /\ Queues' /\ Streams'
    <2>1. Sendings'
        BY <1>1, Zenon DEF Sendings, Conn
    <2>2. OnAir'
        BY <1>1, Zenon DEF OnAir, Conn
    <2>3. Maps'
        BY <1>1, ZenonT(40) DEF Maps, Conn
    <2>4. Queues'
        BY <1>1, Zenon DEF Queues, Conn
    <2>5. Streams'
        BY <1>1, Zenon DEF Streams, Conn
    <2> QED
        BY <2>1, <2>2, <2>3, <2>4, <2>5, Zenon
<1>8. Dispatchers'
    BY <1>1, Zenon DEF Dispatchers, Routes, Conn
<1>9. ASSUME ~mishap', NEW m \in Node, NEW g \in Range(aired), Passed(m, g) PROVE Passed(m, g)'
    <2>1. UNCHANGED recent /\ (Key(f) \in recent[n] \/ air[f.via] = f)
        BY <1>2, <1>3, <1>9, Zenon
    <2>2. f.via \in Conn /\ f # NoFrame /\ (f.id = g.id => f = g)
        BY <1>4, <1>9, AiredFacts, Zenon
    <2>3. m = n => Follows(m, f, g)
        <3>1. CASE air[f.via] = f
            BY <1>9, <2>2, <3>1, Zenon DEF Passed
        <3>2. CASE Key(f) \in recent[n]
            <4>1. f.via = g.via => f.id >= g.id
                BY <1>4, <1>9, AiredFacts, Zenon
            <4> QED
                BY <2>2, <3>2, <4>1, Zenon DEF Follows
        <3> QED
            BY <2>1, <3>1, <3>2, Zenon
    <2>4. \A i \in DOMAIN scan'[m] : Follows(m, scan'[m][i], g)
        BY <1>5, <1>9, <2>3, Zenon DEF Passed
    <2> QED
        BY <1>1, <1>9, <2>1, <2>4, Zenon DEF Passed, Conn, Follows
<1>10. mishap => mishap'
    BY <1>2, Zenon
<1>11. Ordered'
    BY <1>1, <1>9, <1>10, OrderKept, Zenon
<1> QED
    BY <1>5, <1>6, <1>7, <1>8, <1>11, SMTT(30)

-----------------------------------------------------------------------------
(* A turn of the dispatcher up to its lookup.                              *)

LEMMA TakeHolds == ASSUME IInv, NEW n \in Node, Take(n) PROVE IInv'
<1> USE DEF IInv
<1>1. PICK f : f = Head(scan[n])
    BY ZenonT(40)
<1>2. /\ UNCHANGED <<up, late, connections, incoming, dialing, conns, air, aired, mishap>>
      /\ turn[n] = Waiting /\ scan[n] # <<>> /\ scan' = [scan EXCEPT ![n] = Tail(@)]
    BY Zenon DEF Take
<1>3. /\ f = scan[n][1] /\ 1 \in DOMAIN scan[n] /\ Tail(scan[n]) \in Seq(Framed)
      /\ \A i \in DOMAIN Tail(scan[n]) : i + 1 \in DOMAIN scan[n] /\ Tail(scan[n])[i] = scan[n][i + 1] /\ i \in Nat \ {0}
    <2>1. scan[n] \in Seq(Framed)
        BY Zenon DEF Shapes
    <2> QED
        BY <1>1, <1>2, <2>1, TailFacts, Zenon
<1>4. /\ scan' \in [Node -> Seq(Framed)] /\ scan'[n] = Tail(scan[n]) /\ \A m \in Node \ {n} : scan'[m] = scan[m]
    <2>1. scan \in [Node -> Seq(Framed)]
        BY Zenon DEF Shapes
    <2> QED
        BY <1>2, <1>3, <2>1, Zenon
<1>5. f \in Range(aired) /\ \A i \in DOMAIN scan'[n] : scan'[n][i].via = f.via => scan'[n][i].id >= f.id
    <2>1. f \in Range(aired) /\ f.id \in Nat
        BY <1>3, AiredFacts, Zenon DEF Backlogs
    <2>2. ASSUME NEW i \in DOMAIN scan'[n], scan'[n][i].via = f.via PROVE scan'[n][i].id >= f.id
        <3>1. i + 1 \in DOMAIN scan[n] /\ scan'[n][i] = scan[n][i + 1] /\ 1 < i + 1
            BY <1>3, <1>4, SMTT(30)
        <3>2. scan[n][1].id <= scan[n][i + 1].id /\ scan[n][i + 1].id \in Nat
            BY <1>3, <2>2, <3>1, AiredFacts, Zenon DEF Backlogs
        <3> QED
            BY <1>3, <2>1, <3>1, <3>2, Zenon
    <2> QED
        BY <2>1, <2>2, Zenon
<1>6. Backlogs'
    <2>1. ASSUME NEW i \in DOMAIN scan'[n] PROVE i + 1 \in DOMAIN scan[n] /\ scan'[n][i] = scan[n][i + 1] /\ i \in Nat
        BY <1>3, <1>4, Zenon
    <2>2. ASSUME NEW i \in DOMAIN scan'[n], NEW j \in DOMAIN scan'[n], i < j, scan'[n][i].via = scan'[n][j].via
          PROVE  scan'[n][i].id <= scan'[n][j].id
        <3>1. i + 1 < j + 1
            BY <2>1, <2>2, SMTT(30)
        <3> QED
            BY <2>1, <2>2, <3>1 DEF Backlogs
    <2>3. \A i \in DOMAIN scan'[n] : scan'[n][i] \in Range(aired)
        BY <2>1, Zenon DEF Backlogs
    <2> SUFFICES ASSUME NEW m \in Node
                 PROVE  /\ \A i \in DOMAIN scan'[m] : scan'[m][i] \in Range(aired)
                        /\ \A i, j \in DOMAIN scan'[m] :
                               i < j /\ scan'[m][i].via = scan'[m][j].via => scan'[m][i].id <= scan'[m][j].id
        BY <1>2, Zenon DEF Backlogs
    <2>4. CASE m = n
        BY <2>2, <2>3, <2>4, Zenon
    <2>5. CASE m # n
        <3>1. scan'[m] = scan[m]
            BY <1>4, <2>5, Zenon
        <3> QED
            BY <3>1, Zenon DEF Backlogs
    <2> QED
        BY <2>4, <2>5, Zenon
<1>7. Sendings' /\ OnAir' /\ Maps' /\ Queues' /\ Streams'
    <2>1. Sendings'
        BY <1>2, Zenon DEF Sendings, Conn
    <2>2. OnAir'
        BY <1>2, Zenon DEF OnAir, Conn
    <2>3. Maps'
        BY <1>2, ZenonT(40) DEF Maps, Conn
    <2>4. Queues'
        BY <1>2, Zenon DEF Queues, Conn
    <2>5. Streams'
        BY <1>2, Zenon DEF Streams, Conn
    <2> QED
        BY <2>1, <2>2, <2>3, <2>4, <2>5, Zenon
<1>8. CASE IsEcho(n, f)
    <2>1. UNCHANGED <<recent, announced, turn>>
        BY <1>1, <1>8, Zenon DEF Take
    <2>2. Shapes'
        BY <1>2, <1>4, <2>1, Zenon DEF Shapes
    <2>3. Dispatchers'
        BY <1>2, <2>1, Zenon DEF Dispatchers, Routes, Conn
    <2>4. ASSUME NEW m \in Node, NEW g \in Range(aired), Passed(m, g) PROVE Passed(m, g)'
        BY <1>2, <1>3, <1>4, <2>1, <2>4, SMTT(30) DEF Passed, Follows, Conn
    <2>5. Ordered'
        BY <1>2, <2>1, <2>4, OrderKept, Zenon
    <2> QED
        BY <1>6, <1>7, <2>2, <2>3, <2>5, Zenon
<1>9. CASE ~IsEcho(n, f)
    <2>1. /\ recent' = [recent EXCEPT ![n] = @ \cup {Key(f)}]
          /\ announced' = [announced EXCEPT ![n] = @ \cup {f.source}]
          /\ turn' = IF f.dest = n THEN [turn EXCEPT ![n] = At("route", f, connections[n][f.source])] ELSE turn
        BY <1>1, <1>9, Zenon DEF Take
    <2>2. f \in Framed /\ f.source \in Node /\ f.source \in Id /\ f.payload \in Nat /\ f.source # n /\ Key(f) \notin recent[n]
        BY <1>5, <1>9, AiredFacts, Zenon DEF IsEcho, Framed, Id
    <2>3. PICK t : t = At("route", f, connections[n][f.source])
        BY Zenon
    <2>4. connections[n][f.source] \in Nat
        BY <2>2, Zenon DEF Shapes
    <2>5. t \in Turning /\ t.pc = "route" /\ t.frame = f /\ t.tx = connections[n][f.source] /\ Busy(t)
        BY <2>2, <2>3, <2>4, Zenon DEF At, Turning, Busy
    <2>6. /\ recent' \in [Node -> SUBSET (Node \X Nat)] /\ recent'[n] = recent[n] \cup {Key(f)}
          /\ \A m \in Node \ {n} : recent'[m] = recent[m]
        <3>1. recent \in [Node -> SUBSET (Node \X Nat)] /\ Key(f) \in Node \X Nat
            BY <2>2, Zenon DEF Shapes, Key
        <3> QED
            BY <2>1, <3>1, Zenon
    <2>7. /\ announced' \in [Node -> SUBSET Node] /\ n \notin announced'[n] /\ \A m \in Node \ {n} : announced'[m] = announced[m]
        <3>1. announced \in [Node -> SUBSET Node] /\ n \notin announced[n]
            BY Zenon DEF Shapes, Dispatchers
        <3> QED
            BY <2>1, <2>2, <3>1, Zenon
    <2>8. /\ turn' \in [Node -> Turning] /\ \A m \in Node \ {n} : turn'[m] = turn[m]
          /\ f.dest = n => turn'[n] = t
          /\ f.dest # n => turn'[n] = Waiting
        <3>1. turn \in [Node -> Turning]
            BY Zenon DEF Shapes
        <3> QED
            BY <1>2, <2>1, <2>3, <2>5, <3>1, Zenon
    <2>9. Shapes'
        BY <1>2, <1>4, <2>6, <2>7, <2>8, Zenon DEF Shapes
    <2>10. Dispatchers'
        <3>1. ASSUME f.dest = n PROVE Routes(n, t)
            BY <1>5, <2>2, <2>5, <3>1, SMTT(30) DEF Routes, Maps
        <3>2. Routes(n, Waiting)
            BY TurnFacts, Zenon DEF Routes
        <3>3. ASSUME NEW m \in Node PROVE Routes(m, turn'[m])
            BY <2>8, <3>1, <3>2, Zenon DEF Dispatchers
        <3>4. ASSUME NEW m \in Node PROVE Routes(m, turn[m])'
            BY <1>2, <3>3, Zenon DEF Routes, Conn
        <3>5. ASSUME NEW m \in Node PROVE Routes(m, late[m])'
            BY <1>2, Zenon DEF Dispatchers, Routes, Conn
        <3>6. \A m \in Node : up[m] <=> turn'[m].pc # "off"
            BY <1>2, <2>5, <2>8, TurnFacts, Zenon DEF Dispatchers
        <3> QED
            BY <1>2, <2>7, <3>4, <3>5, <3>6, Zenon DEF Dispatchers
    <2>11. ASSUME NEW m \in Node, NEW g \in Range(aired), Passed(m, g) PROVE Passed(m, g)'
        <3>1. \A i \in DOMAIN scan'[m] : Follows(m, scan'[m][i], g)
            BY <1>3, <1>4, <2>11, ZenonT(40) DEF Passed
        <3>2. recent[m] \subseteq recent'[m]
            BY <2>6, Zenon
        <3> QED
            BY <1>2, <2>11, <3>1, <3>2, Zenon DEF Passed, Follows, Conn
    <2>12. Passed(n, f)'
        <3>1. Key(f) \in recent'[n]
            BY <2>6, Zenon
        <3>2. \A c \in Conn : air[c] # NoFrame => (air[c].via = f.via => air[c].id >= f.id)
            BY <1>5, AiredFacts, Zenon DEF OnAir
        <3> QED
            BY <1>2, <1>5, <3>1, <3>2, Zenon DEF Passed, Follows, Conn
    <2>13. ASSUME ~mishap PROVE StopIsClean' /\ LivePassed' /\ TurnPassed' /\ InOrderAll'
        <3>1. StopIsClean /\ LivePassed /\ TurnPassed /\ InOrderAll
            BY <2>13, Zenon DEF Ordered
        <3>2. StopIsClean' /\ InOrderAll'
            BY <1>2, <3>1, Zenon DEF StopIsClean, InOrderAll, Conn
        <3>3. ASSUME NEW m \in Node, NEW p \in Id, connections[m][p] # None,
                     NEW i \in DOMAIN conns[connections[m][p]].stream
              PROVE  /\ conns[connections[m][p]].stream[i] \in Range(aired)
                     /\ Passed(m, conns[connections[m][p]].stream[i])
            BY <3>1, <3>3, Zenon DEF LivePassed, Maps, Streams
        <3>4. LivePassed'
            <4> SUFFICES ASSUME NEW m \in Node, NEW p \in Id, connections[m][p] # None,
                                NEW i \in DOMAIN conns[connections[m][p]].stream
                         PROVE  Passed(m, conns[connections[m][p]].stream[i])'
                BY <1>2, Zenon DEF LivePassed
            <4>1. PICK g : g = conns[connections[m][p]].stream[i]
                BY Zenon
            <4>2. Passed(m, g)'
                BY <2>11, <3>3, <4>1, Zenon
            <4> QED
                BY <1>2, <4>1, <4>2, Zenon
        <3>5. ASSUME NEW m \in Node, m # n, Busy(turn[m]) PROVE Passed(m, turn[m].frame)'
            <4>1. PICK g : g = turn[m].frame
                BY Zenon
            <4>2. g \in Range(aired) /\ Passed(m, g)
                BY <3>1, <3>5, <4>1, Zenon DEF TurnPassed, Dispatchers, Routes
            <4>3. Passed(m, g)'
                BY <2>11, <4>2, Zenon
            <4>4. turn'[m].frame = g
                BY <2>8, <3>5, <4>1, Zenon
            <4> QED
                BY <4>3, <4>4, Zenon
        <3>6. ASSUME f.dest = n, t.tx # None, NEW i \in DOMAIN conns[t.tx].stream, conns[t.tx].stream[i].via = f.via
              PROVE  conns[t.tx].stream[i].id < f.id
            <4>1. PICK g : g = conns[t.tx].stream[i]
                BY Zenon
            <4>2. g \in Range(aired) /\ Passed(n, g)
                BY <2>2, <2>5, <3>3, <3>6, <4>1, Zenon
            <4>3. Follows(n, f, g)
                BY <1>3, <4>2, Zenon DEF Passed
            <4>4. f.id >= g.id /\ (f.id = g.id => Key(g) \in recent[n])
                BY <3>6, <4>1, <4>3, Zenon DEF Follows
            <4>5. f.id = g.id => f = g
                BY <1>5, <4>2, AiredFacts, Zenon
            <4>6. f.id \in Nat /\ g.id \in Nat
                BY <1>5, <4>2, AiredFacts, Zenon
            <4> QED
                BY <2>2, <4>1, <4>4, <4>5, <4>6
        <3>7. TurnPassed'
            <4> SUFFICES ASSUME NEW m \in Node, Busy(turn'[m])
                         PROVE  /\ Passed(m, turn[m].frame)'
                                /\ turn'[m].tx # None =>
                                      \A i \in DOMAIN conns[turn'[m].tx].stream :
                                          conns[turn'[m].tx].stream[i].via = turn'[m].frame.via =>
                                              conns[turn'[m].tx].stream[i].id < turn'[m].frame.id
                BY <1>2, Zenon DEF TurnPassed
            <4>1. CASE m # n
                BY <2>8, <3>1, <3>5, <4>1, Zenon DEF TurnPassed
            <4>2. CASE m = n
                <5>1. f.dest = n /\ turn'[n] = t
                    BY <2>8, <4>2, TurnFacts, Zenon
                <5>2. turn'[n].frame = f
                    BY <2>5, <5>1, Zenon
                <5>3. Passed(n, turn[n].frame)'
                    BY <2>12, <5>2, Zenon
                <5> QED
                    BY <2>5, <3>6, <4>2, <5>1, <5>2, <5>3, ZenonT(40)
            <4> QED
                BY <4>1, <4>2, Zenon
        <3> QED
            BY <3>2, <3>4, <3>7, Zenon
    <2>14. Ordered'
        BY <1>2, <2>13, Zenon DEF Ordered
    <2> QED
        BY <1>6, <1>7, <2>9, <2>10, <2>14, Zenon
<1> QED
    BY <1>8, <1>9, Zenon

-----------------------------------------------------------------------------
(* A connection sends.                                                     *)

LEMMA SendBytesHolds == ASSUME IInv, NEW c \in Conn, SendBytes(c) PROVE IInv'
<1> USE DEF IInv
<1>1. UNCHANGED <<up, turn, late, recent, scan, connections, incoming, dialing, announced, conns, mishap>>
    BY Zenon DEF SendBytes, nodeVars
<1>2. PICK f : f = Frame(c)
    BY Zenon
<1>3. aired' = Append(aired, f) /\ air' = [air EXCEPT ![c] = f]
    BY <1>2, Zenon DEF SendBytes
<1>4. Len(aired) \in Nat /\ DOMAIN aired = 1..Len(aired) /\ aired \in Seq(Framed)
    <2>1. aired \in Seq(Framed)
        BY Zenon DEF Shapes
    <2> QED
        BY <2>1
<1>5. /\ f \in Framed /\ f.via = c /\ f.id = Len(aired) + 1 /\ f # NoFrame
      /\ f.source = conns[c].node /\ f.dest = conns[c].peer
    <2>1. conns[c].node \in Node /\ conns[c].peer \in Id /\ c \in Nat
        BY ConnFacts DEF Connected
    <2>2. f.via = c /\ f.id = Len(aired) + 1 /\ f.source = conns[c].node /\ f.dest = conns[c].peer
        BY <1>2, Zenon DEF Frame
    <2>3. f \in Framed
        BY <1>2, <1>4, <2>1, SMTT(30) DEF Frame, Framed, Hello
    <2> QED
        BY <1>4, <2>2, <2>3, NoFrameFacts
<1>6. /\ aired' \in Seq(Framed) /\ DOMAIN aired' = 1..(Len(aired) + 1)
      /\ \A i \in 1..Len(aired) : aired'[i] = aired[i]
      /\ aired'[Len(aired) + 1] = f /\ Range(aired') = Range(aired) \cup {f}
    BY <1>3, <1>4, <1>5, AppendFacts, AppendSet
<1>7. /\ air' \in Seq({NoFrame} \cup Framed) /\ Len(air') = Len(air) /\ air'[c] = f
      /\ \A d \in Conn \ {c} : air'[d] = air[d]
    <2> DEFINE S == {NoFrame} \cup Framed
    <2>1. air \in Seq(S) /\ f \in S /\ c \in 1..Len(air) /\ Conn = 1..Len(air)
        BY <1>5, ConnFacts, Zenon DEF Shapes
    <2> HIDE DEF S
    <2>2. air' \in Seq(S) /\ Len(air') = Len(air) /\ air'[c] = f /\ \A d \in 1..Len(air) \ {c} : air'[d] = air[d]
        BY <1>3, <2>1, ExceptFacts
    <2> QED
        BY <2>1, <2>2, Zenon DEF S
<1>8. Shapes'
    BY <1>1, <1>6, <1>7, Zenon DEF Shapes
<1>9. Sendings'
    <2> SUFFICES ASSUME NEW i \in DOMAIN aired'
                 PROVE  /\ aired'[i].id = i /\ aired'[i].via \in Conn
                        /\ conns[aired'[i].via].node = aired'[i].source /\ conns[aired'[i].via].peer = aired'[i].dest
        BY <1>1, Zenon DEF Sendings, Conn
    <2>1. CASE i = Len(aired) + 1
        BY <1>5, <1>6, <2>1, Zenon
    <2>2. CASE i # Len(aired) + 1
        <3>1. i \in DOMAIN aired /\ aired'[i] = aired[i]
            BY <1>4, <1>6, <2>2
        <3> QED
            BY <3>1, Zenon DEF Sendings
    <2> QED
        BY <2>1, <2>2, Zenon
<1>10. \A g \in Range(aired) : g.id \in Nat /\ g.id <= Len(aired)
    BY <1>4, AiredFacts
<1>11. OnAir'
    <2> SUFFICES ASSUME NEW d \in Conn, air'[d] # NoFrame
                 PROVE  /\ air'[d] \in Range(aired') /\ air'[d].via = d
                        /\ \A g \in Range(aired') : g.via = d => g.id <= air'[d].id
        BY <1>1, Zenon DEF OnAir, Conn
    <2>1. CASE d = c
        BY <1>4, <1>5, <1>6, <1>7, <1>10, <2>1, SMTT(30)
    <2>2. CASE d # c
        BY <1>5, <1>6, <1>7, <2>2 DEF OnAir
    <2> QED
        BY <2>1, <2>2, Zenon
<1>12. Backlogs' /\ Maps' /\ Queues' /\ Streams'
    <2>1. Backlogs'
        BY <1>1, <1>6, Zenon DEF Backlogs
    <2>2. Maps'
        BY <1>1, <1>6, ZenonT(40) DEF Maps, Conn
    <2>3. Queues'
        BY <1>1, <1>6, Zenon DEF Queues, Conn
    <2>4. Streams'
        BY <1>1, <1>6, Zenon DEF Streams, Conn
    <2> QED
        BY <2>1, <2>2, <2>3, <2>4, Zenon
<1>13. Dispatchers'
    BY <1>1, <1>6, Zenon DEF Dispatchers, Routes, Conn
<1>14. ASSUME NEW m \in Node, NEW g \in Range(aired), Passed(m, g) PROVE Passed(m, g)'
    <2>1. f.id >= g.id /\ f.id # g.id
        BY <1>4, <1>5, <1>10, SMTT(30)
    <2>2. Follows(m, f, g)
        BY <2>1, Zenon DEF Follows
    <2>3. \A d \in Conn : air'[d] # NoFrame => Follows(m, air'[d], g)
        BY <1>7, <1>14, <2>2, Zenon DEF Passed
    <2> QED
        BY <1>1, <1>14, <2>3, Zenon DEF Passed, Follows, Conn
<1>15. Ordered'
    BY <1>1, <1>14, OrderKept, Zenon
<1> QED
    BY <1>8, <1>9, <1>11, <1>12, <1>13, <1>15, Zenon

-----------------------------------------------------------------------------
(* A connection is accepted or dropped.                                    *)

LEMMA StateFacts ==
    ASSUME Shapes, NEW c \in Conn, NEW st \in {"queued", "open", "dropped"}, conns' = [conns EXCEPT ![c].state = st]
    PROVE  /\ conns' \in Seq(Connected) /\ Len(conns') = Len(conns) /\ Conn' = Conn
           /\ \A k \in Conn : /\ conns'[k].node = conns[k].node /\ conns'[k].peer = conns[k].peer
                              /\ conns'[k].stream = conns[k].stream /\ (k # c => conns'[k] = conns[k])
<1>1. PICK x : x = [conns[c] EXCEPT !.state = st]
    BY Zenon
<1>2. conns[c] \in Connected
    BY ConnFacts, Zenon
<1>3. x \in Connected /\ x.node = conns[c].node /\ x.peer = conns[c].peer /\ x.stream = conns[c].stream
    BY <1>1, <1>2, Zenon DEF Connected
<1>4. conns \in Seq(Connected) /\ c \in 1..Len(conns) /\ Conn = 1..Len(conns)
    BY ConnFacts, Zenon DEF Shapes
<1>5. conns' = [conns EXCEPT ![c] = x]
    BY <1>1, <1>4, Zenon
<1>6. /\ conns' \in Seq(Connected) /\ Len(conns') = Len(conns) /\ DOMAIN conns' = 1..Len(conns)
      /\ conns'[c] = x /\ \A j \in 1..Len(conns) \ {c} : conns'[j] = conns[j]
    BY <1>3, <1>4, <1>5, ExceptFacts
<1> QED
    BY <1>3, <1>4, <1>6, Zenon DEF Conn

LEMMA StateHolds ==
    ASSUME IInv, NEW c \in Conn, NEW st \in {"queued", "open", "dropped"}, conns' = [conns EXCEPT ![c].state = st],
           UNCHANGED <<up, turn, late, recent, scan, connections, dialing, announced, air, aired, mishap>>,
           incoming' \in [Node -> Seq(Nat)], Queues'
    PROVE  IInv'
<1> USE DEF IInv
<1>1. /\ conns' \in Seq(Connected) /\ Len(conns') = Len(conns) /\ Conn' = Conn
      /\ \A k \in Conn : /\ conns'[k].node = conns[k].node /\ conns'[k].peer = conns[k].peer
                         /\ conns'[k].stream = conns[k].stream
    BY StateFacts, Zenon
<1>2. Shapes'
    BY <1>1, Zenon DEF Shapes
<1>3. Sendings' /\ OnAir' /\ Backlogs' /\ Maps'
    <2>1. Sendings'
        BY <1>1, ZenonT(40) DEF Sendings
    <2>2. OnAir'
        BY <1>1, Zenon DEF OnAir
    <2>3. Backlogs'
        BY <1>1, Zenon DEF Backlogs
    <2>4. Maps'
        BY <1>1, Zenon DEF Maps
    <2> QED
        BY <2>1, <2>2, <2>3, <2>4, Zenon
<1>4. Streams'
    BY <1>1 DEF Streams
<1>5. Dispatchers'
    <2>1. ASSUME NEW n, NEW t, Routes(n, t) PROVE Routes(n, t)'
        BY <1>1, <2>1, Zenon DEF Routes
    <2>2. \A n \in Node : Routes(n, turn[n])' /\ Routes(n, late[n])'
        <3> SUFFICES ASSUME NEW n \in Node PROVE Routes(n, turn[n])' /\ Routes(n, late[n])'
            BY Zenon
        <3>1. PICK t, u : t = turn[n] /\ u = late[n]
            BY Zenon
        <3>2. Routes(n, t)' /\ Routes(n, u)'
            BY <2>1, <3>1, Zenon DEF Dispatchers
        <3> QED
            BY <3>1, <3>2, Zenon
    <2> QED
        BY <2>2, Zenon DEF Dispatchers
<1>6. ASSUME ~mishap PROVE StopIsClean' /\ LivePassed' /\ TurnPassed' /\ InOrderAll'
    <2>1. StopIsClean /\ LivePassed /\ TurnPassed /\ InOrderAll
        BY <1>6, Zenon DEF Ordered
    <2>2. \A m \in Node : \A g : Passed(m, g) => Passed(m, g)'
        BY <1>1 DEF Passed, Follows
    <2>3. StopIsClean'
        BY <2>1, Zenon DEF StopIsClean
    <2>4. LivePassed'
        <3> SUFFICES ASSUME NEW m \in Node, NEW p \in Id, connections[m][p] # None,
                            NEW i \in DOMAIN conns'[connections[m][p]].stream
                     PROVE  Passed(m, conns[connections[m][p]].stream[i])'
            BY Zenon DEF LivePassed
        <3>1. PICK g : g = conns'[connections[m][p]].stream[i]
            BY Zenon
        <3>2. connections[m][p] \in Conn
            BY Zenon DEF Maps
        <3>3. i \in DOMAIN conns[connections[m][p]].stream /\ g = conns[connections[m][p]].stream[i]
            BY <1>1, <3>1, <3>2, Zenon
        <3>4. Passed(m, g)'
            BY <2>1, <2>2, <3>3, Zenon DEF LivePassed
        <3> QED
            BY <3>1, <3>4, Zenon
    <2>5. TurnPassed'
        <3> SUFFICES ASSUME NEW m \in Node, Busy(turn[m])
                     PROVE  /\ Passed(m, turn[m].frame)'
                            /\ turn[m].tx # None =>
                                  \A i \in DOMAIN conns'[turn[m].tx].stream :
                                      conns'[turn[m].tx].stream[i].via = turn[m].frame.via =>
                                          conns'[turn[m].tx].stream[i].id < turn[m].frame.id
            BY Zenon DEF TurnPassed
        <3>1. PICK g : g = turn[m].frame
            BY Zenon
        <3>2. Passed(m, g)'
            BY <2>1, <2>2, <3>1, Zenon DEF TurnPassed
        <3>3. turn[m].tx # None => turn[m].tx \in Conn
            BY Zenon DEF Dispatchers, Routes
        <3> QED
            BY <1>1, <2>1, <3>1, <3>2, <3>3, Zenon DEF TurnPassed
    <2>6. InOrderAll'
        BY <1>1, <2>1, Zenon DEF InOrderAll
    <2> QED
        BY <2>3, <2>4, <2>5, <2>6, Zenon
<1> QED
    BY <1>2, <1>3, <1>4, <1>5, <1>6, Zenon DEF Ordered

LEMMA DropHolds == ASSUME IInv, NEW c \in Conn, RecvClosed(c) \/ Drop(c) PROVE IInv'
<1>1. /\ conns[c].state = "open" /\ conns' = [conns EXCEPT ![c].state = "dropped"]
      /\ UNCHANGED <<up, turn, late, recent, scan, connections, incoming, dialing, announced, air, aired, mishap>>
    BY Zenon DEF RecvClosed, Drop, nodeVars
<1>2. Conn' = Conn /\ \A k \in Conn : k # c => conns'[k] = conns[k]
    BY <1>1, StateFacts, Zenon DEF IInv
<1>3. Queues'
    BY <1>1, <1>2 DEF IInv, Queues
<1> QED
    BY <1>1, <1>3, StateHolds, Zenon DEF IInv, Shapes

LEMMA AcceptHolds == ASSUME IInv, NEW n \in Node, Accept(n) PROVE IInv'
<1>1. PICK s : s = incoming[n]
    BY Zenon
<1>2. /\ s # <<>> /\ conns' = [conns EXCEPT ![Head(s)].state = "open"] /\ incoming' = [incoming EXCEPT ![n] = Tail(s)]
      /\ UNCHANGED <<up, turn, late, recent, scan, connections, dialing, announced, air, aired, mishap>>
    BY <1>1, Zenon DEF Accept
<1>3. incoming \in [Node -> Seq(Nat)] /\ s \in Seq(Nat)
    BY <1>1, Zenon DEF IInv, Shapes
<1>4. /\ 1 \in DOMAIN s /\ Head(s) = s[1] /\ Tail(s) \in Seq(Nat)
      /\ \A i \in DOMAIN Tail(s) : i + 1 \in DOMAIN s /\ Tail(s)[i] = s[i + 1] /\ i \in Nat \ {0}
    BY <1>2, <1>3, TailFacts, Zenon
<1>5. /\ \A i \in DOMAIN s : s[i] \in Conn /\ conns[s[i]].node = n /\ conns[s[i]].state = "queued"
      /\ \A i, j \in DOMAIN s : s[i] = s[j] => i = j
    BY <1>1, Zenon DEF IInv, Queues
<1>6. Head(s) \in Conn /\ conns[Head(s)].node = n
    BY <1>4, <1>5
<1>7. Conn' = Conn /\ \A k \in Conn : k # Head(s) => conns'[k] = conns[k]
    BY <1>2, <1>6, StateFacts, Zenon DEF IInv
<1>8. /\ incoming' \in [Node -> Seq(Nat)] /\ incoming'[n] = Tail(s) /\ \A m \in Node \ {n} : incoming'[m] = incoming[m]
    BY <1>2, <1>3, <1>4, Zenon
<1>9. Queues'
    <2> SUFFICES ASSUME NEW m \in Node
                 PROVE  /\ \A i \in DOMAIN incoming'[m] :
                              /\ incoming'[m][i] \in Conn
                              /\ conns'[incoming'[m][i]].node = m /\ conns'[incoming'[m][i]].state = "queued"
                        /\ \A i, j \in DOMAIN incoming'[m] : incoming'[m][i] = incoming'[m][j] => i = j
        BY <1>7, Zenon DEF Queues
    <2>1. CASE m # n
        <3>1. \A i \in DOMAIN incoming[m] : incoming[m][i] \in Conn /\ incoming[m][i] # Head(s)
            BY <1>6, <2>1 DEF IInv, Queues
        <3>2. \A i \in DOMAIN incoming[m] : conns'[incoming[m][i]] = conns[incoming[m][i]]
            BY <1>7, <3>1, Zenon
        <3>3. /\ \A i \in DOMAIN incoming[m] : conns[incoming[m][i]].node = m /\ conns[incoming[m][i]].state = "queued"
              /\ \A i, j \in DOMAIN incoming[m] : incoming[m][i] = incoming[m][j] => i = j
            BY Zenon DEF IInv, Queues
        <3> QED
            BY <1>8, <2>1, <3>1, <3>2, <3>3, Zenon
    <2>2. CASE m = n
        <3>1. \A i \in DOMAIN Tail(s) : i + 1 # 1 /\ Tail(s)[i] = s[i + 1] /\ i + 1 \in DOMAIN s /\ Tail(s)[i] # Head(s)
            BY <1>4, <1>5
        <3>2. \A i, j \in DOMAIN Tail(s) : Tail(s)[i] = Tail(s)[j] => i = j
            <4> SUFFICES ASSUME NEW i \in DOMAIN Tail(s), NEW j \in DOMAIN Tail(s), Tail(s)[i] = Tail(s)[j] PROVE i = j
                BY Zenon
            <4>1. i + 1 = j + 1 /\ i \in Nat /\ j \in Nat
                BY <1>4, <1>5
            <4> QED
                BY <4>1
        <3>3. \A i \in DOMAIN Tail(s) : Tail(s)[i] \in Conn /\ conns'[Tail(s)[i]] = conns[Tail(s)[i]]
            BY <1>5, <1>7, <3>1
        <3>4. \A i \in DOMAIN Tail(s) : conns[Tail(s)[i]].node = n /\ conns[Tail(s)[i]].state = "queued"
            BY <1>5, <3>1
        <3> QED
            BY <1>8, <2>2, <3>2, <3>3, <3>4, ZenonT(40)
    <2> QED
        BY <2>1, <2>2, Zenon
<1> QED
    BY <1>2, <1>6, <1>8, <1>9, StateHolds, Zenon

-----------------------------------------------------------------------------
(* A connection is opened, by connect or by the dispatcher.                *)

NewConnection(n, p, d, st) ==
    /\ conns' = Append(conns, Connection(n, p, d, st))
    /\ air' = Append(air, NoFrame)
    /\ connections' = [connections EXCEPT ![n][p] = Len(conns) + 1]
    /\ UNCHANGED <<up, recent, scan, announced, aired, mishap>>

LEMMA NewFacts ==
    ASSUME Shapes, NEW n \in Node, NEW p \in Id, NEW d \in BOOLEAN, NEW st \in Seq(Framed), NewConnection(n, p, d, st)
    PROVE  /\ conns' \in Seq(Connected) /\ Conn' = Conn \cup {Len(conns) + 1} /\ Len(conns) + 1 \notin Conn
           /\ \A k \in Conn : conns'[k] = conns[k]
           /\ conns'[Len(conns) + 1].node = n /\ conns'[Len(conns) + 1].peer = p /\ conns'[Len(conns) + 1].stream = st
           /\ conns'[Len(conns) + 1].state = IF d THEN "open" ELSE "queued"
           /\ air' \in Seq({NoFrame} \cup Framed) /\ Len(air') = Len(conns')
           /\ \A k \in Conn' : air'[k] # NoFrame => k \in Conn /\ air'[k] = air[k]
           /\ connections' \in [Node -> [Id -> Nat]] /\ connections'[n][p] = Len(conns) + 1
           /\ \A m \in Node, q \in Id : m # n \/ q # p => connections'[m][q] = connections[m][q]
<1>1. PICK x : x = Connection(n, p, d, st)
    BY Zenon
<1>2. /\ x \in Connected /\ x.node = n /\ x.peer = p /\ x.stream = st
      /\ x.state = IF d THEN "open" ELSE "queued"
    BY <1>1, Zenon DEF Connection, Connected
<1>3. conns \in Seq(Connected) /\ Len(conns) \in Nat /\ Conn = 1..Len(conns) /\ Len(air) = Len(conns)
    BY ConnFacts, Zenon DEF Shapes
<1>4. conns' = Append(conns, x) /\ air' = Append(air, NoFrame)
    BY <1>1, Zenon DEF NewConnection
<1>5. /\ conns' \in Seq(Connected) /\ Len(conns') = Len(conns) + 1 /\ DOMAIN conns' = 1..(Len(conns) + 1)
      /\ \A i \in 1..Len(conns) : conns'[i] = conns[i]
      /\ conns'[Len(conns) + 1] = x
    BY <1>2, <1>3, <1>4, AppendFacts
<1>6. /\ air' \in Seq({NoFrame} \cup Framed) /\ Len(air') = Len(air) + 1
      /\ \A i \in 1..Len(air) : air'[i] = air[i]
      /\ air'[Len(air) + 1] = NoFrame
    <2> DEFINE S == {NoFrame} \cup Framed
    <2>1. air \in Seq(S) /\ NoFrame \in S
        BY Zenon DEF Shapes
    <2> HIDE DEF S
    <2>2. /\ air' \in Seq(S) /\ Len(air') = Len(air) + 1
          /\ \A i \in 1..Len(air) : air'[i] = air[i]
          /\ air'[Len(air) + 1] = NoFrame
        BY <1>4, <2>1, AppendFacts
    <2> QED
        BY <2>2, Zenon DEF S
<1>7. Conn' = Conn \cup {Len(conns) + 1} /\ Len(conns) + 1 \notin Conn
    BY <1>3, <1>5 DEF Conn
<1>8. \A k \in Conn' : air'[k] # NoFrame => k \in Conn /\ air'[k] = air[k]
    BY <1>3, <1>6, <1>7, Zenon
<1>9. /\ connections' \in [Node -> [Id -> Nat]] /\ connections'[n][p] = Len(conns) + 1
      /\ \A m \in Node, q \in Id : m # n \/ q # p => connections'[m][q] = connections[m][q]
    <2>1. connections \in [Node -> [Id -> Nat]] /\ connections' = [connections EXCEPT ![n][p] = Len(conns) + 1]
        BY Zenon DEF Shapes, NewConnection
    <2> QED
        BY <1>3, <2>1
<1> QED
    BY <1>2, <1>3, <1>5, <1>6, <1>7, <1>8, <1>9, Zenon

LEMMA NewHolds ==
    ASSUME IInv, NEW n \in Node, NEW p \in Id, NEW d \in BOOLEAN, NEW st \in Seq(Framed), NewConnection(n, p, d, st),
           \A i \in DOMAIN st : st[i] \in Range(aired) /\ st[i].source = p /\ st[i].dest = n
    PROVE  /\ Sendings' /\ OnAir' /\ Backlogs' /\ Maps' /\ Streams'
           /\ \A m, t : Routes(m, t) => Routes(m, t)'
           /\ \A m \in Node : \A g : Passed(m, g) => Passed(m, g)'
           /\ LivePassed /\ (\A i \in DOMAIN st : Passed(n, st[i])) => LivePassed'
           /\ InOrderAll /\ InOrder(st) => InOrderAll'
<1> USE DEF IInv
<1> DEFINE new == Len(conns) + 1
<1>1. /\ Conn' = Conn \cup {new} /\ new \notin Conn
      /\ \A k \in Conn : conns'[k] = conns[k]
      /\ conns'[new].node = n /\ conns'[new].peer = p /\ conns'[new].stream = st
      /\ \A k \in Conn' : air'[k] # NoFrame => k \in Conn /\ air'[k] = air[k]
      /\ connections'[n][p] = new
      /\ \A m \in Node, q \in Id : m # n \/ q # p => connections'[m][q] = connections[m][q]
    BY NewFacts
<1> HIDE DEF new
<1>2. UNCHANGED <<up, recent, scan, announced, aired, mishap>>
    BY Zenon DEF NewConnection
<1>3. Sendings' /\ Backlogs'
    <2>1. Sendings'
        <3> SUFFICES ASSUME NEW i \in DOMAIN aired
                     PROVE  /\ aired[i].id = i /\ aired[i].via \in Conn'
                            /\ conns'[aired[i].via].node = aired[i].source
                            /\ conns'[aired[i].via].peer = aired[i].dest
            BY <1>2, Zenon DEF Sendings
        <3>1. aired[i].id = i /\ aired[i].via \in Conn
            BY Zenon DEF Sendings
        <3>2. conns'[aired[i].via] = conns[aired[i].via]
            BY <1>1, <3>1, Zenon
        <3>3. conns[aired[i].via].node = aired[i].source /\ conns[aired[i].via].peer = aired[i].dest
            BY Zenon DEF Sendings
        <3> QED
            BY <1>1, <3>1, <3>2, <3>3, Zenon
    <2>2. Backlogs'
        BY <1>1, <1>2, Zenon DEF Backlogs
    <2> QED
        BY <2>1, <2>2, Zenon
<1>4. OnAir'
    BY <1>1, <1>2, ZenonT(40) DEF OnAir
<1>5. Maps'
    <2> SUFFICES ASSUME NEW m \in Node, NEW q \in Id, connections'[m][q] # None
                 PROVE  /\ connections'[m][q] \in Conn'
                        /\ conns'[connections'[m][q]].node = m /\ conns'[connections'[m][q]].peer = q
        BY Zenon DEF Maps
    <2>1. CASE m = n /\ q = p
        BY <1>1, <2>1, Zenon
    <2>2. CASE ~(m = n /\ q = p)
        BY <1>1, <2>2, SMTT(30) DEF Maps
    <2> QED
        BY <2>1, <2>2, Zenon
<1>6. Streams'
    <2> SUFFICES ASSUME NEW c \in Conn', NEW i \in DOMAIN conns'[c].stream
                 PROVE  /\ conns'[c].stream[i] \in Range(aired)
                        /\ conns'[c].stream[i].source = conns'[c].peer /\ conns'[c].stream[i].dest = conns'[c].node
        BY <1>2, Zenon DEF Streams
    <2>1. CASE c = new
        BY <1>1, <2>1, Zenon
    <2>2. CASE c # new
        <3>1. c \in Conn /\ conns'[c] = conns[c]
            BY <1>1, <2>2, Zenon
        <3> QED
            BY <3>1, Zenon DEF Streams
    <2> QED
        BY <2>1, <2>2, Zenon
<1>7. ASSUME NEW m, NEW t, Routes(m, t) PROVE Routes(m, t)'
    BY <1>1, <1>2, <1>7, Zenon DEF Routes
<1>8. ASSUME NEW m \in Node, NEW g, Passed(m, g) PROVE Passed(m, g)'
    BY <1>1, <1>2, <1>8, ZenonT(40) DEF Passed, Follows
<1>9. ASSUME LivePassed, \A i \in DOMAIN st : Passed(n, st[i]) PROVE LivePassed'
    <2> SUFFICES ASSUME NEW m \in Node, NEW q \in Id, connections'[m][q] # None,
                        NEW i \in DOMAIN conns'[connections'[m][q]].stream
                 PROVE  Passed(m, conns[connections[m][q]].stream[i])'
        BY Zenon DEF LivePassed
    <2>1. PICK g : g = conns'[connections'[m][q]].stream[i]
        BY Zenon
    <2>2. Passed(m, g)
        <3>1. CASE m = n /\ q = p
            BY <1>1, <1>9, <2>1, <3>1
        <3>2. CASE ~(m = n /\ q = p)
            <4>1. connections'[m][q] = connections[m][q] /\ connections[m][q] \in Conn
                BY <1>1, <3>2, SMTT(30) DEF Maps
            <4>2. conns'[connections'[m][q]] = conns[connections[m][q]]
                BY <1>1, <4>1, Zenon
            <4> QED
                BY <1>9, <2>1, <4>1, <4>2, Zenon DEF LivePassed
        <3> QED
            BY <3>1, <3>2, Zenon
    <2>3. Passed(m, g)'
        BY <1>8, <2>2, Zenon
    <2> QED
        BY <2>1, <2>3, Zenon
<1>10. ASSUME InOrderAll, InOrder(st) PROVE InOrderAll'
    <2> SUFFICES ASSUME NEW c \in Conn' PROVE InOrder(conns'[c].stream)
        BY Zenon DEF InOrderAll
    <2>1. CASE c = new
        BY <1>1, <1>10, <2>1, ZenonT(40)
    <2>2. CASE c # new
        BY <1>1, <1>10, <2>2 DEF InOrderAll
    <2> QED
        BY <2>1, <2>2, Zenon
<1> QED
    BY <1>3, <1>4, <1>5, <1>6, <1>7, <1>8, <1>9, <1>10, Zenon

(* Turns are about connections there already were.                         *)
LEMMA TurnsKept ==
    ASSUME IInv, TurnPassed, \A k \in Conn : conns'[k] = conns[k],
           \A m \in Node : \A g : Passed(m, g) => Passed(m, g)',
           \A m \in Node : turn'[m] = turn[m] \/ ~Busy(turn'[m])
    PROVE  TurnPassed'
<1> SUFFICES ASSUME NEW m \in Node, Busy(turn'[m])
             PROVE  /\ Passed(m, turn[m].frame)'
                    /\ turn'[m].tx # None =>
                          \A i \in DOMAIN conns'[turn'[m].tx].stream :
                              conns'[turn'[m].tx].stream[i].via = turn'[m].frame.via =>
                                  conns'[turn'[m].tx].stream[i].id < turn'[m].frame.id
    BY Zenon DEF TurnPassed
<1>1. turn'[m] = turn[m] /\ Busy(turn[m])
    BY Zenon
<1>2. PICK g : g = turn[m].frame
    BY Zenon
<1>3. Passed(m, g)' /\ g = turn'[m].frame
    BY <1>1, <1>2, Zenon DEF TurnPassed
<1>4. turn[m].tx # None => conns'[turn[m].tx] = conns[turn[m].tx]
    BY Zenon DEF IInv, Dispatchers, Routes
<1> QED
    BY <1>1, <1>2, <1>3, <1>4, Zenon DEF TurnPassed

LEMMA ConnectInsertHolds == ASSUME IInv, NEW n \in Node, ConnectInsert(n) PROVE IInv'
<1> USE DEF IInv
<1>1. PICK p : p = dialing[n]
    BY Zenon
<1>2. p \in Id /\ p # "" /\ <<>> \in Seq(Framed) /\ DOMAIN <<>> = {}
    <2>1. dialing \in [Node -> Id \cup {""}]
        BY Zenon DEF Shapes
    <2>2. p # ""
        BY <1>1, Zenon DEF ConnectInsert
    <2>3. p \in Id
        BY <1>1, <2>1, <2>2, Zenon
    <2>4. <<>> \in Seq(Framed) /\ DOMAIN <<>> = {}
        OBVIOUS
    <2> QED
        BY <2>2, <2>3, <2>4, Zenon
<1>3. NewConnection(n, p, TRUE, <<>>) /\ UNCHANGED <<turn, late, incoming>> /\ dialing' = [dialing EXCEPT ![n] = ""]
    BY <1>1, Zenon DEF ConnectInsert, NewConnection
<1>4. /\ Sendings' /\ OnAir' /\ Backlogs' /\ Maps' /\ Streams'
      /\ \A m, t : Routes(m, t) => Routes(m, t)'
      /\ \A m \in Node : \A g : Passed(m, g) => Passed(m, g)'
      /\ LivePassed => LivePassed'
      /\ InOrderAll /\ InOrder(<<>>) => InOrderAll'
    BY <1>2, <1>3, NewHolds, Zenon
<1>5. UNCHANGED <<up, recent, scan, announced, aired, mishap>>
    BY <1>3, Zenon DEF NewConnection
<1>6. /\ conns' \in Seq(Connected) /\ \A k \in Conn : k \in Conn' /\ conns'[k] = conns[k]
      /\ air' \in Seq({NoFrame} \cup Framed) /\ Len(air') = Len(conns') /\ connections' \in [Node -> [Id -> Nat]]
      /\ \A m \in Node \ {n}, q \in Id : connections'[m][q] = connections[m][q]
    <2>1. /\ conns' \in Seq(Connected) /\ Conn' = Conn \cup {Len(conns) + 1}
          /\ \A k \in Conn : conns'[k] = conns[k]
          /\ air' \in Seq({NoFrame} \cup Framed) /\ Len(air') = Len(conns') /\ connections' \in [Node -> [Id -> Nat]]
          /\ \A m \in Node, q \in Id : m # n \/ q # p => connections'[m][q] = connections[m][q]
        BY <1>2, <1>3, NewFacts, Zenon
    <2> QED
        BY <2>1, Zenon
<1>7. Shapes' /\ dialing'[n] = "" /\ \A m \in Node \ {n} : dialing'[m] = dialing[m]
    <2>1. dialing \in [Node -> Id \cup {""}]
        BY Zenon DEF Shapes
    <2>2. /\ dialing' \in [Node -> Id \cup {""}] /\ dialing'[n] = ""
          /\ \A m \in Node \ {n} : dialing'[m] = dialing[m]
        BY <1>3, <2>1, Zenon
    <2>3. /\ aired' \in Seq(Framed) /\ up' \in [Node -> BOOLEAN] /\ turn' \in [Node -> Turning]
          /\ late' \in [Node -> Turning] /\ recent' \in [Node -> SUBSET (Node \X Nat)]
          /\ scan' \in [Node -> Seq(Framed)] /\ incoming' \in [Node -> Seq(Nat)]
          /\ announced' \in [Node -> SUBSET Node] /\ mishap' \in BOOLEAN
        BY <1>3, <1>5, Zenon DEF Shapes
    <2>4. Shapes'
        BY <1>6, <2>2, <2>3, Zenon DEF Shapes
    <2> QED
        BY <2>2, <2>4, Zenon
<1>8. Queues'
    <2> SUFFICES ASSUME NEW m \in Node
                 PROVE  /\ \A i \in DOMAIN incoming'[m] :
                              /\ incoming'[m][i] \in Conn'
                              /\ conns'[incoming'[m][i]].node = m /\ conns'[incoming'[m][i]].state = "queued"
                        /\ \A i, j \in DOMAIN incoming'[m] : incoming'[m][i] = incoming'[m][j] => i = j
        BY Zenon DEF Queues
    <2>1. \A i \in DOMAIN incoming[m] : incoming[m][i] \in Conn' /\ conns'[incoming[m][i]] = conns[incoming[m][i]]
        BY <1>6, Zenon DEF Queues
    <2>2. incoming' = incoming
        BY <1>3, Zenon
    <2> QED
        BY <2>1, <2>2 DEF Queues
<1>9. Dispatchers'
    <2> SUFFICES ASSUME NEW m \in Node PROVE Routes(m, turn[m])' /\ Routes(m, late[m])'
        BY <1>3, <1>5, Zenon DEF Dispatchers
    <2>1. PICK t, u : t = turn[m] /\ u = late[m]
        BY ZenonT(40)
    <2>2. Routes(m, t)' /\ Routes(m, u)'
        BY <1>4, <2>1, Zenon DEF Dispatchers
    <2> QED
        BY <1>3, <2>1, <2>2, Zenon
<1>10. ASSUME ~mishap PROVE StopIsClean' /\ LivePassed' /\ TurnPassed' /\ InOrderAll'
    <2>1. StopIsClean /\ LivePassed /\ TurnPassed /\ InOrderAll
        BY <1>10, Zenon DEF Ordered
    <2>2. up[n]
        BY <1>1, <1>2, <2>1, Zenon DEF StopIsClean
    <2>3. StopIsClean'
        BY <1>3, <1>5, <1>6, <1>7, <2>1, <2>2, ZenonT(40) DEF StopIsClean
    <2>4. TurnPassed'
        BY <1>3, <1>4, <1>6, <2>1, TurnsKept, Zenon
    <2>5. InOrder(<<>>)
        BY <1>2, Zenon DEF InOrder
    <2> QED
        BY <1>4, <2>1, <2>3, <2>4, <2>5, Zenon
<1> QED
    BY <1>4, <1>5, <1>7, <1>8, <1>9, <1>10, Zenon DEF Ordered

-----------------------------------------------------------------------------
(* The dispatcher uses what its lookup found.                              *)

(* The end of turn t, of n's dispatcher or of one aborted.                 *)
Ending(n, t) ==
    /\ Busy(t)
    /\ \/ t = turn[n] /\ turn' = [turn EXCEPT ![n] = Waiting] /\ UNCHANGED late
       \/ t = late[n] /\ late' = [late EXCEPT ![n] = Off] /\ UNCHANGED turn
    /\ UNCHANGED <<up, recent, scan, dialing, announced, aired, mishap>>

LEMMA EndingFacts ==
    ASSUME IInv, NEW n \in Node, NEW t, Ending(n, t)
    PROVE  /\ turn' \in [Node -> Turning] /\ late' \in [Node -> Turning]
           /\ \A m \in Node : turn'[m] = turn[m] \/ (turn'[m] = Waiting /\ turn[m].pc # "off")
           /\ \A m \in Node : late'[m] = late[m] \/ late'[m] = Off
           /\ t \in Turning /\ Routes(n, t)
           /\ ~mishap => t = turn[n] /\ up[n] /\ turn'[n] = Waiting /\ \A m \in Node \ {n} : turn'[m] = turn[m]
<1> USE DEF IInv
<1>1. turn \in [Node -> Turning] /\ late \in [Node -> Turning]
    BY Zenon DEF Shapes
<1>2. \A m \in Node : Routes(m, turn[m]) /\ Routes(m, late[m]) /\ (up[m] <=> turn[m].pc # "off")
    BY Zenon DEF Dispatchers
<1>3. CASE t = turn[n] /\ turn' = [turn EXCEPT ![n] = Waiting] /\ late' = late
    <2>1. turn[n].pc # "off"
        BY <1>3, Zenon DEF Ending, Busy
    <2> QED
        BY <1>1, <1>2, <1>3, <2>1, TurnFacts, Zenon
<1>4. CASE t = late[n] /\ late' = [late EXCEPT ![n] = Off] /\ turn' = turn
    <2>1. mishap
        BY <1>4, Zenon DEF Ending, Ordered, StopIsClean
    <2> QED
        BY <1>1, <1>2, <1>4, <2>1, TurnFacts, Zenon
<1> QED
    BY <1>3, <1>4, Zenon DEF Ending

LEMMA EndingDispatchers ==
    ASSUME IInv, NEW n \in Node, NEW t, Ending(n, t), \A m, u : Routes(m, u) => Routes(m, u)'
    PROVE  Dispatchers'
<1> USE DEF IInv
<1>1. ASSUME NEW m \in Node PROVE Routes(m, turn[m])' /\ Routes(m, late[m])'
    <2>1. PICK u, v : u = turn'[m] /\ v = late'[m]
        BY Zenon
    <2>2. Routes(m, Waiting) /\ Routes(m, Off)
        BY TurnFacts, Zenon DEF Routes
    <2>3. Routes(m, u) /\ Routes(m, v)
        BY <2>1, <2>2, EndingFacts, Zenon DEF Dispatchers
    <2>4. Routes(m, u)' /\ Routes(m, v)'
        BY <2>3, Zenon
    <2> QED
        BY <2>1, <2>4, Zenon
<1>2. ASSUME NEW m \in Node
      PROVE  (up'[m] <=> turn'[m].pc # "off") /\ (late'[m] = Off \/ Busy(late'[m])) /\ m \notin announced'[m]
    <2>1. up' = up /\ announced' = announced
        BY Zenon DEF Ending
    <2>2. turn'[m].pc # "off" <=> turn[m].pc # "off"
        BY EndingFacts, TurnFacts, Zenon
    <2>3. late'[m] = late[m] \/ late'[m] = Off
        BY EndingFacts, Zenon
    <2> QED
        BY <2>1, <2>2, <2>3, Zenon DEF Dispatchers
<1> QED
    BY <1>1, <1>2, Zenon DEF Dispatchers

LEMMA EndingShapes ==
    ASSUME IInv, NEW n \in Node, NEW t, Ending(n, t),
           conns' \in Seq(Connected), air' \in Seq({NoFrame} \cup Framed), Len(air') = Len(conns'),
           connections' \in [Node -> [Id -> Nat]], incoming' \in [Node -> Seq(Nat)]
    PROVE  Shapes'
<1>1. turn' \in [Node -> Turning] /\ late' \in [Node -> Turning]
    BY EndingFacts, Zenon
<1>2. /\ aired' \in Seq(Framed) /\ up' \in [Node -> BOOLEAN] /\ dialing' \in [Node -> Id \cup {""}]
      /\ recent' \in [Node -> SUBSET (Node \X Nat)] /\ scan' \in [Node -> Seq(Framed)]
      /\ announced' \in [Node -> SUBSET Node] /\ mishap' \in BOOLEAN
    BY Zenon DEF Ending, IInv, Shapes
<1> QED
    BY <1>1, <1>2, Zenon DEF Shapes

LEMMA EndingStop ==
    ASSUME IInv, NEW n \in Node, NEW t, Ending(n, t), ~mishap,
           \A m \in Node \ {n} : connections'[m] = connections[m]
    PROVE  StopIsClean'
<1>1. StopIsClean
    BY Zenon DEF IInv, Ordered
<1>2. up[n] /\ up' = up /\ dialing' = dialing
    BY EndingFacts, Zenon DEF Ending
<1>3. \A m \in Node : ~Busy(late'[m])
    BY <1>1, EndingFacts, TurnFacts, ZenonT(40) DEF StopIsClean
<1> QED
    BY <1>1, <1>2, <1>3, Zenon DEF StopIsClean

LEMMA DroppedHolds ==
    ASSUME IInv, NEW n \in Node, NEW t, Ending(n, t), UNCHANGED <<conns, air, connections, incoming>>
    PROVE  IInv'
<1> USE DEF IInv
<1>1. UNCHANGED <<recent, scan, aired, mishap>> /\ Conn' = Conn
    BY Zenon DEF Ending, Conn
<1>2. Shapes'
    <2>1. /\ conns \in Seq(Connected) /\ air \in Seq({NoFrame} \cup Framed) /\ Len(air) = Len(conns)
          /\ connections \in [Node -> [Id -> Nat]] /\ incoming \in [Node -> Seq(Nat)]
        BY Zenon DEF Shapes
    <2> QED
        BY <2>1, EndingShapes, Zenon
<1>3. Sendings' /\ OnAir' /\ Backlogs' /\ Maps' /\ Streams' /\ Queues'
    <2>1. Sendings'
        BY <1>1, Zenon DEF Sendings
    <2>2. OnAir'
        BY <1>1, Zenon DEF OnAir
    <2>3. Backlogs'
        BY <1>1, Zenon DEF Backlogs
    <2>4. Maps'
        BY <1>1, ZenonT(40) DEF Maps
    <2>5. Streams'
        BY <1>1, Zenon DEF Streams
    <2>6. Queues'
        BY <1>1 DEF Queues
    <2> QED
        BY <2>1, <2>2, <2>3, <2>4, <2>5, <2>6, Zenon
<1>4. Dispatchers'
    <2>1. \A m, u : Routes(m, u) => Routes(m, u)'
        BY <1>1, Zenon DEF Routes
    <2> QED
        BY <2>1, EndingDispatchers, Zenon
<1>5. ASSUME ~mishap PROVE StopIsClean' /\ LivePassed' /\ TurnPassed' /\ InOrderAll'
    <2>1. StopIsClean /\ LivePassed /\ TurnPassed /\ InOrderAll
        BY <1>5, Zenon DEF Ordered
    <2>2. \A m \in Node : \A g : Passed(m, g) => Passed(m, g)'
        BY <1>1 DEF Passed, Follows
    <2>3. StopIsClean'
        BY <1>5, EndingStop, Zenon
    <2>4. TurnPassed'
        <3>1. \A m \in Node : turn'[m] = turn[m] \/ ~Busy(turn'[m])
            BY EndingFacts, TurnFacts, Zenon
        <3> QED
            BY <2>1, <2>2, <3>1, TurnsKept, Zenon
    <2>5. InOrderAll'
        BY <1>1, <2>1, Zenon DEF InOrderAll
    <2>6. LivePassed'
        <3> SUFFICES ASSUME NEW m \in Node, NEW q \in Id, connections[m][q] # None,
                            NEW i \in DOMAIN conns[connections[m][q]].stream
                     PROVE  Passed(m, conns[connections[m][q]].stream[i])'
            BY Zenon DEF LivePassed
        <3>1. PICK g : g = conns[connections[m][q]].stream[i]
            BY Zenon
        <3>2. Passed(m, g)'
            BY <2>1, <2>2, <3>1, Zenon DEF LivePassed
        <3> QED
            BY <3>1, <3>2, Zenon
    <2> QED
        BY <2>6, <2>3, <2>4, <2>5, Zenon
<1> QED
    BY <1>1, <1>2, <1>3, <1>4, <1>5, Zenon DEF Ordered

LEMMA OpenedHolds ==
    ASSUME IInv, NEW n \in Node, NEW t, Ending(n, t), t.tx = None, Route(n, t)
    PROVE  IInv'
<1> USE DEF IInv
<1>1. PICK f, p : f = t.frame /\ p = t.frame.source
    BY Zenon
<1>2. f \in Range(aired) /\ f.dest = n
    BY <1>1, EndingFacts, Zenon DEF Ending, Routes
<1>3. f \in Framed /\ p \in Id /\ p = f.source
    BY <1>1, <1>2, AiredFacts, Zenon DEF Id
<1>4. <<f>> \in Seq(Framed) /\ DOMAIN <<f>> = {1} /\ <<f>>[1] = f
    BY <1>3
<1>5. /\ NewConnection(n, p, FALSE, <<f>>)
      /\ incoming' = [incoming EXCEPT ![n] = Append(@, Len(conns) + 1)]
    BY <1>1, Zenon DEF Route, NewConnection, Ending
<1>6. \A i \in DOMAIN <<f>> : <<f>>[i] \in Range(aired) /\ <<f>>[i].source = p /\ <<f>>[i].dest = n
    BY <1>2, <1>3, <1>4, Zenon
<1>7. /\ Sendings' /\ OnAir' /\ Backlogs' /\ Maps' /\ Streams'
      /\ \A m, u : Routes(m, u) => Routes(m, u)'
      /\ \A m \in Node : \A g : Passed(m, g) => Passed(m, g)'
      /\ LivePassed /\ (\A i \in DOMAIN <<f>> : Passed(n, <<f>>[i])) => LivePassed'
      /\ InOrderAll /\ InOrder(<<f>>) => InOrderAll'
    BY <1>3, <1>4, <1>5, <1>6, NewHolds, Zenon
<1>8. PICK new : new = Len(conns) + 1
    BY Zenon
<1>9. /\ conns' \in Seq(Connected) /\ Conn' = Conn \cup {new} /\ new \notin Conn
      /\ \A k \in Conn : conns'[k] = conns[k]
      /\ conns'[new].node = n /\ conns'[new].state = "queued"
      /\ air' \in Seq({NoFrame} \cup Framed) /\ Len(air') = Len(conns') /\ connections' \in [Node -> [Id -> Nat]]
    BY <1>3, <1>4, <1>5, <1>8, NewFacts, Zenon
<1>10. PICK s : s = incoming[n]
    BY Zenon
<1>11. incoming \in [Node -> Seq(Nat)] /\ s \in Seq(Nat) /\ new \in Nat
    <2>1. incoming \in [Node -> Seq(Nat)]
        BY Zenon DEF Shapes
    <2>2. Len(conns) \in Nat
        BY ConnFacts, Zenon
    <2> QED
        BY <1>8, <1>10, <2>1, <2>2, SMTT(30)
<1>12. /\ incoming' \in [Node -> Seq(Nat)] /\ incoming'[n] = Append(s, new)
       /\ \A m \in Node \ {n} : incoming'[m] = incoming[m]
    <2>1. Append(s, new) \in Seq(Nat)
        BY <1>11, AppendFacts, Zenon
    <2>2. incoming' = [incoming EXCEPT ![n] = Append(s, new)]
        BY <1>5, <1>8, <1>10, <1>11, Zenon
    <2> QED
        BY <1>11, <2>1, <2>2, Zenon
<1>13. Shapes'
    BY <1>9, <1>12, EndingShapes, Zenon
<1>14. Queues'
    <2> SUFFICES ASSUME NEW m \in Node
                 PROVE  /\ \A i \in DOMAIN incoming'[m] :
                              /\ incoming'[m][i] \in Conn'
                              /\ conns'[incoming'[m][i]].node = m /\ conns'[incoming'[m][i]].state = "queued"
                        /\ \A i, j \in DOMAIN incoming'[m] : incoming'[m][i] = incoming'[m][j] => i = j
        BY Zenon DEF Queues
    <2>1. /\ \A i \in DOMAIN incoming[m] :
                /\ incoming[m][i] \in Conn
                /\ conns[incoming[m][i]].node = m /\ conns[incoming[m][i]].state = "queued"
          /\ \A i, j \in DOMAIN incoming[m] : incoming[m][i] = incoming[m][j] => i = j
        BY Zenon DEF Queues
    <2>2. \A i \in DOMAIN incoming[m] : /\ incoming[m][i] # new /\ incoming[m][i] \in Conn'
                                        /\ conns'[incoming[m][i]] = conns[incoming[m][i]]
        BY <1>9, <2>1, Zenon
    <2>3. CASE m # n
        BY <1>12, <2>1, <2>2, <2>3, ZenonT(40)
    <2>4. CASE m = n
        <3>1. \A i \in DOMAIN Append(s, new) :
                  (i \in DOMAIN s /\ Append(s, new)[i] = s[i]) \/ (i = Len(s) + 1 /\ Append(s, new)[i] = new)
            BY <1>11, AppendFacts, SMTT(30)
        <3>2. \A i \in DOMAIN s : /\ s[i] # new /\ s[i] \in Conn'
                                  /\ conns'[s[i]].node = n /\ conns'[s[i]].state = "queued"
            BY <1>10, <2>1, <2>2, <2>4, ZenonT(40)
        <3>3. \A i \in DOMAIN Append(s, new) : /\ Append(s, new)[i] \in Conn'
                                               /\ conns'[Append(s, new)[i]].node = n
                                               /\ conns'[Append(s, new)[i]].state = "queued"
            BY <1>9, <3>1, <3>2, Zenon
        <3>4. \A i, j \in DOMAIN s : s[i] = s[j] => i = j
            BY <1>10, <2>1, <2>4, Zenon
        <3>5. \A i, j \in DOMAIN Append(s, new) : Append(s, new)[i] = Append(s, new)[j] => i = j
            BY <3>1, <3>2, <3>4, Zenon
        <3> QED
            BY <1>12, <2>4, <3>3, <3>5, ZenonT(40)
    <2> QED
        BY <2>3, <2>4, Zenon
<1>15. Dispatchers'
    BY <1>7, EndingDispatchers, Zenon
<1>16. mishap' = mishap
    BY Zenon DEF Ending
<1>17. ASSUME ~mishap PROVE StopIsClean' /\ LivePassed' /\ TurnPassed' /\ InOrderAll'
    <2>1. LivePassed /\ TurnPassed /\ InOrderAll /\ t = turn[n]
        BY <1>17, EndingFacts, Zenon DEF Ordered
    <2>2. \A m \in Node \ {n} : connections'[m] = connections[m]
        <3>1. connections \in [Node -> [Id -> Nat]]
            BY Zenon DEF Shapes
        <3> QED
            BY <1>5, <3>1, Zenon DEF NewConnection
    <2>3. StopIsClean'
        BY <1>17, <2>2, EndingStop, Zenon
    <2>4. TurnPassed'
        <3>1. \A m \in Node : turn'[m] = turn[m] \/ ~Busy(turn'[m])
            BY EndingFacts, TurnFacts, Zenon
        <3> QED
            BY <1>7, <1>9, <2>1, <3>1, TurnsKept, Zenon
    <2>5. Passed(n, f)
        BY <1>1, <2>1, Zenon DEF Ending, TurnPassed
    <2>6. LivePassed'
        BY <1>4, <1>7, <2>1, <2>5, Zenon
    <2>7. InOrder(<<f>>)
        BY <1>4, SMTT(30) DEF InOrder
    <2> QED
        BY <1>7, <2>1, <2>3, <2>4, <2>6, <2>7, ZenonT(40)
<1> QED
    BY <1>7, <1>13, <1>14, <1>15, <1>16, <1>17, Zenon DEF Ordered

LEMMA StreamFacts ==
    ASSUME Shapes, NEW c \in Conn, NEW f \in Framed, conns' = [conns EXCEPT ![c].stream = Append(@, f)]
    PROVE  /\ conns' \in Seq(Connected) /\ Len(conns') = Len(conns) /\ Conn' = Conn
           /\ \A k \in Conn : /\ conns'[k].node = conns[k].node /\ conns'[k].peer = conns[k].peer
                              /\ conns'[k].state = conns[k].state /\ (k # c => conns'[k] = conns[k])
           /\ Len(conns[c].stream) \in Nat /\ DOMAIN conns[c].stream = 1..Len(conns[c].stream)
           /\ \A i \in DOMAIN conns'[c].stream :
                 \/ i \in DOMAIN conns[c].stream /\ conns'[c].stream[i] = conns[c].stream[i]
                 \/ i = Len(conns[c].stream) + 1 /\ conns'[c].stream[i] = f
<1>1. PICK s : s = conns[c].stream
    BY Zenon
<1>2. PICK x : x = [conns[c] EXCEPT !.stream = Append(s, f)]
    BY Zenon
<1>3. conns[c] \in Connected
    BY ConnFacts, Zenon
<1>4. s \in Seq(Framed)
    BY <1>1, <1>3, Zenon DEF Connected
<1>5. PICK a : a = Append(s, f)
    BY Zenon
<1>6. a \in Seq(Framed) /\ Len(s) \in Nat /\ DOMAIN s = 1..Len(s)
    BY <1>4, <1>5, AppendFacts, Zenon
<1>7. ASSUME NEW i \in DOMAIN a PROVE (i \in DOMAIN s /\ a[i] = s[i]) \/ (i = Len(s) + 1 /\ a[i] = f)
    BY <1>4, <1>5, AppendCases, Zenon
<1>8. /\ x \in Connected /\ x.node = conns[c].node /\ x.peer = conns[c].peer /\ x.state = conns[c].state
      /\ x.stream = a
    BY <1>2, <1>3, <1>5, <1>6, Zenon DEF Connected
<1>9. conns \in Seq(Connected) /\ c \in 1..Len(conns) /\ Conn = 1..Len(conns)
    BY ConnFacts, Zenon DEF Shapes
<1>10. conns' = [conns EXCEPT ![c] = x]
    BY <1>1, <1>2, <1>9, Zenon
<1>11. /\ conns' \in Seq(Connected) /\ Len(conns') = Len(conns) /\ DOMAIN conns' = 1..Len(conns)
      /\ conns'[c] = x /\ \A j \in 1..Len(conns) \ {c} : conns'[j] = conns[j]
    BY <1>8, <1>9, <1>10, ExceptFacts, SMTT(30)
<1>12. conns'[c].stream = a
    BY <1>8, <1>11, Zenon
<1> QED
    BY <1>1, <1>6, <1>7, <1>8, <1>9, <1>11, <1>12, SMTT(30) DEF Conn

LEMMA PassedOnHolds ==
    ASSUME IInv, NEW n \in Node, NEW t, Ending(n, t), t.tx # None,
           conns' = [conns EXCEPT ![t.tx].stream = Append(@, t.frame)], UNCHANGED <<air, connections, incoming>>
    PROVE  IInv'
<1> USE DEF IInv
<1>1. PICK c, f : c = t.tx /\ f = t.frame
    BY Zenon
<1>2. /\ c \in Conn /\ f \in Range(aired) /\ f.dest = n
      /\ conns[c].node = n /\ conns[c].peer = f.source
    BY <1>1, EndingFacts DEF Ending, Routes
<1>3. f \in Framed
    BY <1>2, AiredFacts, Zenon
<1>4. UNCHANGED <<recent, scan, aired, mishap>>
    BY Zenon DEF Ending
<1>5. PICK s : s = conns[c].stream
    BY Zenon
<1>6. /\ conns' \in Seq(Connected) /\ Len(conns') = Len(conns) /\ Conn' = Conn
      /\ \A k \in Conn : /\ conns'[k].node = conns[k].node /\ conns'[k].peer = conns[k].peer
                         /\ conns'[k].state = conns[k].state /\ (k # c => conns'[k] = conns[k])
      /\ Len(s) \in Nat /\ DOMAIN s = 1..Len(s)
      /\ \A i \in DOMAIN conns'[c].stream : \/ i \in DOMAIN s /\ conns'[c].stream[i] = s[i]
                                            \/ i = Len(s) + 1 /\ conns'[c].stream[i] = f
    <2>1. conns' = [conns EXCEPT ![c].stream = Append(@, f)]
        BY <1>1, Zenon
    <2>2. /\ conns' \in Seq(Connected) /\ Len(conns') = Len(conns) /\ Conn' = Conn
          /\ \A k \in Conn : /\ conns'[k].node = conns[k].node /\ conns'[k].peer = conns[k].peer
                             /\ conns'[k].state = conns[k].state /\ (k # c => conns'[k] = conns[k])
          /\ Len(conns[c].stream) \in Nat /\ DOMAIN conns[c].stream = 1..Len(conns[c].stream)
          /\ \A i \in DOMAIN conns'[c].stream :
                \/ i \in DOMAIN conns[c].stream /\ conns'[c].stream[i] = conns[c].stream[i]
                \/ i = Len(conns[c].stream) + 1 /\ conns'[c].stream[i] = f
        BY <1>2, <1>3, <2>1, StreamFacts, ZenonT(40)
    <2> QED
        BY <1>5, <2>2, Zenon
<1>7. Shapes'
    <2>1. /\ air \in Seq({NoFrame} \cup Framed) /\ Len(air) = Len(conns)
          /\ connections \in [Node -> [Id -> Nat]] /\ incoming \in [Node -> Seq(Nat)]
        BY Zenon DEF Shapes
    <2> QED
        BY <1>6, <2>1, EndingShapes, Zenon
<1>8. Sendings' /\ OnAir' /\ Backlogs' /\ Maps'
    <2>1. Sendings'
        BY <1>4, <1>6, SMTT(30) DEF Sendings
    <2>2. OnAir'
        BY <1>4, <1>6, Zenon DEF OnAir
    <2>3. Backlogs'
        BY <1>4, <1>6, ZenonT(40) DEF Backlogs
    <2>4. Maps'
        BY <1>4, <1>6, SMTT(30) DEF Maps
    <2> QED
        BY <2>1, <2>2, <2>3, <2>4, SMTT(30)
<1>9. Queues'
    BY <1>6 DEF Queues
<1>10. Dispatchers'
    <2>1. \A m, u : Routes(m, u) => Routes(m, u)'
        BY <1>4, <1>6, ZenonT(40) DEF Routes
    <2> QED
        BY <2>1, EndingDispatchers, Zenon
<1>11. Streams'
    <2> SUFFICES ASSUME NEW k \in Conn, NEW i \in DOMAIN conns'[k].stream
                 PROVE  /\ conns'[k].stream[i] \in Range(aired)
                        /\ conns'[k].stream[i].source = conns'[k].peer /\ conns'[k].stream[i].dest = conns'[k].node
        BY <1>4, <1>6, SMTT(30) DEF Streams
    <2>1. CASE k # c
        <3>1. conns'[k] = conns[k]
            BY <1>6, <2>1, ZenonT(40)
        <3> QED
            BY <3>1, Zenon DEF Streams
    <2>2. CASE k = c
        <3>1. \A j \in DOMAIN s : s[j] \in Range(aired) /\ s[j].source = conns[c].peer /\ s[j].dest = conns[c].node
            BY <1>2, <1>5, Zenon DEF Streams
        <3>2. conns'[c].peer = f.source /\ conns'[c].node = n /\ conns[c].peer = f.source /\ conns[c].node = n
            BY <1>2, <1>6, Zenon
        <3>3. CASE i \in DOMAIN s /\ conns'[c].stream[i] = s[i]
            BY <2>2, <3>1, <3>2, <3>3, Zenon
        <3>4. CASE conns'[c].stream[i] = f
            BY <1>2, <2>2, <3>2, <3>4, Zenon
        <3> QED
            BY <1>6, <2>2, <3>3, <3>4, Zenon
    <2> QED
        BY <2>1, <2>2, Zenon
<1>12. ASSUME ~mishap PROVE StopIsClean' /\ LivePassed' /\ TurnPassed' /\ InOrderAll'
    <2>1. LivePassed /\ TurnPassed /\ InOrderAll
        BY <1>12, Zenon DEF Ordered
    <2>2. t = turn[n] /\ turn'[n] = Waiting /\ \A m \in Node \ {n} : turn'[m] = turn[m]
        BY <1>12, EndingFacts, Zenon
    <2>3. StopIsClean'
        BY <1>12, EndingStop, Zenon
    <2>4. Passed(n, f) /\ \A i \in DOMAIN s : s[i].via = f.via => s[i].id < f.id
        BY <1>1, <1>5, <2>1, <2>2, Zenon DEF Ending, TurnPassed
    <2>5. \A m \in Node : \A g : Passed(m, g) => Passed(m, g)'
        BY <1>4, <1>6, Zenon DEF Passed, Follows
    <2>6. LivePassed'
        <3> SUFFICES ASSUME NEW m \in Node, NEW q \in Id, connections[m][q] # None,
                            NEW i \in DOMAIN conns'[connections[m][q]].stream
                     PROVE  Passed(m, conns[connections[m][q]].stream[i])'
            BY Zenon DEF LivePassed
        <3>1. PICK k, g : k = connections[m][q] /\ g = conns'[k].stream[i]
            BY Zenon
        <3>2. k \in Conn /\ conns[k].node = m /\ \A j \in DOMAIN conns[k].stream : Passed(m, conns[k].stream[j])
            BY <2>1, <3>1, Zenon DEF Maps, LivePassed
        <3>3. Passed(m, g)
            <4>1. CASE k # c
                BY <1>6, <3>1, <3>2, <4>1, ZenonT(40)
            <4>2. CASE k = c
                BY <1>2, <1>5, <1>6, <2>4, <3>1, <3>2, <4>2, SMTT(30)
            <4> QED
                BY <4>1, <4>2, Zenon
        <3>4. Passed(m, g)'
            BY <2>5, <3>3, Zenon
        <3> QED
            BY <3>1, <3>4, Zenon
    <2>7. TurnPassed'
        <3> SUFFICES ASSUME NEW m \in Node, Busy(turn'[m])
                     PROVE  /\ Passed(m, turn[m].frame)'
                            /\ turn'[m].tx # None =>
                                  \A i \in DOMAIN conns'[turn'[m].tx].stream :
                                      conns'[turn'[m].tx].stream[i].via = turn'[m].frame.via =>
                                          conns'[turn'[m].tx].stream[i].id < turn'[m].frame.id
            BY Zenon DEF TurnPassed
        <3>1. m # n /\ turn'[m] = turn[m]
            BY <2>2, TurnFacts, Zenon
        <3>2. PICK g : g = turn[m].frame
            BY Zenon
        <3>3. Passed(m, g)'
            BY <2>1, <2>5, <3>1, <3>2, Zenon DEF TurnPassed
        <3>4. turn[m].tx # None => turn[m].tx \in Conn /\ conns[turn[m].tx].node = m
            BY <3>1, Zenon DEF Dispatchers, Routes
        <3>5. turn[m].tx # None => conns'[turn[m].tx] = conns[turn[m].tx]
            BY <1>2, <1>6, <3>1, <3>4, Zenon
        <3> QED
            BY <2>1, <3>1, <3>2, <3>3, <3>5, Zenon DEF TurnPassed
    <2>8. InOrderAll'
        <3> SUFFICES ASSUME NEW k \in Conn PROVE InOrder(conns'[k].stream)
            BY <1>6, Zenon DEF InOrderAll
        <3>1. CASE k # c
            BY <1>6, <2>1, <3>1, Zenon DEF InOrderAll
        <3>2. CASE k = c
            <4>1. InOrder(s)
                BY <1>2, <1>5, <2>1, ZenonT(40) DEF InOrderAll
            <4> SUFFICES ASSUME NEW i \in DOMAIN conns'[c].stream, NEW j \in DOMAIN conns'[c].stream,
                                i < j, conns'[c].stream[i].via = conns'[c].stream[j].via
                         PROVE  conns'[c].stream[i].id < conns'[c].stream[j].id
                BY <3>2, SMTT(30) DEF InOrder
            <4>2. CASE i \in DOMAIN s /\ j \in DOMAIN s
                <5>1. DOMAIN s = 1..Len(s) /\ Len(s) \in Nat
                    BY <1>6, Zenon
                <5>2. i # Len(s) + 1 /\ j # Len(s) + 1
                    BY <4>2, <5>1
                <5>3. conns'[c].stream[i] = s[i]
                    BY <1>6, <5>2, Zenon
                <5>4. conns'[c].stream[j] = s[j]
                    BY <1>6, <5>2, Zenon
                <5> QED
                    BY <4>1, <4>2, <5>3, <5>4, Zenon DEF InOrder
            <4>3. CASE ~(i \in DOMAIN s /\ j \in DOMAIN s)
                <5>1. i \in DOMAIN s /\ conns'[c].stream[i] = s[i] /\ conns'[c].stream[j] = f
                    <6>1. /\ (i \in DOMAIN s /\ conns'[c].stream[i] = s[i]) \/ i = Len(s) + 1
                          /\ (j \in DOMAIN s) \/ (j = Len(s) + 1 /\ conns'[c].stream[j] = f)
                          /\ \A h \in DOMAIN s : h \in Nat /\ h <= Len(s)
                          /\ Len(s) \in Nat
                        <7>1. /\ (i \in DOMAIN s /\ conns'[c].stream[i] = s[i]) \/ i = Len(s) + 1
                              /\ (j \in DOMAIN s) \/ (j = Len(s) + 1 /\ conns'[c].stream[j] = f)
                            BY <1>6, Zenon
                        <7>2. DOMAIN s = 1..Len(s) /\ Len(s) \in Nat
                            BY <1>6, Zenon
                        <7> QED
                            BY <7>1, <7>2
                    <6> QED
                        BY <4>3, <6>1, SMTT(30)
                <5> QED
                    BY <2>4, <5>1, ZenonT(40)
            <4> QED
                BY <4>2, <4>3, Zenon
        <3> QED
            BY <3>1, <3>2, Zenon
    <2> QED
        BY <2>3, <2>6, <2>7, <2>8, Zenon
<1> QED
    BY <1>4, <1>7, <1>8, <1>9, <1>10, <1>11, <1>12, Zenon DEF Ordered

LEMMA DispatchStepHolds == ASSUME IInv, NEW n \in Node, DispatchStep(n) PROVE IInv'
<1>1. PICK t : Ending(n, t) /\ Route(n, t)
    BY Zenon DEF DispatchStep, Dispatch, Ending
<1>2. CASE t.tx = None
    BY <1>1, <1>2, OpenedHolds, Zenon
<1>3. CASE t.tx # None
    <2>1. UNCHANGED <<air, connections, incoming>>
        BY <1>1, <1>3, Zenon DEF Route
    <2>2. CASE conns[t.tx].state = "dropped"
        BY <1>1, <1>3, <2>1, <2>2, DroppedHolds, Zenon DEF Route
    <2>3. CASE conns[t.tx].state # "dropped"
        BY <1>1, <1>3, <2>1, <2>3, PassedOnHolds, Zenon DEF Route
    <2> QED
        BY <2>2, <2>3, Zenon
<1> QED
    BY <1>2, <1>3, Zenon

-----------------------------------------------------------------------------
LEMMA StutterHolds == ASSUME IInv, UNCHANGED vars PROVE IInv'
<1>1. UNCHANGED <<up, turn, late, recent, scan, connections, incoming, dialing, announced, conns, air, aired, mishap>>
    BY Zenon DEF vars, nodeVars
<1>2. Shapes' /\ Sendings' /\ OnAir' /\ Backlogs' /\ Maps' /\ Queues' /\ Streams'
    <2>1. Shapes'
        BY <1>1, Zenon DEF IInv, Shapes
    <2>2. Sendings'
        BY <1>1, Zenon DEF IInv, Sendings, Conn
    <2>3. OnAir'
        BY <1>1, Zenon DEF IInv, OnAir, Conn
    <2>4. Backlogs'
        BY <1>1, Zenon DEF IInv, Backlogs
    <2>5. Maps'
        BY <1>1 DEF IInv, Maps, Conn
    <2>6. Queues'
        BY <1>1, Zenon DEF IInv, Queues, Conn
    <2>7. Streams'
        BY <1>1, Zenon DEF IInv, Streams, Conn
    <2> QED
        BY <2>1, <2>2, <2>3, <2>4, <2>5, <2>6, <2>7, Zenon
<1>3. Dispatchers'
    BY <1>1, Zenon DEF IInv, Dispatchers, Routes, Conn
<1>4. Ordered'
    <2>1. ASSUME NEW n \in Node, NEW g, Passed(n, g) PROVE Passed(n, g)'
        BY <1>1, <2>1, Zenon DEF Passed, Follows, Conn
    <2> QED
        BY <1>1, <2>1, OrderKept, Zenon
<1> QED
    BY <1>2, <1>3, <1>4, Zenon DEF IInv

LEMMA StepHolds == ASSUME IInv, [Next]_vars PROVE IInv'
<1>1. ASSUME NEW n \in Node, NodeStep(n) PROVE IInv'
    BY <1>1, TakeHolds, DispatchStepHolds, ConnectInsertHolds, AcceptHolds, StartHolds, Zenon DEF NodeStep
<1>2. ASSUME NEW n \in Node, Expire(n) \/ Stop(n) \/ Recheck(n) PROVE IInv'
    BY <1>2, ExpireHolds, StopHolds, RecheckHolds, Zenon
<1>3. ASSUME NEW n \in Node, NEW p \in Id, ConnectCheck(n, p) PROVE IInv'
    BY <1>3, ConnectCheckHolds, Zenon
<1>4. ASSUME NEW n \in Node, NEW c \in Conn, Hear(n, c) PROVE IInv'
    BY <1>4, HearHolds, Zenon
<1>5. ASSUME NEW c \in Conn, ConnStep(c) \/ SendBytes(c) \/ Drop(c) PROVE IInv'
    BY <1>5, DropHolds, WithdrawHolds, SendBytesHolds, Zenon DEF ConnStep
<1>6. CASE UNCHANGED vars
    BY <1>6, StutterHolds, Zenon
<1> QED
    BY <1>1, <1>2, <1>3, <1>4, <1>5, <1>6, Zenon DEF Next

LEMMA Inductive == Spec => []IInv
<1>1. IInv /\ [Next]_vars => IInv'
    BY StepHolds, Zenon
<1> QED
    BY <1>1, InitHolds, PTL DEF Spec

LEMMA TypesHold == ASSUME IInv PROVE TypeOK
<1> USE DEF IInv
<1>1. up \in [Node -> BOOLEAN]
    BY Zenon DEF Shapes
<1>2. turn \in [Node -> Turns] /\ late \in [Node -> Turns]
    <2>1. turn \in [Node -> Turning] /\ late \in [Node -> Turning]
        BY Zenon DEF Shapes
    <2>2. ASSUME NEW n \in Node, NEW t \in Turning, Routes(n, t) PROVE t \in Turns
        <3>1. t.frame \in {NoFrame} \cup Range(aired) /\ t.tx \in {None} \cup Conn
            BY <2>2, Zenon DEF Routes
        <3> QED
            BY <3>1, Zenon DEF Turning, Turns
    <2>3. \A n \in Node : turn[n] \in Turns /\ late[n] \in Turns
        BY <2>1, <2>2, Zenon DEF Dispatchers
    <2> QED
        BY <2>1, <2>3, Zenon
<1>3. ASSUME NEW n \in Node PROVE scan[n] \in Seq(Range(aired))
    <2>1. PICK s : s = scan[n]
        BY Zenon
    <2>2. s \in Seq(Framed) /\ \A i \in DOMAIN s : s[i] \in Range(aired)
        BY <2>1, Zenon DEF Shapes, Backlogs
    <2>3. Len(s) \in Nat /\ DOMAIN s = 1..Len(s) /\ s = [i \in 1..Len(s) |-> s[i]]
        BY <2>2
    <2>4. s \in [1..Len(s) -> Range(aired)]
        BY <2>2, <2>3, Zenon
    <2> QED
        BY <2>1, <2>3, <2>4
<1>4. ASSUME NEW n \in Node PROVE announced[n] \subseteq Node \ {n}
    <2>1. announced[n] \subseteq Node
        BY Zenon DEF Shapes
    <2> QED
        BY <2>1, Zenon DEF Dispatchers
<1>5. air \in [Conn -> {NoFrame} \cup Range(aired)]
    <2>1. DOMAIN air = Conn /\ \A c \in Conn : air[c] \in {NoFrame} \cup Range(aired)
        BY ConnFacts, Zenon DEF OnAir
    <2>2. air = [c \in Conn |-> air[c]]
        <3>1. air \in Seq({NoFrame} \cup Framed)
            BY Zenon DEF Shapes
        <3>2. air = [c \in DOMAIN air |-> air[c]]
            BY <3>1, SMTT(30)
        <3> QED
            BY <2>1, <3>2, Zenon
    <2> QED
        BY <2>1, <2>2, Zenon
<1>6. ASSUME NEW n \in Node
      PROVE  /\ up[n] <=> turn[n].pc # "off"
             /\ late[n] = Off \/ Busy(late[n])
             /\ \A p \in Id : connections[n][p] # None =>
                   conns[connections[n][p]].node = n /\ conns[connections[n][p]].peer = p
             /\ \A i \in DOMAIN incoming[n] : conns[incoming[n][i]].state = "queued"
    BY DEF Dispatchers, Maps, Queues
<1> QED
    BY <1>1, <1>2, <1>3, <1>4, <1>5, <1>6, Zenon DEF TypeOK

(* A connection carries only frames its peer sent to its node, those of    *)
(* one sending connection once each and in order, unless a stop met a turn *)
(* of the dispatcher or a frame was read again after DEDUP_TTL: for any    *)
(* number of nodes, of connections between the same two, of frames and     *)
(* copies of frames, and of restarts.                                      *)
THEOREM StreamsHold == Spec => []StreamsAreInOrder
<1>1. IInv => StreamsAreInOrder
    BY TypesHold, Zenon DEF IInv, Streams, Ordered, InOrderAll, StreamsAreInOrder
<1> QED
    BY <1>1, Inductive, PTL

(* While a transport is stopped its map holds no connection, whatever      *)
(* connect, the dispatcher and earlier stops did, unless the stop met a    *)
(* turn of the dispatcher or a connect between its two locks.              *)
THEOREM StopClears == Spec => []StopReleases
<1>1. IInv => StopReleases
    BY Zenon DEF IInv, Ordered, StopIsClean, StopReleases
<1> QED
    BY <1>1, Inductive, PTL
=============================================================================
