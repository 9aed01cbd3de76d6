---------------------------- MODULE DeliveryProofs ----------------------------
(***************************************************************************)
(* What an answered send and the deduplication caches of Delivery promise, *)
(* for any peer table, any number of sends and connections and any         *)
(* duration of the waits: AckIsGenuine and AtMostOnce.                     *)
(***************************************************************************)
EXTENDS Delivery, FiniteSetTheorems, TLAPS

-----------------------------------------------------------------------------
(* The inductive invariant: which frames can be on their way on a          *)
(* connection whose receiver has come so far, and what the sender's phase  *)
(* says of the connection it holds.                                        *)

Only(s, f) == Len(s) = 1 /\ s[1] = f
Both(s) == Len(s) = 2 /\ s[1] = "addr" /\ s[2] = "msg"

LEMMA TailFacts ==
    ASSUME NEW S, NEW q \in Seq(S), q # <<>>
    PROVE  /\ Tail(q) \in Seq(S) /\ Len(Tail(q)) = Len(q) - 1
           /\ \A i \in 1..Len(q) - 1 : Tail(q)[i] = q[i + 1]
OBVIOUS

LEMMA NoElement == ASSUME NEW S, NEW q \in Seq(S), Len(q) = 0 PROVE q = <<>>
OBVIOUS

LEMMA FrameFacts ==
    ASSUME NEW s \in Seq(Frame)
    PROVE  /\ s = <<>> => Range(s) = {} /\ \A f \in Frame : Only(Append(s, f), f)
           /\ Only(s, "addr") => Both(Append(s, "msg"))
           /\ \A f : Only(s, f) => s # <<>> /\ Tail(s) = <<>> /\ Range(s) = {f}
           /\ Both(s) => s # <<>> /\ Only(Tail(s), "msg")
<1>1. s = <<>> => Range(s) = {} /\ \A f \in Frame : Only(Append(s, f), f)
    BY DEF Range, Only
<1>2. Only(s, "addr") => Both(Append(s, "msg"))
    <2>1. "msg" \in Frame /\ Len(s) \in Nat
        BY DEF Frame
    <2>2. /\ Len(Append(s, "msg")) = Len(s) + 1 /\ Append(s, "msg")[Len(s) + 1] = "msg"
          /\ \A i \in 1..Len(s) : Append(s, "msg")[i] = s[i]
        BY <2>1
    <2>3. Len(s) = 1 => Len(s) + 1 = 2 /\ 1 \in 1..Len(s)
        OBVIOUS
    <2> QED
        BY <2>2, <2>3, Zenon DEF Only, Both
<1>3. ASSUME NEW f, Only(s, f) PROVE s # <<>> /\ Tail(s) = <<>> /\ Range(s) = {f}
    <2>1. Len(s) = 1 /\ s[1] = f /\ s # <<>> /\ DOMAIN s = {1}
        BY <1>3, SMTT(30) DEF Only
    <2>2. Tail(s) \in Seq(Frame) /\ Len(Tail(s)) = 0
        BY <2>1
    <2>3. Tail(s) = <<>>
        BY <2>2, NoElement, Zenon
    <2>4. Range(s) = {f}
        BY <2>1, Zenon DEF Range
    <2> QED
        BY <2>1, <2>3, <2>4, Zenon
<1>4. ASSUME Both(s) PROVE s # <<>> /\ Only(Tail(s), "msg")
    <2>1. Len(s) = 2 /\ s[2] = "msg" /\ s # <<>>
        BY <1>4, SMTT(30) DEF Both
    <2>2. Len(Tail(s)) = 1 /\ Tail(s)[1] = s[1 + 1]
        BY <2>1, TailFacts, SMTT(30)
    <2>3. 1 + 1 = 2
        OBVIOUS
    <2> QED
        BY <2>1, <2>2, <2>3, Zenon DEF Only
<1> QED
    BY <1>1, <1>2, <1>3, <1>4, Zenon

Held == {"connect", "handshake", "exchange", "ack", "ok"}

(* A wait is never longer than its limit.                                  *)
InLimit(p, l) == (p = "exchange" => l <= ExchangeTimeout) /\ (p = "backoff" => l <= Backoff)

Sender ==
    /\ phase \in Held => at \in Pair /\ cur \in Conn
    /\ InLimit(phase, left)
    /\ phase = "backoff" => attempt + 1 < MaxAttempts
    /\ exchanged => phase \in {"ack", "ok"}

(* A connection whose receiver's task is at r, run by p, with frames in on *)
(* their way to it and frames out on their way back.                       *)
LineOK(r, p, in, out, rec) ==
    /\ r \in {"first", "app", "handle", "reply", "loop"} => p \in Node
    /\ r \in {"handle", "reply", "loop"} => p \in rec
    /\ r \in {"none", "hs", "first"} => out = <<>>
    /\ r = "first" => Only(in, "addr") \/ Both(in)
    /\ r = "app" => in = <<>> \/ Only(in, "msg")
    /\ r \notin {"first", "app"} => in = <<>>
    /\ "ack" \in Range(out) => p \in rec
Lines == \A k \in Conn : LineOK(rcv[k], peer[k], toRcv[k], toSnd[k], recorded)

Current ==
    /\ phase = "connect" => rcv[cur] = "none"
    /\ phase = "handshake" => rcv[cur] \in {"hs", "done"} /\ toSnd[cur] = <<>>
    /\ phase = "exchange" =>
          /\ rcv[cur] \in {"first", "app", "done"}
          /\ (toRcv[cur] = <<>> \/ Only(toRcv[cur], "addr")) /\ (toSnd[cur] = <<>> \/ Only(toSnd[cur], "addr"))
    /\ phase = "ack" /\ exchanged =>
          /\ rcv[cur] \in {"app", "handle", "reply", "loop", "done"}
          /\ (toSnd[cur] = <<>> \/ Only(toSnd[cur], "ack"))
          /\ rcv[cur] \in {"app", "handle", "reply"} => toSnd[cur] = <<>>
    /\ phase \in {"exchange", "ack", "ok"} /\ pattern = "XK" => peer[cur] = "dest"
    /\ phase = "ok" /\ exchanged => peer[cur] \in recorded

Records == \A n \in Node : seen[n] # Never => n \in recorded

IInv == TypeOK /\ Sender /\ Lines /\ Current /\ Records

LEMMA IInvIsGenuine == IInv => AckIsGenuine
BY Zenon DEF IInv, AckIsGenuine, Current

LEMMA InitHolds == Init => IInv
<1> SUFFICES ASSUME Init PROVE IInv
    BY Zenon
<1>1. TypeOK
    <2>1. /\ owner \in Tables /\ key \in BOOLEAN /\ exchanged \in BOOLEAN
          /\ handler \in [Node -> BOOLEAN] /\ handled \in [Node -> Nat]
        BY Zenon DEF Init
    <2>2. /\ sends \in 0..MaxSends /\ attempt \in 0..(MaxAttempts - 1)
          /\ seen \in [Node -> 0..DedupTTL \cup {Never}]
          /\ left \in 0..AckTimeout /\ outside \in 0..MaxOutside
        BY TimeTypes, SMTT(30) DEF Init, MaxAttempts, AckTimeout
    <2>3. /\ rcv \in [Conn -> {"none", "hs", "first", "app", "handle", "reply", "loop", "done"}]
          /\ peer \in [Conn -> Node \cup {"mute", "nobody"}]
          /\ toRcv \in [Conn -> Seq(Frame)] /\ toSnd \in [Conn -> Seq(Frame)] /\ queue \in Seq(Pair)
        BY DEF Init
    <2> QED
        BY <2>1, <2>2, <2>3, Zenon DEF Init, TypeOK
<1>2. LineOK("none", "nobody", <<>>, <<>>, {}) /\ InLimit("idle", left)
    BY DEF LineOK, Range, InLimit
<1> QED
    BY <1>1, <1>2, Zenon DEF Init, IInv, Sender, Held, Lines, Current, Records

-----------------------------------------------------------------------------
(* Time.                                                                   *)

LEMMA PassFacts ==
    ASSUME TypeOK, NEW t \in Nat, Pass(t)
    PROVE  /\ seen' \in [Node -> 0..DedupTTL \cup {Never}]
           /\ \A n \in Node : /\ seen[n] = Never <=> seen'[n] = Never
                              /\ seen[n] # Never => seen'[n] <= seen[n] + t
<1>1. ASSUME NEW n \in Node, seen[n] # Never
      PROVE  seen'[n] \in 0..DedupTTL /\ seen'[n] <= seen[n] + t
    <2> DEFINE a == seen[n] + t
    <2>1. a \in Nat /\ DedupTTL \in Nat
        BY <1>1, TimeTypes, SMTT(30) DEF TypeOK
    <2>2. seen'[n] = Min({a, DedupTTL})
        BY <1>1, Zenon DEF Pass, Older
    <2>3. Min({a, DedupTTL}) \in {a, DedupTTL} /\ Min({a, DedupTTL}) <= a /\ Min({a, DedupTTL}) <= DedupTTL
        <3> HIDE DEF a
        <3>1. \E x \in {a, DedupTTL} : \A y \in {a, DedupTTL} : x <= y
            BY <2>1
        <3> QED BY <3>1, Zenon DEF Min
    <2> QED
        BY <2>1, <2>2, <2>3, SMTT(30)
<1>2. \A n \in Node : seen[n] = Never => seen'[n] = Never
    BY Zenon DEF Pass, Older
<1>3. \A n \in Node : seen'[n] \in 0..DedupTTL \cup {Never}
    BY <1>1, <1>2, Zenon
<1>4. seen' \in [Node -> 0..DedupTTL \cup {Never}]
    BY <1>3, Zenon DEF Pass
<1> QED
    BY <1>1, <1>2, <1>4, SMTT(30) DEF Never

(* A step of the sender sets the deadline of the wait it goes on to.       *)
LEMMA GotoFacts == ASSUME NEW p, Goto(p) PROVE left' \in 0..AckTimeout /\ InLimit(phase', left')
<1>1. Limit(p) \in 0..AckTimeout /\ InLimit(p, Limit(p))
    BY DEF Limit, InLimit, ExchangeTimeout, AckTimeout, Backoff
<1> QED
    BY <1>1, Zenon DEF Goto

LEMMA StepLimit == Send \/ SenderStep => left' \in 0..AckTimeout /\ InLimit(phase', left')
<1>1. CASE Send \/ BeginAttempt \/ BeginTry \/ EndAttempt \/ BackoffOver
    BY <1>1, GotoFacts, Zenon DEF Send, BeginAttempt, BeginTry, EndAttempt, BackoffOver
<1>2. CASE ConnectOk \/ ConnectErr \/ HandshakeOk \/ HandshakeErr
    BY <1>2, GotoFacts, Zenon DEF ConnectOk, ConnectErr, HandshakeOk, HandshakeErr, EndTry
<1>3. CASE ExchangeReply \/ ExchangeSkipped \/ AckReceived \/ AckMissing
    BY <1>3, GotoFacts, Zenon DEF ExchangeReply, ExchangeSkipped, SendMessage, AckReceived, AckMissing, EndTry
<1> QED
    BY <1>1, <1>2, <1>3, Zenon DEF SenderStep

LEMMA CandidateFacts ==
    ASSUME TypeOK, NEW up \in SUBSET Pair, NEW s \in Candidates(up)
    PROVE  s \in Seq(Pair) /\ Len(s) = Cardinality(up) /\ Cardinality(up) \in 0..Len(owner)
<1>1. Pair = 1..Len(owner) /\ Len(owner) \in Nat
    BY TablesType DEF TypeOK, Pair
<1>2. IsFiniteSet(Pair) /\ Cardinality(Pair) = Len(owner)
    <2>1. IsFiniteSet(1..Len(owner)) /\ Cardinality(1..Len(owner)) = IF 1 > Len(owner) THEN 0 ELSE Len(owner) - 1 + 1
        BY <1>1, FS_Interval
    <2> QED
        BY <1>1, <2>1, SMTT(30)
<1>3. IsFiniteSet(up) /\ Cardinality(up) <= Len(owner)
    BY <1>2, FS_Subset, Zenon
<1>4. Cardinality(up) \in Nat
    BY <1>3, FS_CardinalityType, Zenon
<1>5. s \in [1..Cardinality(up) -> up]
    BY Zenon DEF Candidates
<1>6. s \in Seq(Pair) /\ Len(s) = Cardinality(up)
    BY <1>4, <1>5
<1> QED
    BY <1>1, <1>3, <1>4, <1>6, SMTT(30)

-----------------------------------------------------------------------------
(* The sender's steps between two tries.                                   *)

LEMMA BetweenTries ==
    IInv /\ (Send \/ BeginAttempt \/ EndAttempt \/ BackoffOver) => IInv'
<1> SUFFICES ASSUME IInv, Send \/ BeginAttempt \/ EndAttempt \/ BackoffOver PROVE IInv'
    BY Zenon
<1> USE DEF IInv
<1>1. phase \notin Held /\ phase' \notin Held /\ ~exchanged
    BY Zenon DEF Send, BeginAttempt, EndAttempt, BackoffOver, Goto, Sender, Held
<1>2. UNCHANGED <<owner, seen, outside, key, pattern, at, cur, exchanged, rcv, peer, toRcv, toSnd, handler, recorded, handled>>
    BY Zenon DEF Send, BeginAttempt, EndAttempt, BackoffOver, rcvVars, appVars
<1>3. left' \in 0..AckTimeout /\ InLimit(phase', left')
    BY StepLimit, Zenon DEF SenderStep
<1>4. sends' \in 0..MaxSends
    BY TimeTypes, SMTT(30) DEF Send, BeginAttempt, EndAttempt, BackoffOver, TypeOK
<1>5. /\ attempt' \in 0..(MaxAttempts - 1)
      /\ phase' \in {"idle", "attempt", "next"} \cup Untimed \cup Timed \cup Returned
      /\ phase' = "backoff" => attempt' + 1 < MaxAttempts
    <2>2. phase' \in {"attempt", "next", "unavailable", "backoff", "failed"}
        BY Zenon DEF Send, BeginAttempt, EndAttempt, BackoffOver, Goto
    <2>3. attempt \in 0..2 /\ (phase = "backoff" => attempt + 1 < 3)
        BY SMTT(30) DEF TypeOK, Sender, MaxAttempts
    <2>4. attempt' \in 0..2 /\ (phase' = "backoff" => attempt' + 1 < 3)
        BY <2>3 DEF Send, BeginAttempt, EndAttempt, BackoffOver, Goto, MaxAttempts
    <2>5. phase' \in {"idle", "attempt", "next"} \cup Untimed \cup Timed \cup Returned
        BY <2>2, Zenon DEF Timed, Returned
    <2>6. MaxAttempts - 1 = 2 /\ MaxAttempts = 3
        BY DEF MaxAttempts
    <2> QED
        BY <2>4, <2>5, <2>6, Zenon
<1>6. queue' \in Seq(Pair)
    BY CandidateFacts, Zenon DEF Send, BeginAttempt, EndAttempt, BackoffOver, TypeOK
<1>7. TypeOK'
    BY <1>2, <1>3, <1>4, <1>5, <1>6, SMTT(30) DEF TypeOK, Pair
<1>8. Sender' /\ Records'
    BY <1>1, <1>2, <1>3, <1>5, Zenon DEF Sender, Records
<1>9. Lines' /\ Current'
    BY <1>1, <1>2, Zenon DEF Lines, Current, Held
<1> QED
    BY <1>7, <1>8, <1>9

LEMMA ElapseHolds == IInv /\ (Elapse \/ ElapseOutside) => IInv'
<1> SUFFICES ASSUME IInv, Elapse \/ ElapseOutside PROVE IInv'
    BY Zenon
<1> USE DEF IInv
<1>1. PICK t \in Nat : /\ Pass(t)
                       /\ left' \in {left, left - t} /\ left' \in 0..AckTimeout
                       /\ outside' \in 0..MaxOutside
    <2>1. left \in 0..5 /\ outside \in 0..MaxOutside /\ MaxOutside \in Nat /\ Ticks \subseteq Nat
        BY TimeTypes, Zenon DEF TypeOK, AckTimeout
    <2>2. ASSUME Elapse PROVE \E t \in Nat : Pass(t) /\ left' \in {left, left - t} /\ left' \in 0..5 /\ outside' = outside
        <3>1. PICK t \in (Ticks \cup {left}) \ {0} : t <= left /\ left' = left - t /\ Pass(t)
            BY <2>2, Zenon DEF Elapse
        <3>2. t \in Nat /\ left - t \in 0..5
            BY <2>1, <3>1
        <3> QED
            BY <2>2, <3>1, <3>2, Zenon DEF Elapse
    <2>3. ASSUME ElapseOutside PROVE \E t \in Nat : Pass(t) /\ left' = left /\ outside' \in 0..MaxOutside
        <3>1. PICK t \in Ticks : outside + t <= MaxOutside /\ outside' = outside + t /\ Pass(t)
            BY <2>3, Zenon DEF ElapseOutside
        <3>2. t \in Nat /\ outside + t \in 0..MaxOutside
            BY <2>1, <3>1
        <3> QED
            BY <2>3, <3>1, <3>2, Zenon DEF ElapseOutside
    <2> QED
        BY <2>1, <2>2, <2>3, Zenon DEF AckTimeout
<1>2. UNCHANGED <<owner, key, sends, phase, attempt, queue, pattern, at, cur, exchanged, rcv, peer, toRcv, toSnd, handler, recorded, handled>>
    BY <1>1, Zenon DEF Pass, rcvVars, appVars
<1>3. /\ seen' \in [Node -> 0..DedupTTL \cup {Never}]
      /\ \A n \in Node : seen'[n] # Never => seen[n] # Never
    BY <1>1, PassFacts, Zenon
<1>4. InLimit(phase, left')
    <2>1. InLimit(phase, left) /\ left \in Nat
        BY DEF Sender, TypeOK
    <2>2. left' <= left
        BY <1>1, <2>1
    <2> QED
        BY <1>1, <2>1, <2>2 DEF InLimit, ExchangeTimeout, Backoff
<1>5. TypeOK'
    BY <1>1, <1>2, <1>3, Zenon DEF TypeOK, Pair
<1>6. Sender' /\ Lines' /\ Current'
    BY <1>2, <1>4, Zenon DEF Sender, Lines, Current, Pair
<1>7. Records'
    BY <1>2, <1>3, Zenon DEF Records
<1> QED
    BY <1>5, <1>6, <1>7, Zenon

-----------------------------------------------------------------------------
(* The sender's steps of one try.                                          *)

LEMMA BeginTryHolds == IInv /\ BeginTry => IInv'
<1> SUFFICES ASSUME IInv, BeginTry PROVE IInv'
    BY Zenon
<1> USE DEF IInv
<1>1. Head(queue) \in Pair /\ Tail(queue) \in Seq(Pair)
    BY DEF BeginTry, TypeOK
<1>2. /\ cur' \in Conn /\ Settled(cur') /\ phase' = "connect" /\ ~exchanged'
      /\ left' \in 0..AckTimeout /\ InLimit(phase', left')
    BY StepLimit, Zenon DEF BeginTry, Goto, SenderStep
<1>3. /\ \A k \in Conn : Settled(k) => rcv'[k] = "none" /\ peer'[k] = "nobody" /\ toRcv'[k] = <<>> /\ toSnd'[k] = <<>>
      /\ \A k \in Conn : ~Settled(k) =>
            rcv'[k] = rcv[k] /\ peer'[k] = peer[k] /\ toRcv'[k] = toRcv[k] /\ toSnd'[k] = toSnd[k]
    BY Zenon DEF BeginTry, Clean
<1>4. /\ rcv' \in [Conn -> {"none", "hs", "first", "app", "handle", "reply", "loop", "done"}]
      /\ peer' \in [Conn -> Node \cup {"mute", "nobody"}]
      /\ toRcv' \in [Conn -> Seq(Frame)] /\ toSnd' \in [Conn -> Seq(Frame)]
    BY DEF BeginTry, Clean, TypeOK
<1>5. TypeOK'
    BY <1>1, <1>2, <1>4, Zenon DEF BeginTry, TypeOK, appVars, Pair, Untimed
<1>6. Sender'
    BY <1>1, <1>2, Zenon DEF BeginTry, Sender, Pair
<1>7. Lines'
    <2> SUFFICES ASSUME NEW k \in Conn PROVE LineOK(rcv'[k], peer'[k], toRcv'[k], toSnd'[k], recorded')
        BY Zenon DEF Lines
    <2>1. recorded' = recorded
        BY Zenon DEF BeginTry, appVars
    <2>2. CASE Settled(k)
        <3>1. LineOK("none", "nobody", <<>>, <<>>, recorded')
            BY DEF LineOK, Range
        <3> QED
            BY <1>3, <2>2, <3>1, Zenon
    <2>3. CASE ~Settled(k)
        BY <1>3, <2>1, <2>3, Zenon DEF Lines
    <2> QED
        BY <2>2, <2>3, Zenon
<1>8. Current'
    BY <1>2, <1>3, Zenon DEF Current
<1>9. Records'
    BY Zenon DEF BeginTry, Records, appVars
<1> QED
    BY <1>5, <1>6, <1>7, <1>8, <1>9, Zenon

(* What a step that touches connection k only has to show.                 *)
LEMMA OneLine ==
    ASSUME Lines, NEW k \in Conn, recorded \subseteq recorded',
           \A j \in Conn \ {k} : /\ rcv'[j] = rcv[j] /\ peer'[j] = peer[j]
                                 /\ toRcv'[j] = toRcv[j] /\ toSnd'[j] = toSnd[j],
           LineOK(rcv'[k], peer'[k], toRcv'[k], toSnd'[k], recorded')
    PROVE  Lines'
<1>1. ASSUME NEW j \in Conn \ {k} PROVE LineOK(rcv'[j], peer'[j], toRcv'[j], toSnd'[j], recorded')
    <2>1. LineOK(rcv[j], peer[j], toRcv[j], toSnd[j], recorded)
        BY Zenon DEF Lines
    <2>2. LineOK(rcv[j], peer[j], toRcv[j], toSnd[j], recorded')
        BY <2>1, Zenon DEF LineOK
    <2> QED
        BY <2>2, Zenon
<1> QED
    BY <1>1, Zenon DEF Lines

LEMMA ConnectHolds == IInv /\ (ConnectOk \/ ConnectErr) => IInv'
<1> SUFFICES ASSUME IInv, ConnectOk \/ ConnectErr PROVE IInv'
    BY Zenon
<1> USE DEF IInv
<1>0. at \in Pair /\ cur \in Conn /\ rcv[cur] = "none" /\ ~exchanged
    BY Zenon DEF ConnectOk, ConnectErr, Sender, Held, Current
<1>l. left' \in 0..AckTimeout /\ InLimit(phase', left')
    BY StepLimit, Zenon DEF SenderStep
<1>1. CASE ConnectOk
    <2>1. owner[at] \in Node \cup {"mute", "nobody"}
        BY <1>0, TablesType, SMTT(30) DEF TypeOK, Pair, Node
    <2>2. TypeOK'
        BY <1>0, <1>l, <1>1, <2>1, Zenon DEF ConnectOk, Goto, TypeOK, Untimed, appVars, Pair
    <2>3. Sender' /\ Records'
        BY <1>0, <1>l, <1>1, ZenonT(40) DEF ConnectOk, Goto, Sender, Held, Records, appVars, Pair
    <2>4. rcv'[cur] = "hs" /\ toRcv' = toRcv /\ toSnd' = toSnd /\ toRcv[cur] = <<>> /\ toSnd[cur] = <<>>
        BY <1>0, <1>1, ZenonT(40) DEF ConnectOk, TypeOK, Lines, LineOK
    <2>5. \A j \in Conn \ {cur} : rcv'[j] = rcv[j] /\ peer'[j] = peer[j]
        BY <1>0, <1>1 DEF ConnectOk, TypeOK
    <2>6. LineOK("hs", peer'[cur], <<>>, <<>>, recorded')
        BY DEF LineOK, Range
    <2>7. recorded' = recorded
        BY <1>1, Zenon DEF ConnectOk, appVars
    <2>8. Lines'
        BY <1>0, <2>4, <2>5, <2>6, <2>7, OneLine
    <2>9. Current'
        BY <1>0, <1>1, <2>4, SMTT(30) DEF ConnectOk, Goto, Current
    <2> QED
        BY <2>2, <2>3, <2>8, <2>9, ZenonT(40)
<1>2. CASE ConnectErr
    <2>1. TypeOK'
        BY <1>l, <1>2, Zenon DEF ConnectErr, EndTry, Goto, TypeOK, rcvVars, appVars, Pair
    <2>2. Sender' /\ Lines' /\ Current' /\ Records'
        BY <1>l, <1>2, Zenon DEF ConnectErr, EndTry, Goto, Sender, Held, Lines, Current, Records, rcvVars, appVars, Pair
    <2> QED
        BY <2>1, <2>2, ZenonT(40)
<1> QED
    BY <1>1, <1>2, Zenon

LEMMA HandshakeHolds == IInv /\ (HandshakeOk \/ HandshakeErr) => IInv'
<1> SUFFICES ASSUME IInv, HandshakeOk \/ HandshakeErr PROVE IInv'
    BY Zenon
<1> USE DEF IInv
<1>0. at \in Pair /\ cur \in Conn /\ rcv[cur] \in {"hs", "done"} /\ toSnd[cur] = <<>> /\ toRcv[cur] = <<>> /\ ~exchanged
    BY Zenon DEF HandshakeOk, HandshakeErr, Sender, Held, Current, Lines, LineOK
<1>1. recorded' = recorded /\ toSnd' = toSnd /\ peer' = peer /\ seen' = seen
    BY Zenon DEF HandshakeOk, HandshakeErr, appVars
<1>2. \A j \in Conn \ {cur} : rcv'[j] = rcv[j] /\ toRcv'[j] = toRcv[j]
    BY <1>0, Zenon DEF HandshakeOk, HandshakeErr, Deliver, TypeOK
<1>3. Records'
    BY <1>1, SMTT(30) DEF Records
<1>4. key' \in BOOLEAN /\ left' \in 0..AckTimeout /\ InLimit(phase', left')
    BY StepLimit, Zenon DEF HandshakeOk, HandshakeErr, SenderStep
<1>5. CASE HandshakeOk
    <2>1. Only(toRcv'[cur], "addr") /\ rcv'[cur] = "first" /\ phase' = "exchange" /\ pattern' = pattern /\ cur' = cur
        BY <1>0, <1>5, FrameFacts, ZenonT(40) DEF HandshakeOk, Deliver, Goto, TypeOK, Frame
    <2>2. toRcv' \in [Conn -> Seq(Frame)]
        BY <1>0, <1>5, SMTT(30) DEF HandshakeOk, Deliver, TypeOK, Frame
    <2>3. TypeOK'
        BY <1>0, <1>4, <1>5, <2>2, ZenonT(40) DEF HandshakeOk, Goto, TypeOK, Timed, appVars, Pair
    <2>4. Sender'
        BY <1>0, <1>4, <1>5, ZenonT(40) DEF HandshakeOk, Goto, Sender, Held, Pair
    <2>5. LineOK("first", peer[cur], toRcv'[cur], <<>>, recorded)
        BY <1>5, <2>1, SMTT(30) DEF LineOK, HandshakeOk, Range
    <2>6. Lines'
        BY <1>0, <1>1, <1>2, <2>1, <2>5, OneLine, ZenonT(40)
    <2>7. Current'
        BY <1>0, <1>1, <1>5, <2>1, SMTT(30) DEF HandshakeOk, Current
    <2> QED
        BY <1>3, <2>3, <2>4, <2>6, <2>7, SMTT(30)
<1>6. CASE HandshakeErr
    <2>1. toRcv' = toRcv /\ rcv'[cur] = "done" /\ phase' = "next" /\ ~exchanged'
        BY <1>0, <1>6, SMTT(30) DEF HandshakeErr, EndTry, Goto, TypeOK
    <2>2. TypeOK'
        BY <1>0, <1>4, <1>6, ZenonT(40) DEF HandshakeErr, EndTry, Goto, TypeOK, appVars, Pair
    <2>3. Sender' /\ Current'
        BY <1>4, <2>1, ZenonT(40) DEF Sender, Held, Current
    <2>4. LineOK("done", peer[cur], <<>>, <<>>, recorded)
        BY SMTT(30) DEF LineOK, Range
    <2>5. Lines'
        BY <1>0, <1>1, <1>2, <2>1, <2>4, OneLine, SMTT(30)
    <2> QED
        BY <1>3, <2>2, <2>3, <2>5, SMTT(30)
<1> QED
    BY <1>5, <1>6, SMTT(30)

LEMMA ExchangeHolds == IInv /\ (ExchangeReply \/ ExchangeSkipped) => IInv'
<1> SUFFICES ASSUME IInv, ExchangeReply \/ ExchangeSkipped PROVE IInv'
    BY Zenon
<1> USE DEF IInv
<1>0. /\ at \in Pair /\ cur \in Conn /\ rcv[cur] \in {"first", "app", "done"} /\ ~exchanged
      /\ (toRcv[cur] = <<>> \/ Only(toRcv[cur], "addr")) /\ (toSnd[cur] = <<>> \/ Only(toSnd[cur], "addr"))
    BY Zenon DEF ExchangeReply, ExchangeSkipped, Sender, Held, Current
<1>1. /\ recorded' = recorded /\ rcv' = rcv /\ peer' = peer /\ seen' = seen /\ cur' = cur /\ at' = at
      /\ phase' = "ack" /\ pattern' = pattern /\ owner' = owner
    BY ZenonT(40) DEF ExchangeReply, ExchangeSkipped, SendMessage, Goto, appVars
<1>2. \A j \in Conn \ {cur} : toRcv'[j] = toRcv[j] /\ toSnd'[j] = toSnd[j]
    BY <1>0, SMTT(30) DEF ExchangeReply, ExchangeSkipped, SendMessage, Deliver, TypeOK
<1>3. toSnd'[cur] = <<>>
    <2>1. toSnd[cur] \in Seq(Frame)
        BY <1>0, SMTT(30) DEF TypeOK
    <2>2. toSnd[cur] # <<>> => Tail(toSnd[cur]) = <<>>
        BY <1>0, <2>1, FrameFacts, SMTT(30)
    <2> QED
        BY <1>0, <2>2, Zenon DEF ExchangeReply, ExchangeSkipped, TypeOK
<1>4. exchanged' => rcv[cur] # "first"
    BY <1>0, Zenon DEF ExchangeReply, ExchangeSkipped, Lines, LineOK
<1>5. /\ rcv[cur] = "first" => Both(toRcv'[cur])
      /\ rcv[cur] = "app" => Only(toRcv'[cur], "msg")
      /\ rcv[cur] = "done" => toRcv'[cur] = <<>>
    <2>1. /\ rcv[cur] = "first" => Only(toRcv[cur], "addr")
          /\ rcv[cur] \in {"app", "done"} => toRcv[cur] = <<>>
        BY <1>0, SMTT(30) DEF Lines, LineOK, Only, Both
    <2>2. /\ rcv[cur] # "done" => toRcv'[cur] = Append(toRcv[cur], "msg")
          /\ rcv[cur] = "done" => toRcv'[cur] = toRcv[cur]
        BY <1>0, Zenon DEF ExchangeReply, ExchangeSkipped, SendMessage, Deliver, TypeOK
    <2>3. toRcv[cur] \in Seq(Frame) /\ "msg" \in Frame
        BY <1>0, Zenon DEF TypeOK, Frame
    <2>4. /\ Only(toRcv[cur], "addr") => Both(Append(toRcv[cur], "msg"))
          /\ toRcv[cur] = <<>> => Only(Append(toRcv[cur], "msg"), "msg")
        BY <2>3, FrameFacts, SMTT(30)
    <2> HIDE DEF IInv
    <2> QED
        BY <1>0, <2>1, <2>2, <2>4, ZenonT(40)
<1>6. toRcv' \in [Conn -> Seq(Frame)] /\ toSnd' \in [Conn -> Seq(Frame)]
    <2>1. toRcv[cur] \in Seq(Frame) /\ toSnd[cur] \in Seq(Frame) /\ "msg" \in Frame
        BY <1>0, Zenon DEF TypeOK, Frame
    <2>2. Append(toRcv[cur], "msg") \in Seq(Frame)
        BY <2>1
    <2>3. toSnd[cur] # <<>> => Tail(toSnd[cur]) \in Seq(Frame)
        BY <2>1
    <2>4. toRcv' = toRcv \/ toRcv' = [toRcv EXCEPT ![cur] = Append(toRcv[cur], "msg")]
        BY <1>0, Zenon DEF ExchangeReply, ExchangeSkipped, SendMessage, Deliver
    <2>5. toSnd' = toSnd \/ (toSnd[cur] # <<>> /\ toSnd' = [toSnd EXCEPT ![cur] = Tail(toSnd[cur])])
        BY <1>0, Zenon DEF ExchangeReply, ExchangeSkipped
    <2> QED
        BY <2>2, <2>3, <2>4, <2>5, ZenonT(40) DEF TypeOK
<1>7. exchanged' \in BOOLEAN /\ left' \in 0..AckTimeout /\ InLimit(phase', left')
    BY StepLimit, Zenon DEF ExchangeReply, ExchangeSkipped, SenderStep, TypeOK
<1>8. TypeOK'
    BY <1>1, <1>6, <1>7, SMTT(30) DEF ExchangeReply, ExchangeSkipped, SendMessage, TypeOK, appVars, Pair, Timed
<1>9. Sender' /\ Records'
    BY <1>0, <1>1, <1>7, ZenonT(40) DEF Sender, Records, Pair
<1>10. LineOK(rcv[cur], peer[cur], toRcv[cur], toSnd[cur], recorded)
    BY <1>0, SMTT(30) DEF Lines
<1>11. LineOK(rcv[cur], peer[cur], toRcv'[cur], <<>>, recorded)
    BY <1>0, <1>5, <1>10, SMTT(30) DEF LineOK, Range
<1>12. Lines'
    BY <1>0, <1>1, <1>2, <1>3, <1>11, OneLine, SMTT(30)
<1>13. phase = "exchange"
    BY ZenonT(40) DEF ExchangeReply, ExchangeSkipped
<1>14. Current'
    BY <1>0, <1>1, <1>3, <1>4, <1>13, SMTT(30) DEF Current
<1> QED
    BY <1>8, <1>9, <1>12, <1>14, SMTT(30)

LEMMA AckHolds == IInv /\ (AckReceived \/ AckMissing) => IInv'
<1> SUFFICES ASSUME IInv, AckReceived \/ AckMissing PROVE IInv'
    BY Zenon
<1> USE DEF IInv
<1>0. at \in Pair /\ cur \in Conn /\ toSnd[cur] \in Seq(Frame)
    BY Zenon DEF AckReceived, AckMissing, Sender, Held, TypeOK
<1>l. left' \in 0..AckTimeout /\ InLimit(phase', left')
    BY StepLimit, Zenon DEF SenderStep
<1>1. CASE AckReceived
    <2>1. \A j \in Conn \ {cur} : toSnd'[j] = toSnd[j]
        BY <1>0, <1>1, Zenon DEF AckReceived, TypeOK
    <2>2. toSnd'[cur] = Tail(toSnd[cur]) /\ toSnd[cur] # <<>>
        BY <1>0, <1>1, Zenon DEF AckReceived, TypeOK
    <2>3. Tail(toSnd[cur]) \in Seq(Frame) /\ Range(Tail(toSnd[cur])) \subseteq Range(toSnd[cur])
        BY <1>0, <2>2, SMTT(30) DEF Range
    <2>4. /\ UNCHANGED <<rcv, peer, toRcv, recorded, seen, cur, at, owner, pattern, exchanged>>
          /\ phase = "ack" /\ phase' = "ok"
        BY <1>1, ZenonT(40) DEF AckReceived, Goto, appVars
    <2>5. TypeOK'
        BY <1>0, <1>l, <1>1, <2>3, <2>4, SMTT(30) DEF AckReceived, TypeOK, Returned, appVars, Pair
    <2>6. Sender' /\ Records'
        BY <1>0, <1>l, <2>4, Zenon DEF Sender, Records, Pair
    <2>7. LineOK(rcv[cur], peer[cur], toRcv[cur], toSnd[cur], recorded)
        BY <1>0, Zenon DEF Lines
    <2>8. LineOK(rcv[cur], peer[cur], toRcv[cur], Tail(toSnd[cur]), recorded)
        BY <2>2, <2>3, <2>7, ZenonT(40) DEF LineOK
    <2>9. Lines'
        BY <1>0, <2>1, <2>2, <2>4, <2>8, OneLine, SMTT(30)
    <2>10. exchanged => peer[cur] \in recorded
        <3>1. exchanged => Only(toSnd[cur], "ack")
            BY <2>2, <2>4, Zenon DEF Current
        <3>2. Only(toSnd[cur], "ack") => "ack" \in Range(toSnd[cur])
            BY <1>0, FrameFacts, SMTT(30)
        <3> QED
            BY <2>7, <3>1, <3>2, Zenon DEF LineOK
    <2>11. Current'
        BY <2>4, <2>10, Zenon DEF Current
    <2> QED
        BY <2>5, <2>6, <2>9, <2>11, SMTT(30)
<1>2. CASE AckMissing
    <2>1. TypeOK'
        BY <1>l, <1>2, Zenon DEF AckMissing, EndTry, Goto, TypeOK, rcvVars, appVars, Pair
    <2>2. Sender' /\ Lines' /\ Current' /\ Records'
        BY <1>l, <1>2, Zenon DEF AckMissing, EndTry, Goto, Sender, Held, Lines, Current, Records, rcvVars, appVars, Pair
    <2> QED
        BY <2>1, <2>2, Zenon
<1> QED
    BY <1>1, <1>2, SMTT(30)

-----------------------------------------------------------------------------
(* The receivers' steps, a broken connection, and a late registration.     *)

(* What a receiver's step leaves alone.                                    *)
LEMMA ReceiverFrame ==
    ASSUME IInv, NEW k \in Conn, ReceiverStep(k) \/ Break(k)
    PROVE  /\ UNCHANGED <<owner, outside, sndVars, peer, handler>>
           /\ \A j \in Conn \ {k} : rcv'[j] = rcv[j] /\ toRcv'[j] = toRcv[j] /\ toSnd'[j] = toSnd[j]
           /\ recorded \subseteq recorded'
           /\ rcv[k] \in {"hs", "first", "app", "handle", "reply", "loop"}
<1>1. UNCHANGED <<owner, outside, sndVars, peer, handler>>
    BY Zenon DEF ReceiverStep, AnswerExchange, CheckAndInsert, Handle, SendAck, Hangup, Break, appVars
<1>2. \A j \in Conn \ {k} : rcv'[j] = rcv[j] /\ toRcv'[j] = toRcv[j] /\ toSnd'[j] = toSnd[j]
    BY ZenonT(40) DEF ReceiverStep, AnswerExchange, CheckAndInsert, Handle, SendAck, Hangup, Break, Reply, IInv, TypeOK
<1>3. recorded \subseteq recorded'
    BY Zenon DEF ReceiverStep, AnswerExchange, CheckAndInsert, Handle, SendAck, Hangup, Break, appVars
<1>4. rcv[k] \in {"hs", "first", "app", "handle", "reply", "loop"}
    BY Zenon DEF ReceiverStep, AnswerExchange, CheckAndInsert, Handle, SendAck, Hangup, Break
<1> QED
    BY <1>1, <1>2, <1>3, <1>4, SMTT(30)

(* Where a receiver's step takes connection k: its task, the frames to it, *)
(* and the frames back.                                                    *)
Answers(k) ==
    /\ rcv[k] = "first" /\ rcv'[k] = "app"
    /\ toRcv'[k] = Tail(toRcv[k]) /\ recorded' = recorded
    /\ toSnd'[k] = IF Closed(k) THEN toSnd[k] ELSE Append(toSnd[k], "addr")
Dispatches(k) ==
    /\ rcv[k] = "app" /\ rcv'[k] \in {"handle", "reply"} /\ peer[k] \in recorded'
    /\ toRcv[k] # <<>> /\ toRcv'[k] = Tail(toRcv[k]) /\ toSnd'[k] = toSnd[k]
Replies(k) ==
    /\ \/ rcv[k] = "handle" /\ rcv'[k] = "reply" /\ toSnd'[k] = toSnd[k]
       \/ /\ rcv[k] = "reply" /\ rcv'[k] = "loop"
          /\ toSnd'[k] = IF Closed(k) THEN toSnd[k] ELSE Append(toSnd[k], "ack")
    /\ toRcv'[k] = toRcv[k] /\ recorded' = recorded
Ends(k) ==
    /\ rcv[k] \in {"hs", "first", "app", "loop"} /\ rcv'[k] = "done"
    /\ toRcv'[k] = <<>> /\ toSnd'[k] \in {toSnd[k], <<>>} /\ recorded' = recorded

LEMMA ReceiverCases ==
    ASSUME IInv, NEW k \in Conn, ReceiverStep(k) \/ Break(k)
    PROVE  Answers(k) \/ Dispatches(k) \/ Replies(k) \/ Ends(k)
<1> USE DEF IInv
<1>1. CASE AnswerExchange(k)
    BY <1>1, SMTT(30) DEF AnswerExchange, Reply, Answers, TypeOK, appVars
<1>2. CASE CheckAndInsert(k)
    <2>1. peer[k] \in Node
        BY <1>2, Zenon DEF CheckAndInsert, Lines, LineOK
    <2>2. peer[k] \in recorded'
        BY <1>2, <2>1, SMTT(30) DEF CheckAndInsert, IsDup, Records
    <2> QED
        BY <1>2, <2>2, SMTT(30) DEF CheckAndInsert, Dispatches, TypeOK
<1>3. CASE Handle(k)
    BY <1>3, SMTT(30) DEF Handle, Replies, TypeOK
<1>4. CASE SendAck(k)
    BY <1>4, SMTT(30) DEF SendAck, Reply, Replies, TypeOK, appVars
<1>5. CASE Hangup(k) \/ Break(k)
    BY <1>5, SMTT(30) DEF Hangup, Break, Ends, TypeOK, appVars
<1> QED
    BY <1>1, <1>2, <1>3, <1>4, <1>5, ZenonT(40) DEF ReceiverStep

LEMMA ReceiverTypes ==
    ASSUME IInv, NEW k \in Conn, ReceiverStep(k) \/ Break(k)
    PROVE  TypeOK'
<1> USE DEF IInv
<1>1. /\ toRcv[k] \in Seq(Frame) /\ toSnd[k] \in Seq(Frame) /\ "addr" \in Frame /\ "ack" \in Frame
      /\ <<>> \in Seq(Frame)
    BY DEF TypeOK, Frame
<1>2. /\ Append(toSnd[k], "addr") \in Seq(Frame) /\ Append(toSnd[k], "ack") \in Seq(Frame)
      /\ toRcv[k] # <<>> => Tail(toRcv[k]) \in Seq(Frame)
    BY <1>1, SMTT(30)
<1>3. rcv[k] = "first" => toRcv[k] # <<>>
    BY <1>1, FrameFacts, SMTT(30) DEF Lines, LineOK
<1>4. rcv'[k] \in {"app", "handle", "reply", "loop", "done"} /\ toRcv'[k] \in Seq(Frame) /\ toSnd'[k] \in Seq(Frame)
    BY <1>1, <1>2, <1>3, ReceiverCases, ZenonT(40) DEF Answers, Dispatches, Replies, Ends
<1>5. /\ DOMAIN rcv' = Conn /\ DOMAIN toRcv' = Conn /\ DOMAIN toSnd' = Conn
      /\ rcv' = [j \in Conn |-> rcv'[j]] /\ toRcv' = [j \in Conn |-> toRcv'[j]] /\ toSnd' = [j \in Conn |-> toSnd'[j]]
    BY SMTT(30) DEF ReceiverStep, AnswerExchange, CheckAndInsert, Handle, SendAck, Hangup, Break, Reply, TypeOK
<1>6. /\ rcv' \in [Conn -> {"none", "hs", "first", "app", "handle", "reply", "loop", "done"}]
      /\ toRcv' \in [Conn -> Seq(Frame)] /\ toSnd' \in [Conn -> Seq(Frame)]
    <2>1. \A j \in Conn : /\ rcv'[j] \in {"none", "hs", "first", "app", "handle", "reply", "loop", "done"}
                          /\ toRcv'[j] \in Seq(Frame) /\ toSnd'[j] \in Seq(Frame)
        BY <1>4, ReceiverFrame, ZenonT(40) DEF TypeOK
    <2> QED
        BY <1>5, <2>1, Zenon
<1>7. recorded' \subseteq Node /\ seen' \in [Node -> 0..DedupTTL \cup {Never}] /\ handled' \in [Node -> Nat]
    <2>1. rcv[k] \in {"app", "handle"} => peer[k] \in Node
        BY Zenon DEF Lines, LineOK
    <2>2. CASE CheckAndInsert(k)
        <3>1. 0 \in 0..DedupTTL /\ peer[k] \in Node
            BY <2>1, <2>2, TimeTypes DEF CheckAndInsert
        <3> QED
            BY <2>2, <3>1, ZenonT(40) DEF CheckAndInsert, TypeOK
    <2>3. CASE Handle(k)
        <3>1. peer[k] \in Node
            BY <2>1, <2>3, Zenon DEF Handle
        <3> QED
            BY <2>3, <3>1, SMTT(30) DEF Handle, TypeOK
    <2>4. CASE AnswerExchange(k) \/ SendAck(k) \/ Hangup(k) \/ Break(k)
        BY <2>4, Zenon DEF AnswerExchange, SendAck, Hangup, Break, appVars, TypeOK
    <2> QED
        BY <2>2, <2>3, <2>4, SMTT(30) DEF ReceiverStep
<1> QED
    BY <1>6, <1>7, ReceiverFrame, ZenonT(40) DEF TypeOK, sndVars, Pair

LEMMA ReceiverHolds == IInv /\ (\E k \in Conn : ReceiverStep(k) \/ Break(k)) => IInv'
<1> SUFFICES ASSUME IInv, NEW k \in Conn, ReceiverStep(k) \/ Break(k) PROVE IInv'
    BY Zenon
<1> USE DEF IInv
<1>1. /\ UNCHANGED <<owner, outside, sndVars, peer, handler>> /\ recorded \subseteq recorded'
      /\ \A j \in Conn \ {k} : rcv'[j] = rcv[j] /\ toRcv'[j] = toRcv[j] /\ toSnd'[j] = toSnd[j]
      /\ rcv[k] \in {"hs", "first", "app", "handle", "reply", "loop"}
    BY ReceiverFrame, Zenon
<1>2. Answers(k) \/ Dispatches(k) \/ Replies(k) \/ Ends(k)
    BY ReceiverCases, Zenon
<1>3. Sender'
    BY <1>1, Zenon DEF Sender, sndVars, Pair
<1>4. Records'
    <2>1. CASE CheckAndInsert(k)
        BY <2>1, Zenon DEF CheckAndInsert, Records, TypeOK
    <2>2. CASE seen' = seen
        BY <1>1, <2>2, Zenon DEF Records
    <2> QED
        BY <2>1, <2>2, Zenon DEF ReceiverStep, AnswerExchange, Handle, SendAck, Hangup, Break
<1>5. LineOK(rcv[k], peer[k], toRcv[k], toSnd[k], recorded)
    BY Zenon DEF Lines
<1>6. toRcv[k] \in Seq(Frame) /\ toSnd[k] \in Seq(Frame) /\ "addr" \in Frame /\ "ack" \in Frame
    BY Zenon DEF TypeOK, Frame
<1>7. /\ Range(<<>>) = {}
      /\ \A f \in Frame : Range(Append(toSnd[k], f)) = Range(toSnd[k]) \cup {f}
    <2>1. ASSUME NEW f \in Frame PROVE Range(Append(toSnd[k], f)) = Range(toSnd[k]) \cup {f}
        <3>1. /\ Len(toSnd[k]) \in Nat /\ DOMAIN toSnd[k] = 1..Len(toSnd[k])
              /\ DOMAIN Append(toSnd[k], f) = 1..(Len(toSnd[k]) + 1)
              /\ \A i \in 1..Len(toSnd[k]) : Append(toSnd[k], f)[i] = toSnd[k][i]
              /\ Append(toSnd[k], f)[Len(toSnd[k]) + 1] = f
            BY <1>6
        <3> QED
            BY <3>1 DEF Range
    <2> QED
        BY <2>1, SMTT(30) DEF Range
<1>8. /\ toSnd[k] = <<>> => Only(Append(toSnd[k], "addr"), "addr") /\ Only(Append(toSnd[k], "ack"), "ack")
      /\ Both(toRcv[k]) => Only(Tail(toRcv[k]), "msg")
      /\ \A f : Only(toRcv[k], f) => Tail(toRcv[k]) = <<>>
    BY <1>6, FrameFacts, Zenon
<1>9. LineOK(rcv'[k], peer[k], toRcv'[k], toSnd'[k], recorded')
    <2> HIDE DEF IInv
    <2>1. CASE Answers(k)
        BY <1>5, <1>6, <1>7, <1>8, <2>1, Zenon DEF Answers, LineOK
    <2>2. CASE Dispatches(k)
        BY <1>1, <1>5, <1>8, <2>2, Zenon DEF Dispatches, LineOK
    <2>3. CASE Replies(k)
        BY <1>5, <1>6, <1>7, <2>3, Zenon DEF Replies, LineOK
    <2>4. CASE Ends(k)
        BY <1>5, <1>7, <2>4, Zenon DEF Ends, LineOK
    <2> QED
        BY <1>2, <2>1, <2>2, <2>3, <2>4, Zenon
<1>10. Lines'
    BY <1>1, <1>9, OneLine
<1>11. Current'
    <2>1. UNCHANGED <<phase, cur, pattern, exchanged, peer>>
        BY <1>1, Zenon DEF sndVars
    <2>2. CASE cur # k
        <3>1. phase \in {"connect", "handshake", "exchange", "ack"} => cur \in Conn
            BY Zenon DEF Sender, Held
        <3>2. phase \in {"connect", "handshake", "exchange", "ack"} =>
                 rcv'[cur] = rcv[cur] /\ toRcv'[cur] = toRcv[cur] /\ toSnd'[cur] = toSnd[cur]
            BY <1>1, <2>2, <3>1, Zenon
        <3> QED
            BY <1>1, <2>1, <3>2, Zenon DEF Current
    <2>3. CASE cur = k
        <3>0. phase \in {"handshake", "exchange", "ack"} => ~Closed(k)
            BY <2>3, Zenon DEF Closed
        <3>1. phase # "connect"
            BY <1>1, <2>3, Zenon DEF Current
        <3>2. phase = "handshake" => rcv'[k] \in {"hs", "done"} /\ toSnd'[k] = <<>>
            BY <1>2, <2>3, Zenon DEF Current, Answers, Dispatches, Replies, Ends
        <3>3. phase = "exchange" => /\ rcv'[k] \in {"first", "app", "done"}
                                    /\ toRcv'[k] = <<>> \/ Only(toRcv'[k], "addr")
                                    /\ toSnd'[k] = <<>> \/ Only(toSnd'[k], "addr")
            <4> SUFFICES ASSUME phase = "exchange"
                         PROVE  /\ rcv'[k] \in {"first", "app", "done"}
                                /\ toRcv'[k] = <<>> \/ Only(toRcv'[k], "addr")
                                /\ toSnd'[k] = <<>> \/ Only(toSnd'[k], "addr")
                BY Zenon
            <4>1. /\ rcv[k] \in {"first", "app", "done"}
                  /\ toRcv[k] = <<>> \/ Only(toRcv[k], "addr")
                  /\ toSnd[k] = <<>> \/ Only(toSnd[k], "addr")
                BY <2>3, Zenon DEF Current
            <4>2. rcv[k] = "app" => toRcv[k] = <<>>
                BY <1>5, <4>1, SMTT(30) DEF LineOK, Only
            <4>3. rcv[k] = "first" => Only(toRcv[k], "addr") /\ toSnd[k] = <<>>
                BY <1>5, <4>1, SMTT(30) DEF LineOK, Only, Both
            <4> HIDE DEF IInv
            <4> QED
                BY <1>2, <1>8, <3>0, <4>1, <4>2, <4>3, Zenon DEF Answers, Dispatches, Replies, Ends
        <3>4. phase = "ack" /\ exchanged =>
                 /\ rcv'[k] \in {"app", "handle", "reply", "loop", "done"}
                 /\ toSnd'[k] = <<>> \/ Only(toSnd'[k], "ack")
                 /\ rcv'[k] \in {"app", "handle", "reply"} => toSnd'[k] = <<>>
            <4> SUFFICES ASSUME phase = "ack", exchanged
                         PROVE  /\ rcv'[k] \in {"app", "handle", "reply", "loop", "done"}
                                /\ toSnd'[k] = <<>> \/ Only(toSnd'[k], "ack")
                                /\ rcv'[k] \in {"app", "handle", "reply"} => toSnd'[k] = <<>>
                BY Zenon
            <4>1. /\ rcv[k] \in {"app", "handle", "reply", "loop", "done"}
                  /\ toSnd[k] = <<>> \/ Only(toSnd[k], "ack")
                  /\ rcv[k] \in {"app", "handle", "reply"} => toSnd[k] = <<>>
                BY <2>3, Zenon DEF Current
            <4> HIDE DEF IInv
            <4> QED
                BY <1>2, <1>8, <3>0, <4>1, Zenon DEF Answers, Dispatches, Replies, Ends
        <3> QED
            BY <1>1, <2>1, <2>3, <3>1, <3>2, <3>3, <3>4, Zenon DEF Current
    <2> QED
        BY <2>2, <2>3, Zenon
<1> QED
    BY <1>3, <1>4, <1>10, <1>11, ReceiverTypes, SMTT(30)

LEMMA StepHolds == IInv /\ [Next]_vars => IInv'
<1>1. IInv /\ (\E n \in Node : RegisterHandler(n)) => IInv'
    <2> SUFFICES ASSUME IInv, NEW n \in Node, RegisterHandler(n) PROVE IInv'
        BY Zenon
    <2>1. handler' \in [Node -> BOOLEAN]
        BY Zenon DEF RegisterHandler, IInv, TypeOK
    <2>2. TypeOK'
        BY <2>1, Zenon DEF RegisterHandler, IInv, TypeOK, sndVars, rcvVars, Pair
    <2> QED
        BY <2>2 DEF RegisterHandler, IInv, Sender, Lines, Current, Records, sndVars, rcvVars, Pair
<1>2. IInv /\ UNCHANGED vars => IInv'
    BY SMTT(30) DEF IInv, TypeOK, Sender, Lines, Current, Records, vars, sndVars, rcvVars, appVars, Pair
<1> QED
    BY <1>1, <1>2, BetweenTries, ElapseHolds, BeginTryHolds, ConnectHolds, HandshakeHolds, ExchangeHolds,
       AckHolds, ReceiverHolds, ZenonT(40) DEF Next, SenderStep

LEMMA InvariantHolds == Spec => []IInv
BY InitHolds, StepHolds, PTL DEF Spec

(* A frame that try_send takes for the delivery ACK of a try whose address *)
(* exchange was answered is an ACK: the receiver has recorded the message, *)
(* and under XK it is the destination.  For any peer table, any number of  *)
(* sends and retries, any waiting times and breaking connections.          *)
THEOREM AnsweredMeansAck == Spec => []AckIsGenuine
BY InvariantHolds, IInvIsGenuine, PTL

-----------------------------------------------------------------------------
(* Time that the sender may still spend in its limited waits: a try waits  *)
(* at most TryTime, and Left is what is left of the current send.          *)

TryTime == ExchangeTimeout + AckTimeout
LeftOfTry ==
    CASE phase \in {"connect", "handshake"} -> TryTime
      [] phase = "exchange" -> left + AckTimeout
      [] phase = "ack" -> left
      [] OTHER -> 0
LaterTries == (MaxAttempts - 1 - attempt) * (Len(owner) * TryTime + Backoff)
Trying == {"connect", "handshake", "exchange", "ack"}
Left ==
    CASE phase = "attempt" -> Len(owner) * TryTime + LaterTries
      [] phase = "backoff" -> LaterTries - Backoff + left
      [] phase \in Trying \cup {"next"} -> LeftOfTry + Len(queue) * TryTime + LaterTries
      [] OTHER -> 0

Counts ==
    /\ phase # "idle" => sends >= 1
    /\ Len(queue) <= Len(owner)
    /\ phase \in Trying => Len(queue) + 1 <= Len(owner)

(* The age of a record and the time left are together no more than what    *)
(* AtMostOnce compares with the window, and so is the time left when a     *)
(* message is on its way.  Both sides grow alike in the waits that the     *)
(* code does not limit.                                                    *)
InWindow == Left <= Elapsed
Carries(in) == Both(in) \/ Only(in, "msg")
Ages ==
    /\ \A n \in Node : seen[n] # Never => seen[n] + Left <= Elapsed
    /\ \A k \in Conn : Carries(toRcv[k]) => InWindow

(* Once recorded, always recorded: one call of the handler is on its way   *)
(* or made.                                                                *)
Once ==
    \A n \in Node :
        /\ seen[n] = Never => handled[n] = 0
        /\ handled[n] <= 1
        /\ \A k \in Conn : rcv[k] = "handle" /\ peer[k] = n => seen[n] # Never /\ handled[n] = 0
        /\ \A j, k \in Conn : rcv[j] = "handle" /\ rcv[k] = "handle" /\ peer[j] = n /\ peer[k] = n => j = k

Covered == Elapsed < DedupTTL
TimeInv == Counts /\ Ages /\ (Covered => Once)

-----------------------------------------------------------------------------
(* Arithmetic.                                                             *)

LEMMA Times ==
    ASSUME NEW a \in Nat, NEW c \in Nat
    PROVE  a * c \in Nat /\ (a + 1) * c = a * c + c /\ (a >= 1 => a * c >= c)
<1>1. a * c \in Nat /\ (a + 1) * c = a * c + c
    OBVIOUS
<1>2. ASSUME a >= 1 PROVE a * c >= c
    <2>1. a - 1 \in Nat
        BY <1>2
    <2>2. (a - 1) * c >= 0 /\ a * c = c + (a - 1) * c
        BY <2>1
    <2> QED
        BY <2>2
<1> QED
    BY <1>1, <1>2, Zenon

LEMMA SendFacts ==
    ASSUME TypeOK
    PROVE  /\ TryTime = 7 /\ Len(owner) \in Nat /\ Len(queue) \in Nat /\ left \in Nat
           /\ SendTime = 21 * Len(owner) + 2 /\ SendTime \in Nat
           /\ attempt \in {0, 1, 2}
           /\ LaterTries = (2 - attempt) * (7 * Len(owner) + 1)
           /\ LaterTries \in Nat /\ LaterTries <= 14 * Len(owner) + 2
<1>1. TryTime = 7
    BY DEF TryTime, ExchangeTimeout, AckTimeout
<1>2. Len(owner) \in Nat
    BY TablesType, SMTT(30) DEF TypeOK
<1>3. Len(queue) \in Nat /\ left \in Nat
    BY SMTT(30) DEF TypeOK, AckTimeout
<1>4. attempt \in {0, 1, 2}
    BY DEF TypeOK, MaxAttempts
<1>5. SendTime = 21 * Len(owner) + 2
    <2>1. SendTime = 3 * (Len(owner) * 7) + 2
        BY <1>2 DEF SendTime, MaxAttempts, ExchangeTimeout, AckTimeout, Backoff
    <2> QED
        BY <1>2, <2>1
<1>6. LaterTries = (2 - attempt) * (7 * Len(owner) + 1)
    <2>1. Len(owner) * 7 = 7 * Len(owner) /\ 3 - 1 = 2
        BY <1>2
    <2> QED
        BY <1>1, <2>1, Zenon DEF LaterTries, MaxAttempts, Backoff
<1>7. LaterTries \in Nat /\ LaterTries <= 14 * Len(owner) + 2
    BY <1>2, <1>4, <1>6
<1>8. 21 * Len(owner) + 2 \in Nat
    BY <1>2
<1> QED
    BY <1>1, <1>2, <1>3, <1>4, <1>5, <1>6, <1>7, <1>8, Zenon

LEMMA ElapsedType ==
    ASSUME TypeOK
    PROVE  /\ Elapsed \in Int /\ Elapsed = outside + sends * SendTime - 2
           /\ sends * SendTime \in Nat /\ outside \in Nat /\ sends \in Nat
<1>1. outside \in Nat /\ sends \in Nat
    BY TimeTypes DEF TypeOK
<1>2. SendTime \in Nat
    BY SendFacts, Zenon
<1>3. sends * SendTime \in Nat
    BY <1>1, <1>2, Times, Zenon
<1>4. Elapsed = outside + sends * SendTime - 2
    BY Zenon DEF Elapsed, ExchangeTimeout
<1> DEFINE x == sends * SendTime
<1> HIDE DEF x
<1>5. x \in Nat
    BY <1>3, Zenon DEF x
<1>6. outside + x - 2 \in Int
    BY <1>1, <1>5
<1> QED
    BY <1>1, <1>3, <1>4, <1>6, Zenon DEF x

(* When the message is on its way, the first exchange is over.             *)
LEMMA AckInWindow == IInv /\ Counts /\ phase = "ack" => InWindow
<1> SUFFICES ASSUME IInv, Counts, phase = "ack" PROVE Left <= Elapsed
    BY Zenon DEF InWindow
<1>1. TypeOK /\ sends >= 1 /\ Len(queue) + 1 <= Len(owner)
    BY Zenon DEF IInv, Counts, Trying
<1>2. sends * SendTime >= 21 * Len(owner) + 2
    <2>1. sends \in Nat /\ SendTime \in Nat /\ SendTime = 21 * Len(owner) + 2
        BY <1>1, SendFacts, ElapsedType, Zenon
    <2> QED
        BY <1>1, <2>1, Times, Zenon
<1>3. Left = left + Len(queue) * 7 + LaterTries /\ left \in 0..5
    <2>1. Left = LeftOfTry + Len(queue) * TryTime + LaterTries
        BY Zenon DEF Left, Trying
    <2>2. LeftOfTry = left
        BY Zenon DEF LeftOfTry
    <2> QED
        BY <1>1, <2>1, <2>2, SendFacts, Zenon DEF TypeOK, AckTimeout
<1> DEFINE x == sends * SendTime
<1>4. x \in Nat /\ x >= 21 * Len(owner) + 2 /\ Elapsed = outside + x - 2 /\ outside \in Nat
    BY <1>1, <1>2, ElapsedType, Zenon
<1>5. Len(owner) \in Nat /\ Len(queue) \in Nat /\ LaterTries \in Nat /\ LaterTries <= 14 * Len(owner) + 2
    BY <1>1, SendFacts, Zenon
<1> HIDE DEF x
<1> QED
    BY <1>1, <1>3, <1>4, <1>5

-----------------------------------------------------------------------------
(* The steps.                                                              *)

LEMMA CountsStep == IInv /\ Counts /\ [Next]_vars => Counts'
<1> SUFFICES ASSUME IInv, Counts, [Next]_vars PROVE Counts'
    BY Zenon
<1>0. TypeOK /\ Len(queue) \in Nat /\ Len(owner) \in Nat /\ sends \in Nat
    BY SendFacts, ElapsedType, Zenon DEF IInv
<1>1. CASE UNCHANGED <<owner, sends, queue>> /\ (phase' \in Trying => phase \in Trying) /\ (phase' # "idle" => phase # "idle")
    BY <1>1, Zenon DEF Counts
<1>2. CASE Send
    <2>1. sends' = sends + 1 /\ UNCHANGED <<owner, queue>> /\ phase' \notin Trying
        BY <1>2, Zenon DEF Send, Goto, Trying
    <2> QED
        BY <1>0, <2>1, SMTT(30) DEF Counts
<1>3. CASE BeginAttempt
    <2>1. PICK up \in SUBSET Pair : queue' \in Candidates(up)
        BY <1>3, Zenon DEF BeginAttempt
    <2>2. Len(queue') <= Len(owner)
        BY <1>0, <2>1, CandidateFacts, SMTT(30)
    <2> QED
        BY <1>3, <2>2, Zenon DEF BeginAttempt, Goto, Counts, Trying
<1>4. CASE BeginTry
    <2>1. Len(Tail(queue)) = Len(queue) - 1
        BY <1>4, SMTT(30) DEF BeginTry, IInv, TypeOK
    <2>2. UNCHANGED <<owner, sends>> /\ queue' = Tail(queue) /\ phase # "idle"
        BY <1>4, Zenon DEF BeginTry
    <2> QED
        BY <1>0, <2>1, <2>2, SMTT(30) DEF Counts
<1>5. CASE EndAttempt \/ BackoffOver \/ ConnectErr \/ HandshakeErr \/ AckReceived \/ AckMissing
    BY <1>1, <1>5, ZenonT(40) DEF EndAttempt, BackoffOver, ConnectErr, HandshakeErr, AckReceived, AckMissing, EndTry, Goto, Trying
<1>6. CASE ConnectOk \/ HandshakeOk \/ ExchangeReply \/ ExchangeSkipped
    BY <1>1, <1>6, ZenonT(40) DEF ConnectOk, HandshakeOk, ExchangeReply, ExchangeSkipped, SendMessage, Goto, Trying
<1>7. CASE Elapse \/ ElapseOutside
    BY <1>1, <1>7, Zenon DEF Elapse, ElapseOutside, Pass
<1>8. CASE (\E n \in Node : RegisterHandler(n)) \/ UNCHANGED vars
    BY <1>1, <1>8, Zenon DEF RegisterHandler, vars, sndVars
<1>9. CASE \E k \in Conn : ReceiverStep(k) \/ Break(k)
    BY <1>1, <1>9, ReceiverFrame, Zenon DEF sndVars
<1> QED
    BY <1>2, <1>3, <1>4, <1>5, <1>6, <1>7, <1>8, <1>9, ZenonT(40) DEF Next, SenderStep

(* The time left, phase by phase.                                          *)
Rest(a) == (2 - a) * (7 * Len(owner) + 1)
LeftFacts ==
    /\ attempt \in {0, 1, 2} /\ left \in 0..5 /\ Len(owner) \in Nat /\ Len(queue) \in Nat
    /\ phase = "attempt" => Left = 7 * Len(owner) + Rest(attempt)
    /\ phase = "backoff" => Left = Rest(attempt) - 1 + left /\ attempt < 2 /\ left <= 1
    /\ phase = "next" => Left = 7 * Len(queue) + Rest(attempt)
    /\ phase \in {"connect", "handshake"} => Left = 7 + 7 * Len(queue) + Rest(attempt)
    /\ phase = "exchange" => Left = left + 5 + 7 * Len(queue) + Rest(attempt) /\ left <= 2
    /\ phase = "ack" => Left = left + 7 * Len(queue) + Rest(attempt)
    /\ phase \in {"idle", "ok", "failed", "unavailable"} => Left = 0
    /\ Left \in Nat /\ Elapsed \in Int

LEMMA LeftFactsHold == IInv => LeftFacts
<1> SUFFICES ASSUME IInv PROVE LeftFacts
    BY Zenon
<1>0. TypeOK /\ Sender
    BY Zenon DEF IInv
<1>1. /\ LaterTries = Rest(attempt) /\ TryTime = 7 /\ Len(owner) \in Nat /\ Len(queue) \in Nat
      /\ left \in 0..5 /\ Rest(attempt) \in Nat /\ attempt \in {0, 1, 2} /\ Elapsed \in Int
    BY <1>0, SendFacts, ElapsedType, Zenon DEF Rest, TypeOK, AckTimeout
<1>2. Len(queue) * 7 = 7 * Len(queue) /\ Len(owner) * 7 = 7 * Len(owner)
    BY <1>1
<1>3. phase = "attempt" => Left = 7 * Len(owner) + Rest(attempt)
    BY <1>1, <1>2, Zenon DEF Left, Trying
<1>4. phase = "backoff" => Left = Rest(attempt) - 1 + left /\ attempt < 2 /\ left <= 1
    <2>1. phase = "backoff" => Left = Rest(attempt) - 1 + left
        BY <1>1, Zenon DEF Left, Trying, Backoff
    <2>2. phase = "backoff" => attempt + 1 < 3 /\ left <= 1
        BY <1>0, Zenon DEF Sender, InLimit, MaxAttempts, Backoff
    <2> QED
        BY <1>1, <2>1, <2>2
<1>5. ASSUME phase \in Trying \cup {"next"} PROVE Left = LeftOfTry + 7 * Len(queue) + Rest(attempt)
    <2>1. Left = LeftOfTry + Len(queue) * TryTime + LaterTries
        BY <1>5, Zenon DEF Left, Trying
    <2> QED
        BY <1>1, <1>2, <2>1, Zenon
<1>6. /\ phase = "next" => LeftOfTry = 0
      /\ phase \in {"connect", "handshake"} => LeftOfTry = 7
      /\ phase = "exchange" => LeftOfTry = left + 5 /\ left <= 2
      /\ phase = "ack" => LeftOfTry = left
    BY <1>0, <1>1, Zenon DEF LeftOfTry, AckTimeout, Sender, InLimit, ExchangeTimeout
<1>7. 0 + 7 * Len(queue) = 7 * Len(queue)
    BY <1>1
<1>8. phase \in {"idle", "ok", "failed", "unavailable"} => Left = 0
    BY Zenon DEF Left, Trying
<1>9. phase \in {"idle", "attempt", "next", "connect", "handshake", "exchange", "ack", "backoff", "ok", "failed", "unavailable"}
    BY <1>0, Zenon DEF TypeOK, Untimed, Timed, Returned
<1>10. LeftOfTry \in Nat
    BY <1>1, <1>6, <1>9 DEF LeftOfTry
<1>11. Rest(attempt) - 1 \in Nat \/ attempt = 2
    BY <1>1 DEF Rest
<1>12. Left \in Nat
    <2>1. CASE phase \in Trying \cup {"next"}
        BY <1>1, <1>5, <1>10, <2>1
    <2>2. CASE phase = "backoff"
        BY <1>1, <1>4, <1>11, <2>2
    <2>3. CASE phase \in {"idle", "attempt", "ok", "failed", "unavailable"}
        BY <1>1, <1>3, <1>8, <2>3
    <2> QED
        BY <1>9, <2>1, <2>2, <2>3, Zenon DEF Trying
<1> QED
    BY <1>1, <1>3, <1>4, <1>5, <1>6, <1>7, <1>8, <1>12, ZenonT(40) DEF LeftFacts, Trying

(* They hold of the state after a step, too.                               *)
LEMMA NextState ==
    IInv /\ Counts /\ [Next]_vars => /\ IInv' /\ Counts' /\ LeftFacts'
                                     /\ (phase = "ack")' => InWindow'
BY LeftFactsHold, AckInWindow, StepHolds, CountsStep, PTL

(* What a step costs: the time that it lets pass is no longer left, or it  *)
(* is added to Elapsed.                                                    *)
Costs(t) ==
    /\ Left' + Elapsed + t <= Left + Elapsed' /\ Elapsed <= Elapsed'
    /\ \A n \in Node : seen[n] # Never => seen'[n] # Never /\ seen'[n] <= seen[n] + t

LEMMA ElapseCosts == IInv /\ Counts /\ Elapse => \E t \in Nat : Costs(t)
<1> SUFFICES ASSUME IInv, Counts, Elapse PROVE \E t \in Nat : Costs(t)
    BY Zenon
<1>0. TypeOK /\ LeftFacts /\ LeftFacts'
    BY LeftFactsHold, NextState, Zenon DEF IInv, Next
<1>1. PICK t \in (Ticks \cup {left}) \ {0} : t <= left /\ left' = left - t /\ Pass(t)
    BY Zenon DEF Elapse
<1>2. t \in Nat
    BY <1>0, <1>1, TimeTypes DEF LeftFacts
<1>3. \A n \in Node : seen[n] # Never => seen'[n] # Never /\ seen'[n] <= seen[n] + t
    BY <1>0, <1>1, <1>2, PassFacts, Zenon
<1>4. UNCHANGED <<owner, outside, sends, phase, attempt, queue>> /\ phase \in {"exchange", "ack", "backoff"}
    BY <1>1, Zenon DEF Elapse, Pass, Timed
<1>5. Elapsed' = Elapsed /\ Rest(attempt)' = Rest(attempt)
    BY <1>4, Zenon DEF Elapsed, SendTime, Rest
<1>6. left \in Nat /\ Len(queue) \in Nat /\ Rest(attempt) \in Nat /\ Elapsed \in Int
    <2>1. Rest(attempt) \in Nat
        BY <1>0, SendFacts, Zenon DEF Rest
    <2> QED
        BY <1>0, <2>1 DEF LeftFacts
<1>7. Left' = Left - t /\ Left \in Nat
    <2>1. CASE phase = "exchange"
        <3>1. Left = left + 5 + 7 * Len(queue) + Rest(attempt) /\ Left' = left' + 5 + 7 * Len(queue) + Rest(attempt)
            BY <1>0, <1>4, <1>5, <2>1, Zenon DEF LeftFacts
        <3> QED
            BY <1>1, <1>2, <1>6, <3>1
    <2>2. CASE phase = "ack"
        <3>1. Left = left + 7 * Len(queue) + Rest(attempt) /\ Left' = left' + 7 * Len(queue) + Rest(attempt)
            BY <1>0, <1>4, <1>5, <2>2, Zenon DEF LeftFacts
        <3> QED
            BY <1>1, <1>2, <1>6, <3>1
    <2>3. CASE phase = "backoff"
        <3>1. Left = Rest(attempt) - 1 + left /\ Left' = Rest(attempt) - 1 + left' /\ Left \in Nat
            BY <1>0, <1>4, <1>5, <2>3, Zenon DEF LeftFacts
        <3> QED
            BY <1>1, <1>2, <1>6, <3>1
    <2> QED
        BY <1>4, <2>1, <2>2, <2>3, Zenon
<1>8. Left' + Elapsed + t <= Left + Elapsed' /\ Elapsed <= Elapsed'
    BY <1>2, <1>5, <1>6, <1>7
<1> QED
    BY <1>2, <1>3, <1>8, Zenon DEF Costs

LEMMA OutsideCosts == IInv /\ Counts /\ ElapseOutside => \E t \in Nat : Costs(t)
<1> SUFFICES ASSUME IInv, Counts, ElapseOutside PROVE \E t \in Nat : Costs(t)
    BY Zenon
<1>0. TypeOK /\ LeftFacts /\ LeftFacts'
    BY LeftFactsHold, NextState, Zenon DEF IInv, Next
<1>1. PICK t \in Ticks : outside' = outside + t /\ Pass(t)
    BY Zenon DEF ElapseOutside
<1>2. t \in Nat
    BY <1>1, TimeTypes
<1>3. \A n \in Node : seen[n] # Never => seen'[n] # Never /\ seen'[n] <= seen[n] + t
    BY <1>0, <1>1, <1>2, PassFacts, Zenon
<1>4. UNCHANGED <<owner, sends, phase, attempt, queue, left>>
    BY <1>1, Zenon DEF ElapseOutside, Pass
<1>5. Left' = Left /\ Left \in Nat
    BY <1>0, <1>4, Zenon DEF Left, LeftOfTry, LaterTries, LeftFacts
<1> DEFINE x == sends * SendTime
<1>6. Elapsed = outside + x - 2 /\ x \in Nat /\ outside \in Nat
    BY <1>0, ElapsedType, Zenon
<1>7. Elapsed' = outside + t + x - 2
    BY <1>1, <1>4, Zenon DEF Elapsed, SendTime, ExchangeTimeout
<1> HIDE DEF x
<1>8. Left' + Elapsed + t <= Left + Elapsed' /\ Elapsed <= Elapsed'
    BY <1>2, <1>5, <1>6, <1>7
<1> QED
    BY <1>2, <1>3, <1>8, Zenon DEF Costs

LEMMA SendCosts == IInv /\ Counts /\ Send => \E t \in Nat : Costs(t)
<1> SUFFICES ASSUME IInv, Counts, Send PROVE Costs(0)
    BY Zenon
<1>0. TypeOK /\ LeftFacts /\ LeftFacts'
    BY LeftFactsHold, NextState, Zenon DEF IInv, Next
<1>1. /\ sends' = sends + 1 /\ attempt' = 0 /\ UNCHANGED <<owner, outside, seen>>
      /\ phase \in {"idle", "failed", "unavailable"} /\ phase' \in {"attempt", "unavailable"}
    BY Zenon DEF Send, Goto
<1>2. Left = 0
    BY <1>0, <1>1, Zenon DEF LeftFacts
<1>3. Len(owner) \in Nat /\ SendTime = 21 * Len(owner) + 2 /\ SendTime \in Nat
    BY <1>0, SendFacts, Zenon
<1>4. Left' \in Nat /\ Left' <= 21 * Len(owner) + 2
    <2>1. phase' = "unavailable" => Left' = 0
        BY <1>0, <1>1, Zenon DEF LeftFacts
    <2>2. phase' = "attempt" => Left' = 7 * Len(owner) + (2 - 0) * (7 * Len(owner) + 1)
        BY <1>0, <1>1, Zenon DEF LeftFacts, Rest
    <2> QED
        BY <1>1, <1>3, <2>1, <2>2
<1> DEFINE x == sends * SendTime
<1>5. Elapsed = outside + x - 2 /\ x \in Nat /\ outside \in Nat /\ sends \in Nat
    BY <1>0, ElapsedType, Zenon
<1>6. (sends + 1) * SendTime = x + SendTime
    BY <1>3, <1>5, Times, Zenon
<1>7. Elapsed' = outside + (x + SendTime) - 2
    BY <1>1, <1>6, Zenon DEF Elapsed, SendTime, ExchangeTimeout
<1> HIDE DEF x
<1>8. Left' + Elapsed + 0 <= Left + Elapsed' /\ Elapsed <= Elapsed'
    BY <1>2, <1>3, <1>4, <1>5, <1>7
<1>9. \A n \in Node : seen[n] # Never => seen'[n] # Never /\ seen'[n] <= seen[n] + 0
    BY <1>0, <1>1 DEF TypeOK
<1> QED
    BY <1>8, <1>9, Zenon DEF Costs

(* Steps of the sender that take no time.                                  *)
LEMMA QuietSender ==
    ASSUME IInv, Counts, SenderStep
    PROVE  Left' <= Left /\ UNCHANGED <<owner, outside, sends, seen>>
<1>0. TypeOK /\ LeftFacts /\ LeftFacts' /\ Counts /\ Counts'
    BY LeftFactsHold, NextState, Zenon DEF IInv, Next
<1>1. UNCHANGED <<owner, outside, sends, seen>>
    BY ZenonT(40) DEF SenderStep, BeginAttempt, BeginTry, EndAttempt, BackoffOver, ConnectOk, ConnectErr, HandshakeOk,
           HandshakeErr, ExchangeReply, ExchangeSkipped, SendMessage, AckReceived, AckMissing
<1>2. /\ Len(owner) \in Nat /\ Len(queue) \in Nat /\ Len(queue') \in Nat /\ left \in Nat
      /\ Len(queue') <= Len(owner) /\ attempt \in {0, 1, 2} /\ Rest(attempt) \in Nat
    <2>1. Rest(attempt) \in Nat
        BY <1>0, SendFacts, Zenon DEF Rest
    <2>2. Len(queue') \in Nat /\ Len(queue') <= Len(owner)
        BY <1>0, <1>1, Zenon DEF LeftFacts, Counts
    <2> QED
        BY <1>0, <2>1, <2>2 DEF LeftFacts
<1>3. Left \in Nat
    BY <1>0, Zenon DEF LeftFacts
<1>4. CASE BeginAttempt
    <2>1. phase = "attempt" /\ phase' \in {"next", "unavailable"} /\ attempt' = attempt
        BY <1>4, Zenon DEF BeginAttempt, Goto
    <2>2. Left = 7 * Len(owner) + Rest(attempt)
        BY <1>0, <2>1, Zenon DEF LeftFacts
    <2>3. Left' = 0 \/ Left' = 7 * Len(queue') + Rest(attempt)
        BY <1>0, <1>1, <2>1, Zenon DEF LeftFacts, Rest
    <2> QED
        BY <1>1, <1>2, <2>2, <2>3
<1>5. CASE BeginTry
    <2>1. phase = "next" /\ phase' = "connect" /\ attempt' = attempt
        BY <1>5, Zenon DEF BeginTry, Goto
    <2>2. Len(queue') = Len(queue) - 1
        BY <1>0, <1>5 DEF BeginTry, TypeOK
    <2>3. Left = 7 * Len(queue) + Rest(attempt) /\ Left' = 7 + 7 * Len(queue') + Rest(attempt)
        BY <1>0, <1>1, <2>1, Zenon DEF LeftFacts, Rest
    <2> QED
        BY <1>1, <1>2, <2>2, <2>3
<1>6. CASE EndAttempt
    <2>1. phase = "next" /\ phase' \in {"backoff", "failed"} /\ UNCHANGED <<attempt, queue>>
        BY <1>6, Zenon DEF EndAttempt, Goto
    <2>2. Left = 7 * Len(queue) + Rest(attempt)
        BY <1>0, <2>1, Zenon DEF LeftFacts
    <2>3. Left' = 0 \/ (Left' = Rest(attempt) - 1 + left' /\ left' <= 1 /\ left' \in 0..5)
        BY <1>0, <1>1, <2>1, Zenon DEF LeftFacts, Rest
    <2> QED
        BY <1>1, <1>2, <2>2, <2>3
<1>7. CASE BackoffOver
    <2>1. phase = "backoff" /\ phase' = "attempt" /\ attempt' = attempt + 1 /\ left = 0
        BY <1>7, Zenon DEF BackoffOver, Goto
    <2>2. Left = (2 - attempt) * (7 * Len(owner) + 1) - 1 + left /\ attempt < 2
        BY <1>0, <2>1, Zenon DEF LeftFacts, Rest
    <2>3. Left' = 7 * Len(owner) + (2 - (attempt + 1)) * (7 * Len(owner) + 1)
        BY <1>0, <1>1, <2>1, Zenon DEF LeftFacts, Rest
    <2> QED
        BY <1>1, <1>2, <2>1, <2>2, <2>3
<1>8. CASE ConnectErr \/ HandshakeErr \/ AckMissing
    <2>1. phase \in {"connect", "handshake", "ack"} /\ phase' = "next" /\ UNCHANGED <<attempt, queue>>
        BY <1>8, Zenon DEF ConnectErr, HandshakeErr, AckMissing, EndTry, Goto
    <2>2. Left = 7 + 7 * Len(queue) + Rest(attempt) \/ Left = left + 7 * Len(queue) + Rest(attempt)
        BY <1>0, <2>1, Zenon DEF LeftFacts
    <2>3. Left' = 7 * Len(queue) + Rest(attempt)
        BY <1>0, <1>1, <2>1, Zenon DEF LeftFacts, Rest
    <2> QED
        BY <1>1, <1>2, <2>2, <2>3
<1>9. CASE ConnectOk \/ HandshakeOk
    <2>1. phase \in {"connect", "handshake"} /\ phase' \in {"handshake", "exchange"} /\ UNCHANGED <<attempt, queue>>
        BY <1>9, Zenon DEF ConnectOk, HandshakeOk, Goto
    <2>2. Left = 7 + 7 * Len(queue) + Rest(attempt)
        BY <1>0, <2>1, Zenon DEF LeftFacts
    <2>3. \/ Left' = 7 + 7 * Len(queue) + Rest(attempt)
          \/ Left' = left' + 5 + 7 * Len(queue) + Rest(attempt) /\ left' <= 2 /\ left' \in 0..5
        BY <1>0, <1>1, <2>1, Zenon DEF LeftFacts, Rest
    <2> QED
        BY <1>1, <1>2, <2>2, <2>3
<1>10. CASE ExchangeReply \/ ExchangeSkipped
    <2>1. phase = "exchange" /\ phase' = "ack" /\ UNCHANGED <<attempt, queue>>
        BY <1>10, Zenon DEF ExchangeReply, ExchangeSkipped, SendMessage, Goto
    <2>2. Left = left + 5 + 7 * Len(queue) + Rest(attempt)
        BY <1>0, <2>1, Zenon DEF LeftFacts
    <2>3. Left' = left' + 7 * Len(queue) + Rest(attempt) /\ left' \in 0..5
        BY <1>0, <1>1, <2>1, Zenon DEF LeftFacts, Rest
    <2> QED
        BY <1>1, <1>2, <2>2, <2>3
<1>11. CASE AckReceived
    <2>1. Left' = 0
        BY <1>0, <1>11, Zenon DEF AckReceived, Goto, LeftFacts
    <2> QED
        BY <1>1, <1>3, <2>1
<1> QED
    BY <1>4, <1>5, <1>6, <1>7, <1>8, <1>9, <1>10, <1>11, Zenon DEF SenderStep

LEMMA NoCost == ASSUME NEW a \in Nat, NEW b \in Nat, NEW e \in Int, a <= b PROVE a + e + 0 <= b + e /\ e <= e
OBVIOUS

LEMMA StepCosts == IInv /\ Counts /\ [Next]_vars => \E t \in Nat : Costs(t)
<1> SUFFICES ASSUME IInv, Counts, [Next]_vars PROVE \E t \in Nat : Costs(t)
    BY Zenon
<1>0. TypeOK /\ LeftFacts /\ LeftFacts'
    BY LeftFactsHold, NextState, Zenon DEF IInv
<1>1. ASSUME Left' <= Left, UNCHANGED <<owner, outside, sends>>,
             \A n \in Node : seen[n] # Never => seen'[n] = seen[n] \/ seen'[n] = 0
      PROVE  Costs(0)
    <2>1. ASSUME NEW n \in Node, seen[n] # Never PROVE seen'[n] # Never /\ seen'[n] <= seen[n] + 0
        <3>1. seen[n] \in Nat /\ (seen'[n] = seen[n] \/ seen'[n] = 0)
            <4>1. seen[n] \in 0..DedupTTL
                BY <1>0, <2>1, Zenon DEF TypeOK
            <4> QED
                BY <1>1, <2>1, <4>1
        <3> QED
            BY <3>1 DEF Never
    <2>2. Elapsed' = Elapsed
        BY <1>1, Zenon DEF Elapsed, SendTime
    <2>3. Elapsed \in Int /\ Left \in Nat /\ Left' \in Nat
        BY <1>0, Zenon DEF LeftFacts
    <2>4. Left' + Elapsed + 0 <= Left + Elapsed' /\ Elapsed <= Elapsed'
        BY <1>1, <2>2, <2>3, NoCost, Zenon
    <2> QED
        BY <2>1, <2>4, Zenon DEF Costs
<1>2. CASE SenderStep
    BY <1>1, <1>2, QuietSender, Zenon
<1>3. ASSUME UNCHANGED <<owner, outside, sndVars>> PROVE Left' <= Left /\ UNCHANGED sends
    <2>1. Left' = Left /\ UNCHANGED sends
        BY <1>3, Zenon DEF sndVars, Left, LaterTries, LeftOfTry
    <2> QED
        BY <1>0, <2>1, SMTT(30) DEF LeftFacts
<1>4. CASE \E k \in Conn : ReceiverStep(k) \/ Break(k)
    <2> PICK k \in Conn : ReceiverStep(k) \/ Break(k)
        BY <1>4, Zenon
    <2>1. UNCHANGED <<owner, outside, sndVars>>
        BY ReceiverFrame, ZenonT(40)
    <2>2. \A n \in Node : seen[n] # Never => seen'[n] = seen[n] \/ seen'[n] = 0
        BY <1>0, ZenonT(40) DEF ReceiverStep, AnswerExchange, CheckAndInsert, Handle, SendAck, Hangup, Break, TypeOK
    <2> QED
        BY <1>1, <1>3, <2>1, <2>2, Zenon
<1>5. CASE (\E n \in Node : RegisterHandler(n)) \/ UNCHANGED vars
    <2>1. UNCHANGED <<owner, outside, sndVars, seen>>
        BY <1>5, Zenon DEF RegisterHandler, vars
    <2> QED
        BY <1>1, <1>3, <2>1, Zenon
<1> QED
    BY <1>2, <1>4, <1>5, SendCosts, ElapseCosts, OutsideCosts, Zenon DEF Next

-----------------------------------------------------------------------------
(* The ages of records and messages.                                       *)

LEMMA NothingCarried == ~Carries(<<>>)
BY DEF Carries, Only, Both

LEMMA CarriesFacts ==
    ASSUME NEW in \in Seq(Frame)
    PROVE  /\ in = <<>> => ~Carries(in)
           /\ Only(in, "addr") => ~Carries(in)
           /\ Only(in, "addr") \/ Only(in, "msg") => ~Carries(Tail(in))
           /\ in = <<>> => ~Carries(Append(in, "addr"))
<1>1. (in = <<>> => ~Carries(in)) /\ (Only(in, "addr") => ~Carries(in))
    BY DEF Carries, Only, Both
<1>2. Only(in, "addr") \/ Only(in, "msg") => Tail(in) = <<>>
    BY FrameFacts, Zenon
<1>4. in = <<>> => Only(Append(in, "addr"), "addr")
    BY FrameFacts, Zenon DEF Frame
<1>5. in = <<>> => ~Carries(Append(in, "addr"))
    BY <1>4, ZenonT(40) DEF Carries, Only, Both
<1> QED
    BY <1>1, <1>2, <1>5, NothingCarried, ZenonT(40)

(* The message gets on its way only when it is sent.                       *)
LEMMA OnlySent ==
    ASSUME IInv, [Next]_vars, NEW k \in Conn, Carries(toRcv'[k])
    PROVE  Carries(toRcv[k]) \/ phase' = "ack"
<1>0. toRcv[k] \in Seq(Frame) /\ ~Carries(<<>>) /\ LineOK(rcv[k], peer[k], toRcv[k], toSnd[k], recorded)
    BY NothingCarried, ZenonT(40) DEF IInv, TypeOK, Lines
<1>1. CASE toRcv' = toRcv
    BY <1>1, Zenon
<1>2. CASE BeginTry
    BY <1>0, <1>2, Zenon DEF BeginTry, Clean
<1>3. CASE HandshakeOk
    <2>1. CASE k = cur
        <3>1. toRcv[k] = <<>> /\ toRcv'[k] = Append(toRcv[k], "addr")
            BY <1>0, <1>3, <2>1, SMTT(30) DEF HandshakeOk, Deliver, LineOK, IInv, TypeOK
        <3> QED
            BY <1>0, <3>1, CarriesFacts, ZenonT(40)
    <2>2. CASE k # cur
        BY <1>3, <2>2, SMTT(30) DEF HandshakeOk, Deliver, IInv, TypeOK
    <2> QED
        BY <2>1, <2>2, Zenon
<1>4. CASE ExchangeReply \/ ExchangeSkipped
    BY <1>4, Zenon DEF ExchangeReply, ExchangeSkipped, SendMessage, Goto
<1>5. ASSUME NEW j \in Conn, ReceiverStep(j) \/ Break(j) PROVE Carries(toRcv[k])
    <2>1. CASE j # k
        BY <1>5, <2>1, ReceiverFrame, ZenonT(40)
    <2>2. CASE j = k
        <3>1. Answers(k) \/ Dispatches(k) \/ Replies(k) \/ Ends(k)
            BY <1>5, <2>2, ReceiverCases, ZenonT(40)
        <3>2. CASE Answers(k)
            <4>1. toRcv'[k] = Tail(toRcv[k]) /\ (Only(toRcv[k], "addr") \/ Both(toRcv[k]))
                BY <1>0, <3>2, ZenonT(40) DEF Answers, LineOK
            <4>2. Only(toRcv[k], "addr") => ~Carries(toRcv'[k])
                BY <1>0, <4>1, CarriesFacts, Zenon
            <4> QED
                BY <4>1, <4>2, ZenonT(40) DEF Carries
        <3>3. CASE Dispatches(k)
            <4>1. Only(toRcv[k], "msg")
                BY <1>0, <3>3, Zenon DEF Dispatches, LineOK
            <4> QED
                BY <4>1, Zenon DEF Carries
        <3>4. CASE Replies(k) \/ Ends(k)
            BY <1>0, <3>4, ZenonT(40) DEF Replies, Ends
        <3> QED
            BY <3>1, <3>2, <3>3, <3>4, SMTT(30)
    <2> QED
        BY <2>1, <2>2, Zenon
<1>6. CASE \/ Send \/ BeginAttempt \/ EndAttempt \/ BackoffOver \/ ConnectOk \/ ConnectErr
           \/ HandshakeErr \/ AckReceived \/ AckMissing \/ Elapse \/ ElapseOutside \/ (\E n \in Node : RegisterHandler(n)) \/ UNCHANGED vars
    <2>1. toRcv' = toRcv
        BY <1>6, Zenon DEF Send, BeginAttempt, EndAttempt, BackoffOver, ConnectOk, ConnectErr, HandshakeErr, AckReceived,
                    AckMissing, Elapse, ElapseOutside, Pass, RegisterHandler, vars, rcvVars
    <2> QED
        BY <1>1, <2>1, ZenonT(40)
<1> QED
    BY <1>2, <1>3, <1>4, <1>5, <1>6, SMTT(30) DEF Next, SenderStep

(* A record is new only when the message is dispatched.                    *)
LEMMA OnlyDispatched ==
    ASSUME IInv, [Next]_vars, NEW n \in Node, seen[n] = Never, seen'[n] # Never
    PROVE  seen'[n] = 0 /\ \E k \in Conn : CheckAndInsert(k) /\ Carries(toRcv[k])
<1>1. ~(Elapse \/ ElapseOutside)
    BY Zenon DEF Elapse, ElapseOutside, Pass, Older
<1>2. ~Send /\ ~SenderStep /\ ~(\E m \in Node : RegisterHandler(m)) /\ ~(UNCHANGED vars)
    BY Zenon DEF Send, SenderStep, BeginAttempt, BeginTry, EndAttempt, BackoffOver, ConnectOk, ConnectErr, HandshakeOk,
           HandshakeErr, ExchangeReply, ExchangeSkipped, SendMessage, AckReceived, AckMissing, RegisterHandler, vars
<1>3. PICK k \in Conn : ReceiverStep(k) \/ Break(k)
    BY <1>1, <1>2, ZenonT(40) DEF Next
<1>4. CheckAndInsert(k)
    BY <1>3, ZenonT(40) DEF ReceiverStep, AnswerExchange, Handle, SendAck, Hangup, Break
<1>5. seen'[n] = 0
    BY <1>4, Zenon DEF CheckAndInsert, IInv, TypeOK
<1>6. Only(toRcv[k], "msg")
    BY <1>4, ZenonT(40) DEF CheckAndInsert, IInv, Lines, LineOK
<1> QED
    BY <1>4, <1>5, <1>6, Zenon DEF Carries

LEMMA AgesStep == IInv /\ Counts /\ Ages /\ [Next]_vars => Ages'
<1> SUFFICES ASSUME IInv, Counts, Ages, [Next]_vars PROVE Ages'
    BY Zenon
<1>0. TypeOK /\ LeftFacts /\ LeftFacts' /\ TypeOK'
    BY LeftFactsHold, NextState, Zenon DEF IInv
<1>1. PICK t \in Nat : Costs(t)
    BY StepCosts, Zenon
<1>2. PICK l \in Nat, e \in Int : l = Left' /\ e = Elapsed'
    BY <1>0, Zenon DEF LeftFacts
<1>3. Left \in Nat /\ Elapsed \in Int /\ l + Elapsed + t <= Left + e
    BY <1>0, <1>1, <1>2, Zenon DEF Costs, LeftFacts
<1>4. ASSUME Left <= Elapsed PROVE l <= e
    BY <1>3, <1>4
<1>5. ASSUME NEW n \in Node, seen'[n] # Never PROVE seen'[n] + l <= e
    <2>0. seen'[n] \in Nat
        <3>1. seen'[n] \in 0..DedupTTL
            BY <1>0, <1>5, Zenon DEF TypeOK
        <3> QED
            BY <3>1
    <2>1. CASE seen[n] # Never
        <3>1. seen[n] + Left <= Elapsed
            BY <2>1, Zenon DEF Ages
        <3>2. seen'[n] <= seen[n] + t
            BY <1>1, <2>1, ZenonT(40) DEF Costs
        <3>3. seen[n] \in Nat
            <4>1. seen[n] \in 0..DedupTTL
                BY <1>0, <2>1, Zenon DEF TypeOK
            <4> QED
                BY <4>1
        <3> QED
            BY <1>3, <2>0, <3>1, <3>2, <3>3
    <2>2. CASE seen[n] = Never
        <3>1. seen'[n] = 0 /\ \E k \in Conn : Carries(toRcv[k])
            BY <1>5, <2>2, OnlyDispatched, Zenon
        <3>2. Left <= Elapsed
            BY <3>1, Zenon DEF Ages, InWindow
        <3>3. l <= e
            BY <1>4, <3>2, Zenon
        <3> QED
            BY <1>3, <3>1, <3>3
    <2> QED
        BY <2>1, <2>2, Zenon
<1>6. ASSUME NEW k \in Conn, Carries(toRcv'[k]) PROVE InWindow'
    <2>1. CASE Carries(toRcv[k])
        <3>1. Left <= Elapsed
            BY <2>1, Zenon DEF Ages, InWindow
        <3> QED
            BY <1>2, <1>4, <3>1, Zenon DEF InWindow
    <2>2. CASE phase' = "ack"
        BY <2>2, NextState, Zenon
    <2> QED
        BY <1>6, <2>1, <2>2, OnlySent, Zenon
<1> QED
    BY <1>2, <1>5, <1>6, ZenonT(40) DEF Ages

-----------------------------------------------------------------------------
(* At most one call.                                                       *)

(* Steps that neither begin nor make a call.                               *)
LEMMA OnceFrame ==
    ASSUME Once, UNCHANGED handled,
           \A n \in Node : seen[n] # Never => seen'[n] # Never,
           \A j \in Conn : rcv'[j] = "handle" => rcv[j] = "handle" /\ peer'[j] = peer[j]
    PROVE  Once'
<1> SUFFICES ASSUME NEW n \in Node
             PROVE  /\ seen'[n] = Never => handled[n] = 0
                    /\ handled[n] <= 1
                    /\ \A k \in Conn : rcv'[k] = "handle" /\ peer'[k] = n => seen'[n] # Never /\ handled[n] = 0
                    /\ \A j, k \in Conn :
                          rcv'[j] = "handle" /\ rcv'[k] = "handle" /\ peer'[j] = n /\ peer'[k] = n => j = k
    BY Zenon DEF Once
<1> QED
    BY SMTT(30) DEF Once

LEMMA OnceStep ==
    ASSUME Covered, IInv, Counts, Ages, Once, [Next]_vars
    PROVE  Once'
<1> USE DEF IInv
<1>1. \A n \in Node : seen[n] # Never => seen'[n] # Never
    BY StepCosts, Zenon DEF Costs
<1>2. \A n \in Node : seen[n] # Never => IsDup(n)
    <2> SUFFICES ASSUME NEW n \in Node, seen[n] # Never PROVE seen[n] < DedupTTL
        BY Zenon DEF IsDup
    <2>1. seen[n] + Left <= Elapsed /\ Elapsed < DedupTTL
        BY Zenon DEF Ages, Covered
    <2>2. seen[n] \in 0..DedupTTL /\ Left \in Nat /\ Elapsed \in Int /\ DedupTTL \in Nat
        BY LeftFactsHold, TimeTypes, Zenon DEF TypeOK, LeftFacts
    <2> QED
        BY <2>1, <2>2
<1>3. ASSUME NEW k \in Conn, CheckAndInsert(k) PROVE Once'
    <2>1. peer[k] \in Node /\ rcv[k] = "app"
        BY <1>3, Zenon DEF CheckAndInsert, Lines, LineOK
    <2>2. UNCHANGED <<peer, handled>> /\ \A j \in Conn \ {k} : rcv'[j] = rcv[j]
        BY <1>3, Zenon DEF CheckAndInsert, TypeOK
    <2>3. CASE IsDup(peer[k])
        <3>1. rcv'[k] = "reply"
            BY <1>3, <2>3, Zenon DEF CheckAndInsert, TypeOK
        <3> QED
            BY <1>1, <2>2, <3>1, OnceFrame, Zenon
    <2>4. CASE ~IsDup(peer[k])
        <3>1. seen[peer[k]] = Never
            BY <1>2, <2>1, <2>4, Zenon
        <3>2. handled[peer[k]] = 0 /\ \A j \in Conn : rcv[j] = "handle" => peer[j] # peer[k]
            BY <2>1, <3>1, ZenonT(40) DEF Once
        <3>3. seen'[peer[k]] # Never
            BY <1>3, <2>1, <2>4, SMTT(30) DEF CheckAndInsert, Never, TypeOK
        <3>4. \A j \in Conn : rcv'[j] = "handle" => j = k \/ (rcv[j] = "handle" /\ peer[j] # peer[k])
            BY <2>2, <3>2, ZenonT(40)
        <3> QED
            BY <1>1, <2>1, <2>2, <3>2, <3>3, <3>4, ZenonT(40) DEF Once
    <2> QED
        BY <2>3, <2>4, Zenon
<1>4. ASSUME NEW k \in Conn, Handle(k) PROVE Once'
    <2>1. peer[k] \in Node /\ seen[peer[k]] # Never /\ handled[peer[k]] = 0
        BY <1>4, Zenon DEF Handle, Lines, LineOK, Once
    <2>2. /\ UNCHANGED <<peer, seen>> /\ rcv'[k] = "reply"
          /\ \A j \in Conn \ {k} : rcv'[j] = rcv[j]
        BY <1>4, ZenonT(40) DEF Handle, TypeOK
    <2>3. handled'[peer[k]] \in {0, 1} /\ \A n \in Node \ {peer[k]} : handled'[n] = handled[n]
        BY <1>4, <2>1, SMTT(30) DEF Handle, TypeOK
    <2>4. \A j \in Conn : rcv'[j] = "handle" => rcv[j] = "handle" /\ peer[j] # peer[k]
        BY <1>4, <2>1, <2>2, Zenon DEF Once, Handle
    <2> QED
        BY <2>1, <2>2, <2>3, <2>4, SMTT(30) DEF Once
<1>5. ASSUME UNCHANGED handled, \A j \in Conn : rcv'[j] = "handle" => rcv[j] = "handle" /\ peer'[j] = peer[j]
      PROVE  Once'
    BY <1>1, <1>5, OnceFrame, Zenon
<1>6. ASSUME NEW k \in Conn, AnswerExchange(k) \/ SendAck(k) \/ Hangup(k) \/ Break(k) PROVE Once'
    BY <1>5, <1>6, Zenon DEF AnswerExchange, SendAck, Hangup, Break, appVars, TypeOK
<1>7. CASE BeginTry
    BY <1>5, <1>7, Zenon DEF BeginTry, Clean, Settled, appVars
<1>8. CASE ConnectOk \/ HandshakeOk \/ HandshakeErr
    <2>1. UNCHANGED handled /\ rcv'[cur] # "handle" /\ \A j \in Conn \ {cur} : rcv'[j] = rcv[j] /\ peer'[j] = peer[j]
        BY <1>8 DEF ConnectOk, HandshakeOk, HandshakeErr, appVars, TypeOK, Sender, Held
    <2> QED
        BY <1>5, <2>1, ZenonT(40)
<1>9. CASE \/ Send \/ BeginAttempt \/ EndAttempt \/ BackoffOver \/ ConnectErr \/ ExchangeReply \/ ExchangeSkipped
           \/ AckReceived \/ AckMissing \/ Elapse \/ ElapseOutside \/ (\E n \in Node : RegisterHandler(n)) \/ UNCHANGED vars
    <2>1. UNCHANGED <<rcv, peer, handled>>
        BY <1>9, Zenon DEF Send, BeginAttempt, EndAttempt, BackoffOver, ConnectErr, ExchangeReply, ExchangeSkipped,
                    SendMessage, AckReceived, AckMissing, Elapse, ElapseOutside, Pass, RegisterHandler, vars, rcvVars, appVars
    <2> QED
        BY <1>5, <2>1, Zenon
<1> QED
    BY <1>3, <1>4, <1>6, <1>7, <1>8, <1>9, ZenonT(40) DEF Next, SenderStep, ReceiverStep

LEMMA TimeInvHolds == Spec => [](IInv /\ TimeInv)
<1>1. Init => TimeInv
    <2> SUFFICES ASSUME Init PROVE TimeInv
        BY Zenon
    <2>1. Counts
        <3>1. Len(queue) = 0 /\ Len(owner) \in Nat /\ phase = "idle"
            BY TablesType DEF Init
        <3> QED
            BY <3>1, SMTT(30) DEF Counts, Trying
    <2>2. Ages
        BY NothingCarried, Zenon DEF Init, Ages
    <2>3. Once
        BY SMTT(30) DEF Init, Once
    <2> QED
        BY <2>1, <2>2, <2>3, Zenon DEF TimeInv
<1>2. IInv /\ TimeInv /\ [Next]_vars => TimeInv'
    <2> SUFFICES ASSUME IInv, TimeInv, [Next]_vars PROVE Counts' /\ Ages' /\ (Covered' => Once')
        BY Zenon DEF TimeInv
    <2>1. Covered' => Covered
        <3>1. PICK t \in Nat : Costs(t)
            BY StepCosts, Zenon DEF TimeInv
        <3>2. LeftFacts /\ LeftFacts'
            BY LeftFactsHold, NextState, Zenon DEF TimeInv
        <3>3. PICK e \in Int : e = Elapsed'
            BY <3>2, Zenon DEF LeftFacts
        <3>4. Elapsed \in Int /\ Elapsed <= e /\ DedupTTL \in Nat
            BY <3>1, <3>2, <3>3, TimeTypes, Zenon DEF LeftFacts, Costs
        <3>5. e < DedupTTL => Elapsed < DedupTTL
            BY <3>4
        <3> QED
            BY <3>3, <3>5, Zenon DEF Covered
    <2> QED
        BY <2>1, CountsStep, AgesStep, OnceStep, Zenon DEF TimeInv
<1> QED
    BY <1>1, <1>2, InitHolds, StepHolds, PTL DEF Spec

(* No on_message is called twice for one message, whatever is retried, on  *)
(* however many connections at once, as long as the deduplication window   *)
(* is longer than the limited waits of the sends made so far and the time  *)
(* spent where the code sets no limit: in connects and handshakes, between *)
(* sends and after them.                                                   *)
THEOREM OneCallPerMessage == Spec => []AtMostOnce
<1>1. TimeInv => AtMostOnce
    BY Zenon DEF TimeInv, Covered, Once, AtMostOnce
<1> QED
    BY <1>1, TimeInvHolds, PTL
=============================================================================
