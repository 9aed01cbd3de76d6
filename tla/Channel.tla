-------------------------------- MODULE Channel --------------------------------
(***************************************************************************)
(* A Session (session.rs) over a BundleLayer (bundle.rs) over a transport's *)
(* connection: the Noise handshake after its pattern byte, then messages   *)
(* both ways.                                                              *)
(*                                                                         *)
(* Cryptography is symbolic: a message carries what its tag binds, and     *)
(* reading it succeeds when this agrees with the reader's own state.  The  *)
(* connection is a stream (QUIC, TCP), whose frames are a length and a     *)
(* body read one after the other, or a radio (BLE), which may lose, repeat *)
(* and reorder packets and bring one of an earlier connection of the two.  *)
(***************************************************************************)
EXTENDS Bundle, Sequences, Functions

CONSTANTS
    Kinds,          \* connections considered: subset of {"stream", "radio"}
    Keys,           \* the initiator's remote_key: "none", "right" or "stale"
    Mtu,            \* mtu() of the connection
    Bodies,         \* messages the applications send
    BodyLen,        \* their lengths
    MaxSent,        \* bound: messages each end sends, per end
    MaxFaults       \* bound: faults of the connection and timeouts

End == {"ini", "res"}
Other(e) == IF e = "ini" THEN "res" ELSE "ini"

ASSUME KeysType == Keys \subseteq {"none", "right", "stale"}
ASSUME SizesType == Mtu \in Nat /\ BodyLen \in [Bodies -> Nat]
ASSUME BoundsType == MaxSent \in [End -> Nat] /\ MaxFaults \in Nat

VARIABLES
    kind,           \* the connection
    key,            \* remote_key of initiate
    pc,             \* pc[e]: the step of initiate or respond e is at
    hs,             \* hs[e]: the handshake as e has seen it
    peer,           \* peer[e]: whose static key e's handshake has established
    seq,            \* seq[e]: BundleLayer::seq
    pending,        \* pending[e]: BundleLayer::pending
    outbox,         \* outbox[e]: bundles of the send_bytes in progress
    link,           \* link[e]: packets on their way to e
    reader,         \* reader[e]: where e's read of its stream is
    sent, rcvd,     \* histories: messages sent and received by e
    faults

netVars == <<seq, pending, outbox, link, reader>>
vars == <<kind, key, pc, hs, peer, sent, rcvd, faults, netVars>>

-----------------------------------------------------------------------------
(* Messages.                                                               *)

Pattern == IF key = "none" THEN "XX" ELSE "XK"

(* A handshake is its pattern and the two ephemeral keys.                  *)
Handshake == [pat : {"XX", "XK"}, e : {"now", "old", "junk"}, r : {"now", "old", "none"}]
NoHandshake == [pat |-> "XX", e |-> "junk", r |-> "none"]

Prefix(p) == [t |-> "prefix", pat |-> p]
Msg1(p, e, to) == [t |-> "m1", pat |-> p, e |-> e, to |-> to]
Msg2(h) == [t |-> "m2", h |-> h]
Msg3(h) == [t |-> "m3", h |-> h]
Data(h, e, n, body) == [t |-> "data", h |-> h, from |-> e, n |-> n, body |-> body]

(* Their lengths: Noise with 32-byte keys and 16-byte tags.                *)
MsgLen(m) ==
    CASE m.t = "prefix" -> 1
      [] m.t = "m1" -> IF m.pat = "XX" THEN 32 ELSE 48
      [] m.t = "m2" -> IF m.h.pat = "XX" THEN 96 ELSE 48
      [] m.t = "m3" -> 64
      [] m.t = "data" -> BodyLen[m.body] + 16

NoiseMsgMax == 65535

-----------------------------------------------------------------------------
TypeOK ==
    /\ kind \in Kinds /\ key \in Keys
    /\ pc \in [End -> {"prefix", "m1", "m2", "m3", "up", "closed", "failed"}]
    /\ hs \in [End -> Handshake]
    /\ peer \in [End -> {"nobody", "ini", "res"}]
    /\ seq \in [End -> 0..(3 + MaxSent["ini"] + MaxSent["res"])]
    /\ \A e \in End :
          /\ \A s \in DOMAIN pending[e] : ~IsComplete(pending[e][s])
          /\ \A i \in DOMAIN outbox[e] : FitsWhole(outbox[e][i].seq, outbox[e][i].total, Mtu) = ~outbox[e][i].frag
    /\ reader \in [End -> {"length", "body", "lost"}]
    /\ sent \in [End -> Seq(Bodies)] /\ rcvd \in [End -> Seq(Bodies)]
    /\ faults \in 0..MaxFaults

Init ==
    /\ kind \in Kinds /\ key \in Keys
    /\ pc = [e \in End |-> "prefix"]
    /\ hs = [e \in End |-> NoHandshake]
    /\ peer = [e \in End |-> "nobody"]
    /\ seq = [e \in End |-> 0]
    /\ pending = [e \in End |-> <<>>]
    /\ outbox = [e \in End |-> <<>>] /\ link = [e \in End |-> <<>>]
    /\ reader = [e \in End |-> "length"]
    /\ sent = [e \in End |-> <<>>] /\ rcvd = [e \in End |-> <<>>]
    /\ faults = 0

-----------------------------------------------------------------------------
(* Sending.                                                                *)

(* BundleLayer::send_bytes takes the message; its bundles leave one by one. *)
Write(e, m) ==
    /\ outbox[e] = <<>>
    /\ outbox' = [outbox EXCEPT ![e] = SendBytes(seq[e], m, MsgLen(m), Mtu)]
    /\ seq' = [seq EXCEPT ![e] = @ + 1]
    /\ UNCHANGED <<kind, key, rcvd, faults, pending, link, reader>>

Goto(e, s) == pc' = [pc EXCEPT ![e] = s]

SendPrefix ==
    /\ pc["ini"] = "prefix"
    /\ Write("ini", Prefix(Pattern))
    /\ Goto("ini", "m1")
    /\ UNCHANGED <<hs, peer, sent>>

SendMsg1 ==
    /\ pc["ini"] = "m1"
    /\ Write("ini", Msg1(Pattern, "now", key))
    /\ Goto("ini", "m2")
    /\ UNCHANGED <<hs, peer, sent>>

SendMsg2 ==
    /\ pc["res"] = "m2"
    /\ Write("res", Msg2(hs["res"]))
    /\ Goto("res", "m3")
    /\ UNCHANGED <<hs, peer, sent>>

(* Session::finish of the initiator needs nothing more.                    *)
SendMsg3 ==
    /\ pc["ini"] = "m3"
    /\ Write("ini", Msg3(hs["ini"]))
    /\ Goto("ini", "up")
    /\ UNCHANGED <<hs, peer, sent>>

(* Session::send                                                           *)
Send(e) ==
    /\ pc[e] = "up"
    /\ Len(sent[e]) < MaxSent[e]
    /\ \E body \in Bodies :
          /\ BodyLen[body] + 16 <= NoiseMsgMax
          /\ Write(e, Data(hs[e], e, Len(sent[e]), body))
          /\ sent' = [sent EXCEPT ![e] = Append(@, body)]
    /\ UNCHANGED <<pc, hs, peer>>

(* inner.send_bytes of one bundle.                                         *)
Gone(e) == pc[e] \in {"closed", "failed"}

(* Fault: the last bundle is left in a buffer nobody flushes.              *)
EmitUnflushed(e) ==
    /\ Len(outbox[e]) > 1
    /\ ~Gone(e)
    /\ link' = [link EXCEPT ![Other(e)] = Append(@, Head(outbox[e]))]
    /\ outbox' = [outbox EXCEPT ![e] = Tail(@)]
    /\ UNCHANGED <<kind, key, pc, hs, peer, sent, rcvd, faults, seq, pending, reader>>

Emit(e) ==
    /\ outbox[e] # <<>>
    /\ ~Gone(e)
    /\ link' = IF Gone(Other(e)) THEN link
               ELSE [link EXCEPT ![Other(e)] = Append(@, Head(outbox[e]))]
    /\ outbox' = [outbox EXCEPT ![e] = Tail(@)]
    /\ UNCHANGED <<kind, key, pc, hs, peer, sent, rcvd, faults, seq, pending, reader>>

-----------------------------------------------------------------------------
(* Receiving.                                                              *)

Awaiting(e) ==
    /\ outbox[e] = <<>>
    /\ pc[e] \in IF e = "ini" THEN {"m2", "up"} ELSE {"prefix", "m1", "m3", "up"}

(* The stream connections read a frame's length, then its body.            *)
ReadLength(e) ==
    /\ kind = "stream"
    /\ Awaiting(e)
    /\ link[e] # <<>>
    /\ reader[e] = "length"
    /\ reader' = [reader EXCEPT ![e] = "body"]
    /\ UNCHANGED <<kind, key, pc, hs, peer, sent, rcvd, faults, seq, pending, outbox, link>>

(* An error: of the responder's task, of initiate, or of the initiator's   *)
(* receive, after which it may drop the session or go on with it.          *)
Fail(e) ==
    /\ pc' \in {[pc EXCEPT ![e] = "failed"]}
               \cup IF e = "ini" /\ pc[e] = "up" THEN {pc} ELSE {}
    /\ UNCHANGED <<hs, peer, rcvd>>

(* Message 1 is unauthenticated under XX: any 32 bytes are an ephemeral    *)
(* key.  Under XK it is bound to the responder's static key.               *)
Msg1Reads(p, m) ==
    IF p = "XX" THEN m.t # "prefix"
    ELSE m.t = "m1" /\ m.pat = "XK" /\ m.to = "right"
EphemeralOf(p, m) == IF m.t = "m1" /\ m.pat = p THEN m.e ELSE "junk"

(* Fault: the nonce of a message is not checked.                           *)
DataReadsAnyNonce(e, m) == m.t = "data" /\ m.h = hs[e] /\ m.from = Other(e)

(* A message's tag binds the handshake, the direction and the nonce.       *)
DataReads(e, m) ==
    /\ m.t = "data"
    /\ m.h = hs[e] /\ m.from = Other(e)
    /\ m.n = Len(rcvd[e])

(* respond, and Session::recv of either end: what becomes of payload m.    *)
(* The prefix is a first byte of 0 or 1, whatever follows it, and any      *)
(* ciphertext may begin with one.                                          *)
ReadPrefix(e, m) ==
    /\ pc[e] = "prefix"
    /\ \/ /\ \E p \in IF m.t = "prefix" THEN {m.pat} ELSE {"XX", "XK"} :
                hs' = [hs EXCEPT ![e].pat = p]
          /\ Goto(e, "m1")
          /\ UNCHANGED <<peer, rcvd>>
       \/ m.t # "prefix" /\ Fail(e)

ReadMsg1(e, m) ==
    /\ pc[e] = "m1"
    /\ IF Msg1Reads(hs[e].pat, m)
       THEN /\ Goto(e, "m2")
            /\ hs' = [hs EXCEPT ![e].e = EphemeralOf(hs[e].pat, m), ![e].r = "now"]
            /\ UNCHANGED <<peer, rcvd>>
       ELSE Fail(e)

ReadMsg2(e, m) ==
    /\ pc[e] = "m2"
    /\ IF m.t = "m2" /\ m.h.pat = Pattern /\ m.h.e = "now"
       THEN /\ Goto(e, "m3")
            /\ hs' = [hs EXCEPT ![e] = m.h]
            /\ peer' = [peer EXCEPT ![e] = "res"]
            /\ UNCHANGED rcvd
       ELSE Fail(e)

(* Fault: message 3 of any handshake is as good.                           *)
ReadMsg3AnyHandshake(e, m) ==
    /\ pc[e] = "m3"
    /\ IF m.t = "m3"
       THEN Goto(e, "up") /\ peer' = [peer EXCEPT ![e] = "ini"] /\ UNCHANGED <<hs, rcvd>>
       ELSE Fail(e)

ReadMsg3(e, m) ==
    /\ pc[e] = "m3"
    /\ IF m = Msg3(hs[e])
       THEN Goto(e, "up") /\ peer' = [peer EXCEPT ![e] = "ini"] /\ UNCHANGED <<hs, rcvd>>
       ELSE Fail(e)

ReadData(e, m) ==
    /\ pc[e] = "up"
    /\ IF DataReads(e, m)
       THEN rcvd' = [rcvd EXCEPT ![e] = Append(@, m.body)] /\ UNCHANGED <<pc, hs, peer>>
       ELSE Fail(e)

Read(e, m) ==
    IF e = "res" THEN ReadPrefix(e, m) \/ ReadMsg1(e, m) \/ ReadMsg3(e, m) \/ ReadData(e, m)
    ELSE ReadMsg2(e, m) \/ ReadData(e, m)

(* One packet arrives.  A stream that lost its place yields no bundle.     *)
Deliver(e) ==
    /\ Awaiting(e)
    /\ link[e] # <<>>
    /\ kind = "stream" => reader[e] # "length"
    /\ link' = [link EXCEPT ![e] = Tail(@)]
    /\ IF reader[e] = "lost"
       THEN Fail(e) /\ UNCHANGED <<pending, reader>>
       ELSE LET r == RecvBundle(pending[e], Head(link[e])) IN
            /\ pending' = [pending EXCEPT ![e] = r.pending]
            /\ reader' = [reader EXCEPT ![e] = "length"]
            /\ IF r.payload = Nothing THEN UNCHANGED <<pc, hs, peer, rcvd>> ELSE Read(e, r.payload)
    /\ UNCHANGED <<kind, key, sent, faults, seq, outbox>>

(* The initiator's task ends: try_connect closes the session, try_send     *)
(* drops it.  What a stream has not delivered by then may be lost.         *)
Close ==
    /\ pc["ini"] = "up"
    /\ outbox["ini"] = <<>>
    /\ Goto("ini", "closed")
    /\ \E n \in 0..Len(link["res"]) :
          /\ kind = "radio" => n = Len(link["res"])
          /\ link' = [link EXCEPT !["res"] = SubSeq(@, 1, n)]
    /\ UNCHANGED <<kind, key, hs, peer, sent, rcvd, faults, seq, pending, outbox, reader>>

(* A stream tells the other end; an end that is sending fails there.       *)
EndOfStream(e) ==
    /\ kind = "stream"
    /\ Gone(Other(e)) /\ ~Gone(e)
    /\ link[e] = <<>> \/ outbox[e] # <<>>
    /\ Goto(e, "closed")
    /\ UNCHANGED <<kind, key, hs, peer, sent, rcvd, faults, netVars>>

-----------------------------------------------------------------------------
(* Faults.                                                                 *)

Fault ==
    /\ faults < MaxFaults
    /\ faults' = faults + 1
    /\ UNCHANGED <<kind, key, hs, peer, sent, rcvd, seq, pending, outbox>>

(* The packets of an earlier connection, still in the air: both ends had   *)
(* got as far as their first message.                                      *)
OldHandshake == [pat |-> "XX", e |-> "old", r |-> "old"]
OldPackets(e) ==
    LET Of(s, m) == Range(SendBytes(s, m, MsgLen(m), Mtu)) IN
    (UNION {Of(IF e = "res" THEN 3 ELSE 1, Data(OldHandshake, Other(e), 0, b)) : b \in Bodies})
    \cup IF e = "ini" THEN Of(0, Msg2(OldHandshake))
         ELSE Of(0, Prefix("XX")) \cup Of(1, Msg1("XX", "old", "none")) \cup Of(2, Msg3(OldHandshake))

(* Packet i taken out of the queue s, and p put into it as its i-th:       *)
(* SequencesExt has them too, with more than the proofs should carry.      *)
RemoveAt(s, i) == SubSeq(s, 1, i - 1) \o SubSeq(s, i + 1, Len(s))
InsertAt(s, i, p) == SubSeq(s, 1, i - 1) \o <<p>> \o SubSeq(s, i, Len(s))

(* A radio loses a packet, delivers it again, delivers the next one first, *)
(* or brings an old one.                                                   *)
RadioFault(e) ==
    /\ kind = "radio"
    /\ Fault
    /\ ~Gone(e)
    /\ \E i \in 0..Len(link[e]) :
          \/ i > 0 /\ link' = [link EXCEPT ![e] = RemoveAt(@, i)]
          \/ i > 0 /\ link' = [link EXCEPT ![e] = Append(@, @[i])]
          \/ i > 1 /\ link' = [link EXCEPT ![e] = InsertAt(RemoveAt(@, i), 1, @[i])]
          \/ \E p \in OldPackets(e) : link' = [link EXCEPT ![e] = InsertAt(@, i + 1, p)]
    /\ UNCHANGED <<pc, reader>>

(* A stream breaks: both ends get an error.                                *)
Break ==
    /\ kind = "stream"
    /\ Fault
    /\ pc' = [e \in End |-> IF Gone(e) THEN pc[e] ELSE "failed"]
    /\ link' = [e \in End |-> <<>>]
    /\ UNCHANGED reader

(* tokio::time::timeout drops the initiator's receive (router.rs, try_send *)
(* and try_connect).  A frame whose length was read is no longer found.    *)
Timeout ==
    /\ pc["ini"] = "up"
    /\ Awaiting("ini")
    /\ Fault
    /\ reader' = [reader EXCEPT !["ini"] = IF @ = "body" THEN "lost" ELSE @]
    /\ UNCHANGED <<pc, link>>

-----------------------------------------------------------------------------
Progress(e) == Emit(e) \/ ReadLength(e) \/ Deliver(e) \/ EndOfStream(e)
HandshakeSend == SendPrefix \/ SendMsg1 \/ SendMsg2 \/ SendMsg3

Next ==
    \/ HandshakeSend \/ Close \/ Break \/ Timeout
    \/ \E e \in End : Progress(e) \/ Send(e) \/ RadioFault(e)

Spec == Init /\ [][Next]_vars

(* Both tasks run, and packets in the air arrive.                          *)
FairSpec == Spec /\ WF_vars(HandshakeSend) /\ \A e \in End : WF_vars(Progress(e))
-----------------------------------------------------------------------------
(* Whatever the connection loses, repeats, reorders or brings from an      *)
(* earlier one, and wherever a receive is cancelled: each end knows the    *)
(* other and receives a prefix of what it sent.                            *)
Promise == INSTANCE SecureChannel
ImplementsSecureChannel == Promise!Spec

(* Two ends that are both up share one handshake, and under XK the key the *)
(* initiator started from was the responder's.                             *)
(* Every variable has its type, too.                                       *)
Agreement ==
    /\ TypeOK
    /\ pc["res"] = "up" => peer["ini"] = "res" /\ hs["res"] = hs["ini"]
    /\ peer["ini"] = "res" => key # "stale"

(* BundleLayer never drops an incomplete bundle, but it keeps one only     *)
(* while its fragments are arriving or after a fault.                      *)
PendingIsBounded ==
    \A e \in End : Cardinality(DOMAIN pending[e]) <= faults + 1

(* No bundle is larger than the MTU (bundle.rs, fragment_header_overhead: "a *)
(* conservative (never under) estimate").                                  *)
BundlesFitMtu ==
    \A e \in End : \A i \in DOMAIN outbox[e] :
        LET b == outbox[e][i] IN b.frag => FragmentSize(b.seq, b.off, b.len, b.total) <= Mtu

(* Without a fault and with the right key the handshake ends well and      *)
(* everything sent arrives, unless the initiator closes.                   *)
Calm == faults = 0 /\ key # "stale" /\ ~Gone("ini")
CalmChannelDelivers ==
    []Calm => /\ <>(pc["res"] = "up")
              /\ \A e \in End : \A n \in 1..MaxSent[e] :
                    Len(sent[e]) = n ~> Len(rcvd[Other(e)]) >= n
=============================================================================
