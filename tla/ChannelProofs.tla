----------------------------- MODULE ChannelProofs -----------------------------
(***************************************************************************)
(* Two ends of a Channel agree on their handshake, and each receives a     *)
(* prefix of what the other has sent (SecureChannel): for any MTU, any     *)
(* messages, any number of them and any number of faults.                  *)
(* And the bundles an end keeps for reassembly are bounded by the faults.  *)
(***************************************************************************)
EXTENDS Channel, TLAPS

-----------------------------------------------------------------------------
(* The inductive invariant.  Every packet on its way is of a message that  *)
(* the end it comes from wrote in this handshake, or of an earlier         *)
(* connection; and a handshake that has been passed is not changed.        *)

Message ==
    [t : {"prefix"}, pat : {"XX", "XK"}]
    \cup [t : {"m1"}, pat : {"XX", "XK"}, e : {"now", "old"}, to : {"none", "right", "stale"}]
    \cup [t : {"m2", "m3"}, h : Handshake]
    \cup [t : {"data"}, h : Handshake, from : End, n : Nat, body : Bodies]

Shaken == pc["res"] \notin {"prefix", "m1"}

(* What f may have written.                                                *)
Says(f, m) ==
    /\ m.t = "m1" /\ m.e = "now" => m.to = key
    /\ m.t = "m2" /\ m.h # OldHandshake => Shaken /\ m.h = hs["res"] /\ m.h.r = "now"
    /\ m.t = "m3" /\ m.h # OldHandshake => peer["ini"] = "res" /\ m.h = hs["ini"]
    /\ m.t = "data" /\ m.h # OldHandshake =>
          m.from = f /\ m.n < Len(sent[f]) /\ sent[f][m.n + 1] = m.body
Honest(f) == {m \in Message : Says(f, m)}

(* A sequence of bundles of messages in H.                                 *)
Carries(s, H) == \E S : s \in Seq(S) /\ \A b \in S : b.of \in H

Carried == \A e \in End : Carries(outbox[e], Honest(e)) /\ Carries(link[e], Honest(Other(e)))

Established ==
    /\ pc["ini"] \in {"m3", "up"} => peer["ini"] = "res"
    /\ pc["ini"] \in {"prefix", "m1", "m2"} => peer["ini"] = "nobody"
    /\ peer["ini"] = "res" =>
          /\ Shaken /\ hs["ini"] = hs["res"]
          /\ hs["ini"].e = "now" /\ hs["ini"].r = "now" /\ hs["ini"].pat = Pattern
    /\ ~Shaken => hs["res"].e = "junk"
    /\ pc["res"] \in {"m2", "m3", "up"} => hs["res"].r = "now"
    /\ hs["res"].e = "now" /\ hs["res"].pat = "XK" => key = "right"
    /\ pc["res"] \in {"prefix", "m1", "m2", "m3"} => peer["res"] = "nobody"
    /\ pc["res"] = "up" => peer["res"] = "ini" /\ peer["ini"] = "res"

(* Messages of the handshake that an end at step s has written.            *)
Written(e, s) ==
    IF e = "res" THEN IF s \in {"prefix", "m1", "m2"} THEN 0 ELSE 1
    ELSE CASE s = "prefix" -> 0 [] s = "m1" -> 1 [] s \in {"m2", "m3"} -> 2 [] OTHER -> 3

Counted ==
    \A e \in End :
        /\ Len(sent[e]) <= MaxSent[e]
        /\ pc[e] \in {"prefix", "m1", "m2", "m3"} => Len(sent[e]) = 0
        /\ seq[e] <= Written(e, pc[e]) + Len(sent[e])

Indexed(f) == f = [e \in End |-> f[e]]

IInv ==
    /\ TypeOK /\ Indexed(pending) /\ Indexed(outbox) /\ Indexed(link)
    /\ Established /\ Counted /\ Carried

-----------------------------------------------------------------------------
(* Sequences of bundles.                                                   *)

LEMMA CarriesMore ==
    ASSUME NEW s, NEW H, NEW G, Carries(s, H), H \subseteq G
    PROVE  Carries(s, G)
BY Zenon DEF Carries

(* Any set of bundles will do as the witness.                              *)
LEMMA CarriesSeq ==
    ASSUME NEW S, NEW H, \A b \in S : b.of \in H
    PROVE  \A s \in Seq(S) : Carries(s, H)
BY Zenon DEF Carries

LEMMA CarriesNone == ASSUME NEW H PROVE Carries(<<>>, H)
<1>1. <<>> \in Seq({}) /\ \A b \in {} : b.of \in H
    OBVIOUS
<1> QED
    BY <1>1, CarriesSeq, Zenon

LEMMA CarriesParts ==
    ASSUME NEW s, NEW H, Carries(s, H)
    PROVE  /\ Len(s) \in Nat
           /\ s # <<>> => Head(s).of \in H /\ Carries(Tail(s), H)
           /\ \A n \in 0..Len(s) : Carries(SubSeq(s, 1, n), H)
           /\ \A i \in 1..Len(s) : s[i].of \in H /\ Carries(RemoveAt(s, i), H)
<1>1. PICK S : s \in Seq(S) /\ \A b \in S : b.of \in H
    BY Zenon DEF Carries
<1>2. s # <<>> => Head(s) \in S /\ Tail(s) \in Seq(S)
    BY <1>1
<1>3. ASSUME NEW n \in 0..Len(s) PROVE SubSeq(s, 1, n) \in Seq(S)
    BY <1>1
<1>4. ASSUME NEW i \in 1..Len(s) PROVE s[i] \in S /\ RemoveAt(s, i) \in Seq(S)
    <2>1. SubSeq(s, 1, i - 1) \in Seq(S) /\ SubSeq(s, i + 1, Len(s)) \in Seq(S)
        BY <1>1
    <2> QED
        BY <1>1, <2>1 DEF RemoveAt
<1>5. \A u \in Seq(S) : Carries(u, H)
    BY <1>1, CarriesSeq, Zenon
<1>6. s # <<>> => Head(s).of \in H /\ Carries(Tail(s), H)
    BY <1>1, <1>2, <1>5, Zenon
<1>7. \A n \in 0..Len(s) : Carries(SubSeq(s, 1, n), H)
    BY <1>3, <1>5, Zenon
<1>8. \A i \in 1..Len(s) : s[i].of \in H /\ Carries(RemoveAt(s, i), H)
    BY <1>1, <1>4, <1>5, Zenon
<1>9. Len(s) \in Nat
    BY <1>1
<1> QED
    BY <1>6, <1>7, <1>8, <1>9, Zenon

LEMMA CarriesOneMore ==
    ASSUME NEW s, NEW H, Carries(s, H), NEW b, b.of \in H
    PROVE  /\ Carries(Append(s, b), H)
           /\ \A i \in 1..(Len(s) + 1) : Carries(InsertAt(s, i, b), H)
<1>1. PICK S : s \in Seq(S) /\ \A c \in S : c.of \in H
    BY Zenon DEF Carries
<1> DEFINE T == S \cup {b}
<1>2. s \in Seq(T) /\ b \in T /\ \A c \in T : c.of \in H
    BY <1>1
<1> HIDE DEF T
<1>3. Append(s, b) \in Seq(T)
    BY <1>2
<1>4. ASSUME NEW i \in 1..(Len(s) + 1) PROVE InsertAt(s, i, b) \in Seq(T)
    <2>1. SubSeq(s, 1, i - 1) \in Seq(T) /\ SubSeq(s, i, Len(s)) \in Seq(T) /\ <<b>> \in Seq(T)
        BY <1>2
    <2> QED
        BY <2>1 DEF InsertAt
<1> QED
    BY <1>2, <1>3, <1>4, Zenon DEF Carries

-----------------------------------------------------------------------------
(* BundleLayer: what is sent, and what is received.                        *)

LEMMA SentBundles ==
    ASSUME NEW q \in Nat, NEW x, NEW total \in Nat, NEW H, x \in H
    PROVE  LET s == SendBytes(q, x, total, Mtu) IN
           /\ Carries(s, H)
           /\ \A i \in DOMAIN s : FitsWhole(s[i].seq, s[i].total, Mtu) = ~s[i].frag
<1> DEFINE s == SendBytes(q, x, total, Mtu)
           max == MaxPayload(q, total, Mtu)
           C(i) == Bundle(TRUE, q, (i - 1) * max, Min({max, total - (i - 1) * max}), total, x)
           W == Bundle(FALSE, q, 0, total, total, x)
<1>1. CASE FitsWhole(q, total, Mtu)
    <2>1. s = <<W>>
        BY <1>1, Zenon DEF SendBytes
    <2>2. W.of = x /\ W.frag = FALSE /\ W.seq = q /\ W.total = total
        BY Zenon DEF Bundle
    <2> HIDE DEF W, s
    <2>3. s \in Seq({W}) /\ \A i \in DOMAIN s : s[i] = W
        BY <2>1
    <2>4. \A b \in {W} : b.of \in H
        BY <2>2, Zenon
    <2>5. Carries(s, H)
        BY <2>3, <2>4, CarriesSeq, Zenon
    <2>6. \A i \in DOMAIN s : FitsWhole(s[i].seq, s[i].total, Mtu) = ~s[i].frag
        BY <1>1, <2>2, <2>3, Zenon
    <2> QED
        BY <2>5, <2>6, Zenon DEF s
<1>2. CASE ~FitsWhole(q, total, Mtu) /\ max = 0
    <2>1. s = <<>>
        BY <1>2, Zenon DEF SendBytes
    <2>2. DOMAIN <<>> = {}
        OBVIOUS
    <2> HIDE DEF s
    <2> QED
        BY <2>1, <2>2, CarriesNone, Zenon DEF s
<1>3. CASE ~FitsWhole(q, total, Mtu) /\ max # 0
    <2>1. s = [i \in 1..Chunks(q, total, Mtu) |-> C(i)]
        BY <1>3, Zenon DEF SendBytes
    <2>2. \A i : C(i).of = x /\ C(i).frag = TRUE /\ C(i).seq = q /\ C(i).total = total
        BY Zenon DEF Bundle
    <2>3. Chunks(q, total, Mtu) \in Int
        <3>1. \A n \in Nat : HeadLen(n) \in Nat
            BY DEF HeadLen
        <3>2. FragmentOverhead(q, total) \in Nat
            BY <3>1 DEF FragmentOverhead, FragmentSize, WholeSize, Header
        <3> DEFINE d == Mtu - FragmentOverhead(q, total)
        <3>3. d \in Int /\ max = Max({0, d})
            BY <3>2, SizesType DEF MaxPayload
        <3> HIDE DEF d
        <3>4. Max({0, d}) \in {0, d} /\ Max({0, d}) >= 0
            <4>1. \E y \in {0, d} : \A z \in {0, d} : y >= z
                BY <3>3
            <4> QED
                BY <4>1, Zenon DEF Max
        <3>5. max \in Nat \ {0}
            BY <1>3, <3>3, <3>4
        <3>6. Chunks(q, total, Mtu) = (total + max - 1) \div max
            BY Zenon DEF Chunks
        <3> HIDE DEF max
        <3> QED
            BY <3>5, <3>6
    <2> DEFINE S == {b \in {C(i) : i \in 1..Chunks(q, total, Mtu)} : TRUE}
    <2> HIDE DEF C, s
    <2>4. s \in Seq(S) /\ \A i \in DOMAIN s : s[i] \in S
        BY <2>1, <2>3
    <2>5. \A b \in S : b.of = x /\ b.frag = TRUE /\ b.seq = q /\ b.total = total
        BY <2>2, Zenon
    <2> HIDE DEF S
    <2>6. Carries(s, H)
        BY <2>4, <2>5, CarriesSeq, Zenon
    <2>7. \A i \in DOMAIN s : FitsWhole(s[i].seq, s[i].total, Mtu) = ~s[i].frag
        <3> SUFFICES ASSUME NEW i \in DOMAIN s PROVE FitsWhole(s[i].seq, s[i].total, Mtu) = ~s[i].frag
            BY Zenon
        <3>1. s[i].frag = TRUE /\ s[i].seq = q /\ s[i].total = total
            BY <2>4, <2>5, Zenon
        <3>2. FitsWhole(s[i].seq, s[i].total, Mtu) = FALSE
            BY <1>3, <3>1, Zenon DEF FitsWhole
        <3> QED
            BY <3>1, <3>2, Zenon
    <2> QED
        BY <2>6, <2>7, Zenon DEF s
<1> QED
    BY <1>1, <1>2, <1>3, Zenon

LEMMA ReceivedBundle ==
    ASSUME NEW p, NEW b
    PROVE  LET r == RecvBundle(p, b) IN
           /\ r.payload \in {Nothing, Garbled, b.of}
           /\ (\A s \in DOMAIN p : ~IsComplete(p[s])) => \A s \in DOMAIN r.pending : ~IsComplete(r.pending[s])
<1> DEFINE r == RecvBundle(p, b)
           entry == Stored(p, b)
<1>1. Reassemble(entry) \in {Garbled, b.of}
    <2> DEFINE F == entry.fragments
               first == F[Min(DOMAIN F)]
    <2>1. b.off \in DOMAIN F /\ F[b.off] = b
        BY Zenon DEF Stored, Put
    <2> HIDE DEF F
    <2>2. Reassemble(entry) = Garbled \/ (Reassemble(entry) = first.of /\ \A o \in DOMAIN F : F[o].of = first.of)
        BY Zenon DEF Reassemble, F
    <2> HIDE DEF first
    <2> QED
        BY <2>1, <2>2, Zenon
<1> HIDE DEF entry
<1>2. CASE ~b.frag
    BY <1>2, Zenon DEF RecvBundle
<1>3. CASE b.frag /\ IsComplete(entry)
    <2>1. r = [pending |-> Without(p, b.seq), payload |-> Reassemble(entry)]
        BY <1>3, Zenon DEF RecvBundle, entry
    <2> HIDE DEF r
    <2> QED
        BY <1>1, <2>1 DEF Without, r
<1>4. CASE b.frag /\ ~IsComplete(entry)
    <2>1. r = [pending |-> Put(p, b.seq, entry), payload |-> Nothing]
        BY <1>4, Zenon DEF RecvBundle, entry
    <2> HIDE DEF r
    <2> QED
        BY <1>4, <2>1 DEF Put, r
<1> QED
    BY <1>2, <1>3, <1>4, Zenon

-----------------------------------------------------------------------------
(* The initial states.                                                     *)

LEMMA HandshakeFacts ==
    /\ OldHandshake \in Handshake /\ NoHandshake \in Handshake
    /\ OldHandshake.e = "old" /\ OldHandshake.r = "old"
    /\ NoHandshake.e = "junk"
BY Zenon DEF OldHandshake, NoHandshake, Handshake

LEMMA InitHolds == Init => IInv
<1> SUFFICES ASSUME Init PROVE IInv
    BY Zenon
<1>1. /\ \A e \in End : /\ pc[e] = "prefix" /\ hs[e] = NoHandshake /\ peer[e] = "nobody" /\ seq[e] = 0
                        /\ outbox[e] = <<>> /\ link[e] = <<>> /\ sent[e] = <<>> /\ rcvd[e] = <<>> /\ pending[e] = <<>>
      /\ "ini" \in End /\ "res" \in End /\ faults = 0
    BY Zenon DEF Init, End
<1>2. MaxSent["ini"] \in Nat /\ MaxSent["res"] \in Nat /\ MaxFaults \in Nat
    BY <1>1, BoundsType, Zenon
<1>3. TypeOK
    <2>1. /\ pc \in [End -> {"prefix", "m1", "m2", "m3", "up", "closed", "failed"}] /\ hs \in [End -> Handshake]
          /\ peer \in [End -> {"nobody", "ini", "res"}] /\ reader \in [End -> {"length", "body", "lost"}]
        BY HandshakeFacts, Zenon DEF Init
    <2>2. seq \in [End -> 0..(3 + MaxSent["ini"] + MaxSent["res"])] /\ faults \in 0..MaxFaults
        BY <1>2 DEF Init
    <2>3. /\ DOMAIN <<>> = {} /\ sent \in [End -> Seq(Bodies)] /\ rcvd \in [End -> Seq(Bodies)]
        BY DEF Init
    <2> QED
        BY <1>1, <2>1, <2>2, <2>3, Zenon DEF Init, TypeOK
<1>4. Established
    BY <1>1, HandshakeFacts, Zenon DEF Established, Shaken
<1>5. Counted
    <2>1. ASSUME NEW e \in End PROVE Len(sent[e]) = 0 /\ MaxSent[e] \in Nat /\ Written(e, pc[e]) = 0 /\ seq[e] = 0
        BY <1>1, BoundsType, Zenon DEF Written, End
    <2> QED
        BY <2>1 DEF Counted
<1>6. Carried
    BY <1>1, CarriesNone, Zenon DEF Carried
<1> QED
    BY <1>3, <1>4, <1>5, <1>6, Zenon DEF IInv, Init, Indexed

-----------------------------------------------------------------------------
(* What was honest stays so: handshakes that were passed do not change,    *)
(* and messages sent are not taken back.                                   *)

Extends(s, u) == Len(s) \in Nat /\ Len(u) \in Nat /\ Len(s) <= Len(u) /\ \A i \in 1..Len(s) : u[i] = s[i]

Grows ==
    /\ key' = key
    /\ Shaken => Shaken' /\ hs'["res"] = hs["res"]
    /\ peer["ini"] = "res" => peer'["ini"] = "res" /\ hs'["ini"] = hs["ini"]
    /\ \A f \in End : Extends(sent[f], sent'[f])

LEMMA HonestGrows ==
    ASSUME Grows, NEW f \in End
    PROVE  Honest(f) \subseteq Honest(f)'
<1> SUFFICES ASSUME NEW m \in Message, Says(f, m) PROVE Says(f, m)'
    BY Zenon DEF Honest
<1>1. m.t = "m1" /\ m.e = "now" => m.to = key'
    BY Zenon DEF Says, Grows
<1>2. m.t = "m2" /\ m.h # OldHandshake => Shaken' /\ m.h = hs'["res"] /\ m.h.r = "now"
    BY Zenon DEF Says, Grows
<1>3. m.t = "m3" /\ m.h # OldHandshake => peer'["ini"] = "res" /\ m.h = hs'["ini"]
    BY Zenon DEF Says, Grows
<1>4. ASSUME m.t = "data", m.h # OldHandshake
      PROVE  m.from = f /\ m.n < Len(sent'[f]) /\ sent'[f][m.n + 1] = m.body
    <2>1. m.n \in Nat
        <3>1. m \in [t : {"data"}, h : Handshake, from : End, n : Nat, body : Bodies]
            BY <1>4, Zenon DEF Message
        <3> QED
            BY <3>1, Zenon
    <2>2. m.from = f /\ m.n < Len(sent[f]) /\ sent[f][m.n + 1] = m.body
        BY <1>4, Zenon DEF Says
    <2>3. /\ Len(sent[f]) \in Nat /\ Len(sent'[f]) \in Nat /\ Len(sent[f]) <= Len(sent'[f])
          /\ \A i \in 1..Len(sent[f]) : sent'[f][i] = sent[f][i]
        BY Zenon DEF Grows, Extends
    <2>4. m.n + 1 \in 1..Len(sent[f]) /\ m.n < Len(sent'[f])
        BY <2>1, <2>2, <2>3
    <2> QED
        BY <2>2, <2>3, <2>4, Zenon
<1> QED
    BY <1>1, <1>2, <1>3, <1>4, Zenon DEF Says

(* Steps that leave the messages as they are.                              *)
LEMMA SameSent ==
    ASSUME TypeOK, UNCHANGED sent
    PROVE  \A f \in End : Extends(sent[f], sent'[f])
<1> SUFFICES ASSUME NEW f \in End PROVE Extends(sent[f], sent[f])
    BY Zenon
<1>1. Len(sent[f]) \in Nat
    BY DEF TypeOK
<1> QED
    BY <1>1 DEF Extends

LEMMA LengthOfMessage == ASSUME NEW m \in Message PROVE MsgLen(m) \in Nat
<1>1. CASE m.t = "data"
    <2>1. m.body \in Bodies
        BY <1>1, Zenon DEF Message
    <2> QED
        BY <1>1, <2>1, SizesType DEF MsgLen
<1>2. CASE m.t # "data"
    <2>1. m.t \in {"prefix", "m1", "m2", "m3"}
        BY <1>2, Zenon DEF Message
    <2> QED
        BY <2>1, Zenon DEF MsgLen
<1> QED
    BY <1>1, <1>2, Zenon

-----------------------------------------------------------------------------
(* An end writes.                                                          *)

WholeOrFragment(s) == \A i \in DOMAIN s : FitsWhole(s[i].seq, s[i].total, Mtu) = ~s[i].frag

LEMMA Writes ==
    ASSUME IInv, Grows, NEW e \in End, NEW m \in Message, Write(e, m), Says(e, m)'
    PROVE  /\ Carried' /\ \A f \in End : WholeOrFragment(outbox'[f])
           /\ Indexed(outbox)' /\ UNCHANGED <<pending, link>>
<1> DEFINE s == SendBytes(seq[e], m, MsgLen(m), Mtu)
<1>1. MsgLen(m) \in Nat /\ seq[e] \in Nat
    BY LengthOfMessage DEF IInv, TypeOK
<1>2. m \in Honest(e)'
    BY Zenon DEF Honest
<1>3. Carries(s, Honest(e)') /\ WholeOrFragment(s)
    BY <1>1, <1>2, SentBundles, Zenon DEF WholeOrFragment
<1> HIDE DEF s
<1>4. outbox'[e] = s /\ link' = link /\ \A f \in End \ {e} : outbox'[f] = outbox[f]
    BY Zenon DEF Write, s, IInv, Indexed
<1>5. ASSUME NEW f \in End
      PROVE  Carries(outbox'[f], Honest(f)') /\ Carries(link'[f], Honest(Other(f))') /\ WholeOrFragment(outbox'[f])
    <2>1. Other(f) \in End
        BY Zenon DEF Other, End
    <2>2. Carries(link[f], Honest(Other(f))')
        BY <2>1, HonestGrows, CarriesMore, Zenon DEF IInv, Carried
    <2>3. Carries(outbox[f], Honest(f)') /\ WholeOrFragment(outbox[f])
        BY HonestGrows, CarriesMore, ZenonT(40) DEF IInv, Carried, TypeOK, WholeOrFragment
    <2> QED
        BY <1>3, <1>4, <2>2, <2>3, Zenon
<1> QED
    BY <1>5, Zenon DEF Carried, Write, IInv, Indexed

LEMMA WrittenType == ASSUME NEW e, NEW s PROVE Written(e, s) \in 0..3
BY DEF Written

LEMMA WriteHolds ==
    ASSUME IInv, Grows, NEW e \in End, NEW m \in Message, Write(e, m), Says(e, m)', UNCHANGED <<hs, peer>>,
           pc' \in [End -> {"prefix", "m1", "m2", "m3", "up", "closed", "failed"}],
           sent' \in [End -> Seq(Bodies)], Established', Counted'
    PROVE  IInv'
<1>1. /\ Carried' /\ \A f \in End : WholeOrFragment(outbox'[f])
      /\ Indexed(outbox)' /\ UNCHANGED <<pending, link>>
    BY Writes, Zenon
<1>2. seq' \in [End -> 0..(3 + MaxSent["ini"] + MaxSent["res"])]
    <2>1. seq' \in [End -> Nat]
        BY DEF Write, IInv, TypeOK
    <2>2. ASSUME NEW f \in End PROVE seq'[f] <= 3 + MaxSent["ini"] + MaxSent["res"]
        <3>1. MaxSent["ini"] \in Nat /\ MaxSent["res"] \in Nat /\ MaxSent[f] \in {MaxSent["ini"], MaxSent["res"]}
            BY BoundsType, Zenon DEF End
        <3>2. Written(f, pc'[f]) \in 0..3
            BY WrittenType, Zenon
        <3>3. seq'[f] <= Written(f, pc'[f]) + Len(sent'[f]) /\ Len(sent'[f]) <= MaxSent[f]
            BY Zenon DEF Counted
        <3>4. Len(sent'[f]) \in Nat /\ seq'[f] \in Nat
            BY <2>1
        <3> QED
            BY <3>1, <3>2, <3>3, <3>4, SMTT(30)
    <2>3. ASSUME NEW f \in End PROVE seq'[f] \in 0..(3 + MaxSent["ini"] + MaxSent["res"])
        <3>1. MaxSent["ini"] \in Nat /\ MaxSent["res"] \in Nat /\ seq'[f] \in Nat
            BY <2>1, BoundsType, Zenon DEF End
        <3> QED
            BY <2>2, <3>1
    <2> QED
        BY <2>1, <2>3, Zenon
<1>3. TypeOK'
    <2>1. UNCHANGED <<kind, key, hs, peer, rcvd, faults, pending, reader>>
        BY Zenon DEF Write
    <2> QED
        BY <1>1, <1>2, <2>1, Zenon DEF IInv, TypeOK, WholeOrFragment
<1> QED
    BY <1>1, <1>3, Zenon DEF IInv, Indexed

LEMMA HandshakeSendHolds == IInv /\ HandshakeSend => IInv'
<1> SUFFICES ASSUME IInv, HandshakeSend PROVE IInv'
    BY Zenon
<1> USE DEF IInv
<1>0. "ini" \in End /\ "res" \in End
    BY Zenon DEF End
<1>1. UNCHANGED <<kind, key, hs, peer, sent>> /\ sent \in [End -> Seq(Bodies)]
    BY Zenon DEF HandshakeSend, SendPrefix, SendMsg1, SendMsg2, SendMsg3, Write, TypeOK
<1>2. pc' \in [End -> {"prefix", "m1", "m2", "m3", "up", "closed", "failed"}]
    BY ZenonT(40) DEF HandshakeSend, SendPrefix, SendMsg1, SendMsg2, SendMsg3, Goto, TypeOK
<1>3. Pattern \in {"XX", "XK"} /\ key \in {"none", "right", "stale"} /\ hs["ini"] \in Handshake /\ hs["res"] \in Handshake
    BY <1>0, KeysType, Zenon DEF Pattern, TypeOK
<1>4. Shaken => Shaken'
    BY <1>0, ZenonT(40) DEF HandshakeSend, SendPrefix, SendMsg1, SendMsg2, SendMsg3, Goto, TypeOK, Shaken
<1>5. Grows
    BY <1>1, <1>4, SameSent, Zenon DEF Grows
<1>6. Established'
    <2>1. CASE SendPrefix \/ SendMsg1 \/ SendMsg3
        <3>1. pc'["res"] = pc["res"] /\ pc["ini"] \in {"prefix", "m1", "m3"} /\ pc'["ini"] \in {"m1", "m2", "up"}
              /\ (pc'["ini"] = "up" => pc["ini"] = "m3") /\ (pc'["ini"] # "up" => pc["ini"] # "m3")
            BY <1>0, <2>1, ZenonT(40) DEF SendPrefix, SendMsg1, SendMsg3, Goto, TypeOK
        <3> QED
            BY <1>1, <3>1, Zenon DEF Established, Shaken, Pattern
    <2>2. CASE SendMsg2
        <3>1. pc'["ini"] = pc["ini"] /\ pc["res"] = "m2" /\ pc'["res"] = "m3"
            BY <1>0, <2>2, Zenon DEF SendMsg2, Goto, TypeOK
        <3> QED
            BY <1>1, <3>1, Zenon DEF Established, Shaken, Pattern
    <2> QED
        BY <2>1, <2>2, Zenon DEF HandshakeSend
<1>7. ASSUME NEW e \in End, NEW m, Write(e, m), pc[e] \in {"prefix", "m1", "m2", "m3"},
             Written(e, pc'[e]) = Written(e, pc[e]) + 1, \A f \in End \ {e} : pc'[f] = pc[f]
      PROVE  Counted'
    <2> SUFFICES ASSUME NEW f \in End
                 PROVE  /\ Len(sent[f]) <= MaxSent[f]
                        /\ pc'[f] \in {"prefix", "m1", "m2", "m3"} => Len(sent[f]) = 0
                        /\ seq'[f] <= Written(f, pc'[f]) + Len(sent[f])
        BY <1>1, Zenon DEF Counted
    <2>1. CASE f # e
        <3>1. seq'[f] = seq[f] /\ pc'[f] = pc[f]
            BY <1>7, <2>1, Zenon DEF Write, TypeOK
        <3> QED
            BY <3>1, Zenon DEF Counted
    <2>2. CASE f = e
        <3>1. seq'[f] = seq[f] + 1 /\ seq[f] \in Nat /\ Len(sent[f]) = 0 /\ Len(sent[f]) <= MaxSent[f]
            BY <1>7, <2>2 DEF Write, TypeOK, Counted
        <3>2. seq[f] <= Written(f, pc[f]) + Len(sent[f]) /\ Written(f, pc[f]) \in 0..3
            BY WrittenType, Zenon DEF Counted
        <3> QED
            BY <1>7, <2>2, <3>1, <3>2, SMTT(30)
    <2> QED
        BY <2>1, <2>2, Zenon
<1> HIDE DEF IInv
<1>8. CASE SendPrefix
    <2>1. PICK m : m = Prefix(Pattern)
        BY Zenon
    <2>2. m \in Message /\ m.t = "prefix"
        BY <1>3, <2>1, Zenon DEF Message, Prefix
    <2>3. Says("ini", m)'
        BY <2>2, Zenon DEF Says
    <2>4. Write("ini", m)
        BY <1>8, <2>1, Zenon DEF SendPrefix
    <2>5. Counted'
        <3>1. pc["ini"] = "prefix" /\ pc'["ini"] = "m1" /\ \A f \in End \ {"ini"} : pc'[f] = pc[f]
            BY <1>0, <1>8, Zenon DEF SendPrefix, Goto, IInv, TypeOK
        <3>2. Written("ini", pc'["ini"]) = Written("ini", pc["ini"]) + 1
            BY <3>1 DEF Written
        <3> QED
            BY <1>0, <1>7, <2>4, <3>1, <3>2, Zenon
    <2> QED
        BY <1>0, <1>1, <1>2, <1>5, <1>6, <2>2, <2>3, <2>4, <2>5, WriteHolds, Zenon
<1>9. CASE SendMsg1
    <2>1. PICK m : m = Msg1(Pattern, "now", key)
        BY Zenon
    <2>2. m \in Message /\ m.t = "m1" /\ m.to = key
        BY <1>3, <2>1, Zenon DEF Message, Msg1
    <2>3. Says("ini", m)'
        BY <1>1, <2>2, Zenon DEF Says
    <2>4. Write("ini", m)
        BY <1>9, <2>1, Zenon DEF SendMsg1
    <2>5. Counted'
        <3>1. pc["ini"] = "m1" /\ pc'["ini"] = "m2" /\ \A f \in End \ {"ini"} : pc'[f] = pc[f]
            BY <1>0, <1>9, Zenon DEF SendMsg1, Goto, IInv, TypeOK
        <3>2. Written("ini", pc'["ini"]) = Written("ini", pc["ini"]) + 1
            BY <3>1 DEF Written
        <3> QED
            BY <1>0, <1>7, <2>4, <3>1, <3>2, Zenon
    <2> QED
        BY <1>0, <1>1, <1>2, <1>5, <1>6, <2>2, <2>3, <2>4, <2>5, WriteHolds, Zenon
<1>10. CASE SendMsg2
    <2>1. Msg2(hs["res"]) \in Message
        BY <1>3, Zenon DEF Message, Msg2
    <2>2. pc["res"] = "m2" /\ pc'["res"] = "m3" /\ hs["res"].r = "now"
        BY <1>0, <1>10, Zenon DEF SendMsg2, Goto, IInv, TypeOK, Established
    <2>3. Says("res", Msg2(hs["res"]))'
        BY <1>1, <2>2, Zenon DEF Says, Msg2, Shaken
    <2>4. Counted'
        BY <1>0, <1>7, <1>10 DEF SendMsg2, Goto, Written, IInv, TypeOK
    <2> QED
        BY <1>0, <1>1, <1>2, <1>5, <1>6, <1>10, <2>1, <2>3, <2>4, WriteHolds, Zenon DEF SendMsg2
<1>11. CASE SendMsg3
    <2>1. Msg3(hs["ini"]) \in Message
        BY <1>3, Zenon DEF Message, Msg3
    <2>2. peer["ini"] = "res"
        BY <1>11, Zenon DEF SendMsg3, IInv, Established
    <2>3. Says("ini", Msg3(hs["ini"]))'
        BY <1>1, <2>2, Zenon DEF Says, Msg3
    <2>4. Counted'
        BY <1>0, <1>7, <1>11, SMTT(30) DEF SendMsg3, Goto, Written, IInv, TypeOK
    <2> QED
        BY <1>0, <1>1, <1>2, <1>5, <1>6, <1>11, <2>1, <2>3, <2>4, WriteHolds, Zenon DEF SendMsg3
<1> QED
    BY <1>8, <1>9, <1>10, <1>11, Zenon DEF HandshakeSend

LEMMA SendHolds == ASSUME IInv, NEW e \in End, Send(e) PROVE IInv'
<1> USE DEF IInv
<1>1. PICK body \in Bodies :
          /\ Write(e, Data(hs[e], e, Len(sent[e]), body))
          /\ sent' = [sent EXCEPT ![e] = Append(@, body)]
    BY Zenon DEF Send
<1>2. UNCHANGED <<kind, key, pc, hs, peer>> /\ pc[e] = "up" /\ Len(sent[e]) < MaxSent[e]
    BY <1>1, Zenon DEF Send, Write
<1>3. /\ sent \in [End -> Seq(Bodies)] /\ Len(sent[e]) \in Nat /\ hs[e] \in Handshake /\ MaxSent[e] \in Nat
      /\ pc \in [End -> {"prefix", "m1", "m2", "m3", "up", "closed", "failed"}]
    BY BoundsType DEF TypeOK
<1>4. /\ sent' \in [End -> Seq(Bodies)] /\ \A f \in End \ {e} : sent'[f] = sent[f]
      /\ Len(sent'[e]) = Len(sent[e]) + 1 /\ sent'[e][Len(sent[e]) + 1] = body
      /\ \A i \in 1..Len(sent[e]) : sent'[e][i] = sent[e][i]
    <2>1. sent'[e] = Append(sent[e], body) /\ sent[e] \in Seq(Bodies)
        BY <1>1, <1>3, Zenon
    <2> QED
        BY <1>1, <1>3, <2>1, SMTT(30)
<1>5. Grows
    <2>1. ASSUME NEW f \in End PROVE Extends(sent[f], sent'[f])
        <3>1. Len(sent[f]) \in Nat /\ Len(sent'[f]) \in Nat
            BY <1>3, <1>4
        <3>2. CASE f = e
            BY <1>4, <3>1, <3>2 DEF Extends
        <3>3. CASE f # e
            BY <1>4, <3>1, <3>3, SMTT(30) DEF Extends
        <3> QED
            BY <3>2, <3>3, Zenon
    <2> QED
        BY <1>2, <2>1, Zenon DEF Grows, Shaken
<1>6. Established'
    BY <1>2, Zenon DEF Established, Shaken, Pattern
<1>7. Counted'
    <2> SUFFICES ASSUME NEW f \in End
                 PROVE  /\ Len(sent'[f]) <= MaxSent[f]
                        /\ pc[f] \in {"prefix", "m1", "m2", "m3"} => Len(sent'[f]) = 0
                        /\ seq'[f] <= Written(f, pc[f]) + Len(sent'[f])
        BY <1>2, Zenon DEF Counted
    <2>1. CASE f # e
        <3>1. seq'[f] = seq[f] /\ sent'[f] = sent[f]
            BY <1>1, <1>4, <2>1, Zenon DEF Write, TypeOK
        <3> QED
            BY <3>1, Zenon DEF Counted
    <2>2. CASE f = e
        <3>1. seq'[f] = seq[f] + 1 /\ seq[f] \in Nat
            BY <1>1, <2>2, SMTT(30) DEF Write, TypeOK
        <3>2. seq[f] <= Written(f, pc[f]) + Len(sent[f]) /\ Written(f, pc[f]) \in 0..3
            BY WrittenType, Zenon DEF Counted
        <3> QED
            BY <1>2, <1>3, <1>4, <2>2, <3>1, <3>2, SMTT(30)
    <2> QED
        BY <2>1, <2>2, Zenon
<1>8. PICK m : m = Data(hs[e], e, Len(sent[e]), body)
    BY Zenon
<1>9. m \in Message /\ Write(e, m)
    BY <1>1, <1>3, <1>8, Zenon DEF Message, Data
<1>10. Says(e, m)'
    <2>1. m.t = "data" /\ m.from = e /\ m.n = Len(sent[e]) /\ m.body = body
        BY <1>8, Zenon DEF Data
    <2>2. m.n < Len(sent'[e]) /\ sent'[e][m.n + 1] = m.body
        BY <1>3, <1>4, <2>1, SMTT(30)
    <2> QED
        BY <2>1, <2>2, Zenon DEF Says
<1> HIDE DEF IInv
<1> QED
    BY <1>2, <1>3, <1>4, <1>5, <1>6, <1>7, <1>9, <1>10, WriteHolds, Zenon

-----------------------------------------------------------------------------
(* An end reads a message.                                                 *)

(* An end that reads is neither gone nor writing, and does not count.      *)
LEMMA CountedStays ==
    ASSUME IInv, UNCHANGED <<sent, seq>>,
           \A f \in End : \/ pc'[f] = pc[f] \/ pc'[f] \in {"closed", "failed"}
                          \/ f = "res" /\ pc[f] = "prefix" /\ pc'[f] = "m1"
                          \/ f = "res" /\ pc[f] = "m1" /\ pc'[f] = "m2"
                          \/ f = "res" /\ pc[f] = "m3" /\ pc'[f] = "up"
                          \/ f = "ini" /\ pc[f] = "m2" /\ pc'[f] = "m3"
    PROVE  Counted'
<1> SUFFICES ASSUME NEW f \in End
             PROVE  /\ Len(sent[f]) <= MaxSent[f]
                    /\ pc'[f] \in {"prefix", "m1", "m2", "m3"} => Len(sent[f]) = 0
                    /\ seq[f] <= Written(f, pc'[f]) + Len(sent[f])
    BY Zenon DEF Counted
<1>1. seq[f] \in Nat /\ Len(sent[f]) \in Nat /\ Written(f, pc[f]) \in 0..3
    BY WrittenType DEF IInv, TypeOK
<1>2. /\ Len(sent[f]) <= MaxSent[f] /\ (pc[f] \in {"prefix", "m1", "m2", "m3"} => Len(sent[f]) = 0)
      /\ seq[f] <= Written(f, pc[f]) + Len(sent[f])
    BY Zenon DEF IInv, Counted
<1>3. Written(f, pc'[f]) \in 0..3 /\ Written(f, pc'[f]) >= Written(f, pc[f])
    <2>1. pc[f] \in {"prefix", "m1", "m2", "m3", "up", "closed", "failed"} /\ f \in {"ini", "res"}
        BY Zenon DEF IInv, TypeOK, End
    <2> QED
        BY <2>1 DEF Written
<1>4. pc'[f] \in {"prefix", "m1", "m2", "m3"} => pc[f] \in {"prefix", "m1", "m2", "m3"}
    BY Zenon
<1> QED
    BY <1>1, <1>2, <1>3, <1>4, SMTT(30)

ReadTypes ==
    /\ pc' \in [End -> {"prefix", "m1", "m2", "m3", "up", "closed", "failed"}]
    /\ hs' \in [End -> Handshake]
    /\ peer' \in [End -> {"nobody", "ini", "res"}]
    /\ rcvd' \in [End -> Seq(Bodies)]

(* Ends stop, or nothing happens to them.                                  *)
LEMMA StopHolds ==
    ASSUME IInv, pc' \in [End -> {"prefix", "m1", "m2", "m3", "up", "closed", "failed"}],
           \A f \in End : pc'[f] = pc[f] \/ pc'[f] \in {"closed", "failed"},
           UNCHANGED <<key, hs, peer, sent, rcvd, seq>>
    PROVE  ReadTypes /\ Grows /\ Established' /\ Counted'
<1>1. "ini" \in End /\ "res" \in End
    BY Zenon DEF End
<1>2. Established'
    BY <1>1, Zenon DEF IInv, Established, Shaken, Pattern
<1>3. Grows
    BY <1>1, SameSent, Zenon DEF Grows, Shaken, IInv
<1>4. Counted'
    BY CountedStays, Zenon
<1> QED
    BY <1>2, <1>3, <1>4, Zenon DEF ReadTypes, IInv, TypeOK

(* The read fails.                                                         *)
LEMMA FailHolds ==
    ASSUME IInv, NEW e \in End, Fail(e), UNCHANGED <<key, sent, seq>>
    PROVE  ReadTypes /\ Grows /\ Established' /\ Counted'
<1>1. /\ UNCHANGED <<hs, peer, rcvd>>
      /\ \A f \in End : pc'[f] = pc[f] \/ pc'[f] = "failed"
      /\ pc' \in [End -> {"prefix", "m1", "m2", "m3", "up", "closed", "failed"}]
    BY Zenon DEF Fail, IInv, TypeOK
<1> QED
    BY <1>1, StopHolds, Zenon

LEMMA MessageFacts ==
    ASSUME NEW m \in Message \cup {Garbled}
    PROVE  /\ m.t = "prefix" => m.pat \in {"XX", "XK"}
           /\ m.t = "m1" => m.e \in {"now", "old"}
           /\ m.t = "m2" => m.h \in Handshake
           /\ m.t = "data" => m.n \in Nat /\ m.body \in Bodies
<1>1. CASE m = Garbled
    BY <1>1, Zenon DEF Garbled
<1>2. CASE m \in [t : {"prefix"}, pat : {"XX", "XK"}]
    BY <1>2, Zenon
<1>3. CASE m \in [t : {"m1"}, pat : {"XX", "XK"}, e : {"now", "old"}, to : {"none", "right", "stale"}]
    BY <1>3, Zenon
<1>4. CASE m \in [t : {"m2", "m3"}, h : Handshake]
    BY <1>4, Zenon
<1>5. CASE m \in [t : {"data"}, h : Handshake, from : End, n : Nat, body : Bodies]
    BY <1>5, Zenon
<1> QED
    BY <1>1, <1>2, <1>3, <1>4, <1>5, Zenon DEF Message

(* What an end learns of the handshake.                                    *)
LEMMA PatternRead ==
    ASSUME NEW h \in Handshake, NEW p \in {"XX", "XK"}
    PROVE  [h EXCEPT !.pat = p] \in Handshake /\ [h EXCEPT !.pat = p].e = h.e
BY Zenon DEF Handshake

LEMMA EphemeralRead ==
    ASSUME NEW h \in Handshake, NEW x \in {"now", "old", "junk"}
    PROVE  LET g == [h EXCEPT !.e = x, !.r = "now"] IN
           g \in Handshake /\ g.e = x /\ g.r = "now" /\ g.pat = h.pat /\ h.pat \in {"XX", "XK"}
BY Zenon DEF Handshake

LEMMA ReadPrefixHolds ==
    ASSUME IInv, NEW m \in Message \cup {Garbled}, ReadPrefix("res", m), UNCHANGED <<key, sent, seq>>
    PROVE  ReadTypes /\ Grows /\ Established' /\ Counted'
<1>0. "ini" \in End /\ "res" \in End /\ "ini" # "res"
    BY Zenon DEF End
<1>1. CASE Fail("res")
    BY <1>0, <1>1, FailHolds, Zenon
<1>2. CASE ~Fail("res")
    <2>1. PICK p \in {"XX", "XK"} : hs' = [hs EXCEPT !["res"].pat = p]
        BY <1>2, MessageFacts, Zenon DEF ReadPrefix
    <2>2. pc["res"] = "prefix" /\ pc' = [pc EXCEPT !["res"] = "m1"] /\ UNCHANGED <<peer, rcvd>>
        BY <1>2, Zenon DEF ReadPrefix, Goto
    <2>3. hs'["ini"] = hs["ini"] /\ hs'["res"] = [hs["res"] EXCEPT !.pat = p] /\ hs["res"] \in Handshake
        BY <1>0, <2>1, Zenon DEF IInv, TypeOK
    <2>4. hs'["res"] \in Handshake /\ hs'["res"].e = hs["res"].e
        BY <2>3, PatternRead, ZenonT(40)
    <2>5. pc'["res"] = "m1" /\ pc'["ini"] = pc["ini"]
        BY <1>0, <2>2, Zenon DEF IInv, TypeOK
    <2>6. ReadTypes
        BY <1>0, <2>1, <2>2, <2>4, Zenon DEF ReadTypes, IInv, TypeOK
    <2>7. ~Shaken /\ peer["ini"] # "res" /\ hs["res"].e = "junk"
        BY <2>2, Zenon DEF IInv, Established, Shaken
    <2>8. Grows
        BY <2>7, SameSent, Zenon DEF Grows, IInv
    <2>9. Established'
        BY <2>2, <2>4, <2>5, <2>7, Zenon DEF IInv, Established, Shaken, Pattern
    <2>10. Counted'
        BY <2>2, <2>5, CountedStays, Zenon DEF End
    <2> QED
        BY <2>6, <2>8, <2>9, <2>10, Zenon
<1> QED
    BY <1>1, <1>2, Zenon

LEMMA ReadMsg1Holds ==
    ASSUME IInv, NEW m \in Honest("ini") \cup {Garbled}, ReadMsg1("res", m), UNCHANGED <<key, sent, seq>>
    PROVE  ReadTypes /\ Grows /\ Established' /\ Counted'
<1>0. "ini" \in End /\ "res" \in End /\ "ini" # "res" /\ m \in Message \cup {Garbled}
    BY Zenon DEF End, Honest
<1>1. CASE Fail("res")
    BY <1>0, <1>1, FailHolds, Zenon
<1>2. CASE ~Fail("res")
    <2> DEFINE p == hs["res"].pat
    <2>1. PICK x : x = EphemeralOf(p, m)
        BY Zenon
    <2>2. x \in {"now", "old", "junk"}
        BY <1>0, <2>1, MessageFacts, Zenon DEF EphemeralOf
    <2>3. /\ pc["res"] = "m1" /\ pc' = [pc EXCEPT !["res"] = "m2"] /\ UNCHANGED <<peer, rcvd>>
          /\ hs' = [hs EXCEPT !["res"].e = x, !["res"].r = "now"] /\ Msg1Reads(p, m)
        BY <1>2, <2>1, Zenon DEF ReadMsg1, Goto
    <2>4. hs'["ini"] = hs["ini"] /\ hs'["res"] = [hs["res"] EXCEPT !.e = x, !.r = "now"] /\ hs["res"] \in Handshake
        BY <1>0, <2>3, Zenon DEF IInv, TypeOK
    <2>5. hs'["res"] \in Handshake /\ hs'["res"].e = x /\ hs'["res"].r = "now" /\ hs'["res"].pat = p /\ p \in {"XX", "XK"}
        <3>1. PICK h \in Handshake : h = hs["res"] /\ hs'["res"] = [h EXCEPT !.e = x, !.r = "now"]
            BY <2>4, Zenon
        <3>2. PICK g : g = [h EXCEPT !.e = x, !.r = "now"]
            BY Zenon
        <3>3. g \in Handshake /\ g.e = x /\ g.r = "now" /\ g.pat = h.pat /\ h.pat \in {"XX", "XK"}
            BY <2>2, <3>2, EphemeralRead, Zenon
        <3> QED
            BY <3>1, <3>2, <3>3, Zenon
    <2>6. x = "now" /\ p = "XK" => key = "right"
        <3> SUFFICES ASSUME x = "now", p = "XK" PROVE key = "right"
            BY Zenon
        <3>1. m.t = "m1" /\ m.to = "right" /\ m.e = "now"
            BY <2>1, <2>3, Zenon DEF Msg1Reads, EphemeralOf
        <3>2. m \in Honest("ini")
            BY <3>1 DEF Garbled
        <3> QED
            BY <3>1, <3>2, Zenon DEF Honest, Says
    <2>7. pc'["res"] = "m2" /\ pc'["ini"] = pc["ini"]
        BY <1>0, <2>3, Zenon DEF IInv, TypeOK
    <2>8. ReadTypes
        BY <1>0, <2>3, <2>5, Zenon DEF ReadTypes, IInv, TypeOK
    <2>9. ~Shaken /\ peer["ini"] # "res"
        BY <2>3, Zenon DEF IInv, Established, Shaken
    <2>10. Grows
        BY <2>9, SameSent, Zenon DEF Grows, IInv
    <2>11. Established'
        BY <2>3, <2>5, <2>6, <2>7, <2>9, Zenon DEF IInv, Established, Shaken, Pattern
    <2>12. Counted'
        BY <2>3, <2>7, CountedStays, Zenon DEF End
    <2> QED
        BY <2>8, <2>10, <2>11, <2>12, Zenon
<1> QED
    BY <1>1, <1>2, Zenon

LEMMA ReadMsg2Holds ==
    ASSUME IInv, NEW m \in Honest("res") \cup {Garbled}, ReadMsg2("ini", m), UNCHANGED <<key, sent, seq>>
    PROVE  ReadTypes /\ Grows /\ Established' /\ Counted'
<1>0. "ini" \in End /\ "res" \in End /\ "ini" # "res" /\ m \in Message \cup {Garbled}
    BY Zenon DEF End, Honest
<1>1. CASE Fail("ini")
    BY <1>0, <1>1, FailHolds, Zenon
<1>2. CASE ~Fail("ini")
    <2>1. /\ pc["ini"] = "m2" /\ pc' = [pc EXCEPT !["ini"] = "m3"] /\ hs' = [hs EXCEPT !["ini"] = m.h]
          /\ peer' = [peer EXCEPT !["ini"] = "res"] /\ UNCHANGED rcvd
          /\ m.t = "m2" /\ m.h.pat = Pattern /\ m.h.e = "now"
        BY <1>2, Zenon DEF ReadMsg2, Goto
    <2>2. m \in Honest("res") /\ m.h \in Handshake /\ m.h # OldHandshake
        BY <1>0, <2>1, MessageFacts, HandshakeFacts, SMTT(30) DEF Garbled
    <2>3. Shaken /\ m.h = hs["res"] /\ m.h.r = "now"
        BY <2>1, <2>2, Zenon DEF Honest, Says
    <2>4. /\ hs'["ini"] = m.h /\ hs'["res"] = hs["res"] /\ pc'["ini"] = "m3" /\ pc'["res"] = pc["res"]
          /\ peer'["ini"] = "res" /\ peer'["res"] = peer["res"]
        BY <1>0, <2>1, Zenon DEF IInv, TypeOK
    <2>5. ReadTypes
        BY <1>0, <2>1, <2>2, Zenon DEF ReadTypes, IInv, TypeOK
    <2>6. peer["ini"] # "res"
        BY <2>1, Zenon DEF IInv, Established
    <2>7. Grows
        BY <2>4, <2>6, SameSent, Zenon DEF Grows, Shaken, IInv
    <2>8. Established'
        BY <2>1, <2>3, <2>4, ZenonT(40) DEF IInv, Established, Shaken, Pattern
    <2>9. Counted'
        BY <2>1, <2>4, CountedStays, Zenon DEF End
    <2> QED
        BY <2>5, <2>7, <2>8, <2>9, Zenon
<1> QED
    BY <1>1, <1>2, Zenon

LEMMA ReadMsg3Holds ==
    ASSUME IInv, NEW m \in Honest("ini") \cup {Garbled}, ReadMsg3("res", m), UNCHANGED <<key, sent, seq>>
    PROVE  /\ ReadTypes /\ Grows /\ Established' /\ Counted'
           /\ peer' # peer => peer["ini"] = "res"
<1>0. "ini" \in End /\ "res" \in End /\ "ini" # "res" /\ m \in Message \cup {Garbled}
    BY Zenon DEF End, Honest
<1>1. CASE Fail("res")
    BY <1>0, <1>1, FailHolds, Zenon DEF Fail
<1>2. CASE ~Fail("res")
    <2>1. /\ pc["res"] = "m3" /\ pc' = [pc EXCEPT !["res"] = "up"] /\ peer' = [peer EXCEPT !["res"] = "ini"]
          /\ UNCHANGED <<hs, rcvd>> /\ m = Msg3(hs["res"])
        BY <1>2, Zenon DEF ReadMsg3, Goto
    <2>2. m.t = "m3" /\ m.h = hs["res"] /\ hs["res"].r = "now"
        BY <2>1, Zenon DEF Msg3, IInv, Established
    <2>3. m \in Honest("ini") /\ m.h # OldHandshake
        BY <2>2, HandshakeFacts, SMTT(30) DEF Garbled
    <2>4. peer["ini"] = "res"
        BY <2>2, <2>3, Zenon DEF Honest, Says
    <2>5. pc'["ini"] = pc["ini"] /\ pc'["res"] = "up" /\ peer'["ini"] = peer["ini"] /\ peer'["res"] = "ini"
        BY <1>0, <2>1, Zenon DEF IInv, TypeOK
    <2>6. ReadTypes
        BY <1>0, <2>1, Zenon DEF ReadTypes, IInv, TypeOK
    <2>7. Grows
        BY <2>1, <2>5, SameSent, Zenon DEF Grows, Shaken, IInv
    <2>8. Established'
        BY <2>1, <2>4, <2>5, Zenon DEF IInv, Established, Shaken, Pattern
    <2>9. Counted'
        BY <2>1, <2>5, CountedStays, Zenon DEF End
    <2> QED
        BY <2>4, <2>6, <2>7, <2>8, <2>9, Zenon
<1> QED
    BY <1>1, <1>2, Zenon

LEMMA ReadDataHolds ==
    ASSUME IInv, NEW e \in End, NEW m \in Honest(Other(e)) \cup {Garbled},
           ReadData(e, m), UNCHANGED <<key, sent, seq>>
    PROVE  /\ ReadTypes /\ Grows /\ Established' /\ Counted'
           /\ UNCHANGED peer
           /\ rcvd' # rcvd => Promise!Receive(e)
<1>0. "ini" \in End /\ "res" \in End /\ "ini" # "res" /\ m \in Message \cup {Garbled} /\ Other(e) \in End
    BY Zenon DEF End, Other, Honest
<1>1. CASE Fail(e)
    BY <1>0, <1>1, FailHolds, Zenon DEF Fail
<1>2. CASE ~Fail(e)
    <2>1. pc[e] = "up" /\ DataReads(e, m) /\ rcvd' = [rcvd EXCEPT ![e] = Append(@, m.body)] /\ UNCHANGED <<pc, hs, peer>>
        BY <1>2, Zenon DEF ReadData
    <2>2. peer[e] = Other(e) /\ hs[e].r = "now"
        BY <1>0, <2>1, Zenon DEF End, Other, IInv, Established
    <2>3. m.t = "data" /\ m.h # OldHandshake /\ m \in Honest(Other(e)) /\ m.n = Len(rcvd[e]) /\ m.body \in Bodies
        BY <1>0, <2>1, <2>2, MessageFacts, HandshakeFacts, SMTT(30) DEF DataReads, Garbled
    <2>4. m.n < Len(sent[Other(e)]) /\ sent[Other(e)][m.n + 1] = m.body
        BY <2>3, Zenon DEF Honest, Says
    <2>5. ReadTypes
        BY <2>1, <2>3 DEF ReadTypes, IInv, TypeOK
    <2>6. Grows
        BY <2>1, SameSent, Zenon DEF Grows, Shaken, IInv
    <2>7. Established'
        BY <2>1, Zenon DEF IInv, Established, Shaken, Pattern
    <2>8. Counted'
        BY <2>1, CountedStays, Zenon
    <2>9. Promise!Receive(e)
        <3>1. Append(rcvd[e], m.body) = Append(rcvd[e], sent[Other(e)][Len(rcvd[e]) + 1])
            BY <2>3, <2>4, Zenon
        <3> QED
            BY <2>1, <2>2, <2>3, <2>4, <3>1, Zenon DEF Promise!Receive, Promise!Other, Other
    <2> QED
        BY <2>1, <2>5, <2>6, <2>7, <2>8, <2>9, Zenon
<1> QED
    BY <1>1, <1>2, Zenon

(* Reading a message is a step of the promise, or none.                    *)
LEMMA ReadHolds ==
    ASSUME IInv, NEW e \in End, NEW m \in Honest(Other(e)) \cup {Garbled},
           Read(e, m), UNCHANGED <<key, sent, seq>>
    PROVE  /\ ReadTypes /\ Grows /\ Established' /\ Counted'
           /\ [Promise!Next]_(Promise!vars)
<1>0. "ini" \in End /\ "res" \in End /\ Other("ini") = "res" /\ Other("res") = "ini" /\ m \in Message \cup {Garbled}
    BY Zenon DEF End, Other, Honest
<1>1. CASE e = "res" /\ ReadPrefix(e, m)
    <2>1. UNCHANGED <<peer, rcvd>>
        BY <1>1, Zenon DEF ReadPrefix, Fail
    <2> QED
        BY <1>0, <1>1, <2>1, ReadPrefixHolds, Zenon DEF Promise!vars
<1>2. CASE e = "res" /\ ReadMsg1(e, m)
    <2>1. UNCHANGED <<peer, rcvd>>
        BY <1>2, Zenon DEF ReadMsg1, Fail
    <2> QED
        BY <1>0, <1>2, <2>1, ReadMsg1Holds, Zenon DEF Promise!vars
<1>3. CASE e = "res" /\ ReadMsg3(e, m)
    <2>1. ReadTypes /\ Grows /\ Established' /\ Counted' /\ (peer' # peer => peer["ini"] = "res")
        BY <1>0, <1>3, ReadMsg3Holds, Zenon
    <2>2. peer["res"] = "nobody"
        BY <1>3, Zenon DEF ReadMsg3, IInv, Established
    <2>3. UNCHANGED rcvd /\ (UNCHANGED peer \/ peer' = [peer EXCEPT !["res"] = "ini"])
        BY <1>3, Zenon DEF ReadMsg3, Fail
    <2>4. UNCHANGED Promise!vars \/ Promise!Establish("res")
        BY <2>1, <2>2, <2>3, Zenon DEF Promise!vars, Promise!Establish, Promise!Other
    <2> QED
        BY <2>1, <2>4, Zenon DEF Promise!Next, Promise!End
<1>4. CASE e = "ini" /\ ReadMsg2(e, m)
    <2>1. ReadTypes /\ Grows /\ Established' /\ Counted'
        BY <1>0, <1>4, ReadMsg2Holds, Zenon
    <2>2. peer["ini"] = "nobody"
        BY <1>4, Zenon DEF ReadMsg2, IInv, Established
    <2>3. UNCHANGED rcvd /\ (UNCHANGED peer \/ peer' = [peer EXCEPT !["ini"] = "res"])
        BY <1>4, Zenon DEF ReadMsg2, Fail
    <2>4. UNCHANGED Promise!vars \/ Promise!Establish("ini")
        BY <2>2, <2>3, Zenon DEF Promise!vars, Promise!Establish, Promise!Other
    <2> QED
        BY <2>1, <2>4, Zenon DEF Promise!Next, Promise!End
<1>5. CASE ReadData(e, m)
    BY <1>5, ReadDataHolds, Zenon DEF Promise!Next, Promise!End, Promise!vars, End
<1> QED
    BY <1>1, <1>2, <1>3, <1>4, <1>5, Zenon DEF Read, End

-----------------------------------------------------------------------------
(* The connection.                                                         *)

(* What is on its way was honest before the step.                          *)
Carrying(out, lnk) ==
    \A f \in End : /\ Carries(out[f], Honest(f)) /\ Carries(lnk[f], Honest(Other(f)))
                   /\ WholeOrFragment(out[f])

LEMMA CarryHolds ==
    ASSUME IInv, ReadTypes, Grows, Established', Counted', UNCHANGED <<kind, key, sent, seq>>,
           faults' \in 0..MaxFaults, reader' \in [End -> {"length", "body", "lost"}],
           Indexed(pending)', Indexed(outbox)', Indexed(link)',
           \A f \in End : \A s \in DOMAIN pending'[f] : ~IsComplete(pending'[f][s]),
           NEW out, out = outbox', NEW lnk, lnk = link', Carrying(out, lnk)
    PROVE  IInv'
<1>1. ASSUME NEW f \in End
      PROVE  Carries(out[f], Honest(f)') /\ Carries(lnk[f], Honest(Other(f))')
    <2>1. Other(f) \in End
        BY Zenon DEF Other, End
    <2> QED
        BY <2>1, HonestGrows, CarriesMore, Zenon DEF Carrying
<1>2. Carried'
    BY <1>1, Zenon DEF Carried
<1>3. TypeOK'
    <2>1. \A f \in End : WholeOrFragment(outbox'[f])
        BY Zenon DEF Carrying
    <2> QED
        BY <2>1, Zenon DEF IInv, TypeOK, ReadTypes, WholeOrFragment
<1> QED
    BY <1>2, <1>3, Zenon DEF IInv

LEMMA IsCarrying == ASSUME IInv PROVE Carrying(outbox, link)
BY Zenon DEF IInv, Carried, TypeOK, WholeOrFragment, Carrying

LEMMA DeliverHolds ==
    ASSUME IInv, NEW e \in End, Deliver(e)
    PROVE  IInv' /\ [Promise!Next]_(Promise!vars)
<1>0. Other(e) \in End
    BY Zenon DEF Other, End
<1>1. /\ link[e] # <<>> /\ link' = [link EXCEPT ![e] = Tail(@)]
      /\ UNCHANGED <<kind, key, sent, faults, seq, outbox>>
    BY Zenon DEF Deliver
<1>2. /\ Indexed(link)' /\ link'[e] = Tail(link[e]) /\ \A f \in End \ {e} : link'[f] = link[f]
    BY <1>1, Zenon DEF IInv, Indexed
<1>3. Head(link[e]).of \in Honest(Other(e)) /\ Carries(Tail(link[e]), Honest(Other(e)))
    BY <1>1, CarriesParts, Zenon DEF IInv, Carried
<1>4. \A out, lnk : out = outbox' /\ lnk = link' => Carrying(out, lnk)
    BY <1>1, <1>2, <1>3, IsCarrying, Zenon DEF Carrying
<1>5. /\ ReadTypes /\ Grows /\ Established' /\ Counted' /\ [Promise!Next]_(Promise!vars)
      /\ reader' \in [End -> {"length", "body", "lost"}] /\ Indexed(pending)'
      /\ \A f \in End : \A s \in DOMAIN pending'[f] : ~IsComplete(pending'[f][s])
    <2>1. CASE reader[e] = "lost"
        <3>1. Fail(e) /\ UNCHANGED <<pending, reader>>
            BY <2>1, Zenon DEF Deliver
        <3>2. UNCHANGED <<peer, rcvd>>
            BY <3>1, Zenon DEF Fail
        <3>3. ReadTypes /\ Grows /\ Established' /\ Counted'
            BY <1>1, <3>1, FailHolds, Zenon
        <3> QED
            BY <1>1, <3>1, <3>2, <3>3, Zenon DEF Promise!vars, IInv, TypeOK, Indexed
    <2>2. CASE reader[e] # "lost"
        <3>1. PICK r : r = RecvBundle(pending[e], Head(link[e]))
            BY Zenon
        <3>2. /\ pending' = [pending EXCEPT ![e] = r.pending] /\ reader' = [reader EXCEPT ![e] = "length"]
              /\ IF r.payload = Nothing THEN UNCHANGED <<pc, hs, peer, rcvd>> ELSE Read(e, r.payload)
            BY <2>2, <3>1, Zenon DEF Deliver
        <3>3. /\ r.payload \in {Nothing, Garbled, Head(link[e]).of}
              /\ \A s \in DOMAIN r.pending : ~IsComplete(r.pending[s])
            BY <3>1, ReceivedBundle, Zenon DEF IInv, TypeOK
        <3>4. Indexed(pending)' /\ pending'[e] = r.pending /\ \A f \in End \ {e} : pending'[f] = pending[f]
            BY <3>2, Zenon DEF IInv, Indexed
        <3>5. \A f \in End : \A s \in DOMAIN pending'[f] : ~IsComplete(pending'[f][s])
            BY <3>3, <3>4, Zenon DEF IInv, TypeOK
        <3>6. reader' \in [End -> {"length", "body", "lost"}]
            BY <3>2, Zenon DEF IInv, TypeOK
        <3>7. CASE r.payload = Nothing
            <4>1. UNCHANGED <<pc, hs, peer, rcvd>>
                BY <3>2, <3>7, Zenon
            <4>2. ReadTypes /\ Grows /\ Established' /\ Counted'
                BY <1>1, <4>1, StopHolds, Zenon DEF IInv, TypeOK
            <4> QED
                BY <1>1, <3>4, <3>5, <3>6, <4>1, <4>2, Zenon DEF Promise!vars
        <3>8. CASE r.payload # Nothing
            <4>1. r.payload \in Honest(Other(e)) \cup {Garbled} /\ Read(e, r.payload)
                BY <1>3, <3>2, <3>3, <3>8, Zenon
            <4>2. ReadTypes /\ Grows /\ Established' /\ Counted' /\ [Promise!Next]_(Promise!vars)
                BY <1>1, <4>1, ReadHolds, Zenon
            <4> QED
                BY <3>4, <3>5, <3>6, <4>2, Zenon
        <3> QED
            BY <3>7, <3>8, Zenon
    <2> QED
        BY <2>1, <2>2, Zenon
<1>6. IInv'
    BY <1>1, <1>2, <1>4, <1>5, CarryHolds, Zenon DEF IInv, TypeOK, Indexed
<1> QED
    BY <1>5, <1>6, Zenon

LEMMA RestOfOutbox ==
    ASSUME NEW s, NEW H, Carries(s, H), s # <<>>, WholeOrFragment(s)
    PROVE  WholeOrFragment(Tail(s))
<1>1. PICK S : s \in Seq(S)
    BY Zenon DEF Carries
<1>2. /\ \A i \in DOMAIN Tail(s) : i + 1 \in DOMAIN s /\ Tail(s)[i] = s[i + 1]
    BY <1>1, SMTT(30)
<1> QED
    BY <1>2, Zenon DEF WholeOrFragment

LEMMA EmitHolds == ASSUME IInv, NEW e \in End, Emit(e) PROVE IInv'
<1>0. Other(e) \in End /\ Other(Other(e)) = e /\ Other(e) # e
    BY Zenon DEF Other, End
<1>1. outbox[e] # <<>> /\ outbox' = [outbox EXCEPT ![e] = Tail(@)]
      /\ UNCHANGED <<kind, key, pc, hs, peer, sent, rcvd, faults, seq, pending, reader>>
      /\ link' \in {link, [link EXCEPT ![Other(e)] = Append(@, Head(outbox[e]))]}
    BY Zenon DEF Emit
<1>2. Indexed(outbox)' /\ outbox'[e] = Tail(outbox[e]) /\ \A f \in End \ {e} : outbox'[f] = outbox[f]
    BY <1>1, Zenon DEF IInv, Indexed
<1>3. /\ Indexed(link)' /\ \A f \in End \ {Other(e)} : link'[f] = link[f]
      /\ link'[Other(e)] \in {link[Other(e)], Append(link[Other(e)], Head(outbox[e]))}
    BY <1>0, <1>1, Zenon DEF IInv, Indexed
<1>4. Head(outbox[e]).of \in Honest(e) /\ Carries(Tail(outbox[e]), Honest(e)) /\ WholeOrFragment(Tail(outbox[e]))
    <2>1. Carries(outbox[e], Honest(e)) /\ WholeOrFragment(outbox[e])
        BY IsCarrying, Zenon DEF Carrying
    <2>2. WholeOrFragment(Tail(outbox[e]))
        BY <1>1, <2>1, RestOfOutbox, Zenon
    <2> QED
        BY <1>1, <2>1, <2>2, CarriesParts
<1>5. Carries(link'[Other(e)], Honest(e))
    BY <1>0, <1>3, <1>4, CarriesOneMore, IsCarrying, Zenon DEF Carrying
<1>6. \A out, lnk : out = outbox' /\ lnk = link' => Carrying(out, lnk)
    BY <1>0, <1>2, <1>3, <1>4, <1>5, IsCarrying, Zenon DEF Carrying
<1>7. ReadTypes /\ Grows /\ Established' /\ Counted'
    BY <1>1, StopHolds, Zenon DEF IInv, TypeOK
<1> QED
    BY <1>1, <1>2, <1>3, <1>6, <1>7, CarryHolds, Zenon DEF IInv, TypeOK, Indexed

(* The steps of the connection that touch neither outbox nor pending.      *)
LEMMA LinkHolds ==
    ASSUME IInv, UNCHANGED <<kind, key, hs, peer, sent, rcvd, seq, pending, outbox>>,
           pc' \in [End -> {"prefix", "m1", "m2", "m3", "up", "closed", "failed"}],
           \A f \in End : pc'[f] = pc[f] \/ pc'[f] \in {"closed", "failed"},
           faults' \in 0..MaxFaults, reader' \in [End -> {"length", "body", "lost"}],
           Indexed(link)', \A f \in End : Carries(link'[f], Honest(Other(f)))
    PROVE  IInv'
<1>1. ReadTypes /\ Grows /\ Established' /\ Counted'
    BY StopHolds, Zenon
<1>2. \A out, lnk : out = outbox' /\ lnk = link' => Carrying(out, lnk)
    BY IsCarrying, Zenon DEF Carrying
<1> QED
    BY <1>1, <1>2, CarryHolds, Zenon DEF IInv, TypeOK, Indexed

(* The same, where only one end's link changes.                            *)
LEMMA OneLinkHolds ==
    ASSUME IInv, UNCHANGED <<kind, key, hs, peer, sent, rcvd, seq, pending, outbox>>,
           pc' \in [End -> {"prefix", "m1", "m2", "m3", "up", "closed", "failed"}],
           \A f \in End : pc'[f] = pc[f] \/ pc'[f] \in {"closed", "failed"},
           faults' \in 0..MaxFaults, reader' \in [End -> {"length", "body", "lost"}],
           NEW e \in End, NEW s, link' = [link EXCEPT ![e] = s], Carries(s, Honest(Other(e)))
    PROVE  IInv'
<1>1. Indexed(link)' /\ link'[e] = s /\ \A f \in End \ {e} : link'[f] = link[f]
    BY Zenon DEF IInv, Indexed
<1>2. \A f \in End : Carries(link'[f], Honest(Other(f)))
    BY <1>1, Zenon DEF IInv, Carried
<1> QED
    BY <1>1, <1>2, LinkHolds, Zenon

LEMMA OldIsHonest ==
    ASSUME NEW e \in End, NEW p \in OldPackets(e)
    PROVE  p.of \in Honest(Other(e))
<1>1. ASSUME NEW q \in Nat, NEW m \in Message, Says(Other(e), m), p \in Range(SendBytes(q, m, MsgLen(m), Mtu))
      PROVE  p.of \in Honest(Other(e))
    <2>1. m \in Honest(Other(e)) /\ MsgLen(m) \in Nat
        BY <1>1, LengthOfMessage, Zenon DEF Honest
    <2>2. Carries(SendBytes(q, m, MsgLen(m), Mtu), Honest(Other(e)))
        BY <2>1, SentBundles, Zenon
    <2>3. PICK S : SendBytes(q, m, MsgLen(m), Mtu) \in Seq(S) /\ \A b \in S : b.of \in Honest(Other(e))
        BY <2>2, Zenon DEF Carries
    <2>4. PICK s : s = SendBytes(q, m, MsgLen(m), Mtu)
        BY Zenon
    <2>5. \A i \in DOMAIN s : s[i] \in S
        BY <2>3, <2>4, SMTT(30)
    <2>6. \E i \in DOMAIN s : p = s[i]
        BY <1>1, <2>4, Zenon DEF Range
    <2> QED
        BY <2>3, <2>5, <2>6, Zenon
<1>2. Other(e) \in End /\ OldHandshake \in Handshake
    BY HandshakeFacts, Zenon DEF Other, End
<1>3. CASE \E b \in Bodies : \E q \in {1, 3} : LET m == Data(OldHandshake, Other(e), 0, b) IN p \in Range(SendBytes(q, m, MsgLen(m), Mtu))
    <2>1. PICK b \in Bodies, q \in {1, 3} : LET m == Data(OldHandshake, Other(e), 0, b) IN p \in Range(SendBytes(q, m, MsgLen(m), Mtu))
        BY <1>3, Zenon
    <2>2. PICK m : m = Data(OldHandshake, Other(e), 0, b)
        BY Zenon
    <2>3. m \in Message /\ m.t = "data" /\ m.h = OldHandshake
        BY <1>2, <2>2, Zenon DEF Data, Message
    <2> QED
        BY <1>1, <2>1, <2>2, <2>3, Zenon DEF Says
<1>4. CASE LET m == Msg2(OldHandshake) IN p \in Range(SendBytes(0, m, MsgLen(m), Mtu))
    <2>1. PICK m : m = Msg2(OldHandshake)
        BY Zenon
    <2>2. m \in Message /\ m.t = "m2" /\ m.h = OldHandshake
        BY <1>2, <2>1, Zenon DEF Msg2, Message
    <2> QED
        BY <1>1, <1>4, <2>1, <2>2, Zenon DEF Says
<1>5. CASE LET m == Prefix("XX") IN p \in Range(SendBytes(0, m, MsgLen(m), Mtu))
    <2>1. PICK m : m = Prefix("XX")
        BY Zenon
    <2>2. m \in Message /\ m.t = "prefix"
        BY <2>1, Zenon DEF Prefix, Message
    <2> QED
        BY <1>1, <1>5, <2>1, <2>2, Zenon DEF Says
<1>6. CASE LET m == Msg1("XX", "old", "none") IN p \in Range(SendBytes(1, m, MsgLen(m), Mtu))
    <2>1. PICK m : m = Msg1("XX", "old", "none")
        BY Zenon
    <2>2. m \in Message /\ m.t = "m1" /\ m.e = "old"
        BY <2>1, Zenon DEF Msg1, Message
    <2> QED
        BY <1>1, <1>6, <2>1, <2>2, Zenon DEF Says
<1>7. CASE LET m == Msg3(OldHandshake) IN p \in Range(SendBytes(2, m, MsgLen(m), Mtu))
    <2>1. PICK m : m = Msg3(OldHandshake)
        BY Zenon
    <2>2. m \in Message /\ m.t = "m3" /\ m.h = OldHandshake
        BY <1>2, <2>1, Zenon DEF Msg3, Message
    <2> QED
        BY <1>1, <1>7, <2>1, <2>2, Zenon DEF Says
<1> DEFINE Of(q, m) == Range(SendBytes(q, m, MsgLen(m), Mtu))
           D(b) == Data(OldHandshake, Other(e), 0, b)
           n == IF e = "res" THEN 3 ELSE 1
<1>8. OldPackets(e) = (UNION {Of(n, D(b)) : b \in Bodies})
                      \cup IF e = "ini" THEN Of(0, Msg2(OldHandshake))
                           ELSE Of(0, Prefix("XX")) \cup Of(1, Msg1("XX", "old", "none")) \cup Of(2, Msg3(OldHandshake))
    BY Zenon DEF OldPackets
<1>9. /\ \A b \in Bodies : p \in Of(1, D(b)) \/ p \in Of(3, D(b)) => p.of \in Honest(Other(e))
      /\ p \in Of(0, Msg2(OldHandshake)) => p.of \in Honest(Other(e))
      /\ p \in Of(0, Prefix("XX")) => p.of \in Honest(Other(e))
      /\ p \in Of(1, Msg1("XX", "old", "none")) => p.of \in Honest(Other(e))
      /\ p \in Of(2, Msg3(OldHandshake)) => p.of \in Honest(Other(e))
    BY <1>3, <1>4, <1>5, <1>6, <1>7, Zenon
<1>10. n \in {1, 3}
    BY Zenon
<1> HIDE DEF Of, D, n
<1>11. \/ \E b \in Bodies : p \in Of(n, D(b))
       \/ p \in Of(0, Msg2(OldHandshake)) \/ p \in Of(0, Prefix("XX"))
       \/ p \in Of(1, Msg1("XX", "old", "none")) \/ p \in Of(2, Msg3(OldHandshake))
    <2> DEFINE V == {Of(n, D(b)) : b \in Bodies}
    <2>1. p \in UNION V => \E y \in V : p \in y
        BY Zenon
    <2>2. \A y \in V : \E b \in Bodies : y = Of(n, D(b))
        BY Zenon
    <2> HIDE DEF V
    <2>3. \/ p \in UNION V
          \/ p \in Of(0, Msg2(OldHandshake)) \/ p \in Of(0, Prefix("XX"))
          \/ p \in Of(1, Msg1("XX", "old", "none")) \/ p \in Of(2, Msg3(OldHandshake))
        BY <1>8, Zenon DEF V
    <2> QED
        BY <2>1, <2>2, <2>3, Zenon
<1> QED
    BY <1>9, <1>10, <1>11, Zenon

LEMMA RadioFaultHolds == ASSUME IInv, NEW e \in End, RadioFault(e) PROVE IInv'
<1> DEFINE H == Honest(Other(e))
<1>1. UNCHANGED <<kind, key, hs, peer, sent, rcvd, seq, pending, outbox, pc, reader>> /\ faults' \in 0..MaxFaults
    BY BoundsType, SMTT(30) DEF RadioFault, Fault, IInv, TypeOK
<1>2. PICK u : u = link[e]
    BY Zenon
<1>3. Carries(u, H) /\ Len(u) \in Nat
    BY <1>2, CarriesParts, Zenon DEF IInv, Carried
<1>4. \E s : link' = [link EXCEPT ![e] = s] /\ Carries(s, H)
    <2>1. PICK i \in 0..Len(u) :
              \/ i > 0 /\ link' = [link EXCEPT ![e] = RemoveAt(u, i)]
              \/ i > 0 /\ link' = [link EXCEPT ![e] = Append(u, u[i])]
              \/ i > 1 /\ link' = [link EXCEPT ![e] = InsertAt(RemoveAt(u, i), 1, u[i])]
              \/ \E p \in OldPackets(e) : link' = [link EXCEPT ![e] = InsertAt(u, i + 1, p)]
        BY <1>2, Zenon DEF RadioFault
    <2> HIDE DEF H
    <2>2. ASSUME i > 0 PROVE u[i].of \in H /\ Carries(RemoveAt(u, i), H)
        <3>1. i \in 1..Len(u)
            BY <1>3, <2>2, SMTT(30)
        <3>2. \A j \in 1..Len(u) : u[j].of \in H /\ Carries(RemoveAt(u, j), H)
            BY <1>3, CarriesParts, Zenon
        <3> QED
            BY <3>1, <3>2, Zenon
    <2>3. ASSUME i > 0 PROVE Carries(Append(u, u[i]), H)
        BY <1>3, <2>2, <2>3, CarriesOneMore, Zenon
    <2>4. ASSUME i > 0 PROVE Carries(InsertAt(RemoveAt(u, i), 1, u[i]), H)
        <3>1. PICK v : v = RemoveAt(u, i)
            BY Zenon
        <3>2. Carries(v, H) /\ Len(v) \in Nat
            BY <2>2, <2>4, <3>1, CarriesParts, Zenon
        <3> QED
            BY <2>2, <2>4, <3>1, <3>2, CarriesOneMore, SMTT(30)
    <2>5. ASSUME NEW p \in OldPackets(e) PROVE Carries(InsertAt(u, i + 1, p), H)
        BY <1>3, OldIsHonest, CarriesOneMore, SMTT(30) DEF H
    <2>6. CASE i > 0 /\ link' = [link EXCEPT ![e] = RemoveAt(u, i)]
        BY <2>2, <2>6, Zenon
    <2>7. CASE i > 0 /\ link' = [link EXCEPT ![e] = Append(u, u[i])]
        BY <2>3, <2>7, Zenon
    <2>8. CASE i > 1 /\ link' = [link EXCEPT ![e] = InsertAt(RemoveAt(u, i), 1, u[i])]
        <3>1. i > 0
            BY <1>3, <2>8
        <3> QED
            BY <2>4, <2>8, <3>1, Zenon
    <2>9. CASE \E p \in OldPackets(e) : link' = [link EXCEPT ![e] = InsertAt(u, i + 1, p)]
        BY <2>5, <2>9, Zenon
    <2> QED
        BY <2>1, <2>6, <2>7, <2>8, <2>9, Zenon
<1>5. pc \in [End -> {"prefix", "m1", "m2", "m3", "up", "closed", "failed"}] /\ reader \in [End -> {"length", "body", "lost"}]
    BY Zenon DEF IInv, TypeOK
<1> QED
    BY <1>1, <1>4, <1>5, OneLinkHolds, Zenon

LEMMA ConnectionHolds ==
    ASSUME IInv, NEW e \in End, ReadLength(e) \/ Close \/ EndOfStream(e) \/ Break \/ Timeout
    PROVE  IInv'
<1>0. "ini" \in End /\ "res" \in End /\ Other("res") = "ini"
    BY Zenon DEF End, Other
<1>1. /\ UNCHANGED <<kind, key, hs, peer, sent, rcvd, seq, pending, outbox>>
      /\ reader' \in [End -> {"length", "body", "lost"}] /\ faults' \in 0..MaxFaults
      /\ pc' \in [End -> {"prefix", "m1", "m2", "m3", "up", "closed", "failed"}]
      /\ \A f \in End : pc'[f] = pc[f] \/ pc'[f] \in {"closed", "failed"}
    <2>1. UNCHANGED <<kind, key, hs, peer, sent, rcvd, seq, pending, outbox>>
        BY Zenon DEF ReadLength, Close, EndOfStream, Break, Timeout, Fault, netVars
    <2>2. reader' \in [End -> {"length", "body", "lost"}]
        BY <1>0, ZenonT(40) DEF ReadLength, Close, EndOfStream, Break, Timeout, netVars, IInv, TypeOK
    <2>3. faults' \in 0..MaxFaults
        BY BoundsType DEF ReadLength, Close, EndOfStream, Break, Timeout, Fault, IInv, TypeOK
    <2>4. /\ pc' \in [End -> {"prefix", "m1", "m2", "m3", "up", "closed", "failed"}]
          /\ \A f \in End : pc'[f] = pc[f] \/ pc'[f] \in {"closed", "failed"}
        <3>1. pc \in [End -> {"prefix", "m1", "m2", "m3", "up", "closed", "failed"}]
            BY Zenon DEF IInv, TypeOK
        <3>2. CASE ReadLength(e) \/ Timeout
            BY <3>1, <3>2, Zenon DEF ReadLength, Timeout
        <3>3. CASE Close \/ EndOfStream(e)
            BY <1>0, <3>1, <3>3, Zenon DEF Close, EndOfStream, Goto
        <3>4. CASE Break
            BY <3>1, <3>4, Zenon DEF Break
        <3> QED
            BY <3>2, <3>3, <3>4, Zenon
    <2> QED
        BY <2>1, <2>2, <2>3, <2>4, Zenon
<1>2. CASE Close
    <2>1. PICK u : u = link["res"]
        BY Zenon
    <2>2. PICK n \in 0..Len(u) : link' = [link EXCEPT !["res"] = SubSeq(u, 1, n)]
        BY <1>2, <2>1, Zenon DEF Close
    <2>3. Carries(u, Honest("ini"))
        BY <1>0, <2>1, Zenon DEF IInv, Carried
    <2>4. Carries(SubSeq(u, 1, n), Honest("ini"))
        BY <2>3, CarriesParts, Zenon
    <2> QED
        BY <1>0, <1>1, <2>2, <2>4, OneLinkHolds, Zenon
<1>3. CASE Break
    <2>1. link' = [f \in End |-> <<>>]
        BY <1>3, Zenon DEF Break
    <2>2. \A f \in End : Carries(link'[f], Honest(Other(f)))
        BY <2>1, CarriesNone, Zenon
    <2> QED
        BY <1>1, <2>1, <2>2, LinkHolds, Zenon DEF Indexed
<1>4. CASE ReadLength(e) \/ EndOfStream(e) \/ Timeout
    <2>1. UNCHANGED link
        BY <1>4, Zenon DEF ReadLength, EndOfStream, Timeout, netVars
    <2> QED
        BY <1>1, <2>1, LinkHolds, Zenon DEF IInv, Carried, Indexed
<1> QED
    BY <1>2, <1>3, <1>4, Zenon

-----------------------------------------------------------------------------
(* Every step.                                                             *)

LEMMA StepHolds ==
    ASSUME IInv, [Next]_vars
    PROVE  IInv' /\ [Promise!Next]_(Promise!vars)
<1>1. CASE HandshakeSend
    <2>1. UNCHANGED <<peer, sent, rcvd>>
        BY <1>1, Zenon DEF HandshakeSend, SendPrefix, SendMsg1, SendMsg2, SendMsg3, Write
    <2> QED
        BY <1>1, <2>1, HandshakeSendHolds, Zenon DEF Promise!vars
<1>2. ASSUME NEW e \in End, Send(e) PROVE IInv' /\ [Promise!Next]_(Promise!vars)
    <2>1. PICK body \in Bodies : sent' = [sent EXCEPT ![e] = Append(@, body)]
        BY <1>2, Zenon DEF Send
    <2>2. UNCHANGED <<peer, rcvd>> /\ pc[e] = "up"
        BY <1>2, Zenon DEF Send, Write
    <2>3. peer[e] = Other(e)
        BY <2>2, Zenon DEF IInv, Established, End, Other
    <2>4. Promise!Send(e)
        BY <2>1, <2>2, <2>3, Zenon DEF Promise!Send, Promise!Other, Other
    <2> QED
        BY <1>2, <2>4, SendHolds, Zenon DEF Promise!Next, Promise!End, End
<1>3. ASSUME NEW e \in End, Deliver(e) PROVE IInv' /\ [Promise!Next]_(Promise!vars)
    BY <1>3, DeliverHolds, Zenon
<1>4. ASSUME NEW e \in End, Emit(e) PROVE IInv' /\ [Promise!Next]_(Promise!vars)
    BY <1>4, EmitHolds, Zenon DEF Emit, Promise!vars
<1>5. ASSUME NEW e \in End, RadioFault(e) PROVE IInv' /\ [Promise!Next]_(Promise!vars)
    BY <1>5, RadioFaultHolds, Zenon DEF RadioFault, Fault, Promise!vars
<1>6. ASSUME NEW e \in End, ReadLength(e) \/ Close \/ EndOfStream(e) \/ Break \/ Timeout
      PROVE  IInv' /\ [Promise!Next]_(Promise!vars)
    <2>1. UNCHANGED <<peer, sent, rcvd>>
        BY <1>6, Zenon DEF ReadLength, Close, EndOfStream, Break, Timeout, Fault
    <2> QED
        BY <1>6, <2>1, ConnectionHolds, Zenon DEF Promise!vars
<1>7. CASE UNCHANGED vars
    <2>1. UNCHANGED <<kind, key, hs, peer, sent, rcvd, seq, pending, outbox, pc, faults, reader, link>>
        BY <1>7, Zenon DEF vars, netVars
    <2>2. IInv'
        BY <2>1, LinkHolds, Zenon DEF IInv, TypeOK, Carried, Indexed
    <2> QED
        BY <2>1, <2>2, Zenon DEF Promise!vars
<1>8. "ini" \in End
    BY Zenon DEF End
<1> QED
    BY <1>1, <1>2, <1>3, <1>4, <1>5, <1>6, <1>7, <1>8, Zenon DEF Next, Progress

(* Two ends that are up share one handshake, and no handshake is completed *)
(* from a stale key: session.rs (initiate, respond), for every MTU, every  *)
(* set of messages and any number of faults of the connection.             *)
THEOREM EndsAgree == Spec => []Agreement
<1>1. IInv /\ [Next]_vars => IInv'
    BY StepHolds, Zenon
<1>2. IInv => Agreement
    <2> SUFFICES ASSUME IInv PROVE Agreement
        BY Zenon
    <2>1. peer["ini"] = "res" => key # "stale"
        BY Zenon DEF IInv, Established, Pattern
    <2> QED
        BY <2>1, Zenon DEF IInv, Established, Agreement
<1> QED
    BY <1>1, <1>2, InitHolds, PTL DEF Spec

(* A Session implements SecureChannel: each end learns who the other is,   *)
(* the responder last, and receives a prefix of what the other has sent    *)
(* (session.rs over bundle.rs), whatever a radio loses, repeats, reorders  *)
(* or brings from an earlier connection, and wherever a receive is         *)
(* cancelled.                                                              *)
THEOREM SessionIsSecureChannel == Spec => ImplementsSecureChannel
<1>1. Init => Promise!Init
    BY Zenon DEF Init, Promise!Init, Promise!End, End
<1>2. IInv /\ [Next]_vars => IInv' /\ [Promise!Next]_(Promise!vars)
    BY StepHolds, Zenon
<1> QED
    BY <1>1, <1>2, InitHolds, PTL DEF Spec, ImplementsSecureChannel, Promise!Spec

-----------------------------------------------------------------------------
(* How BundleLayer cuts a payload.                                         *)

(* How a payload is cut: into one whole bundle, or into fragments that     *)
(* cover its bytes without overlap.                                        *)
Covers(A, total) ==
    /\ \A b \in A : b.frag /\ b.len >= 1 /\ b.off + b.len <= total
    /\ \A b, c \in A : b.off < c.off => b.off + b.len <= c.off
    /\ \A y \in 1..total : \E b \in A : b.off < y /\ y <= b.off + b.len
Cuts(A, q, total) ==
    /\ \A b \in A : b.seq = q /\ b.total = total /\ b.off \in Nat /\ b.len \in Nat
    /\ \A b, c \in A : b.off = c.off => b = c
    /\ (\A b, c \in A : ~b.frag /\ b = c) \/ Covers(A, total)

(* A fragment without payload leaves some room, or none.                   *)
LEMMA PayloadType ==
    ASSUME NEW q \in Nat, NEW total \in Nat
    PROVE  MaxPayload(q, total, Mtu) \in Nat
<1>1. \A n \in Nat : HeadLen(n) \in Nat
    BY DEF HeadLen
<1>2. FragmentOverhead(q, total) \in Nat
    BY <1>1 DEF FragmentOverhead, FragmentSize, WholeSize, Header
<1>3. PICK d : d = Mtu - FragmentOverhead(q, total)
    BY Zenon
<1>4. d \in Int /\ MaxPayload(q, total, Mtu) = Max({0, d})
    BY <1>2, <1>3, SizesType DEF MaxPayload
<1>5. Max({0, d}) \in {0, d} /\ Max({0, d}) >= 0
    <2>1. \E y \in {0, d} : \A z \in {0, d} : y >= z
        BY <1>4
    <2> QED
        BY <2>1, Zenon DEF Max
<1> QED
    BY <1>4, <1>5

LEMMA MinOfTwo ==
    ASSUME NEW a \in Int, NEW b \in Int
    PROVE  Min({a, b}) = IF a <= b THEN a ELSE b
<1>1. \E y \in {a, b} : \A z \in {a, b} : y <= z
    OBVIOUS
<1>2. Min({a, b}) \in {a, b} /\ \A z \in {a, b} : Min({a, b}) <= z
    BY <1>1, Zenon DEF Min
<1> QED
    BY <1>2

LEMMA Division ==
    ASSUME NEW a \in Nat, NEW b \in Nat \ {0}
    PROVE  (a \div b) \in Nat /\ b * (a \div b) <= a /\ a < b * (a \div b) + b
BY SMT

LEMMA Multiples ==
    ASSUME NEW i \in Nat, NEW j \in Nat, NEW m \in Nat \ {0}, i < j
    PROVE  i * m \in Nat /\ j * m \in Nat /\ i * m + m <= j * m
BY SMT

(* The turns of the loop, with max = m bytes each.                         *)
LEMMA Turns ==
    ASSUME NEW m \in Nat \ {0}, NEW total \in Nat, NEW c, c = (total + m - 1) \div m
    PROVE  /\ c \in Nat
           /\ \A i \in 1..c : (i - 1) * m \in Nat /\ (i - 1) * m < total
           /\ \A y \in 1..total : \E i \in 1..c : (i - 1) * m < y /\ y <= (i - 1) * m + m
<1>1. c \in Nat /\ m * c <= total + m - 1 /\ total + m - 1 < m * c + m
    BY Division
<1>2. ASSUME NEW i \in 1..c PROVE (i - 1) * m \in Nat /\ (i - 1) * m < total
    <2>1. i - 1 \in Nat /\ i - 1 < c
        BY <1>1
    <2>2. (i - 1) * m \in Nat /\ c * m \in Nat /\ (i - 1) * m + m <= c * m
        BY <1>1, <2>1, Multiples, Zenon
    <2>3. c * m = m * c
        BY <1>1
    <2> QED
        BY <1>1, <2>2, <2>3
<1>3. ASSUME NEW y \in 1..total PROVE \E i \in 1..c : (i - 1) * m < y /\ y <= (i - 1) * m + m
    <2>1. PICK j : j = (y - 1) \div m
        BY Zenon
    <2>2. j \in Nat /\ m * j <= y - 1 /\ y - 1 < m * j + m
        BY <2>1, Division
    <2>3. j < c
        <3>1. SUFFICES ASSUME c <= j PROVE FALSE
            BY <1>1, <2>2
        <3>2. m * c <= m * j
            BY <1>1, <2>2, <3>1
        <3> QED
            BY <1>1, <2>2, <3>2
    <2>4. j + 1 \in 1..c /\ ((j + 1) - 1) * m = m * j
        BY <1>1, <2>2, <2>3
    <2> QED
        BY <2>2, <2>4
<1> QED
    BY <1>1, <1>2, <1>3, Zenon

(* The fragments that send_bytes makes.                                    *)
Loop(s, c, q, x, total, m) ==
    /\ DOMAIN s = 1..c
    /\ \A i \in 1..c :
          /\ s[i].seq = q /\ s[i].total = total /\ s[i].of = x /\ s[i].frag = TRUE
          /\ s[i].off = (i - 1) * m /\ (i - 1) * m \in Nat /\ (i - 1) * m < total
          /\ s[i].len = IF m <= total - (i - 1) * m THEN m ELSE total - (i - 1) * m
    /\ \A y \in 1..total : \E j \in 1..c : (j - 1) * m < y /\ y <= (j - 1) * m + m

LEMMA Fragments ==
    ASSUME NEW q \in Nat, NEW x, NEW total \in Nat, ~FitsWhole(q, total, Mtu),
           NEW m \in Nat \ {0}, m = MaxPayload(q, total, Mtu),
           NEW s, s = SendBytes(q, x, total, Mtu)
    PROVE  \E c \in Nat : Loop(s, c, q, x, total, m)
<1> DEFINE C(i) == Bundle(TRUE, q, (i - 1) * m, Min({m, total - (i - 1) * m}), total, x)
<1>1. PICK c : c = (total + m - 1) \div m
    BY Zenon
<1>2. s = [i \in 1..c |-> C(i)]
    BY <1>1, Zenon DEF SendBytes, Chunks
<1>3. /\ c \in Nat
      /\ \A i \in 1..c : (i - 1) * m \in Nat /\ (i - 1) * m < total
      /\ \A y \in 1..total : \E i \in 1..c : (i - 1) * m < y /\ y <= (i - 1) * m + m
    BY <1>1, Turns, Zenon
<1>4. \A i : /\ C(i).seq = q /\ C(i).total = total /\ C(i).of = x /\ C(i).frag = TRUE
             /\ C(i).off = (i - 1) * m /\ C(i).len = Min({m, total - (i - 1) * m})
    BY Zenon DEF Bundle
<1> HIDE DEF C
<1>5. DOMAIN s = 1..c /\ \A i \in 1..c : s[i] = C(i)
    BY <1>2, Zenon
<1>6. ASSUME NEW i \in 1..c
      PROVE  s[i].len = IF m <= total - (i - 1) * m THEN m ELSE total - (i - 1) * m
    <2>1. PICK o : o = total - (i - 1) * m
        BY Zenon
    <2>2. s[i].len = Min({m, o})
        BY <1>4, <1>5, <2>1, Zenon
    <2>3. m \in Int /\ o \in Int
        BY <1>3, <2>1
    <2>4. Min({m, o}) = IF m <= o THEN m ELSE o
        BY <2>3, MinOfTwo, Zenon
    <2> QED
        BY <2>1, <2>2, <2>4, Zenon
<1>7. ASSUME NEW i \in 1..c
      PROVE  /\ s[i].seq = q /\ s[i].total = total /\ s[i].of = x /\ s[i].frag = TRUE
             /\ s[i].off = (i - 1) * m
    BY <1>4, <1>5, ZenonT(40)
<1>8. Loop(s, c, q, x, total, m)
    BY <1>3, <1>5, <1>6, <1>7, Zenon DEF Loop
<1> QED
    BY <1>3, <1>8, Zenon

(* What send_bytes makes of a payload, in the order it is sent.            *)
LEMMA SendFacts ==
    ASSUME NEW q \in Nat, NEW x, NEW total \in Nat, NEW s, s = SendBytes(q, x, total, Mtu)
    PROVE  /\ Len(s) \in Nat /\ DOMAIN s = 1..Len(s) /\ s \in Seq(Range(s))
           /\ \A i \in DOMAIN s : s[i].seq = q /\ s[i].total = total /\ s[i].of = x
           /\ \A i, j \in DOMAIN s : i < j => s[i].off < s[j].off
           /\ s # <<>> => Cuts(Range(s), q, total)
<1>1. PICK S : s \in Seq(S)
    BY SentBundles, Zenon DEF Carries
<1>2. Len(s) \in Nat /\ DOMAIN s = 1..Len(s) /\ s \in Seq(Range(s))
    BY <1>1 DEF Range
<1>3. PICK m : m = MaxPayload(q, total, Mtu)
    BY Zenon
<1>4. m \in Nat
    BY <1>3, PayloadType, Zenon
<1>5. CASE FitsWhole(q, total, Mtu)
    <2>1. PICK w : w = Bundle(FALSE, q, 0, total, total, x)
        BY Zenon
    <2>2. s = <<w>>
        BY <1>5, <2>1, Zenon DEF SendBytes
    <2>3. w.seq = q /\ w.total = total /\ w.of = x /\ w.off = 0 /\ w.len = total /\ w.frag = FALSE
        BY <2>1, Zenon DEF Bundle
    <2>4. Range(s) = {w} /\ DOMAIN s = {1} /\ s[1] = w
        BY <2>2 DEF Range
    <2>5. Cuts(Range(s), q, total)
        BY <2>3, <2>4 DEF Cuts
    <2>6. \A i, j \in DOMAIN s : ~(i < j)
        BY <2>4
    <2>7. \A i \in DOMAIN s : s[i].seq = q /\ s[i].total = total /\ s[i].of = x
        BY <2>3, <2>4, Zenon
    <2> QED
        BY <1>2, <2>5, <2>6, <2>7, Zenon
<1>6. CASE ~FitsWhole(q, total, Mtu) /\ m = 0
    BY <1>2, <1>3, <1>6 DEF SendBytes
<1>7. CASE ~FitsWhole(q, total, Mtu) /\ m # 0
    <2>0. PICK c \in Nat : Loop(s, c, q, x, total, m)
        BY <1>3, <1>4, <1>7, Fragments, Zenon
    <2>1. /\ c \in Nat /\ DOMAIN s = 1..c
          /\ \A i \in 1..c :
                /\ s[i].seq = q /\ s[i].total = total /\ s[i].of = x /\ s[i].frag = TRUE
                /\ s[i].off = (i - 1) * m /\ (i - 1) * m \in Nat /\ (i - 1) * m < total
                /\ s[i].len = IF m <= total - (i - 1) * m THEN m ELSE total - (i - 1) * m
        BY <2>0, Zenon DEF Loop
    <2>3. ASSUME NEW i \in 1..c
          PROVE  /\ s[i].off \in Nat /\ s[i].len \in Nat /\ s[i].len >= 1 /\ s[i].len <= m /\ s[i].off + s[i].len <= total
        <3>1. PICK o \in Nat : o = (i - 1) * m
            BY <2>1, Zenon
        <3>2. s[i].off = o /\ o < total /\ s[i].len = IF m <= total - o THEN m ELSE total - o
            BY <2>1, <3>1, Zenon
        <3> QED
            BY <1>4, <1>7, <3>2
    <2>2. ASSUME NEW i \in 1..c, NEW j \in 1..c, i < j
          PROVE  s[i].off < s[j].off /\ s[i].off + s[i].len <= s[j].off
        <3>1. i - 1 \in Nat /\ j - 1 \in Nat /\ i - 1 < j - 1
            BY <2>1, <2>2
        <3>2. (i - 1) * m \in Nat /\ (j - 1) * m \in Nat /\ (i - 1) * m + m <= (j - 1) * m
            BY <1>4, <1>7, <3>1, Multiples, Zenon
        <3>3. s[i].off = (i - 1) * m /\ s[j].off = (j - 1) * m
            BY <2>1, Zenon
        <3>4. s[i].len <= m /\ s[i].len \in Nat
            BY <2>3, Zenon
        <3> QED
            BY <1>4, <1>7, <3>2, <3>3, <3>4, SMTT(30)
    <2>4. s # <<>> => c >= 1
        BY <2>1
    <2>5. ASSUME c >= 1, NEW y \in 1..total PROVE \E b \in Range(s) : b.off < y /\ y <= b.off + b.len
        <3>1. PICK j \in 1..c : (j - 1) * m < y /\ y <= (j - 1) * m + m
            BY <2>0, Zenon DEF Loop
        <3>2. PICK o \in Nat : o = (j - 1) * m
            BY <2>1, Zenon
        <3>3. s[j].off = o /\ s[j].len = (IF m <= total - o THEN m ELSE total - o) /\ s[j] \in Range(s)
            BY <2>1, <3>2, Zenon DEF Range
        <3>4. s[j].off < y /\ y <= s[j].off + s[j].len
            BY <1>4, <3>1, <3>2, <3>3
        <3> QED
            BY <3>3, <3>4, Zenon
    <2>6. ASSUME NEW b \in Range(s) PROVE \E i \in 1..c : b = s[i]
        BY <2>1, Zenon DEF Range
    <2>7. \A b, c1 \in Range(s) : b.off = c1.off => b = c1
        <3> SUFFICES ASSUME NEW b \in Range(s), NEW d \in Range(s), b.off = d.off PROVE b = d
            BY Zenon
        <3>1. PICK i \in 1..c : b = s[i]
            BY <2>6, Zenon
        <3>2. PICK j \in 1..c : d = s[j]
            BY <2>6, Zenon
        <3>3. ~(i < j) /\ ~(j < i)
            BY <2>2, <2>3, <3>1, <3>2
        <3> QED
            BY <2>1, <3>1, <3>2, <3>3
    <2>8. \A b, d \in Range(s) : b.off < d.off => b.off + b.len <= d.off
        <3> SUFFICES ASSUME NEW b \in Range(s), NEW d \in Range(s), b.off < d.off PROVE b.off + b.len <= d.off
            BY Zenon
        <3>1. PICK i \in 1..c : b = s[i]
            BY <2>6, Zenon
        <3>2. PICK j \in 1..c : d = s[j]
            BY <2>6, Zenon
        <3>3. ~(j < i) /\ i # j
            BY <2>2, <2>3, <3>1, <3>2, SMTT(30)
        <3>4. i < j
            BY <2>1, <3>3
        <3> QED
            BY <2>2, <3>1, <3>2, <3>4, Zenon
    <2>9. ASSUME NEW b \in Range(s)
          PROVE  /\ b.seq = q /\ b.total = total /\ b.off \in Nat /\ b.len \in Nat /\ b.frag
                 /\ b.len >= 1 /\ b.off + b.len <= total
        <3>1. PICK i \in 1..c : b = s[i]
            BY <2>6, Zenon
        <3>2. s[i].seq = q /\ s[i].total = total /\ s[i].frag = TRUE
            BY <2>1, Zenon
        <3> QED
            BY <2>3, <3>1, <3>2, Zenon
    <2>10. s # <<>> => Cuts(Range(s), q, total)
        BY <2>4, <2>5, <2>7, <2>8, <2>9, Zenon DEF Cuts, Covers
    <2> QED
        BY <1>2, <2>1, <2>2, <2>10, Zenon
<1> QED
    BY <1>4, <1>5, <1>6, <1>7, Zenon

(* F keeps, by offset, parts of q, which was cut into A; entry holds them. *)
KeepsOf(F, entry, A, q, total) ==
    /\ total \in Nat /\ Cuts(A, q, total) /\ DOMAIN F # {}
    /\ \A o \in DOMAIN F : F[o] \in A /\ F[o].off = o /\ F[o].frag
    /\ entry.total = total /\ entry.fragments = F
KeepsAll(F, A) == \A b \in A : b.off \in DOMAIN F /\ F[b.off] = b

(* PendingBundle::is_complete: the parts are complete when they are all    *)
(* there are.                                                              *)
CompleteWhenAll ==
    \A F, entry, A, q, total : KeepsOf(F, entry, A, q, total) => (IsComplete(entry) <=> KeepsAll(F, A))
NoneDone(P) == \A s \in DOMAIN P : ~IsComplete(P[s])

PartBytes(F) == UNION {{o} \X (1..F[o].len) : o \in DOMAIN F}
Counts(f, W, total, F, A) ==
    /\ f \in [W -> 1..total] /\ \A v, w \in W : f[v] = f[w] => v = w
    /\ (\A y \in 1..total : \E w \in W : f[w] = y) <=> KeepsAll(F, A)

(* The bytes of the parts kept by offset, numbered as the bytes of the     *)
(* payload: no two have the same number, and none is missing when the      *)
(* parts are all there are.                                                *)
LEMMA PartsCounted ==
    ASSUME NEW F, NEW entry, NEW A, NEW q, NEW total, KeepsOf(F, entry, A, q, total)
    PROVE  \E f : Counts(f, PartBytes(F), total, F, A)
<1> PICK W : W = PartBytes(F)
    BY Zenon
<1> /\ total \in Nat /\ Cuts(A, q, total) /\ DOMAIN F # {}
    /\ \A o \in DOMAIN F : F[o] \in A /\ F[o].off = o /\ F[o].frag
    BY Zenon DEF KeepsOf
<1>0. Covers(A, total)
    BY DEF Cuts
<1>1. \A b \in A : b.off \in Nat /\ b.len \in Nat /\ b.len >= 1 /\ b.off + b.len <= total
    BY <1>0, Zenon DEF Cuts, Covers
<1>2. \A b, c \in A : b.off < c.off => b.off + b.len <= c.off
    BY <1>0, Zenon DEF Covers
<1>3. \A b, c \in A : b.off = c.off => b = c
    BY Zenon DEF Cuts
<1>4. \A o \in DOMAIN F : o \in Nat /\ F[o].len \in Nat /\ o + F[o].len <= total
    BY <1>1, Zenon
<1>5. \A w \in W : /\ w[1] \in DOMAIN F /\ w[2] \in Nat /\ 1 <= w[2] /\ w[2] <= F[w[1]].len
                   /\ w = <<w[1], w[2]>>
    BY <1>4 DEF PartBytes
<1>6. \A o \in DOMAIN F : \A i \in Nat : 1 <= i /\ i <= F[o].len => <<o, i>> \in W
    BY <1>4 DEF PartBytes
<1>7. PICK f : f = [w \in W |-> w[1] + w[2]]
    BY Zenon
<1>8. ASSUME NEW w \in W PROVE f[w] = w[1] + w[2] /\ f[w] \in 1..total
    <2>1. f[w] = w[1] + w[2]
        BY <1>7, Zenon
    <2>2. w[1] \in DOMAIN F /\ w[2] \in Nat /\ 1 <= w[2] /\ w[2] <= F[w[1]].len
        BY <1>5, Zenon
    <2>3. w[1] \in Nat /\ F[w[1]].len \in Nat /\ w[1] + F[w[1]].len <= total
        BY <1>4, <2>2, Zenon
    <2> QED
        BY <2>1, <2>2, <2>3
<1>9. f \in [W -> 1..total] /\ \A v, w \in W : f[v] = f[w] => v = w
    <2>1. f \in [W -> 1..total]
        BY <1>7, <1>8, Zenon
    <2>2. ASSUME NEW v \in W, NEW w \in W, f[v] = f[w] PROVE v = w
        <3>1. /\ v[1] \in DOMAIN F /\ v[2] \in Nat /\ 1 <= v[2] /\ v[2] <= F[v[1]].len /\ v = <<v[1], v[2]>>
              /\ w[1] \in DOMAIN F /\ w[2] \in Nat /\ 1 <= w[2] /\ w[2] <= F[w[1]].len /\ w = <<w[1], w[2]>>
            BY <1>5, Zenon
        <3>2. PICK a, b : a = F[v[1]] /\ b = F[w[1]]
            BY Zenon
        <3>3. a \in A /\ b \in A /\ a.off = v[1] /\ b.off = w[1]
            BY <3>1, <3>2, Zenon
        <3>4. v[1] \in Nat /\ w[1] \in Nat /\ v[1] + v[2] = w[1] + w[2]
            BY <1>4, <1>8, <2>2, <3>1, Zenon
        <3>5. a.len \in Nat /\ b.len \in Nat /\ v[2] <= a.len /\ w[2] <= b.len
            BY <1>1, <3>1, <3>2, <3>3, Zenon
        <3>6. ~(v[1] < w[1])
            BY <1>2, <3>1, <3>3, <3>4, <3>5, SMTT(30)
        <3>7. ~(w[1] < v[1])
            BY <1>2, <3>1, <3>3, <3>4, <3>5, SMTT(30)
        <3>8. v[1] = w[1] /\ v[2] = w[2]
            BY <3>1, <3>4, <3>6, <3>7
        <3> QED
            BY <3>1, <3>8, Zenon
    <2> QED
        BY <2>1, <2>2, Zenon
<1>10. ASSUME \A b \in A : b.off \in DOMAIN F /\ F[b.off] = b, NEW y \in 1..total
       PROVE  \E w \in W : f[w] = y
    <2>1. PICK b \in A : b.off < y /\ y <= b.off + b.len
        BY <1>0, Zenon DEF Covers
    <2>2. b.off \in DOMAIN F /\ F[b.off].len = b.len /\ b.off \in Nat /\ b.len \in Nat
        BY <1>1, <1>10, Zenon
    <2>3. PICK i : i = y - b.off
        BY Zenon
    <2>4. i \in Nat /\ 1 <= i /\ i <= F[b.off].len /\ b.off + i = y
        BY <2>1, <2>2, <2>3
    <2>5. <<b.off, i>> \in W
        BY <1>6, <2>2, <2>4, Zenon
    <2>6. f[<<b.off, i>>] = b.off + i
        BY <1>8, <2>5, Zenon
    <2> QED
        BY <2>4, <2>5, <2>6, Zenon
<1>11. ASSUME \A y \in 1..total : \E w \in W : f[w] = y, NEW b \in A
       PROVE  b.off \in DOMAIN F /\ F[b.off] = b
    <2>1. b.off \in Nat /\ b.len \in Nat /\ b.len >= 1 /\ b.off + b.len <= total
        BY <1>1, Zenon
    <2>2. b.off + 1 \in 1..total
        BY <2>1
    <2>3. PICK w \in W : f[w] = b.off + 1
        BY <1>11, <2>2, Zenon
    <2>4. w[1] \in DOMAIN F /\ w[2] \in Nat /\ 1 <= w[2] /\ w[2] <= F[w[1]].len
        BY <1>5, Zenon
    <2>5. PICK c : c = F[w[1]]
        BY Zenon
    <2>6. c \in A /\ c.off = w[1] /\ w[1] \in Nat /\ c.len \in Nat /\ w[2] <= c.len
        BY <1>1, <2>4, <2>5, Zenon
    <2>7. w[1] + w[2] = b.off + 1
        BY <1>8, <2>3, Zenon
    <2>8. ~(c.off < b.off)
        BY <1>2, <2>1, <2>4, <2>6, <2>7, SMTT(30)
    <2>9. c.off = b.off
        BY <2>1, <2>4, <2>6, <2>7, <2>8
    <2>10. c = b
        BY <1>3, <2>6, <2>9, Zenon
    <2> QED
        BY <2>4, <2>5, <2>6, <2>10, Zenon
<1>12. KeepsAll(F, A) => \A y \in 1..total : \E w \in W : f[w] = y
    BY <1>10, Zenon DEF KeepsAll
<1>13. (\A y \in 1..total : \E w \in W : f[w] = y) => KeepsAll(F, A)
    BY <1>11, Zenon DEF KeepsAll
<1>14. Counts(f, W, total, F, A)
    BY <1>9, <1>12, <1>13, Zenon DEF Counts
<1> QED
    BY <1>14, Zenon

-----------------------------------------------------------------------------
(* What is on its way to an end, but for the bundles a fault has disturbed. *)

Kept(P, s) == IF s \in DOMAIN P THEN {P[s].fragments[o] : o \in DOMAIN P[s].fragments} ELSE {}
Queued(Q, s) == {Q[i] : i \in {j \in DOMAIN Q : Q[j].seq = s}}
Parts(Q, P, s) == Queued(Q, s) \cup Kept(P, s)

Before(b, c) == b.seq < c.seq \/ (b.seq = c.seq /\ b.off < c.off)
InOrder(Q, P, D) ==
    /\ \A i, j \in DOMAIN Q : i < j /\ Q[i].seq \notin D /\ Q[j].seq \notin D => Before(Q[i], Q[j])
    /\ \A s \in DOMAIN P \ D : \A b \in Kept(P, s) :
          \A i \in DOMAIN Q : Q[i].seq \notin D => Before(b, Q[i])

Shaped(P, s) ==
    LET F == P[s].fragments IN
    /\ DOMAIN F # {}
    /\ \A o \in DOMAIN F : F[o].seq = s /\ F[o].off = o /\ F[o].frag /\ F[o].total = P[s].total

All(s, b) == Range(SendBytes(s, b.of, b.total, Mtu))
Entire(Q, P, s, open) ==
    \E b \in Parts(Q, P, s) :
        /\ b.total \in Nat /\ Parts(Q, P, s) \subseteq All(s, b)
        /\ open => All(s, b) \subseteq Parts(Q, P, s)
Open(Q, gone, D, s) == ~gone \/ \E i \in DOMAIN Q : Q[i].seq \notin D /\ Q[i].seq > s

Live(Q, P, D) == ({Q[i].seq : i \in DOMAIN Q} \cup DOMAIN P) \ D

Sound(Q, P, n, gone, D) ==
    /\ InOrder(Q, P, D)
    /\ \A s \in DOMAIN P \ D : Shaped(P, s)
    /\ \A s \in Live(Q, P, D) : s \in Nat /\ s < n /\ Entire(Q, P, s, Open(Q, gone, D, s))

Alone(P, D) == \A s, t \in DOMAIN P \ D : s = t

LEMMA EntireFacts ==
    ASSUME NEW Q, NEW P, NEW s \in Nat, NEW open, Entire(Q, P, s, open)
    PROVE  \E A : \E total \in Nat :
              /\ Cuts(A, s, total) /\ Parts(Q, P, s) \subseteq A
              /\ open => A \subseteq Parts(Q, P, s)
<1>1. PICK b \in Parts(Q, P, s) :
        /\ b.total \in Nat /\ Parts(Q, P, s) \subseteq All(s, b)
        /\ open => All(s, b) \subseteq Parts(Q, P, s)
    BY Zenon DEF Entire
<1>2. PICK u : u = SendBytes(s, b.of, b.total, Mtu)
    BY Zenon
<1>3. b \in Range(u) /\ All(s, b) = Range(u)
    BY <1>1, <1>2, Zenon DEF All
<1>4. u # <<>>
    BY <1>3 DEF Range
<1>5. Cuts(Range(u), s, b.total)
    <2>1. PICK x, total : x = b.of /\ total = b.total
        BY Zenon
    <2>2. total \in Nat /\ u = SendBytes(s, x, total, Mtu)
        BY <1>1, <1>2, <2>1, Zenon
    <2>3. Cuts(Range(u), s, total)
        BY <1>4, <2>2, SendFacts, Zenon
    <2> QED
        BY <2>1, <2>3, Zenon
<1> QED
    BY <1>1, <1>3, <1>5, Zenon

LEMMA EntireKept ==
    ASSUME NEW Q, NEW P, NEW s, NEW open, Entire(Q, P, s, open),
           NEW Q2, NEW P2, NEW open2, Parts(Q2, P2, s) = Parts(Q, P, s), open2 => open
    PROVE  Entire(Q2, P2, s, open2)
BY Zenon DEF Entire

(* Outside D, the bundles of Q2 are those of Q, in the same order.         *)
Follows(Q2, Q, h, D) ==
    /\ \A j \in DOMAIN Q2 : Q2[j].seq \notin D => h[j] \in DOMAIN Q /\ Q2[j] = Q[h[j]]
    /\ \A i, j \in DOMAIN Q2 : i < j /\ Q2[i].seq \notin D /\ Q2[j].seq \notin D => h[i] < h[j]
    /\ \A i \in DOMAIN Q : Q[i].seq \notin D => \E j \in DOMAIN Q2 : Q2[j] = Q[i]

(* What Sound says of the rest still holds when the bundles and the        *)
(* entries outside D2 are the same, in the same order.                     *)
LEMMA SoundKept ==
    ASSUME NEW Q, NEW P, NEW n, NEW gone \in BOOLEAN, NEW D, Sound(Q, P, n, gone, D),
           NEW D2, D \subseteq D2, NEW P2, DOMAIN P2 \ D2 = DOMAIN P \ D2,
           \A s \in DOMAIN P \ D2 : P2[s] = P[s],
           NEW Q2, NEW h, Follows(Q2, Q, h, D2)
    PROVE  Sound(Q2, P2, n, gone, D2)
<1>0. /\ \A j \in DOMAIN Q2 : Q2[j].seq \notin D2 => h[j] \in DOMAIN Q /\ Q2[j] = Q[h[j]]
      /\ \A i, j \in DOMAIN Q2 : i < j /\ Q2[i].seq \notin D2 /\ Q2[j].seq \notin D2 => h[i] < h[j]
      /\ \A i \in DOMAIN Q : Q[i].seq \notin D2 => \E j \in DOMAIN Q2 : Q2[j] = Q[i]
    BY Zenon DEF Follows
<1>1. ASSUME NEW s, s \notin D2 PROVE Kept(P2, s) = Kept(P, s)
    <2>1. s \in DOMAIN P2 <=> s \in DOMAIN P
        BY <1>1, Zenon
    <2>2. CASE s \in DOMAIN P
        <3>1. P2[s] = P[s]
            BY <1>1, <2>2, Zenon
        <3> QED
            BY <2>1, <2>2, <3>1, Zenon DEF Kept
    <2>3. CASE s \notin DOMAIN P
        BY <2>1, <2>3, Zenon DEF Kept
    <2> QED
        BY <2>2, <2>3, Zenon
<1>2. ASSUME NEW s, s \notin D2 PROVE Parts(Q2, P2, s) = Parts(Q, P, s)
    <2>1. Queued(Q2, s) = Queued(Q, s)
        BY <1>0, <1>2 DEF Queued
    <2> QED
        BY <1>1, <1>2, <2>1, Zenon DEF Parts
<1>3. InOrder(Q2, P2, D2)
    <2>1. ASSUME NEW i \in DOMAIN Q2, NEW j \in DOMAIN Q2, i < j, Q2[i].seq \notin D2, Q2[j].seq \notin D2
          PROVE  Before(Q2[i], Q2[j])
        <3>1. h[i] \in DOMAIN Q /\ h[j] \in DOMAIN Q /\ h[i] < h[j] /\ Q2[i] = Q[h[i]] /\ Q2[j] = Q[h[j]]
            BY <1>0, <2>1, Zenon
        <3> QED
            BY <2>1, <3>1, Zenon DEF Sound, InOrder
    <2>2. ASSUME NEW s \in DOMAIN P2 \ D2, NEW b \in Kept(P2, s), NEW i \in DOMAIN Q2, Q2[i].seq \notin D2
          PROVE  Before(b, Q2[i])
        <3>1. s \in DOMAIN P \ D /\ b \in Kept(P, s)
            BY <1>1, Zenon
        <3>2. h[i] \in DOMAIN Q /\ Q2[i] = Q[h[i]] /\ Q[h[i]].seq \notin D
            BY <1>0, <2>2, Zenon
        <3> QED
            BY <3>1, <3>2, Zenon DEF Sound, InOrder
    <2> QED
        BY <2>1, <2>2, Zenon DEF InOrder
<1>4. ASSUME NEW s \in DOMAIN P2 \ D2 PROVE Shaped(P2, s)
    <2>1. s \in DOMAIN P \ D /\ P2[s] = P[s]
        BY Zenon
    <2>2. Shaped(P, s)
        BY <2>1, Zenon DEF Sound
    <2> QED
        BY <2>1, <2>2 DEF Shaped
<1>5. ASSUME NEW s \in Live(Q2, P2, D2)
      PROVE  s \in Nat /\ s < n /\ Entire(Q2, P2, s, Open(Q2, gone, D2, s))
    <2>1. s \notin D2 /\ s \in Live(Q, P, D)
        BY <1>0 DEF Live
    <2>2. s \in Nat /\ s < n /\ Entire(Q, P, s, Open(Q, gone, D, s))
        BY <2>1, Zenon DEF Sound
    <2>3. Open(Q2, gone, D2, s) => Open(Q, gone, D, s)
        BY <1>0, Zenon DEF Open
    <2> QED
        BY <1>2, <2>1, <2>2, <2>3, EntireKept, Zenon
<1> QED
    BY <1>3, <1>4, <1>5, Zenon DEF Sound

-----------------------------------------------------------------------------
(* The next bundle arrives.                                                *)

LEMMA TailFacts ==
    ASSUME NEW S, NEW Q \in Seq(S), Q # <<>>, NEW T, T = Tail(Q)
    PROVE  /\ Head(Q) = Q[1] /\ 1 \in DOMAIN Q
           /\ \A i \in DOMAIN T : i + 1 \in DOMAIN Q /\ T[i] = Q[i + 1] /\ i \in Nat /\ i >= 1
           /\ \A j \in DOMAIN Q : j # 1 => j - 1 \in DOMAIN T /\ T[j - 1] = Q[j] /\ j \in Nat /\ j > 1
OBVIOUS

(* The rest of the stream after its first bundle.                          *)
LEMMA RestQueued ==
    ASSUME NEW S, NEW Q \in Seq(S), Q # <<>>, NEW s, s # Head(Q).seq
    PROVE  Queued(Tail(Q), s) = Queued(Q, s)
<1>0. PICK T : T = Tail(Q)
    BY Zenon
<1>1. /\ Head(Q) = Q[1] /\ 1 \in DOMAIN Q
      /\ \A i \in DOMAIN T : i + 1 \in DOMAIN Q /\ T[i] = Q[i + 1] /\ i \in Nat /\ i >= 1
      /\ \A j \in DOMAIN Q : j # 1 => j - 1 \in DOMAIN T /\ T[j - 1] = Q[j] /\ j \in Nat /\ j > 1
    BY <1>0, TailFacts
<1>2. Queued(T, s) = Queued(Q, s)
    BY <1>1 DEF Queued
<1> QED
    BY <1>0, <1>2, Zenon

(* An undisturbed bundle comes up: at most its own is half received.       *)
LEMMA OthersAreDone ==
    ASSUME CompleteWhenAll, NEW S, NEW Q \in Seq(S), Q # <<>>, NEW P, NEW n \in Nat, NEW gone \in BOOLEAN, NEW D,
           Sound(Q, P, n, gone, D), NoneDone(P), Head(Q).seq \notin D
    PROVE  DOMAIN P \ D \subseteq {Head(Q).seq}
<1> SUFFICES ASSUME NEW t \in DOMAIN P \ D, t # Head(Q).seq PROVE FALSE
    BY Zenon
<1>1. PICK b : b = Head(Q)
    BY Zenon
<1>2. b = Q[1] /\ 1 \in DOMAIN Q /\ b.seq \notin D /\ b.seq # t /\ \A i \in DOMAIN Q : i \in Nat /\ (i = 1 \/ 1 < i)
    BY <1>1
<1>3. PICK F : F = P[t].fragments
    BY Zenon
<1>4. /\ DOMAIN F # {}
      /\ \A o \in DOMAIN F : F[o].seq = t /\ F[o].off = o /\ F[o].frag /\ F[o].total = P[t].total
    BY <1>3 DEF Sound, Shaped
<1>5. Kept(P, t) = {F[o] : o \in DOMAIN F}
    BY <1>3, Zenon DEF Kept
<1>6. PICK c \in Kept(P, t) : c.seq = t
    BY <1>4, <1>5
<1>7. t \in Live(Q, P, D) /\ b.seq \in Live(Q, P, D)
    BY <1>2, Zenon DEF Live
<1>8. t \in Nat /\ b.seq \in Nat /\ Entire(Q, P, t, Open(Q, gone, D, t))
    BY <1>7, Zenon DEF Sound
<1>9. Before(c, b)
    BY <1>2, Zenon DEF Sound, InOrder
<1>10. t < b.seq
    BY <1>2, <1>6, <1>9, Zenon DEF Before
<1>11. Open(Q, gone, D, t)
    BY <1>2, <1>8, <1>10, Zenon DEF Open
<1>12. PICK A : \E total \in Nat : Cuts(A, t, total) /\ Parts(Q, P, t) \subseteq A /\ A \subseteq Parts(Q, P, t)
    BY <1>8, <1>11, EntireFacts, Zenon
<1>13. PICK total \in Nat : Cuts(A, t, total) /\ Parts(Q, P, t) \subseteq A /\ A \subseteq Parts(Q, P, t)
    BY <1>12, Zenon
<1>14. ASSUME NEW i \in DOMAIN Q PROVE Q[i].seq # t
    <2> SUFFICES ASSUME Q[i].seq = t PROVE FALSE
        BY Zenon
    <2>1. 1 < i
        BY <1>2, Zenon
    <2>2. Before(b, Q[i])
        BY <1>2, <2>1, Zenon DEF Sound, InOrder
    <2> QED
        BY <1>8, <1>10, <2>2 DEF Before
<1>15. Parts(Q, P, t) = Kept(P, t)
    BY <1>14, Zenon DEF Parts, Queued
<1>16. \A a \in A : a.off \in DOMAIN F /\ F[a.off] = a
    BY <1>4, <1>5, <1>13, <1>15, SMTT(30)
<1>17. \A o \in DOMAIN F : F[o] \in A
    BY <1>5, <1>13, <1>15, Zenon
<1>18. P[t].total = total
    <2>1. PICK o \in DOMAIN F : TRUE
        BY <1>4, Zenon
    <2>2. F[o].total = P[t].total /\ F[o] \in A
        BY <1>4, <1>17, Zenon
    <2> QED
        BY <1>13, <2>2, Zenon DEF Cuts
<1>19. IsComplete(P[t])
    <2>1. PICK entry : entry = P[t]
        BY Zenon
    <2>2. KeepsOf(F, entry, A, t, total)
        BY <1>3, <1>4, <1>13, <1>17, <1>18, <2>1, Zenon DEF KeepsOf
    <2>3. KeepsAll(F, A)
        BY <1>16, Zenon DEF KeepsAll
    <2> QED
        BY <2>1, <2>2, <2>3, Zenon DEF CompleteWhenAll
<1> QED
    BY <1>19, Zenon DEF NoneDone

(* A whole bundle comes up.                                                *)
LEMMA WholeSound ==
    ASSUME NEW S, NEW Q \in Seq(S), Q # <<>>, NEW P, NEW n \in Nat, NEW gone \in BOOLEAN, NEW D,
           Sound(Q, P, n, gone, D), Head(Q).seq \notin D, ~Head(Q).frag,
           NEW T, T = Tail(Q)
    PROVE  Sound(T, P, n, gone, D)
<1>1. PICK b : b = Head(Q)
    BY Zenon
<1>2. /\ b = Q[1] /\ 1 \in DOMAIN Q /\ b.seq \notin D
      /\ \A i \in DOMAIN T : i + 1 \in DOMAIN Q /\ T[i] = Q[i + 1] /\ i \in Nat /\ i >= 1
    BY <1>1, TailFacts
<1>3. b.seq \in Live(Q, P, D)
    BY <1>2, Zenon DEF Live
<1>4. b.seq \in Nat /\ Entire(Q, P, b.seq, Open(Q, gone, D, b.seq))
    BY <1>3, Zenon DEF Sound
<1>5. PICK A, total : total \in Nat /\ Cuts(A, b.seq, total) /\ Parts(Q, P, b.seq) \subseteq A
    BY <1>4, EntireFacts, Zenon
<1>6. b \in Parts(Q, P, b.seq) /\ b \in A
    BY <1>2, <1>5, Zenon DEF Parts, Queued
<1>7. \A c, d \in A : ~c.frag /\ c = d
    <2>1. ~b.frag
        BY <1>1, Zenon
    <2> QED
        BY <1>5, <1>6, <2>1, Zenon DEF Cuts, Covers
<1>8. b.seq \notin DOMAIN P
    <2> SUFFICES ASSUME b.seq \in DOMAIN P PROVE FALSE
        BY Zenon
    <2>1. Shaped(P, b.seq)
        BY <1>2, Zenon DEF Sound
    <2>2. PICK o \in DOMAIN P[b.seq].fragments : P[b.seq].fragments[o].frag
        BY <2>1, Zenon DEF Shaped
    <2>3. P[b.seq].fragments[o] \in Parts(Q, P, b.seq)
        BY <2>2, Zenon DEF Parts, Queued, Kept
    <2> QED
        BY <1>5, <1>7, <2>2, <2>3, Zenon
<1>9. ASSUME NEW i \in DOMAIN T PROVE T[i].seq # b.seq
    <2> SUFFICES ASSUME T[i].seq = b.seq PROVE FALSE
        BY Zenon
    <2>1. i + 1 \in DOMAIN Q /\ 1 < i + 1 /\ Q[i + 1].seq = b.seq
        BY <1>2
    <2>2. Before(b, Q[i + 1])
        BY <1>2, <2>1, Zenon DEF Sound, InOrder
    <2>3. Q[i + 1] \in A
        BY <1>5, <2>1, Zenon DEF Parts, Queued
    <2>4. b = Q[i + 1] /\ b.off \in Nat
        BY <1>5, <1>6, <1>7, <2>3, Zenon DEF Cuts
    <2> QED
        BY <1>4, <2>2, <2>4 DEF Before
<1>10. InOrder(T, P, D)
    <2>1. ASSUME NEW i \in DOMAIN T, NEW j \in DOMAIN T, i < j, T[i].seq \notin D, T[j].seq \notin D
          PROVE  Before(T[i], T[j])
        BY <1>2, <2>1 DEF Sound, InOrder
    <2>2. ASSUME NEW s \in DOMAIN P \ D, NEW c \in Kept(P, s), NEW i \in DOMAIN T, T[i].seq \notin D
          PROVE  Before(c, T[i])
        BY <1>2, <2>2, Zenon DEF Sound, InOrder
    <2> QED
        BY <2>1, <2>2, Zenon DEF InOrder
<1>11. ASSUME NEW s \in Live(T, P, D) PROVE s \in Nat /\ s < n /\ Entire(T, P, s, Open(T, gone, D, s))
    <2>1. s # b.seq /\ s \in Live(Q, P, D)
        BY <1>2, <1>8, <1>9 DEF Live
    <2>2. s \in Nat /\ s < n /\ Entire(Q, P, s, Open(Q, gone, D, s))
        BY <2>1, Zenon DEF Sound
    <2>3. Open(T, gone, D, s) => Open(Q, gone, D, s)
        BY <1>2, Zenon DEF Open
    <2>4. Parts(T, P, s) = Parts(Q, P, s)
        <3>1. s # Head(Q).seq
            BY <1>1, <2>1, Zenon
        <3> QED
            BY <3>1, RestQueued, Zenon DEF Parts
    <2> QED
        BY <2>2, <2>3, <2>4, EntireKept, Zenon
<1> QED
    BY <1>10, <1>11, Zenon DEF Sound

(* What recv_bytes makes of the entry for a fragment.                      *)
LEMMA StoredFacts ==
    ASSUME NEW P, NEW b
    PROVE  /\ b.seq \notin DOMAIN P =>
                 Stored(P, b).total = b.total /\ Stored(P, b).fragments = Put(<<>>, b.off, b)
           /\ b.seq \in DOMAIN P =>
                 /\ Stored(P, b).total = P[b.seq].total
                 /\ Stored(P, b).fragments = Put(P[b.seq].fragments, b.off, b)
BY Zenon DEF Stored

(* A fragment comes up: with it, its entry has what was kept and it.       *)
Grown(Q, P, b, q, entry, F) ==
    /\ q \in Nat
    /\ \A o \in DOMAIN F : F[o].seq = q /\ F[o].off = o /\ F[o].frag /\ F[o].total = entry.total
    /\ b.off \in DOMAIN F
    /\ {F[o] : o \in DOMAIN F} = Kept(P, q) \cup {b}
    /\ \E A : \E total \in Nat : /\ Cuts(A, q, total) /\ Parts(Q, P, q) \subseteq A
                                 /\ entry.total = total /\ \A o \in DOMAIN F : F[o] \in A

LEMMA FragmentStored ==
    ASSUME NEW S, NEW Q \in Seq(S), Q # <<>>, NEW P, NEW n \in Nat, NEW gone \in BOOLEAN, NEW D,
           Sound(Q, P, n, gone, D), Head(Q).seq \notin D, Head(Q).frag
    PROVE  Grown(Q, P, Head(Q), Head(Q).seq, Stored(P, Head(Q)), Stored(P, Head(Q)).fragments)
<1> DEFINE b == Head(Q)
           q == Head(Q).seq
           entry == Stored(P, Head(Q))
           F == Stored(P, Head(Q)).fragments
<1> HIDE DEF b, q, entry, F
<1>0. b = Head(Q) /\ q = b.seq /\ q \notin D /\ b.frag /\ entry = Stored(P, b) /\ F = entry.fragments
    BY Zenon DEF b, q, entry, F
<1>1. b = Q[1] /\ 1 \in DOMAIN Q
    BY <1>0
<1>2. q \in Live(Q, P, D)
    BY <1>0, <1>1, Zenon DEF Live
<1>3. q \in Nat /\ Entire(Q, P, q, Open(Q, gone, D, q))
    BY <1>2, Zenon DEF Sound
<1>4. PICK A, total : total \in Nat /\ Cuts(A, q, total) /\ Parts(Q, P, q) \subseteq A
    BY <1>3, EntireFacts, Zenon
<1>5. b \in A
    BY <1>0, <1>1, <1>4, Zenon DEF Parts, Queued
<1>6. b.total = total /\ b.off \in Nat
    BY <1>4, <1>5, ZenonT(40) DEF Cuts
<1>7. ASSUME q \notin DOMAIN P
      PROVE  Grown(Q, P, b, q, entry, F)
    <2>1. entry.total = b.total /\ DOMAIN F = {b.off} /\ F[b.off] = b /\ Kept(P, q) = {}
        <3>1. entry.total = b.total /\ F = Put(<<>>, b.off, b)
            BY <1>0, <1>7, StoredFacts, Zenon
        <3>2. DOMAIN <<>> = {}
            OBVIOUS
        <3> QED
            BY <1>7, <3>1, <3>2, Zenon DEF Kept, Put
    <2> QED
        BY <1>0, <1>3, <1>4, <1>5, <1>6, <2>1, SMTT(30) DEF Grown
<1>8. ASSUME q \in DOMAIN P
      PROVE  Grown(Q, P, b, q, entry, F)
    <2>1. PICK G : G = P[q].fragments
        BY Zenon
    <2>2. /\ entry.total = P[q].total /\ DOMAIN F = DOMAIN G \cup {b.off} /\ F[b.off] = b
          /\ \A o \in DOMAIN G : o # b.off => F[o] = G[o]
        <3>1. entry.total = P[q].total /\ F = Put(G, b.off, b)
            BY <1>0, <1>8, <2>1, StoredFacts, SMTT(30)
        <3> QED
            BY <3>1, Zenon DEF Put
    <2>3. Kept(P, q) = {G[o] : o \in DOMAIN G}
        BY <1>8, <2>1, ZenonT(40) DEF Kept
    <2>4. /\ DOMAIN G # {}
          /\ \A o \in DOMAIN G : G[o].seq = q /\ G[o].off = o /\ G[o].frag /\ G[o].total = P[q].total
        BY <1>0, <1>8, <2>1, SMTT(30) DEF Sound, Shaped
    <2>5. \A o \in DOMAIN G : G[o] \in A
        BY <1>4, <2>3, Zenon DEF Parts, Queued
    <2>6. P[q].total = total
        <3>1. PICK o \in DOMAIN G : TRUE
            BY <2>4, Zenon
        <3>2. G[o].total = P[q].total /\ G[o].total = total
            BY <1>4, <2>4, <2>5, Zenon DEF Cuts
        <3> QED
            BY <3>2, Zenon
    <2>7. b.off \notin DOMAIN G
        <3> SUFFICES ASSUME b.off \in DOMAIN G PROVE FALSE
            BY Zenon
        <3>1. Before(G[b.off], b)
            BY <1>0, <1>1, <1>8, <2>3, ZenonT(40) DEF Sound, InOrder
        <3>2. G[b.off].off = b.off /\ G[b.off].seq = q
            BY <2>4, Zenon
        <3> QED
            BY <1>0, <1>3, <1>6, <3>1, <3>2, SMTT(30) DEF Before
    <2>8. \A o \in DOMAIN F : (o = b.off /\ F[o] = b) \/ (o \in DOMAIN G /\ F[o] = G[o])
        BY <2>2, Zenon
    <2>9. {F[o] : o \in DOMAIN F} = Kept(P, q) \cup {b}
        BY <2>2, <2>3, <2>7
    <2>10. \A o \in DOMAIN F : F[o].seq = q /\ F[o].off = o /\ F[o].frag /\ F[o].total = entry.total /\ F[o] \in A
        BY <1>0, <1>5, <1>6, <2>2, <2>4, <2>5, <2>6, <2>8, SMTT(30)
    <2> QED
        BY <1>3, <1>4, <2>2, <2>6, <2>9, <2>10, Zenon DEF Grown
<1> QED
    BY <1>7, <1>8, Zenon DEF b, q, entry, F

(* The entry is not complete, and is kept.                                 *)
LEMMA KeepSound ==
    ASSUME NEW S, NEW Q \in Seq(S), Q # <<>>, NEW P, NEW n \in Nat, NEW gone \in BOOLEAN, NEW D,
           Sound(Q, P, n, gone, D), Head(Q).seq \notin D, Head(Q).frag, DOMAIN P \ D \subseteq {Head(Q).seq}
    PROVE  LET r == Put(P, Head(Q).seq, Stored(P, Head(Q))) IN
           Sound(Tail(Q), r, n, gone, D) /\ DOMAIN r \ D = {Head(Q).seq}
<1>0. PICK b, q, entry, r, T : /\ b = Head(Q) /\ q = b.seq /\ entry = Stored(P, b)
                               /\ r = Put(P, q, entry) /\ T = Tail(Q)
    BY Zenon
<1>a. q \notin D /\ b.frag /\ DOMAIN P \ D \subseteq {q}
    BY <1>0, Zenon
<1>b. PICK F : F = entry.fragments
    BY Zenon
<1>1. Grown(Q, P, b, q, entry, F)
    BY <1>0, <1>a, <1>b, FragmentStored, Zenon
<1>2. /\ q \in Nat
      /\ \A o \in DOMAIN F : F[o].seq = q /\ F[o].off = o /\ F[o].frag /\ F[o].total = entry.total
      /\ b.off \in DOMAIN F
      /\ {F[o] : o \in DOMAIN F} = Kept(P, q) \cup {b}
    BY <1>1, Zenon DEF Grown
<1>3. r[q] = entry /\ DOMAIN r = DOMAIN P \cup {q} /\ DOMAIN r \ D = {q}
    BY <1>0, <1>a, Zenon DEF Put
<1>4. Kept(r, q) = Kept(P, q) \cup {b}
    <2>1. Kept(r, q) = {F[o] : o \in DOMAIN F}
        BY <1>b, <1>3, Zenon DEF Kept
    <2> QED
        BY <1>2, <2>1, Zenon
<1>5. /\ b = Q[1] /\ 1 \in DOMAIN Q
      /\ \A i \in DOMAIN T : i + 1 \in DOMAIN Q /\ T[i] = Q[i + 1] /\ i \in Nat /\ i >= 1
      /\ \A j \in DOMAIN Q : j # 1 => j - 1 \in DOMAIN T /\ T[j - 1] = Q[j] /\ j \in Nat /\ j > 1
    BY <1>0, TailFacts
<1>6. InOrder(T, r, D)
    <2>1. ASSUME NEW i \in DOMAIN T, NEW j \in DOMAIN T, i < j, T[i].seq \notin D, T[j].seq \notin D
          PROVE  Before(T[i], T[j])
        BY <1>5, <2>1 DEF Sound, InOrder
    <2>2. ASSUME NEW c \in Kept(r, q), NEW i \in DOMAIN T, T[i].seq \notin D
          PROVE  Before(c, T[i])
        <3>1. i + 1 \in DOMAIN Q /\ T[i] = Q[i + 1] /\ 1 < i + 1
            BY <1>5, SMTT(30)
        <3>2. CASE c = b
            BY <1>0, <1>a, <1>5, <2>2, <3>1, <3>2, SMTT(30) DEF Sound, InOrder
        <3>3. CASE c \in Kept(P, q)
            <4>1. q \in DOMAIN P \ D
                BY <1>a, <3>3, Zenon DEF Kept
            <4> QED
                BY <2>2, <3>1, <3>3, <4>1, Zenon DEF Sound, InOrder
        <3> QED
            BY <1>4, <3>2, <3>3, Zenon
    <2> QED
        BY <1>3, <2>1, <2>2, Zenon DEF InOrder
<1>7. Shaped(r, q)
    <2>1. r[q].fragments = F /\ r[q].total = entry.total /\ DOMAIN F # {}
        BY <1>b, <1>2, <1>3, Zenon
    <2>2. \A o \in DOMAIN F : F[o].seq = q /\ F[o].off = o /\ F[o].frag /\ F[o].total = entry.total
        BY <1>2, Zenon
    <2> QED
        BY <2>1, <2>2, Zenon DEF Shaped
<1>8. ASSUME NEW s \in Live(T, r, D) PROVE s \in Nat /\ s < n /\ Entire(T, r, s, Open(T, gone, D, s))
    <2>1. s \in Live(Q, P, D) /\ s \notin D
        BY <1>0, <1>3, <1>5 DEF Live
    <2>2. s \in Nat /\ s < n /\ Entire(Q, P, s, Open(Q, gone, D, s))
        BY <2>1, Zenon DEF Sound
    <2>3. Open(T, gone, D, s) => Open(Q, gone, D, s)
        BY <1>5, Zenon DEF Open
    <2>4. CASE s # q
        <3>1. Kept(r, s) = {} /\ Kept(P, s) = {}
            BY <1>a, <1>3, <2>1, <2>4, Zenon DEF Kept
        <3>2. Queued(T, s) = Queued(Q, s)
            BY <2>4, <1>0, RestQueued, Zenon
        <3>3. Parts(T, r, s) = Parts(Q, P, s)
            BY <3>1, <3>2, Zenon DEF Parts
        <3> QED
            BY <2>2, <2>3, <3>3, EntireKept, Zenon
    <2>5. CASE s = q
        <3>1. Queued(Q, q) = Queued(T, q) \cup {b}
            <4>1. ASSUME NEW c \in Queued(Q, q) PROVE c \in Queued(T, q) \cup {b}
                <5>1. PICK i \in DOMAIN Q : Q[i].seq = q /\ c = Q[i]
                    BY Zenon DEF Queued
                <5>2. i = 1 \/ (i - 1 \in DOMAIN T /\ T[i - 1] = c)
                    BY <1>5, <5>1, Zenon
                <5> QED
                    BY <1>5, <5>1, <5>2, SMTT(30) DEF Queued
            <4>2. ASSUME NEW c \in Queued(T, q) PROVE c \in Queued(Q, q)
                BY <1>5 DEF Queued
            <4>3. b \in Queued(Q, q)
                BY <1>0, <1>5, Zenon DEF Queued
            <4> QED
                BY <4>1, <4>2, <4>3, Zenon
        <3>2. Parts(T, r, q) = Parts(Q, P, q)
            BY <1>4, <3>1, Zenon DEF Parts
        <3> QED
            BY <2>2, <2>3, <2>5, <3>2, EntireKept, Zenon
    <2> QED
        BY <2>4, <2>5, Zenon
<1>9. Sound(T, r, n, gone, D)
    BY <1>3, <1>6, <1>7, <1>8, Zenon DEF Sound
<1> QED
    BY <1>0, <1>3, <1>9, Zenon

(* The entry is complete, and is removed: no part of it is still to come.  *)
LEMMA DoneSound ==
    ASSUME CompleteWhenAll, NEW S, NEW Q \in Seq(S), Q # <<>>, NEW P, NEW n \in Nat, NEW gone \in BOOLEAN, NEW D,
           Sound(Q, P, n, gone, D), Head(Q).seq \notin D, Head(Q).frag, DOMAIN P \ D \subseteq {Head(Q).seq},
           IsComplete(Stored(P, Head(Q)))
    PROVE  LET r == Without(P, Head(Q).seq) IN
           Sound(Tail(Q), r, n, gone, D) /\ DOMAIN r \ D = {}
<1>0. PICK b, q, entry, r, T : /\ b = Head(Q) /\ q = b.seq /\ entry = Stored(P, b)
                               /\ r = Without(P, q) /\ T = Tail(Q)
    BY Zenon
<1>a. q \notin D /\ b.frag /\ DOMAIN P \ D \subseteq {q} /\ IsComplete(entry)
    BY <1>0, Zenon
<1>b. PICK F : F = entry.fragments
    BY Zenon
<1>1. Grown(Q, P, b, q, entry, F)
    BY <1>0, <1>a, <1>b, FragmentStored, Zenon
<1>2. /\ q \in Nat
      /\ \A o \in DOMAIN F : F[o].seq = q /\ F[o].off = o /\ F[o].frag /\ F[o].total = entry.total
      /\ b.off \in DOMAIN F
      /\ {F[o] : o \in DOMAIN F} = Kept(P, q) \cup {b}
      /\ \E A : \E total \in Nat : /\ Cuts(A, q, total) /\ Parts(Q, P, q) \subseteq A
                                   /\ entry.total = total /\ \A o \in DOMAIN F : F[o] \in A
    BY <1>1, Zenon DEF Grown
<1>3. PICK A, total : /\ total \in Nat /\ Cuts(A, q, total) /\ Parts(Q, P, q) \subseteq A
                      /\ entry.total = total /\ \A o \in DOMAIN F : F[o] \in A
    BY <1>2, Zenon
<1>4. \A a \in A : a.off \in DOMAIN F /\ F[a.off] = a
    <2>1. KeepsOf(F, entry, A, q, total)
        BY <1>b, <1>2, <1>3, Zenon DEF KeepsOf
    <2>2. KeepsAll(F, A)
        BY <1>a, <2>1, Zenon DEF CompleteWhenAll
    <2> QED
        BY <2>2, Zenon DEF KeepsAll
<1>5. DOMAIN r \ D = {}
    BY <1>0, <1>a, Zenon DEF Without
<1>6. /\ b = Q[1] /\ 1 \in DOMAIN Q
      /\ \A i \in DOMAIN T : i + 1 \in DOMAIN Q /\ T[i] = Q[i + 1] /\ i \in Nat /\ i >= 1
    BY <1>0, TailFacts, SMTT(30)
<1>7. ASSUME NEW i \in DOMAIN T PROVE T[i].seq # q
    <2> SUFFICES ASSUME T[i].seq = q PROVE FALSE
        BY Zenon
    <2>1. PICK a : a = Q[i + 1]
        BY Zenon
    <2>2. i + 1 \in DOMAIN Q /\ 1 < i + 1 /\ a.seq = q /\ a.seq \notin D
        BY <1>a, <1>6, <2>1, SMTT(30)
    <2>3. a \in A
        BY <1>3, <2>1, <2>2, ZenonT(40) DEF Parts, Queued
    <2>4. a \in Kept(P, q) \cup {b} /\ a.off \in Nat
        BY <1>2, <1>3, <1>4, <2>3, SMTT(30) DEF Cuts
    <2>5. Before(a, a)
        <3>1. CASE a = b
            <4>1. Q[1].seq \notin D /\ Q[1] = a /\ Q[i + 1] = a
                BY <1>0, <1>a, <1>6, <2>1, <3>1, Zenon
            <4> QED
                BY <1>6, <2>2, <4>1, SMTT(30) DEF Sound, InOrder
        <3>2. CASE a \in Kept(P, q)
            <4>1. q \in DOMAIN P \ D
                BY <1>a, <3>2, Zenon DEF Kept
            <4> QED
                BY <2>1, <2>2, <3>2, <4>1, Zenon DEF Sound, InOrder
        <3> QED
            BY <2>4, <3>1, <3>2, ZenonT(40)
    <2> QED
        BY <1>2, <2>2, <2>4, <2>5, SMTT(30) DEF Before
<1>8. InOrder(T, r, D)
    <2>1. ASSUME NEW i \in DOMAIN T, NEW j \in DOMAIN T, i < j, T[i].seq \notin D, T[j].seq \notin D
          PROVE  Before(T[i], T[j])
        BY <1>6, <2>1 DEF Sound, InOrder
    <2> QED
        BY <1>5, <2>1, Zenon DEF InOrder
<1>9. ASSUME NEW s \in Live(T, r, D) PROVE s \in Nat /\ s < n /\ Entire(T, r, s, Open(T, gone, D, s))
    <2>1. s \in Live(Q, P, D) /\ s \notin D /\ s # q
        BY <1>0, <1>5, <1>6, <1>7, SMTT(30) DEF Live
    <2>2. s \in Nat /\ s < n /\ Entire(Q, P, s, Open(Q, gone, D, s))
        BY <2>1, Zenon DEF Sound
    <2>3. Open(T, gone, D, s) => Open(Q, gone, D, s)
        BY <1>6, Zenon DEF Open
    <2>4. Kept(r, s) = {} /\ Kept(P, s) = {}
        BY <1>a, <1>5, <2>1, Zenon DEF Kept
    <2>5. Queued(T, s) = Queued(Q, s)
        BY <2>1, <1>0, RestQueued, Zenon
    <2>6. Parts(T, r, s) = Parts(Q, P, s)
        BY <2>4, <2>5, Zenon DEF Parts
    <2> QED
        BY <2>2, <2>3, <2>6, EntireKept, ZenonT(40)
<1> QED
    <2>1. Sound(T, r, n, gone, D)
        BY <1>5, <1>8, <1>9, Zenon DEF Sound
    <2> QED
        BY <1>0, <1>5, <2>1, Zenon

(* recv_bytes takes the first bundle.                                      *)
LEMMA RecvSound ==
    ASSUME CompleteWhenAll, NEW S, NEW Q \in Seq(S), Q # <<>>, NEW P, NEW n \in Nat, NEW gone \in BOOLEAN, NEW D,
           Sound(Q, P, n, gone, D), Alone(P, D), \A s \in DOMAIN P : ~IsComplete(P[s]),
           NEW r, r = RecvBundle(P, Head(Q)).pending
    PROVE  Sound(Tail(Q), r, n, gone, D) /\ Alone(r, D)
<1>1. PICK b, q, T, entry : b = Head(Q) /\ q = b.seq /\ T = Tail(Q) /\ entry = Stored(P, b)
    BY Zenon
<1>2. r = IF ~b.frag THEN P ELSE IF IsComplete(entry) THEN Without(P, q) ELSE Put(P, q, entry)
    BY <1>1, Zenon DEF RecvBundle
<1>3. CASE q \in D
    <2>1. DOMAIN r \ D = DOMAIN P \ D /\ \A s \in DOMAIN P \ D : r[s] = P[s]
        BY <1>2, <1>3, Zenon DEF Without, Put
    <2>2. /\ Head(Q) = Q[1] /\ 1 \in DOMAIN Q
          /\ \A i \in DOMAIN T : i + 1 \in DOMAIN Q /\ T[i] = Q[i + 1] /\ i \in Nat /\ i >= 1
          /\ \A j \in DOMAIN Q : j # 1 => j - 1 \in DOMAIN T /\ T[j - 1] = Q[j] /\ j \in Nat /\ j > 1
        BY <1>1, TailFacts
    <2>3. PICK h : h = [i \in DOMAIN T |-> i + 1]
        BY Zenon
    <2>4. \A i \in DOMAIN T : h[i] \in DOMAIN Q /\ T[i] = Q[h[i]]
        BY <2>2, <2>3, Zenon
    <2>5. \A i, j \in DOMAIN T : i < j => h[i] < h[j]
        BY <2>2, <2>3
    <2>6. Follows(T, Q, h, D)
        BY <1>1, <1>3, <2>2, <2>4, <2>5, Zenon DEF Follows
    <2>7. Sound(T, r, n, gone, D)
        BY <2>1, <2>6, SoundKept, Zenon
    <2> QED
        BY <1>1, <2>1, <2>7, Zenon DEF Alone
<1>4. CASE q \notin D
    <2>1. DOMAIN P \ D \subseteq {q}
        <3>1. NoneDone(P) /\ Head(Q).seq \notin D
            BY <1>1, <1>4, Zenon DEF NoneDone
        <3>2. DOMAIN P \ D \subseteq {Head(Q).seq}
            BY <3>1, OthersAreDone
        <3> QED
            BY <1>1, <3>2, Zenon
    <2>2. CASE ~b.frag
        BY <1>1, <1>2, <1>4, <2>2, WholeSound, Zenon
    <2>3. CASE b.frag /\ IsComplete(entry)
        <3>1. Sound(T, r, n, gone, D) /\ DOMAIN r \ D = {}
            BY <1>1, <1>2, <1>4, <2>1, <2>3, DoneSound, SMTT(30)
        <3> QED
            BY <1>1, <3>1, ZenonT(40) DEF Alone
    <2>4. CASE b.frag /\ ~IsComplete(entry)
        <3>1. Sound(T, r, n, gone, D) /\ DOMAIN r \ D = {q}
            BY <1>1, <1>2, <1>4, <2>1, <2>4, KeepSound, SMTT(30)
        <3> QED
            BY <1>1, <3>1, ZenonT(40) DEF Alone
    <2> QED
        BY <2>2, <2>3, <2>4, Zenon
<1> QED
    BY <1>3, <1>4, Zenon

-----------------------------------------------------------------------------
(* The other end writes, or goes.                                          *)

(* W is L, of length k, then O.                                            *)
Joins(W, k, L, O) ==
    /\ k \in Nat
    /\ \A i \in DOMAIN L : i \in Nat /\ 1 <= i /\ i <= k /\ i \in DOMAIN W /\ W[i] = L[i]
    /\ \A j \in DOMAIN O : j \in Nat /\ 1 <= j /\ k + j \in DOMAIN W /\ W[k + j] = O[j]
    /\ \A i \in DOMAIN W : i \in DOMAIN L \/ (i \in Nat /\ i > k /\ i - k \in DOMAIN O)

LEMMA ConcatFacts ==
    ASSUME NEW S, NEW L \in Seq(S), NEW R, NEW O \in Seq(R)
    PROVE  L \o O \in Seq(S \cup R) /\ Joins(L \o O, Len(L), L, O)
<1>1. L \in Seq(S \cup R) /\ O \in Seq(S \cup R)
    OBVIOUS
<1> QED
    BY <1>1 DEF Joins

(* send_bytes takes the next message.                                      *)
LEMMA WriteSound ==
    ASSUME NEW S, NEW Q \in Seq(S), NEW P, NEW n \in Nat, NEW D, Sound(Q, P, n, FALSE, D),
           NEW x, NEW total \in Nat
    PROVE  Sound(Q \o SendBytes(n, x, total, Mtu), P, n + 1, FALSE, D)
<1>1. PICK u : u = SendBytes(n, x, total, Mtu)
    BY Zenon
<1>2. /\ u \in Seq(Range(u))
      /\ \A i \in DOMAIN u : u[i].seq = n /\ u[i].total = total /\ u[i].of = x
      /\ \A i, j \in DOMAIN u : i < j => u[i].off < u[j].off
    BY <1>1, SendFacts
<1>3. PICK Q2, k : Q2 = Q \o u /\ k = Len(Q)
    BY Zenon
<1>a. Joins(Q2, k, Q, u)
    BY <1>2, <1>3, ConcatFacts, Zenon
<1>4. /\ k \in Nat
      /\ \A i \in DOMAIN Q : i \in Nat /\ 1 <= i /\ i <= k /\ i \in DOMAIN Q2 /\ Q2[i] = Q[i]
      /\ \A j \in DOMAIN u : j \in Nat /\ 1 <= j /\ k + j \in DOMAIN Q2 /\ Q2[k + j] = u[j]
      /\ \A i \in DOMAIN Q2 : i \in DOMAIN Q \/ (i \in Nat /\ i > k /\ i - k \in DOMAIN u)
    BY <1>a, Zenon DEF Joins
<1>5. ASSUME NEW i \in DOMAIN Q2, i \notin DOMAIN Q
      PROVE  i \in Nat /\ i > k /\ i - k \in DOMAIN u /\ Q2[i] = u[i - k] /\ Q2[i].seq = n
    <2>1. i \in Nat /\ i > k /\ i - k \in DOMAIN u
        BY <1>4, <1>5, Zenon
    <2>2. k + (i - k) = i
        BY <1>4, <2>1
    <2> QED
        BY <1>2, <1>4, <2>1, <2>2, SMTT(30)
<1>6. \A s \in Live(Q, P, D) : s \in Nat /\ s < n
    BY Zenon DEF Sound
<1>7. InOrder(Q2, P, D)
    <2>1. ASSUME NEW i \in DOMAIN Q2, NEW j \in DOMAIN Q2, i < j, Q2[i].seq \notin D, Q2[j].seq \notin D
          PROVE  Before(Q2[i], Q2[j])
        <3>1. CASE i \in DOMAIN Q /\ j \in DOMAIN Q
            BY <1>4, <2>1, <3>1, Zenon DEF Sound, InOrder
        <3>2. CASE i \in DOMAIN Q /\ j \notin DOMAIN Q
            <4>1. Q2[i].seq \in Live(Q, P, D)
                BY <1>4, <2>1, <3>2, Zenon DEF Live
            <4> QED
                BY <1>5, <1>6, <3>2, <4>1, Zenon DEF Before
        <3>3. CASE i \notin DOMAIN Q
            <4>1. j \notin DOMAIN Q
                BY <1>4, <1>5, <2>1, <3>3, SMTT(30)
            <4>2. i - k < j - k
                BY <1>4, <1>5, <2>1, <3>3, <4>1, SMTT(30)
            <4>3. u[i - k].off < u[j - k].off
                BY <1>2, <1>5, <3>3, <4>1, <4>2, Zenon
            <4> QED
                BY <1>5, <3>3, <4>1, <4>3, ZenonT(40) DEF Before
        <3> QED
            BY <3>1, <3>2, <3>3, Zenon
    <2>2. ASSUME NEW s \in DOMAIN P \ D, NEW b \in Kept(P, s), NEW i \in DOMAIN Q2, Q2[i].seq \notin D
          PROVE  Before(b, Q2[i])
        <3>1. CASE i \in DOMAIN Q
            BY <1>4, <2>2, <3>1, Zenon DEF Sound, InOrder
        <3>2. CASE i \notin DOMAIN Q
            <4>1. s \in Live(Q, P, D)
                BY Zenon DEF Live
            <4>2. b.seq = s
                BY DEF Sound, Shaped, Kept
            <4> QED
                BY <1>5, <1>6, <3>2, <4>1, <4>2, Zenon DEF Before
        <3> QED
            BY <3>1, <3>2, Zenon
    <2> QED
        BY <2>1, <2>2, Zenon DEF InOrder
<1>8. ASSUME NEW s \in Live(Q2, P, D)
      PROVE  s \in Nat /\ s < n + 1 /\ Entire(Q2, P, s, Open(Q2, FALSE, D, s))
    <2>1. CASE s \in Live(Q, P, D)
        <3>1. s \in Nat /\ s < n /\ Entire(Q, P, s, Open(Q, FALSE, D, s))
            BY <2>1, Zenon DEF Sound
        <3>2. Queued(Q2, s) = Queued(Q, s)
            <4>1. ASSUME NEW i \in DOMAIN Q2, Q2[i].seq = s PROVE i \in DOMAIN Q
                BY <1>5, <3>1, <4>1, SMTT(30)
            <4> QED
                BY <1>4, <4>1, Zenon DEF Queued
        <3>3. Parts(Q2, P, s) = Parts(Q, P, s)
            BY <3>2, Zenon DEF Parts
        <3>4. Open(Q, FALSE, D, s)
            BY Zenon DEF Open
        <3> QED
            <4>1. Entire(Q2, P, s, Open(Q2, FALSE, D, s))
                BY <3>1, <3>3, <3>4, EntireKept, Zenon
            <4>2. s < n + 1
                BY <3>1
            <4> QED
                BY <3>1, <4>1, <4>2, Zenon
    <2>2. CASE s \notin Live(Q, P, D)
        <3>1. s \notin D /\ s \notin DOMAIN P /\ \A i \in DOMAIN Q : Q[i].seq # s
            BY <2>2, Zenon DEF Live
        <3>2. PICK i \in DOMAIN Q2 : Q2[i].seq = s
            BY <3>1, Zenon DEF Live
        <3>3. i \notin DOMAIN Q /\ s = n
            BY <1>4, <1>5, <3>1, <3>2, Zenon
        <3>4. Parts(Q2, P, s) = Range(u)
            <4>1. Kept(P, s) = {}
                BY <3>1, Zenon DEF Kept
            <4>2. ASSUME NEW c \in Queued(Q2, s) PROVE c \in Range(u)
                <5>1. PICK j \in DOMAIN Q2 : Q2[j].seq = s /\ c = Q2[j]
                    BY Zenon DEF Queued
                <5>2. j \notin DOMAIN Q
                    BY <1>4, <3>1, <5>1, Zenon
                <5> QED
                    BY <1>5, <5>1, <5>2, Zenon DEF Range
            <4>3. ASSUME NEW c \in Range(u) PROVE c \in Queued(Q2, s)
                <5>1. PICK j \in DOMAIN u : c = u[j]
                    BY Zenon DEF Range
                <5>2. k + j \in DOMAIN Q2 /\ Q2[k + j] = c /\ c.seq = s
                    BY <1>2, <1>4, <3>3, <5>1, Zenon
                <5> QED
                    BY <5>2, Zenon DEF Queued
            <4> QED
                BY <4>1, <4>2, <4>3, Zenon DEF Parts
        <3>5. PICK b : b = Q2[i]
            BY Zenon
        <3>6. b \in Parts(Q2, P, s) /\ b.total = total /\ b.of = x
            BY <1>2, <1>5, <3>2, <3>3, <3>5, Zenon DEF Parts, Queued
        <3>7. All(s, b) = Range(u)
            BY <1>1, <3>3, <3>6, Zenon DEF All
        <3> QED
            <4>1. Entire(Q2, P, s, Open(Q2, FALSE, D, s))
                BY <3>4, <3>6, <3>7, Zenon DEF Entire
            <4>2. s \in Nat /\ s < n + 1
                BY <3>3
            <4> QED
                BY <4>1, <4>2, Zenon
    <2> QED
        BY <2>1, <2>2, Zenon
<1>9. Sound(Q2, P, n + 1, FALSE, D)
    BY <1>7, <1>8, Zenon DEF Sound
<1> QED
    BY <1>1, <1>3, <1>9, Zenon

(* The sender goes.                                                        *)
LEMMA GoneSound ==
    ASSUME NEW Q, NEW P, NEW n, NEW gone \in BOOLEAN, NEW D, Sound(Q, P, n, gone, D)
    PROVE  Sound(Q, P, n, TRUE, D)
<1>1. ASSUME NEW s \in Live(Q, P, D) PROVE s \in Nat /\ s < n /\ Entire(Q, P, s, Open(Q, TRUE, D, s))
    <2>1. s \in Nat /\ s < n /\ Entire(Q, P, s, Open(Q, gone, D, s))
        BY Zenon DEF Sound
    <2>2. Open(Q, TRUE, D, s) => Open(Q, gone, D, s)
        BY Zenon DEF Open
    <2> QED
        BY <2>1, <2>2, EntireKept, Zenon
<1> QED
    BY <1>1, Zenon DEF Sound

(* It goes, and the end of the stream with it.                             *)
LEMMA CutSound ==
    ASSUME NEW S, NEW Q \in Seq(S), NEW P, NEW n, NEW gone \in BOOLEAN, NEW D, Sound(Q, P, n, gone, D),
           NEW k \in 0..Len(Q)
    PROVE  Sound(SubSeq(Q, 1, k), P, n, TRUE, D)
<1>1. PICK T : T = SubSeq(Q, 1, k)
    BY Zenon
<1>2. /\ \A i \in DOMAIN T : i \in DOMAIN Q /\ T[i] = Q[i] /\ i \in Nat
      /\ \A i \in DOMAIN Q : i \in Nat
      /\ \A i \in DOMAIN Q : \A j \in DOMAIN T : i <= j => i \in DOMAIN T
    <2>1. k \in Nat /\ DOMAIN Q = 1..Len(Q) /\ Len(Q) \in Nat /\ k <= Len(Q)
        OBVIOUS
    <2>2. DOMAIN T = 1..k /\ \A i \in 1..k : T[i] = Q[i]
        BY <1>1, <2>1
    <2> QED
        BY <2>1, <2>2
<1>3. InOrder(T, P, D)
    <2>1. ASSUME NEW i \in DOMAIN T, NEW j \in DOMAIN T, i < j, T[i].seq \notin D, T[j].seq \notin D
          PROVE  Before(T[i], T[j])
        BY <1>2, <2>1, Zenon DEF Sound, InOrder
    <2>2. ASSUME NEW s \in DOMAIN P \ D, NEW c \in Kept(P, s), NEW i \in DOMAIN T, T[i].seq \notin D
          PROVE  Before(c, T[i])
        BY <1>2, <2>2, Zenon DEF Sound, InOrder
    <2> QED
        BY <2>1, <2>2, Zenon DEF InOrder
<1>4. ASSUME NEW s \in Live(T, P, D) PROVE s \in Nat /\ s < n /\ Entire(T, P, s, Open(T, TRUE, D, s))
    <2>1. s \in Live(Q, P, D) /\ s \notin D
        BY <1>2, Zenon DEF Live
    <2>2. s \in Nat /\ s < n /\ Entire(Q, P, s, Open(Q, gone, D, s))
        BY <2>1, Zenon DEF Sound
    <2>3. PICK b \in Parts(Q, P, s) :
            /\ b.total \in Nat /\ Parts(Q, P, s) \subseteq All(s, b)
            /\ Open(Q, gone, D, s) => All(s, b) \subseteq Parts(Q, P, s)
        BY <2>2, Zenon DEF Entire
    <2>4. Parts(T, P, s) \subseteq Parts(Q, P, s)
        <3>1. Queued(T, s) \subseteq Queued(Q, s)
            BY <1>2, Zenon DEF Queued
        <3> QED
            BY <3>1, Zenon DEF Parts
    <2>5. PICK c : c \in Parts(T, P, s)
        <3>1. CASE s \in DOMAIN P
            <4>1. Shaped(P, s)
                BY <2>1, <3>1, Zenon DEF Sound
            <4>2. PICK o : o \in DOMAIN P[s].fragments
                BY <4>1, Zenon DEF Shaped
            <4> QED
                BY <3>1, <4>2, Zenon DEF Parts, Kept
        <3>2. CASE s \notin DOMAIN P
            <4>1. PICK i \in DOMAIN T : T[i].seq = s
                BY <3>2, Zenon DEF Live
            <4> QED
                BY <4>1 DEF Parts, Queued
        <3> QED
            BY <3>1, <3>2, Zenon
    <2>6. c.total = b.total /\ c.of = b.of
        <3>1. PICK u : u = SendBytes(s, b.of, b.total, Mtu)
            BY Zenon
        <3>2. c \in Range(u)
            BY <2>3, <2>4, <2>5, <3>1, ZenonT(40) DEF All
        <3>3. \A i \in DOMAIN u : u[i].total = b.total /\ u[i].of = b.of
            BY <2>2, <2>3, <3>1, SendFacts, SMTT(30)
        <3> QED
            BY <3>2, <3>3, SMTT(30) DEF Range
    <2>7. All(s, c) = All(s, b)
        BY <2>6, Zenon DEF All
    <2>8. ASSUME Open(T, TRUE, D, s) PROVE Parts(Q, P, s) \subseteq Parts(T, P, s) /\ Open(Q, gone, D, s)
        <3>1. PICK i \in DOMAIN T : T[i].seq \notin D /\ T[i].seq > s
            BY <2>8, Zenon DEF Open
        <3>2. i \in DOMAIN Q /\ Q[i] = T[i] /\ i \in Nat
            BY <1>2, Zenon
        <3>3. Open(Q, gone, D, s)
            BY <3>1, <3>2, Zenon DEF Open
        <3>4. Q[i].seq \in Nat
            <4>1. Q[i].seq \in Live(Q, P, D)
                BY <3>1, <3>2, Zenon DEF Live
            <4> QED
                BY <4>1, Zenon DEF Sound
        <3>5. ASSUME NEW j \in DOMAIN Q, Q[j].seq = s PROVE j \in DOMAIN T /\ T[j] = Q[j]
            <4>1. ~(i < j)
                <5> SUFFICES ASSUME i < j PROVE FALSE
                    BY Zenon
                <5>1. Before(Q[i], Q[j])
                    BY <2>1, <3>1, <3>2, <3>5, ZenonT(40) DEF Sound, InOrder
                <5> QED
                    BY <2>2, <3>1, <3>2, <3>4, <3>5, <5>1, SMTT(30) DEF Before
            <4>2. j <= i
                BY <1>2, <3>2, <4>1, SMTT(30)
            <4> QED
                BY <1>2, <4>2, Zenon
        <3>6. Queued(Q, s) \subseteq Queued(T, s)
            BY <3>5, Zenon DEF Queued
        <3> QED
            BY <3>3, <3>6, Zenon DEF Parts
    <2> QED
        BY <2>2, <2>3, <2>4, <2>5, <2>6, <2>7, <2>8, Zenon DEF Entire
<1>5. Sound(T, P, n, TRUE, D)
    BY <1>3, <1>4, Zenon DEF Sound
<1> QED
    BY <1>1, <1>5, Zenon

-----------------------------------------------------------------------------
(* A radio loses, repeats and reorders packets.                            *)

LEMMA FollowsMore ==
    ASSUME NEW M, NEW L, NEW h, NEW D, Follows(M, L, h, D), NEW D2, D \subseteq D2
    PROVE  Follows(M, L, h, D2)
BY Zenon DEF Follows

(* What happens to the packets in the air leaves those yet to be sent.     *)
LEMMA AirSound ==
    ASSUME NEW S, NEW L \in Seq(S), NEW R, NEW O \in Seq(R), NEW S2, NEW M \in Seq(S2),
           NEW P, NEW n, NEW gone \in BOOLEAN, NEW D, Sound(L \o O, P, n, gone, D),
           NEW D2, D \subseteq D2, NEW h, Follows(M, L, h, D2)
    PROVE  Sound(M \o O, P, n, gone, D2)
<1>1. PICK Q, k, Q2, k2 : Q = L \o O /\ k = Len(L) /\ Q2 = M \o O /\ k2 = Len(M)
    BY Zenon
<1>a. Joins(Q, k, L, O) /\ Joins(Q2, k2, M, O)
    BY <1>1, ConcatFacts, Zenon
<1>2. /\ k \in Nat
      /\ \A i \in DOMAIN L : i \in Nat /\ 1 <= i /\ i <= k /\ i \in DOMAIN Q /\ Q[i] = L[i]
      /\ \A j \in DOMAIN O : j \in Nat /\ 1 <= j /\ k + j \in DOMAIN Q /\ Q[k + j] = O[j]
      /\ \A i \in DOMAIN Q : i \in DOMAIN L \/ (i \in Nat /\ i > k /\ i - k \in DOMAIN O)
    BY <1>a, Zenon DEF Joins
<1>3. /\ k2 \in Nat
      /\ \A i \in DOMAIN M : i \in Nat /\ 1 <= i /\ i <= k2 /\ i \in DOMAIN Q2 /\ Q2[i] = M[i]
      /\ \A j \in DOMAIN O : j \in Nat /\ 1 <= j /\ k2 + j \in DOMAIN Q2 /\ Q2[k2 + j] = O[j]
      /\ \A i \in DOMAIN Q2 : i \in DOMAIN M \/ (i \in Nat /\ i > k2 /\ i - k2 \in DOMAIN O)
    BY <1>a, Zenon DEF Joins
<1>b. /\ \A j \in DOMAIN M : M[j].seq \notin D2 => h[j] \in DOMAIN L /\ M[j] = L[h[j]]
      /\ \A i, j \in DOMAIN M : i < j /\ M[i].seq \notin D2 /\ M[j].seq \notin D2 => h[i] < h[j]
      /\ \A i \in DOMAIN L : L[i].seq \notin D2 => \E j \in DOMAIN M : M[j] = L[i]
    BY Zenon DEF Follows
<1>4. PICK g : g = [i \in DOMAIN Q2 |-> IF i \in DOMAIN M THEN h[i] ELSE k + (i - k2)]
    BY Zenon
<1>5. ASSUME NEW j \in DOMAIN Q2, j \in DOMAIN M, Q2[j].seq \notin D2
      PROVE  g[j] = h[j] /\ h[j] \in DOMAIN L /\ g[j] \in DOMAIN Q /\ Q2[j] = Q[g[j]] /\ M[j].seq \notin D2
    <2>1. g[j] = h[j] /\ Q2[j] = M[j] /\ M[j].seq \notin D2
        BY <1>1, <1>3, <1>4, <1>5, Zenon
    <2>2. h[j] \in DOMAIN L /\ M[j] = L[h[j]]
        BY <1>b, <1>5, <2>1, ZenonT(40)
    <2> QED
        BY <1>2, <2>1, <2>2, Zenon
<1>6. ASSUME NEW j \in DOMAIN Q2, j \notin DOMAIN M
      PROVE  g[j] = k + (j - k2) /\ j \in Nat /\ j > k2 /\ g[j] \in DOMAIN Q /\ Q2[j] = Q[g[j]]
    <2>1. g[j] = k + (j - k2) /\ j \in Nat /\ j > k2 /\ j - k2 \in DOMAIN O
        BY <1>3, <1>4, <1>6, Zenon
    <2>2. k2 + (j - k2) = j
        BY <1>3, <2>1
    <2> QED
        BY <1>2, <1>3, <2>1, <2>2, SMTT(30)
<1>7. \A j \in DOMAIN Q2 : Q2[j].seq \notin D2 => g[j] \in DOMAIN Q /\ Q2[j] = Q[g[j]]
    BY <1>5, <1>6, Zenon
<1>8. ASSUME NEW i \in DOMAIN Q2, NEW j \in DOMAIN Q2, i < j, Q2[i].seq \notin D2, Q2[j].seq \notin D2
      PROVE  g[i] < g[j]
    <2>1. CASE j \in DOMAIN M
        <3>1. i \in DOMAIN M
            BY <1>3, <1>6, <1>8, <2>1, SMTT(30)
        <3> QED
            BY <1>b, <1>5, <1>8, <2>1, <3>1, ZenonT(40)
    <2>2. CASE i \in DOMAIN M /\ j \notin DOMAIN M
        <3>1. g[i] \in Nat /\ g[i] <= k
            BY <1>2, <1>5, <1>8, <2>2, Zenon
        <3> QED
            BY <1>2, <1>3, <1>6, <2>2, <3>1, SMTT(30)
    <2>3. CASE i \notin DOMAIN M /\ j \notin DOMAIN M
        BY <1>2, <1>3, <1>6, <1>8, <2>3, SMTT(30)
    <2> QED
        BY <2>1, <2>2, <2>3, Zenon
<1>9. ASSUME NEW i \in DOMAIN Q, Q[i].seq \notin D2 PROVE \E j \in DOMAIN Q2 : Q2[j] = Q[i]
    <2>1. CASE i \in DOMAIN L
        <3>1. L[i] = Q[i] /\ L[i].seq \notin D2
            BY <1>1, <1>2, <1>9, <2>1, Zenon
        <3>2. PICK j \in DOMAIN M : M[j] = L[i]
            BY <1>b, <2>1, <3>1, ZenonT(40)
        <3> QED
            BY <1>3, <3>1, <3>2, Zenon
    <2>2. CASE i \notin DOMAIN L
        <3>1. i \in Nat /\ i - k \in DOMAIN O /\ k + (i - k) = i
            BY <1>2, <2>2, SMTT(30)
        <3> QED
            BY <1>2, <1>3, <3>1, SMTT(30)
    <2> QED
        BY <2>1, <2>2, Zenon
<1>10. Sound(Q, P, n, gone, D) /\ D \subseteq D2
    BY <1>1, Zenon
<1>11. Sound(Q2, P, n, gone, D2)
    <2>1. Follows(Q2, Q, g, D2)
        BY <1>7, <1>8, <1>9, Zenon DEF Follows
    <2> QED
        BY <1>10, <2>1, SoundKept, Zenon
<1> QED
    BY <1>1, <1>11, Zenon

LEMMA RemoveFacts ==
    ASSUME NEW S, NEW L \in Seq(S), NEW i \in 1..Len(L)
    PROVE  /\ RemoveAt(L, i) \in Seq(S) /\ Len(L) \in Nat /\ Len(RemoveAt(L, i)) = Len(L) - 1
           /\ DOMAIN RemoveAt(L, i) = 1..(Len(L) - 1)
           /\ \A j \in 1..(Len(L) - 1) : RemoveAt(L, i)[j] = IF j < i THEN L[j] ELSE L[j + 1]
<1>1. PICK a, b : a = SubSeq(L, 1, i - 1) /\ b = SubSeq(L, i + 1, Len(L))
    BY Zenon
<1>2. Len(L) \in Nat /\ i \in Nat /\ 1 <= i /\ i <= Len(L)
    OBVIOUS
<1>3. a \in Seq(S) /\ Len(a) = i - 1 /\ \A j \in 1..(i - 1) : a[j] = L[j]
    BY <1>1, <1>2
<1>4. b \in Seq(S) /\ Len(b) = Len(L) - i /\ \A j \in 1..(Len(L) - i) : b[j] = L[j + i]
    BY <1>1, <1>2
<1>5. PICK M : M = a \o b
    BY Zenon
<1>6. M \in Seq(S) /\ Len(M) = Len(L) - 1 /\ DOMAIN M = 1..(Len(L) - 1)
    BY <1>2, <1>3, <1>4, <1>5, SMTT(30)
<1>7. ASSUME NEW j \in 1..(Len(L) - 1) PROVE M[j] = IF j < i THEN L[j] ELSE L[j + 1]
    <2>1. CASE j < i
        BY <1>2, <1>3, <1>4, <1>5, <2>1, SMTT(30)
    <2>2. CASE j >= i
        <3>1. M[j] = b[j - (i - 1)]
            BY <1>2, <1>3, <1>4, <1>5, <2>2, SMTT(30)
        <3>2. j - (i - 1) \in 1..(Len(L) - i) /\ (j - (i - 1)) + i = j + 1 /\ ~(j < i)
            BY <1>2, <2>2
        <3>3. b[j - (i - 1)] = L[(j - (i - 1)) + i]
            BY <1>4, <3>2, Zenon
        <3> QED
            BY <3>1, <3>2, <3>3, Zenon
    <2> QED
        BY <1>2, <2>1, <2>2, SMTT(30)
<1>8. RemoveAt(L, i) = M
    BY <1>1, <1>5, Zenon DEF RemoveAt
<1> QED
    BY <1>2, <1>6, <1>7, <1>8, Zenon

(* M is L, of length n, with p inserted at i.                              *)
Inserted(M, L, n, i, p) ==
    /\ n \in Nat /\ DOMAIN M = 1..(n + 1)
    /\ \A j \in 1..(n + 1) : M[j] = IF j < i THEN L[j] ELSE IF j = i THEN p ELSE L[j - 1]

LEMMA InsertFacts ==
    ASSUME NEW S, NEW L \in Seq(S), NEW i \in 1..(Len(L) + 1), NEW p
    PROVE  InsertAt(L, i, p) \in Seq(S \cup {p}) /\ Inserted(InsertAt(L, i, p), L, Len(L), i, p)
<1>1. PICK a, b : a = SubSeq(L, 1, i - 1) /\ b = SubSeq(L, i, Len(L))
    BY Zenon
<1>2. Len(L) \in Nat /\ i \in Nat /\ 1 <= i /\ i <= Len(L) + 1
    OBVIOUS
<1>3. a \in Seq(S) /\ Len(a) = i - 1 /\ \A j \in 1..(i - 1) : a[j] = L[j]
    BY <1>1, <1>2
<1>4. b \in Seq(S) /\ Len(b) = Len(L) - i + 1 /\ \A j \in 1..(Len(L) - i + 1) : b[j] = L[j + i - 1]
    BY <1>1, <1>2
<1>5. PICK c, M : c = a \o <<p>> /\ M = c \o b
    BY Zenon
<1>6. /\ c \in Seq(S \cup {p}) /\ Len(c) = i
      /\ \A j \in 1..i : c[j] = IF j < i THEN L[j] ELSE p
    <2>1. a \in Seq(S \cup {p}) /\ <<p>> \in Seq(S \cup {p}) /\ Len(<<p>>) = 1 /\ <<p>>[1] = p
        BY <1>3
    <2> QED
        BY <1>2, <1>3, <1>5, <2>1, SMTT(30)
<1>7. b \in Seq(S \cup {p})
    BY <1>4
<1>8. M \in Seq(S \cup {p}) /\ DOMAIN M = 1..(Len(L) + 1)
    <2>1. M \in Seq(S \cup {p}) /\ DOMAIN M = 1..(Len(c) + Len(b))
        BY <1>5, <1>6, <1>7, SMTT(30)
    <2>2. Len(c) + Len(b) = Len(L) + 1
        BY <1>2, <1>4, <1>6, SMTT(30)
    <2> QED
        BY <2>1, <2>2, Zenon
<1>9. ASSUME NEW j \in 1..(Len(L) + 1)
      PROVE  M[j] = IF j < i THEN L[j] ELSE IF j = i THEN p ELSE L[j - 1]
    <2>1. CASE j <= i
        <3>1. M[j] = c[j]
            BY <1>2, <1>5, <1>6, <1>7, <2>1, SMTT(30)
        <3> QED
            BY <1>2, <1>6, <2>1, <3>1, SMTT(30)
    <2>2. CASE j > i
        <3>1. M[j] = b[j - i]
            BY <1>2, <1>4, <1>5, <1>6, <1>7, <2>2, SMTT(30)
        <3>2. j - i \in 1..(Len(L) - i + 1) /\ (j - i) + i - 1 = j - 1
            BY <1>2, <2>2, SMTT(30)
        <3> QED
            BY <1>2, <1>4, <2>2, <3>1, <3>2, SMTT(30)
    <2> QED
        BY <1>2, <2>1, <2>2, SMTT(30)
<1>10. InsertAt(L, i, p) = M
    BY <1>1, <1>5, Zenon DEF InsertAt
<1> QED
    BY <1>2, <1>8, <1>9, <1>10, Zenon DEF Inserted

(* Each thing a radio does to its packets disturbs one bundle.             *)
LEMMA LostFollows ==
    ASSUME NEW S, NEW L \in Seq(S), NEW i \in 1..Len(L)
    PROVE  \E h : Follows(RemoveAt(L, i), L, h, {L[i].seq})
<1>1. PICK M, n : M = RemoveAt(L, i) /\ n = Len(L)
    BY Zenon
<1>2. /\ n \in Nat /\ i \in 1..n /\ DOMAIN L = 1..n /\ DOMAIN M = 1..(n - 1)
      /\ \A j \in 1..(n - 1) : M[j] = IF j < i THEN L[j] ELSE L[j + 1]
    BY <1>1, RemoveFacts, SMTT(30)
<1>3. PICK h : h = [j \in 1..(n - 1) |-> IF j < i THEN j ELSE j + 1]
    BY Zenon
<1>4. \A j \in 1..(n - 1) : h[j] \in 1..n /\ M[j] = L[h[j]]
    BY <1>2, <1>3
<1>5. \A j, k \in 1..(n - 1) : j < k => h[j] < h[k]
    BY <1>2, <1>3, SMTT(30)
<1>6. ASSUME NEW j \in 1..n, j # i PROVE \E k \in 1..(n - 1) : M[k] = L[j]
    <2>1. CASE j < i
        <3>1. j \in 1..(n - 1) /\ M[j] = L[j]
            BY <1>2, <2>1, SMTT(30)
        <3> QED
            BY <3>1, Zenon
    <2>2. CASE j > i
        <3>1. j - 1 \in 1..(n - 1) /\ ~(j - 1 < i) /\ (j - 1) + 1 = j
            BY <1>2, <2>2, SMTT(30)
        <3>2. M[j - 1] = L[j]
            BY <1>2, <3>1, Zenon
        <3> QED
            BY <3>1, <3>2, Zenon
    <2> QED
        BY <1>2, <1>6, <2>1, <2>2, SMTT(30)
<1>7. Follows(M, L, h, {L[i].seq})
    BY <1>2, <1>4, <1>5, <1>6, Zenon DEF Follows
<1> QED
    BY <1>1, <1>7, Zenon

LEMMA AgainFollows ==
    ASSUME NEW S, NEW L \in Seq(S), NEW i \in 1..Len(L)
    PROVE  \E h : Follows(Append(L, L[i]), L, h, {L[i].seq})
<1>1. PICK M, n : M = Append(L, L[i]) /\ n = Len(L)
    BY Zenon
<1>2. /\ n \in Nat /\ i \in 1..n /\ DOMAIN L = 1..n /\ DOMAIN M = 1..(n + 1)
      /\ \A j \in 1..n : M[j] = L[j]
      /\ M[n + 1] = L[i]
    BY <1>1
<1>3. PICK h : h = [j \in 1..(n + 1) |-> j]
    BY Zenon
<1>4. \A j \in 1..(n + 1) : h[j] = j /\ (M[j].seq # L[i].seq => j \in 1..n /\ M[j] = L[j])
    BY <1>2, <1>3, SMTT(30)
<1>5. \A j \in 1..n : j \in 1..(n + 1)
    BY <1>2
<1>6. Follows(M, L, h, {L[i].seq})
    BY <1>2, <1>4, <1>5, Zenon DEF Follows
<1> QED
    BY <1>1, <1>6, Zenon

LEMMA EarlyFollows ==
    ASSUME NEW S, NEW L \in Seq(S), NEW i \in 1..Len(L)
    PROVE  \E h : Follows(InsertAt(RemoveAt(L, i), 1, L[i]), L, h, {L[i].seq})
<1>1. PICK R, M, n : R = RemoveAt(L, i) /\ M = InsertAt(R, 1, L[i]) /\ n = Len(L)
    BY Zenon
<1>2. /\ n \in Nat /\ i \in 1..n /\ DOMAIN L = 1..n /\ R \in Seq(S) /\ Len(R) = n - 1
      /\ \A j \in 1..(n - 1) : R[j] = IF j < i THEN L[j] ELSE L[j + 1]
    <2>1. /\ RemoveAt(L, i) \in Seq(S) /\ Len(L) \in Nat /\ Len(RemoveAt(L, i)) = Len(L) - 1
          /\ \A j \in 1..(Len(L) - 1) : RemoveAt(L, i)[j] = IF j < i THEN L[j] ELSE L[j + 1]
        BY RemoveFacts, Zenon
    <2>2. DOMAIN L = 1..Len(L)
        OBVIOUS
    <2> QED
        BY <1>1, <2>1, <2>2, Zenon
<1>3. 1 \in 1..(Len(R) + 1) /\ Len(R) + 1 = n
    BY <1>2
<1>4. /\ DOMAIN M = 1..n
      /\ \A j \in 1..n : M[j] = IF j < 1 THEN R[j] ELSE IF j = 1 THEN L[i] ELSE R[j - 1]
    <2>1. Inserted(M, R, n - 1, 1, L[i]) /\ (n - 1) + 1 = n
        BY <1>1, <1>2, <1>3, InsertFacts, Zenon
    <2> QED
        BY <2>1, Zenon DEF Inserted
<1>5. M[1] = L[i] /\ 1 \in 1..n
    BY <1>2, <1>4
<1>6. ASSUME NEW j \in 1..n, j # 1 PROVE M[j] = IF j <= i THEN L[j - 1] ELSE L[j]
    <2>1. j - 1 \in 1..(n - 1) /\ ~(j < 1) /\ (j - 1) + 1 = j /\ (j - 1 < i <=> j <= i)
        BY <1>2, <1>6, SMTT(30)
    <2>2. M[j] = R[j - 1]
        BY <1>4, <1>6, <2>1, Zenon
    <2>3. R[j - 1] = IF j - 1 < i THEN L[j - 1] ELSE L[(j - 1) + 1]
        BY <1>2, <2>1, Zenon
    <2> QED
        BY <2>1, <2>2, <2>3, Zenon
<1>7. PICK h : h = [j \in 1..n |-> IF j <= i THEN j - 1 ELSE j]
    BY Zenon
<1>8. \A j \in 1..n : M[j].seq # L[i].seq => j # 1 /\ h[j] \in 1..n /\ M[j] = L[h[j]]
    BY <1>2, <1>5, <1>6, <1>7, SMTT(30)
<1>9. \A j, k \in 1..n : j < k => h[j] < h[k]
    BY <1>2, <1>7, SMTT(30)
<1>10. ASSUME NEW j \in 1..n, j # i PROVE \E k \in 1..n : M[k] = L[j]
    <2>1. CASE j < i
        <3>1. j + 1 \in 1..n /\ j + 1 # 1 /\ j + 1 <= i /\ (j + 1) - 1 = j
            BY <1>2, <2>1, SMTT(30)
        <3>2. M[j + 1] = L[j]
            BY <1>6, <3>1, Zenon
        <3> QED
            BY <3>1, <3>2, Zenon
    <2>2. CASE j > i
        <3>1. j # 1 /\ ~(j <= i)
            BY <1>2, <2>2, SMTT(30)
        <3> QED
            BY <1>6, <3>1, Zenon
    <2> QED
        BY <1>2, <1>10, <2>1, <2>2, SMTT(30)
<1>11. Follows(M, L, h, {L[i].seq})
    <2>1. \A j, k \in DOMAIN M : j < k /\ M[j].seq \notin {L[i].seq} /\ M[k].seq \notin {L[i].seq} => h[j] < h[k]
        BY <1>4, <1>9, Zenon
    <2>2. \A j \in DOMAIN L : L[j].seq \notin {L[i].seq} => \E k \in DOMAIN M : M[k] = L[j]
        BY <1>2, <1>4, <1>10, Zenon
    <2>3. \A j \in DOMAIN M : M[j].seq \notin {L[i].seq} => h[j] \in DOMAIN L /\ M[j] = L[h[j]]
        BY <1>2, <1>4, <1>8, Zenon
    <2> QED
        BY <2>1, <2>2, <2>3, Zenon DEF Follows
<1> QED
    BY <1>1, <1>11, Zenon

LEMMA OldFollows ==
    ASSUME NEW S, NEW L \in Seq(S), NEW i \in 1..(Len(L) + 1), NEW p
    PROVE  \E h : Follows(InsertAt(L, i, p), L, h, {p.seq})
<1>1. PICK M, n : M = InsertAt(L, i, p) /\ n = Len(L)
    BY Zenon
<1>2. n \in Nat /\ i \in 1..(n + 1) /\ DOMAIN L = 1..n
    BY <1>1
<1>3. /\ DOMAIN M = 1..(n + 1)
      /\ \A j \in 1..(n + 1) : M[j] = IF j < i THEN L[j] ELSE IF j = i THEN p ELSE L[j - 1]
    <2>1. Inserted(M, L, n, i, p)
        BY <1>1, InsertFacts, Zenon
    <2> QED
        BY <2>1, Zenon DEF Inserted
<1>4. PICK h : h = [j \in 1..(n + 1) |-> IF j < i THEN j ELSE j - 1]
    BY Zenon
<1>5. \A j \in 1..(n + 1) : M[j].seq # p.seq => j # i /\ h[j] \in 1..n /\ M[j] = L[h[j]]
    BY <1>2, <1>3, <1>4, SMTT(30)
<1>6. \A j, k \in 1..(n + 1) : j < k /\ j # i /\ k # i => h[j] < h[k]
    BY <1>2, <1>4, SMTT(30)
<1>7. ASSUME NEW j \in 1..n PROVE \E k \in 1..(n + 1) : M[k] = L[j]
    <2>1. CASE j < i
        <3>1. j \in 1..(n + 1)
            BY <1>2
        <3> QED
            BY <1>3, <2>1, <3>1, Zenon
    <2>2. CASE j >= i
        <3>1. j + 1 \in 1..(n + 1) /\ ~(j + 1 < i) /\ j + 1 # i /\ (j + 1) - 1 = j
            BY <1>2, <2>2, SMTT(30)
        <3>2. M[j + 1] = L[j]
            BY <1>3, <3>1, Zenon
        <3> QED
            BY <3>1, <3>2, Zenon
    <2> QED
        BY <1>2, <2>1, <2>2, SMTT(30)
<1>8. Follows(M, L, h, {p.seq})
    <2>1. \A j, k \in DOMAIN M : j < k /\ M[j].seq \notin {p.seq} /\ M[k].seq \notin {p.seq} => h[j] < h[k]
        BY <1>3, <1>5, <1>6, Zenon
    <2>2. \A j \in DOMAIN L : L[j].seq \notin {p.seq} => \E k \in DOMAIN M : M[k] = L[j]
        BY <1>2, <1>3, <1>7, Zenon
    <2>3. \A j \in DOMAIN M : M[j].seq \notin {p.seq} => h[j] \in DOMAIN L /\ M[j] = L[h[j]]
        BY <1>2, <1>3, <1>5, Zenon
    <2> QED
        BY <2>1, <2>2, <2>3, Zenon DEF Follows
<1> QED
    BY <1>1, <1>8, Zenon

-----------------------------------------------------------------------------
(* Both directions of a channel.                                           *)

(* What is on its way to e, of which the faults have disturbed D.          *)
Way(e, D) ==
    \/ Gone(e) \/ reader[e] = "lost"
    \/ Sound(link[e] \o outbox[Other(e)], pending[e], seq[Other(e)], Gone(Other(e)), D)
Few(D, n) == IsFiniteSet(D) /\ Cardinality(D) \in 0..n
OneMore == \A D, q : \A n \in Nat : Few(D, n) => Few(D \cup {q}, n + 1)
FewWays(e) == \E D : Few(D, faults) /\ Alone(pending[e], D) /\ Way(e, D)
PInv == \A e \in End : FewWays(e)

LEMMA Ends == ASSUME NEW e \in End PROVE Other(e) \in End /\ Other(e) # e /\ Other(Other(e)) = e
BY Zenon DEF Other, End

LEMMA Queues ==
    ASSUME IInv, NEW e \in End
    PROVE  /\ \E S : link[e] \in Seq(S)
           /\ \E S : outbox[e] \in Seq(S)
           /\ \E S : outbox[Other(e)] \in Seq(S)
           /\ seq[e] \in Nat /\ seq[Other(e)] \in Nat /\ faults \in Nat
<1>1. Other(e) \in End
    BY Ends, Zenon
<1>2. \A f \in End : (\E S : link[f] \in Seq(S)) /\ (\E S : outbox[f] \in Seq(S))
    <2> SUFFICES ASSUME NEW f \in End PROVE (\E S : link[f] \in Seq(S)) /\ (\E S : outbox[f] \in Seq(S))
        BY Zenon
    <2>1. Carries(link[f], Honest(Other(f))) /\ Carries(outbox[f], Honest(f))
        BY Zenon DEF IInv, Carried
    <2> QED
        BY <2>1, Zenon DEF Carries
<1>3. \A f \in End : seq[f] \in Nat
    BY SMTT(30) DEF IInv, TypeOK
<1>4. faults \in Nat
    BY BoundsType DEF IInv, TypeOK
<1> QED
    BY <1>1, <1>2, <1>3, <1>4, Zenon

(* Nothing but the end's state has changed, or a fault has been counted.   *)
LEMMA WayStays ==
    ASSUME NEW e \in End, FewWays(e), faults \in Nat, faults' \in Nat, faults <= faults',
           pending'[e] = pending[e], Gone(e) => Gone(e)', reader[e] = "lost" => reader'[e] = "lost",
           Gone(Other(e)) => Gone(Other(e))',
           \/ Gone(e)'
           \/ /\ link'[e] \o outbox'[Other(e)] = link[e] \o outbox[Other(e)]
              /\ seq'[Other(e)] = seq[Other(e)]
    PROVE  FewWays(e)'
<1>1. PICK D : Few(D, faults) /\ Alone(pending[e], D) /\ Way(e, D)
    BY ZenonT(40) DEF FewWays
<1>2. Few(D, faults')
    BY <1>1, SMTT(30) DEF Few
<1>3. Way(e, D)'
    <2>1. CASE Gone(e)' \/ reader'[e] = "lost"
        BY <2>1, Zenon DEF Way
    <2>2. CASE ~Gone(e)' /\ reader'[e] # "lost"
        <3> DEFINE Q == link[e] \o outbox[Other(e)]
                   n == seq[Other(e)]
        <3>1. Sound(Q, pending[e], n, Gone(Other(e)), D)
            BY <1>1, <2>2, Zenon DEF Way
        <3>2. link'[e] \o outbox'[Other(e)] = Q /\ seq'[Other(e)] = n
            BY <2>2, ZenonT(40)
        <3> HIDE DEF Q, n
        <3>3. Gone(Other(e)) \in BOOLEAN
            BY DEF Gone
        <3>4. Sound(Q, pending[e], n, TRUE, D)
            BY <3>1, <3>3, GoneSound, Zenon
        <3>5. Sound(Q, pending[e], n, Gone(Other(e))', D)
            <4>1. CASE Gone(Other(e))'
                BY <3>4, <4>1, Zenon
            <4>2. CASE ~Gone(Other(e))'
                <5>1. Gone(Other(e))' = FALSE /\ Gone(Other(e)) = FALSE
                    BY <3>3, <4>2, SMTT(30) DEF Gone
                <5> QED
                    BY <3>1, <5>1, ZenonT(40)
            <4> QED
                BY <4>1, <4>2, Zenon
        <3> QED
            BY <3>2, <3>5, Zenon DEF Way
    <2> QED
        BY <2>1, <2>2, Zenon
<1> QED
    BY <1>1, <1>2, <1>3, Zenon DEF FewWays

(* An end that is not gone writes.                                         *)
LEMMA WriteWays ==
    ASSUME IInv, PInv, NEW f \in End, NEW m \in Message, Write(f, m),
           ~Gone(f), ~Gone(f)', pc'[Other(f)] = pc[Other(f)]
    PROVE  PInv'
<1>1. Other(f) \in End /\ Other(f) # f /\ Other(Other(f)) = f /\ faults \in Nat /\ seq[f] \in Nat
    BY Ends, Queues, Zenon
<1>2. /\ pending' = pending /\ link' = link /\ reader' = reader /\ faults' = faults
      /\ outbox[f] = <<>> /\ outbox'[f] = SendBytes(seq[f], m, MsgLen(m), Mtu) /\ seq'[f] = seq[f] + 1
      /\ outbox'[Other(f)] = outbox[Other(f)] /\ seq'[Other(f)] = seq[Other(f)]
    BY <1>1, Zenon DEF Write, IInv, Indexed, TypeOK
<1>3. FewWays(f)'
    <2>1. FewWays(f) /\ (Gone(Other(f)) => Gone(Other(f))')
        BY Zenon DEF PInv, Gone
    <2> QED
        <3>1. /\ faults' \in Nat /\ faults <= faults' /\ pending'[f] = pending[f] /\ reader'[f] = reader[f]
              /\ link'[f] \o outbox'[Other(f)] = link[f] \o outbox[Other(f)]
            BY <1>1, <1>2, SMTT(30)
        <3> QED
            BY <1>1, <1>2, <2>1, <3>1, WayStays, ZenonT(40)
<1>4. FewWays(Other(f))'
    <2> DEFINE e == Other(f)
               u == SendBytes(seq[f], m, MsgLen(m), Mtu)
    <2>1. PICK D : Few(D, faults) /\ Alone(pending[e], D) /\ Way(e, D)
        BY <1>1, Zenon DEF PInv, FewWays
    <2>2. PICK S : link[e] \in Seq(S)
        BY <1>1, Queues, Zenon
    <2>3. MsgLen(m) \in Nat
        BY LengthOfMessage, Zenon
    <2>4. CASE Gone(e) \/ reader[e] = "lost"
        <3>1. Way(e, D)'
            BY <1>2, <2>4, Zenon DEF Way, Gone
        <3> QED
            BY <1>2, <2>1, <3>1, Zenon DEF FewWays
    <2>5. CASE ~Gone(e) /\ reader[e] # "lost"
        <3>1. Sound(link[e] \o <<>>, pending[e], seq[f], Gone(f), D)
            BY <1>1, <1>2, <2>1, <2>5, ZenonT(40) DEF Way
        <3>2. link[e] \o <<>> = link[e] /\ Gone(f) = FALSE /\ Gone(f)' = FALSE
            BY <2>2 DEF Gone
        <3>3. Sound(link[e], pending[e], seq[f], FALSE, D)
            BY <3>1, <3>2, Zenon
        <3>4. Sound(link[e] \o u, pending[e], seq[f] + 1, FALSE, D)
            BY <1>1, <2>2, <2>3, <3>3, WriteSound, Zenon
        <3>5. Way(e, D)'
            BY <1>1, <1>2, <3>2, <3>4, ZenonT(40) DEF Way
        <3> QED
            BY <1>2, <2>1, <3>5, Zenon DEF FewWays
    <2> QED
        BY <2>4, <2>5, Zenon
<1>5. ASSUME NEW e \in End PROVE e = f \/ e = Other(f)
    BY DEF End, Other
<1> QED
    BY <1>3, <1>4, <1>5, Zenon DEF PInv

LEMMA HandshakeWays == ASSUME IInv, PInv, HandshakeSend PROVE PInv'
<1>0. "ini" \in End /\ "res" \in End /\ Other("ini") = "res" /\ Other("res") = "ini"
    BY Zenon DEF End, Other
<1>1. Pattern \in {"XX", "XK"} /\ key \in {"none", "right", "stale"} /\ hs["ini"] \in Handshake /\ hs["res"] \in Handshake
    BY <1>0, KeysType, Zenon DEF Pattern, IInv, TypeOK
<1>2. /\ Prefix(Pattern) \in Message
      /\ Msg1(Pattern, "now", key) \in Message
    BY <1>1, Zenon DEF Message, Prefix, Msg1
<1>3. Msg2(hs["res"]) \in Message /\ Msg3(hs["ini"]) \in Message
    BY <1>1, Zenon DEF Message, Msg2, Msg3
<1>4. ASSUME NEW f \in End, NEW s \in {"prefix", "m1", "m2", "m3"}, NEW t \in {"m1", "m2", "m3", "up"},
             pc[f] = s, Goto(f, t), NEW m \in Message, Write(f, m)
      PROVE  PInv'
    <2>1. pc'[f] = t /\ pc'[Other(f)] = pc[Other(f)]
        BY <1>4, Ends, Zenon DEF Goto, IInv, TypeOK
    <2>2. ~Gone(f) /\ ~Gone(f)'
        BY <1>4, <2>1, Zenon DEF Gone
    <2> QED
        BY <1>4, <2>1, <2>2, WriteWays, Zenon
<1>5. CASE SendPrefix
    BY <1>0, <1>2, <1>4, <1>5, Zenon DEF SendPrefix
<1>6. CASE SendMsg1
    BY <1>0, <1>2, <1>4, <1>6, Zenon DEF SendMsg1
<1>7. CASE SendMsg2
    BY <1>0, <1>3, <1>4, <1>7, Zenon DEF SendMsg2
<1>8. CASE SendMsg3
    BY <1>0, <1>3, <1>4, <1>8, Zenon DEF SendMsg3
<1> QED
    BY <1>5, <1>6, <1>7, <1>8, Zenon DEF HandshakeSend

LEMMA SendWays == ASSUME IInv, PInv, NEW e \in End, Send(e) PROVE PInv'
<1>1. PICK body \in Bodies : Write(e, Data(hs[e], e, Len(sent[e]), body))
    BY Zenon DEF Send
<1>2. pc' = pc /\ pc[e] = "up"
    BY Zenon DEF Send
<1>3. hs[e] \in Handshake /\ Len(sent[e]) \in Nat
    BY DEF IInv, TypeOK
<1>4. Data(hs[e], e, Len(sent[e]), body) \in Message
    BY <1>3, Zenon DEF Message, Data
<1>5. ~Gone(e) /\ ~Gone(e)' /\ pc'[Other(e)] = pc[Other(e)]
    BY <1>2, Zenon DEF Gone
<1> QED
    BY <1>1, <1>4, <1>5, WriteWays, Zenon

(* Only what the ends are doing has changed.                               *)
LEMMA QuietWays ==
    ASSUME IInv, PInv, faults' \in Nat, faults <= faults', UNCHANGED <<pending, outbox, seq>>,
           NEW e \in End, Gone(e) => Gone(e)', Gone(Other(e)) => Gone(Other(e))',
           reader[e] = "lost" => reader'[e] = "lost", Gone(e)' \/ link'[e] = link[e]
    PROVE  FewWays(e)'
<1>1. FewWays(e) /\ faults \in Nat
    BY Queues, Zenon DEF PInv
<1>2. /\ pending'[e] = pending[e]
      /\ \/ Gone(e)'
         \/ /\ link'[e] \o outbox'[Other(e)] = link[e] \o outbox[Other(e)]
            /\ seq'[Other(e)] = seq[Other(e)]
    BY Zenon
<1> QED
    BY <1>1, <1>2, WayStays, ZenonT(40)

LEMMA ConnectionWays ==
    ASSUME IInv, PInv, NEW f \in End, ReadLength(f) \/ EndOfStream(f) \/ Break \/ Timeout \/ UNCHANGED vars
    PROVE  PInv'
<1> SUFFICES ASSUME NEW e \in End PROVE FewWays(e)'
    BY Zenon DEF PInv
<1>0. faults \in Nat /\ "ini" \in End /\ Other(e) \in End
    BY Queues, Ends, Zenon DEF End
<1>1. CASE ReadLength(f)
    <2>1. UNCHANGED <<pending, outbox, seq, link, faults, pc>> /\ (reader[e] = "lost" => reader'[e] = "lost")
        BY <1>1, Zenon DEF ReadLength, IInv, TypeOK
    <2>2. faults' \in Nat /\ faults <= faults' /\ (Gone(e) => Gone(e)') /\ (Gone(Other(e)) => Gone(Other(e))')
        BY <1>0, <2>1, SMTT(30) DEF Gone
    <2> QED
        BY <2>1, <2>2, QuietWays, Zenon
<1>2. CASE EndOfStream(f)
    <2>1. UNCHANGED <<pending, outbox, seq, link, faults, reader>> /\ pc' = [pc EXCEPT ![f] = "closed"]
        BY <1>2, Zenon DEF EndOfStream, netVars, Goto
    <2>2. (Gone(e) => Gone(e)') /\ (Gone(Other(e)) => Gone(Other(e))')
        BY <1>0, <2>1, Zenon DEF Gone, IInv, TypeOK
    <2>3. faults' \in Nat /\ faults <= faults'
        BY <1>0, <2>1, SMTT(30)
    <2> QED
        BY <2>1, <2>2, <2>3, QuietWays, Zenon
<1>3. CASE Break
    <2>1. /\ UNCHANGED <<pending, outbox, seq, reader>> /\ faults' = faults + 1
          /\ pc' = [x \in End |-> IF Gone(x) THEN pc[x] ELSE "failed"]
        BY <1>3, Zenon DEF Break, Fault
    <2>2. Gone(e)' /\ Gone(Other(e))'
        BY <1>0, <2>1, Zenon DEF Gone
    <2>3. faults' \in Nat /\ faults <= faults'
        BY <1>0, <2>1, SMTT(30)
    <2> QED
        BY <2>1, <2>2, <2>3, QuietWays, Zenon
<1>4. CASE Timeout
    <2>1. /\ UNCHANGED <<pending, outbox, seq, link, pc>> /\ faults' = faults + 1
          /\ (reader[e] = "lost" => reader'[e] = "lost")
        BY <1>4, Zenon DEF Timeout, Fault, IInv, TypeOK
    <2>2. faults' \in Nat /\ faults <= faults' /\ (Gone(e) => Gone(e)') /\ (Gone(Other(e)) => Gone(Other(e))')
        BY <1>0, <2>1, SMTT(30) DEF Gone
    <2> QED
        BY <2>1, <2>2, QuietWays, Zenon
<1>5. CASE UNCHANGED vars
    <2>1. UNCHANGED <<pending, outbox, seq, link, faults, pc, reader>>
        BY <1>5, Zenon DEF vars, netVars
    <2>2. faults' \in Nat /\ faults <= faults' /\ (Gone(e) => Gone(e)') /\ (Gone(Other(e)) => Gone(Other(e))')
        BY <1>0, <2>1 DEF Gone
    <2> QED
        BY <2>1, <2>2, QuietWays, Zenon
<1> QED
    BY <1>1, <1>2, <1>3, <1>4, <1>5, Zenon

(* The first of one queue becomes the last of the queue before it.         *)
LEMMA MovesOver ==
    ASSUME NEW S, NEW L \in Seq(S), NEW O \in Seq(S), O # <<>>
    PROVE  Append(L, Head(O)) \o Tail(O) = L \o O
<1>1. PICK a, b : a = Append(L, Head(O)) \o Tail(O) /\ b = L \o O
    BY Zenon
<1>2. Len(L) \in Nat /\ Len(O) \in Nat /\ Len(O) >= 1
    OBVIOUS
<1>3. /\ a \in Seq(S) /\ Len(a) = Len(L) + Len(O)
      /\ \A i \in 1..Len(a) : a[i] = IF i <= Len(L) THEN L[i] ELSE O[i - Len(L)]
    BY <1>1, <1>2, SMTT(30)
<1>4. /\ b \in Seq(S) /\ Len(b) = Len(L) + Len(O)
      /\ \A i \in 1..Len(b) : b[i] = IF i <= Len(L) THEN L[i] ELSE O[i - Len(L)]
    BY <1>1, <1>2, SMTT(30)
<1>5. DOMAIN a = 1..Len(a) /\ DOMAIN b = 1..Len(b)
    BY <1>3, <1>4, SMTT(30)
<1>6. Len(a) = Len(b) /\ \A i \in 1..Len(a) : a[i] = b[i]
    BY <1>2, <1>3, <1>4, Zenon
<1>7. a = b
    BY <1>3, <1>4, <1>5, <1>6, SMTT(30)
<1> QED
    BY <1>1, <1>7, Zenon

(* A bundle leaves the sender for the link.                                *)
LEMMA EmitWays == ASSUME IInv, PInv, NEW f \in End, Emit(f) PROVE PInv'
<1> SUFFICES ASSUME NEW e \in End PROVE FewWays(e)'
    BY Zenon DEF PInv
<1>1. /\ UNCHANGED <<pending, seq, faults, pc, reader>> /\ outbox[f] # <<>>
      /\ link' = IF Gone(Other(f)) THEN link ELSE [link EXCEPT ![Other(f)] = Append(@, Head(outbox[f]))]
      /\ outbox' = [outbox EXCEPT ![f] = Tail(@)]
    BY Zenon DEF Emit
<1>2. /\ FewWays(e) /\ faults \in Nat /\ faults' \in Nat /\ faults <= faults' /\ pending'[e] = pending[e]
      /\ (Gone(e) => Gone(e)') /\ (Gone(Other(e)) => Gone(Other(e))') /\ reader'[e] = reader[e]
      /\ seq'[Other(e)] = seq[Other(e)]
    BY <1>1, Queues DEF PInv, Gone
<1>3. \/ Gone(e)'
      \/ link'[e] \o outbox'[Other(e)] = link[e] \o outbox[Other(e)]
    <2>1. CASE e = f
        <3>1. Other(e) # f /\ e # Other(f) /\ Other(e) \in End
            BY <2>1, Ends, Zenon
        <3>2. link'[e] = link[e] /\ outbox'[Other(e)] = outbox[Other(e)]
            BY <1>1, <3>1, Zenon DEF IInv, Indexed
        <3> QED
            BY <3>2, Zenon
    <2>2. CASE e # f
        <3>1. e = Other(f) /\ Other(e) = f
            BY <2>2 DEF Other, End
        <3>2. CASE Gone(e)
            BY <1>2, <3>2, Zenon
        <3>3. CASE ~Gone(e)
            <4>1. link'[e] = Append(link[e], Head(outbox[f])) /\ outbox'[Other(e)] = Tail(outbox[f])
                BY <1>1, <3>1, <3>3, Zenon DEF IInv, Indexed
            <4>2. PICK S, R : link[e] \in Seq(S) /\ outbox[f] \in Seq(R)
                BY Queues, Zenon
            <4>3. link[e] \in Seq(S \cup R) /\ outbox[f] \in Seq(S \cup R)
                BY <4>2
            <4>4. Append(link[e], Head(outbox[f])) \o Tail(outbox[f]) = link[e] \o outbox[f]
                BY <1>1, <4>3, MovesOver, Zenon
            <4> QED
                BY <3>1, <4>1, <4>4, Zenon
        <3> QED
            BY <3>2, <3>3, Zenon
    <2> QED
        BY <2>1, <2>2, Zenon
<1> QED
    BY <1>2, <1>3, WayStays, ZenonT(40)

(* An end that reads stays or goes.                                        *)
LEMMA ReadersGo ==
    ASSUME IInv, NEW f \in End, Deliver(f)
    PROVE  /\ ~Gone(f) /\ pc'[Other(f)] = pc[Other(f)]
           /\ Gone(f)' \in BOOLEAN
<1>1. ~Gone(f)
    BY Zenon DEF Deliver, Awaiting, Gone
<1>2. Other(f) \in End /\ Other(f) # f
    BY Ends, Zenon
<1>3. pc \in [End -> {"prefix", "m1", "m2", "m3", "up", "closed", "failed"}]
    BY Zenon DEF IInv, TypeOK
<1>4. Fail(f) => pc'[Other(f)] = pc[Other(f)]
    BY <1>2, <1>3, Zenon DEF Fail
<1>5. ASSUME NEW s, Goto(f, s) PROVE pc'[Other(f)] = pc[Other(f)]
    BY <1>2, <1>3, <1>5, Zenon DEF Goto
<1>6. ASSUME NEW m, Read(f, m) PROVE pc'[Other(f)] = pc[Other(f)]
    <2>1. ReadPrefix(f, m) => pc'[Other(f)] = pc[Other(f)]
        BY <1>4, <1>5, Zenon DEF ReadPrefix
    <2>2. ReadMsg1(f, m) => pc'[Other(f)] = pc[Other(f)]
        BY <1>4, <1>5, Zenon DEF ReadMsg1
    <2>3. ReadMsg2(f, m) => pc'[Other(f)] = pc[Other(f)]
        BY <1>4, <1>5, Zenon DEF ReadMsg2
    <2>4. ReadMsg3(f, m) => pc'[Other(f)] = pc[Other(f)]
        BY <1>4, <1>5, Zenon DEF ReadMsg3
    <2>5. ReadData(f, m) => pc'[Other(f)] = pc[Other(f)]
        BY <1>4, Zenon DEF ReadData
    <2> QED
        BY <1>6, <2>1, <2>2, <2>3, <2>4, <2>5, Zenon DEF Read
<1>7. \/ Fail(f) \/ UNCHANGED pc \/ \E m : Read(f, m)
    BY Zenon DEF Deliver
<1>8. Gone(f)' \in BOOLEAN
    BY DEF Gone
<1> QED
    BY <1>1, <1>4, <1>6, <1>7, <1>8, Zenon

LEMMA CloseWays == ASSUME IInv, PInv, Close PROVE PInv'
<1>0. /\ "ini" \in End /\ "res" \in End /\ Other("ini") = "res" /\ Other("res") = "ini"
      /\ \A e \in End : e = "ini" \/ e = "res"
    BY Zenon DEF End, Other
<1>1. /\ UNCHANGED <<faults, seq, pending, outbox, reader>> /\ outbox["ini"] = <<>>
      /\ pc' = [pc EXCEPT !["ini"] = "closed"] /\ pc["ini"] = "up"
    BY Zenon DEF Close, Goto
<1>2. PICK n \in 0..Len(link["res"]) : link' = [link EXCEPT !["res"] = SubSeq(@, 1, n)]
    BY Zenon DEF Close
<1>3. /\ pc'["ini"] = "closed" /\ pc'["res"] = pc["res"] /\ faults \in Nat
      /\ link'["res"] = SubSeq(link["res"], 1, n)
    BY <1>0, <1>1, <1>2, Queues, Zenon DEF IInv, TypeOK, Indexed
<1>4. FewWays("ini")'
    <2>1. Gone("ini")' /\ (Gone("res") => Gone("res")')
        BY <1>3, Zenon DEF Gone
    <2>2. faults' \in Nat /\ faults <= faults'
        BY <1>1, <1>3, SMTT(30)
    <2> QED
        BY <1>0, <1>1, <2>1, <2>2, QuietWays, Zenon
<1>5. FewWays("res")'
    <2>1. PICK D : Few(D, faults) /\ Alone(pending["res"], D) /\ Way("res", D)
        BY <1>0, Zenon DEF PInv, FewWays
    <2>2. Way("res", D)'
        <3>1. CASE Gone("res") \/ reader["res"] = "lost"
            BY <1>1, <1>3, <3>1, Zenon DEF Way, Gone
        <3>2. CASE ~(Gone("res") \/ reader["res"] = "lost")
            <4>1. PICK S, L : L = link["res"] /\ L \in Seq(S)
                BY <1>0, Queues, Zenon
            <4>2. L \o <<>> = L /\ SubSeq(L, 1, n) \o <<>> = SubSeq(L, 1, n)
                BY <4>1, <1>2, SMTT(30)
            <4>3. Sound(L \o <<>>, pending["res"], seq["ini"], Gone("ini"), D) /\ Gone("ini") \in BOOLEAN
                <5>1. Sound(link["res"] \o outbox[Other("res")], pending["res"], seq[Other("res")], Gone(Other("res")), D)
                    BY <2>1, <3>2, Zenon DEF Way
                <5>2. Gone("ini") \in BOOLEAN
                    BY DEF Gone
                <5> QED
                    BY <1>0, <1>1, <4>1, <5>1, <5>2, Zenon
            <4>4. Sound(SubSeq(L, 1, n), pending["res"], seq["ini"], TRUE, D)
                BY <1>2, <4>1, <4>2, <4>3, CutSound, Zenon
            <4>5. Gone("ini")' = TRUE
                BY <1>3, Zenon DEF Gone
            <4> QED
                BY <1>0, <1>1, <1>3, <4>1, <4>2, <4>4, <4>5, ZenonT(40) DEF Way
        <3> QED
            BY <3>1, <3>2, Zenon
    <2> QED
        BY <1>1, <2>1, <2>2, Zenon DEF FewWays
<1> QED
    BY <1>0, <1>4, <1>5, Zenon DEF PInv

(* What a fault of the radio leaves of the packets L follows L but for one *)
(* bundle.                                                                 *)
LEMMA RadioFollows ==
    ASSUME NEW f \in End, RadioFault(f), NEW S, NEW L \in Seq(S), L = link[f]
    PROVE  \E M, q, h, S2 : link' = [link EXCEPT ![f] = M] /\ M \in Seq(S2) /\ Follows(M, L, h, {q})
<1>1. PICK i \in 0..Len(link[f]) :
          \/ i > 0 /\ link' = [link EXCEPT ![f] = RemoveAt(@, i)]
          \/ i > 0 /\ link' = [link EXCEPT ![f] = Append(@, @[i])]
          \/ i > 1 /\ link' = [link EXCEPT ![f] = InsertAt(RemoveAt(@, i), 1, @[i])]
          \/ \E p \in OldPackets(f) : link' = [link EXCEPT ![f] = InsertAt(@, i + 1, p)]
    BY Zenon DEF RadioFault
<1>2. i \in 0..Len(L) /\ Len(L) \in Nat
    BY <1>1
<1>3. CASE i > 0 /\ link' = [link EXCEPT ![f] = RemoveAt(@, i)]
    <2>1. i \in 1..Len(L)
        BY <1>2, <1>3, SMTT(30)
    <2>2. RemoveAt(L, i) \in Seq(S) /\ \E h : Follows(RemoveAt(L, i), L, h, {L[i].seq})
        BY <2>1, LostFollows, RemoveFacts, Zenon
    <2> QED
        BY <1>3, <2>2, Zenon
<1>4. CASE i > 0 /\ link' = [link EXCEPT ![f] = Append(@, @[i])]
    <2>1. i \in 1..Len(L)
        BY <1>2, <1>4, SMTT(30)
    <2>2. \E h : Follows(Append(L, L[i]), L, h, {L[i].seq})
        BY <2>1, AgainFollows, Zenon
    <2>3. Append(L, L[i]) \in Seq(S)
        BY <2>1, SMTT(30)
    <2> QED
        BY <1>4, <2>2, <2>3, Zenon
<1>5. CASE i > 1 /\ link' = [link EXCEPT ![f] = InsertAt(RemoveAt(@, i), 1, @[i])]
    <2>1. i \in 1..Len(L)
        BY <1>2, <1>5, SMTT(30)
    <2>2. \E h : Follows(InsertAt(RemoveAt(L, i), 1, L[i]), L, h, {L[i].seq})
        BY <2>1, EarlyFollows, Zenon
    <2>3. RemoveAt(L, i) \in Seq(S) /\ Len(RemoveAt(L, i)) = Len(L) - 1
        BY <2>1, RemoveFacts, Zenon
    <2>4. 1 \in 1..(Len(RemoveAt(L, i)) + 1)
        BY <1>2, <2>1, <2>3, SMTT(30)
    <2>5. InsertAt(RemoveAt(L, i), 1, L[i]) \in Seq(S \cup {L[i]})
        BY <2>3, <2>4, InsertFacts, Zenon
    <2> QED
        BY <1>5, <2>2, <2>5, ZenonT(40)
<1>6. ASSUME NEW p \in OldPackets(f), link' = [link EXCEPT ![f] = InsertAt(@, i + 1, p)]
      PROVE  \E M, q, h, S2 : link' = [link EXCEPT ![f] = M] /\ M \in Seq(S2) /\ Follows(M, L, h, {q})
    <2>1. PICK k : k = i + 1
        BY Zenon
    <2>2. k \in 1..(Len(L) + 1)
        BY <1>2, <2>1, SMTT(30)
    <2>3. \E h : Follows(InsertAt(L, k, p), L, h, {p.seq})
        BY <2>2, OldFollows, Zenon
    <2>4. InsertAt(L, k, p) \in Seq(S \cup {p})
        BY <2>2, InsertFacts, Zenon
    <2> QED
        BY <1>6, <2>1, <2>3, <2>4, Zenon
<1> QED
    BY <1>1, <1>3, <1>4, <1>5, <1>6, Zenon

LEMMA DeliverWays == ASSUME CompleteWhenAll, IInv, PInv, NEW f \in End, Deliver(f) PROVE PInv'
<1>0. Other(f) \in End /\ Other(f) # f /\ Other(Other(f)) = f /\ faults \in Nat /\ seq[Other(f)] \in Nat
    BY Ends, Queues, Zenon
<1>1. UNCHANGED <<faults, seq, outbox>> /\ link[f] # <<>> /\ link' = [link EXCEPT ![f] = Tail(@)]
    BY Zenon DEF Deliver
<1>2. ~Gone(f) /\ pc'[Other(f)] = pc[Other(f)] /\ (Gone(Other(f)) => Gone(Other(f))')
    BY ReadersGo, Zenon DEF Gone
<1>3. link'[f] = Tail(link[f]) /\ link'[Other(f)] = link[Other(f)]
    BY <1>0, <1>1, Zenon DEF IInv, Indexed
<1>4. FewWays(Other(f))'
    <2>1. pending'[Other(f)] = pending[Other(f)] /\ reader'[Other(f)] = reader[Other(f)]
        <3>1. CASE reader[f] = "lost"
            BY <3>1, Zenon DEF Deliver
        <3>2. CASE reader[f] # "lost"
            <4>1. /\ pending' = [pending EXCEPT ![f] = RecvBundle(pending[f], Head(link[f])).pending]
                  /\ reader' = [reader EXCEPT ![f] = "length"]
                BY <3>2, ZenonT(40) DEF Deliver
            <4> QED
                BY <1>0, <4>1, Zenon DEF IInv, Indexed, TypeOK
        <3> QED
            BY <3>1, <3>2, Zenon
    <2>2. FewWays(Other(f)) /\ (Gone(f) => Gone(f)') /\ faults' \in Nat /\ faults <= faults'
        BY <1>0, <1>1, <1>2, SMTT(30) DEF PInv
    <2>3. /\ link'[Other(f)] \o outbox'[f] = link[Other(f)] \o outbox[f]
          /\ seq'[f] = seq[f]
        BY <1>1, <1>3, Zenon
    <2> QED
        BY <1>0, <1>2, <2>1, <2>2, <2>3, WayStays, ZenonT(40)
<1>5. FewWays(f)'
    <2>1. PICK D : Few(D, faults) /\ Alone(pending[f], D) /\ Way(f, D)
        BY Zenon DEF PInv, FewWays
    <2>2. CASE reader[f] = "lost"
        <3>1. UNCHANGED <<pending, reader>>
            BY <2>2, Zenon DEF Deliver
        <3>2. Way(f, D)'
            BY <2>2, <3>1, Zenon DEF Way
        <3> QED
            BY <1>1, <2>1, <3>1, <3>2, Zenon DEF FewWays
    <2>3. CASE reader[f] # "lost"
        <3>1. PICK S, R : link[f] \in Seq(S) /\ outbox[Other(f)] \in Seq(R)
            BY Queues, Zenon
        <3>2. PICK Q : Q = link[f] \o outbox[Other(f)]
            BY Zenon
        <3>3. /\ Q \in Seq(S \cup R) /\ Q # <<>> /\ Head(Q) = Head(link[f])
              /\ Tail(Q) = Tail(link[f]) \o outbox[Other(f)]
            <4>1. PICK L, O : L = link[f] /\ O = outbox[Other(f)]
                BY Zenon
            <4>2. L \in Seq(S \cup R) /\ O \in Seq(S \cup R) /\ L # <<>> /\ Q = L \o O
                BY <1>1, <3>1, <3>2, <4>1, SMTT(30)
            <4>3. /\ Q \in Seq(S \cup R) /\ Q # <<>> /\ Head(Q) = Head(L)
                  /\ Tail(Q) = Tail(L) \o O
                BY <4>2, SMTT(30)
            <4> QED
                BY <4>1, <4>3, Zenon
        <3>4. PICK r : r = RecvBundle(pending[f], Head(Q)).pending
            BY Zenon
        <3>5. pending'[f] = r
            <4>1. pending' = [pending EXCEPT ![f] = RecvBundle(pending[f], Head(link[f])).pending]
                BY <2>3, Zenon DEF Deliver
            <4> QED
                BY <3>3, <3>4, <4>1, Zenon DEF IInv, Indexed
        <3>6. Sound(Q, pending[f], seq[Other(f)], Gone(Other(f)), D)
            BY <1>2, <2>1, <2>3, <3>2, Zenon DEF Way
        <3>7. \A s \in DOMAIN pending[f] : ~IsComplete(pending[f][s])
            BY Zenon DEF IInv, TypeOK
        <3>8. Gone(Other(f)) \in BOOLEAN /\ Gone(Other(f))' = Gone(Other(f))
            BY <1>2, SMTT(30) DEF Gone
        <3>9. Sound(Tail(Q), r, seq[Other(f)], Gone(Other(f)), D) /\ Alone(r, D)
            BY <1>0, <2>1, <3>3, <3>4, <3>6, <3>7, <3>8, RecvSound, ZenonT(40)
        <3>10. Way(f, D)'
            BY <1>1, <1>3, <3>3, <3>5, <3>8, <3>9, ZenonT(40) DEF Way
        <3> QED
            BY <1>1, <2>1, <3>5, <3>9, <3>10, ZenonT(40) DEF FewWays
    <2> QED
        BY <2>2, <2>3, Zenon
<1>6. ASSUME NEW e \in End PROVE e = f \/ e = Other(f)
    BY DEF End, Other
<1> QED
    BY <1>4, <1>5, <1>6, Zenon DEF PInv

LEMMA RadioWays == ASSUME OneMore, IInv, PInv, NEW f \in End, RadioFault(f) PROVE PInv'
<1>0. Other(f) \in End /\ Other(f) # f /\ Other(Other(f)) = f /\ faults \in Nat
    BY Ends, Queues, Zenon
<1>1. UNCHANGED <<seq, pending, outbox, pc, reader>> /\ faults' = faults + 1
    BY Zenon DEF RadioFault, Fault
<1>2. PICK S, L, R, O : L = link[f] /\ L \in Seq(S) /\ O = outbox[Other(f)] /\ O \in Seq(R)
    BY Queues, Zenon
<1>3. PICK M, q, h, S2 : link' = [link EXCEPT ![f] = M] /\ M \in Seq(S2) /\ Follows(M, L, h, {q})
    BY <1>2, RadioFollows, Zenon
<1>4. link'[f] = M /\ link'[Other(f)] = link[Other(f)]
    BY <1>0, <1>3, Zenon DEF IInv, Indexed
<1>5. FewWays(Other(f))'
    <2>1. faults' \in Nat /\ faults <= faults'
        BY <1>0, <1>1, SMTT(30)
    <2>2. (Gone(f) => Gone(f)') /\ (Gone(Other(f)) => Gone(Other(f))')
        BY <1>1, Zenon DEF Gone
    <2> QED
        BY <1>0, <1>1, <1>4, <2>1, <2>2, QuietWays, ZenonT(40)
<1>6. FewWays(f)'
    <2>1. PICK D : Few(D, faults) /\ Alone(pending[f], D) /\ Way(f, D)
        BY Zenon DEF PInv, FewWays
    <2>2. PICK D2 : D2 = D \cup {q}
        BY Zenon
    <2>3. Few(D2, faults + 1)
        BY <1>0, <2>1, <2>2, Zenon DEF OneMore
    <2>4. Alone(pending[f], D2)
        BY <2>1, <2>2, Zenon DEF Alone
    <2>5. Way(f, D2)'
        <3>1. CASE Gone(f) \/ reader[f] = "lost"
            BY <1>1, <3>1, Zenon DEF Way, Gone
        <3>2. CASE ~(Gone(f) \/ reader[f] = "lost")
            <4>1. Sound(L \o O, pending[f], seq[Other(f)], Gone(Other(f)), D) /\ Gone(Other(f)) \in BOOLEAN
                BY <1>2, <2>1, <3>2, SMTT(30) DEF Way, Gone
            <4>2. Sound(M \o O, pending[f], seq[Other(f)], Gone(Other(f)), D2)
                <5>1. PICK P, n, g : P = pending[f] /\ n = seq[Other(f)] /\ g = Gone(Other(f))
                    BY Zenon
                <5>2. Sound(L \o O, P, n, g, D) /\ g \in BOOLEAN
                    BY <4>1, <5>1, Zenon
                <5>3. Follows(M, L, h, D2) /\ D \subseteq D2
                    BY <1>3, <2>2, FollowsMore, Zenon
                <5>4. Sound(M \o O, P, n, g, D2)
                    BY <1>2, <1>3, <5>2, <5>3, AirSound, ZenonT(40)
                <5> QED
                    BY <5>1, <5>4, Zenon
            <4>3. Gone(Other(f))' = Gone(Other(f))
                BY <1>1, Zenon DEF Gone
            <4> QED
                BY <1>1, <1>2, <1>4, <4>2, <4>3, ZenonT(40) DEF Way
        <3> QED
            BY <3>1, <3>2, Zenon
    <2> QED
        BY <1>1, <2>3, <2>4, <2>5, Zenon DEF FewWays
<1>7. ASSUME NEW e \in End PROVE e = f \/ e = Other(f)
    BY DEF End, Other
<1> QED
    BY <1>5, <1>6, <1>7, Zenon DEF PInv

LEMMA StepWays == ASSUME CompleteWhenAll, OneMore, IInv, PInv, [Next]_vars PROVE PInv'
<1>1. CASE HandshakeSend
    BY <1>1, HandshakeWays, Zenon
<1>2. CASE Close
    BY <1>2, CloseWays, Zenon
<1>3. ASSUME NEW e \in End, ReadLength(e) \/ EndOfStream(e) \/ Break \/ Timeout \/ UNCHANGED vars PROVE PInv'
    BY <1>3, ConnectionWays, Zenon
<1>4. ASSUME NEW e \in End, Emit(e) PROVE PInv'
    BY <1>4, EmitWays, Zenon
<1>5. ASSUME NEW e \in End, Deliver(e) PROVE PInv'
    BY <1>5, DeliverWays, Zenon
<1>6. ASSUME NEW e \in End, Send(e) PROVE PInv'
    BY <1>6, SendWays, Zenon
<1>7. ASSUME NEW e \in End, RadioFault(e) PROVE PInv'
    BY <1>7, RadioWays, Zenon
<1>8. "ini" \in End
    BY Zenon DEF End
<1> QED
    BY <1>1, <1>2, <1>3, <1>4, <1>5, <1>6, <1>7, <1>8, ZenonT(40) DEF Next, Progress

-----------------------------------------------------------------------------
(* What needs counting: the bytes of an incomplete bundle, and the bundles *)
(* that faults have disturbed.                                             *)

INSTANCE FiniteSetTheorems

LEMMA AllIsComplete == CompleteWhenAll
<1> SUFFICES ASSUME NEW F, NEW entry, NEW A, NEW q, NEW total, KeepsOf(F, entry, A, q, total)
             PROVE  IsComplete(entry) <=> KeepsAll(F, A)
    BY Zenon DEF CompleteWhenAll
<1>1. PICK W : W = PartBytes(F)
    BY ZenonT(40)
<1>2. total \in Nat /\ (IsComplete(entry) <=> Cardinality(W) >= total)
    BY <1>1, SMTT(30) DEF IsComplete, ReceivedLen, PartBytes, KeepsOf
<1>3. PICK f : Counts(f, W, total, F, A)
    BY <1>1, PartsCounted, Zenon
<1>4. IsFiniteSet(1..total) /\ Cardinality(1..total) = total
    BY <1>2, FS_Interval, SMTT(30)
<1>5. f \in Injection(W, 1..total)
    BY <1>3, ZenonT(40) DEF Counts, Injection, IsInjective
<1>6. f \in Surjection(W, 1..total) <=> \A y \in 1..total : \E w \in W : f[w] = y
    BY <1>3, SMTT(30) DEF Counts, Surjection
<1>7. /\ IsFiniteSet(W) /\ Cardinality(W) <= total
      /\ Cardinality(W) = total <=> f \in Surjection(W, 1..total)
    BY <1>4, <1>5, FS_Injection, SMTT(30)
<1>8. Cardinality(W) \in Nat
    BY <1>7, FS_CardinalityType, ZenonT(40)
<1> QED
    BY <1>2, <1>3, <1>6, <1>7, <1>8, SMTT(30) DEF Counts

LEMMA OneMoreIsFew == OneMore
<1> SUFFICES ASSUME NEW D, NEW q, NEW n \in Nat, Few(D, n) PROVE Few(D \cup {q}, n + 1)
    BY Zenon DEF OneMore
<1>1. /\ IsFiniteSet(D \cup {q}) /\ Cardinality(D) \in 0..n
      /\ Cardinality(D \cup {q}) = IF q \in D THEN Cardinality(D) ELSE Cardinality(D) + 1
    BY FS_AddElement, SMTT(30) DEF Few
<1> QED
    BY <1>1, SMTT(30) DEF Few

LEMMA InitWays == ASSUME Init PROVE PInv
<1> SUFFICES ASSUME NEW e \in End PROVE FewWays(e)
    BY Zenon DEF PInv
<1>1. pending[e] = <<>> /\ link[e] = <<>> /\ outbox[Other(e)] = <<>> /\ seq[Other(e)] = 0 /\ faults = 0
    BY Ends, Zenon DEF Init
<1>2. Few({}, 0)
    BY FS_EmptySet, SMTT(30) DEF Few
<1>3. <<>> \o <<>> = <<>> /\ DOMAIN <<>> = {}
    OBVIOUS
<1>4. Alone(<<>>, {})
    BY <1>3, Zenon DEF Alone
<1>5. Sound(<<>>, <<>>, 0, Gone(Other(e)), {})
    BY <1>3, Zenon DEF Sound, InOrder, Live
<1>6. Way(e, {})
    BY <1>1, <1>3, <1>5, ZenonT(40) DEF Way
<1> QED
    BY <1>1, <1>2, <1>4, <1>6, ZenonT(40) DEF FewWays

(* However the connection loses, repeats or reorders packets or brings old *)
(* ones, and whatever the MTU and the messages, a BundleLayer (bundle.rs)  *)
(* keeps at most one incomplete bundle more than there have been faults.   *)
THEOREM PendingBounded == Spec => []PendingIsBounded
<1>1. Init => IInv /\ PInv
    BY InitHolds, InitWays, ZenonT(40)
<1>2. IInv /\ PInv /\ [Next]_vars => IInv' /\ PInv'
    BY StepHolds, StepWays, AllIsComplete, OneMoreIsFew, ZenonT(40)
<1>3. IInv /\ PInv => PendingIsBounded
    <2> SUFFICES ASSUME IInv, PInv, NEW e \in End PROVE Cardinality(DOMAIN pending[e]) <= faults + 1
        BY Zenon DEF PendingIsBounded
    <2>1. PICK D : Few(D, faults) /\ Alone(pending[e], D)
        BY Zenon DEF PInv, FewWays
    <2>2. faults \in Nat
        BY Queues, Zenon
    <2>3. PICK s : DOMAIN pending[e] \ D \subseteq {s}
        BY <2>1, Zenon DEF Alone
    <2>4. DOMAIN pending[e] \subseteq D \cup {s}
        BY <2>3, Zenon
    <2>5. Few(D \cup {s}, faults + 1)
        BY <2>1, <2>2, OneMoreIsFew, ZenonT(40) DEF OneMore
    <2>6. /\ IsFiniteSet(DOMAIN pending[e])
          /\ Cardinality(DOMAIN pending[e]) <= Cardinality(D \cup {s})
        BY <2>4, <2>5, FS_Subset, ZenonT(40) DEF Few
    <2>7. Cardinality(DOMAIN pending[e]) \in Nat
        BY <2>6, FS_CardinalityType, Zenon
    <2> QED
        BY <2>2, <2>5, <2>6, <2>7, SMTT(30) DEF Few
<1> QED
    BY <1>1, <1>2, <1>3, PTL DEF Spec
=============================================================================
