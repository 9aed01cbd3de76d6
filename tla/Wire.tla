---------------------------------- MODULE Wire --------------------------------
(***************************************************************************)
(* The byte formats of pathweave: the address exchange (ADR 017), the      *)
(* frames of direct, routed, sealed and key announcement messages (ADR     *)
(* 019, 020, 023), and the service data of BLE advertisements.  One frame  *)
(* is followed from the node that writes it, or from a peer of another     *)
(* version, through the nodes that read it and relay it.                   *)
(*                                                                         *)
(* The widths are constants so that a small alphabet shows every case; the *)
(* values of the code are in the comments.                                 *)
(***************************************************************************)
EXTENDS Naturals, Sequences, SequencesExt

CONSTANTS
    MaxByte,        \* 255
    HighBit,        \* 128: bytes from here on have the high bit set
    IdLen,          \* 8: a message id or control id
    HashLen,        \* 32: a PeerId, and a static public key
    ShortLen,       \* 8: a short id
    V4Len,          \* 6: an IPv4 address and port
    V6Len,          \* 18: an IPv6 address and port
    MAX_TTL,
    AddrLists,      \* what local_addresses() may return
    Messages,       \* what nodes send
    Foreign,        \* frames of peers of other versions
    MaxHops         \* bound: relays of one frame

Byte == 0..MaxByte
SmallerOf(a, b) == IF a < b THEN a ELSE b
Slice(f, from, n) == SubSeq(f, from, from + n - 1)
From(f, from) == SubSeq(f, from, Len(f))

(* A lead byte and its continuation stand for UTF-8's longer characters.   *)
Lead == MaxByte
Continuation == HighBit
IsUtf8(s) ==
    \A i \in DOMAIN s :
        /\ s[i] < HighBit \/ s[i] \in {Lead, Continuation}
        /\ s[i] = Lead => i < Len(s) /\ s[i + 1] = Continuation
        /\ s[i] = Continuation => i > 1 /\ s[i - 1] = Lead

ASSUME WidthTypes ==
    /\ {MaxByte, HighBit, IdLen, HashLen, ShortLen, V4Len, V6Len} \subseteq Nat \ {0}
    /\ MAX_TTL \in Byte /\ MaxHops \in Nat /\ MaxByte + 1 = 2 * HighBit /\ MaxByte > 4
-----------------------------------------------------------------------------
(* The address exchange.  An address is [t |-> kind, b |-> bytes]; the     *)
(* scope of a link-local IPv6 address is in field scope.                   *)

Ctrl == [i \in 1..IdLen |-> IF i = IdLen THEN 1 ELSE 0]
Kinds == <<"v4", "v6", "ble", "wifi", "adv">>           \* the tag is the index less 1
Tag(t) == (CHOOSE i \in DOMAIN Kinds : Kinds[i] = t) - 1

(* An id keeps the bytes its length byte can count.                        *)
EncodeAddr(a) ==
    IF a.t \in {"v4", "v6"} THEN <<Tag(a.t)>> \o a.b
    ELSE LET n == SmallerOf(Len(a.b), MaxByte) IN <<Tag(a.t), n>> \o SubSeq(a.b, 1, n)

EncodeAddrExchange(addrs) ==
    LET n == SmallerOf(Len(addrs), MaxByte)
    IN  Ctrl \o <<n>> \o FlattenSeq([i \in 1..n |-> EncodeAddr(addrs[i])])

(* The reader is at p, with the addresses read so far; at 0 it has failed. *)
Failed == [p |-> 0, addrs |-> <<>>]
Read(r, t, b, next) == [p |-> next, addrs |-> Append(r.addrs, [t |-> t, b |-> b, scope |-> 0])]

(* Fault: the bounds check of an id forgets the length byte itself.        *)
ReadAddrShort(f, r) ==
    LET p == r.p IN
    IF p = 0 \/ p > Len(f) \/ f[p] > 4 THEN Failed
    ELSE IF f[p] \in {0, 1}
    THEN LET n == IF f[p] = 0 THEN V4Len ELSE V6Len
         IN  IF p + n > Len(f) THEN Failed
             ELSE Read(r, Kinds[f[p] + 1], Slice(f, p + 1, n), p + 1 + n)
    ELSE IF p + 1 > Len(f) \/ p + f[p + 1] > Len(f) THEN Failed
    ELSE LET id == SubSeq(f, p + 2, SmallerOf(p + 1 + f[p + 1], Len(f)))
         IN  IF IsUtf8(id) THEN Read(r, Kinds[f[p] + 1], id, p + 2 + f[p + 1]) ELSE Failed

ReadAddr(f, r) ==
    LET p == r.p IN
    IF p = 0 \/ p > Len(f) \/ f[p] > 4 THEN Failed
    ELSE IF f[p] \in {0, 1}
    THEN LET n == IF f[p] = 0 THEN V4Len ELSE V6Len
         IN  IF p + n > Len(f) THEN Failed
             ELSE Read(r, Kinds[f[p] + 1], Slice(f, p + 1, n), p + 1 + n)
    ELSE IF p + 1 > Len(f) \/ p + 1 + f[p + 1] > Len(f) THEN Failed
    ELSE LET id == Slice(f, p + 2, f[p + 1])
         IN  IF IsUtf8(id) THEN Read(r, Kinds[f[p] + 1], id, p + 2 + f[p + 1]) ELSE Failed

Refused == [kind |-> "refused"]

DecodeAddrExchange(f) ==
    IF Len(f) < IdLen + 1 \/ SubSeq(f, 1, IdLen) # Ctrl THEN Refused
    ELSE LET r == FoldLeft(LAMBDA acc, i : ReadAddr(f, acc),
                           [p |-> IdLen + 2, addrs |-> <<>>], [i \in 1..f[IdLen + 1] |-> i])
         IN  IF r.p = 0 THEN Refused ELSE [kind |-> "exchange", addrs |-> r.addrs]
-----------------------------------------------------------------------------
(* Message frames: the id, the route flag, and what follows it.            *)

(* PeerId = blake3(public_key), for some one-to-one function.              *)
PeerIdOf(key) == [i \in DOMAIN key |-> (key[i] + 1) % (MaxByte + 1)]

(* Fault: the id is used as it was drawn.                                  *)
NewMessageIdRaw(bytes) == bytes

(* new_message_id sets the high bit of the first byte.                     *)
NewMessageId(bytes) == [bytes EXCEPT ![1] = IF @ < HighBit THEN @ + HighBit ELSE @]

Body(m) ==
    CASE m.kind = "direct" -> <<0>> \o m.data
      [] m.kind = "routed" -> <<1>> \o m.dest \o <<m.ttl>> \o m.data
      [] m.kind = "announce" -> <<2>> \o m.dest \o m.key \o <<m.ttl>>
      [] m.kind = "sealed" -> <<3>> \o m.dest \o <<m.ttl>> \o m.from \o m.data

Framed(m) == m.id \o Body(m)

(* What dispatch_payload reads in a frame; a frame it skips is refused.    *)
Parse(f) ==
    LET id == SubSeq(f, 1, IdLen)
        at == IdLen + 2                     \* the first byte after the route flag
        ttl(p) == SmallerOf(f[p], MAX_TTL)
    IN
    IF Len(f) < IdLen + 1 THEN Refused
    ELSE CASE f[IdLen + 1] = 0 -> [kind |-> "direct", id |-> id, data |-> From(f, at)]
           [] f[IdLen + 1] = 1 ->
                IF Len(f) < IdLen + 1 + HashLen + 1 THEN Refused
                ELSE [kind |-> "routed", id |-> id, dest |-> Slice(f, at, HashLen),
                      ttl |-> ttl(at + HashLen), data |-> From(f, at + HashLen + 1)]
           [] f[IdLen + 1] = 2 ->
                LET m == [kind |-> "announce", id |-> id, dest |-> Slice(f, at, HashLen),
                          key |-> Slice(f, at + HashLen, HashLen), ttl |-> ttl(at + 2 * HashLen)]
                IN  IF Len(f) # IdLen + 1 + 2 * HashLen + 1 THEN Refused
                    ELSE IF PeerIdOf(m.key) # m.dest THEN Refused ELSE m
           [] f[IdLen + 1] = 3 ->
                IF Len(f) < IdLen + 1 + HashLen + 1 + HashLen THEN Refused
                ELSE [kind |-> "sealed", id |-> id, dest |-> Slice(f, at, HashLen),
                      ttl |-> ttl(at + HashLen), from |-> Slice(f, at + HashLen + 1, HashLen),
                      data |-> From(f, at + 2 * HashLen + 1)]
           [] OTHER -> Refused
-----------------------------------------------------------------------------
(* BLE advertisements: a version and the short id.  macOS cannot send      *)
(* service data, only the service UUID.                                    *)
Version == 1
ServiceData(short) == <<Version>> \o short

(* discover() on the events of a scan: DeviceDiscovered with the cached    *)
(* properties of the device, ServiceDataAdvertisement, and                 *)
(* ServicesAdvertisement.  has: is there service data?  uuid: is the       *)
(* service listed?                                                         *)
Announced(e) ==
    LET some == [kind |-> "peer", short |-> Slice(e.data, 2, ShortLen)]
        bare == [kind |-> "peer", short |-> <<>>]
        parsed == IF Len(e.data) >= ShortLen + 1 /\ e.data[1] = Version THEN some ELSE Refused
    IN  CASE e.has /\ e.event # "services" -> parsed
          [] e.uuid /\ e.event # "service_data" -> bare
          [] OTHER -> Refused
-----------------------------------------------------------------------------
VARIABLES
    sent,           \* what was written, and [kind |-> "foreign"] by a peer of another version
    hops,           \* relays of it so far
    first,          \* is the frame the first one of its session?
    frame,          \* its bytes
    got             \* what the node that has the frame reads in it

vars == <<sent, hops, first, frame, got>>

Nothing == [kind |-> "nothing"]

Init == sent = Nothing /\ hops = 0 /\ first = TRUE /\ frame = <<>> /\ got = Nothing

TypeOK ==
    /\ hops \in 0..MaxHops /\ first \in BOOLEAN
    /\ \A i \in DOMAIN frame : frame[i] \in Byte
    /\ got.kind \in {"nothing", "refused", "exchange", "direct", "routed", "announce", "sealed", "peer"}

(* A session opens with the address exchange...                            *)
SendExchange ==
    /\ sent = Nothing /\ first
    /\ \E addrs \in AddrLists :
        /\ sent' = [kind |-> "exchange", addrs |-> addrs]
        /\ frame' = EncodeAddrExchange(addrs)
    /\ UNCHANGED <<hops, first, got>>

(* ... which is read, whatever comes of it, before the message...          *)
Continue ==
    /\ sent # Nothing /\ sent.kind = "exchange" /\ got # Nothing
    /\ sent' = Nothing /\ got' = Nothing /\ frame' = <<>>
    /\ UNCHANGED <<hops, first>>

(* ... except by peers that do not know it.                                *)
SendMessage ==
    /\ sent = Nothing
    /\ \E m \in Messages, raw \in [1..IdLen -> {0, 1, MaxByte}] :
        /\ sent' = [m EXCEPT !.id = NewMessageId(raw)]
        /\ frame' = Framed(sent')
    /\ UNCHANGED <<hops, first, got>>

SendForeign ==
    /\ sent = Nothing
    /\ sent' = [kind |-> "foreign"] /\ frame' \in Foreign
    /\ UNCHANGED <<hops, first, got>>

(* handle_incoming takes the first frame for a control frame by its first  *)
(* byte; dispatch_payload gets everything else.                            *)
Receive ==
    /\ sent # Nothing /\ got = Nothing
    /\ got' = IF first /\ Len(frame) >= IdLen /\ frame[1] = 0
              THEN DecodeAddrExchange(frame) ELSE Parse(frame)
    /\ first' = FALSE
    /\ UNCHANGED <<sent, hops, frame>>

(* Fault: the envelope is relayed without the sender in front of it.       *)
RelayUnsigned ==
    /\ got.kind \in {"routed", "announce", "sealed"} /\ got.ttl > 0
    /\ hops < MaxHops
    /\ LET m == [got EXCEPT !.ttl = @ - 1]
       IN  frame' = IF m.kind = "sealed" THEN Framed([m EXCEPT !.from = <<>>]) ELSE Framed(m)
    /\ hops' = hops + 1
    /\ first' \in BOOLEAN
    /\ got' = Nothing
    /\ UNCHANGED sent

(* Fault: a frame without hops left is relayed.                            *)
RelayExpired ==
    /\ got.kind \in {"routed", "announce", "sealed"}
    /\ hops < MaxHops
    /\ frame' = Framed([got EXCEPT !.ttl = @ - 1])
    /\ hops' = hops + 1
    /\ first' \in BOOLEAN
    /\ got' = Nothing
    /\ UNCHANGED sent

(* A node that is not the destination relays what has hops left.           *)
Relay ==
    /\ got.kind \in {"routed", "announce", "sealed"} /\ got.ttl > 0
    /\ hops < MaxHops
    /\ frame' = Framed([got EXCEPT !.ttl = @ - 1])
    /\ hops' = hops + 1
    /\ first' \in BOOLEAN
    /\ got' = Nothing
    /\ UNCHANGED sent

(* A scan sees a peripheral, or service data of another version.           *)
Scan ==
    /\ sent = Nothing /\ first
    /\ \E event \in {"discovered", "service_data", "services"}, has, uuid \in BOOLEAN :
        /\ has \/ uuid
        /\ \/ \E short \in [1..ShortLen -> {0, MaxByte}] :
                /\ sent' = [kind |-> "advert", event |-> event, has |-> has, short |-> short]
                /\ frame' = IF has THEN ServiceData(short) ELSE <<>>
           \/ sent' = [kind |-> "foreign"] /\ has /\ frame' \in Foreign
        /\ got' = Announced([event |-> event, has |-> has, uuid |-> uuid, data |-> frame'])
    /\ first' = FALSE
    /\ UNCHANGED hops

Next == SendExchange \/ Continue \/ SendMessage \/ SendForeign \/ Receive \/ Relay \/ Scan

Spec == Init /\ [][Next]_vars
-----------------------------------------------------------------------------
(* What a reader is to make of what was sent: addresses that the counts of *)
(* the format can hold, unless the cut goes through a character; messages  *)
(* with the hops they have left; the short id, or none.                    *)
Kept(a) == [a EXCEPT !.b = SubSeq(a.b, 1, SmallerOf(Len(a.b), MaxByte)), !.scope = 0]
Exchanged(addrs) ==
    LET kept == [i \in 1..SmallerOf(Len(addrs), MaxByte) |-> Kept(addrs[i])]
    IN  IF \A i \in DOMAIN kept : kept[i].t \in {"v4", "v6"} \/ IsUtf8(kept[i].b)
        THEN [kind |-> "exchange", addrs |-> kept] ELSE Refused

(* Every frame that a node writes is read as what was written, on every    *)
(* hop and wherever in a session it comes: the encoders, decode_addr_-     *)
(* exchange, the split by first byte in handle_incoming and dispatch_-     *)
(* payload agree.                                                          *)
Understood ==
    got # Nothing =>
        CASE sent.kind = "exchange" -> got = Exchanged(sent.addrs)
          [] sent.kind = "direct" -> got = sent
          [] sent.kind \in {"routed", "announce", "sealed"} -> got = [sent EXCEPT !.ttl = @ - hops]
          [] sent.kind = "advert" ->
                IF got = Refused THEN (sent.event = "service_data" /\ ~sent.has) \/ sent.event = "services"
                ELSE got.short \in {<<>>, sent.short}
          [] OTHER -> TRUE

(* Of a frame in an unknown format, decode_addr_exchange takes no address  *)
(* that is not there: what it accepts is a prefix of the frame.            *)
AcceptedIsPrefix ==
    got.kind = "exchange" /\ sent.kind = "foreign" => IsPrefix(EncodeAddrExchange(got.addrs), frame)

(* A relay changes nothing of a frame but its hop count, which goes down:  *)
(* also of frames in a format the node was not written for.                *)
RelayChangesOnlyTtl ==
    [][hops' > hops =>
        /\ Len(frame') = Len(frame)
        /\ \E p \in DOMAIN frame :
            /\ frame'[p] < frame[p]
            /\ \A i \in DOMAIN frame \ {p} : frame'[i] = frame[i]]_vars
=============================================================================
