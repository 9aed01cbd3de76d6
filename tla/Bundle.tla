-------------------------------- MODULE Bundle --------------------------------
(***************************************************************************)
(* BundleLayer (bundle.rs): how a payload is cut into BPv7 bundles that    *)
(* should fit the connection's MTU, and how the other end puts it together *)
(* again.  A payload is an opaque value with a length; a part of it is the *)
(* interval of its bytes that a bundle carries.                            *)
(***************************************************************************)
EXTENDS Integers, FiniteSets, FiniteSetsExt

-----------------------------------------------------------------------------
(* Sizes.                                                                  *)

(* The bytes CBOR needs for the head of an unsigned integer or of a byte   *)
(* string (bp7 crate).                                                     *)
HeadLen(n) ==
    IF n < 24 THEN 1 ELSE IF n < 256 THEN 2 ELSE IF n < 65536 THEN 3 ELSE 5

(* Everything in a bundle that does not depend on the payload: the array   *)
(* heads, version, flags, three endpoint ids, lifetime, block header.      *)
Header == 61

WholeSize(seq, len) == Header + HeadLen(seq) + HeadLen(len) + len

FragmentSize(seq, off, len, total) ==
    WholeSize(seq, len) + HeadLen(off) + HeadLen(total)

(* fragment_header_overhead: the size of a fragment without payload, with  *)
(* the largest offset.                                                     *)
FragmentOverhead(seq, total) == FragmentSize(seq, total, 0, total)

(* mtu.saturating_sub(overhead)                                            *)
MaxPayload(seq, total, mtu) == Max({0, mtu - FragmentOverhead(seq, total)})

-----------------------------------------------------------------------------
(* send_bytes                                                              *)

Bundle(frag, seq, off, len, total, of) ==
    [frag |-> frag, seq |-> seq, off |-> off, len |-> len, total |-> total, of |-> of]

FitsWhole(seq, total, mtu) == mtu = 0 \/ WholeSize(seq, total) <= mtu

(* The loop's turns.                                                       *)
Chunks(seq, total, mtu) ==
    LET max == MaxPayload(seq, total, mtu) IN (total + max - 1) \div max

(* The bundles of payload x, in the order they are sent; none when the     *)
(* header alone fills the MTU, which is an error.                          *)
SendBytes(seq, x, total, mtu) ==
    LET max == MaxPayload(seq, total, mtu)
        Chunk(i) == Bundle(TRUE, seq, (i - 1) * max, Min({max, total - (i - 1) * max}), total, x)
    IN  IF FitsWhole(seq, total, mtu) THEN <<Bundle(FALSE, seq, 0, total, total, x)>>
        ELSE IF max = 0 THEN <<>>
        ELSE [i \in 1..Chunks(seq, total, mtu) |-> Chunk(i)]

-----------------------------------------------------------------------------
(* recv_bytes                                                              *)

(* PendingBundle: the total the first fragment named, and by offset the    *)
(* part received last.                                                     *)
Put(f, x, y) == [z \in DOMAIN f \cup {x} |-> IF z = x THEN y ELSE f[z]]

Stored(pending, b) ==
    LET entry == IF b.seq \in DOMAIN pending THEN pending[b.seq]
                 ELSE [total |-> b.total, fragments |-> <<>>]
    IN  [total |-> entry.total, fragments |-> Put(entry.fragments, b.off, b)]

(* The bytes of all parts: those of parts that overlap count in each.      *)
ReceivedLen(entry) ==
    Cardinality(UNION {{o} \X (1..entry.fragments[o].len) : o \in DOMAIN entry.fragments})

IsComplete(entry) == ReceivedLen(entry) >= entry.total

(* The parts' bytes in the order of their offsets.  They are payload x     *)
(* again when they are parts of x that cover it without gap or overlap;    *)
(* otherwise they are bytes nobody sent.                                   *)
Garbled == [t |-> "garbled"]

Reassemble(entry) ==
    LET F == entry.fragments
        offs == DOMAIN F
        Tiles(b) ==
            /\ ReceivedLen(entry) = b.total
            /\ \A o \in offs :
                  F[o].of = b.of /\ (o = 0 \/ \E p \in offs : p + F[p].len = o)
    IN  LET first == F[Min(offs)] IN IF Tiles(first) THEN first.of ELSE Garbled

(* One turn of the receive loop: what is pending afterwards, and the       *)
(* payload returned, if any.                                               *)
Nothing == [t |-> "nothing"]

Without(pending, seq) == [s \in DOMAIN pending \ {seq} |-> pending[s]]

(* Fault: the completed entry is emptied, not removed.                     *)
RecvBundleEmpty(pending, b) ==
    LET entry == Stored(pending, b)
        done == IsComplete(entry) IN
    IF ~b.frag THEN [pending |-> pending, payload |-> b.of]
    ELSE [pending |-> Put(pending, b.seq, IF done THEN [entry EXCEPT !.fragments = <<>>] ELSE entry),
          payload |-> IF done THEN Reassemble(entry) ELSE Nothing]

RecvBundle(pending, b) ==
    LET entry == Stored(pending, b) IN
    IF ~b.frag THEN [pending |-> pending, payload |-> b.of]
    ELSE IF IsComplete(entry)
         THEN [pending |-> Without(pending, b.seq), payload |-> Reassemble(entry)]
         ELSE [pending |-> Put(pending, b.seq, entry), payload |-> Nothing]
=============================================================================
