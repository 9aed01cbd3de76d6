--------------------------------- MODULE MCWire -------------------------------
(***************************************************************************)
(* Bytes of three bits.  The lists of addresses go up to one more than a   *)
(* byte can count, the ids up to two bytes more, with a character of two   *)
(* bytes across the cut.                                                   *)
(***************************************************************************)
EXTENDS Wire

Digit == {0, 1, 2, 4, 7}
Text(n) == [i \in 1..n |-> 2]
Addr(t, b, scope) == [t |-> t, b |-> b, scope |-> scope]

Ids == {<<>>, Text(1), Text(7), Text(8), Text(2) \o <<7, 4>>, Text(6) \o <<7, 4>>, Text(7) \o <<7, 4>>}
SomeAddrs ==
    {Addr("v4", b, 0) : b \in [1..V4Len -> {0, 7}]}
    \cup {Addr("v6", <<0, 1, 7>>, s) : s \in {0, 3}}
    \cup {Addr(t, b, 0) : t \in {"ble", "wifi", "adv"}, b \in Ids}
Repeated == {Addr("v4", <<1, 2>>, 0), Addr("ble", Text(3), 0)}
MCAddrLists ==
    {<<>>} \cup {<<a>> : a \in SomeAddrs} \cup {<<a, b>> : a, b \in SomeAddrs}
    \cup {[i \in 1..n |-> a] : n \in 6..9, a \in Repeated}

Payloads == {<<>>, <<0>>, <<7, 1>>}
Hash == [1..HashLen -> {0, 3, 7}]
MCMessages ==
    {[kind |-> "direct", id |-> <<>>, data |-> d] : d \in Payloads}
    \cup {[kind |-> "routed", id |-> <<>>, dest |-> h, ttl |-> MAX_TTL, data |-> d] : h \in Hash, d \in Payloads}
    \cup {[kind |-> "sealed", id |-> <<>>, dest |-> h, ttl |-> MAX_TTL, from |-> g, data |-> d] :
            h, g \in Hash, d \in Payloads}
    \cup {[kind |-> "announce", id |-> <<>>, dest |-> PeerIdOf(k), key |-> k, ttl |-> MAX_TTL] : k \in Hash}

Strings(n) == UNION {[1..m -> Digit] : m \in 0..n}
MCForeign ==
    {Ctrl \o s : s \in Strings(5)} \cup {<<4, 1>> \o s : s \in Strings(5)} \cup Strings(3)
=============================================================================
