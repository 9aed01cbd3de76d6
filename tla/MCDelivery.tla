------------------------------ MODULE MCDelivery ------------------------------
(* Peer tables for Delivery.                                               *)
EXTENDS Delivery

OneAddress == {<<"dest">>}
TwoAddresses == {<<"dest", "dest">>, <<"other">>, <<"mute">>}
ThreeAddresses == {<<"dest", "dest", "dest">>}
StaleAddress == {<<"other">>}
MuteAddress == {<<"mute">>}

FreeFirst == [i \in Slot |-> i - 1]
=============================================================================
