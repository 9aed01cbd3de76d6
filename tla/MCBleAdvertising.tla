--------------------------- MODULE MCBleAdvertising ---------------------------
(* Short ids for BleAdvertising: two nodes in range and one out of it.     *)
EXTENDS BleAdvertising

TwoNodes == {"a", "b"}
OneAbsent == {"x"}
=============================================================================
