------------------------------- MODULE MCBleGatt ------------------------------
(* Instances of BleGatt for TLC.                                           *)
EXTENDS BleGatt

CONSTANTS c1, c2

(* A lone central, with prompt and with lagging tasks, and a crowd.        *)
LoneAndCrowd == {
    [present |-> {c1}, prompt |-> TRUE, sessions |-> 4],
    [present |-> {c1}, prompt |-> FALSE, sessions |-> 2],
    [present |-> {c1, c2}, prompt |-> TRUE, sessions |-> 3]}
=============================================================================
