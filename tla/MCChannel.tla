------------------------------- MODULE MCChannel -------------------------------
(* Message sizes for Channel: at an MTU of 150, the one BLE advertising    *)
(* has, the long message needs two bundles, and so does message 2 of XX.   *)
EXTENDS Channel

TwoBodies == {"short", "long"}
BodySizes == [b \in TwoBodies |-> IF b = "short" THEN 12 ELSE 100]
ThreeFragments == {"longer"}
ThreeFragmentsSize == [b \in ThreeFragments |-> 200]
TwoAndOne == [e \in {"ini", "res"} |-> IF e = "ini" THEN 2 ELSE 1]
=============================================================================
