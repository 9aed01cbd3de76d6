----------------------------- MODULE MCWifiDirect -----------------------------
(* Instances of WifiDirect for TLC.                                        *)
EXTENDS WifiDirect

OneRestarts == [n \in {1, 2} |-> n]
=============================================================================
