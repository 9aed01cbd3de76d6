---------------------------- MODULE MCKeyRegistry ----------------------------
(* Small instances of KeyRegistry: each peer has one key, named after it.  *)
EXTENDS KeyRegistry, TLC

MCKey == {<<"key", p>> : p \in PeerId}
MCKeyId == [k \in MCKey |-> k[2]]

Symmetry == Permutations(PeerId) \cup Permutations(Task)
=============================================================================
