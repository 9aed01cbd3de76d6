--------------------------------- MODULE MCMesh -------------------------------
(* Topologies and messages for Mesh.                                       *)
EXTENDS Mesh

CONSTANTS o, w, x, y, d, m1, m2, m3

Both(E) == E \cup {<<e[2], e[1]>> : e \in E}

(* Every pair.                                                             *)
Clique == {e \in Node \X Node : e[1] # e[2]}

(* Several ways to d, of three hops and of four.                           *)
Braid == Both({<<o, w>>, <<o, x>>, <<w, x>>, <<w, y>>, <<x, y>>, <<y, d>>})

(* As far as hops allow by the short way, and a detour to x.               *)
Detour == Both({<<o, x>>, <<o, y>>, <<y, x>>, <<x, w>>, <<w, d>>})

(* A triangle that d joins at x.                                           *)
Fork == Both({<<o, x>>, <<o, y>>, <<y, x>>, <<x, d>>})
Triangle == Both({<<o, x>>, <<o, y>>, <<y, x>>})

Line == Both({<<o, x>>, <<x, d>>})
NoLink == {}

(* m1 and m2 go from o to d, m3 goes from x to o.                          *)
Sender == [m \in Msg |-> IF m = m3 THEN x ELSE o]
Receiver == [m \in Msg |-> IF m = m3 THEN o ELSE d]
=============================================================================
