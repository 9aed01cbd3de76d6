------------------------------ MODULE MCDiscovery -----------------------------
(* Model values for Discovery.                                             *)
EXTENDS Discovery

CONSTANTS me, ann, bob, me1, ann1, bob1, bob2, a1, a2, any, nowhere

(* bob has two transports.                                                 *)
Owner == [x \in Port |-> IF x = me1 THEN me ELSE IF x = ann1 THEN ann ELSE bob]

(* Both addresses are taken when this node starts.                         *)
At(x1, x2) == [x \in Port |-> CASE x = x1 -> a1 [] x = x2 -> a2 [] OTHER -> Nowhere]
Places == {At(ann1, bob2)}

(* repeated and told are written and never read: states that differ in     *)
(* them only have the same successors.                                     *)
CheckedState == <<netVars, bridgeVars, streamVars, known, peers, dial, callVars>>
=============================================================================
