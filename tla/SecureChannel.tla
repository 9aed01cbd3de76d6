---------------------------- MODULE SecureChannel -----------------------------
(***************************************************************************)
(* What a Session promises its two ends: each learns who the other one is, *)
(* the responder only after the initiator, and each receives a prefix of   *)
(* what the other has sent, in order and once.                             *)
(***************************************************************************)
EXTENDS Integers, Sequences

CONSTANT Bodies

VARIABLES
    peer,       \* peer[e]: whom e takes the other end for, once it knows
    sent,       \* sent[e]: what e has sent
    rcvd        \* rcvd[e]: what e has received

vars == <<peer, sent, rcvd>>

End == {"ini", "res"}
Other(e) == IF e = "ini" THEN "res" ELSE "ini"

Init ==
    /\ peer = [e \in End |-> "nobody"]
    /\ sent = [e \in End |-> <<>>]
    /\ rcvd = [e \in End |-> <<>>]

Establish(e) ==
    /\ peer[e] = "nobody"
    /\ e = "res" => peer["ini"] = "res"
    /\ peer' = [peer EXCEPT ![e] = Other(e)]
    /\ UNCHANGED <<sent, rcvd>>

Send(e) ==
    /\ peer[e] = Other(e)
    /\ \E m \in Bodies : sent' = [sent EXCEPT ![e] = Append(@, m)]
    /\ UNCHANGED <<peer, rcvd>>

Receive(e) ==
    /\ peer[e] = Other(e)
    /\ Len(rcvd[e]) < Len(sent[Other(e)])
    /\ rcvd' = [rcvd EXCEPT ![e] = Append(@, sent[Other(e)][Len(@) + 1])]
    /\ UNCHANGED <<peer, sent>>

Next == \E e \in End : Establish(e) \/ Send(e) \/ Receive(e)

Spec == Init /\ [][Next]_vars
=============================================================================
