---------------------------- MODULE MCStoreForward ----------------------------
(* Small instances of StoreForward.                                        *)
EXTENDS StoreForward

Setup(drainers, kinds, msgs, appear, depth, cap) ==
    [drainers |-> drainers, queues |-> kinds \X Peer, msgs |-> msgs, appear |-> appear,
     bounded |-> TRUE, depth |-> depth, cap |-> cap]
Both == {"direct", "routed"}

(* Three direct messages, or two of both kinds, with the event task and a  *)
(* drain of add_peer or connect running side by side and a channel that    *)
(* lags; and the event task on its own, again and again, without lag.      *)
Overlap ==
    {Setup(Drainer, {"direct"}, 3, 1, 2, 1), Setup(Drainer, Both, 2, 1, 1, 1)}
Alone == {Setup({EventTask}, Both, 2, 3, 2, 8)}
OverlapAndAlone == Overlap \cup Alone

(* Two states that differ only in a history variable no checked property   *)
(* reads have the same successors: attempted is read by NeverStranded      *)
(* alone, arrivals by the properties on the order of a queue.              *)
CheckedState ==
    <<setup, pending, known, stage, callVars, horizon, drainVars, events, appeared,
      IF setup.drainers = {EventTask} THEN arrivals ELSE <<>>>>

(* Three messages of both kinds, and the instances of the counterexamples. *)
Wide(appear, depth, cap) == Setup(Drainer, Both, 3, appear, depth, cap)
Three == {Wide(1, 2, 1)}
Crowded == {Wide(2, 1, 2), Wide(2, 2, 2), Wide(2, 2, 8)}
=============================================================================
