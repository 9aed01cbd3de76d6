----------------------------- MODULE MCLifecycle ------------------------------
(* Small instances of Lifecycle.                                           *)
EXTENDS Lifecycle

CONSTANTS wifi, cellular, none

Setup(n, tasks, c, f) ==
    [count |-> n, tasks |-> tasks, changes |-> c, fails |-> f]

(* One transport with its three tasks; the monitors of two.                *)
AloneOrTwo == {Setup(1, {1}, 3, 2), Setup(2, {}, 2, 1)}
Three == {Setup(3, {}, 1, 0)}
Once == {Setup(1, {1}, 1, 0)}
Thrice == {Setup(1, {1}, 3, 0)}

(* The first transport is cheap on wifi only, the others always cost the   *)
(* same.                                                                   *)
Costs == [t \in Transport |-> [a \in Addr |-> IF t > 1 THEN 1 ELSE IF a = wifi THEN 0 ELSE 2]]
=============================================================================
