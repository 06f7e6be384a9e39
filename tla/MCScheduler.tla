---------------------------- MODULE MCScheduler ----------------------------
(* Instances of ConcurrencyScheduler for TLC: two parents that may share    *)
(* children.  Children 1 and 2 write the same area, child 3 another; child  *)
(* 4 is in no plan, and 3 may depend on it.                                 *)
EXTENDS ConcurrencyScheduler

CONSTANTS P, Q

Three == 1 .. 3
Four == 1 .. 4
Parents == {P, Q}
Sharing == [p \in Parents |-> IF p = P THEN {{1, 2}, {1, 3}} ELSE {{2, 3}}]
Settled == [p \in Parents |-> IF p = P THEN {{1, 2}} ELSE {}]
Changing == [p \in Parents |-> IF p = P THEN {{1, 2}, {2, 3}} ELSE {}]
Free == [t \in Task |-> {}]
Chain == [t \in Task |-> IF t = 3 THEN {4} ELSE {}]
Areas == [t \in Task |-> IF t = 3 THEN {{"web"}} ELSE {{"api"}}]
Writers == [t \in Task |-> {"build"}]
Builders == [t \in Task |-> {"active"}]
=============================================================================
