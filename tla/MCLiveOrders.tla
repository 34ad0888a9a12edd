---------------------------- MODULE MCLiveOrders ----------------------------
(* LiveOrders on small instances: our orders' ids, and one of somebody else. *)
EXTENDS LiveOrders

CONSTANTS o1, o2, other

OwnIds == {o1, o2}
OwnAndOther == {o1, o2, other}
Other == {other}
Nobody == {}

=============================================================================
