---------------------------- MODULE MCLiveOrders ----------------------------
(* Small instances of LiveOrders.  Orders meet only through the breaker and *)
(* the gate, which they never write, so one at a time is enough.            *)
EXTENDS LiveOrders

CONSTANT o1

OneOrder == {o1}
=============================================================================
