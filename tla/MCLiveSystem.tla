---------------------------- MODULE MCLiveSystem ----------------------------
(* A small instance of LiveSystem: one order and one held symbol.          *)
EXTENDS LiveSystem

CONSTANTS o1, a

OneOrder == {o1}
OneSymbol == {a}
UpOrDown == {-1, 1}

\* Bounds: one goroutine at a time fetches quotes, and the dashboard comes
\* up while no order is under way.
Bounds ==
    /\ Cardinality({f \in Fetchers : fetch[f] # NoFetch}) <= 1
    /\ order = NoOrders \/ dash = Fresh
=============================================================================
