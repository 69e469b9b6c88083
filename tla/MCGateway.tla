----------------------------- MODULE MCGateway ------------------------------
(* Small instances of Gateway: as many callers as it takes to open the      *)
(* breaker while another call is in flight.                                 *)
EXTENDS Gateway, TLC

CONSTANTS c1, c2

Two == {c1, c2}
Symmetry == Permutations(Callers)

GatewayOperators == {"ForceOpen"}
=============================================================================
