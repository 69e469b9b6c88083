----------------------------- MODULE LiveSystem -----------------------------
(***************************************************************************)
(* internal/live and the dashboard together: the engine's goroutines       *)
(* (LiveEngine), the orders it sends (LiveOrders) and the dashboard's      *)
(* breaker on the same state file (PortfolioBreaker).  They meet in the    *)
(* breaker, its file and the risk gate; a new process has none of the      *)
(* orders of the one before.                                               *)
(***************************************************************************)
EXTENDS LiveEngine, LiveOrders

\* What only the engine has.
engineVars == <<storeVars, clockVars, cyc, fetch, snaps, calm>>
systemVars == <<vars, order>>

SystemInit == Init /\ order = NoOrders

Engine == Running /\ UNCHANGED order

\* An order's goroutine: the gate and the breaker are read, none is written.
Ordering == OrdersMove /\ UNCHANGED engineVars

\* Slip: the new process takes up the orders of the old one.
SystemRestartKeepsOrders == Restart /\ UNCHANGED order

SystemRestart == Restart /\ order' = NoOrders

\* The dashboard is a process of its own.
Dashboard == (DashStart \/ DashReset) /\ UNCHANGED <<gateVars, engineVars, order>>

SystemNext == Engine \/ Ordering \/ SystemRestart \/ Dashboard

SystemSpec == SystemInit /\ [][SystemNext]_systemVars

-----------------------------------------------------------------------------
\* The breaker's callers that LiveOrders leaves open are the engine and the
\* dashboard as they are: what they do to breaker, file, gate and orders is
\* what LiveOrders allows, so all it promises of orders holds of the system.
OrdersContext == OrdersSpec
=============================================================================
