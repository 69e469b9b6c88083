------------------------------ MODULE RiskGate ------------------------------
(***************************************************************************)
(* internal/live/risk_gate.go: the gate that the order manager asks before *)
(* every attempt.  It holds a copy of the portfolio breaker's restriction, *)
(* which the intraday cycle reads under the breaker's lock and writes      *)
(* under the gate's, so that the breaker may move in between.              *)
(*                                                                         *)
(* The gate's daily loss stays 0 (no portfolio value provider is ever set) *)
(* and its VaR is never mirrored, so haltTrading is all of it.             *)
(***************************************************************************)
EXTENDS PortfolioBreaker

VARIABLES
    gate,       \* riskGate.haltTrading
    read        \* the restriction that was read and is not yet in the gate

gateVars == <<gate, read>>

\* "nothing": no SyncRiskGateFromCircuitBreaker is under way.
Readings == {"nothing", "free", "restricted"}

GateTypeOK == gate \in BOOLEAN /\ read \in Readings

GateInit == gate = FALSE /\ read = "nothing"

\* Slip: only a halt is mirrored into the gate.
ReadHaltOnly ==
    /\ read = "nothing"
    /\ read' = IF cb.state = "halted" THEN "restricted" ELSE "free"
    /\ UNCHANGED <<breakerVars, gate>>

\* SyncRiskGateFromCircuitBreaker asks the breaker for its state ...
ReadState ==
    /\ read = "nothing"
    /\ read' = IF cb.state \in {"halted", "paused"} THEN "restricted" ELSE "free"
    /\ UNCHANGED <<breakerVars, gate>>

\* ... and SyncHaltFromCircuitState sets the flag to what it was then.
SyncHalt ==
    /\ read # "nothing"
    /\ gate' = (read = "restricted")
    /\ read' = "nothing"
    /\ UNCHANGED breakerVars
=============================================================================
