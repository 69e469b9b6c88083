----------------------------- MODULE LiveOrders -----------------------------
(***************************************************************************)
(* internal/live: orders on their way to the broker (execution.go,         *)
(* order_manager.go, risk_gate.go) while the portfolio breaker moves under *)
(* them.  The breaker's calls come from anywhere, as in its own            *)
(* specification; the risk gate is brought up to date by the intraday      *)
(* cycle only.  LiveSystem puts the engine in the place of these callers.  *)
(***************************************************************************)
EXTENDS RiskGate

CONSTANTS
    Orders,         \* callers of ExecuteOrder
    MaxRetries      \* BrokerMaxRetries

ASSUME LiveOrdersAssumption == MaxRetries \in Nat

VARIABLE order      \* where each order is

orderVars == <<breakerVars, gateVars, order>>

Attempts == MaxRetries + 1
Sides == {"buy", "sell"}
NoOrder == [at |-> "idle"]
NoOrders == [o \in Orders |-> NoOrder]
\* gated: its order manager has the risk gate, as the orchestrator's own has;
\* the one ExecutionManager makes has none.
\* late: attempts in a row that failed at the broker after the gate had closed.
Working == [at : {"loop", "submit"}, gated : BOOLEAN,
            attempt : 1 .. Attempts, late : 0 .. Attempts]

OrdersTypeOK ==
    /\ BreakerTypeOK
    /\ GateTypeOK
    /\ \A o \in Orders : order[o] = NoOrder \/ order[o] \in Working

OrdersInit ==
    /\ BreakerInit
    /\ GateInit
    /\ order = NoOrders

\* The breaker moves, and no process ends.
Breaker ==
    /\ \/ \E value \in Values : ResetDayState(value) \/ \E dayLoss \in BOOLEAN : Evaluate(value, dayLoss)
       \/ RecordStopLoss \/ DashStart \/ DashReset \/ BreakerTick
    /\ UNCHANGED <<gateVars, order>>

\* The intraday cycle mirrors it into the gate.
Sync == (ReadState \/ SyncHalt) /\ UNCHANGED order

\* The engine's process ends and starts; orders under way are gone.
OrdersRestart ==
    /\ BreakerRestart
    /\ gate' = FALSE /\ read' = "nothing"
    /\ order' = NoOrders

SetOrder(o, r) == order' = [order EXCEPT ![o] = r] /\ UNCHANGED <<breakerVars, gateVars>>

\* ExecuteOrder asks the breaker once, before OrderManager.Run.
ExecuteOrder(o, side, gated) ==
    /\ order[o] = NoOrder
    /\ CanPlaceOrder(side)
    /\ SetOrder(o, [at |-> "loop", gated |-> gated, attempt |-> 1, late |-> 0])

Stopped(o) == order[o].gated /\ gate
GoesOn(o) == [order[o] EXCEPT !.at = "submit", !.late = IF Stopped(o) THEN @ ELSE 0]

\* Slip: the gate is asked for the first attempt only.
CheckRiskGateOnce(o) ==
    /\ order[o].at = "loop"
    /\ SetOrder(o, IF Stopped(o) /\ order[o].attempt = 1 THEN NoOrder ELSE GoesOn(o))

\* OrderManager.checkRiskGate, before every attempt: the order is given up,
\* or goes to the broker.
CheckRiskGate(o) ==
    /\ order[o].at = "loop"
    /\ SetOrder(o, IF Stopped(o) THEN NoOrder ELSE GoesOn(o))

\* broker.SubmitOrder answers (filled, placed, rejected): Run returns.
SubmitAnswered(o) ==
    /\ order[o].at = "submit"
    /\ SetOrder(o, NoOrder)

\* Slip: the last attempt is tried again.
SubmitFailsForever(o) ==
    /\ order[o].at = "submit"
    /\ SetOrder(o, [order[o] EXCEPT !.at = "loop", !.attempt = IF @ < Attempts THEN @ + 1 ELSE @])

\* Slip: one attempt too many.
SubmitFailsOneMore(o) ==
    /\ order[o].at = "submit"
    /\ SetOrder(o, IF order[o].attempt > Attempts THEN NoOrder
                   ELSE [order[o] EXCEPT !.at = "loop", !.attempt = @ + 1,
                                         !.late = IF Stopped(o) THEN @ + 1 ELSE @])

\* It fails: a pause and the next attempt, or the end.
SubmitFails(o) ==
    /\ order[o].at = "submit"
    /\ SetOrder(o, IF order[o].attempt = Attempts THEN NoOrder
                   ELSE [order[o] EXCEPT !.at = "loop", !.attempt = @ + 1,
                                         !.late = IF Stopped(o) THEN @ + 1 ELSE @])

OrderStep(o) == CheckRiskGate(o) \/ SubmitAnswered(o) \/ SubmitFails(o)

OrdersMove ==
    \E o \in Orders :
       OrderStep(o) \/ \E side \in Sides, gated \in BOOLEAN : ExecuteOrder(o, side, gated)

OrdersNext == Breaker \/ Sync \/ OrdersRestart \/ OrdersMove

OrdersSpec == OrdersInit /\ [][OrdersNext]_orderVars

\* The broker answers or its call times out, and a sleep ends.
OrdersFairSpec == OrdersSpec /\ \A o \in Orders : WF_orderVars(OrderStep(o))

-----------------------------------------------------------------------------
\* An order whose manager has the risk gate is at the broker at most once
\* more after the gate has closed: checkRiskGate ends its retries.  The gate
\* is a copy of the breaker, as old as the latest intraday cycle.
GateEndsRetries ==
    \A o \in Orders : order[o] # NoOrder /\ order[o].gated => order[o].late <= 1

\* Every order comes to an end, whatever the breaker, the gate and the
\* broker do.
OrderEnds == \A o \in Orders : order[o] # NoOrder ~> order[o] = NoOrder

\* checkRiskGate's promise: "a halt triggered by a circuit transition ...
\* between attempts will short-circuit the retry loop instead of leaking the
\* order to the broker".  It does not hold: the gate learns of a transition
\* at the next intraday cycle, minutes later, while attempts are 100 ms apart,
\* and ExecutionManager's order manager has no gate at all.
HaltEndsRetries ==
    [][\A o \in Orders :
          order[o].at = "loop" /\ order'[o].at = "submit" /\ order[o].attempt > 1
          => cb.state # "halted"]_orderVars
=============================================================================
