-------------------------- MODULE PortfolioBreaker --------------------------
(***************************************************************************)
(* internal/live/circuit_breaker.go: the portfolio circuit breaker of the  *)
(* live engine, its state file, and the second breaker on the same file    *)
(* that the dashboard keeps (internal/monitoring/service).  Every method   *)
(* is one critical section of its breaker, and the file is replaced        *)
(* atomically or, when saving fails, left as it was; so each method is one *)
(* action.  A failed save or load is a warning in the log and no more.     *)
(*                                                                         *)
(* A cooldown is the number of ticks until it has passed, 0 when it has    *)
(* (or was never set).  The stop-loss counter stops at the threshold, all  *)
(* it is compared with.  A day's loss is whether it is beyond DailyLossPct.*)
(***************************************************************************)
EXTENDS Integers

CONSTANTS
    ConsecutiveSL,      \* stop losses that pause trading
    Cooldown,           \* CooldownMinutes, in ticks
    DrawdownPct,        \* drawdown that pauses trading, in percent
    Values,             \* what the portfolio may be worth
    Faults              \* what may fail on the disk: "save", "load"

ASSUME PortfolioBreakerAssumption ==
    /\ ConsecutiveSL \in Nat \ {0}
    /\ Cooldown \in Nat \ {0}
    /\ DrawdownPct \in Nat \ {0}
    /\ Values \subseteq Nat
    /\ Faults \subseteq {"save", "load"}

VARIABLES
    cb,         \* the engine's breaker
    file,       \* circuit_breaker_state.json
    dash,       \* the dashboard's breaker
    intact      \* history: the engine's last save or load went well, and the
                \* dashboard has not written the file since

breakerVars == <<cb, file, dash, intact>>

CircuitStates == {"normal", "paused", "halted"}
Fresh == [state |-> "normal", sl |-> 0, cool |-> 0, peak |-> 0]
NoFile == [state |-> "none", sl |-> 0, cool |-> 0, peak |-> 0]
Breakers == [state : CircuitStates, sl : 0 .. ConsecutiveSL, cool : 0 .. Cooldown, peak : Values \cup {0}]

BreakerTypeOK ==
    /\ cb \in Breakers
    /\ file \in Breakers \cup {NoFile}
    /\ dash \in Breakers
    /\ intact \in BOOLEAN

BreakerInit ==
    /\ cb = Fresh
    /\ file = NoFile
    /\ dash = Fresh
    /\ intact = TRUE

-----------------------------------------------------------------------------
\* loadState, after the defaults of NewCircuitBreaker.
Loaded == IF file = NoFile THEN Fresh ELSE file

\* transitionLocked: nothing happens, not even a save, if the state is the same.
Transition(b, to) == [b EXCEPT !.state = to]

\* persistStateLocked for b, after the engine tried to save those before it:
\* each save may fail, and the engine goes on all the same.
Save(before, b) ==
    \/ file' = b /\ intact' = TRUE
    \/ "save" \in Faults /\ file' \in before \cup {file} /\ intact' = FALSE

Persist(b) == Save({}, b)
PersistIfMoved(b) == IF b.state = cb.state THEN UNCHANGED <<file, intact>> ELSE Persist(b)

\* Slip: the day's reset is not written to the file.
ResetDayStateUnsaved(value) ==
    /\ cb' = [Fresh EXCEPT !.peak = value]
    /\ UNCHANGED <<file, dash, intact>>

ResetDayState(value) ==
    /\ cb' = [Fresh EXCEPT !.peak = value]
    /\ Persist(cb')
    /\ UNCHANGED dash

Counted == [cb EXCEPT !.sl = IF @ < ConsecutiveSL THEN @ + 1 ELSE @]

\* Slip: once the threshold is passed, further stop losses only count.
RecordStopLossOnce ==
    /\ cb' = IF Counted.sl < ConsecutiveSL \/ cb.sl = ConsecutiveSL THEN Counted
             ELSE Transition([Counted EXCEPT !.cool = Cooldown], "paused")
    /\ PersistIfMoved(cb')
    /\ UNCHANGED dash

\* From the threshold on every stop loss restarts the cooldown and pauses
\* trading, whatever the state was.
RecordStopLoss ==
    /\ cb' = IF Counted.sl < ConsecutiveSL THEN Counted
             ELSE Transition([Counted EXCEPT !.cool = Cooldown], "paused")
    /\ PersistIfMoved(cb')
    /\ UNCHANGED dash

\* Slip: any restriction ends with the cooldown.
RecoversAny == cb.cool = 0

\* Slip: a pause ends only when no stop loss is left on the counter.
RecoversUncounted == cb.state = "paused" /\ cb.cool = 0 /\ cb.sl = 0

\* Evaluate: auto-recovery from a pause whose cooldown has passed.
Recovers == cb.state = "paused" /\ cb.cool = 0

InDrawdown(peak, value) == (peak - value) * 100 > DrawdownPct * peak

\* Recovery, the new peak, then the rules; each transition saves what the
\* breaker holds at that point.  A drawdown pauses without a cooldown.
Evaluate(value, dayLoss) ==
    LET recovered == IF Recovers THEN Transition(cb, "normal") ELSE cb
        peak == IF value > cb.peak THEN value ELSE cb.peak
        risen == [recovered EXCEPT !.peak = peak]
        next == IF dayLoss THEN Transition(risen, "halted")
                ELSE IF InDrawdown(peak, value) /\ risen.state = "normal"
                     THEN Transition(risen, "paused") ELSE risen
    IN /\ cb' = next
       /\ IF next.state # recovered.state THEN Save({recovered} \ {cb}, next)
          ELSE PersistIfMoved(recovered)
       /\ UNCHANGED dash

CanPlaceOrder(side) == cb.state = "normal" \/ (cb.state = "paused" /\ side = "sell")

\* NewCircuitBreaker: a file that cannot be read or parsed is passed over.
Opened(b, ok) ==
    /\ ok \/ "load" \in Faults
    /\ b = IF ok THEN Loaded ELSE Fresh

\* The engine's process comes up again.
BreakerRestart ==
    /\ \E ok \in BOOLEAN : Opened(cb', ok) /\ intact' = ok
    /\ UNCHANGED <<file, dash>>

\* NewCircuitBreakerService: load; the Reset it does for a missing file is
\* from normal to normal and writes nothing.
DashStart ==
    /\ \E ok \in BOOLEAN : Opened(dash', ok)
    /\ UNCHANGED <<cb, file, intact>>

\* CircuitBreakerService.ResetCircuitBreaker: the dashboard's own breaker,
\* as old as it is, is reset and saved over the file, if the save works.
DashReset ==
    /\ dash' = Transition(dash, "normal")
    /\ \/ (dash.state = "normal" \/ "save" \in Faults) /\ UNCHANGED <<file, intact>>
       \/ dash.state # "normal" /\ file' = dash' /\ intact' = FALSE
    /\ UNCHANGED cb

Elapse(b) == [b EXCEPT !.cool = IF @ = 0 THEN 0 ELSE @ - 1]

BreakerTick ==
    /\ cb' = Elapse(cb)
    /\ file' = Elapse(file)
    /\ dash' = Elapse(dash)
    /\ UNCHANGED intact

\* Whatever the engine and the dashboard call, and time.
BreakerNext ==
    \/ \E value \in Values : ResetDayState(value) \/ \E dayLoss \in BOOLEAN : Evaluate(value, dayLoss)
    \/ RecordStopLoss \/ BreakerRestart
    \/ DashStart \/ DashReset
    \/ BreakerTick

BreakerSpec == BreakerInit /\ [][BreakerNext]_breakerVars

\* A process that starts now finds the breaker's state in the file, and no
\* more stop losses, no longer cooldown and no higher peak than the breaker
\* has: a crash undoes no transition, not even one of the two that a single
\* evaluation may make.  The exceptions are a save of the engine that failed,
\* until the next one works, and the dashboard's breaker saved over the file.
RestartRestores ==
    intact => /\ Loaded.state = cb.state
              /\ Loaded.sl <= cb.sl /\ Loaded.cool <= cb.cool /\ Loaded.peak <= cb.peak

\* Without the exceptions it does not hold: a failed save is only logged, and
\* the dashboard saves its own breaker over the engine's file.
FileFollows == Loaded.state = cb.state
=============================================================================
