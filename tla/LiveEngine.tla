----------------------------- MODULE LiveEngine -----------------------------
(***************************************************************************)
(* internal/live: the orchestrator of atlas -live around the portfolio     *)
(* breaker.  Its goroutines are the market-time scheduler (open, close),   *)
(* the intraday processor (cycles), the quote poller and one goroutine per *)
(* market-snapshot event.  They share the state store, the breaker and the *)
(* risk gate, each under its own lock; an action is one critical section,  *)
(* or several that touch disjoint state.  Orders are in LiveOrders.        *)
(*                                                                         *)
(* A quote says what it makes of the position: a gain, or a loss that may  *)
(* be beyond MaxPositionLossPct.  DayPnL is whether the day's loss is      *)
(* beyond the limit.  Agents (applyExecutionInput), metrics and            *)
(* take-profit events change nothing modelled here.                        *)
(***************************************************************************)
EXTENDS RiskGate, FiniteSetsExt

CONSTANTS
    Symbols,        \* watchlist
    Held,           \* symbols with a position
    Cash,           \* portfolio.Cash
    Results,        \* what a quote may make of a position, gain or loss
    MaxLoss,        \* MaxPositionLossPct: a loss beyond it is a stop loss
    MaxSnaps        \* bound: snapshot events under way

ASSUME LiveAssumption ==
    /\ Held \subseteq Symbols /\ Symbols # {}
    /\ Cash \in Nat /\ Results \subseteq Int /\ MaxLoss \in Nat
    /\ \A r \in Results \cup {0} : Cash + r \in Values
    /\ MaxSnaps \in Nat

VARIABLES
    pnl,        \* UnrealizedPnL of each position
    unrl,       \* portfolio.UnrealizedPnL
    dayLoss,    \* portfolio.DayPnL is beyond the daily limit
    inHours,    \* the clock is between MarketOpenTime and MarketCloseTime
    ticking,    \* scheduler.intradayTicker is not nil
    sched,      \* the market-time scheduler's place
    cyc,        \* the intraday processor's place
    fetch,      \* fetchAndProcessQuotes, per goroutine that runs it
    snaps,      \* market-snapshot handlers under way
    calm        \* history: ticks since the last stop loss, up to Cooldown

storeVars == <<pnl, unrl, dayLoss>>
clockVars == <<inHours, ticking, sched>>
vars == <<breakerVars, storeVars, gateVars, clockVars, cyc, fetch, snaps, calm>>

Fetchers == {"poll", "cycle", "close"}
NoFetch == [at |-> "idle"]
Value == Cash + unrl
\* The portfolio's sum is that of the latest quote, whatever it was for.
Latest(p) == {IF s \in Held THEN p[s] ELSE 0 : s \in Symbols}
Snapshots == [sym : Symbols, result : Results]

TypeOK ==
    /\ BreakerTypeOK
    /\ pnl \in [Held -> Results] /\ unrl \in Results \cup {0} /\ dayLoss \in BOOLEAN
    /\ GateTypeOK /\ inHours \in BOOLEAN /\ ticking \in BOOLEAN
    /\ sched \in [at : {"idle", "opening", "closing"}, value : Values \cup {0}]
    /\ cyc \in [at : {"idle", "fetching", "evaluating", "syncing"}, value : Values \cup {0}, dayLoss : BOOLEAN]
    /\ \A f \in Fetchers :
          \/ fetch[f] = NoFetch
          \/ fetch[f] \in [at : {"quotes"}, todo : SUBSET Symbols]
          \/ fetch[f] \in [at : {"check"}, todo : SUBSET Symbols, sym : Symbols, result : Results]
    /\ snaps \in [Snapshots -> 0 .. MaxSnaps]
    /\ calm \in 0 .. Cooldown

Rest == [at |-> "idle", value |-> 0]
CycRest == [at |-> "idle", value |-> 0, dayLoss |-> FALSE]

\* The process as Start finds it: nothing is under way.
Quiet ==
    /\ gate' = FALSE /\ read' = "nothing" /\ ticking' = FALSE /\ sched' = Rest /\ cyc' = CycRest
    /\ fetch' = [f \in Fetchers |-> NoFetch]
    /\ snaps' = [q \in Snapshots |-> 0]

Init ==
    /\ BreakerInit
    /\ pnl \in [Held -> Results] /\ unrl \in Latest(pnl) /\ dayLoss = FALSE
    /\ GateInit /\ inHours = FALSE /\ ticking = FALSE /\ sched = Rest /\ cyc = CycRest
    /\ fetch = [f \in Fetchers |-> NoFetch]
    /\ snaps = [q \in Snapshots |-> 0]
    /\ calm = Cooldown

-----------------------------------------------------------------------------
\* Quotes.

\* StateStore.UpdatePositionPrices, which the engine calls with one quote at
\* a time: the portfolio's sum is over the quoted positions only.
UpdatePositionPrices(sym, result) ==
    /\ pnl' = [s \in Held |-> IF s = sym THEN result ELSE pnl[s]]
    /\ unrl' = IF sym \in Held THEN result ELSE 0
    /\ UNCHANGED dayLoss

\* Orchestrator.checkRiskTriggers.
CheckRiskTriggers(sym, result) ==
    IF sym \in Held /\ result < -MaxLoss
    THEN RecordStopLoss /\ calm' = 0
    ELSE UNCHANGED <<breakerVars, calm>>

\* fetchAndProcessQuotes begins; the provider may fail or leave symbols out.
Fetching(f) ==
    \E todo \in SUBSET Symbols : fetch' = [fetch EXCEPT ![f] = [at |-> "quotes", todo |-> todo]]

Fetched(f) == fetch[f].at = "quotes" /\ fetch[f].todo = {}

Quote(f) ==
    /\ fetch[f].at = "quotes"
    /\ \E sym \in fetch[f].todo, result \in Results :
          /\ UpdatePositionPrices(sym, result)
          /\ fetch' = [fetch EXCEPT ![f] = [at |-> "check", todo |-> @.todo \ {sym},
                                            sym |-> sym, result |-> result]]
    /\ UNCHANGED <<breakerVars, gateVars, clockVars, cyc, snaps, calm>>

\* publishMarketSnapshot: the bus takes the event, or drops it when full.
Publish(q) == snaps' = IF snaps[q] = MaxSnaps THEN snaps ELSE [snaps EXCEPT ![q] = @ + 1]

Check(f) ==
    /\ fetch[f].at = "check"
    /\ CheckRiskTriggers(fetch[f].sym, fetch[f].result)
    /\ Publish([sym |-> fetch[f].sym, result |-> fetch[f].result])
    /\ fetch' = [fetch EXCEPT ![f] = [at |-> "quotes", todo |-> @.todo]]
    /\ UNCHANGED <<storeVars, gateVars, clockVars, cyc>>

\* The market-snapshot handler repeats both on the quote it was given,
\* however old that quote is by then.  (Its two sections are one step: apart
\* they are what a poll with that quote does.)
Snapshot(q) ==
    /\ snaps[q] > 0
    /\ snaps' = [snaps EXCEPT ![q] = @ - 1]
    /\ UpdatePositionPrices(q.sym, q.result)
    /\ CheckRiskTriggers(q.sym, q.result)
    /\ UNCHANGED <<gateVars, clockVars, cyc, fetch>>

\* Scheduler.quotePoller: polls day and night.
Poll ==
    /\ fetch["poll"] = NoFetch
    /\ Fetching("poll")
    /\ UNCHANGED <<breakerVars, storeVars, gateVars, clockVars, cyc, snaps, calm>>

PollEnd ==
    /\ Fetched("poll")
    /\ fetch' = [fetch EXCEPT !["poll"] = NoFetch]
    /\ UNCHANGED <<breakerVars, storeVars, gateVars, clockVars, cyc, snaps, calm>>

-----------------------------------------------------------------------------
\* The day.

\* The clock reaches the opening or the closing time.  A cycle takes seconds,
\* so none of the day before is left in the morning.
Bell ==
    /\ ~inHours => cyc = CycRest /\ sched = Rest /\ ~ticking
    /\ inHours' = ~inHours
    /\ UNCHANGED <<breakerVars, storeVars, gateVars, ticking, sched, cyc, fetch, snaps, calm>>

\* onMarketOpen, also when the process starts within market hours: the
\* store's day is reset and the starting value read.
OpenStore ==
    /\ inHours /\ ~ticking /\ sched.at = "idle"
    /\ dayLoss' = FALSE
    /\ sched' = [at |-> "opening", value |-> Value]
    /\ UNCHANGED <<breakerVars, pnl, unrl, gateVars, inHours, ticking, cyc, fetch, snaps, calm>>

\* onMarketOpen goes on with the breaker, and the processor is started.
OpenBreaker ==
    /\ sched.at = "opening"
    /\ ResetDayState(sched.value)
    /\ sched' = Rest
    /\ ticking' = TRUE
    /\ UNCHANGED <<storeVars, gateVars, inHours, cyc, fetch, snaps, calm>>

\* onMarketClose.
CloseFetch ==
    /\ ~inHours /\ ticking /\ sched.at = "idle"
    /\ sched' = [at |-> "closing", value |-> 0]
    /\ Fetching("close")
    /\ UNCHANGED <<breakerVars, storeVars, gateVars, inHours, ticking, cyc, snaps, calm>>

CloseEnd ==
    /\ sched.at = "closing" /\ Fetched("close")
    /\ sched' = Rest
    /\ ticking' = FALSE
    /\ fetch' = [fetch EXCEPT !["close"] = NoFetch]
    /\ UNCHANGED <<breakerVars, storeVars, gateVars, inHours, cyc, snaps, calm>>

\* DayPnL is written into the store (UpdatePortfolio, CalculateDayPnL).
FeedDayPnL(loss) ==
    /\ dayLoss' = loss
    /\ UNCHANGED <<breakerVars, pnl, unrl, gateVars, clockVars, cyc, fetch, snaps, calm>>

\* onIntradayCycle: quotes, then the portfolio as it is ...
CycleStart ==
    /\ ticking /\ cyc.at = "idle"
    /\ cyc' = [CycRest EXCEPT !.at = "fetching"]
    /\ Fetching("cycle")
    /\ UNCHANGED <<breakerVars, storeVars, gateVars, clockVars, snaps, calm>>

CyclePortfolio ==
    /\ cyc.at = "fetching" /\ Fetched("cycle")
    /\ cyc' = [at |-> "evaluating", value |-> Value, dayLoss |-> dayLoss]
    /\ fetch' = [fetch EXCEPT !["cycle"] = NoFetch]
    /\ UNCHANGED <<breakerVars, storeVars, gateVars, clockVars, snaps, calm>>

\* ... the breaker's rules on that portfolio ...
CycleEvaluate ==
    /\ cyc.at = "evaluating"
    /\ Evaluate(cyc.value, cyc.dayLoss)
    /\ cyc' = [CycRest EXCEPT !.at = "syncing"]
    /\ UNCHANGED <<storeVars, gateVars, clockVars, fetch, snaps, calm>>

\* ... and SyncRiskGateFromCircuitBreaker, from the state the breaker has by
\* now to the gate, in two sections.
CycleRead ==
    /\ cyc.at = "syncing"
    /\ ReadState
    /\ UNCHANGED <<storeVars, clockVars, cyc, fetch, snaps, calm>>

CycleSync ==
    /\ cyc.at = "syncing"
    /\ SyncHalt
    /\ cyc' = CycRest
    /\ UNCHANGED <<storeVars, clockVars, fetch, snaps, calm>>

Cycle == CycleStart \/ Quote("cycle") \/ Check("cycle") \/ CyclePortfolio \/ CycleEvaluate
         \/ CycleRead \/ CycleSync

\* StateStore.Load finds some portfolio of before: the one that Stop or the
\* last market close saved.
Load ==
    /\ pnl' \in [Held -> Results]
    /\ unrl' \in Latest(pnl')
    /\ dayLoss' \in BOOLEAN

\* Slip: the breaker of the new process starts without its file.
RestartBlank ==
    /\ cb' = Fresh /\ UNCHANGED <<file, dash, intact>>
    /\ Load
    /\ Quiet
    /\ UNCHANGED <<inHours, calm>>

\* The process ends, by a crash at any point or by Stop, and starts again.
Restart ==
    /\ BreakerRestart
    /\ Load
    /\ Quiet
    /\ UNCHANGED <<inHours, calm>>

Tick ==
    /\ BreakerTick
    /\ calm' = IF calm < Cooldown THEN calm + 1 ELSE calm
    /\ UNCHANGED <<storeVars, gateVars, clockVars, cyc, fetch, snaps>>

-----------------------------------------------------------------------------
Running ==
    \/ \E f \in Fetchers : Quote(f) \/ Check(f)
    \/ \E q \in Snapshots : Snapshot(q)
    \/ Poll \/ PollEnd
    \/ Bell \/ OpenStore \/ OpenBreaker \/ CloseFetch \/ CloseEnd
    \/ CycleStart \/ CyclePortfolio \/ CycleEvaluate \/ CycleRead \/ CycleSync
    \/ \E loss \in BOOLEAN : FeedDayPnL(loss)
    \/ Tick

Next == Running \/ Restart

Spec == Init /\ [][Next]_vars

\* The intraday ticker keeps ticking and a cycle, once begun, goes on; time
\* passes.  Nothing is assumed of quotes, orders, the dashboard or the bells.
FairSpec == Spec /\ WF_vars(Cycle) /\ WF_vars(Tick)

-----------------------------------------------------------------------------
\* Through all its goroutines and restarts the engine does to the breaker and
\* its file only what the breaker's own specification allows.
EngineUsesBreaker == BreakerSpec

\* Trading is resumed by an evaluation only from a pause whose cooldown has
\* passed; a halt ends with the day or the process, or becomes a pause.
ResumedAfterCooldown ==
    [][cb.state # "normal" /\ cb'.state = "normal" =>
          (cb.state = "paused" /\ cb.cool = 0) \/ OpenBreaker \/ Restart]_vars

\* During the day, once enough stop losses have come, trading is normal only
\* when a whole cooldown has gone by since the latest of them, however
\* polls, cycles, late snapshot handlers and restarts interleave.
CalmBeforeTrading ==
    ticking /\ cb.sl = ConsecutiveSL /\ cb.state = "normal" => calm = Cooldown

\* During the day a lasting restriction reaches the risk gate, and a lasting
\* return to normal clears it.
GateFollows ==
    /\ <>[](ticking /\ cb.state # "normal") => <>[]gate
    /\ <>[](ticking /\ cb.state = "normal") => <>[]~gate

\* When for good no stop loss comes and the portfolio is near its peak,
\* trading does not stay paused.  (In a drawdown from a peak that a gain has
\* set, each evaluation after the cooldown resumes trading and pauses it
\* again.)
Quieted == ticking /\ calm = Cooldown /\ ~InDrawdown(cb.peak, Value)
PauseLifted == <>[]Quieted => <>[](cb.state # "paused")

\* UpdatePositionPrices updates all positions: the portfolio's unrealized
\* result is that of its positions.  With two positions it does not hold: the
\* engine hands over one quote at a time, and the sum is over quoted ones.
PortfolioValueWhole == unrl = MapThenSumSet(LAMBDA s : pnl[s], Held)
=============================================================================
