----------------------------- MODULE LiveProofs -----------------------------
(***************************************************************************)
(* Proofs about the live engine, the orders it sends and the dashboard's   *)
(* breaker next to it, for any symbols, positions, values, thresholds,     *)
(* cooldowns, orders and numbers of retries: first the engine alone, then  *)
(* the orders under a breaker that anybody moves, then the whole, where    *)
(* the engine and the dashboard are the ones who do.                       *)
(***************************************************************************)
EXTENDS LiveSystem, PortfolioBreakerProofs

-----------------------------------------------------------------------------
(* The risk gate. *)

\* The gate is opened or closed.
LEMMA GateTyped == ASSUME GateTypeOK, ReadState \/ SyncHalt PROVE GateTypeOK'
  <1>1. CASE ReadState
    BY <1>1 DEF ReadState, GateTypeOK, Readings
  <1>2. CASE SyncHalt
    <2>1. gate' = (read = "restricted")
      BY <1>2 DEF SyncHalt
    <2>2. (read = "restricted") \in BOOLEAN
      OBVIOUS
    <2>3. gate' \in BOOLEAN
      BY <2>1, <2>2, Zenon
    <2>4. QED
      BY <1>2, <2>3 DEF SyncHalt, GateTypeOK, Readings
  <1>3. QED
    BY <1>1, <1>2

-----------------------------------------------------------------------------
(* The engine's own variables. *)

Places ==
    {NoFetch} \cup [at : {"quotes"}, todo : SUBSET Symbols]
              \cup [at : {"check"}, todo : SUBSET Symbols, sym : Symbols, result : Results]

StoreOK == pnl \in [Held -> Results] /\ unrl \in Results \cup {0} /\ dayLoss \in BOOLEAN

\* The scheduler goes to the breaker with a value the portfolio had.
SchedOK ==
    /\ sched \in [at : {"idle", "opening", "closing"}, value : Values \cup {0}]
    /\ sched.at = "opening" => sched.value \in Values

\* The intraday cycle does, too.
CycOK ==
    /\ cyc \in [at : {"idle", "fetching", "evaluating", "syncing"}, value : Values \cup {0}, dayLoss : BOOLEAN]
    /\ cyc.at = "evaluating" => cyc.value \in Values

FetchOK == fetch \in [Fetchers -> Places]
SnapsOK == snaps \in [Snapshots -> 0 .. MaxSnaps]

EngineOK ==
    /\ StoreOK /\ SchedOK /\ CycOK /\ FetchOK /\ SnapsOK
    /\ GateTypeOK /\ inHours \in BOOLEAN /\ ticking \in BOOLEAN
    /\ calm \in 0 .. Cooldown

\* What the portfolio is worth is one of the values the breaker knows.
LEMMA ValueTyped == ASSUME StoreOK PROVE Value \in Values
  BY LiveAssumption DEF StoreOK, Value

\* The latest quote is one of those the engine knows.
LEMMA LatestTyped == ASSUME NEW p \in [Held -> Results] PROVE Latest(p) \subseteq Results \cup {0}
  BY DEF Latest

\* fetchAndProcessQuotes begins, in any of the goroutines.
LEMMA FetchingTyped ==
    ASSUME FetchOK, NEW f \in Fetchers, Fetching(f)
    PROVE  FetchOK'
  BY DEF FetchOK, Fetching, Places

\* Its end.
LEMMA FetchEndTyped ==
    ASSUME FetchOK, NEW f \in Fetchers, fetch' = [fetch EXCEPT ![f] = NoFetch]
    PROVE  FetchOK'
  BY DEF FetchOK, Places

\* A goroutine that is at a quote has symbols left, and one that is about to
\* check holds that quote.
LEMMA PlaceTyped ==
    ASSUME FetchOK, NEW f \in Fetchers
    PROVE  /\ fetch[f].at = "quotes" => fetch[f].todo \in SUBSET Symbols
           /\ fetch[f].at = "check" => fetch[f] \in [at : {"check"}, todo : SUBSET Symbols, sym : Symbols, result : Results]
  <1>1. fetch[f] \in Places
    BY DEF FetchOK
  <1>2. QED
    BY <1>1 DEF Places, NoFetch

\* UpdatePositionPrices leaves a portfolio.
LEMMA PricesTyped ==
    ASSUME StoreOK, NEW sym \in Symbols, NEW result \in Results, UpdatePositionPrices(sym, result)
    PROVE  StoreOK'
  BY DEF StoreOK, UpdatePositionPrices

\* A stop loss, if there is one, sets the history back.
LEMMA TriggerTyped ==
    ASSUME calm \in 0 .. Cooldown, NEW sym, NEW result, CheckRiskTriggers(sym, result)
    PROVE  calm' \in 0 .. Cooldown
  BY PortfolioBreakerAssumption DEF CheckRiskTriggers

\* A process that starts has nothing under way.
LEMMA QuietTyped ==
    ASSUME Quiet
    PROVE  (SchedOK /\ CycOK /\ FetchOK /\ SnapsOK /\ GateTypeOK)' /\ ticking' = FALSE
  <1>1. GateTypeOK' /\ ticking' = FALSE
    BY DEF Quiet, GateTypeOK, Readings
  <1>2. SchedOK' /\ CycOK'
    BY DEF Quiet, SchedOK, CycOK, Rest, CycRest
  <1>3. FetchOK' /\ SnapsOK'
    BY LiveAssumption DEF Quiet, FetchOK, SnapsOK, Places
  <1>4. QED
    BY <1>1, <1>2, <1>3

\* A quote is applied and then looked at (fetchAndProcessQuotes).
LEMMA QuotesTyped ==
    ASSUME EngineOK, NEW f \in Fetchers, Quote(f) \/ Check(f)
    PROVE  EngineOK'
  <1>1. CASE Quote(f)
    <2>1. PICK sym \in fetch[f].todo, result \in Results :
                 /\ UpdatePositionPrices(sym, result)
                 /\ fetch' = [fetch EXCEPT ![f] = [at |-> "check", todo |-> @.todo \ {sym},
                                                   sym |-> sym, result |-> result]]
      BY <1>1 DEF Quote
    <2>2. fetch[f].todo \in SUBSET Symbols
      BY <1>1, PlaceTyped DEF EngineOK, Quote
    <2>3. StoreOK'
      BY <2>1, <2>2, PricesTyped DEF EngineOK
    <2>4. [at |-> "check", todo |-> fetch[f].todo \ {sym}, sym |-> sym, result |-> result] \in Places
      BY <2>2 DEF Places
    <2>5. FetchOK'
      BY <2>1, <2>4 DEF EngineOK, FetchOK
    <2>6. QED
      BY <1>1, <2>3, <2>5 DEF Quote, gateVars, clockVars, GateTypeOK, EngineOK, SchedOK, CycOK, SnapsOK
  <1>2. CASE Check(f)
    <2>1. fetch[f] \in [at : {"check"}, todo : SUBSET Symbols, sym : Symbols, result : Results]
      BY <1>2, PlaceTyped DEF EngineOK, Check
    <2>2. calm' \in 0 .. Cooldown
      BY <1>2, TriggerTyped DEF EngineOK, Check
    <2> DEFINE q == [sym |-> fetch[f].sym, result |-> fetch[f].result]
    <2>3. SnapsOK'
      <3>1. q \in Snapshots
        BY <2>1 DEF Snapshots
      <3>2. snaps[q] \in 0 .. MaxSnaps
        BY <3>1 DEF EngineOK, SnapsOK
      <3>3. snaps[q] # MaxSnaps => snaps[q] + 1 \in 0 .. MaxSnaps
        BY <3>2, LiveAssumption
      <3>4. snaps' = IF snaps[q] = MaxSnaps THEN snaps ELSE [snaps EXCEPT ![q] = snaps[q] + 1]
        BY <1>2 DEF Check, Publish
      <3> HIDE DEF q
      <3>5. QED
        BY <3>3, <3>4 DEF EngineOK, SnapsOK
    <2>4. [at |-> "quotes", todo |-> fetch[f].todo] \in Places
      BY <2>1 DEF Places
    <2>5. FetchOK'
      BY <1>2, <2>4 DEF Check, EngineOK, FetchOK
    <2>6. QED
      BY <1>2, <2>2, <2>3, <2>5 DEF Check, gateVars, GateTypeOK, clockVars, storeVars, EngineOK, StoreOK, SchedOK, CycOK
  <1>3. QED
    BY <1>1, <1>2

\* A snapshot handler does both for the quote it was given.
LEMMA SnapshotTyped ==
    ASSUME EngineOK, NEW q \in Snapshots, Snapshot(q)
    PROVE  EngineOK'
  <1>1. StoreOK'
    BY PricesTyped DEF EngineOK, Snapshot, Snapshots
  <1>2. calm' \in 0 .. Cooldown
    BY TriggerTyped DEF EngineOK, Snapshot
  <1>3. SnapsOK'
    BY LiveAssumption DEF EngineOK, Snapshot, SnapsOK
  <1>4. QED
    BY <1>1, <1>2, <1>3 DEF Snapshot, gateVars, clockVars, GateTypeOK, EngineOK, SchedOK, CycOK, FetchOK

\* The market-time scheduler: bells, opening and closing.
DayStep == Bell \/ OpenStore \/ OpenBreaker \/ CloseFetch \/ CloseEnd

\* It goes to the breaker with the portfolio's value.
LEMMA DayTyped == ASSUME EngineOK, DayStep PROVE EngineOK'
  <1> USE DEF EngineOK, GateTypeOK, gateVars, storeVars, clockVars
  <1>1. Fetchers = {"poll", "cycle", "close"}
    BY DEF Fetchers
  <1>2. CASE Bell
    BY <1>2 DEF Bell, StoreOK, SchedOK, CycOK, FetchOK, SnapsOK
  <1>3. CASE OpenStore
    <2>1. SchedOK'
      BY <1>3, ValueTyped DEF OpenStore, SchedOK
    <2>2. QED
      BY <1>3, <2>1 DEF OpenStore, StoreOK, CycOK, FetchOK, SnapsOK
  <1>4. CASE OpenBreaker
    BY <1>4 DEF OpenBreaker, Rest, StoreOK, SchedOK, CycOK, FetchOK, SnapsOK
  <1>5. CASE CloseFetch
    <2>1. FetchOK'
      BY <1>1, <1>5, FetchingTyped DEF CloseFetch
    <2>2. QED
      BY <1>5, <2>1 DEF CloseFetch, StoreOK, SchedOK, CycOK, SnapsOK
  <1>6. CASE CloseEnd
    <2>1. FetchOK'
      BY <1>1, <1>6, FetchEndTyped DEF CloseEnd
    <2>2. QED
      BY <1>6, <2>1 DEF CloseEnd, Rest, StoreOK, SchedOK, CycOK, SnapsOK
  <1>7. QED
    BY <1>2, <1>3, <1>4, <1>5, <1>6 DEF DayStep

\* The intraday processor and the poller, but for their quotes.
LoopStep ==
    \/ Poll \/ PollEnd
    \/ CycleStart \/ CyclePortfolio \/ CycleEvaluate \/ CycleRead \/ CycleSync

\* The cycle evaluates the portfolio it has read.
LEMMA LoopTyped == ASSUME EngineOK, LoopStep PROVE EngineOK'
  <1> USE DEF EngineOK, GateTypeOK, gateVars, storeVars, clockVars
  <1>1. Fetchers = {"poll", "cycle", "close"}
    BY DEF Fetchers
  <1>2. CASE Poll \/ PollEnd
    <2>1. FetchOK'
      BY <1>1, <1>2, FetchingTyped, FetchEndTyped DEF Poll, PollEnd
    <2>2. QED
      BY <1>2, <2>1 DEF Poll, PollEnd, StoreOK, SchedOK, CycOK, SnapsOK
  <1>3. CASE CycleStart
    <2>1. FetchOK'
      BY <1>1, <1>3, FetchingTyped DEF CycleStart
    <2>2. QED
      BY <1>3, <2>1 DEF CycleStart, CycRest, StoreOK, SchedOK, CycOK, SnapsOK
  <1>4. CASE CyclePortfolio
    <2>1. FetchOK'
      BY <1>1, <1>4, FetchEndTyped DEF CyclePortfolio
    <2>2. CycOK'
      BY <1>4, ValueTyped DEF CyclePortfolio, CycOK, StoreOK
    <2>3. QED
      BY <1>4, <2>1, <2>2 DEF CyclePortfolio, StoreOK, SchedOK, SnapsOK
  <1>5. CASE CycleEvaluate
    <2>1. CycOK'
      BY <1>5 DEF CycleEvaluate, CycRest, CycOK
    <2>2. QED
      BY <1>5, <2>1 DEF CycleEvaluate, StoreOK, SchedOK, FetchOK, SnapsOK
  <1>6. CASE CycleSync
    <2>1. CycOK'
      BY <1>6 DEF CycleSync, CycRest, CycOK
    <2>2. GateTypeOK'
      BY <1>6, GateTyped DEF CycleSync
    <2>3. QED
      BY <1>6, <2>1, <2>2 DEF CycleSync, SyncHalt, StoreOK, SchedOK, FetchOK, SnapsOK
  <1>7. CASE CycleRead
    <2>1. GateTypeOK'
      BY <1>7, GateTyped DEF CycleRead
    <2>2. QED
      BY <1>7, <2>1 DEF CycleRead, ReadState, StoreOK, SchedOK, CycOK, FetchOK, SnapsOK
  <1>8. QED
    BY <1>2, <1>3, <1>4, <1>5, <1>6, <1>7 DEF LoopStep

\* Every step leaves the engine's variables in their types.
LEMMA EngineStepInv == EngineOK /\ [Next]_vars => EngineOK'
  <1> SUFFICES ASSUME EngineOK, [Next]_vars PROVE EngineOK'
    OBVIOUS
  <1>1. CASE \E f \in Fetchers : Quote(f) \/ Check(f)
    BY <1>1, QuotesTyped
  <1>2. CASE \E q \in Snapshots : Snapshot(q)
    BY <1>2, SnapshotTyped
  <1>3. CASE DayStep
    BY <1>3, DayTyped
  <1>4. CASE LoopStep
    BY <1>4, LoopTyped
  <1>5. CASE \E loss \in BOOLEAN : FeedDayPnL(loss)
    BY <1>5 DEF FeedDayPnL, gateVars, clockVars, GateTypeOK, EngineOK, StoreOK, SchedOK, CycOK, FetchOK, SnapsOK
  <1>6. CASE Restart
    <2>1. StoreOK'
      BY <1>6, LatestTyped DEF Restart, Load, StoreOK
    <2>2. QED
      BY <1>6, <2>1, QuietTyped DEF Restart, EngineOK
  <1>7. CASE Tick
    <2>1. calm' \in 0 .. Cooldown
      BY <1>7, PortfolioBreakerAssumption DEF Tick, EngineOK
    <2>2. QED
      BY <1>7, <2>1 DEF Tick, storeVars, gateVars, clockVars, GateTypeOK,
              EngineOK, StoreOK, SchedOK, CycOK, FetchOK, SnapsOK
  <1>8. CASE UNCHANGED vars
    BY <1>8 DEF vars, storeVars, gateVars, clockVars, GateTypeOK,
              EngineOK, StoreOK, SchedOK, CycOK, FetchOK, SnapsOK
  <1>9. QED
    BY <1>1, <1>2, <1>3, <1>4, <1>5, <1>6, <1>7, <1>8 DEF Next, Running, DayStep, LoopStep

\* They are in their types when atlas starts.
LEMMA EngineInitInv == Init => EngineOK
  <1> SUFFICES ASSUME Init PROVE EngineOK
    OBVIOUS
  <1> USE DEF Init
  <1>1. StoreOK
    BY LatestTyped DEF StoreOK
  <1>2. SchedOK /\ CycOK
    BY DEF SchedOK, CycOK, Rest, CycRest
  <1>3. FetchOK
    BY DEF FetchOK, Places
  <1>4. SnapsOK
    BY LiveAssumption DEF SnapsOK
  <1>5. calm \in 0 .. Cooldown
    BY PortfolioBreakerAssumption
  <1>6. GateTypeOK
    BY DEF GateInit, GateTypeOK, Readings
  <1>7. QED
    BY <1>1, <1>2, <1>3, <1>4, <1>5, <1>6 DEF EngineOK

\* And always.
LEMMA EngineAlwaysOK == Spec => []EngineOK
  BY EngineInitInv, EngineStepInv, PTL DEF Spec

-----------------------------------------------------------------------------
(* The breaker under the engine. *)

\* A stop loss is the breaker's own step, or nothing.
LEMMA TriggerIsBreakerStep ==
    ASSUME NEW sym, NEW result, CheckRiskTriggers(sym, result)
    PROVE  RecordStopLoss \/ UNCHANGED breakerVars
  BY DEF CheckRiskTriggers

\* What the opening and the cycle hand to the breaker is a value and a day's
\* loss as its specification has them; all else is a method as it stands.
LEMMA NextIsBreakerStep == EngineOK /\ [Next]_vars => [BreakerNext]_breakerVars
  <1> SUFFICES ASSUME EngineOK, [Next]_vars PROVE [BreakerNext]_breakerVars
    OBVIOUS
  <1>1. ASSUME NEW f \in Fetchers, Quote(f) \/ Check(f)
        PROVE  [BreakerNext]_breakerVars
    BY <1>1, TriggerIsBreakerStep DEF Quote, Check, BreakerNext
  <1>2. ASSUME NEW q \in Snapshots, Snapshot(q)
        PROVE  [BreakerNext]_breakerVars
    BY <1>2, TriggerIsBreakerStep DEF Snapshot, BreakerNext
  <1>3. CASE OpenBreaker
    BY <1>3 DEF OpenBreaker, EngineOK, SchedOK, BreakerNext
  <1>4. CASE CycleEvaluate
    BY <1>4 DEF CycleEvaluate, EngineOK, CycOK, BreakerNext
  <1>5. CASE Restart \/ Tick
    BY <1>5 DEF Restart, Tick, BreakerNext
  <1>6. CASE \/ Bell \/ OpenStore \/ CloseFetch \/ CloseEnd \/ Poll \/ PollEnd
             \/ CycleStart \/ CyclePortfolio \/ CycleRead \/ CycleSync
             \/ \E loss \in BOOLEAN : FeedDayPnL(loss)
    BY <1>6 DEF Bell, OpenStore, CloseFetch, CloseEnd, Poll, PollEnd, CycleStart,
                CyclePortfolio, CycleRead, CycleSync, ReadState, SyncHalt, FeedDayPnL
  <1>7. CASE UNCHANGED vars
    BY <1>7 DEF vars
  <1>8. QED
    BY <1>1, <1>2, <1>3, <1>4, <1>5, <1>6, <1>7 DEF Next, Running

\* Through all its goroutines and restarts the engine does to the breaker
\* and its file only what the breaker's own specification allows.
THEOREM EngineUsesBreakerHolds == Spec => EngineUsesBreaker
  <1>1. Init => BreakerInit
    BY DEF Init
  <1>2. QED
    BY <1>1, NextIsBreakerStep, EngineAlwaysOK, PTL DEF Spec, EngineUsesBreaker, BreakerSpec

\* Hence in the engine, too, the breaker stays in its types and a restart
\* finds its state in the file, wherever no save failed.
THEOREM BreakerGuaranteesInEngine == Spec => []BreakerInv
  BY EngineUsesBreakerHolds, BreakerAlwaysInv, PTL DEF EngineUsesBreaker

\* All variables of the engine stay in their types.
THEOREM TypeCorrect == Spec => []TypeOK
  <1>1. EngineOK /\ BreakerInv => TypeOK
    BY DEF EngineOK, StoreOK, SchedOK, CycOK, FetchOK, SnapsOK, Places, BreakerInv, TypeOK
  <1>2. QED
    BY <1>1, EngineAlwaysOK, BreakerGuaranteesInEngine, PTL

-----------------------------------------------------------------------------
(* When trading is resumed. *)

\* An evaluation that resumes trading ends a pause whose cooldown is over.
LEMMA EvaluateResumes ==
    ASSUME BreakerTypeOK, NEW value, NEW loss, Evaluate(value, loss),
           cb'.state = "normal"
    PROVE  cb.state = "normal" \/ (cb.state = "paused" /\ cb.cool = 0)
  BY DEF Evaluate, Recovers, Transition, BreakerTypeOK, Breakers

\* One step that resumes trading.
Resumes ==
    cb.state # "normal" /\ cb'.state = "normal" =>
       (cb.state = "paused" /\ cb.cool = 0) \/ OpenBreaker \/ Restart

\* No other step of the engine does.
LEMMA NextResumes == BreakerInv /\ [Next]_vars => [Resumes]_vars
  <1> SUFFICES ASSUME BreakerInv, Next, cb.state # "normal", cb'.state = "normal",
                      ~OpenBreaker, ~Restart
               PROVE  cb.state = "paused" /\ cb.cool = 0
    BY DEF Resumes
  <1>1. CASE RecordStopLoss
    BY <1>1 DEF RecordStopLoss, Counted, Transition, BreakerInv, BreakerTypeOK, Breakers
  <1>2. CASE CycleEvaluate
    BY <1>2, EvaluateResumes DEF CycleEvaluate, BreakerInv
  <1>3. CASE Tick
    BY <1>3 DEF Tick, BreakerTick, Elapse, BreakerInv, BreakerTypeOK, Breakers
  <1>4. CASE UNCHANGED breakerVars
    BY <1>4 DEF breakerVars
  <1>5. QED
    BY <1>1, <1>2, <1>3, <1>4, TriggerIsBreakerStep
    DEF Next, Running, Quote, Check, Snapshot, Bell, OpenStore, CloseFetch, CloseEnd, Poll, PollEnd,
        CycleStart, CyclePortfolio, CycleRead, CycleSync, ReadState, SyncHalt, FeedDayPnL

\* Trading is resumed by an evaluation only from a pause whose cooldown has
\* passed; otherwise only by the opening of the market or a new process.
THEOREM ResumedAfterCooldownHolds == Spec => ResumedAfterCooldown
  <1>1. [Resumes]_vars <=> [cb.state # "normal" /\ cb'.state = "normal" =>
          (cb.state = "paused" /\ cb.cool = 0) \/ OpenBreaker \/ Restart]_vars
    BY DEF Resumes
  <1>2. QED
    BY <1>1, NextResumes, BreakerGuaranteesInEngine, PTL DEF Spec, ResumedAfterCooldown

\* During the day the cooldown and the calm since the latest stop loss are
\* two sides of one clock, from the stop loss that reached the threshold on.
\* (After a restart the cooldown from the file may be shorter, but then the
\* market opens anew before the first evaluation.)
OneClock == ticking /\ cb.sl = ConsecutiveSL => cb.cool + calm = Cooldown

CalmInv == OneClock /\ CalmBeforeTrading

\* A stop loss sets both back at once.
LEMMA TriggerKeepsClock ==
    ASSUME BreakerTypeOK, CalmInv, NEW sym, NEW result, CheckRiskTriggers(sym, result), UNCHANGED ticking
    PROVE  CalmInv'
  <1>1. CASE RecordStopLoss /\ calm' = 0
    <2>1. cb \in Breakers /\ cb.sl \in 0 .. ConsecutiveSL
      BY DEF BreakerTypeOK, Breakers
    <2>2. CASE Counted.sl < ConsecutiveSL
      <3>1. cb'.sl < ConsecutiveSL
        BY <1>1, <2>2 DEF RecordStopLoss
      <3>2. QED
        BY <3>1, PortfolioBreakerAssumption DEF CalmInv, OneClock, CalmBeforeTrading
    <2>3. CASE ~(Counted.sl < ConsecutiveSL)
      <3>1. cb'.state = "paused" /\ cb'.cool = Cooldown
        BY <1>1, <2>1, <2>3 DEF RecordStopLoss, Transition, Counted, Breakers
      <3>2. QED
        BY <1>1, <3>1, PortfolioBreakerAssumption DEF CalmInv, OneClock, CalmBeforeTrading
    <2>4. QED
      BY <2>2, <2>3
  <1>2. CASE UNCHANGED <<breakerVars, calm>>
    BY <1>2 DEF breakerVars, CalmInv, OneClock, CalmBeforeTrading
  <1>3. QED
    BY <1>1, <1>2 DEF CheckRiskTriggers

\* An evaluation leaves counter and cooldown alone, and resumes trading only
\* when the cooldown is over.
LEMMA EvaluateKeepsClock ==
    ASSUME BreakerTypeOK, calm \in 0 .. Cooldown, CalmInv,
           NEW value, NEW loss, Evaluate(value, loss),
           UNCHANGED <<ticking, calm>>
    PROVE  CalmInv'
  <1>1. cb'.sl = cb.sl /\ cb'.cool = cb.cool
    BY DEF Evaluate, Transition, BreakerTypeOK, Breakers
  <1>2. OneClock'
    BY <1>1 DEF CalmInv, OneClock
  <1>3. CASE cb'.state = "normal" /\ cb.state # "normal"
    <2>1. cb.cool = 0
      BY <1>3, EvaluateResumes
    <2>2. QED
      BY <1>1, <1>2, <2>1, PortfolioBreakerAssumption DEF CalmInv, OneClock, CalmBeforeTrading
  <1>4. CASE ~(cb'.state = "normal" /\ cb.state # "normal")
    BY <1>1, <1>2, <1>4 DEF CalmInv, CalmBeforeTrading
  <1>5. QED
    BY <1>3, <1>4

\* Time goes on for both.
LEMMA TickKeepsClock ==
    ASSUME BreakerTypeOK, calm \in 0 .. Cooldown, CalmInv, Tick
    PROVE  CalmInv'
  <1>1. /\ cb'.sl = cb.sl /\ cb'.state = cb.state
        /\ cb'.cool = IF cb.cool = 0 THEN 0 ELSE cb.cool - 1
    BY DEF Tick, BreakerTick, Elapse, BreakerTypeOK, Breakers
  <1>2. cb.cool \in 0 .. Cooldown
    BY DEF BreakerTypeOK, Breakers
  <1>3. ticking' = ticking /\ calm' = IF calm < Cooldown THEN calm + 1 ELSE calm
    BY DEF Tick, clockVars
  <1>4. QED
    BY <1>1, <1>2, <1>3, PortfolioBreakerAssumption DEF CalmInv, OneClock, CalmBeforeTrading

\* No step of the engine breaks it.
LEMMA CalmStepInv == EngineOK /\ BreakerInv /\ CalmInv /\ [Next]_vars => CalmInv'
  <1> SUFFICES ASSUME EngineOK, BreakerInv, CalmInv, [Next]_vars PROVE CalmInv'
    OBVIOUS
  <1> USE DEF BreakerInv, clockVars
  <1>1. ASSUME NEW f \in Fetchers, Check(f) PROVE CalmInv'
    BY <1>1, TriggerKeepsClock DEF Check
  <1>2. ASSUME NEW q \in Snapshots, Snapshot(q) PROVE CalmInv'
    BY <1>2, TriggerKeepsClock DEF Snapshot
  <1>3. CASE OpenBreaker
    <2>1. cb'.sl = 0
      BY <1>3 DEF OpenBreaker, ResetDayState, Fresh
    <2>2. QED
      BY <2>1, PortfolioBreakerAssumption DEF CalmInv, OneClock, CalmBeforeTrading
  <1>4. CASE CycleEvaluate
    BY <1>4, EvaluateKeepsClock DEF CycleEvaluate, EngineOK
  <1>5. CASE Tick
    BY <1>5, TickKeepsClock DEF EngineOK
  <1>6. CASE Restart \/ CloseEnd
    BY <1>6 DEF Restart, Quiet, CloseEnd, CalmInv, OneClock, CalmBeforeTrading
  <1>7. CASE UNCHANGED <<breakerVars, calm, ticking>>
    BY <1>7 DEF breakerVars, CalmInv, OneClock, CalmBeforeTrading
  <1>8. QED
    BY <1>1, <1>2, <1>3, <1>4, <1>5, <1>6, <1>7
    DEF Next, Running, vars, Quote, Bell, OpenStore, CloseFetch, Poll, PollEnd,
        CycleStart, CyclePortfolio, CycleRead, CycleSync, ReadState, SyncHalt, FeedDayPnL

\* During the day, once enough stop losses have come, trading is normal only
\* when a whole cooldown has gone by since the latest of them, however
\* polls, cycles, late snapshot handlers and restarts interleave.
THEOREM CalmBeforeTradingHolds == Spec => []CalmBeforeTrading
  <1>1. Init => CalmInv
    BY DEF Init, CalmInv, OneClock, CalmBeforeTrading
  <1>2. Spec => []CalmInv
    BY <1>1, CalmStepInv, EngineAlwaysOK, BreakerGuaranteesInEngine, PTL DEF Spec
  <1>3. CalmInv => CalmBeforeTrading
    BY DEF CalmInv
  <1>4. QED
    BY <1>2, <1>3, PTL

-----------------------------------------------------------------------------
(* Orders. *)

\* What the types leave out: each failure is at most one more late attempt,
\* and an order that has the risk gate comes to the broker only with none.
OrderOK(r) ==
    r = NoOrder \/ /\ r \in Working
                   /\ r.late < r.attempt
                   /\ r.gated => r.late <= 1
                   /\ r.gated /\ r.at = "submit" => r.late = 0

OrdersInv ==
    /\ GateTypeOK
    /\ order \in [Orders -> {NoOrder} \cup Working]
    /\ \A o \in Orders : OrderOK(order[o])

\* Only an order's own step changes it, and it leaves an order that is fine
\* if the new record is.
LEMMA OneOrderMoves ==
    ASSUME OrdersInv, NEW o \in Orders, NEW r, SetOrder(o, r), OrderOK(r)
    PROVE  OrdersInv'
  <1>1. r \in {NoOrder} \cup Working
    BY DEF OrderOK
  <1>2. order' \in [Orders -> {NoOrder} \cup Working]
    BY <1>1 DEF OrdersInv, SetOrder
  <1>3. \A p \in Orders : order'[p] = IF p = o THEN r ELSE order[p]
    BY DEF OrdersInv, SetOrder
  <1>4. \A p \in Orders : OrderOK(order'[p])
    BY <1>3 DEF OrdersInv
  <1>5. QED
    BY <1>2, <1>4 DEF OrdersInv, SetOrder, gateVars, GateTypeOK

\* checkRiskGate lets an order through: the gate is open to it, and its late
\* attempts are forgotten.
LEMMA SubmitFine ==
    ASSUME NEW r \in Working, OrderOK(r), NEW late \in {r.late, 0}, r.gated => late = 0
    PROVE  OrderOK([r EXCEPT !.at = "submit", !.late = late])
  <1> DEFINE s == [r EXCEPT !.at = "submit", !.late = late]
  <1>1. r # NoOrder /\ r.late \in 0 .. Attempts /\ r.attempt \in 1 .. Attempts
    BY DEF NoOrder, Working
  <1>2. r.late < r.attempt
    BY <1>1 DEF OrderOK
  <1>3. s.gated = r.gated /\ s.attempt = r.attempt /\ s.late = late
    BY DEF Working
  <1>4. late \in 0 .. Attempts
    BY <1>1, LiveOrdersAssumption DEF Attempts
  <1>5. s \in Working
    BY <1>4 DEF Working
  <1>6. s.late < s.attempt
    BY <1>1, <1>2, <1>3, LiveOrdersAssumption DEF Attempts
  <1>7. s.gated => s.late = 0
    BY <1>3
  <1>8. QED
    BY <1>5, <1>6, <1>7 DEF OrderOK

\* A failure before the last attempt adds one attempt, late or not.
LEMMA RetryFine ==
    ASSUME NEW r \in Working, OrderOK(r), r.at = "submit", r.attempt # Attempts,
           NEW late \in {r.late, r.late + 1}
    PROVE  OrderOK([r EXCEPT !.at = "loop", !.attempt = @ + 1, !.late = late])
  <1> DEFINE s == [r EXCEPT !.at = "loop", !.attempt = @ + 1, !.late = late]
  <1>1. r # NoOrder /\ r.late \in 0 .. Attempts /\ r.attempt \in 1 .. Attempts
    BY DEF NoOrder, Working
  <1>2. r.late < r.attempt /\ (r.gated => r.late = 0)
    BY <1>1 DEF OrderOK
  <1>3. /\ s.at = "loop" /\ s.gated = r.gated
        /\ s.attempt = r.attempt + 1 /\ s.late = late
    BY DEF Working
  <1>4. late \in 0 .. Attempts /\ r.attempt + 1 \in 1 .. Attempts
    BY <1>1, <1>2, LiveOrdersAssumption DEF Attempts
  <1>5. s \in Working
    BY <1>4 DEF Working
  <1>6. s.late < s.attempt
    BY <1>1, <1>2, <1>3
  <1>7. s.gated => s.late <= 1
    BY <1>2, <1>3
  <1>8. QED
    BY <1>3, <1>5, <1>6, <1>7 DEF OrderOK

\* Every step of an order, its start, checkRiskGate and the broker's answer,
\* leaves it fine.
LEMMA OrderStepsInv ==
    ASSUME OrdersInv, NEW o \in Orders,
           \/ OrderStep(o)
           \/ \E side \in Sides, gated \in BOOLEAN : ExecuteOrder(o, side, gated)
    PROVE  OrdersInv'
  <1>1. OrderOK(NoOrder)
    BY DEF OrderOK
  <1>2. ASSUME order[o].at \in {"loop", "submit"}
        PROVE  order[o] \in Working /\ OrderOK(order[o])
    BY <1>2 DEF OrdersInv, NoOrder
  <1>3. CASE \E side \in Sides, gated \in BOOLEAN : ExecuteOrder(o, side, gated)
    <2>1. PICK side \in Sides, gated \in BOOLEAN : ExecuteOrder(o, side, gated)
      BY <1>3
    <2>2. OrderOK([at |-> "loop", gated |-> gated, attempt |-> 1, late |-> 0])
      BY LiveOrdersAssumption DEF OrderOK, Working, Attempts
    <2>3. QED
      BY <2>1, <2>2, OneOrderMoves DEF ExecuteOrder
  <1>4. CASE CheckRiskGate(o)
    <2>1. CASE Stopped(o)
      BY <1>1, <1>4, <2>1, OneOrderMoves DEF CheckRiskGate
    <2>2. CASE ~Stopped(o)
      <3> DEFINE late == IF Stopped(o) THEN order[o].late ELSE 0
      <3>1. late \in {order[o].late, 0} /\ (order[o].gated => late = 0)
        BY <2>2 DEF Stopped
      <3>2. OrderOK([order[o] EXCEPT !.at = "submit", !.late = late])
        BY <1>2, <1>4, <3>1, SubmitFine DEF CheckRiskGate
      <3>3. SetOrder(o, [order[o] EXCEPT !.at = "submit", !.late = late])
        BY <1>4, <2>2 DEF CheckRiskGate, GoesOn
      <3>4. QED
        BY <3>2, <3>3, OneOrderMoves
    <2>3. QED
      BY <2>1, <2>2
  <1>5. CASE SubmitAnswered(o)
    BY <1>1, <1>5, OneOrderMoves DEF SubmitAnswered
  <1>6. CASE SubmitFails(o)
    <2>1. CASE order[o].attempt = Attempts
      BY <1>1, <1>6, <2>1, OneOrderMoves DEF SubmitFails
    <2>2. CASE order[o].attempt # Attempts
      <3> DEFINE late == IF Stopped(o) THEN order[o].late + 1 ELSE order[o].late
      <3>1. late \in {order[o].late, order[o].late + 1}
        OBVIOUS
      <3>2. OrderOK([order[o] EXCEPT !.at = "loop", !.attempt = @ + 1, !.late = late])
        BY <1>2, <1>6, <2>2, <3>1, RetryFine DEF SubmitFails
      <3>3. SetOrder(o, [order[o] EXCEPT !.at = "loop", !.attempt = @ + 1, !.late = late])
        BY <1>6, <2>2 DEF SubmitFails
      <3>4. QED
        BY <3>2, <3>3, OneOrderMoves
    <2>3. QED
      BY <2>1, <2>2
  <1>7. QED
    BY <1>3, <1>4, <1>5, <1>6 DEF OrderStep

OrdersIInv == BreakerInv /\ OrdersInv

\* It holds of a new engine.
LEMMA OrdersInitInv == OrdersInit => OrdersIInv
  BY BreakerInitInv DEF OrdersInit, GateInit, GateTypeOK, Readings, NoOrders,
                         OrdersIInv, OrdersInv, OrderOK

\* For the breaker, each step is one of its own or none.
LEMMA OrdersNextIsBreakerStep == [OrdersNext]_orderVars => [BreakerNext]_breakerVars
  <1> SUFFICES ASSUME [OrdersNext]_orderVars PROVE [BreakerNext]_breakerVars
    OBVIOUS
  <1>1. CASE Breaker \/ OrdersRestart
    BY <1>1 DEF Breaker, OrdersRestart, BreakerNext
  <1>2. CASE Sync \/ UNCHANGED orderVars
    BY <1>2 DEF Sync, ReadState, SyncHalt, orderVars
  <1>3. ASSUME NEW o \in Orders,
               \/ OrderStep(o)
               \/ \E side \in Sides, gated \in BOOLEAN : ExecuteOrder(o, side, gated)
        PROVE  UNCHANGED breakerVars
    BY <1>3 DEF OrderStep, CheckRiskGate, SubmitAnswered, SubmitFails, ExecuteOrder, SetOrder
  <1>4. QED
    BY <1>1, <1>2, <1>3 DEF OrdersNext, OrdersMove

\* Every step keeps it.
LEMMA OrdersNextInv == OrdersIInv /\ [OrdersNext]_orderVars => OrdersIInv'
  <1> SUFFICES ASSUME OrdersIInv, [OrdersNext]_orderVars PROVE OrdersIInv'
    OBVIOUS
  <1>1. BreakerInv'
    BY BreakerStepInv, OrdersNextIsBreakerStep DEF OrdersIInv
  <1>2. CASE Breaker \/ UNCHANGED orderVars
    BY <1>1, <1>2 DEF Breaker, gateVars, orderVars, GateTypeOK, OrdersIInv, OrdersInv
  <1>3. CASE Sync
    BY <1>1, <1>3, GateTyped DEF Sync, OrdersIInv, OrdersInv
  <1>4. CASE OrdersRestart
    BY <1>1, <1>4 DEF OrdersRestart, NoOrders, GateTypeOK, Readings, OrdersIInv, OrdersInv, OrderOK
  <1>5. ASSUME NEW o \in Orders,
               \/ OrderStep(o)
               \/ \E side \in Sides, gated \in BOOLEAN : ExecuteOrder(o, side, gated)
        PROVE  OrdersIInv'
    BY <1>1, <1>5, OrderStepsInv DEF OrdersIInv
  <1>6. QED
    BY <1>2, <1>3, <1>4, <1>5 DEF OrdersNext, OrdersMove

\* It holds always.
LEMMA OrdersAlwaysInv == OrdersSpec => []OrdersIInv
  BY OrdersInitInv, OrdersNextInv, PTL DEF OrdersSpec

-----------------------------------------------------------------------------
(* Theorems. *)

\* Breaker, file, gate and orders stay in their types; an order's attempts
\* never pass BrokerMaxRetries + 1.
THEOREM OrdersTypeCorrect == OrdersSpec => []OrdersTypeOK
  <1>1. OrdersIInv => OrdersTypeOK
    BY DEF OrdersIInv, BreakerInv, OrdersInv, OrdersTypeOK
  <1>2. QED
    BY <1>1, OrdersAlwaysInv, PTL

\* Orders, the gate's mirror and restarts do to the breaker only what its
\* specification allows.
THEOREM OrdersUseBreaker == OrdersSpec => BreakerSpec
  <1>1. OrdersInit => BreakerInit
    BY DEF OrdersInit
  <1>2. QED
    BY <1>1, OrdersNextIsBreakerStep, PTL DEF OrdersSpec, BreakerSpec

\* Hence a restart finds the breaker's state in the file while orders are
\* under way, too, unless a save failed or the dashboard wrote over it.
THEOREM RestartRestoresInOrders == OrdersSpec => []RestartRestores
  BY OrdersUseBreaker, RestartRestoresHolds, PTL

\* An order that has the risk gate reaches the broker at most once more
\* after the gate has closed, however many retries are configured.
THEOREM GateEndsRetriesHolds == OrdersSpec => []GateEndsRetries
  <1>1. OrdersIInv => GateEndsRetries
    BY DEF OrdersIInv, OrdersInv, OrderOK, GateEndsRetries
  <1>2. QED
    BY <1>1, OrdersAlwaysInv, PTL

-----------------------------------------------------------------------------
(* The system. *)

\* What the dashboard does, the engine's own variables do not notice; what
\* an order does, the breaker does not either.
DashboardStep == (DashStart \/ DashReset) /\ UNCHANGED <<gateVars, engineVars>>

LEMMA OrderingIsNoEngineStep == ASSUME Ordering PROVE UNCHANGED vars
  <1>1. ASSUME NEW o \in Orders,
               \/ OrderStep(o)
               \/ \E side \in Sides, gated \in BOOLEAN : ExecuteOrder(o, side, gated)
        PROVE  UNCHANGED <<breakerVars, gateVars>>
    BY <1>1 DEF OrderStep, CheckRiskGate, SubmitAnswered, SubmitFails, ExecuteOrder, SetOrder
  <1>2. QED
    BY <1>1 DEF Ordering, OrdersMove, engineVars, vars

LEMMA SystemStep ==
    ASSUME [SystemNext]_systemVars
    PROVE  [Next]_vars \/ DashboardStep
  BY OrderingIsNoEngineStep
  DEF SystemNext, systemVars, Engine, SystemRestart, Dashboard, DashboardStep, Next

\* The engine's variables are in their types in the system, too.
LEMMA SystemAlwaysEngineOK == SystemSpec => []EngineOK
  <1>1. SystemInit => EngineOK
    BY EngineInitInv DEF SystemInit
  <1>2. EngineOK /\ DashboardStep => EngineOK'
    BY DEF DashboardStep, engineVars, storeVars, clockVars, gateVars, GateTypeOK,
           EngineOK, StoreOK, SchedOK, CycOK, FetchOK, SnapsOK
  <1>3. EngineOK /\ [SystemNext]_systemVars => EngineOK'
    BY <1>2, EngineStepInv, SystemStep
  <1>4. QED
    BY <1>1, <1>3, PTL DEF SystemSpec

\* A step of the engine's goroutines is, to the orders, a call of the breaker,
\* a part of the gate's mirroring, or nothing.
LEMMA RunningIsOrdersStep ==
    ASSUME EngineOK, Running, UNCHANGED order
    PROVE  [OrdersNext]_orderVars
  <1> USE DEF orderVars, OrdersNext
  <1>1. ASSUME NEW f \in Fetchers, Quote(f) \/ Check(f)
        PROVE  [OrdersNext]_orderVars
    BY <1>1, TriggerIsBreakerStep DEF Quote, Check, Breaker
  <1>2. ASSUME NEW q \in Snapshots, Snapshot(q)
        PROVE  [OrdersNext]_orderVars
    BY <1>2, TriggerIsBreakerStep DEF Snapshot, Breaker
  <1>3. CASE OpenBreaker
    BY <1>3 DEF OpenBreaker, EngineOK, SchedOK, Breaker
  <1>4. CASE CycleEvaluate
    BY <1>4 DEF CycleEvaluate, EngineOK, CycOK, Breaker
  <1>5. CASE Tick
    BY <1>5 DEF Tick, Breaker
  <1>6. CASE CycleRead \/ CycleSync
    BY <1>6 DEF CycleRead, CycleSync, Sync
  <1>7. CASE \/ Bell \/ OpenStore \/ CloseFetch \/ CloseEnd \/ Poll \/ PollEnd
             \/ CycleStart \/ CyclePortfolio \/ \E loss \in BOOLEAN : FeedDayPnL(loss)
    BY <1>7 DEF Bell, OpenStore, CloseFetch, CloseEnd, Poll, PollEnd, CycleStart,
                CyclePortfolio, FeedDayPnL
  <1>8. QED
    BY <1>1, <1>2, <1>3, <1>4, <1>5, <1>6, <1>7 DEF Running

\* The breaker's callers that LiveOrders leaves open are the engine and the
\* dashboard as they are: what they do to breaker, file, gate and orders is
\* what LiveOrders allows.
THEOREM SystemUsesOrders == SystemSpec => OrdersContext
  <1>1. SystemInit => OrdersInit
    BY DEF SystemInit, Init, OrdersInit
  <1>2. ASSUME EngineOK, [SystemNext]_systemVars PROVE [OrdersNext]_orderVars
    <2>1. CASE Engine
      BY <1>2, <2>1, RunningIsOrdersStep DEF Engine
    <2>2. CASE Ordering
      BY <2>2 DEF Ordering, OrdersNext
    <2>3. CASE SystemRestart
      BY <2>3 DEF SystemRestart, Restart, Quiet, OrdersNext, OrdersRestart
    <2>4. CASE Dashboard
      BY <2>4 DEF Dashboard, OrdersNext, Breaker
    <2>5. CASE UNCHANGED systemVars
      BY <2>5 DEF systemVars, vars, orderVars
    <2>6. QED
      BY <1>2, <2>1, <2>2, <2>3, <2>4, <2>5 DEF SystemNext
  <1>3. QED
    BY <1>1, <1>2, SystemAlwaysEngineOK, PTL DEF SystemSpec, OrdersContext, OrdersSpec

\* The breaker's invariant, which the orders' specification implies.
LEMMA SystemAlwaysBreakerInv == SystemSpec => []BreakerInv
  <1>1. OrdersIInv => BreakerInv
    BY DEF OrdersIInv
  <1>2. QED
    BY <1>1, SystemUsesOrders, OrdersAlwaysInv, PTL DEF OrdersContext

\* Hence what was promised of orders holds in the system: a gate that closes
\* between two attempts ends the retries of an order that asks it, attempts
\* stay within BrokerMaxRetries + 1, and a restart finds the breaker's state
\* in the file unless a save failed or the dashboard wrote over it.
THEOREM OrdersGuaranteesInSystem ==
    SystemSpec => [](OrdersTypeOK /\ GateEndsRetries /\ RestartRestores)
  BY SystemUsesOrders, OrdersTypeCorrect, GateEndsRetriesHolds, RestartRestoresInOrders, PTL
  DEF OrdersContext

\* All variables stay in their types in the system.
THEOREM SystemTypeCorrect == SystemSpec => [](TypeOK /\ OrdersTypeOK)
  <1>1. EngineOK /\ OrdersTypeOK => TypeOK
    BY DEF EngineOK, StoreOK, SchedOK, CycOK, FetchOK, SnapsOK, Places, OrdersTypeOK, TypeOK
  <1>2. QED
    BY <1>1, SystemAlwaysEngineOK, OrdersGuaranteesInSystem, PTL

\* The dashboard's reset writes the state file, not the engine's breaker, and
\* a file that a new process reads counts only until the market opens: so
\* trading still waits for a whole cooldown without a stop loss.
THEOREM CalmBeforeTradingInSystem == SystemSpec => []CalmBeforeTrading
  <1>1. SystemInit => CalmInv
    BY DEF SystemInit, Init, CalmInv, OneClock, CalmBeforeTrading
  <1>2. CalmInv /\ DashboardStep => CalmInv'
    BY DEF DashboardStep, DashStart, DashReset, engineVars, clockVars,
           CalmInv, OneClock, CalmBeforeTrading
  <1>3. BreakerInv /\ EngineOK /\ CalmInv /\ [SystemNext]_systemVars => CalmInv'
    BY <1>2, CalmStepInv, SystemStep
  <1>4. CalmInv => CalmBeforeTrading
    BY DEF CalmInv
  <1>5. QED
    BY <1>1, <1>3, <1>4, SystemAlwaysEngineOK, SystemAlwaysBreakerInv, PTL DEF SystemSpec

\* In the system, too, trading is resumed only by an evaluation after the
\* cooldown, by the opening of the market or by a new process: a reset on
\* the dashboard resumes nothing in the engine that is running.
THEOREM ResumedAfterCooldownInSystem == SystemSpec => ResumedAfterCooldown
  <1>1. DashboardStep => Resumes
    BY DEF DashboardStep, DashStart, DashReset, Resumes
  <1>2. BreakerInv /\ [SystemNext]_systemVars => [Resumes]_vars
    BY <1>1, NextResumes, SystemStep
  <1>3. [Resumes]_vars <=> [cb.state # "normal" /\ cb'.state = "normal" =>
          (cb.state = "paused" /\ cb.cool = 0) \/ OpenBreaker \/ Restart]_vars
    BY DEF Resumes
  <1>4. QED
    BY <1>2, <1>3, SystemAlwaysBreakerInv, PTL DEF SystemSpec, ResumedAfterCooldown
=============================================================================
