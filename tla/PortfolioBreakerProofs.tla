----------------------- MODULE PortfolioBreakerProofs -----------------------
(***************************************************************************)
(* Proofs about the portfolio breaker and its file, for any values and     *)
(* thresholds, whatever may fail on the disk: its types, and what a new    *)
(* process finds in the file.  LiveEngine and LiveOrders are shown to      *)
(* implement its specification, and so have both.                          *)
(***************************************************************************)
EXTENDS PortfolioBreaker, TLAPS

\* A save leaves in the file what was saved, or what was there.
LEMMA SaveTyped ==
    ASSUME BreakerTypeOK, NEW before \in SUBSET Breakers, NEW b \in Breakers, Save(before, b)
    PROVE  file' \in Breakers \cup {NoFile} /\ intact' \in BOOLEAN
  BY DEF Save, BreakerTypeOK

\* Whatever a method does to the breaker, it leaves a breaker
\* (circuit_breaker.go).
LEMMA BreakerTyped ==
    ASSUME BreakerTypeOK, BreakerNext
    PROVE  BreakerTypeOK'
  <1> USE PortfolioBreakerAssumption
  <1>1. Fresh \in Breakers /\ Loaded \in Breakers
    BY DEF BreakerTypeOK, Breakers, CircuitStates, Fresh, Loaded
  <1>2. CASE \E value \in Values : ResetDayState(value)
    <2>1. PICK value \in Values : ResetDayState(value)
      BY <1>2
    <2>2. cb' \in Breakers
      BY <1>1, <2>1 DEF ResetDayState, Breakers, Fresh
    <2>3. QED
      BY <2>1, <2>2, SaveTyped DEF ResetDayState, Persist, BreakerTypeOK
  <1>3. CASE \E value \in Values, dayLoss \in BOOLEAN : Evaluate(value, dayLoss)
    <2>1. PICK value \in Values, dayLoss \in BOOLEAN : Evaluate(value, dayLoss)
      BY <1>3
    <2> DEFINE recovered == IF Recovers THEN Transition(cb, "normal") ELSE cb
               peak == IF value > cb.peak THEN value ELSE cb.peak
               risen == [recovered EXCEPT !.peak = peak]
    <2>2. recovered \in Breakers /\ risen \in Breakers
      BY DEF BreakerTypeOK, Breakers, CircuitStates, Transition
    <2>3. Transition(risen, "halted") \in Breakers /\ Transition(risen, "paused") \in Breakers
      BY <2>2 DEF Transition, Breakers, CircuitStates
    <2>4. cb' \in Breakers /\ dash' = dash
      BY <2>1, <2>2, <2>3 DEF Evaluate
    <2>5. \/ Save({recovered} \ {cb}, cb')
          \/ Save({}, recovered)
          \/ UNCHANGED <<file, intact>>
      BY <2>1 DEF Evaluate, PersistIfMoved, Persist
    <2>6. {recovered} \ {cb} \in SUBSET Breakers /\ {} \in SUBSET Breakers
      BY <2>2
    <2>7. file' \in Breakers \cup {NoFile} /\ intact' \in BOOLEAN
      BY <2>2, <2>4, <2>5, <2>6, SaveTyped DEF BreakerTypeOK
    <2>8. QED
      BY <2>4, <2>7 DEF BreakerTypeOK
  <1>4. CASE RecordStopLoss
    <2>1. Counted \in Breakers
      BY DEF Counted, BreakerTypeOK, Breakers
    <2>2. [Counted EXCEPT !.cool = Cooldown] \in Breakers
      BY <2>1 DEF Breakers
    <2>3. Transition([Counted EXCEPT !.cool = Cooldown], "paused") \in Breakers
      BY <2>2 DEF Transition, Breakers, CircuitStates
    <2>4. cb' \in Breakers /\ dash' = dash
      BY <1>4, <2>1, <2>3 DEF RecordStopLoss
    <2>5. Save({}, cb') \/ UNCHANGED <<file, intact>>
      BY <1>4 DEF RecordStopLoss, PersistIfMoved, Persist
    <2>6. QED
      BY <2>4, <2>5, SaveTyped DEF BreakerTypeOK
  <1>5. CASE BreakerRestart \/ DashStart
    BY <1>1, <1>5 DEF BreakerRestart, DashStart, Opened, BreakerTypeOK
  <1>6. CASE DashReset
    <2>1. dash' \in Breakers
      BY <1>6 DEF DashReset, Transition, BreakerTypeOK, Breakers, CircuitStates
    <2>2. QED
      BY <1>6, <2>1 DEF DashReset, BreakerTypeOK
  <1>7. CASE BreakerTick
    <2>1. \A b \in Breakers : Elapse(b) \in Breakers
      BY DEF Elapse, Breakers
    <2>2. Elapse(NoFile) = NoFile
      BY DEF Elapse, NoFile
    <2>3. QED
      BY <1>7, <2>1, <2>2 DEF BreakerTick, BreakerTypeOK
  <1>8. QED
    BY <1>2, <1>3, <1>4, <1>5, <1>6, <1>7 DEF BreakerNext

\* The numbers of a breaker.
LEMMA Numbers == ASSUME NEW a \in Breakers PROVE a.sl \in Nat /\ a.cool \in Nat /\ a.peak \in Nat
  <1>1. a.sl \in 0 .. ConsecutiveSL /\ a.cool \in 0 .. Cooldown /\ a.peak \in Values \cup {0}
    BY DEF Breakers
  <1>2. Values \subseteq Nat /\ ConsecutiveSL \in Nat /\ Cooldown \in Nat
    BY PortfolioBreakerAssumption
  <1>3. a.sl \in Nat /\ a.cool \in Nat
    BY <1>1, <1>2
  <1>4. a.peak \in Nat
    <2>1. \A x : x \in Values \cup {0} => x \in Values \/ x = 0
      OBVIOUS
    <2>2. 0 \in Nat
      OBVIOUS
    <2>3. QED
      BY <1>1, <1>2, <2>1, <2>2, Zenon
  <1>5. QED
    BY <1>3, <1>4

\* What a new process would have of a breaker a, were b in the file.
Keeps(a, b) == b.state = a.state /\ b.sl <= a.sl /\ b.cool <= a.cool /\ b.peak <= a.peak

\* A breaker is in no file that is missing.
LEMMA WhatIsLoaded ==
    ASSUME NEW f, f \in Breakers
    PROVE  (IF f = NoFile THEN Fresh ELSE f) = f
  BY DEF Breakers, CircuitStates, NoFile

\* After a save that keeps the breaker the file is intact only if it holds
\* what was saved.
LEMMA SaveRestores ==
    ASSUME NEW before, NEW b \in Breakers, Save(before, b), Keeps(cb', b)
    PROVE  RestartRestores'
  <1> SUFFICES ASSUME intact' PROVE Keeps(cb', Loaded')
    BY DEF RestartRestores, Keeps
  <1>1. file' = b
    BY DEF Save
  <1>2. Loaded' = b
    BY <1>1, WhatIsLoaded DEF Loaded
  <1>3. QED
    BY <1>2

\* A step that moves no state, and leaves the file alone, only counts up.
LEMMA CountingRestores ==
    ASSUME BreakerTypeOK, RestartRestores, UNCHANGED <<file, intact>>, cb' \in Breakers,
           Keeps(cb', cb)
    PROVE  RestartRestores'
  <1>1. Loaded' = Loaded /\ Loaded \in Breakers
    BY PortfolioBreakerAssumption DEF Loaded, BreakerTypeOK, Breakers, CircuitStates, Fresh
  <1>2. cb \in Breakers
    BY DEF BreakerTypeOK
  <1>3. QED
    BY <1>1, <1>2, Numbers DEF RestartRestores, Keeps, BreakerTypeOK

\* A method saves the breaker when it moves it; a restart moves it to what
\* the file holds, or past a file it cannot read; time passes for both.
LEMMA RestoresKept ==
    ASSUME BreakerTypeOK, RestartRestores, BreakerNext
    PROVE  RestartRestores'
  <1> USE PortfolioBreakerAssumption
  <1>1. BreakerTypeOK'
    BY BreakerTyped
  <1>2. \A a \in Breakers : Keeps(a, a)
    BY Numbers DEF Keeps
  <1>3. CASE \E value \in Values : ResetDayState(value)
    BY <1>1, <1>2, <1>3, SaveRestores DEF ResetDayState, Persist, BreakerTypeOK
  <1>4. CASE \E value \in Values, dayLoss \in BOOLEAN : Evaluate(value, dayLoss)
    <2>1. PICK value \in Values, dayLoss \in BOOLEAN : Evaluate(value, dayLoss)
      BY <1>4
    <2> DEFINE recovered == IF Recovers THEN Transition(cb, "normal") ELSE cb
               peak == IF value > cb.peak THEN value ELSE cb.peak
               risen == [recovered EXCEPT !.peak = peak]
    <2>2. recovered \in Breakers /\ recovered.sl = cb.sl /\ recovered.cool = cb.cool /\ recovered.peak = cb.peak
      BY DEF BreakerTypeOK, Breakers, CircuitStates, Transition
    <2>3. cb'.sl = cb.sl /\ cb'.cool = cb.cool /\ cb'.peak = peak
      BY <2>1 DEF Evaluate, Transition, BreakerTypeOK, Breakers
    <2>4. cb.sl <= cb.sl /\ cb.cool <= cb.cool /\ cb.peak <= peak
      <3>1. cb \in Breakers /\ value \in Nat
        BY DEF BreakerTypeOK
      <3>2. QED
        BY <3>1, Numbers
    <2>5. CASE cb'.state # recovered.state
      <3>1. Save({recovered} \ {cb}, cb')
        BY <2>1, <2>5 DEF Evaluate
      <3>2. QED
        BY <1>1, <1>2, <3>1, SaveRestores DEF BreakerTypeOK
    <2>6. CASE cb'.state = recovered.state /\ recovered.state # cb.state
      <3>1. Save({}, recovered)
        BY <2>1, <2>6 DEF Evaluate, PersistIfMoved, Persist
      <3>2. Keeps(cb', recovered)
        BY <2>2, <2>3, <2>4, <2>6 DEF Keeps
      <3>3. QED
        BY <2>2, <3>1, <3>2, SaveRestores
    <2>7. CASE cb'.state = recovered.state /\ recovered.state = cb.state
      <3>1. UNCHANGED <<file, intact>>
        BY <2>1, <2>7 DEF Evaluate, PersistIfMoved
      <3>2. Keeps(cb', cb)
        BY <2>3, <2>4, <2>7 DEF Keeps
      <3>3. QED
        BY <1>1, <3>1, <3>2, CountingRestores DEF BreakerTypeOK
    <2>8. QED
      BY <2>5, <2>6, <2>7
  <1>5. CASE RecordStopLoss
    <2>1. CASE cb'.state # cb.state
      BY <1>1, <1>2, <1>5, <2>1, SaveRestores DEF RecordStopLoss, PersistIfMoved, Persist, BreakerTypeOK
    <2>2. CASE cb'.state = cb.state
      <3>1. UNCHANGED <<file, intact>>
        BY <1>5, <2>2 DEF RecordStopLoss, PersistIfMoved
      <3>2. Counted \in Breakers /\ Counted.sl >= cb.sl /\ Counted.cool = cb.cool /\ Counted.peak = cb.peak
        BY DEF Counted, BreakerTypeOK, Breakers
      <3>3. cb'.sl = Counted.sl /\ cb'.cool \in {cb.cool, Cooldown} /\ cb'.peak = cb.peak
        BY <1>5, <3>2 DEF RecordStopLoss, Transition, Breakers
      <3>4. Keeps(cb', cb)
        <4>1. cb \in Breakers /\ cb.cool <= Cooldown
          BY DEF BreakerTypeOK, Breakers
        <4>2. QED
          BY <2>2, <3>2, <3>3, <4>1, Numbers DEF Keeps
      <3>5. QED
        BY <1>1, <3>1, <3>4, CountingRestores DEF BreakerTypeOK
    <2>3. QED
      BY <2>1, <2>2
  <1>6. CASE BreakerRestart
    <2>1. PICK ok \in BOOLEAN : Opened(cb', ok) /\ intact' = ok
      BY <1>6 DEF BreakerRestart
    <2>2. Loaded' = Loaded /\ Loaded \in Breakers
      BY <1>6 DEF BreakerRestart, Loaded, BreakerTypeOK, Breakers, CircuitStates, Fresh
    <2>3. intact' => cb' = Loaded'
      BY <2>1, <2>2 DEF Opened
    <2>4. QED
      BY <1>2, <2>2, <2>3 DEF RestartRestores, Keeps
  <1>7. CASE DashStart
    BY <1>7 DEF DashStart, RestartRestores, Loaded
  <1>8. CASE DashReset
    BY <1>8 DEF DashReset, RestartRestores, Loaded
  <1>9. CASE BreakerTick
    <2>1. ASSUME NEW a \in Breakers
          PROVE  /\ Elapse(a).state = a.state /\ Elapse(a).sl = a.sl /\ Elapse(a).peak = a.peak
                 /\ Elapse(a).cool = IF a.cool = 0 THEN 0 ELSE a.cool - 1
                 /\ a.cool \in Nat
      BY DEF Elapse, Breakers
    <2>2. Elapse(Fresh) = Fresh /\ Elapse(NoFile) = NoFile /\ Fresh \in Breakers
      BY DEF Elapse, Fresh, NoFile, Breakers, CircuitStates
    <2>3. Loaded \in Breakers /\ Loaded' = Elapse(Loaded)
      <3>1. CASE file = NoFile
        BY <1>9, <2>2, <3>1 DEF BreakerTick, Loaded
      <3>2. CASE file \in Breakers
        <4>1. Loaded = file
          BY <3>2, WhatIsLoaded DEF Loaded
        <4>2. file' \in Breakers
          BY <1>9, <3>2 DEF BreakerTick, Elapse, Breakers
        <4>3. QED
          BY <1>9, <3>2, <4>1, <4>2, WhatIsLoaded DEF BreakerTick, Loaded
      <3>3. QED
        BY <3>1, <3>2 DEF BreakerTypeOK
    <2>4. cb' = Elapse(cb) /\ intact' = intact /\ cb \in Breakers
      BY <1>9 DEF BreakerTick, BreakerTypeOK
    <2>5. QED
      BY <2>1, <2>3, <2>4 DEF RestartRestores
  <1>10. QED
    BY <1>3, <1>4, <1>5, <1>6, <1>7, <1>8, <1>9 DEF BreakerNext

BreakerInv == BreakerTypeOK /\ RestartRestores

\* The breaker alone keeps its invariant.
LEMMA BreakerStepInv == BreakerInv /\ [BreakerNext]_breakerVars => BreakerInv'
  <1> SUFFICES ASSUME BreakerInv, [BreakerNext]_breakerVars PROVE BreakerInv'
    OBVIOUS
  <1>1. CASE BreakerNext
    BY <1>1, BreakerTyped, RestoresKept DEF BreakerInv
  <1>2. CASE UNCHANGED breakerVars
    BY <1>2 DEF breakerVars, BreakerInv, BreakerTypeOK, RestartRestores, Loaded
  <1>3. QED
    BY <1>1, <1>2

\* It holds of a new breaker.
LEMMA BreakerInitInv == BreakerInit => BreakerInv
  <1>1. Fresh \in Breakers
    BY PortfolioBreakerAssumption DEF Fresh, Breakers, CircuitStates
  <1>2. QED
    BY <1>1, PortfolioBreakerAssumption
    DEF BreakerInit, BreakerInv, BreakerTypeOK, RestartRestores, Loaded, Fresh

\* Breaker, file and the dashboard's breaker stay in their types, and the
\* file restores the breaker wherever no save failed and the dashboard has
\* not written.
THEOREM BreakerAlwaysInv == BreakerSpec => []BreakerInv
  BY BreakerInitInv, BreakerStepInv, PTL DEF BreakerSpec

\* A process that starts finds the breaker's state, and no more stop losses
\* or cooldown than it had, unless the engine's last save failed or the
\* dashboard's breaker was saved over it.
THEOREM RestartRestoresHolds == BreakerSpec => []RestartRestores
  BY BreakerAlwaysInv, PTL DEF BreakerInv
=============================================================================
