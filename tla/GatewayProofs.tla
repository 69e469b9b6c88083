---------------------------- MODULE GatewayProofs ---------------------------
(***************************************************************************)
(* Proofs about the channel breaker and about Gateway.Fetch, for any       *)
(* number of callers and any thresholds.  First the breaker on its own,    *)
(* for any subset of results and operator entry points; then Fetch, which  *)
(* takes only breaker steps, so that the breaker's guarantees carry over;  *)
(* last what Fetch adds to it: an upstream without faults never pages, and *)
(* a probe that closes the breaker has proof of recovery.                  *)
(***************************************************************************)
EXTENDS Gateway, FiniteSetTheorems, TLAPS


-----------------------------------------------------------------------------
(* Facts about the operators the breaker is built from.                    *)

\* The probes of a call function, so that a lemma can speak of call and call'.
ProbesOf(f) == {c \in Callers : f[c] = "probe"}

\* EndEpisode keeps a call function well typed and leaves no probe.
LEMMA EndEpisodeFacts ==
    ASSUME NEW f \in [Callers -> CallKinds]
    PROVE  /\ EndEpisode(f) \in [Callers -> CallKinds]
           /\ ProbesOf(EndEpisode(f)) = {}
  BY DEF EndEpisode, ProbesOf, CallKinds

\* A caller that returns adds no probe.
LEMMA ReturnedFacts ==
    ASSUME NEW c \in Callers, call \in [Callers -> CallKinds]
    PROVE  /\ Returned(c) \in [Callers -> CallKinds]
           /\ ProbesOf(Returned(c)) \subseteq Probes
  BY DEF Returned, ProbesOf, Probes, CallKinds

\* The probes of a step's end are those of its call'.
LEMMA ProbesPrime == Probes' = ProbesOf(call')
  BY DEF Probes, ProbesOf

\* Losing probes cannot raise their number.
LEMMA FewerProbes ==
    ASSUME NEW S \in SUBSET Callers, NEW T \in SUBSET S
    PROVE  /\ Cardinality(S) \in Nat
           /\ Cardinality(T) \in Nat
           /\ Cardinality(T) <= Cardinality(S)
  <1>1. IsFiniteSet(S)
    BY BreakerAssumption, FS_Subset
  <1>2. IsFiniteSet(T) /\ Cardinality(T) <= Cardinality(S)
    BY <1>1, FS_Subset
  <1>3. QED
    BY <1>1, <1>2, FS_CardinalityType

\* One more call in flight is at most one more probe.
LEMMA OneMoreProbe ==
    ASSUME NEW S \in SUBSET Callers, NEW c \in Callers
    PROVE  Cardinality(S \cup {c}) <= Cardinality(S) + 1
  <1>1. IsFiniteSet(S)
    BY BreakerAssumption, FS_Subset
  <1>2. Cardinality(S) \in Nat
    BY <1>1, FS_CardinalityType
  <1>3. \/ Cardinality(S \cup {c}) = Cardinality(S)
        \/ Cardinality(S \cup {c}) = Cardinality(S) + 1
    BY <1>1, FS_AddElement
  <1>4. QED
    BY <1>2, <1>3

-----------------------------------------------------------------------------
\* Type correctness: every counter of the breaker stays in its range, the
\* half-open counter within its limit included, in every interleaving.
THEOREM TypeCorrect == Spec => []TypeOK
<1> USE BreakerAssumption DEF TypeOK
<1>1. Init => TypeOK
  <2> SUFFICES ASSUME Init PROVE TypeOK
    OBVIOUS
  <2>1. manualOverride \in BOOLEAN
    BY Zenon DEF Init
  <2>2. call \in [Callers -> CallKinds] /\ state \in States
    BY DEF Init, States, CallKinds
  <2>3. /\ failures \in 0..FailureCap
        /\ sinceFailure \in 0..RecoveryTimeout
        /\ halfOpenCalls \in 0..HalfOpenMaxCalls
    BY DEF Init
  <2>4. QED
    BY <2>1, <2>2, <2>3
<1>2. TypeOK /\ [Next]_vars => TypeOK'
  <2> SUFFICES ASSUME TypeOK, [Next]_vars PROVE TypeOK'
    OBVIOUS
  <2>1. ASSUME NEW c \in Callers, Admit(c) PROVE TypeOK'
    BY <2>1 DEF Admit, Rejects, States, CallKinds
  <2>2. ASSUME NEW c \in Callers, Reject(c) PROVE TypeOK'
    BY <2>2 DEF Reject, vars
  <2>3. ASSUME NEW c \in Callers, Succeed(c) PROVE TypeOK'
    <3>1. call' \in [Callers -> CallKinds]
      BY <2>3, ReturnedFacts, EndEpisodeFacts DEF Succeed
    <3>2. QED
      BY <2>3, <3>1 DEF Succeed, States
  <2>4. ASSUME NEW c \in Callers, Fail(c) PROVE TypeOK'
    <3>1. call' \in [Callers -> CallKinds]
      BY <2>4, ReturnedFacts, EndEpisodeFacts DEF Fail
    <3>2. QED
      BY <2>4, <3>1 DEF Fail, States
  <2>5. ASSUME NEW c \in Callers, AnswerEmpty(c) \/ Panic(c) PROVE TypeOK'
    BY <2>5, ReturnedFacts DEF AnswerEmpty, Panic, breakerVars
  <2>6. CASE ForceOpen
    BY <2>6, EndEpisodeFacts DEF ForceOpen, States
  <2>7. ASSUME NEW b \in BOOLEAN, SetManualOverride(b) PROVE TypeOK'
    BY <2>7 DEF SetManualOverride
  <2>8. CASE Reset
    <3>1. manualOverride' \in BOOLEAN
      BY <2>8, Zenon DEF Reset
    <3>2. /\ UNCHANGED sinceFailure
          /\ state' \in States /\ failures' \in 0..FailureCap
          /\ halfOpenCalls' \in 0..HalfOpenMaxCalls
          /\ call' \in [Callers -> CallKinds]
      BY <2>8, EndEpisodeFacts DEF Reset, States
    <3>3. QED
      BY <3>1, <3>2
  <2>9. CASE Tick
    BY <2>9 DEF Tick
  <2>10. CASE UNCHANGED vars
    BY <2>10 DEF vars
  <2>11. QED
    BY <2>1, <2>2, <2>3, <2>4, <2>5, <2>6, <2>7, <2>8, <2>9, <2>10 DEF Next, Return, Operate
<1>3. QED
  BY <1>1, <1>2, PTL DEF Spec

-----------------------------------------------------------------------------
\* ProbeBudget bounds the probes by a constant; what is inductive is that the
\* half-open counter dominates them: slots are taken by admission only, and
\* a result that frees the breaker ends the episode for every other probe.
ProbesCounted ==
    IF state = "half-open" THEN Cardinality(Probes) <= halfOpenCalls
                           ELSE Probes = {}

\* Slots are counted in every interleaving of callers and operators.
LEMMA ProbesAlwaysCounted == Spec => []ProbesCounted
<1> USE BreakerAssumption
<1>1. Init => ProbesCounted
  BY DEF Init, ProbesCounted, Probes
<1>2. TypeOK /\ TypeOK' /\ ProbesCounted /\ [Next]_vars => ProbesCounted'
  <2> SUFFICES ASSUME TypeOK, TypeOK', ProbesCounted, [Next]_vars PROVE ProbesCounted'
    OBVIOUS
  <2>0. call \in [Callers -> CallKinds] /\ halfOpenCalls \in Nat /\ Probes \in SUBSET Callers
    BY DEF TypeOK, Probes
  \* A step that leaves the breaker and the slots alone and adds no probe.
  <2>a. ASSUME state' = state, halfOpenCalls' = halfOpenCalls, Probes' \subseteq Probes
        PROVE  ProbesCounted'
    <3>1. CASE state = "half-open"
      <4>1. /\ Cardinality(Probes') <= Cardinality(Probes)
            /\ Cardinality(Probes) \in Nat /\ Cardinality(Probes') \in Nat
        BY <2>0, <2>a, FewerProbes
      <4>2. QED
        BY <2>0, <2>a, <3>1, <4>1 DEF ProbesCounted
    <3>2. CASE state # "half-open"
      BY <2>a, <3>2 DEF ProbesCounted
    <3>3. QED
      BY <3>1, <3>2
  \* A step that ends the episode, or finds none.
  <2>b. ASSUME state' # "half-open", Probes' = {} PROVE ProbesCounted'
    BY <2>b DEF ProbesCounted
  <2>1. ASSUME NEW c \in Callers, Admit(c) PROVE ProbesCounted'
    <3>1. CASE state = "closed"
      <4>1. Probes' \subseteq Probes /\ UNCHANGED <<state, halfOpenCalls>>
        BY <2>0, <2>1, <3>1 DEF Admit, Probes, CallKinds
      <4>2. QED
        BY <2>a, <4>1
    <3>2. CASE state = "open"
      <4>1. Probes = {} /\ state' = "half-open" /\ halfOpenCalls' = 1
        BY <2>1, <3>2 DEF Admit, ProbesCounted
      <4>2. Probes' = {} \cup {c}
        BY <2>0, <2>1, <3>2, <4>1 DEF Admit, Probes
      <4>3. Cardinality({} \cup {c}) <= 1
        BY OneMoreProbe, FS_EmptySet
      <4>4. QED
        BY <4>1, <4>2, <4>3 DEF ProbesCounted
    <3>3. CASE state = "half-open"
      <4>1. state' = "half-open" /\ halfOpenCalls' = halfOpenCalls + 1
        BY <2>1, <3>3 DEF Admit
      <4>2. Probes' = Probes \cup {c}
        BY <2>0, <2>1, <3>3 DEF Admit, Probes
      <4>3. Cardinality(Probes) <= halfOpenCalls /\ Cardinality(Probes) \in Nat
        BY <2>0, <3>3, FewerProbes DEF ProbesCounted
      <4>4. Cardinality(Probes \cup {c}) <= Cardinality(Probes) + 1
        BY <2>0, OneMoreProbe
      <4>5. Cardinality(Probes \cup {c}) \in Nat
        BY <2>0, FewerProbes
      <4>6. QED
        BY <2>0, <4>1, <4>2, <4>3, <4>4, <4>5 DEF ProbesCounted
    <3>4. QED
      BY <2>1, <3>1, <3>2, <3>3 DEF Admit
  <2>2. ASSUME NEW c \in Callers, Reject(c) PROVE ProbesCounted'
    <3>1. Probes' = Probes /\ UNCHANGED <<state, halfOpenCalls>>
      BY <2>2 DEF Reject, vars, Probes
    <3>2. QED
      BY <2>a, <3>1
  <2>3. ASSUME NEW c \in Callers, Succeed(c) PROVE ProbesCounted'
    <3>1. CASE manualOverride
      BY <2>0, <2>3, <3>1, <2>a, ReturnedFacts, ProbesPrime DEF Succeed
    <3>2. CASE ~manualOverride
      BY <2>0, <2>3, <3>2, <2>b, ReturnedFacts, EndEpisodeFacts, ProbesPrime DEF Succeed
    <3>3. QED
      BY <3>1, <3>2 DEF TypeOK
  <2>4. ASSUME NEW c \in Callers, Fail(c) PROVE ProbesCounted'
    <3>1. CASE failures + 1 >= MaxFailures
      BY <2>0, <2>4, <3>1, <2>b, ReturnedFacts, EndEpisodeFacts, ProbesPrime DEF Fail
    <3>2. CASE ~(failures + 1 >= MaxFailures)
      BY <2>0, <2>4, <3>2, <2>a, ReturnedFacts, ProbesPrime DEF Fail
    <3>3. QED
      BY <3>1, <3>2
  <2>5. ASSUME NEW c \in Callers, AnswerEmpty(c) \/ Panic(c) PROVE ProbesCounted'
    BY <2>0, <2>5, <2>a, ReturnedFacts, ProbesPrime DEF AnswerEmpty, Panic, breakerVars
  <2>6. CASE ForceOpen
    BY <2>0, <2>6, <2>b, EndEpisodeFacts, ProbesPrime DEF ForceOpen
  <2>7. ASSUME NEW b \in BOOLEAN, SetManualOverride(b) PROVE ProbesCounted'
    <3>1. Probes' = Probes /\ UNCHANGED <<state, halfOpenCalls>>
      BY <2>7 DEF SetManualOverride, Probes
    <3>2. QED
      BY <2>a, <3>1
  <2>8. CASE Reset
    BY <2>0, <2>8, <2>b, EndEpisodeFacts, ProbesPrime DEF Reset
  <2>9. CASE Tick \/ UNCHANGED vars
    <3>1. Probes' = Probes /\ UNCHANGED <<state, halfOpenCalls>>
      BY <2>9 DEF Tick, vars, Probes
    <3>2. QED
      BY <2>a, <3>1
  <2>10. QED
    BY <2>1, <2>2, <2>3, <2>4, <2>5, <2>6, <2>7, <2>8, <2>9 DEF Next, Return, Operate
<1>3. QED
  BY <1>1, <1>2, TypeCorrect, PTL DEF Spec

\* A half-open episode never has more than HalfOpenMaxCalls of its calls at
\* the upstream, and a breaker that is not half-open has none.
THEOREM ProbeBudgetHolds == Spec => []ProbeBudget
<1> USE BreakerAssumption
<1>1. TypeOK /\ ProbesCounted => ProbeBudget
  <2> SUFFICES ASSUME TypeOK, ProbesCounted PROVE ProbeBudget
    OBVIOUS
  <2>1. CASE state = "half-open"
    <3>1. Cardinality(Probes) <= halfOpenCalls /\ Cardinality(Probes) \in Nat
      BY <2>1, FewerProbes DEF ProbesCounted, Probes
    <3>2. QED
      BY <2>1, <3>1 DEF TypeOK, ProbeBudget
  <2>2. CASE state # "half-open"
    BY <2>2, FS_EmptySet DEF ProbesCounted, ProbeBudget
  <2>3. QED
    BY <2>1, <2>2
<1>2. QED
  BY <1>1, TypeCorrect, ProbesAlwaysCounted, PTL

-----------------------------------------------------------------------------
\* A closed breaker is always below its failure threshold.
THEOREM ClosedBelowThresholdHolds == Spec => []ClosedBelowThreshold
<1> USE BreakerAssumption DEF ClosedBelowThreshold
<1>1. Init => ClosedBelowThreshold
  BY DEF Init
<1>2. TypeOK /\ ClosedBelowThreshold /\ [Next]_vars => ClosedBelowThreshold'
  <2> SUFFICES ASSUME TypeOK, ClosedBelowThreshold, [Next]_vars
               PROVE  ClosedBelowThreshold'
    OBVIOUS
  <2>1. ASSUME NEW c \in Callers, Admit(c) PROVE ClosedBelowThreshold'
    BY <2>1 DEF Admit
  <2>2. ASSUME NEW c \in Callers, Reject(c) PROVE ClosedBelowThreshold'
    BY <2>2 DEF Reject, vars
  <2>3. ASSUME NEW c \in Callers, Succeed(c) PROVE ClosedBelowThreshold'
    BY <2>3 DEF Succeed
  <2>4. ASSUME NEW c \in Callers, Fail(c) PROVE ClosedBelowThreshold'
    BY <2>4 DEF Fail, TypeOK
  <2>5. ASSUME NEW c \in Callers, AnswerEmpty(c) \/ Panic(c) PROVE ClosedBelowThreshold'
    BY <2>5 DEF AnswerEmpty, Panic, breakerVars
  <2>6. CASE Operate
    BY <2>6 DEF Operate, ForceOpen, SetManualOverride, Reset
  <2>7. CASE Tick \/ UNCHANGED vars
    BY <2>7 DEF Tick, vars
  <2>8. QED
    BY <2>1, <2>2, <2>3, <2>4, <2>5, <2>6, <2>7 DEF Next, Return
<1>3. QED
  BY <1>1, <1>2, TypeCorrect, PTL DEF Spec

-----------------------------------------------------------------------------
\* While the manual override is armed only Reset closes the breaker.
THEOREM OverrideLatchHolds == Spec => OverrideLatch
<1> DEFINE A == manualOverride /\ state # "closed" /\ state' = "closed" => Reset
<1>1. [Next]_vars => [A]_vars
  <2> SUFFICES ASSUME [Next]_vars, manualOverride, state # "closed", state' = "closed"
               PROVE  Reset
    OBVIOUS
  <2>1. ASSUME NEW c \in Callers, Admit(c) \/ Reject(c) PROVE FALSE
    BY <2>1 DEF Admit, Reject, vars
  <2>2. ASSUME NEW c \in Callers, Return(c) PROVE FALSE
    BY <2>2 DEF Return, Succeed, Fail, AnswerEmpty, Panic, breakerVars
  <2>3. CASE Operate
    BY <2>3 DEF Operate, ForceOpen, SetManualOverride
  <2>4. CASE Tick \/ UNCHANGED vars
    BY <2>4 DEF Tick, vars
  <2>5. QED
    BY <2>1, <2>2, <2>3, <2>4 DEF Next
<1>2. QED
  BY <1>1, PTL DEF Spec, OverrideLatch


-----------------------------------------------------------------------------
(* The step of the breaker that each step of Fetch takes.                  *)

\* Accounting for fn()'s result is one of Call's three outcomes.
LEMMA AccountIsReturn ==
    ASSUME NEW c \in Callers, Account(c)
    PROVE  Return(c)
  BY GatewayAssumption DEF Account, Return, AllResults

\* Time either passes for the breaker or leaves it alone.
LEMMA GatewayTickIsTick == GatewayTick => Tick \/ UNCHANGED vars
  BY DEF GatewayTick, Tick, vars

\* The steps of Fetch outside the breaker's critical sections.
Elsewhere(c) ==
    \/ Lookup(c) \/ AnswerData(c) \/ AnswerError(c) \/ RecordOutcome(c)
    \/ IsOpen(c) \/ FallbackGet(c) \/ FallbackMark(c) \/ Report(c)

\* They touch the cache, the health record and the callers, never cb.mu.
LEMMA ElsewhereLeavesBreaker == \A c \in Callers : Elsewhere(c) => UNCHANGED vars
  BY DEF Elsewhere, Lookup, AnswerData, AnswerError, RecordOutcome, IsOpen, FallbackGet,
         FallbackMark, Report

\* Every step of the gateway is a step of the breaker or a stutter.
LEMMA GatewayStep == [GatewayNext]_gatewayVars => [Next]_vars
  <1> SUFFICES ASSUME [GatewayNext]_gatewayVars PROVE [Next]_vars
    OBVIOUS
  <1>1. ASSUME NEW c \in Callers, FetchAdmitted(c) \/ FetchRejected(c) PROVE Next
    BY <1>1 DEF FetchAdmitted, FetchRejected, Next
  <1>2. ASSUME NEW c \in Callers, Elsewhere(c) PROVE UNCHANGED vars
    BY <1>2, ElsewhereLeavesBreaker
  <1>3. ASSUME NEW c \in Callers, AnswerPanic(c) PROVE Next
    BY <1>3, GatewayAssumption DEF AnswerPanic, Next, Return, AllResults
  <1>4. ASSUME NEW c \in Callers, Account(c) PROVE Next
    BY <1>4, AccountIsReturn DEF Next
  <1>5. CASE ForceOpenChannel
    BY <1>5 DEF ForceOpenChannel, Next, Operate
  <1>6. CASE Invalidate
    BY <1>6 DEF Invalidate
  <1>7. CASE GatewayTick
    BY <1>7, GatewayTickIsTick DEF Next
  <1>8. CASE UNCHANGED gatewayVars
    BY <1>8 DEF gatewayVars
  <1>9. QED
    BY <1>1, <1>2, <1>3, <1>4, <1>5, <1>6, <1>7, <1>8 DEF GatewayNext, Elsewhere

\* Fetch implements the breaker's specification.
THEOREM GatewayImplementsBreaker == GatewaySpec => BreakerRespected
<1>1. GatewayInit => Init
  BY DEF GatewayInit
<1>2. QED
  BY <1>1, GatewayStep, PTL DEF GatewaySpec, BreakerRespected, Spec

\* Hence the breaker's own guarantees hold of it inside Fetch.
THEOREM BreakerGuaranteesInGateway ==
    GatewaySpec => [](TypeOK /\ ProbeBudget /\ ClosedBelowThreshold)
  BY GatewayImplementsBreaker, TypeCorrect, ProbeBudgetHolds, ClosedBelowThresholdHolds, PTL
     DEF BreakerRespected

-----------------------------------------------------------------------------
(* Health records.                                                         *)

Records == [status : Statuses, streak : 0..GraceFailures]

\* What recordInternal leaves is a record.
LEMMA RecordTyped ==
    ASSUME health \in Records, NEW s \in {"ok", "warn", "degraded", "error"}
    PROVE  Record(s) \subseteq Records
  <1>1. CASE s = "ok"
    BY <1>1, GatewayAssumption DEF Record, Records, Statuses
  <1>2. CASE s \in {"warn", "degraded"}
    BY <1>2 DEF Record, Records, Statuses
  <1>3. CASE s = "error"
    BY <1>3, GatewayAssumption DEF Record, Records, Statuses
  <1>4. QED
    BY <1>1, <1>2, <1>3

\* Only an error attempt escalates.
LEMMA RecordCalm ==
    ASSUME health \in Records, NEW s \in {"ok", "warn", "degraded"}, NEW r \in Record(s)
    PROVE  r.status # "error"
  BY DEF Record, Records, Statuses

-----------------------------------------------------------------------------
\* The part of the type invariant that the proof below needs.
FetchTyped ==
    /\ pc \in [Callers -> PCs]
    /\ err \in [Callers -> Errs]
    /\ health \in Records

\* A caller past Call's error return has an error, and an upstream without
\* faults leaves the breaker closed, its streak at zero and only expected
\* non-failures in the hands of the callers.
NoFaultNoFailure ==
    /\ \A c \in Callers : pc[c] \in {"failed", "fallback", "report"} => err[c] # "nil"
    /\ fault = "none" =>
          /\ state = "closed"
          /\ \A c \in Callers : err[c] \in {"nil", "noData", "emptyQuote"}
          /\ health.status # "error"

CalmInv == FetchTyped /\ NoFaultNoFailure

\* Initially.
LEMMA CalmInit == GatewayInit => CalmInv
  BY GatewayAssumption
     DEF GatewayInit, Init, CalmInv, FetchTyped, NoFaultNoFailure, PCs, Errs, Records, Statuses

\* Steps that touch neither the error, the record nor the breaker.
LEMMA CalmQuiet ==
    ASSUME CalmInv, NEW c \in Callers, NEW l \in PCs,
           pc[c] \in {"failed", "fallback", "report"} \/ l \notin {"failed", "fallback", "report"},
           Goto(c, l), UNCHANGED <<state, err, health, fault>>
    PROVE  CalmInv'
  BY DEF CalmInv, FetchTyped, NoFaultNoFailure, Goto

\* Steps that end Fetch and leave a record that does not page, or a fault.
LEMMA CalmLeave ==
    ASSUME CalmInv, NEW c \in Callers, Leave(c), health' \in Records,
           fault' = "none" => fault = "none" /\ state' = "closed" /\ health'.status # "error"
    PROVE  CalmInv'
  BY DEF CalmInv, FetchTyped, NoFaultNoFailure, Leave, Goto, PCs, Errs

\* Every step of Fetch, of an operator and of time preserves the calm invariant.
LEMMA CalmStep == CalmInv /\ [GatewayNext]_gatewayVars => CalmInv'
  <1> SUFFICES ASSUME CalmInv, [GatewayNext]_gatewayVars PROVE CalmInv'
    OBVIOUS
  <1>1. ASSUME NEW c \in Callers, FetchAdmitted(c) PROVE CalmInv'
    BY <1>1 DEF FetchAdmitted, Admit, CalmInv, FetchTyped, NoFaultNoFailure, Goto, PCs
  <1>2. ASSUME NEW c \in Callers, FetchRejected(c) PROVE CalmInv'
    <2>1. state # "closed"
      BY <1>2 DEF FetchRejected, Reject, Rejects
    <2>2. QED
      BY <1>2, <2>1
         DEF FetchRejected, Reject, vars, CalmInv, FetchTyped, NoFaultNoFailure, Goto, PCs, Errs
  <1>3. ASSUME NEW c \in Callers, Lookup(c) PROVE CalmInv'
    BY <1>3, CalmQuiet DEF Lookup, vars, PCs
  <1>4. ASSUME NEW c \in Callers, AnswerData(c) PROVE CalmInv'
    BY <1>4, CalmQuiet DEF AnswerData, vars, PCs
  <1>5. ASSUME NEW c \in Callers, AnswerError(c) PROVE CalmInv'
    <2>1. PICK a \in Answers \cap {"noData", "emptyQuote", "quota", "error"} :
             err' = [err EXCEPT ![c] = a] /\ fault' = WorstWith(a)
      BY <1>5 DEF AnswerError
    <2>2. fault' = "none" => fault = "none" /\ a \in {"noData", "emptyQuote"}
      BY <2>1 DEF WorstWith
    <2>3. QED
      BY <1>5, <2>1, <2>2
         DEF AnswerError, vars, CalmInv, FetchTyped, NoFaultNoFailure, Goto, PCs, Errs
  <1>6. ASSUME NEW c \in Callers, AnswerPanic(c) PROVE CalmInv'
    BY <1>6, CalmLeave DEF AnswerPanic, CalmInv, FetchTyped
  <1>7. ASSUME NEW c \in Callers, RecordOutcome(c) PROVE CalmInv'
    <2>1. health' \in Records /\ health'.status # "error"
      BY <1>7, RecordTyped, RecordCalm DEF RecordOutcome, OutcomeStatus, CalmInv, FetchTyped
    <2>2. QED
      BY <1>7, <2>1
         DEF RecordOutcome, vars, CalmInv, FetchTyped, NoFaultNoFailure, Goto, PCs
  <1>8. ASSUME NEW c \in Callers, Account(c) PROVE CalmInv'
    <2>1. CASE err[c] = "nil"
      <3>1. Succeed(c) /\ Leave(c) /\ UNCHANGED <<health, fault>>
        BY <1>8, <2>1 DEF Account
      <3>2. state' = "closed" \/ state' = state
        BY <3>1 DEF Succeed
      <3>3. QED
        BY <3>1, <3>2, CalmLeave DEF CalmInv, FetchTyped, NoFaultNoFailure
    <2>2. CASE err[c] # "nil" /\ ExpectedNonFailure(err[c])
      BY <1>8, <2>2
         DEF Account, AnswerEmpty, breakerVars, CalmInv, FetchTyped, NoFaultNoFailure, Goto, PCs
    <2>3. CASE err[c] # "nil" /\ ~ExpectedNonFailure(err[c])
      <3>1. fault # "none"
        BY <2>3 DEF CalmInv, NoFaultNoFailure, ExpectedNonFailure
      <3>2. QED
        BY <1>8, <2>3, <3>1
           DEF Account, CalmInv, FetchTyped, NoFaultNoFailure, Goto, PCs
    <2>4. QED
      BY <2>1, <2>2, <2>3
  <1>9. ASSUME NEW c \in Callers, IsOpen(c) PROVE CalmInv'
    BY <1>9, CalmQuiet DEF IsOpen, vars, PCs
  <1>10. ASSUME NEW c \in Callers, FallbackGet(c) PROVE CalmInv'
    BY <1>10, CalmQuiet DEF FallbackGet, vars, PCs
  <1>11. ASSUME NEW c \in Callers, FallbackMark(c) PROVE CalmInv'
    <2>1. health' \in Records /\ health'.status # "error"
      BY <1>11, RecordTyped, RecordCalm DEF FallbackMark, CalmInv, FetchTyped
    <2>2. QED
      BY <1>11, <2>1, CalmLeave DEF FallbackMark, vars, CalmInv, NoFaultNoFailure
  <1>12. ASSUME NEW c \in Callers, Report(c) PROVE CalmInv'
    <2>1. err[c] # "nil"
      BY <1>12 DEF Report, CalmInv, NoFaultNoFailure
    <2>2. CASE err[c] \in {"noData", "emptyQuote", "quota"}
      <3>1. health' \in Record("ok") \/ health' \in Record("warn")
        BY <1>12, <2>2 DEF Report, StatusOf
      <3>2. health' \in Records /\ health'.status # "error"
        BY <3>1, RecordTyped, RecordCalm DEF CalmInv, FetchTyped
      <3>3. QED
        BY <1>12, <3>2, CalmLeave DEF Report, vars, CalmInv, NoFaultNoFailure
    <2>3. CASE err[c] \notin {"noData", "emptyQuote", "quota"}
      <3>1. health' \in Record("error")
        BY <1>12, <2>3 DEF Report, StatusOf
      <3>2. health' \in Records
        BY <3>1, RecordTyped DEF CalmInv, FetchTyped
      <3>3. fault # "none"
        BY <2>1, <2>3 DEF CalmInv, NoFaultNoFailure
      <3>4. QED
        BY <1>12, <3>2, <3>3, CalmLeave DEF Report
    <2>4. QED
      BY <2>2, <2>3
  <1>13. CASE ForceOpenChannel
    BY <1>13 DEF ForceOpenChannel, CalmInv, FetchTyped, NoFaultNoFailure
  <1>14. CASE Invalidate
    BY <1>14 DEF Invalidate, vars, CalmInv, FetchTyped, NoFaultNoFailure
  <1>15. CASE GatewayTick
    BY <1>15 DEF GatewayTick, CalmInv, FetchTyped, NoFaultNoFailure
  <1>16. CASE UNCHANGED gatewayVars
    BY <1>16 DEF gatewayVars, vars, CalmInv, FetchTyped, NoFaultNoFailure
  <1>17. QED
    BY <1>1, <1>2, <1>3, <1>4, <1>5, <1>6, <1>7, <1>8, <1>9, <1>10, <1>11, <1>12,
       <1>13, <1>14, <1>15, <1>16 DEF GatewayNext

\* An upstream that only answers with data or with expected non-failures
\* never brings the channel to status "error".
THEOREM ExpectedEmptyNeverPagesHolds == GatewaySpec => []ExpectedEmptyNeverPages
<1>1. CalmInv => ExpectedEmptyNeverPages
  BY DEF CalmInv, NoFaultNoFailure, ExpectedEmptyNeverPages
<1>2. QED
  BY <1>1, CalmInit, CalmStep, PTL DEF GatewaySpec

\* Type correctness of Fetch, its cache entry and its health record: FetchTyped
\* comes with the calm invariant, the breaker's part with the breaker.
RestTyped ==
    /\ held \in [Callers -> {"nil", "current", "replaced"}]
    /\ cached \in {"none", "ordinary", "stale"}
    /\ age \in 0..(CacheTTL + 1)
    /\ fault \in {"none", "quota", "real"}
    /\ recent \subseteq Callers \cup {"cache"}

\* Every step keeps cache, results and history typed.
LEMMA RestStep == RestTyped /\ [GatewayNext]_gatewayVars => RestTyped'
  <1> SUFFICES ASSUME RestTyped, [GatewayNext]_gatewayVars PROVE RestTyped'
    OBVIOUS
  <1> USE GatewayAssumption DEF RestTyped
  <1>1. ASSUME NEW c \in Callers, FetchAdmitted(c) \/ FetchRejected(c) \/ RecordOutcome(c) \/ IsOpen(c)
        PROVE  RestTyped'
    BY <1>1 DEF FetchAdmitted, FetchRejected, RecordOutcome, IsOpen
  <1>2. ASSUME NEW c \in Callers, Lookup(c) PROVE RestTyped'
    BY <1>2 DEF Lookup
  <1>3. ASSUME NEW c \in Callers, AnswerData(c) PROVE RestTyped'
    BY <1>3 DEF AnswerData
  <1>4. ASSUME NEW c \in Callers, AnswerError(c) PROVE RestTyped'
    BY <1>4 DEF AnswerError, WorstWith
  <1>5. ASSUME NEW c \in Callers, AnswerPanic(c) \/ FallbackMark(c) \/ Report(c) PROVE RestTyped'
    BY <1>5 DEF AnswerPanic, FallbackMark, Report, Leave
  <1>6. ASSUME NEW c \in Callers, Account(c) PROVE RestTyped'
    BY <1>6 DEF Account, Leave
  <1>7. ASSUME NEW c \in Callers, FallbackGet(c) PROVE RestTyped'
    BY <1>7 DEF FallbackGet
  <1>8. CASE ForceOpenChannel \/ Invalidate
    BY <1>8 DEF ForceOpenChannel, Invalidate
  <1>9. CASE GatewayTick
    <2>1. age' \in 0..(CacheTTL + 1)
      BY <1>9 DEF GatewayTick
    <2>2. QED
      BY <1>9, <2>1 DEF GatewayTick
  <1>10. CASE UNCHANGED gatewayVars
    BY <1>10 DEF gatewayVars
  <1>11. QED
    BY <1>1, <1>2, <1>3, <1>4, <1>5, <1>6, <1>7, <1>8, <1>9, <1>10 DEF GatewayNext

\* Type correctness of the whole composition.
THEOREM GatewayTypeCorrect == GatewaySpec => []GatewayTypeOK
<1>1. GatewayInit => RestTyped
  BY GatewayAssumption DEF GatewayInit, RestTyped
<1>2. TypeOK /\ CalmInv /\ RestTyped => GatewayTypeOK
  BY DEF CalmInv, FetchTyped, Records, RestTyped, GatewayTypeOK
<1>3. QED
  BY <1>1, <1>2, RestStep, CalmInit, CalmStep, BreakerGuaranteesInGateway, PTL DEF GatewaySpec

-----------------------------------------------------------------------------
(* Recovery is proved by data. *)

\* No override is ever armed here, a breaker that is not closed has used up
\* its threshold, and it is half-open only after the whole timeout: so any
\* failure, of whichever call, takes a half-open breaker back to open.
BreakerCounts ==
    /\ ~manualOverride
    /\ state # "closed" => failures >= MaxFailures
    /\ state = "half-open" => sinceFailure >= RecoveryTimeout

\* A live entry that was stored before the last failure is as old as that
\* failure at least.
CacheOlder == "cache" \notin recent /\ age <= CacheTTL => sinceFailure <= age

\* A probe that is about to report success holds data fetched since.
ProofHeld ==
    \A c \in Callers :
        call[c] = "probe" /\ (pc[c] = "record" \/ (pc[c] = "account" /\ err[c] = "nil"))
        => c \in recent

RecoveryInv == BreakerCounts /\ CacheOlder /\ ProofHeld

\* Initially there is neither a probe nor a failure.
LEMMA RecoveryInit == GatewayInit => RecoveryInv
  <1> SUFFICES ASSUME GatewayInit PROVE RecoveryInv
    OBVIOUS
  <1>1. ~manualOverride
    BY Zenon DEF GatewayInit, Init
  <1>2. QED
    BY <1>1, GatewayAssumption, BreakerAssumption
       DEF GatewayInit, Init, RecoveryInv, BreakerCounts, CacheOlder, ProofHeld

\* Steps that leave the breaker, the cache's age and the history alone and
\* bring no caller nearer to a success.
LEMMA RecoveryQuiet ==
    ASSUME RecoveryInv, UNCHANGED <<state, failures, sinceFailure, manualOverride, age, recent>>,
           \A c \in Callers :
              call'[c] = "probe" /\ (pc'[c] = "record" \/ (pc'[c] = "account" /\ err'[c] = "nil"))
              => call[c] = "probe" /\ (pc[c] = "record" \/ (pc[c] = "account" /\ err[c] = "nil"))
    PROVE  RecoveryInv'
  BY DEF RecoveryInv, BreakerCounts, CacheOlder, ProofHeld

\* A failure, or an operator, clears the history and leaves no probe behind.
LEMMA RecoveryLost ==
    ASSUME RecoveryInv, GatewayTypeOK, recent' = {}, sinceFailure' = 0, UNCHANGED <<age, manualOverride>>,
           state' \in {"open", "closed"}, state' = "open" => failures' >= MaxFailures,
           \A c \in Callers : call'[c] # "probe"
    PROVE  RecoveryInv'
  BY DEF RecoveryInv, BreakerCounts, CacheOlder, ProofHeld, GatewayTypeOK

\* Every step preserves it, provided that an entry does not outlive the
\* breaker's timeout: a live entry that a probe finds was then stored after
\* the last failure.
LEMMA RecoveryStep ==
    ASSUME CacheTTL < RecoveryTimeout, GatewayTypeOK, ProbesCounted, RecoveryInv,
           [GatewayNext]_gatewayVars
    PROVE  RecoveryInv'
  <1>0. /\ CacheTTL \in Nat /\ RecoveryTimeout \in Nat /\ MaxFailures \in Nat \ {0}
        /\ FailureCap \in Nat /\ FailureCap >= MaxFailures
    BY BreakerAssumption, GatewayAssumption
  <1>t. /\ pc \in [Callers -> PCs] /\ err \in [Callers -> Errs] /\ call \in [Callers -> CallKinds]
        /\ age \in 0..(CacheTTL + 1) /\ sinceFailure \in 0..RecoveryTimeout
        /\ failures \in 0..FailureCap /\ state \in States
        /\ recent \subseteq Callers \cup {"cache"}
    BY DEF GatewayTypeOK, TypeOK
  <1>p. state # "half-open" => \A c \in Callers : call[c] # "probe"
    BY DEF ProbesCounted, Probes
  <1>1. ASSUME NEW c \in Callers, FetchAdmitted(c) PROVE RecoveryInv'
    <2>1. Admit(c) /\ pc' = [pc EXCEPT ![c] = "lookup"] /\ UNCHANGED <<err, age, recent>>
      BY <1>1 DEF FetchAdmitted, Goto
    <2>2. BreakerCounts'
      BY <1>t, <2>1 DEF Admit, Rejects, Recovered, RecoveryInv, BreakerCounts
    <2>3. CacheOlder'
      BY <2>1 DEF Admit, RecoveryInv, CacheOlder
    <2>4. ProofHeld'
      <3>1. pc'[c] = "lookup" /\ \A d \in Callers \ {c} : pc'[d] = pc[d] /\ call'[d] = call[d]
        BY <1>t, <2>1 DEF Admit
      <3>2. QED
        BY <2>1, <3>1 DEF RecoveryInv, ProofHeld
    <2>5. QED
      BY <2>2, <2>3, <2>4 DEF RecoveryInv
  <1>2. ASSUME NEW c \in Callers, FetchRejected(c) PROVE RecoveryInv'
    BY <1>2, <1>t, RecoveryQuiet DEF FetchRejected, Reject, vars, Goto
  <1>3. ASSUME NEW c \in Callers, Lookup(c) PROVE RecoveryInv'
    <2>1. CASE CacheHas /\ cached # "stale"
      <3>1. /\ pc' = [pc EXCEPT ![c] = "account"]
            /\ recent' = IF "cache" \in recent THEN recent \cup {c} ELSE recent
            /\ UNCHANGED <<vars, age, err>>
        BY <1>3, <2>1 DEF Lookup, Goto
      <3>2. BreakerCounts'
        BY <3>1 DEF vars, RecoveryInv, BreakerCounts
      <3>3. CacheOlder'
        BY <3>1 DEF vars, RecoveryInv, CacheOlder
      <3>4. ProofHeld'
        <4>1. call[c] = "probe" => "cache" \in recent
          <5> SUFFICES ASSUME call[c] = "probe", "cache" \notin recent PROVE FALSE
            OBVIOUS
          <5>1. sinceFailure >= RecoveryTimeout
            BY <1>p DEF RecoveryInv, BreakerCounts
          <5>2. sinceFailure <= age /\ age <= CacheTTL
            BY <2>1 DEF RecoveryInv, CacheOlder, CacheHas
          <5>3. QED
            BY <1>0, <1>t, <5>1, <5>2
        <4>2. \A d \in Callers \ {c} : pc'[d] = pc[d]
          BY <1>t, <3>1
        <4>3. QED
          BY <3>1, <4>1, <4>2 DEF vars, RecoveryInv, ProofHeld
      <3>5. QED
        BY <3>2, <3>3, <3>4 DEF RecoveryInv
    <2>2. CASE ~(CacheHas /\ cached # "stale")
      BY <1>3, <2>2, <1>t, RecoveryQuiet DEF Lookup, vars, Goto
    <2>3. QED
      BY <2>1, <2>2
  <1>4. ASSUME NEW c \in Callers, AnswerData(c) PROVE RecoveryInv'
    <2>1. recent' = recent \cup {c, "cache"} /\ pc' = [pc EXCEPT ![c] = "record"] /\ UNCHANGED <<vars, err>>
      BY <1>4 DEF AnswerData, Goto
    <2>2. QED
      BY <1>t, <2>1 DEF vars, RecoveryInv, BreakerCounts, CacheOlder, ProofHeld
  <1>5. ASSUME NEW c \in Callers, AnswerError(c) PROVE RecoveryInv'
    <2>1. /\ err'[c] # "nil" /\ pc' = [pc EXCEPT ![c] = "account"]
          /\ \A d \in Callers \ {c} : err'[d] = err[d]
          /\ UNCHANGED <<vars, age, recent>>
      BY <1>5, <1>t DEF AnswerError, Goto
    <2>2. QED
      BY <1>t, <2>1, RecoveryQuiet DEF vars
  <1>6. ASSUME NEW c \in Callers, AnswerPanic(c) PROVE RecoveryInv'
    <2>1. /\ pc' = [pc EXCEPT ![c] = "idle"] /\ err' = [err EXCEPT ![c] = "nil"]
          /\ call' = [call EXCEPT ![c] = "idle"] /\ UNCHANGED <<breakerVars, age, recent>>
      BY <1>6 DEF AnswerPanic, Panic, Leave, Goto, Returned
    <2>2. QED
      BY <1>t, <2>1, RecoveryQuiet DEF breakerVars
  <1>7. ASSUME NEW c \in Callers, RecordOutcome(c) PROVE RecoveryInv'
    BY <1>7, <1>t, RecoveryQuiet DEF RecordOutcome, vars, Goto
  <1>8. ASSUME NEW c \in Callers, Account(c) PROVE RecoveryInv'
    <2>1. CASE err[c] = "nil"
      <3>1. Succeed(c) /\ recent' = recent \ {c} /\ UNCHANGED age
        BY <1>8, <2>1 DEF Account
      <3>2. /\ state' = "closed" /\ call' = EndEpisode(Returned(c))
            /\ UNCHANGED <<sinceFailure, manualOverride>>
        BY <3>1 DEF Succeed, RecoveryInv, BreakerCounts
      <3>3. \A d \in Callers : call'[d] # "probe"
        BY <3>2 DEF EndEpisode
      <3>4. "cache" \in recent => "cache" \in recent'
        BY <3>1, GatewayAssumption
      <3>5. QED
        BY <3>1, <3>2, <3>3, <3>4 DEF RecoveryInv, BreakerCounts, CacheOlder, ProofHeld
    <2>2. CASE err[c] # "nil" /\ ExpectedNonFailure(err[c])
      <3>1. /\ pc' = [pc EXCEPT ![c] = "failed"] /\ call' = [call EXCEPT ![c] = "idle"]
            /\ UNCHANGED <<breakerVars, err, age, recent>>
        BY <1>8, <2>2 DEF Account, AnswerEmpty, Goto, Returned
      <3>2. QED
        BY <1>t, <3>1, RecoveryQuiet DEF breakerVars
    <2>3. CASE err[c] # "nil" /\ ~ExpectedNonFailure(err[c])
      <3>1. Fail(c) /\ recent' = {} /\ UNCHANGED age
        BY <1>8, <2>3 DEF Account
      <3>2. sinceFailure' = 0 /\ UNCHANGED manualOverride
        BY <3>1 DEF Fail
      <3>3. CASE failures + 1 >= MaxFailures
        <4>1. state' = "open" /\ call' = EndEpisode(Returned(c))
          BY <3>1, <3>3 DEF Fail
        <4>2. failures' >= MaxFailures
          BY <1>0, <1>t, <3>1, <3>3 DEF Fail
        <4>3. \A d \in Callers : call'[d] # "probe"
          BY <4>1 DEF EndEpisode
        <4>4. QED
          BY <3>1, <3>2, <4>1, <4>2, <4>3, RecoveryLost
      <3>4. CASE ~(failures + 1 >= MaxFailures)
        <4>1. state = "closed"
          BY <1>0, <1>t, <3>4 DEF RecoveryInv, BreakerCounts
        <4>2. state' = "closed" /\ call' = [call EXCEPT ![c] = "idle"]
          BY <3>1, <3>4, <4>1 DEF Fail, Returned
        <4>3. \A d \in Callers : call'[d] # "probe"
          BY <1>p, <1>t, <4>1, <4>2
        <4>4. QED
          BY <3>1, <3>2, <4>2, <4>3, RecoveryLost
      <3>5. QED
        BY <3>3, <3>4
    <2>4. QED
      BY <2>1, <2>2, <2>3
  <1>9. ASSUME NEW c \in Callers, IsOpen(c) PROVE RecoveryInv'
    BY <1>9, <1>t, RecoveryQuiet DEF IsOpen, vars, Goto
  <1>10. ASSUME NEW c \in Callers, FallbackGet(c) PROVE RecoveryInv'
    BY <1>10, <1>t, RecoveryQuiet DEF FallbackGet, vars, Goto
  <1>11. ASSUME NEW c \in Callers, FallbackMark(c) \/ Report(c) PROVE RecoveryInv'
    BY <1>11, <1>t, RecoveryQuiet DEF FallbackMark, Report, Leave, vars, Goto
  <1>12. CASE ForceOpenChannel
    <2>1. /\ state' = "open" /\ sinceFailure' = 0 /\ failures' = MaxFailures
          /\ call' = EndEpisode(call) /\ recent' = {} /\ UNCHANGED <<age, manualOverride>>
      BY <1>12 DEF ForceOpenChannel, ForceOpen
    <2>2. \A c \in Callers : call'[c] # "probe"
      BY <2>1 DEF EndEpisode
    <2>3. QED
      BY <1>0, <2>1, <2>2, RecoveryLost
  <1>13. CASE Invalidate
    <2>1. age' = CacheTTL + 1 /\ recent' = recent \ {"cache"} /\ UNCHANGED <<vars, pc, err>>
      BY <1>13 DEF Invalidate
    <2>2. CacheOlder'
      BY <1>0, <2>1 DEF CacheOlder
    <2>3. BreakerCounts' /\ ProofHeld'
      BY <2>1, GatewayAssumption DEF vars, RecoveryInv, BreakerCounts, ProofHeld
    <2>4. QED
      BY <2>2, <2>3 DEF RecoveryInv
  <1>14. CASE GatewayTick
    <2>1. UNCHANGED <<state, failures, manualOverride, call, pc, err, recent>>
      BY <1>14 DEF GatewayTick
    <2>2. /\ sinceFailure' = IF sinceFailure < RecoveryTimeout THEN sinceFailure + 1 ELSE sinceFailure
          /\ age' = IF age <= CacheTTL THEN age + 1 ELSE age
      BY <1>14 DEF GatewayTick
    <2>3. BreakerCounts'
      BY <1>0, <1>t, <2>1, <2>2 DEF RecoveryInv, BreakerCounts
    <2>4. CacheOlder'
      BY <1>0, <1>t, <2>1, <2>2 DEF RecoveryInv, CacheOlder
    <2>5. ProofHeld'
      BY <2>1 DEF RecoveryInv, ProofHeld
    <2>6. QED
      BY <2>3, <2>4, <2>5 DEF RecoveryInv
  <1>15. CASE UNCHANGED gatewayVars
    BY <1>15 DEF gatewayVars, vars, RecoveryInv, BreakerCounts, CacheOlder, ProofHeld
  <1>16. QED
    BY <1>1, <1>2, <1>3, <1>4, <1>5, <1>6, <1>7, <1>8, <1>9, <1>10, <1>11, <1>12,
       <1>13, <1>14, <1>15 DEF GatewayNext

\* A probe that closes the breaker has proof: it holds data that came from the
\* upstream after the last failure, never an older cache entry, on every
\* channel whose entries do not outlive the breaker's timeout.
THEOREM ProbeProvesRecoveryHolds ==
    ASSUME CacheTTL < RecoveryTimeout
    PROVE  GatewaySpec => ProbeProvesRecovery
<1> DEFINE A == \A c \in Callers :
                   state = "half-open" /\ state' = "closed" /\ call[c] = "probe" /\ call'[c] = "idle"
                   => c \in recent
<1>1. GatewayTypeOK /\ RecoveryInv /\ [GatewayNext]_gatewayVars => [A]_gatewayVars
  <2> SUFFICES ASSUME GatewayTypeOK, RecoveryInv, GatewayNext, NEW c \in Callers,
                      state = "half-open", state' = "closed", call[c] = "probe", call'[c] = "idle"
               PROVE  c \in recent
    OBVIOUS
  <2>1. ASSUME NEW d \in Callers, Elsewhere(d) PROVE FALSE
    BY <2>1, ElsewhereLeavesBreaker DEF vars
  <2>2. ASSUME NEW d \in Callers, FetchAdmitted(d) \/ FetchRejected(d) \/ AnswerPanic(d) PROVE FALSE
    BY <2>2 DEF FetchAdmitted, FetchRejected, AnswerPanic, Admit, Reject, Panic, vars, breakerVars
  <2>3. CASE ForceOpenChannel \/ Invalidate \/ GatewayTick
    BY <2>3 DEF ForceOpenChannel, ForceOpen, Invalidate, GatewayTick, vars
  <2>4. ASSUME NEW d \in Callers, Account(d) PROVE c \in recent
    <3>1. err[d] = "nil" /\ Succeed(d) /\ pc[d] = "account"
      BY <2>4 DEF Account, AnswerEmpty, Fail, breakerVars
    <3>2. call' = EndEpisode(Returned(d))
      BY <3>1 DEF Succeed, RecoveryInv, BreakerCounts
    <3>3. c = d
      <4>1. c # d => Returned(d)[c] = "probe"
        BY DEF Returned, GatewayTypeOK, TypeOK
      <4>2. QED
        BY <3>2, <4>1 DEF EndEpisode
    <3>4. QED
      BY <3>1, <3>3 DEF RecoveryInv, ProofHeld
  <2>5. QED
    BY <2>1, <2>2, <2>3, <2>4 DEF GatewayNext, Elsewhere
<1>2. GatewayTypeOK /\ ProbesCounted /\ RecoveryInv /\ [GatewayNext]_gatewayVars => RecoveryInv'
  BY RecoveryStep
<1>3. GatewaySpec => []ProbesCounted
  BY GatewayImplementsBreaker, ProbesAlwaysCounted, PTL DEF BreakerRespected
<1>4. QED
  BY <1>1, <1>2, <1>3, RecoveryInit, GatewayTypeCorrect, PTL DEF GatewaySpec, ProbeProvesRecovery
=============================================================================
