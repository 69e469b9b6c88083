--------------------------- MODULE ChannelBreaker ---------------------------
(***************************************************************************)
(* internal/apigateway/circuitbreaker.go: the breaker that guards one data *)
(* channel.  CircuitBreaker.Call holds cb.mu twice, around the admission   *)
(* test and around the accounting of the result, and runs fn() between the *)
(* two with the lock released.  Any number of calls can therefore be in    *)
(* flight at once, and a result can be accounted long after the breaker    *)
(* has changed state.  Each critical section is one action.                *)
(*                                                                         *)
(* Time.  The code only ever compares timeNow() - lastFailure with         *)
(* RecoveryTimeout, so the model keeps that difference, saturated at       *)
(* RecoveryTimeout, in sinceFailure.  failures is only ever compared with  *)
(* maxFailures, so it saturates at FailureCap.  Both are exact for the     *)
(* control of the breaker.                                                 *)
(***************************************************************************)
EXTENDS Integers, FiniteSets

CONSTANTS
    Callers,            \* goroutines that use the channel
    MaxFailures,        \* cb.maxFailures: 3, or 5 for some channels
    HalfOpenMaxCalls,   \* CircuitBreakerHalfOpenMaxCalls, 2
    RecoveryTimeout,    \* CircuitBreakerRecoveryTimeout, in ticks
    FailureCap,         \* bound: failures saturates here
    Results,            \* what fn() may do in this deployment
    Operators           \* the operator entry points this deployment uses

\* "ok": nil.  "fail": an error that counts.  "empty": an error for which
\* isExpectedNonFailureErr holds.  "panic": fn() never returns to Call.
AllResults == {"ok", "fail", "empty", "panic"}
AllOperators == {"ForceOpen", "SetManualOverride", "Reset"}

ASSUME BreakerAssumption ==
    /\ IsFiniteSet(Callers)
    /\ MaxFailures \in Nat \ {0}
    /\ HalfOpenMaxCalls \in Nat \ {0}
    /\ RecoveryTimeout \in Nat \ {0}
    /\ FailureCap \in Nat /\ FailureCap >= MaxFailures
    /\ Results \subseteq AllResults
    /\ Operators \subseteq AllOperators

VARIABLES
    state,              \* cb.state
    failures,           \* cb.failures, saturated at FailureCap
    sinceFailure,       \* timeNow() - cb.lastFailure, saturated
    halfOpenCalls,      \* cb.halfOpenCalls
    manualOverride,     \* cb.manualOverride
    call                \* what each caller has in flight (see CallKinds)

breakerVars == <<state, failures, sinceFailure, halfOpenCalls, manualOverride>>
vars == <<state, failures, sinceFailure, halfOpenCalls, manualOverride, call>>

States == {"closed", "open", "half-open"}

\* A caller is idle, or inside fn().  A call admitted by a half-open breaker
\* is a "probe" until the breaker leaves that half-open episode; every other
\* call in flight is an "ordinary" one.  The code does not keep the
\* distinction: it is what the properties are about.
CallKinds == {"idle", "ordinary", "probe"}

TypeOK ==
    /\ state \in States
    /\ failures \in 0..FailureCap
    /\ sinceFailure \in 0..RecoveryTimeout
    /\ halfOpenCalls \in 0..HalfOpenMaxCalls
    /\ manualOverride \in BOOLEAN
    /\ call \in [Callers -> CallKinds]

\* NewCircuitBreaker: closed, and lastFailure is the zero time, long ago.
Init ==
    /\ state = "closed"
    /\ failures = 0
    /\ sinceFailure = RecoveryTimeout
    /\ halfOpenCalls = 0
    /\ manualOverride = FALSE
    /\ call = [c \in Callers |-> "idle"]

-----------------------------------------------------------------------------
Probes == {c \in Callers : call[c] = "probe"}

\* The half-open episode is over: its probes in flight lose that standing.
EndEpisode(f) == [c \in Callers |-> IF f[c] = "probe" THEN "ordinary" ELSE f[c]]

Returned(c) == [call EXCEPT ![c] = "idle"]

Recovered == sinceFailure >= RecoveryTimeout

\* Slip: > for >= lets one probe too many through.
RejectsOneLate ==
    \/ state = "open" /\ ~Recovered
    \/ state = "half-open" /\ halfOpenCalls > HalfOpenMaxCalls

\* The two early returns of Call: open and not yet recovered, or half-open
\* with every probe slot taken.
Rejects ==
    \/ state = "open" /\ ~Recovered
    \/ state = "half-open" /\ halfOpenCalls >= HalfOpenMaxCalls

\* Slip: a rejected call restarts the recovery clock.
RejectRestartsClock(c) ==
    /\ call[c] = "idle"
    /\ Rejects
    /\ sinceFailure' = 0
    /\ UNCHANGED <<state, failures, halfOpenCalls, manualOverride, call>>

Reject(c) ==
    /\ call[c] = "idle"
    /\ Rejects
    /\ UNCHANGED vars

\* Slip: a half-open breaker does not count the calls it lets through.
AdmitUncounted(c) ==
    /\ call[c] = "idle"
    /\ ~Rejects
    /\ state' = IF state = "open" THEN "half-open" ELSE state
    /\ halfOpenCalls' = IF state = "open" THEN 0 ELSE halfOpenCalls
    /\ call' = [call EXCEPT ![c] = IF state = "closed" THEN "ordinary" ELSE "probe"]
    /\ UNCHANGED <<failures, sinceFailure, manualOverride>>

\* The admission of Call, lines 94 to 114: an open breaker whose timeout has
\* passed becomes half-open with a fresh budget, of which this call is one.
Admit(c) ==
    /\ call[c] = "idle"
    /\ ~Rejects
    /\ \/ /\ state = "closed"
          /\ call' = [call EXCEPT ![c] = "ordinary"]
          /\ UNCHANGED <<state, halfOpenCalls>>
       \/ /\ state = "open"
          /\ state' = "half-open"
          /\ halfOpenCalls' = 1
          /\ call' = [call EXCEPT ![c] = "probe"]
       \/ /\ state = "half-open"
          /\ halfOpenCalls' = halfOpenCalls + 1
          /\ call' = [call EXCEPT ![c] = "probe"]
          /\ UNCHANGED state
    /\ UNCHANGED <<failures, sinceFailure, manualOverride>>

\* Slip: a success closes the breaker whatever the override says.
SucceedDespiteOverride(c) ==
    /\ call[c] # "idle"
    /\ failures' = 0
    /\ state' = "closed"
    /\ halfOpenCalls' = 0
    /\ call' = EndEpisode(Returned(c))
    /\ UNCHANGED <<sinceFailure, manualOverride>>

\* fn() returned nil.
Succeed(c) ==
    /\ call[c] # "idle"
    /\ failures' = 0
    /\ IF manualOverride
       THEN /\ call' = Returned(c)
            /\ UNCHANGED <<state, halfOpenCalls>>
       ELSE /\ state' = "closed"
            /\ halfOpenCalls' = 0
            /\ call' = EndEpisode(Returned(c))
    /\ UNCHANGED <<sinceFailure, manualOverride>>

\* Slip: the breaker opens one failure late.
FailOneLate(c) ==
    /\ call[c] # "idle"
    /\ failures' = IF failures < FailureCap THEN failures + 1 ELSE FailureCap
    /\ sinceFailure' = 0
    /\ IF failures + 1 > MaxFailures
       THEN state' = "open" /\ call' = EndEpisode(Returned(c))
       ELSE call' = Returned(c) /\ UNCHANGED state
    /\ UNCHANGED <<halfOpenCalls, manualOverride>>

\* fn() returned an error that counts.
Fail(c) ==
    /\ call[c] # "idle"
    /\ failures' = IF failures < FailureCap THEN failures + 1 ELSE FailureCap
    /\ sinceFailure' = 0
    /\ IF failures + 1 >= MaxFailures
       THEN state' = "open" /\ call' = EndEpisode(Returned(c))
       ELSE call' = Returned(c) /\ UNCHANGED state
    /\ UNCHANGED <<halfOpenCalls, manualOverride>>

\* fn() returned an expected non-failure (ErrNoData, ErrEmptyQuote): nothing
\* is accounted and a probe slot it took stays taken.
AnswerEmpty(c) ==
    /\ call[c] # "idle"
    /\ call' = Returned(c)
    /\ UNCHANGED breakerVars

\* fn() panicked: the second critical section is never reached.
Panic(c) ==
    /\ call[c] # "idle"
    /\ call' = Returned(c)
    /\ UNCHANGED breakerVars

Return(c) ==
    \/ "ok" \in Results /\ Succeed(c)
    \/ "fail" \in Results /\ Fail(c)
    \/ "empty" \in Results /\ AnswerEmpty(c)
    \/ "panic" \in Results /\ Panic(c)

ForceOpen ==
    /\ state' = "open"
    /\ sinceFailure' = 0
    /\ failures' = MaxFailures
    /\ call' = EndEpisode(call)
    /\ UNCHANGED <<halfOpenCalls, manualOverride>>

SetManualOverride(enabled) ==
    /\ manualOverride' = enabled
    /\ UNCHANGED <<state, failures, sinceFailure, halfOpenCalls, call>>

Reset ==
    /\ state' = "closed"
    /\ failures' = 0
    /\ halfOpenCalls' = 0
    /\ manualOverride' = FALSE
    /\ call' = EndEpisode(call)
    /\ UNCHANGED sinceFailure

Operate ==
    \/ "ForceOpen" \in Operators /\ ForceOpen
    \/ "SetManualOverride" \in Operators /\ \E b \in BOOLEAN : SetManualOverride(b)
    \/ "Reset" \in Operators /\ Reset

\* Time passes.
Tick ==
    /\ sinceFailure < RecoveryTimeout
    /\ sinceFailure' = sinceFailure + 1
    /\ UNCHANGED <<state, failures, halfOpenCalls, manualOverride, call>>

Next ==
    \/ \E c \in Callers : Admit(c) \/ Reject(c) \/ Return(c)
    \/ Operate
    \/ Tick

Spec == Init /\ [][Next]_vars

\* Time passes, every caller comes back to the channel (the callers are
\* periodic background tasks) and every fn() ends (providers fetch with a
\* timeout).  Nothing is assumed of what fn() answers, nor of the operators.
Fairness ==
    /\ WF_vars(Tick)
    /\ \A c \in Callers : WF_vars(Admit(c)) /\ WF_vars(Return(c))

FairSpec == Spec /\ Fairness

-----------------------------------------------------------------------------
\* The probe budget: however calls and results interleave, and whatever late
\* results and operators do to the breaker meanwhile, a half-open episode
\* never has more than HalfOpenMaxCalls of its calls at the upstream, and
\* a breaker that is not half-open has none.
ProbeBudget ==
    /\ Cardinality(Probes) <= HalfOpenMaxCalls
    /\ state # "half-open" => Probes = {}

\* A closed breaker is below its threshold: no interleaving of late failures,
\* late successes, overrides and resets leaves the channel closed with a
\* streak that Call should have opened it for.
ClosedBelowThreshold == state = "closed" => failures < MaxFailures

\* While the manual override is armed only Reset() closes the breaker, not a
\* success, however late it arrives (SetManualOverride's contract).
OverrideLatch ==
    [][manualOverride /\ state # "closed" /\ state' = "closed" => Reset]_vars

\* A half-open episode is used up: every slot was taken, and every probe has
\* ended without closing the breaker or opening it again.
UsedUp == state = "half-open" /\ halfOpenCalls >= HalfOpenMaxCalls /\ Probes = {}

NoMoreForceOpen == <>[][~ForceOpen]_vars

\* Late failures, rejected calls and overrides do not put recovery off for
\* ever: if the breaker is no longer forced open, a breaker that rejects
\* calls sooner or later admits one, or has a used-up half-open episode.
RecoveryUnlessUsedUp == NoMoreForceOpen => (Rejects ~> (~Rejects \/ UsedUp))

\* Recovery is always attempted again: CircuitBreakerRecoveryTimeout is "the
\* duration before attempting recovery", and an answer without data "is not
\* an outage and retrying is the correct behavior".
RecoveryAttempted == NoMoreForceOpen => (Rejects ~> ~Rejects)
=============================================================================
