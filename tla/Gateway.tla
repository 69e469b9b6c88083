------------------------------ MODULE Gateway -------------------------------
(***************************************************************************)
(* internal/apigateway/gateway.go: Gateway.Fetch on one channel, composed  *)
(* with the channel's breaker (ChannelBreaker), its entry in the CacheLayer*)
(* (cache_registry.go) and its health record (channel_health.go).          *)
(* Channels share none of these, so one channel is enough.                 *)
(*                                                                         *)
(* Fetch runs its body as the fn() of breaker.Call.  Every lock it takes   *)
(* (the breaker's twice, the cache's, the health store's) is released      *)
(* before the next is taken; each such section is one action, and pc says  *)
(* which one a caller is about to enter.  A cached FetchResult is a        *)
(* pointer that the cache and the callers share, and the fallback path     *)
(* writes Stale into the object it was given: what matters of a pointer is *)
(* whether it is the one the cache holds now.                              *)
(***************************************************************************)
EXTENDS ChannelBreaker

CONSTANTS
    CacheTTL,           \* CacheLayer.ttlFor(channel), in ticks
    GraceFailures,      \* contract.EffectiveGraceFailures()
    SessionBound,       \* contract.MarketSession = MarketSessionTW
    Answers             \* what the provider may answer in this deployment

\* "data": a result.  "stale": a result the adapter itself flagged Stale.
\* "noData", "emptyQuote": the expected non-failures.  "quota": one of the
\* quota and ban sentinels.  "error": any other error, an unregistered
\* provider included.  "panic": the adapter panics.
AllAnswers == {"data", "stale", "noData", "emptyQuote", "quota", "error", "panic"}

ASSUME GatewayAssumption ==
    /\ CacheTTL \in Nat
    /\ GraceFailures \in Nat \ {0}
    /\ SessionBound \in BOOLEAN
    /\ Answers \subseteq AllAnswers
    /\ "cache" \notin Callers        \* "cache" stands for the cache in recent
    /\ Results = AllResults         \* what Fetch's fn() may do is up to Answers

VARIABLES
    pc,                 \* where each caller is in Fetch
    err,                \* callErr of each caller; "nil" when there is none
    held,               \* result of each caller: nil, the cache's, or replaced
    cached,             \* the cache entry: none, an ordinary result, or one
                        \* with Stale set
    age,                \* time.Since(cachedAt), saturated at CacheTTL + 1
    health,             \* the channel's ChannelHealthRecord
    fault,              \* history: the worst thing that has happened so far
    recent              \* history: who holds data fetched since the last failure

gatewayVars == <<vars, pc, err, held, cached, age, health, fault, recent>>

PCs == {"idle", "lookup", "upstream", "record", "account", "failed",
        "fallback", "mark", "report"}
Errs == {"nil", "rejected", "noData", "emptyQuote", "quota", "error"}
Statuses == {"none", "ok", "warn", "degraded", "error"}

GatewayTypeOK ==
    /\ TypeOK
    /\ pc \in [Callers -> PCs]
    /\ err \in [Callers -> Errs]
    /\ held \in [Callers -> {"nil", "current", "replaced"}]
    /\ cached \in {"none", "ordinary", "stale"}
    /\ age \in 0..(CacheTTL + 1)
    /\ health \in [status : Statuses, streak : 0..GraceFailures]
    /\ fault \in {"none", "quota", "real"}
    /\ recent \subseteq Callers \cup {"cache"}

GatewayInit ==
    /\ Init
    /\ pc = [c \in Callers |-> "idle"]
    /\ err = [c \in Callers |-> "nil"]
    /\ held = [c \in Callers |-> "nil"]
    /\ cached = "none"
    /\ age = CacheTTL + 1
    /\ health = [status |-> "none", streak |-> 0]
    /\ fault = "none"
    /\ recent = {}

-----------------------------------------------------------------------------
\* Slip: the TTL is not looked at.
CacheHasForever == cached # "none"

\* CacheLayer.Get returns nil when there is no entry or it has outlived its TTL.
CacheHas == cached # "none" /\ age <= CacheTTL

\* recordInternal on this channel, one atomic step here (the store's own
\* load, update and save are the subject of ChannelHealth): the records that
\* an attempt with the given status may leave.
Record(status) ==
    IF status = "ok" THEN {[status |-> "ok", streak |-> 0]}
    ELSE IF status = "error"
    THEN LET n == IF health.streak < GraceFailures THEN health.streak + 1 ELSE GraceFailures
         IN  {[status |-> s, streak |-> n] :
                 s \in IF n < GraceFailures THEN {"warn"}
                       ELSE IF SessionBound THEN {"error", "warn"}
                       ELSE {"error"}}
    ELSE {[health EXCEPT !.status = status]}

Goto(c, l) == pc' = [pc EXCEPT ![c] = l]

\* The worst of what has happened and of answer a.
WorstWith(a) == IF a = "error" \/ fault = "real" THEN "real"
                ELSE IF a = "quota" THEN "quota" ELSE fault

-----------------------------------------------------------------------------
\* Fetch returns, or is unwound by a panic.
Leave(c) ==
    /\ Goto(c, "idle")
    /\ err' = [err EXCEPT ![c] = "nil"]
    /\ held' = [held EXCEPT ![c] = "nil"]

\* Fetch enters breaker.Call and is admitted.
FetchAdmitted(c) ==
    /\ pc[c] = "idle"
    /\ Admit(c)
    /\ Goto(c, "lookup")
    /\ UNCHANGED <<err, held, cached, age, health, fault, recent>>

\* Fetch enters breaker.Call and is turned away.
FetchRejected(c) ==
    /\ pc[c] = "idle"
    /\ Reject(c)
    /\ Goto(c, "failed")
    /\ err' = [err EXCEPT ![c] = "rejected"]
    /\ UNCHANGED <<held, cached, age, health, fault, recent>>

\* Step 2: a live entry whose Stale is not set is the result.
Lookup(c) ==
    /\ pc[c] = "lookup"
    /\ IF CacheHas /\ cached # "stale"
       THEN /\ Goto(c, "account")
            /\ held' = [held EXCEPT ![c] = "current"]
            /\ recent' = IF "cache" \in recent THEN recent \cup {c} ELSE recent
       ELSE /\ Goto(c, "upstream")
            /\ UNCHANGED <<held, recent>>
    /\ UNCHANGED <<vars, err, cached, age, health, fault>>

\* Steps 3 and 4: the provider answers with a result, which replaces the
\* cache entry whatever other callers have put there meanwhile.
AnswerData(c) ==
    /\ pc[c] = "upstream"
    /\ \E a \in Answers \cap {"data", "stale"} :
          cached' = IF a = "stale" THEN "stale" ELSE "ordinary"
    /\ age' = 0
    /\ held' = [d \in Callers |-> IF d = c THEN "current"
                                  ELSE IF held[d] = "current" THEN "replaced" ELSE held[d]]
    /\ recent' = recent \cup {c, "cache"}
    /\ Goto(c, "record")
    /\ UNCHANGED <<vars, err, health, fault>>

\* Step 3: the provider, or the registry, answers with an error.
AnswerError(c) ==
    /\ pc[c] = "upstream"
    /\ \E a \in Answers \cap {"noData", "emptyQuote", "quota", "error"} :
          /\ err' = [err EXCEPT ![c] = a]
          /\ fault' = WorstWith(a)
    /\ Goto(c, "account")
    /\ UNCHANGED <<vars, held, cached, age, health, recent>>

\* The provider panics: neither Call nor Fetch gets to account for it.
AnswerPanic(c) ==
    /\ pc[c] = "upstream"
    /\ "panic" \in Answers
    /\ Panic(c)
    /\ Leave(c)
    /\ fault' = "real"
    /\ UNCHANGED <<cached, age, health, recent>>

\* FetchOutcomeStatus and EvaluateContractHealth call the outcome of a fetch
\* ok or degraded, depending on the channel's contract.
OutcomeStatus == {"ok", "degraded"}

\* Step 5: the outcome is recorded.
RecordOutcome(c) ==
    /\ pc[c] = "record"
    /\ \E status \in OutcomeStatus : health' \in Record(status)
    /\ Goto(c, "account")
    /\ UNCHANGED <<vars, err, held, cached, age, fault, recent>>

\* Slip: an empty quote counts as a failure, as it did before 2026-09-23.
ExpectedNonFailureNoDataOnly(e) == e \in {"noData"}

\* isExpectedNonFailureErr
ExpectedNonFailure(e) == e \in {"noData", "emptyQuote"}

\* fn() is back in Call, which accounts for it; a nil error ends Fetch.
Account(c) ==
    /\ pc[c] = "account"
    /\ \/ /\ err[c] = "nil"
          /\ Succeed(c)
          /\ Leave(c)
          /\ recent' = recent \ {c}
       \/ /\ err[c] # "nil" /\ ExpectedNonFailure(err[c])
          /\ AnswerEmpty(c)
          /\ Goto(c, "failed")
          /\ UNCHANGED <<err, held, recent>>
       \/ /\ err[c] # "nil" /\ ~ExpectedNonFailure(err[c])
          /\ Fail(c)
          /\ recent' = {}
          /\ Goto(c, "failed")
          /\ UNCHANGED <<err, held>>
    /\ UNCHANGED <<cached, age, health, fault>>

\* breaker.IsOpen(), asked after Call has returned its error.
IsOpen(c) ==
    /\ pc[c] = "failed"
    /\ Goto(c, IF state = "open" THEN "fallback" ELSE "report")
    /\ UNCHANGED <<vars, err, held, cached, age, health, fault, recent>>

FallbackGet(c) ==
    /\ pc[c] = "fallback"
    /\ IF CacheHas
       THEN held' = [held EXCEPT ![c] = "current"] /\ Goto(c, "mark")
       ELSE Goto(c, "report") /\ UNCHANGED held
    /\ UNCHANGED <<vars, err, cached, age, health, fault, recent>>

\* The object is flagged in place, in the cache too if it is still the
\* entry, and returned with a nil error.
FallbackMark(c) ==
    /\ pc[c] = "mark"
    /\ health' \in Record("warn")
    /\ cached' = IF held[c] = "current" THEN "stale" ELSE cached
    /\ Leave(c)
    /\ UNCHANGED <<vars, age, fault, recent>>

\* What Fetch records for an error: waiting (an ok record) for no new data,
\* warn for quotas, bans and empty quotes, error for everything else, a
\* rejection by the breaker included.
StatusOf(e) == IF e = "noData" THEN "ok"
               ELSE IF e \in {"quota", "emptyQuote"} THEN "warn" ELSE "error"

\* Fetch records the error and returns it.
Report(c) ==
    /\ pc[c] = "report"
    /\ health' \in Record(StatusOf(err[c]))
    /\ Leave(c)
    /\ UNCHANGED <<vars, cached, age, fault, recent>>

\* Slip: the breaker is set open directly, without ForceOpen's bookkeeping.
ForceOpenChannelBare ==
    /\ "ForceOpen" \in Operators
    /\ state' = "open"
    /\ call' = EndEpisode(call)
    /\ fault' = "real"
    /\ recent' = {}
    /\ UNCHANGED <<failures, sinceFailure, halfOpenCalls, manualOverride,
                   pc, err, held, cached, age, health>>

\* Gateway.ForceOpenChannel.
ForceOpenChannel ==
    /\ "ForceOpen" \in Operators
    /\ ForceOpen
    /\ fault' = "real"
    /\ recent' = {}
    /\ UNCHANGED <<pc, err, held, cached, age, health>>

\* CacheLayer.Invalidate and InvalidateAll.
Invalidate ==
    /\ cached' = "none"
    /\ age' = CacheTTL + 1
    /\ held' = [c \in Callers |-> IF held[c] = "current" THEN "replaced" ELSE held[c]]
    /\ recent' = recent \ {"cache"}
    /\ UNCHANGED <<vars, pc, err, health, fault>>

\* Time passes for the breaker and for the cache.
GatewayTick ==
    /\ sinceFailure < RecoveryTimeout \/ age <= CacheTTL
    /\ sinceFailure' = IF sinceFailure < RecoveryTimeout THEN sinceFailure + 1 ELSE sinceFailure
    /\ age' = IF age <= CacheTTL THEN age + 1 ELSE age
    /\ UNCHANGED <<state, failures, halfOpenCalls, manualOverride, call, pc, err, held,
                   cached, health, fault, recent>>

GatewayNext ==
    \/ \E c \in Callers :
          \/ FetchAdmitted(c) \/ FetchRejected(c)
          \/ Lookup(c) \/ AnswerData(c) \/ AnswerError(c) \/ AnswerPanic(c)
          \/ RecordOutcome(c) \/ Account(c)
          \/ IsOpen(c) \/ FallbackGet(c) \/ FallbackMark(c) \/ Report(c)
    \/ ForceOpenChannel
    \/ Invalidate
    \/ GatewayTick

GatewaySpec == GatewayInit /\ [][GatewayNext]_gatewayVars

-----------------------------------------------------------------------------
\* Fetch uses its breaker as a breaker: whatever cache, fallback and health
\* recording do between the breaker's critical sections, the breaker itself
\* goes through steps of ChannelBreaker only, so all its guarantees hold here.
BreakerRespected == Spec

\* An upstream that only ever answers with data or with an expected
\* non-failure never pages: no sequence of concurrent fetches brings the
\* channel to status "error", not even by way of the breaker.
ExpectedEmptyNeverPages == fault = "none" => health.status # "error"

\* The same with quota and ban errors: "expected non-failure conditions must
\* not be marked error" (the comment of Fetch).  It does not hold: they count
\* in the breaker, whose rejections are recorded as errors.
QuotaNeverPages == fault # "real" => health.status # "error"

\* A probe that closes the breaker has proof: it holds data that came from
\* the upstream after the last failure, never an older cache entry.
ProbeProvesRecovery ==
    [][\A c \in Callers :
          state = "half-open" /\ state' = "closed" /\ call[c] = "probe" /\ call'[c] = "idle"
          => c \in recent]_gatewayVars

\* A fetch that finds the breaker open is answered with the last known good
\* data if the channel has any, instead of the error.  It does not hold: the
\* fallback's lookup hides expired data.
LastKnownGoodServed ==
    [][\A c \in Callers :
          pc[c] = "fallback" /\ pc'[c] = "report" => cached = "none"]_gatewayVars
=============================================================================
