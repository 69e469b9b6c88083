------------------------------ MODULE TaskExec ------------------------------
(***************************************************************************)
(* internal/taskexec/manager.go: Manager runs the tasks that the HTTP API  *)
(* (internal/monitoring/api/taskexec/handlers.go) submits, cancels,        *)
(* retries and streams.  Every execution has a row and an event log in the *)
(* store and, while it is active, a goroutine (startRun).  The goroutine,  *)
(* the requests that cancel it and the clients that stream its events      *)
(* share only the store, m.active and m.subs, each under its own lock, so  *)
(* every access to one of them is one action here.                         *)
(*                                                                         *)
(* An event is its sequence number.  A run of any registered runner emits  *)
(* at most 6 of them and a subscriber's channel holds 100, so the branch   *)
(* of Emit that drops an event for a full channel is out of reach and is   *)
(* not modelled.  Of a row only Status is kept.                            *)
(***************************************************************************)
EXTENDS Integers, Sequences, SequencesExt

CONSTANTS
    Execs,                  \* execution ids
    Retired,                \* finished rows whose task type has no runner now
    Cancellers,             \* HTTP requests that cancel
    Subscribers,            \* HTTP requests that stream events
    MaxEvents,              \* bound: events a run emits before its done event
    StoreMayFail            \* TRUE: TaskExecutionStore (Postgres), where any
                            \* call may fail and one on a cancelled context
                            \* does; FALSE: InMemoryStore, which does neither

ASSUME TaskExecAssumption ==
    /\ Retired \subseteq Execs
    /\ MaxEvents \in Nat \ {0}
    /\ StoreMayFail \in BOOLEAN

VARIABLES
    row,        \* Status of each execution in the store
    pc,         \* where startRun's goroutine is (see Phases)
    verdict,    \* what the runner returned, then execCopy.Status
    seq,        \* sink.seq
    pending,    \* event appended to the store and not yet delivered, or 0
    log,        \* events of the execution in the store
    doneSeq,    \* the done event's number, 0 before it is emitted
    canceled,   \* cancelFunc of the execution has been called
    cancel,     \* where each Cancel request is
    sub,        \* where each subscription is
    stream,     \* everything put into the subscriber's channel, in order
    down,       \* the manager's own context has been cancelled
    lost        \* history: runs whose last write failed, the store being away

runVars == <<row, pc, verdict, canceled>>
eventVars == <<seq, pending, log, doneSeq>>
subVars == <<sub, stream>>
vars == <<row, pc, verdict, seq, pending, log, doneSeq, canceled, cancel, sub, stream, down, lost>>

Settled == {"succeeded", "failed", "cancel_requested"}
Statuses == {"none", "queued", "running"} \cup Settled

\* "orphan": created by Retry for a task type without a runner.
ActivePhases == {"spawned", "marked", "executing", "returned", "decided", "announced", "written"}
Phases == ActivePhases \cup {"none", "created", "gone", "orphan"}

Idle == [at |-> "idle"]
At(place, e) == [at |-> place, exec |-> e]

TypeOK ==
    /\ row \in [Execs -> Statuses]
    /\ pc \in [Execs -> Phases]
    /\ verdict \in [Execs -> {"none", "ok", "err"} \cup Settled]
    /\ seq \in [Execs -> 0 .. MaxEvents + 1]
    /\ pending \in [Execs -> 0 .. MaxEvents + 1]
    /\ \A e \in Execs : log[e] \in Seq(1 .. MaxEvents + 1)
    /\ doneSeq \in [Execs -> 0 .. MaxEvents + 1]
    /\ canceled \in [Execs -> BOOLEAN]
    /\ \A k \in Cancellers :
          cancel[k] = Idle \/ \E e \in Execs : cancel[k] \in {At("found", e), At("marked", e)}
    /\ \A s \in Subscribers :
          /\ sub[s] = Idle
             \/ \E e \in Execs : sub[s] \in {At(p, e) : p \in {"replayed", "joined", "closed", "left"}}
          /\ stream[s] \in Seq(1 .. MaxEvents + 1)
    /\ down \in BOOLEAN
    /\ lost \subseteq Execs

Init ==
    /\ row = [e \in Execs |-> IF e \in Retired THEN "succeeded" ELSE "none"]
    /\ pc = [e \in Execs |-> IF e \in Retired THEN "orphan" ELSE "none"]
    /\ verdict = [e \in Execs |-> "none"]
    /\ seq = [e \in Execs |-> 0]
    /\ pending = [e \in Execs |-> 0]
    /\ log = [e \in Execs |-> <<>>]
    /\ doneSeq = [e \in Execs |-> 0]
    /\ canceled = [e \in Execs |-> FALSE]
    /\ cancel = [k \in Cancellers |-> Idle]
    /\ sub = [s \in Subscribers |-> Idle]
    /\ stream = [s \in Subscribers |-> <<>>]
    /\ down = FALSE
    /\ lost = {}

-----------------------------------------------------------------------------
\* m.active holds e.
Active(e) == pc[e] \in ActivePhases

\* The goroutine of e, between two of its calls.
In(e, phase) == pc[e] = phase /\ pending[e] = 0
GoTo(e, phase) == pc' = [pc EXCEPT ![e] = phase]

\* The context a run was given derives from the manager's.
ContextDone(e) == canceled[e] \/ down

\* A call of the store can succeed, on a context that may have ended.
Works(ended) == ~(StoreMayFail /\ ended)

\* Manager.Submit with a registered type: CreateExecution.  (With an
\* unregistered type it returns before it changes anything.)
Submit(e) ==
    /\ row[e] = "none"
    /\ row' = [row EXCEPT ![e] = "queued"]
    /\ GoTo(e, "created")
    /\ UNCHANGED <<verdict, canceled, eventVars, cancel, subVars, down, lost>>

\* Manager.Retry of any execution there is, finished or not.  The row is
\* created before the runner is looked up, so for a type without a runner
\* the error return leaves a queued row that nothing will run.
Retry(original, e) ==
    /\ row[original] # "none"
    /\ row[e] = "none"
    /\ row' = [row EXCEPT ![e] = "queued"]
    /\ GoTo(e, IF pc[original] = "orphan" THEN "orphan" ELSE "created")
    /\ UNCHANGED <<verdict, canceled, eventVars, cancel, subVars, down, lost>>

\* startRun: m.active gets the run and the goroutine is started.
StartRun(e) ==
    /\ pc[e] = "created"
    /\ GoTo(e, "spawned")
    /\ UNCHANGED <<row, verdict, canceled, eventVars, cancel, subVars, down, lost>>

\* The goroutine's first write uses the run's context: Postgres refuses it
\* once the run is cancelled.  A failure is only logged.
MarkRunning(e) ==
    /\ In(e, "spawned")
    /\ \/ Works(ContextDone(e)) /\ row' = [row EXCEPT ![e] = "running"]
       \/ StoreMayFail /\ UNCHANGED row
    /\ GoTo(e, "marked")
    /\ UNCHANGED <<verdict, canceled, eventVars, cancel, subVars, down, lost>>

\* Slip: Emit advances the counter once more after numbering the event.
AppendEventTwice(e) ==
    /\ seq' = [seq EXCEPT ![e] = @ + 2]
    /\ pending' = [pending EXCEPT ![e] = seq[e] + 1]
    /\ \/ Works(down) /\ log' = [log EXCEPT ![e] = Append(@, seq[e] + 1)]
       \/ StoreMayFail /\ UNCHANGED log

\* First half of localSink.Emit: number the event and append it to the
\* store, with the manager's context; a failure is only logged.
AppendEvent(e) ==
    /\ seq' = [seq EXCEPT ![e] = @ + 1]
    /\ pending' = [pending EXCEPT ![e] = seq[e] + 1]
    /\ \/ Works(down) /\ log' = [log EXCEPT ![e] = Append(@, seq[e] + 1)]
       \/ StoreMayFail /\ UNCHANGED log

\* Slip: Emit sends to a subscriber without looking at sub.closed.
DeliverUnchecked(e) ==
    /\ pending[e] # 0
    /\ stream' = [s \in Subscribers |->
                    IF sub[s] \in {At("joined", e), At("closed", e)}
                    THEN Append(stream[s], pending[e]) ELSE stream[s]]
    /\ pending' = [pending EXCEPT ![e] = 0]
    /\ UNCHANGED <<runVars, seq, log, doneSeq, cancel, sub, down, lost>>

\* Second half of localSink.Emit, under subMu.RLock: send to every
\* subscriber of e in m.subs that has not closed its channel.
Deliver(e) ==
    /\ pending[e] # 0
    /\ stream' = [s \in Subscribers |->
                    IF sub[s] = At("joined", e) THEN Append(stream[s], pending[e]) ELSE stream[s]]
    /\ pending' = [pending EXCEPT ![e] = 0]
    /\ UNCHANGED <<runVars, seq, log, doneSeq, cancel, sub, down, lost>>

\* The "running" event.
EmitRunning(e) ==
    /\ In(e, "marked")
    /\ AppendEvent(e)
    /\ GoTo(e, "executing")
    /\ UNCHANGED <<row, verdict, canceled, doneSeq, cancel, subVars, down, lost>>

\* runner.Run emits a progress event.
EmitProgress(e) ==
    /\ In(e, "executing")
    /\ seq[e] < MaxEvents
    /\ AppendEvent(e)
    /\ UNCHANGED <<runVars, doneSeq, cancel, subVars, down, lost>>

\* runner.Run returns.  A runner looks at its context between its stages
\* only, so a cancelled run may still return nil.
RunnerReturns(e, result) ==
    /\ In(e, "executing")
    /\ verdict' = [verdict EXCEPT ![e] = result]
    /\ GoTo(e, "returned")
    /\ UNCHANGED <<row, canceled, eventVars, cancel, subVars, down, lost>>

\* Slip: the run takes any cancelled context for a cancel by the user.
DecideByContext(e) ==
    /\ In(e, "returned")
    /\ verdict' = [verdict EXCEPT ![e] =
          IF ContextDone(e) THEN "cancel_requested"
          ELSE IF @ = "err" THEN "failed" ELSE "succeeded"]
    /\ GoTo(e, "decided")
    /\ UNCHANGED <<row, canceled, eventVars, cancel, subVars, down, lost>>

\* GetExecution and the switch: a row marked cancel_requested wins, if the
\* row can be read.
Decide(e) ==
    /\ In(e, "returned")
    /\ \/ /\ row[e] = "cancel_requested"
          /\ verdict' = [verdict EXCEPT ![e] = "cancel_requested"]
       \/ /\ row[e] # "cancel_requested" \/ StoreMayFail
          /\ verdict' = [verdict EXCEPT ![e] = IF @ = "err" THEN "failed" ELSE "succeeded"]
    /\ GoTo(e, "decided")
    /\ UNCHANGED <<row, canceled, eventVars, cancel, subVars, down, lost>>

\* The done event.
EmitDone(e) ==
    /\ In(e, "decided")
    /\ AppendEvent(e)
    /\ doneSeq' = [doneSeq EXCEPT ![e] = seq[e] + 1]
    /\ GoTo(e, "announced")
    /\ UNCHANGED <<row, verdict, canceled, cancel, subVars, down, lost>>

\* Slip: the last write uses the run's context.
FinalWriteInContext(e) ==
    /\ In(e, "announced")
    /\ row' = IF Works(ContextDone(e)) THEN [row EXCEPT ![e] = verdict[e]] ELSE row
    /\ GoTo(e, "written")
    /\ UNCHANGED <<verdict, canceled, eventVars, cancel, subVars, down, lost>>

\* The last write uses context.Background(): no cancel can refuse it, but
\* the store may be away.  The failure is logged and the write not repeated.
FinalWrite(e) ==
    /\ In(e, "announced")
    /\ \/ row' = [row EXCEPT ![e] = verdict[e]] /\ UNCHANGED lost
       \/ StoreMayFail /\ UNCHANGED row /\ lost' = lost \cup {e}
    /\ GoTo(e, "written")
    /\ UNCHANGED <<verdict, canceled, eventVars, cancel, subVars, down>>

\* The deferred function: out of m.active, and cancel().
Finish(e) ==
    /\ In(e, "written")
    /\ GoTo(e, "gone")
    /\ canceled' = [canceled EXCEPT ![e] = TRUE]
    /\ UNCHANGED <<row, verdict, eventVars, cancel, subVars, down, lost>>

Goroutine(e) ==
    \/ StartRun(e) \/ MarkRunning(e) \/ EmitRunning(e) \/ Deliver(e)
    \/ \E result \in {"ok", "err"} : RunnerReturns(e, result)
    \/ Decide(e) \/ EmitDone(e) \/ FinalWrite(e) \/ Finish(e)

-----------------------------------------------------------------------------
\* Slip: a row is enough, the run may be over.
CancelLookupUnchecked(k, e) ==
    /\ cancel[k] = Idle
    /\ row[e] # "none"
    /\ cancel' = [cancel EXCEPT ![k] = At("found", e)]
    /\ UNCHANGED <<runVars, eventVars, subVars, down, lost>>

\* Manager.Cancel finds the run in m.active.  (Otherwise it returns an error.)
CancelLookup(k, e) ==
    /\ cancel[k] = Idle
    /\ Active(e)
    /\ cancel' = [cancel EXCEPT ![k] = At("found", e)]
    /\ UNCHANGED <<runVars, eventVars, subVars, down, lost>>

\* It writes the whole row, whatever the row has become since.
CancelWrite(k) ==
    /\ cancel[k].at = "found"
    /\ row' = [row EXCEPT ![cancel[k].exec] = "cancel_requested"]
    /\ cancel' = [cancel EXCEPT ![k] = At("marked", cancel[k].exec)]
    /\ UNCHANGED <<pc, verdict, canceled, eventVars, subVars, down, lost>>

\* The write fails, not least when the request's own context has ended:
\* Cancel returns.
CancelFails(k) ==
    /\ cancel[k].at = "found"
    /\ StoreMayFail
    /\ cancel' = [cancel EXCEPT ![k] = Idle]
    /\ UNCHANGED <<runVars, eventVars, subVars, down, lost>>

\* ar.cancelFunc().
CancelRun(k) ==
    /\ cancel[k].at = "marked"
    /\ canceled' = [canceled EXCEPT ![cancel[k].exec] = TRUE]
    /\ cancel' = [cancel EXCEPT ![k] = Idle]
    /\ UNCHANGED <<row, pc, verdict, eventVars, subVars, down, lost>>

Cancel(k) == CancelWrite(k) \/ CancelFails(k) \/ CancelRun(k)

\* The server shuts down: the manager's context ends, and with it every run's.
Shutdown ==
    /\ ~down
    /\ down' = TRUE
    /\ UNCHANGED <<runVars, eventVars, cancel, subVars, lost>>

\* Slip: Subscribe joins m.subs first and replays the log afterwards.
ReplayLate(s, e) ==
    /\ \/ sub[s] = Idle /\ stream' = stream
       \/ sub[s] = At("joined", e) /\ stream' = [stream EXCEPT ![s] = @ \o log[e]]
    /\ sub' = [sub EXCEPT ![s] = At("joined", e)]
    /\ UNCHANGED <<runVars, eventVars, cancel, down, lost>>

\* Subscribe, first half: everything the store has goes into the channel.
\* When the store fails nothing is replayed.
SubscribeReplay(s, e) ==
    /\ sub[s] = Idle
    /\ \/ Works(down) /\ stream' = [stream EXCEPT ![s] = log[e]]
       \/ StoreMayFail /\ stream' = [stream EXCEPT ![s] = <<>>]
    /\ sub' = [sub EXCEPT ![s] = At("replayed", e)]
    /\ UNCHANGED <<runVars, eventVars, cancel, down, lost>>

\* Subscribe, second half: m.subs gets the subscription, under subMu.
SubscribeJoin(s) ==
    /\ sub[s].at = "replayed"
    /\ sub' = [sub EXCEPT ![s].at = "joined"]
    /\ UNCHANGED <<runVars, eventVars, cancel, stream, down, lost>>

\* unsubscribe: close the channel under sub.mu, then leave m.subs.
UnsubscribeClose(s) ==
    /\ sub[s].at = "joined"
    /\ sub' = [sub EXCEPT ![s].at = "closed"]
    /\ UNCHANGED <<runVars, eventVars, cancel, stream, down, lost>>

UnsubscribeRemove(s) ==
    /\ sub[s].at = "closed"
    /\ sub' = [sub EXCEPT ![s].at = "left"]
    /\ UNCHANGED <<runVars, eventVars, cancel, stream, down, lost>>

Stream(s) ==
    \/ \E e \in Execs : SubscribeReplay(s, e)
    \/ SubscribeJoin(s) \/ UnsubscribeClose(s) \/ UnsubscribeRemove(s)

Next ==
    \/ \E e \in Execs : Submit(e) \/ Goroutine(e) \/ EmitProgress(e)
    \/ \E original, e \in Execs : Retry(original, e)
    \/ \E k \in Cancellers : Cancel(k) \/ \E e \in Execs : CancelLookup(k, e)
    \/ \E s \in Subscribers : Stream(s)
    \/ Shutdown

Spec == Init /\ [][Next]_vars

\* A goroutine keeps running and its runner returns.  Nothing is assumed of
\* requests, of subscribers or of the server's shutdown.
FairSpec == Spec /\ \A e \in Execs : WF_vars(Goroutine(e))

-----------------------------------------------------------------------------
\* Every run that was started ends, and its row settles for good: whatever
\* cancels and shutdowns do to the contexts involved, and whatever other
\* calls of the store fail, an execution is left "queued" or "running" only
\* if the store was away at the very last write of its goroutine.
RunSettles == \A e \in Execs : pc[e] = "created" ~> [](row[e] \in Settled \/ e \in lost)

\* The done event tells the truth: a run that ends as cancelled found the
\* user's cancel in the store, and its row keeps saying so; a run that ends
\* otherwise has the announced status unless a cancel came late or the last
\* write failed.
DoneTellsOutcome ==
    \A e \in Execs :
       /\ pc[e] \in {"decided", "announced", "written", "gone"} /\ verdict[e] = "cancel_requested"
             => row[e] = "cancel_requested"
       /\ pc[e] \in {"written", "gone"} => row[e] \in {verdict[e], "cancel_requested"} \/ e \in lost

\* The life cycle the API promises, seen through what a client can observe:
\* the row, the announcement (once emitted) and the requests still to write.
LifePhase(e) ==
    CASE pc[e] \in {"none", "orphan"} -> "absent"
      [] pc[e] \in {"created", "spawned"} -> "queued"
      [] pc[e] \in {"marked", "executing", "returned", "decided"} -> "running"
      [] pc[e] = "announced" -> "announced"
      [] pc[e] = "written" -> "closed"
      [] pc[e] = "gone" -> "gone"

Life == INSTANCE TaskLifecycle WITH
    status <- row,
    phase <- [e \in Execs |-> LifePhase(e)],
    outcome <- [e \in Execs |-> IF doneSeq[e] = 0 THEN "none" ELSE verdict[e]],
    asking <- {e \in Execs : \E k \in Cancellers : cancel[k] = At("found", e)}

\* The manager implements that life cycle: whatever cancels, retries, streams
\* and shutdowns do, one outcome is announced, it is cancelled only on a
\* user's request that is in the store, the row is closed with it or the
\* write fails, and every accepted run gets there.
ImplementsLifecycle == Life!Spec

\* A subscriber sees the events of its run in order, and none more than
\* twice (the event being emitted while it subscribes may come both by the
\* replay and by Emit).
StreamOrdered ==
    \A s \in Subscribers : \A i, j \in DOMAIN stream[s] :
       /\ i < j => stream[s][i] <= stream[s][j]
       /\ i + 1 < j => stream[s][i] < stream[s][j]

\* No event is sent on a channel that was closed, which would panic and take
\* the process down, although unsubscribe closes it before leaving m.subs.
NoSendAfterClose ==
    [][\A s \in Subscribers : sub[s].at \in {"closed", "left"} => stream'[s] = stream[s]]_vars

\* Manager.Cancel's contract in startRun: the store is the synchronization
\* point, and once it says cancel_requested the goroutine's completion "must
\* not overwrite it with failed / succeeded".
CancelHonoured ==
    [][\A e \in Execs : row[e] = "cancel_requested" => row'[e] \notin {"failed", "succeeded"}]_vars

\* Subscribe's contract: events are either replayed or delivered by Emit, so
\* a client subscribed to a finished run has its done event.  It does not
\* hold: an event between replay and join comes by neither.
StreamHasDone ==
    \A s \in Subscribers : \A e \in Execs :
       sub[s] = At("joined", e) /\ pc[e] = "gone" => Contains(stream[s], doneSeq[e])
=============================================================================
