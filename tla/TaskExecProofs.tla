--------------------------- MODULE TaskExecProofs ---------------------------
(***************************************************************************)
(* Proofs about TaskExec, for any number of executions, cancel requests    *)
(* and subscribers, and for both stores.                                   *)
(***************************************************************************)
EXTENDS TaskExec, TLAPS

-----------------------------------------------------------------------------
\* The part of the type invariant that the proofs need.
RunTyped ==
    /\ row \in [Execs -> Statuses]
    /\ pc \in [Execs -> Phases]
    /\ verdict \in [Execs -> {"none", "ok", "err"} \cup Settled]
    /\ DOMAIN cancel = Cancellers
    /\ \A k \in Cancellers : cancel[k] # Idle => cancel[k].exec \in Execs
    /\ lost \subseteq Execs

\* A run past its verdict announces a settled status.
Ending == {"decided", "announced", "written", "gone"}
VerdictSettled == \A e \in Execs : pc[e] \in Ending => verdict[e] \in Settled

\* Inductive: DoneTellsOutcome alone does not know that FinalWrite writes a
\* status, nor that a cancel request names an execution.
RunInv == RunTyped /\ VerdictSettled /\ DoneTellsOutcome

\* The safety half of RunSettles: a run that is over has a settled row, or
\* the store refused its last write.
GoneSettled == \A e \in Execs : pc[e] = "gone" => row[e] \in Settled \/ e \in lost

\* A manager without active runs satisfies the invariant.
LEMMA RunInit == Init => RunInv
  BY DEF Init, RunInv, RunTyped, VerdictSettled, DoneTellsOutcome, Ending, Statuses, Phases,
         ActivePhases, Settled, Idle

\* Steps that leave rows, phases, verdicts, cancel requests and failed writes
\* alone.
LEMMA RunQuiet ==
    ASSUME RunInv, UNCHANGED <<row, pc, verdict, cancel, lost>>
    PROVE  RunInv'
  BY DEF RunInv, RunTyped, VerdictSettled, DoneTellsOutcome

\* Steps that only move a goroutine on, not past its verdict.
LEMMA RunMoves ==
    ASSUME RunInv, NEW e \in Execs, NEW p \in Phases \ Ending, GoTo(e, p),
           UNCHANGED <<verdict, cancel, lost>>,
           NEW st \in Statuses, row' = row \/ row' = [row EXCEPT ![e] = st]
    PROVE  RunInv'
  BY DEF RunInv, RunTyped, VerdictSettled, DoneTellsOutcome, Ending, GoTo

\* Every step of a goroutine, a request or a subscriber preserves RunInv.
LEMMA RunStep == RunInv /\ [Next]_vars => RunInv'
  <1> SUFFICES ASSUME RunInv, [Next]_vars PROVE RunInv'
    OBVIOUS
  <1> USE DEF In
  <1>1. ASSUME NEW e \in Execs, Submit(e) PROVE RunInv'
    BY <1>1, RunMoves DEF Submit, Phases, Ending, Statuses, ActivePhases
  <1>2. ASSUME NEW original \in Execs, NEW e \in Execs, Retry(original, e) PROVE RunInv'
    BY <1>2, RunMoves DEF Retry, Phases, Ending, Statuses, ActivePhases
  <1>3. ASSUME NEW e \in Execs, StartRun(e) \/ MarkRunning(e) \/ EmitRunning(e) PROVE RunInv'
    BY <1>3, RunMoves DEF StartRun, MarkRunning, EmitRunning, Phases, Ending, Statuses, ActivePhases
  <1>4. ASSUME NEW e \in Execs, Deliver(e) \/ EmitProgress(e) PROVE RunInv'
    BY <1>4, RunQuiet DEF Deliver, EmitProgress, runVars
  <1>5. ASSUME NEW e \in Execs, NEW result \in {"ok", "err"}, RunnerReturns(e, result)
        PROVE  RunInv'
    BY <1>5 DEF RunnerReturns, RunInv, RunTyped, VerdictSettled, DoneTellsOutcome, Ending, GoTo,
                Phases, ActivePhases
  <1>6. ASSUME NEW e \in Execs, Decide(e) PROVE RunInv'
    <2>1. /\ verdict'[e] \in Settled
          /\ verdict'[e] = "cancel_requested" => row[e] = "cancel_requested"
          /\ \A x \in Execs \ {e} : verdict'[x] = verdict[x]
          /\ verdict' \in [Execs -> {"none", "ok", "err"} \cup Settled]
      BY <1>6 DEF Decide, RunInv, RunTyped, Settled
    <2>2. pc' = [pc EXCEPT ![e] = "decided"] /\ UNCHANGED <<row, cancel, lost>>
      BY <1>6 DEF Decide, GoTo
    <2>3. QED
      BY <2>1, <2>2 DEF RunInv, RunTyped, VerdictSettled, DoneTellsOutcome, Ending, Phases,
                        ActivePhases
  <1>7. ASSUME NEW e \in Execs, EmitDone(e) PROVE RunInv'
    BY <1>7 DEF EmitDone, RunInv, RunTyped, VerdictSettled, DoneTellsOutcome, Ending, GoTo,
                Phases, ActivePhases
  <1>8. ASSUME NEW e \in Execs, FinalWrite(e) PROVE RunInv'
    <2>1. verdict[e] \in Settled
      BY <1>8 DEF FinalWrite, RunInv, VerdictSettled, Ending
    <2>2. pc' = [pc EXCEPT ![e] = "written"] /\ pc[e] = "announced" /\ UNCHANGED <<verdict, cancel>>
      BY <1>8 DEF FinalWrite, GoTo
    <2>3. CASE row' = [row EXCEPT ![e] = verdict[e]] /\ UNCHANGED lost
      BY <2>1, <2>2, <2>3 DEF RunInv, RunTyped, VerdictSettled, DoneTellsOutcome, Ending,
                              Phases, ActivePhases, Statuses
    <2>4. CASE UNCHANGED row /\ lost' = lost \cup {e}
      BY <2>2, <2>4 DEF RunInv, RunTyped, VerdictSettled, DoneTellsOutcome, Ending, Phases,
                        ActivePhases
    <2>5. QED
      BY <1>8, <2>3, <2>4 DEF FinalWrite
  <1>9. ASSUME NEW e \in Execs, Finish(e) PROVE RunInv'
    BY <1>9 DEF Finish, RunInv, RunTyped, VerdictSettled, DoneTellsOutcome, Ending, GoTo,
                Phases, ActivePhases
  <1>10. ASSUME NEW k \in Cancellers, NEW e \in Execs, CancelLookup(k, e) PROVE RunInv'
    <2>1. /\ DOMAIN cancel' = Cancellers
          /\ \A j \in Cancellers : cancel'[j] # Idle => cancel'[j].exec \in Execs
      BY <1>10 DEF CancelLookup, RunInv, RunTyped, At
    <2>2. QED
      BY <1>10, <2>1 DEF CancelLookup, runVars, RunInv, RunTyped, VerdictSettled, DoneTellsOutcome
  <1>11. ASSUME NEW k \in Cancellers, Cancel(k) PROVE RunInv'
    <2>1. cancel[k] # Idle
      BY <1>11 DEF Cancel, CancelWrite, CancelFails, CancelRun, Idle
    <2>2. PICK e \in Execs : e = cancel[k].exec
      BY <2>1 DEF RunInv, RunTyped
    <2>3. /\ DOMAIN cancel' = Cancellers
          /\ \A j \in Cancellers : cancel'[j] # Idle => cancel'[j].exec \in Execs
      <3>1. CASE CancelWrite(k)
        <4>1. cancel' = [cancel EXCEPT ![k] = At("marked", e)] /\ At("marked", e).exec = e
          BY <2>2, <3>1 DEF CancelWrite, At
        <4>2. QED
          BY <4>1 DEF RunInv, RunTyped
      <3>2. CASE CancelFails(k) \/ CancelRun(k)
        BY <3>2 DEF CancelFails, CancelRun, RunInv, RunTyped
      <3>3. QED
        BY <1>11, <3>1, <3>2 DEF Cancel
    <2>4. row' = row \/ row' = [row EXCEPT ![e] = "cancel_requested"]
      BY <1>11, <2>2 DEF Cancel, CancelWrite, CancelFails, CancelRun, runVars
    <2>5. UNCHANGED <<pc, verdict, lost>>
      BY <1>11 DEF Cancel, CancelWrite, CancelFails, CancelRun, runVars
    <2>6. QED
      BY <2>3, <2>4, <2>5
         DEF RunInv, RunTyped, VerdictSettled, DoneTellsOutcome, Statuses, Settled
  <1>12. ASSUME NEW s \in Subscribers, Stream(s) PROVE RunInv'
    BY <1>12, RunQuiet DEF Stream, SubscribeReplay, SubscribeJoin, UnsubscribeClose,
                           UnsubscribeRemove, runVars
  <1>13. CASE Shutdown \/ UNCHANGED vars
    BY <1>13, RunQuiet DEF Shutdown, runVars, vars
  <1>14. QED
    BY <1>1, <1>2, <1>3, <1>4, <1>5, <1>6, <1>7, <1>8, <1>9, <1>10, <1>11, <1>12, <1>13
       DEF Next, Goroutine

\* The done event tells the truth in every interleaving of the goroutine
\* with cancel requests, retries and a shutdown.
THEOREM DoneTellsOutcomeHolds == Spec => []DoneTellsOutcome
  <1>1. RunInv => DoneTellsOutcome
    BY DEF RunInv
  <1>2. QED
    BY <1>1, RunInit, RunStep, PTL DEF Spec

\* No execution is left "queued" or "running" once its goroutine is gone,
\* unless the store was away at the goroutine's last write (manager.go:255),
\* whatever other calls of the store failed.
THEOREM GoneSettledHolds == Spec => []GoneSettled
  <1>1. RunInv => GoneSettled
    BY DEF RunInv, VerdictSettled, DoneTellsOutcome, GoneSettled, Ending, Settled
  <1>2. QED
    BY <1>1, RunInit, RunStep, PTL DEF Spec

-----------------------------------------------------------------------------
\* No step sends on a channel that was closed.
THEOREM NoSendAfterCloseHolds == Spec => NoSendAfterClose
<1> DEFINE A == \A s \in Subscribers : sub[s].at \in {"closed", "left"} => stream'[s] = stream[s]
<1>1. Next => A
  <2> SUFFICES ASSUME Next, NEW s \in Subscribers, sub[s].at \in {"closed", "left"}
               PROVE  stream'[s] = stream[s]
    OBVIOUS
  <2>1. ASSUME NEW e \in Execs, Deliver(e) PROVE stream'[s] = stream[s]
    <3>1. sub[s] # At("joined", e)
      BY DEF At
    <3>2. QED
      BY <2>1, <3>1 DEF Deliver
  <2>2. ASSUME NEW x \in Subscribers, Stream(x) PROVE stream'[s] = stream[s]
    <3>1. ASSUME NEW e \in Execs, SubscribeReplay(x, e) PROVE stream'[s] = stream[s]
      <4>1. s # x
        BY <3>1 DEF SubscribeReplay, Idle
      <4>2. PICK q \in {log[e], <<>>} : stream' = [stream EXCEPT ![x] = q]
        BY <3>1 DEF SubscribeReplay
      <4>3. QED
        BY <4>1, <4>2
    <3>2. QED
      BY <2>2, <3>1 DEF Stream, SubscribeJoin, UnsubscribeClose, UnsubscribeRemove
  <2>3. QED
    BY <2>1, <2>2
       DEF Next, Goroutine, Submit, Retry, StartRun, MarkRunning, EmitRunning, EmitProgress,
           RunnerReturns, Decide, EmitDone, FinalWrite, Finish, CancelLookup, Cancel, CancelWrite,
           CancelFails, CancelRun, Shutdown, subVars
<1>2. QED
  BY <1>1, PTL DEF Spec, NoSendAfterClose

-----------------------------------------------------------------------------
(* Event logs and streams. *)

\* The numbers of a run's events, the done event included.
Numbers == 1 .. MaxEvents + 1

Bounded(q, n) == \A i \in DOMAIN q : q[i] <= n
Rising(q) == \A i, j \in DOMAIN q : i < j => q[i] < q[j]

\* What StreamOrdered says of one stream.
InOrder(q) ==
    \A i, j \in DOMAIN q : /\ i < j => q[i] <= q[j]
                           /\ i + 1 < j => q[i] < q[j]

\* The last event may be n, those before it are older.
LastAtMost(q, n) == Bounded(q, n) /\ \A i \in DOMAIN q : i < Len(q) => q[i] < n

\* Appending in general.
LEMMA AppendFacts ==
    ASSUME NEW q \in Seq(Numbers), NEW n \in Numbers
    PROVE  /\ Append(q, n) \in Seq(Numbers)
           /\ Len(q) \in Nat /\ DOMAIN q = 1 .. Len(q) /\ \A i \in DOMAIN q : q[i] \in Numbers
           /\ DOMAIN Append(q, n) = 1 .. Len(q) + 1
           /\ \A i \in 1 .. Len(q) : Append(q, n)[i] = q[i]
           /\ Append(q, n)[Len(q) + 1] = n
  OBVIOUS

\* A log that is continued with the next number keeps rising.
LEMMA AppendRises ==
    ASSUME NEW q \in Seq(Numbers), NEW n \in Numbers, Bounded(q, n - 1), Rising(q)
    PROVE  Bounded(Append(q, n), n) /\ Rising(Append(q, n))
  <1>0. MaxEvents \in Nat
    BY TaskExecAssumption
  <1> DEFINE r == Append(q, n)
  <1>1. /\ Len(q) \in Nat /\ DOMAIN q = 1 .. Len(q) /\ \A i \in DOMAIN q : q[i] \in Numbers
        /\ DOMAIN r = 1 .. Len(q) + 1
        /\ \A i \in 1 .. Len(q) : r[i] = q[i]
        /\ r[Len(q) + 1] = n
    BY AppendFacts
  <1> HIDE DEF r
  <1>2. Bounded(r, n)
    <2> SUFFICES ASSUME NEW i \in 1 .. Len(q) + 1 PROVE r[i] <= n
      BY <1>1 DEF Bounded
    <2>1. CASE i \in 1 .. Len(q)
      <3>1. q[i] <= n - 1 /\ q[i] \in Numbers /\ r[i] = q[i]
        BY <1>1, <2>1 DEF Bounded
      <3>2. QED
        BY <1>0, <3>1 DEF Numbers
    <2>2. QED
      BY <1>0, <1>1, <2>1 DEF Numbers
  <1>3. Rising(r)
    <2> SUFFICES ASSUME NEW i \in 1 .. Len(q) + 1, NEW j \in 1 .. Len(q) + 1, i < j PROVE r[i] < r[j]
      BY <1>1 DEF Rising
    <2>1. i \in 1 .. Len(q)
      BY <1>1
    <2>2. CASE j \in 1 .. Len(q)
      BY <1>1, <2>1, <2>2 DEF Rising
    <2>3. CASE j = Len(q) + 1
      <3>1. q[i] <= n - 1 /\ q[i] \in Numbers /\ r[i] = q[i] /\ r[j] = n
        BY <1>1, <2>1, <2>3 DEF Bounded
      <3>2. QED
        BY <1>0, <3>1 DEF Numbers
    <2>4. QED
      BY <1>1, <2>2, <2>3
  <1>4. QED
    BY <1>2, <1>3 DEF r

\* An event that is delivered late, or a second time, keeps the order.
LEMMA AppendInOrder ==
    ASSUME NEW q \in Seq(Numbers), NEW n \in Numbers, LastAtMost(q, n), InOrder(q)
    PROVE  Bounded(Append(q, n), n) /\ InOrder(Append(q, n))
  <1>0. MaxEvents \in Nat
    BY TaskExecAssumption
  <1> DEFINE r == Append(q, n)
  <1>1. /\ Len(q) \in Nat /\ DOMAIN q = 1 .. Len(q) /\ \A i \in DOMAIN q : q[i] \in Numbers
        /\ DOMAIN r = 1 .. Len(q) + 1
        /\ \A i \in 1 .. Len(q) : r[i] = q[i]
        /\ r[Len(q) + 1] = n
    BY AppendFacts
  <1> HIDE DEF r
  <1>2. Bounded(r, n)
    BY <1>0, <1>1 DEF Bounded, LastAtMost, Numbers
  <1>3. InOrder(r)
    BY <1>0, <1>1 DEF Bounded, LastAtMost, InOrder, Numbers
  <1>4. QED
    BY <1>2, <1>3 DEF r

\* A replayed log is in order, and only its last event can be the newest.
LEMMA LogInOrder ==
    ASSUME NEW q \in Seq(Numbers), NEW n \in Nat, Bounded(q, n), Rising(q)
    PROVE  InOrder(q) /\ LastAtMost(q, n)
  <1>0. MaxEvents \in Nat
    BY TaskExecAssumption
  <1>1. Len(q) \in Nat /\ DOMAIN q = 1 .. Len(q) /\ \A i \in DOMAIN q : q[i] \in Numbers
    OBVIOUS
  <1>2. InOrder(q)
    BY <1>0, <1>1 DEF Rising, InOrder, Numbers
  <1>3. LastAtMost(q, n)
    <2> SUFFICES ASSUME NEW i \in DOMAIN q, i < Len(q) PROVE q[i] < n
      BY DEF LastAtMost
    <2>1. q[i] < q[Len(q)] /\ q[Len(q)] <= n
      BY <1>1 DEF Rising, Bounded
    <2>2. QED
      BY <1>0, <1>1, <2>1 DEF Numbers
  <1>4. QED
    BY <1>2, <1>3

-----------------------------------------------------------------------------
\* The events of a run: numbered from one, the done event last, the one that
\* is being delivered the newest, and the log a rising part of them.
EventsInv ==
    /\ seq \in [Execs -> 0 .. MaxEvents + 1]
    /\ pending \in [Execs -> 0 .. MaxEvents + 1]
    /\ doneSeq \in [Execs -> 0 .. MaxEvents + 1]
    /\ log \in [Execs -> Seq(Numbers)]
    /\ \A e \in Execs :
          /\ row[e] = "none" => pc[e] = "none"
          /\ pc[e] \in {"none", "created", "spawned", "marked", "orphan"} => seq[e] = 0
          /\ pc[e] \in {"executing", "returned", "decided"} => seq[e] <= MaxEvents
          /\ doneSeq[e] = 0 <=> pc[e] \notin {"announced", "written", "gone"}
          /\ pending[e] \in {0, seq[e]}
          /\ Bounded(log[e], seq[e]) /\ Rising(log[e])

\* Nothing has been emitted yet.
LEMMA EventsInit == Init => EventsInv
  <1>1. <<>> \in Seq(Numbers) /\ Bounded(<<>>, 0) /\ Rising(<<>>)
    BY DEF Bounded, Rising
  <1>2. QED
    BY <1>1, TaskExecAssumption DEF Init, EventsInv

\* Steps that emit nothing, and neither settle nor take back a phase.
LEMMA EventsQuiet ==
    ASSUME EventsInv, UNCHANGED eventVars, NEW e \in Execs,
           \A x \in Execs \ {e} : pc'[x] = pc[x] /\ row'[x] = row[x],
           row'[e] = "none" => pc'[e] = "none",
           pc'[e] \in {"none", "created", "spawned", "marked", "orphan"} => seq[e] = 0,
           pc'[e] \in {"executing", "returned", "decided"} => seq[e] <= MaxEvents,
           doneSeq[e] = 0 <=> pc'[e] \notin {"announced", "written", "gone"}
    PROVE  EventsInv'
  BY DEF EventsInv, eventVars

\* The first half of Emit.
LEMMA EventsAppend ==
    ASSUME EventsInv, NEW e \in Execs, pending[e] = 0, seq[e] <= MaxEvents, AppendEvent(e),
           row' = row, \A x \in Execs \ {e} : pc'[x] = pc[x] /\ doneSeq'[x] = doneSeq[x],
           doneSeq' \in [Execs -> 0 .. MaxEvents + 1],
           \/ pc'[e] = "executing" /\ seq[e] < MaxEvents /\ doneSeq'[e] = 0
           \/ pc'[e] = "announced" /\ doneSeq'[e] = seq[e] + 1,
           row[e] # "none"
    PROVE  EventsInv' /\ seq'[e] = seq[e] + 1 /\ pending'[e] = seq'[e]
           /\ \A x \in Execs \ {e} : seq'[x] = seq[x] /\ pending'[x] = pending[x]
  <1>0. MaxEvents \in Nat
    BY TaskExecAssumption
  <1>1. /\ seq \in [Execs -> 0 .. MaxEvents + 1] /\ pending \in [Execs -> 0 .. MaxEvents + 1]
        /\ log \in [Execs -> Seq(Numbers)] /\ Bounded(log[e], seq[e]) /\ Rising(log[e])
    BY DEF EventsInv
  <1> DEFINE n == seq[e] + 1
  <1>2. n \in Numbers /\ n - 1 = seq[e] /\ n \in 1 .. MaxEvents + 1
    BY <1>0, <1>1 DEF Numbers
  <1>3. /\ seq' = [seq EXCEPT ![e] = n] /\ pending' = [pending EXCEPT ![e] = n]
        /\ log' = log \/ log' = [log EXCEPT ![e] = Append(@, n)]
    BY <1>1 DEF AppendEvent
  <1>4. /\ Append(log[e], n) \in Seq(Numbers)
        /\ Bounded(Append(log[e], n), n) /\ Rising(Append(log[e], n))
    <2>1. log[e] \in Seq(Numbers)
      BY <1>1
    <2> HIDE DEF n
    <2>2. QED
      BY <1>1, <1>2, <2>1, AppendFacts, AppendRises
  <1>5. Bounded(log[e], n)
    BY <1>0, <1>1, <1>2 DEF Bounded, Numbers
  <1>6. n # 0 /\ n <= MaxEvents + 1
    BY <1>0, <1>2
  <1>7. pc'[e] = "executing" => n <= MaxEvents
    BY <1>0, <1>1
  <1>8. pc'[e] \in {"executing", "announced"}
    OBVIOUS
  <1>9. doneSeq'[e] = 0 <=> pc'[e] \notin {"announced", "written", "gone"}
    BY <1>6
  <1> HIDE DEF n
  <1>10. /\ seq' \in [Execs -> 0 .. MaxEvents + 1] /\ pending' \in [Execs -> 0 .. MaxEvents + 1]
         /\ log' \in [Execs -> Seq(Numbers)]
         /\ seq'[e] = n /\ pending'[e] = n /\ Bounded(log'[e], n) /\ Rising(log'[e])
         /\ \A x \in Execs \ {e} : seq'[x] = seq[x] /\ pending'[x] = pending[x] /\ log'[x] = log[x]
    <2>1. /\ seq' \in [Execs -> 0 .. MaxEvents + 1] /\ pending' \in [Execs -> 0 .. MaxEvents + 1]
          /\ seq'[e] = n /\ pending'[e] = n
          /\ \A x \in Execs \ {e} : seq'[x] = seq[x] /\ pending'[x] = pending[x]
      BY <1>0, <1>1, <1>2, <1>3
    <2>2. CASE log' = log
      BY <1>1, <1>5, <2>1, <2>2
    <2>3. CASE log' = [log EXCEPT ![e] = Append(@, n)]
      <3>1. log'[e] = Append(log[e], n) /\ \A x \in Execs \ {e} : log'[x] = log[x]
        BY <1>1, <2>3
      <3>2. log' \in [Execs -> Seq(Numbers)]
        BY <1>1, <1>4, <2>3
      <3>3. QED
        BY <1>4, <2>1, <3>1, <3>2
    <2>4. QED
      BY <1>3, <2>2, <2>3
  <1>11. ASSUME NEW x \in Execs
         PROVE  /\ row'[x] = "none" => pc'[x] = "none"
                /\ pc'[x] \in {"none", "created", "spawned", "marked", "orphan"} => seq'[x] = 0
                /\ pc'[x] \in {"executing", "returned", "decided"} => seq'[x] <= MaxEvents
                /\ doneSeq'[x] = 0 <=> pc'[x] \notin {"announced", "written", "gone"}
                /\ pending'[x] \in {0, seq'[x]}
                /\ Bounded(log'[x], seq'[x]) /\ Rising(log'[x])
    <2>1. CASE x = e
      BY <1>7, <1>8, <1>9, <1>10, <2>1
    <2>2. CASE x # e
      BY <1>10, <2>2 DEF EventsInv
    <2>3. QED
      BY <2>1, <2>2
  <1>12. EventsInv'
    BY <1>10, <1>11 DEF EventsInv
  <1>13. QED
    BY <1>10, <1>12 DEF n

\* Steps that leave the events, the rows and the phases alone.
LEMMA EventsStay == ASSUME EventsInv, UNCHANGED <<eventVars, row, pc>> PROVE EventsInv'
  BY DEF EventsInv, eventVars

\* Every step preserves the invariant on the events.
LEMMA EventsStep == ASSUME EventsInv, RunInv, [Next]_vars PROVE EventsInv'
  <1>0. /\ row \in [Execs -> Statuses] /\ pc \in [Execs -> Phases] /\ MaxEvents \in Nat \ {0}
        /\ verdict \in [Execs -> {"none", "ok", "err"} \cup Settled]
    BY TaskExecAssumption DEF RunInv, RunTyped
  <1>1. ASSUME NEW e \in Execs, Submit(e) \/ \E original \in Execs : Retry(original, e) PROVE EventsInv'
    <2>1. /\ row[e] = "none" /\ row' = [row EXCEPT ![e] = "queued"] /\ UNCHANGED eventVars
          /\ pc' = [pc EXCEPT ![e] = "created"] \/ pc' = [pc EXCEPT ![e] = "orphan"]
      BY <1>1 DEF Submit, Retry, GoTo
    <2>2. seq[e] = 0 /\ doneSeq[e] = 0
      BY <2>1 DEF EventsInv
    <2>3. \A x \in Execs \ {e} : pc'[x] = pc[x] /\ row'[x] = row[x]
      BY <1>0, <2>1
    <2>4. pc'[e] \in {"created", "orphan"} /\ row'[e] = "queued"
      BY <1>0, <2>1
    <2>5. QED
      BY <2>1, <2>2, <2>3, <2>4, EventsQuiet
  <1>2. ASSUME NEW e \in Execs, StartRun(e) \/ MarkRunning(e) PROVE EventsInv'
    <2>1. /\ \/ pc[e] = "created" /\ pc' = [pc EXCEPT ![e] = "spawned"]
             \/ pc[e] = "spawned" /\ pc' = [pc EXCEPT ![e] = "marked"]
          /\ row' = row \/ row' = [row EXCEPT ![e] = "running"]
          /\ UNCHANGED eventVars
      BY <1>2 DEF StartRun, MarkRunning, In, GoTo
    <2>2. seq[e] = 0 /\ doneSeq[e] = 0 /\ row[e] # "none"
      BY <2>1 DEF EventsInv
    <2>3. \A x \in Execs \ {e} : pc'[x] = pc[x] /\ row'[x] = row[x]
      BY <1>0, <2>1
    <2>4. pc'[e] \in {"spawned", "marked"} /\ row'[e] # "none"
      BY <1>0, <2>1, <2>2
    <2>5. QED
      BY <2>1, <2>2, <2>3, <2>4, EventsQuiet
  <1>3. ASSUME NEW e \in Execs, Deliver(e) PROVE EventsInv'
    <2>1. pending' = [pending EXCEPT ![e] = 0] /\ UNCHANGED <<row, pc, seq, doneSeq, log>>
      BY <1>3 DEF Deliver, runVars
    <2>2. QED
      BY <1>0, <2>1 DEF EventsInv
  <1>4. ASSUME NEW e \in Execs, EmitRunning(e) PROVE EventsInv'
    <2>1. /\ pc[e] = "marked" /\ pending[e] = 0 /\ AppendEvent(e)
          /\ pc' = [pc EXCEPT ![e] = "executing"] /\ UNCHANGED <<row, doneSeq>>
      BY <1>4 DEF EmitRunning, In, GoTo
    <2>2. seq[e] = 0 /\ doneSeq[e] = 0 /\ row[e] # "none" /\ doneSeq \in [Execs -> 0 .. MaxEvents + 1]
      BY <2>1 DEF EventsInv
    <2>3. pc'[e] = "executing" /\ \A x \in Execs \ {e} : pc'[x] = pc[x]
      BY <1>0, <2>1
    <2>4. seq[e] <= MaxEvents /\ seq[e] < MaxEvents
      BY <1>0, <2>2
    <2>5. QED
      BY <2>1, <2>2, <2>3, <2>4, EventsAppend
  <1>5. ASSUME NEW e \in Execs, EmitProgress(e) PROVE EventsInv'
    <2>1. /\ pc[e] = "executing" /\ pending[e] = 0 /\ AppendEvent(e) /\ seq[e] < MaxEvents
          /\ UNCHANGED <<row, pc, doneSeq>>
      BY <1>5 DEF EmitProgress, In, runVars
    <2>2. /\ doneSeq[e] = 0 /\ row[e] # "none" /\ doneSeq \in [Execs -> 0 .. MaxEvents + 1]
          /\ seq[e] <= MaxEvents
      BY <2>1 DEF EventsInv
    <2>3. QED
      BY <2>1, <2>2, EventsAppend
  <1>6. ASSUME NEW e \in Execs, EmitDone(e) PROVE EventsInv'
    <2>1. /\ pc[e] = "decided" /\ pending[e] = 0 /\ AppendEvent(e)
          /\ doneSeq' = [doneSeq EXCEPT ![e] = seq[e] + 1]
          /\ pc' = [pc EXCEPT ![e] = "announced"] /\ UNCHANGED row
      BY <1>6 DEF EmitDone, In, GoTo
    <2>2. /\ seq[e] <= MaxEvents /\ row[e] # "none" /\ seq \in [Execs -> 0 .. MaxEvents + 1]
          /\ doneSeq \in [Execs -> 0 .. MaxEvents + 1]
      BY <2>1 DEF EventsInv
    <2>3. pc'[e] = "announced" /\ \A x \in Execs \ {e} : pc'[x] = pc[x]
      BY <1>0, <2>1
    <2>4. seq[e] + 1 \in 0 .. MaxEvents + 1
      BY <1>0, <2>2
    <2>5. /\ doneSeq' \in [Execs -> 0 .. MaxEvents + 1] /\ doneSeq'[e] = seq[e] + 1
          /\ \A x \in Execs \ {e} : doneSeq'[x] = doneSeq[x]
      BY <2>1, <2>2, <2>4
    <2>6. QED
      BY <2>1, <2>2, <2>3, <2>5, EventsAppend
  <1>7. ASSUME NEW e \in Execs, Decide(e) \/ \E result \in {"ok", "err"} : RunnerReturns(e, result)
        PROVE  EventsInv'
    <2>1. /\ \/ pc[e] = "executing" /\ pc' = [pc EXCEPT ![e] = "returned"]
             \/ pc[e] = "returned" /\ pc' = [pc EXCEPT ![e] = "decided"]
          /\ UNCHANGED <<row, eventVars>>
      BY <1>7 DEF RunnerReturns, Decide, In, GoTo
    <2>2. seq[e] <= MaxEvents /\ doneSeq[e] = 0 /\ row[e] # "none"
      BY <2>1 DEF EventsInv
    <2>3. pc'[e] \in {"returned", "decided"} /\ \A x \in Execs \ {e} : pc'[x] = pc[x]
      BY <1>0, <2>1
    <2>4. QED
      BY <2>1, <2>2, <2>3, EventsQuiet
  <1>8. ASSUME NEW e \in Execs, FinalWrite(e) \/ Finish(e) PROVE EventsInv'
    <2>1. /\ \/ pc[e] = "announced" /\ pc' = [pc EXCEPT ![e] = "written"]
             \/ pc[e] = "written" /\ pc' = [pc EXCEPT ![e] = "gone"]
          /\ row' = row \/ row' = [row EXCEPT ![e] = verdict[e]]
          /\ UNCHANGED eventVars
      BY <1>8 DEF FinalWrite, Finish, In, GoTo
    <2>2. doneSeq[e] # 0 /\ row[e] # "none"
      BY <2>1 DEF EventsInv
    <2>3. verdict[e] \in Settled
      BY <2>1 DEF RunInv, VerdictSettled, Ending
    <2>4. \A x \in Execs \ {e} : pc'[x] = pc[x] /\ row'[x] = row[x]
      BY <1>0, <2>1
    <2>5. pc'[e] \in {"written", "gone"} /\ row'[e] # "none"
      BY <1>0, <2>1, <2>2, <2>3 DEF Settled
    <2>6. QED
      BY <2>1, <2>2, <2>4, <2>5, EventsQuiet
  <1>9. ASSUME NEW k \in Cancellers, CancelWrite(k) PROVE EventsInv'
    <2>1. PICK e \in Execs : e = cancel[k].exec
      BY <1>9 DEF CancelWrite, RunInv, RunTyped, Idle
    <2>2. row' = [row EXCEPT ![e] = "cancel_requested"] /\ UNCHANGED <<pc, eventVars>>
      BY <1>9, <2>1 DEF CancelWrite
    <2>3. \A x \in Execs : row'[x] = "none" => row[x] = "none"
      BY <1>0, <2>2
    <2>4. QED
      BY <2>2, <2>3 DEF EventsInv, eventVars
  <1>10. ASSUME NEW k \in Cancellers,
                CancelFails(k) \/ CancelRun(k) \/ \E e \in Execs : CancelLookup(k, e)
         PROVE  EventsInv'
    BY <1>10, EventsStay DEF CancelFails, CancelRun, CancelLookup, runVars
  <1>11. ASSUME NEW s \in Subscribers, Stream(s) PROVE EventsInv'
    BY <1>11, EventsStay DEF Stream, SubscribeReplay, SubscribeJoin, UnsubscribeClose,
                             UnsubscribeRemove, runVars
  <1>12. CASE Shutdown \/ UNCHANGED vars
    BY <1>12, EventsStay DEF Shutdown, runVars, eventVars, vars
  <1>13. QED
    BY <1>1, <1>2, <1>3, <1>4, <1>5, <1>6, <1>7, <1>8, <1>9, <1>10, <1>11, <1>12
       DEF Next, Goroutine, Cancel

-----------------------------------------------------------------------------
\* What is in a subscriber's channel: events of its run, in order, none newer
\* than the newest, and that one only as the last while it is being delivered.
Places == {"replayed", "joined", "closed", "left"}

Fed(s, e) ==
    /\ Bounded(stream[s], seq[e])
    /\ pending[e] # 0 => LastAtMost(stream[s], seq[e])

StreamInv ==
    /\ DOMAIN sub = Subscribers
    /\ \A s \in Subscribers : sub[s] = Idle \/ \E e \in Execs, p \in Places : sub[s] = At(p, e)
    /\ stream \in [Subscribers -> Seq(Numbers)]
    /\ \A s \in Subscribers :
          /\ InOrder(stream[s])
          /\ \A e \in Execs : sub[s] \in {At("replayed", e), At("joined", e)} => Fed(s, e)

\* A place is where it is, and nowhere else.
LEMMA AtFacts ==
    ASSUME NEW p \in Places, NEW e
    PROVE  /\ At(p, e).at = p /\ At(p, e).exec = e /\ At(p, e) # Idle
           /\ \A q \in Places : [At(p, e) EXCEPT !.at = q] = At(q, e)
  BY DEF At, Idle, Places

\* There are no subscribers yet.
LEMMA StreamInit == Init => StreamInv
  <1>1. <<>> \in Seq(Numbers) /\ InOrder(<<>>)
    BY DEF InOrder
  <1>2. ASSUME NEW e PROVE Idle \notin {At("replayed", e), At("joined", e)}
    BY AtFacts DEF Places
  <1>3. QED
    BY <1>1, <1>2 DEF Init, StreamInv

\* An event that is not there yet is newer than all there are.
LEMMA BoundedLater ==
    ASSUME NEW q \in Seq(Numbers), NEW n \in Nat, Bounded(q, n)
    PROVE  Bounded(q, n + 1) /\ LastAtMost(q, n + 1)
  <1>1. \A i \in DOMAIN q : q[i] \in Nat /\ q[i] <= n
    BY TaskExecAssumption DEF Bounded, Numbers
  <1>2. QED
    BY <1>1 DEF Bounded, LastAtMost

\* Steps that touch neither events nor streams.
LEMMA StreamQuiet == ASSUME StreamInv, UNCHANGED <<subVars, seq, pending>> PROVE StreamInv'
  BY DEF StreamInv, Fed, subVars

\* A new event: every stream of its run is behind it.
LEMMA StreamAppend ==
    ASSUME EventsInv, StreamInv, NEW e \in Execs, pending[e] = 0, AppendEvent(e), UNCHANGED subVars
    PROVE  StreamInv'
  <1>1. /\ seq'[e] = seq[e] + 1 /\ seq[e] \in Nat
        /\ \A x \in Execs \ {e} : seq'[x] = seq[x] /\ pending'[x] = pending[x]
    BY TaskExecAssumption DEF EventsInv, AppendEvent
  <1>2. UNCHANGED <<sub, stream>>
    BY DEF subVars
  <1>3. ASSUME NEW s \in Subscribers, NEW x \in Execs, sub[s] \in {At("replayed", x), At("joined", x)}
        PROVE  Fed(s, x)'
    <2>1. Fed(s, x) /\ stream[s] \in Seq(Numbers)
      BY <1>3 DEF StreamInv
    <2>2. CASE x = e
      <3>1. Bounded(stream[s], seq[e] + 1) /\ LastAtMost(stream[s], seq[e] + 1)
        BY <1>1, <2>1, <2>2, BoundedLater DEF Fed
      <3>2. QED
        BY <1>1, <1>2, <2>2, <3>1 DEF Fed
    <2>3. CASE x # e
      BY <1>1, <1>2, <2>1, <2>3 DEF Fed
    <2>4. QED
      BY <2>2, <2>3
  <1>4. QED
    BY <1>2, <1>3 DEF StreamInv

\* The new event reaches those that have joined.
LEMMA StreamDeliver ==
    ASSUME EventsInv, StreamInv, NEW e \in Execs, Deliver(e)
    PROVE  StreamInv'
  <1>1. /\ pending[e] # 0 /\ pending' = [pending EXCEPT ![e] = 0] /\ UNCHANGED <<seq, sub>>
        /\ stream' = [s \in Subscribers |->
                        IF sub[s] = At("joined", e) THEN Append(stream[s], pending[e]) ELSE stream[s]]
    BY DEF Deliver
  <1>2. pending[e] = seq[e] /\ pending[e] \in Numbers /\ pending'[e] = 0
        /\ \A x \in Execs \ {e} : pending'[x] = pending[x]
    BY <1>1, TaskExecAssumption DEF EventsInv, Numbers
  <1> DEFINE n == pending[e]
  <1>3. ASSUME NEW s \in Subscribers
        PROVE  /\ stream'[s] \in Seq(Numbers) /\ InOrder(stream'[s])
               /\ \A x \in Execs : sub[s] \in {At("replayed", x), At("joined", x)} => Fed(s, x)'
    <2>0. stream[s] \in Seq(Numbers) /\ InOrder(stream[s])
      BY DEF StreamInv
    <2>1. CASE sub[s] = At("joined", e)
      <3>1. Fed(s, e)
        BY <2>1 DEF StreamInv
      <3>2. LastAtMost(stream[s], n)
        BY <1>1, <1>2, <3>1 DEF Fed
      <3>3. stream'[s] = Append(stream[s], n)
        BY <1>1, <2>1
      <3>4. n \in Numbers
        BY <1>2
      <3> HIDE DEF n
      <3>5. /\ Append(stream[s], n) \in Seq(Numbers)
            /\ Bounded(Append(stream[s], n), n) /\ InOrder(Append(stream[s], n))
        BY <2>0, <3>2, <3>4, AppendFacts, AppendInOrder
      <3>6. Bounded(stream'[s], seq'[e])
        BY <1>1, <1>2, <3>3, <3>5 DEF n
      <3>7. ASSUME NEW x \in Execs, sub[s] \in {At("replayed", x), At("joined", x)} PROVE x = e
        BY <2>1, <3>7, AtFacts DEF Places
      <3>8. Fed(s, e)'
        BY <1>2, <3>6 DEF Fed
      <3>9. QED
        BY <3>3, <3>5, <3>7, <3>8
    <2>2. CASE sub[s] # At("joined", e)
      <3>1. stream'[s] = stream[s]
        BY <1>1, <2>2
      <3>2. ASSUME NEW x \in Execs, Fed(s, x) PROVE Fed(s, x)'
        BY <1>1, <1>2, <3>1, <3>2 DEF Fed
      <3>3. QED
        BY <2>0, <3>1, <3>2 DEF StreamInv
    <2>3. QED
      BY <2>1, <2>2
  <1>4. stream' \in [Subscribers -> Seq(Numbers)]
    BY <1>1, <1>3
  <1>5. QED
    BY <1>1, <1>3, <1>4 DEF StreamInv

\* A subscriber takes its next step.
LEMMA StreamMoves ==
    ASSUME EventsInv, StreamInv, NEW s \in Subscribers, Stream(s)
    PROVE  StreamInv'
  <1>1. UNCHANGED <<seq, pending>>
    BY DEF Stream, SubscribeReplay, SubscribeJoin, UnsubscribeClose, UnsubscribeRemove, eventVars
  <1>2. ASSUME NEW e \in Execs, SubscribeReplay(s, e) PROVE StreamInv'
    <2>1. PICK q \in {log[e], <<>>} :
             sub' = [sub EXCEPT ![s] = At("replayed", e)] /\ stream' = [stream EXCEPT ![s] = q]
      BY <1>2 DEF SubscribeReplay
    <2>2. q \in Seq(Numbers) /\ Bounded(q, seq[e]) /\ Rising(q) /\ seq[e] \in Nat
      <3>1. /\ log[e] \in Seq(Numbers) /\ Bounded(log[e], seq[e]) /\ Rising(log[e]) /\ seq[e] \in Nat
        BY TaskExecAssumption DEF EventsInv
      <3>2. <<>> \in Seq(Numbers) /\ Bounded(<<>>, seq[e]) /\ Rising(<<>>)
        BY DEF Bounded, Rising
      <3>3. QED
        BY <3>1, <3>2
    <2>4. InOrder(q) /\ LastAtMost(q, seq[e])
      BY <2>2, LogInOrder
    <2>5. /\ DOMAIN sub' = Subscribers /\ stream' \in [Subscribers -> Seq(Numbers)]
          /\ sub'[s] = At("replayed", e) /\ stream'[s] = q
          /\ \A t \in Subscribers \ {s} : sub'[t] = sub[t] /\ stream'[t] = stream[t]
      BY <2>1, <2>2 DEF StreamInv
    <2>6. ASSUME NEW x \in Execs, At("replayed", e) \in {At("replayed", x), At("joined", x)} PROVE x = e
      BY <2>6, AtFacts DEF Places
    <2>7. Fed(s, e)'
      BY <1>1, <2>2, <2>4, <2>5 DEF Fed
    <2>8. "replayed" \in Places
      BY DEF Places
    <2>9. QED
      BY <1>1, <2>4, <2>5, <2>6, <2>7, <2>8 DEF StreamInv, Fed
  <1>3. ASSUME NEW p \in Places, NEW q \in Places, sub[s].at = p, sub' = [sub EXCEPT ![s].at = q],
               UNCHANGED stream, q \in {"replayed", "joined"} => p = "replayed"
        PROVE  StreamInv'
    <2>1. PICK e \in Execs : sub[s] = At(p, e)
      <3>1. sub[s] # Idle
        BY <1>3 DEF Idle, Places
      <3>2. QED
        BY <1>3, <3>1, AtFacts DEF StreamInv
    <2>2. /\ DOMAIN sub' = Subscribers /\ sub'[s] = At(q, e)
          /\ \A t \in Subscribers \ {s} : sub'[t] = sub[t]
      BY <1>3, <2>1, AtFacts DEF StreamInv
    <2>3. ASSUME NEW x \in Execs, At(q, e) \in {At("replayed", x), At("joined", x)}
          PROVE  x = e /\ p = "replayed"
      BY <1>3, <2>3, AtFacts DEF Places
    <2>4. p = "replayed" => Fed(s, e)
      BY <2>1 DEF StreamInv
    <2>5. QED
      BY <1>1, <1>3, <2>2, <2>3, <2>4 DEF StreamInv, Fed
  <1>4. CASE SubscribeJoin(s)
    BY <1>3, <1>4 DEF SubscribeJoin, Places
  <1>5. CASE UnsubscribeClose(s)
    BY <1>3, <1>5 DEF UnsubscribeClose, Places
  <1>6. CASE UnsubscribeRemove(s)
    BY <1>3, <1>6 DEF UnsubscribeRemove, Places
  <1>7. QED
    BY <1>2, <1>4, <1>5, <1>6 DEF Stream

\* Every step preserves the invariant on the streams.
LEMMA StreamStep == ASSUME EventsInv, StreamInv, [Next]_vars PROVE StreamInv'
  <1>1. ASSUME NEW e \in Execs, EmitRunning(e) \/ EmitProgress(e) \/ EmitDone(e) PROVE StreamInv'
    <2>1. pending[e] = 0 /\ AppendEvent(e) /\ UNCHANGED subVars
      BY <1>1 DEF EmitRunning, EmitProgress, EmitDone, In
    <2>2. QED
      BY <2>1, StreamAppend
  <1>2. ASSUME NEW e \in Execs, Deliver(e) PROVE StreamInv'
    BY <1>2, StreamDeliver
  <1>3. ASSUME NEW s \in Subscribers, Stream(s) PROVE StreamInv'
    BY <1>3, StreamMoves
  <1>4. ASSUME NEW e \in Execs,
               \/ Submit(e) \/ (\E original \in Execs : Retry(original, e)) \/ StartRun(e)
               \/ MarkRunning(e) \/ (\E result \in {"ok", "err"} : RunnerReturns(e, result))
               \/ Decide(e) \/ FinalWrite(e) \/ Finish(e)
        PROVE  StreamInv'
    BY <1>4, StreamQuiet DEF Submit, Retry, StartRun, MarkRunning, RunnerReturns, Decide,
                             FinalWrite, Finish, eventVars
  <1>5. ASSUME NEW k \in Cancellers, Cancel(k) \/ \E e \in Execs : CancelLookup(k, e) PROVE StreamInv'
    BY <1>5, StreamQuiet DEF Cancel, CancelWrite, CancelFails, CancelRun, CancelLookup, eventVars
  <1>6. CASE Shutdown \/ UNCHANGED vars
    BY <1>6, StreamQuiet DEF Shutdown, vars, eventVars, subVars
  <1>7. QED
    BY <1>1, <1>2, <1>3, <1>4, <1>5, <1>6 DEF Next, Goroutine

\* A subscriber sees the events of its run in order and none more than twice,
\* whatever the runs, the requests and the other subscribers do.
THEOREM StreamOrderedHolds == Spec => []StreamOrdered
  <1>1. RunInv /\ EventsInv /\ [Next]_vars => EventsInv'
    BY EventsStep
  <1>2. EventsInv /\ StreamInv /\ [Next]_vars => StreamInv'
    BY StreamStep
  <1>3. StreamInv => StreamOrdered
    BY DEF StreamInv, InOrder, StreamOrdered
  <1>4. QED
    BY <1>1, <1>2, <1>3, RunInit, RunStep, EventsInit, StreamInit, PTL DEF Spec

-----------------------------------------------------------------------------
\* Where the cancel requests are, and the contexts.
CancelInv ==
    /\ DOMAIN cancel = Cancellers
    /\ \A k \in Cancellers :
          cancel[k] = Idle \/ \E e \in Execs : cancel[k] \in {At("found", e), At("marked", e)}
    /\ canceled \in [Execs -> BOOLEAN]
    /\ down \in BOOLEAN

\* No request, nothing cancelled, the server up.
LEMMA CancelInit == Init => CancelInv
  <1> SUFFICES ASSUME Init PROVE CancelInv
    OBVIOUS
  <1>1. down \in BOOLEAN
    BY Zenon DEF Init
  <1>2. QED
    BY <1>1 DEF Init, CancelInv

\* A request is where it is, and names one execution.
LEMMA RequestFacts ==
    ASSUME NEW e
    PROVE  /\ At("found", e).at = "found" /\ At("marked", e).at = "marked"
           /\ At("found", e).exec = e /\ At("marked", e).exec = e
           /\ Idle.at = "idle" /\ At("found", e) # Idle /\ At("marked", e) # Idle
  BY DEF At, Idle

\* Every step keeps requests and contexts typed.
LEMMA CancelStep == ASSUME CancelInv, [Next]_vars PROVE CancelInv'
  <1>1. ASSUME NEW k \in Cancellers, NEW e \in Execs, CancelLookup(k, e) PROVE CancelInv'
    BY <1>1 DEF CancelLookup, CancelInv, runVars
  <1>2. ASSUME NEW k \in Cancellers, Cancel(k) PROVE CancelInv'
    <2>1. PICK e \in Execs : cancel[k] \in {At("found", e), At("marked", e)}
      <3>1. cancel[k] # Idle
        BY <1>2, RequestFacts DEF Cancel, CancelWrite, CancelFails, CancelRun
      <3>2. QED
        BY <3>1 DEF CancelInv
    <2>2. cancel[k].exec = e
      BY <2>1, RequestFacts
    <2>3. /\ \/ cancel' = [cancel EXCEPT ![k] = At("marked", e)]
             \/ cancel' = [cancel EXCEPT ![k] = Idle]
          /\ canceled' = canceled \/ canceled' = [canceled EXCEPT ![e] = TRUE]
          /\ down' = down
      BY <1>2, <2>2 DEF Cancel, CancelWrite, CancelFails, CancelRun, runVars
    <2>4. canceled' \in [Execs -> BOOLEAN]
      BY <2>3 DEF CancelInv
    <2>5. /\ DOMAIN cancel' = Cancellers
          /\ \A j \in Cancellers \ {k} : cancel'[j] = cancel[j]
          /\ cancel'[k] = Idle \/ cancel'[k] = At("marked", e)
      BY <2>3 DEF CancelInv
    <2>6. QED
      BY <2>3, <2>4, <2>5 DEF CancelInv
  <1>3. ASSUME NEW e \in Execs, Finish(e) PROVE CancelInv'
    <2>1. canceled' = [canceled EXCEPT ![e] = TRUE] /\ UNCHANGED <<cancel, down>>
      BY <1>3 DEF Finish
    <2>2. QED
      BY <2>1 DEF CancelInv
  <1>4. CASE Shutdown
    <2>1. down' \in BOOLEAN
      BY <1>4, Zenon DEF Shutdown
    <2>2. UNCHANGED <<cancel, canceled>>
      BY <1>4 DEF Shutdown, runVars
    <2>3. QED
      BY <2>1, <2>2 DEF CancelInv
  <1>5. ASSUME UNCHANGED <<canceled, cancel, down>> PROVE CancelInv'
    BY <1>5 DEF CancelInv
  <1>6. ASSUME NEW e \in Execs,
               \/ Submit(e) \/ (\E original \in Execs : Retry(original, e)) \/ StartRun(e)
               \/ MarkRunning(e) \/ EmitRunning(e) \/ EmitProgress(e) \/ Deliver(e)
               \/ (\E result \in {"ok", "err"} : RunnerReturns(e, result))
               \/ Decide(e) \/ EmitDone(e) \/ FinalWrite(e)
        PROVE  CancelInv'
    BY <1>5, <1>6 DEF Submit, Retry, StartRun, MarkRunning, EmitRunning, EmitProgress, Deliver,
                      RunnerReturns, Decide, EmitDone, FinalWrite, runVars
  <1>7. ASSUME NEW s \in Subscribers, Stream(s) PROVE CancelInv'
    BY <1>5, <1>7 DEF Stream, SubscribeReplay, SubscribeJoin, UnsubscribeClose, UnsubscribeRemove,
                      runVars
  <1>8. CASE UNCHANGED vars
    BY <1>5, <1>8 DEF vars
  <1>9. QED
    BY <1>1, <1>2, <1>3, <1>4, <1>6, <1>7, <1>8 DEF Next, Goroutine

\* Type correctness: no run emits an event past its done event, and every
\* request and every stream names an execution.
THEOREM TypeCorrect == Spec => []TypeOK
  <1>1. RunInv /\ EventsInv /\ [Next]_vars => EventsInv'
    BY EventsStep
  <1>2. EventsInv /\ StreamInv /\ [Next]_vars => StreamInv'
    BY StreamStep
  <1>3. CancelInv /\ [Next]_vars => CancelInv'
    BY CancelStep
  <1>4. RunInv /\ EventsInv /\ StreamInv /\ CancelInv => TypeOK
    <2> SUFFICES ASSUME RunInv, EventsInv, StreamInv, CancelInv PROVE TypeOK
      OBVIOUS
    <2>1. \A s \in Subscribers :
             /\ sub[s] = Idle \/ \E e \in Execs : sub[s] \in {At(p, e) : p \in Places}
             /\ stream[s] \in Seq(Numbers)
      BY DEF StreamInv
    <2>2. QED
      BY <2>1 DEF RunInv, RunTyped, EventsInv, CancelInv, TypeOK, Numbers, Places
  <1>5. QED
    BY <1>1, <1>2, <1>3, <1>4, RunInit, RunStep, EventsInit, StreamInit, CancelInit, PTL DEF Spec

-----------------------------------------------------------------------------
(* The life cycle the API promises. *)

\* What TaskLifecycle's phase, outcome and asking are in the manager.
PhaseMap == [e \in Execs |-> LifePhase(e)]
OutcomeMap == [e \in Execs |-> IF doneSeq[e] = 0 THEN "none" ELSE verdict[e]]
AskingMap == {e \in Execs : \E k \in Cancellers : cancel[k] = At("found", e)}

\* The phase of an execution, by where its goroutine is.
LEMMA LifePhases ==
    ASSUME NEW e \in Execs
    PROVE  /\ pc[e] \in {"none", "orphan"} => LifePhase(e) = "absent"
           /\ pc[e] \in {"created", "spawned"} => LifePhase(e) = "queued"
           /\ pc[e] \in {"marked", "executing", "returned", "decided"} => LifePhase(e) = "running"
           /\ pc[e] = "announced" => LifePhase(e) = "announced"
           /\ pc[e] = "written" => LifePhase(e) = "closed"
           /\ pc[e] = "gone" => LifePhase(e) = "gone"
  BY DEF LifePhase

\* A manager without active runs is one in which nothing has happened.
LEMMA LifeInit == Init => Life!Init
  <1> SUFFICES ASSUME Init PROVE Life!Init
    OBVIOUS
  <1>1. row \in [Execs -> {"none", "succeeded"}]
    BY DEF Init
  <1>2. PhaseMap = [e \in Execs |-> "absent"]
    BY LifePhases DEF Init, PhaseMap
  <1>3. OutcomeMap = [e \in Execs |-> "none"]
    BY DEF Init, OutcomeMap
  <1>4. AskingMap = {}
    BY RequestFacts DEF Init, AskingMap
  <1>5. QED
    BY <1>1, <1>2, <1>3, <1>4 DEF Life!Init, PhaseMap, OutcomeMap, AskingMap

\* LifePhase as an operator on places, so that it can speak of pc and pc'.
PhaseOf(p) ==
    CASE p \in {"none", "orphan"} -> "absent"
      [] p \in {"created", "spawned"} -> "queued"
      [] p \in {"marked", "executing", "returned", "decided"} -> "running"
      [] p = "announced" -> "announced"
      [] p = "written" -> "closed"
      [] p = "gone" -> "gone"

\* What it is at each place.
LEMMA PhaseValues ==
    /\ \A p \in {"none", "orphan"} : PhaseOf(p) = "absent"
    /\ \A p \in {"created", "spawned"} : PhaseOf(p) = "queued"
    /\ \A p \in {"marked", "executing", "returned", "decided"} : PhaseOf(p) = "running"
    /\ PhaseOf("announced") = "announced"
    /\ PhaseOf("written") = "closed"
    /\ PhaseOf("gone") = "gone"
  BY DEF PhaseOf

\* A goroutine that moves on moves its execution's phase only.
LEMMA PhaseMoves ==
    ASSUME RunTyped, NEW e \in Execs, NEW p \in Phases, GoTo(e, p)
    PROVE  /\ PhaseMap' = [PhaseMap EXCEPT ![e] = PhaseOf(p)]
           /\ PhaseMap[e] = PhaseOf(pc[e])
  <1>1. \A x \in Execs : LifePhase(x) = PhaseOf(pc[x]) /\ LifePhase(x)' = PhaseOf(pc'[x])
    BY DEF LifePhase, PhaseOf
  <1>2. pc'[e] = p /\ \A x \in Execs \ {e} : pc'[x] = pc[x]
    BY DEF RunTyped, GoTo
  <1>3. QED
    BY <1>1, <1>2 DEF PhaseMap

\* A step within a phase.
LEMMA PhaseSame ==
    ASSUME RunTyped, NEW e \in Execs, NEW p \in Phases, GoTo(e, p), PhaseOf(p) = PhaseOf(pc[e])
    PROVE  PhaseMap' = PhaseMap
  BY PhaseMoves DEF PhaseMap

\* Nothing is announced.
LEMMA OutcomeStays ==
    ASSUME \A x \in Execs : doneSeq'[x] = doneSeq[x] /\ (doneSeq[x] = 0 \/ verdict'[x] = verdict[x])
    PROVE  OutcomeMap' = OutcomeMap
  BY DEF OutcomeMap

\* Every step of the manager is a step of the life cycle or a stutter.
LEMMA LifeStep == ASSUME RunInv, EventsInv, CancelInv, [Next]_vars PROVE [Life!Next]_Life!vars
  <1>0. /\ RunTyped /\ pc \in [Execs -> Phases] /\ row \in [Execs -> Statuses]
        /\ doneSeq \in [Execs -> 0 .. MaxEvents + 1] /\ verdict \in [Execs -> {"none", "ok", "err"} \cup Settled]
    BY DEF RunInv, RunTyped, EventsInv
  <1>v. Life!vars = <<row, PhaseMap, OutcomeMap, AskingMap>>
    BY DEF Life!vars, PhaseMap, OutcomeMap, AskingMap
  <1>w. (Life!vars)' = <<row, PhaseMap, OutcomeMap, AskingMap>>'
    BY DEF Life!vars, PhaseMap, OutcomeMap, AskingMap
  <1>a. ASSUME UNCHANGED cancel PROVE AskingMap' = AskingMap
    BY <1>a DEF AskingMap
  <1>o. ASSUME UNCHANGED <<doneSeq, verdict>> PROVE OutcomeMap' = OutcomeMap
    BY <1>o DEF OutcomeMap
  <1>p. ASSUME UNCHANGED pc PROVE PhaseMap' = PhaseMap
    BY <1>p DEF PhaseMap, LifePhase
  <1>s. ASSUME UNCHANGED <<row, pc, doneSeq, verdict, cancel>> PROVE UNCHANGED Life!vars
    BY <1>a, <1>o, <1>p, <1>s, <1>v, <1>w
  <1>1. ASSUME NEW e \in Execs, Submit(e) \/ \E original \in Execs : Retry(original, e)
        PROVE  Life!Create(e)
    <2>1. /\ row[e] = "none" /\ row' = [row EXCEPT ![e] = "queued"]
          /\ GoTo(e, "created") \/ GoTo(e, "orphan")
          /\ UNCHANGED <<doneSeq, verdict, cancel>>
      BY <1>1 DEF Submit, Retry, eventVars
    <2>2. pc[e] = "none"
      BY <2>1 DEF EventsInv
    <2>3. PhaseMap' = [PhaseMap EXCEPT ![e] = "queued"] \/ PhaseMap' = PhaseMap
      BY <1>0, <2>1, <2>2, PhaseMoves, PhaseSame, PhaseValues DEF Phases, ActivePhases
    <2>4. OutcomeMap' = OutcomeMap /\ AskingMap' = AskingMap
      BY <1>a, <1>o, <2>1
    <2>5. QED
      BY <2>1, <2>3, <2>4 DEF Life!Create, Life!To, PhaseMap, OutcomeMap, AskingMap
  <1>2. ASSUME NEW e \in Execs, MarkRunning(e) PROVE Life!Begin(e)
    <2>1. /\ pc[e] = "spawned" /\ GoTo(e, "marked")
          /\ row' = row \/ row' = [row EXCEPT ![e] = "running"]
          /\ UNCHANGED <<doneSeq, verdict, cancel>>
      BY <1>2 DEF MarkRunning, In, eventVars
    <2>2. PhaseMap[e] = "queued" /\ PhaseMap' = [PhaseMap EXCEPT ![e] = "running"]
      BY <1>0, <2>1, PhaseMoves, PhaseValues DEF Phases, ActivePhases
    <2>3. OutcomeMap' = OutcomeMap /\ AskingMap' = AskingMap
      BY <1>a, <1>o, <2>1
    <2>4. QED
      BY <2>1, <2>2, <2>3 DEF Life!Begin, Life!To, PhaseMap, OutcomeMap, AskingMap
  <1>3. ASSUME NEW e \in Execs,
               \/ StartRun(e) \/ EmitRunning(e) \/ (\E result \in {"ok", "err"} : RunnerReturns(e, result))
               \/ Decide(e)
        PROVE  UNCHANGED Life!vars
    <2>1. /\ \/ pc[e] = "created" /\ GoTo(e, "spawned")
             \/ pc[e] = "marked" /\ GoTo(e, "executing")
             \/ pc[e] = "executing" /\ GoTo(e, "returned")
             \/ pc[e] = "returned" /\ GoTo(e, "decided")
          /\ UNCHANGED <<row, doneSeq, cancel>>
          /\ \A x \in Execs \ {e} : verdict'[x] = verdict[x]
      BY <1>0, <1>3 DEF StartRun, EmitRunning, RunnerReturns, Decide, In, eventVars
    <2>2. PhaseMap' = PhaseMap
      BY <1>0, <2>1, PhaseSame, PhaseValues DEF Phases, ActivePhases
    <2>3. doneSeq[e] = 0
      BY <2>1 DEF EventsInv
    <2>4. OutcomeMap' = OutcomeMap
      BY <2>1, <2>3, OutcomeStays
    <2>5. QED
      BY <1>a, <1>v, <1>w, <2>1, <2>2, <2>4
  <1>4. ASSUME NEW e \in Execs, EmitDone(e) PROVE \E o \in Life!Outcomes : Life!Announce(e, o)
    <2>1. /\ pc[e] = "decided" /\ GoTo(e, "announced")
          /\ doneSeq' = [doneSeq EXCEPT ![e] = seq[e] + 1] /\ UNCHANGED <<row, verdict, cancel>>
      BY <1>4 DEF EmitDone, In
    <2>2. /\ verdict[e] \in Settled
          /\ verdict[e] = "cancel_requested" => row[e] = "cancel_requested"
      BY <2>1 DEF RunInv, VerdictSettled, DoneTellsOutcome, Ending
    <2>3. PhaseMap[e] = "running" /\ PhaseMap' = [PhaseMap EXCEPT ![e] = "announced"]
      BY <1>0, <2>1, PhaseMoves, PhaseValues DEF Phases, ActivePhases
    <2>4. OutcomeMap' = [OutcomeMap EXCEPT ![e] = verdict[e]]
      <3>1. seq[e] + 1 # 0
        BY TaskExecAssumption DEF EventsInv
      <3>2. doneSeq'[e] # 0 /\ \A x \in Execs \ {e} : doneSeq'[x] = doneSeq[x]
        BY <1>0, <2>1, <3>1
      <3>3. QED
        BY <2>1, <3>2 DEF OutcomeMap
    <2>5. AskingMap' = AskingMap
      BY <1>a, <2>1
    <2>6. verdict[e] \in Life!Outcomes
      BY <2>2 DEF Life!Outcomes, Settled
    <2>7. QED
      BY <2>1, <2>2, <2>3, <2>4, <2>5, <2>6
         DEF Life!Announce, Life!To, PhaseMap, OutcomeMap, AskingMap
  <1>5. ASSUME NEW e \in Execs, FinalWrite(e) PROVE Life!Close(e)
    <2>1. /\ pc[e] = "announced" /\ GoTo(e, "written")
          /\ row' = row \/ row' = [row EXCEPT ![e] = verdict[e]]
          /\ UNCHANGED <<doneSeq, verdict, cancel>>
      BY <1>5 DEF FinalWrite, In, eventVars
    <2>2. OutcomeMap[e] = verdict[e]
      BY <2>1 DEF EventsInv, OutcomeMap
    <2>3. PhaseMap[e] = "announced" /\ PhaseMap' = [PhaseMap EXCEPT ![e] = "closed"]
      BY <1>0, <2>1, PhaseMoves, PhaseValues DEF Phases, ActivePhases
    <2>4. OutcomeMap' = OutcomeMap /\ AskingMap' = AskingMap
      BY <1>a, <1>o, <2>1
    <2>5. QED
      BY <2>1, <2>2, <2>3, <2>4 DEF Life!Close, Life!To, PhaseMap, OutcomeMap, AskingMap
  <1>6. ASSUME NEW e \in Execs, Finish(e) PROVE Life!Leave(e)
    <2>1. pc[e] = "written" /\ GoTo(e, "gone") /\ UNCHANGED <<row, doneSeq, verdict, cancel>>
      BY <1>6 DEF Finish, In, eventVars
    <2>2. PhaseMap[e] = "closed" /\ PhaseMap' = [PhaseMap EXCEPT ![e] = "gone"]
      BY <1>0, <2>1, PhaseMoves, PhaseValues DEF Phases, ActivePhases
    <2>3. OutcomeMap' = OutcomeMap /\ AskingMap' = AskingMap
      BY <1>a, <1>o, <2>1
    <2>4. QED
      BY <2>1, <2>2, <2>3 DEF Life!Leave, Life!To, PhaseMap, OutcomeMap, AskingMap
  <1>7. ASSUME NEW e \in Execs, NEW k \in Cancellers, CancelLookup(k, e) PROVE Life!Ask(e)
    <2>1. /\ cancel[k] = Idle /\ pc[e] \in ActivePhases /\ cancel' = [cancel EXCEPT ![k] = At("found", e)]
          /\ UNCHANGED <<row, pc, doneSeq, verdict>>
      BY <1>7 DEF CancelLookup, Active, runVars, eventVars
    <2>2. PhaseMap[e] \notin {"absent", "gone"}
      BY <2>1 DEF PhaseMap, LifePhase, ActivePhases
    <2>3. AskingMap' = AskingMap \cup {e}
      <3>1. \A x \in Execs : At("found", x) = At("found", e) => x = e
        BY RequestFacts
      <3>2. cancel'[k] = At("found", e) /\ \A j \in Cancellers \ {k} : cancel'[j] = cancel[j]
        BY <2>1 DEF CancelInv
      <3>3. \A x \in Execs : cancel[k] # At("found", x)
        BY <2>1, RequestFacts
      <3>4. QED
        BY <3>1, <3>2, <3>3 DEF AskingMap
    <2>4. PhaseMap' = PhaseMap /\ OutcomeMap' = OutcomeMap
      BY <1>p, <1>o, <2>1
    <2>5. QED
      BY <2>1, <2>2, <2>3, <2>4 DEF Life!Ask, PhaseMap, OutcomeMap, AskingMap
  <1>8. ASSUME NEW k \in Cancellers, CancelWrite(k) \/ CancelFails(k)
        PROVE  \E e \in Execs : Life!Mark(e) \/ Life!Withdraw(e) \/ UNCHANGED Life!vars
    <2>1. PICK e \in Execs : cancel[k] = At("found", e)
      <3>1. cancel[k].at = "found"
        BY <1>8 DEF CancelWrite, CancelFails
      <3>2. QED
        BY <3>1, RequestFacts DEF CancelInv
    <2>2. \/ /\ CancelWrite(k) /\ row' = [row EXCEPT ![e] = "cancel_requested"]
             /\ cancel' = [cancel EXCEPT ![k] = At("marked", e)]
          \/ CancelFails(k) /\ row' = row /\ cancel' = [cancel EXCEPT ![k] = Idle]
      BY <1>8, <2>1, RequestFacts DEF CancelWrite, CancelFails, runVars
    <2>3. UNCHANGED <<pc, doneSeq, verdict>>
      BY <1>8 DEF CancelWrite, CancelFails, runVars, eventVars
    <2>4. e \in AskingMap
      BY <2>1 DEF AskingMap
    <2>5. AskingMap' \in {AskingMap, AskingMap \ {e}}
      <3>1. \A x \in Execs : At("found", e) = At("found", x) => x = e
        BY RequestFacts
      <3>2. /\ \A x \in Execs : cancel'[k] # At("found", x)
            /\ \A j \in Cancellers \ {k} : cancel'[j] = cancel[j]
        BY <2>2, RequestFacts DEF CancelInv
      <3>3. \A x \in Execs \ {e} : x \in AskingMap' <=> x \in AskingMap
        BY <2>1, <3>1, <3>2 DEF AskingMap
      <3>4. AskingMap \subseteq Execs /\ AskingMap' \subseteq Execs
        BY DEF AskingMap
      <3>5. QED
        BY <2>4, <3>3, <3>4
    <2>6. PhaseMap' = PhaseMap /\ OutcomeMap' = OutcomeMap
      BY <1>p, <1>o, <2>3
    <2>7. CASE CancelWrite(k) /\ row' = [row EXCEPT ![e] = "cancel_requested"]
      BY <2>4, <2>5, <2>6, <2>7 DEF Life!Mark, PhaseMap, OutcomeMap, AskingMap
    <2>8. CASE row' = row
      <3>1. CASE AskingMap' = AskingMap
        BY <1>v, <1>w, <2>6, <2>8, <3>1
      <3>2. CASE AskingMap' = AskingMap \ {e}
        BY <2>6, <2>8, <3>2 DEF Life!Withdraw, PhaseMap, OutcomeMap, AskingMap
      <3>3. QED
        BY <2>5, <3>1, <3>2
    <2>9. QED
      BY <2>2, <2>7, <2>8
  <1>9. ASSUME NEW k \in Cancellers, CancelRun(k) PROVE UNCHANGED Life!vars
    <2>1. /\ cancel[k].at = "marked" /\ cancel' = [cancel EXCEPT ![k] = Idle]
          /\ UNCHANGED <<row, pc, doneSeq, verdict>>
      BY <1>9 DEF CancelRun, eventVars
    <2>2. \A x \in Execs : cancel[k] # At("found", x) /\ cancel'[k] # At("found", x)
      BY <2>1, RequestFacts DEF CancelInv
    <2>3. \A j \in Cancellers \ {k} : cancel'[j] = cancel[j]
      BY <2>1 DEF CancelInv
    <2>4. AskingMap' = AskingMap
      BY <2>2, <2>3 DEF AskingMap
    <2>5. QED
      BY <1>p, <1>o, <1>v, <1>w, <2>1, <2>4
  <1>10. ASSUME NEW e \in Execs, Deliver(e) \/ EmitProgress(e) PROVE UNCHANGED Life!vars
    BY <1>10, <1>s DEF Deliver, EmitProgress, runVars
  <1>11. ASSUME NEW s \in Subscribers, Stream(s) PROVE UNCHANGED Life!vars
    BY <1>11, <1>s DEF Stream, SubscribeReplay, SubscribeJoin, UnsubscribeClose, UnsubscribeRemove,
                       runVars, eventVars
  <1>12. CASE Shutdown \/ UNCHANGED vars
    BY <1>12, <1>s DEF Shutdown, runVars, eventVars, vars
  <1>n. ASSUME NEW e \in Execs,
               \/ Life!Create(e) \/ Life!Begin(e) \/ Life!Close(e) \/ Life!Leave(e)
               \/ (\E o \in Life!Outcomes : Life!Announce(e, o))
               \/ Life!Ask(e) \/ Life!Mark(e) \/ Life!Withdraw(e)
        PROVE  Life!Next
    BY <1>n DEF Life!Next
  <1>13. ASSUME NEW e \in Execs, Submit(e) \/ Goroutine(e) \/ EmitProgress(e)
         PROVE  Life!Next \/ UNCHANGED Life!vars
    <2>1. CASE Submit(e) \/ MarkRunning(e) \/ FinalWrite(e) \/ Finish(e)
      BY <1>1, <1>2, <1>5, <1>6, <1>n, <2>1
    <2>2. CASE EmitDone(e)
      BY <1>4, <1>n, <2>2
    <2>3. CASE \/ StartRun(e) \/ EmitRunning(e) \/ (\E result \in {"ok", "err"} : RunnerReturns(e, result))
               \/ Decide(e) \/ Deliver(e) \/ EmitProgress(e)
      BY <1>3, <1>10, <2>3
    <2>4. QED
      BY <1>13, <2>1, <2>2, <2>3 DEF Goroutine
  <1>14. ASSUME NEW original \in Execs, NEW e \in Execs, Retry(original, e) PROVE Life!Next
    BY <1>1, <1>14, <1>n
  <1>15. ASSUME NEW k \in Cancellers, Cancel(k) \/ \E e \in Execs : CancelLookup(k, e)
         PROVE  Life!Next \/ UNCHANGED Life!vars
    BY <1>7, <1>8, <1>9, <1>15, <1>n DEF Cancel
  <1>16. QED
    BY <1>11, <1>12, <1>13, <1>14, <1>15 DEF Next

\* The manager implements the life cycle: whatever cancels, retries, streams
\* and shutdowns do, one outcome is announced, it is a cancelled one only on a
\* user's request that is in the store, and the row is closed with it or the
\* write fails.  This is the safety half of ImplementsLifecycle.
THEOREM ImplementsSafeLifecycle == Spec => Life!Safe
  <1>1. RunInv /\ EventsInv /\ [Next]_vars => EventsInv'
    BY EventsStep
  <1>2. CancelInv /\ [Next]_vars => CancelInv'
    BY CancelStep
  <1>3. RunInv /\ EventsInv /\ CancelInv /\ [Next]_vars => [Life!Next]_Life!vars
    BY LifeStep
  <1>4. QED
    BY <1>1, <1>2, <1>3, LifeInit, RunInit, RunStep, EventsInit, CancelInit, PTL DEF Spec, Life!Safe
=============================================================================
