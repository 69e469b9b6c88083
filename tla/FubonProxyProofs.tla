-------------------------- MODULE FubonProxyProofs --------------------------
(***************************************************************************)
(* Proofs about the proxy manager: its channel is closed once and never    *)
(* when nil, no child outlives Stop, Status never reports a supervisor     *)
(* that is gone, and no child is started beside a living one, for any      *)
(* limit on failed restarts.                                               *)
(*                                                                         *)
(* The argument follows m.done: from StartLock until the supervisor (or    *)
(* an error path of Start) closes it, exactly one of them is in charge of  *)
(* the channel, and a Stop that gives up waiting for it has cancelled the  *)
(* context, so that no child is spawned from then on.                      *)
(***************************************************************************)
EXTENDS FubonProxy, TLAPS

\* Start between its lock and its return.
Starting == {"spawning", "started", "aborting"}

\* The places at which the supervisor has a child that may be running.
Watching == {"begin", "loop", "wait", "health"}

\* Start, Stop and the supervisor exclude each other where they have to.
PhaseInv ==
    /\ start \in {"idle", "probed"} => stop.at = "idle"
    /\ sup.at \in Supervising => start = "returned"

\* Who holds m.done, m.cancel and the copies that Stop took of them.
StopInv ==
    /\ hasCancel = (done = "made")
    /\ stop.at # "idle" /\ stop.done = "made" => stop.cancel
    /\ stop.at # "idle" /\ stop.done = "nil" => done = "nil"
    /\ stop.at = "waiting" /\ stop.cancel => canceled
    /\ asked /\ stop.at = "idle" => done = "nil"

\* The channel is open as long as someone is to close it, and a supervisor
\* that a Stop has given up on spawns no child.
ChannelInv ==
    /\ ~panicked
    /\ start \in Starting \/ sup.at = "begin" => done = "made"
    /\ start \in Starting \/ sup.at \in Supervising => ~closed
    /\ sup.at \in Supervising \ {"begin"} => sup.done = "made"
    /\ sup.at \in Supervising /\ done = "nil" => canceled /\ sup.at # "spawned"

\* The child that is m.cmd lives only under a supervisor that watches it.
ChildInv ==
    /\ running => hasCmd /\ sup.at \in Watching
    /\ proc = "alive" => hasCmd /\ done = "made" /\ sup.at \in Watching
    /\ fresh = "alive" => start = "started" \/ sup.at = "spawned"

ProxyInv == TypeOK /\ PhaseInv /\ StopInv /\ ChannelInv /\ ChildInv

-----------------------------------------------------------------------------
(* Every step preserves the invariant. *)

\* A channel that is there and open can be closed.
LEMMA CloseOpen ==
    ASSUME NEW ch, ch = "made", ~closed, ~panicked, Close(ch)
    PROVE  closed' = TRUE /\ panicked' = FALSE
  BY Zenon DEF Close

\* The supervisor's deferred close finds such a channel, wherever it returns.
LEMMA EndsCloses ==
    ASSUME ProxyInv, sup.at \in Supervising \ {"begin"}, Ends
    PROVE  /\ sup' = [at |-> "ended", done |-> "made"]
           /\ closed' \in BOOLEAN /\ panicked' \in BOOLEAN /\ ~panicked' /\ closed'
  <1>1. sup' = [at |-> "ended", done |-> "made"]
    BY DEF ProxyInv, TypeOK, ChannelInv, Ends, To
  <1>2. closed' \in BOOLEAN /\ panicked' \in BOOLEAN /\ ~panicked' /\ closed'
    <2>1. closed' = TRUE /\ panicked' = FALSE
      BY CloseOpen, Zenon DEF ProxyInv, ChannelInv, Ends
    <2>2. QED
      BY <2>1
  <1>3. QED
    BY <1>1, <1>2

\* So do the error paths of Start.
LEMMA ErrorPathCloses ==
    ASSUME ProxyInv, start \in Starting, Close(done)
    PROVE  closed' \in BOOLEAN /\ panicked' \in BOOLEAN /\ ~panicked' /\ closed'
  <1>1. closed' = TRUE /\ panicked' = FALSE
    BY CloseOpen, Zenon DEF ProxyInv, ChannelInv
  <1>2. QED
    BY <1>1

\* A failed restart is counted; the supervisor tries again or ends.
LEMMA FailedCounts ==
    ASSUME ProxyInv, sup.at \in Supervising \ {"begin"}, Failed
    PROVE  /\ failures' \in 0 .. MaxRestartFailures
           /\ \/ sup' = [at |-> "loop", done |-> "made"] /\ UNCHANGED channel
              \/ /\ sup' = [at |-> "ended", done |-> "made"]
                 /\ closed' \in BOOLEAN /\ panicked' \in BOOLEAN /\ ~panicked'
  <1>1. failures' \in 0 .. MaxRestartFailures
    BY FubonProxyAssumption DEF ProxyInv, TypeOK, Failed
  <1>2. CASE To("loop") /\ UNCHANGED channel
    BY <1>1, <1>2 DEF ProxyInv, TypeOK, ChannelInv, To
  <1>3. CASE Ends
    BY <1>1, <1>3, EndsCloses
  <1>4. QED
    BY <1>2, <1>3 DEF Failed

\* Start opens the channel while nobody else is at work, and hands it over
\* to the supervisor or closes it.
LEMMA StartKeepsIt ==
    ASSUME ProxyInv, StartProbe \/ StartStep
    PROVE  ProxyInv'
  <1>0. start \in Starting /\ Close(done) => closed' \in BOOLEAN /\ panicked' \in BOOLEAN /\ ~panicked'
    BY ErrorPathCloses
  <1> USE FubonProxyAssumption DEF ProxyInv, TypeOK, PhaseInv, StopInv, ChannelInv, ChildInv,
              Starting, Watching, Supervising, ChildStates, fields, children, channel
  <1>1. CASE StartProbe
    BY <1>1 DEF StartProbe, Ports
  <1>2. CASE StartLock
    <2>1. stop.at = "idle" /\ ~(sup.at \in Supervising)
      BY <1>2 DEF StartLock
    <2>2. TypeOK'
      BY <1>2 DEF StartLock
    <2>3. PhaseInv' /\ StopInv'
      BY <1>2, <2>1 DEF StartLock
    <2>4. ChannelInv' /\ ChildInv'
      BY <1>2, <2>1 DEF StartLock
    <2>5. QED
      BY <2>2, <2>3, <2>4
  <1>3. CASE StartFails
    <2>1. TypeOK'
      <3>1. closed' \in BOOLEAN /\ panicked' \in BOOLEAN
        BY <1>3, <1>0 DEF StartFails
      <3>2. QED
        BY <1>3, <3>1 DEF StartFails
    <2>2. PhaseInv'
      BY <1>3, <1>0 DEF StartFails
    <2>3. StopInv'
      BY <1>3, <1>0 DEF StartFails
    <2>4. ChannelInv'
      BY <1>3, <1>0 DEF StartFails
    <2>5. ChildInv'
      BY <1>3, <1>0 DEF StartFails
    <2>6. QED
      BY <2>1, <2>2, <2>3, <2>4, <2>5
  <1>4. CASE StartSpawn
    BY <1>4 DEF StartSpawn
  <1>5. CASE StartRegister
    BY <1>5 DEF StartRegister, Register
  <1>6. CASE StartKill
    BY <1>6 DEF StartKill
  <1>7. CASE StartAbort
    <2>1. TypeOK'
      BY <1>7, <1>0 DEF StartAbort
    <2>2. PhaseInv'
      BY <1>7, <1>0 DEF StartAbort
    <2>3. StopInv'
      BY <1>7, <1>0 DEF StartAbort
    <2>4. ChannelInv'
      BY <1>7, <1>0 DEF StartAbort
    <2>5. ChildInv'
      BY <1>7, <1>0 DEF StartAbort
    <2>6. QED
      BY <2>1, <2>2, <2>3, <2>4, <2>5
  <1>8. QED
    BY <1>1, <1>2, <1>3, <1>4, <1>5, <1>6, <1>7 DEF StartStep

\* Stop takes copies, and what it resets in the end it has cancelled.
LEMMA StopKeepsIt ==
    ASSUME ProxyInv, StopFlag \/ StopStep
    PROVE  ProxyInv'
  <1> USE FubonProxyAssumption DEF ProxyInv, TypeOK, PhaseInv, StopInv, ChannelInv, ChildInv,
              Starting, Watching, Supervising, ChildStates, fields, children, channel
  <1>1. CASE StopFlag
    <2>1. asked' \in BOOLEAN
      BY <1>1, Zenon DEF StopFlag
    <2>2. TypeOK'
      BY <1>1, <2>1 DEF StopFlag
    <2>3. PhaseInv' /\ StopInv'
      BY <1>1 DEF StopFlag
    <2>4. ChannelInv' /\ ChildInv'
      BY <1>1 DEF StopFlag
    <2>5. QED
      BY <2>2, <2>3, <2>4
  <1>2. CASE StopCancel
    BY <1>2 DEF StopCancel
  <1>3. CASE StopReturns
    BY <1>3 DEF StopReturns, Reset, Resting
  <1>4. CASE StopTimesOut
    BY <1>4 DEF StopTimesOut, Reset, Resting
  <1>5. QED
    BY <1>1, <1>2, <1>3, <1>4 DEF StopStep

\* The supervisor waits for the child and goes on, or closes the channel and
\* ends; it spawns only under a context that is not cancelled.
LEMMA SupKeepsIt ==
    ASSUME ProxyInv, SupStep
    PROVE  ProxyInv'
  <1>a. sup.at \in Supervising \ {"begin"} /\ Ends =>
           /\ sup' = [at |-> "ended", done |-> "made"]
           /\ closed' \in BOOLEAN /\ panicked' \in BOOLEAN /\ ~panicked'
    BY EndsCloses
  <1>b. sup.at \in Supervising \ {"begin"} /\ Failed =>
           /\ failures' \in 0 .. MaxRestartFailures
           /\ \/ sup' = [at |-> "loop", done |-> "made"] /\ UNCHANGED channel
              \/ /\ sup' = [at |-> "ended", done |-> "made"]
                 /\ closed' \in BOOLEAN /\ panicked' \in BOOLEAN /\ ~panicked'
    BY FailedCounts
  <1> USE FubonProxyAssumption DEF ProxyInv, TypeOK, PhaseInv, StopInv, ChannelInv, ChildInv,
              Starting, Watching, Supervising, ChildStates, fields, children, channel
  <1>1. CASE SupBegin
    BY <1>1 DEF SupBegin
  <1>2. CASE SupLoop
    BY <1>2, <1>a DEF SupLoop, To
  <1>3. CASE SupWait
    <2>1. CASE stopping
      <3>1. sup' = [at |-> "ended", done |-> "made"] /\ ~panicked'
        BY <1>3, <2>1, <1>a DEF SupWait
      <3>2. closed' \in BOOLEAN /\ panicked' \in BOOLEAN
        BY <1>3, <2>1, <1>a DEF SupWait
      <3>3. TypeOK'
        BY <1>3, <3>1, <3>2 DEF SupWait
      <3>4. PhaseInv' /\ StopInv'
        BY <1>3, <3>1 DEF SupWait
      <3>5. ChannelInv' /\ ChildInv'
        BY <1>3, <3>1 DEF SupWait
      <3>6. QED
        BY <3>3, <3>4, <3>5
    <2>2. CASE ~stopping
      BY <1>3, <2>2 DEF SupWait, To
    <2>3. QED
      BY <2>1, <2>2
  <1>4. CASE SupBackoff
    BY <1>4, <1>a DEF SupBackoff, To
  <1>5. CASE SupCheck
    BY <1>5, <1>a DEF SupCheck, To
  <1>6. CASE SupPort
    <2>1. port' \in Ports
      BY <1>6 DEF SupPort
    <2>2. CASE port' \in {"free", "unknown"}
      <3>1. sup' = [sup EXCEPT !.at = "spawn"] /\ UNCHANGED <<channel, failures>>
        BY <1>6, <2>2 DEF SupPort, To
      <3>2. TypeOK'
        BY <1>6, <2>1, <3>1 DEF SupPort
      <3>3. PhaseInv' /\ StopInv' /\ ChannelInv' /\ ChildInv'
        BY <1>6, <3>1 DEF SupPort
      <3>4. QED
        BY <3>2, <3>3
    <2>3. CASE port' = "healthy"
      BY <1>6, <2>3, <1>a DEF SupPort, Ports
    <2>4. CASE port' = "foreign"
      BY <1>6, <2>4, <1>b DEF SupPort, Ports
    <2>5. QED
      BY <2>1, <2>2, <2>3, <2>4 DEF Ports
  <1>7. CASE SupSpawnFails
    BY <1>7, <1>b DEF SupSpawnFails
  <1>8. CASE SupSpawn
    BY <1>8 DEF SupSpawn, To
  <1>9. CASE SupRegister
    BY <1>9 DEF SupRegister, Register, To
  <1>10. CASE SupKill
    BY <1>10, <1>a DEF SupKill
  <1>11. CASE SupHealth
    BY <1>11 DEF SupHealth, To
  <1>12. QED
    BY <1>1, <1>2, <1>3, <1>4, <1>5, <1>6, <1>7, <1>8, <1>9, <1>10, <1>11 DEF SupStep

\* What the child, os/exec and the port do concerns no channel.
LEMMA OutsideKeepsIt ==
    ASSUME ProxyInv, ChildExits \/ KillByContext \/ PortChanges
    PROVE  ProxyInv'
  <1> USE FubonProxyAssumption DEF ProxyInv, TypeOK, PhaseInv, StopInv, ChannelInv, ChildInv,
              Starting, Watching, Supervising, ChildStates, fields, children, channel
  <1>1. CASE ChildExits
    BY <1>1 DEF ChildExits
  <1>2. CASE KillByContext
    BY <1>2 DEF KillByContext
  <1>3. CASE PortChanges
    BY <1>3 DEF PortChanges, Ports
  <1>4. QED
    BY <1>1, <1>2, <1>3

-----------------------------------------------------------------------------
(* The theorems. *)

\* The invariant holds when the manager is made ...
LEMMA ProxyInitInv == Init => ProxyInv
  <1> SUFFICES ASSUME Init PROVE ProxyInv
    OBVIOUS
  <1>1. TypeOK
    <2>1. stop \in [at : {"idle", "flagged", "waiting"}, cancel : BOOLEAN, cmd : BOOLEAN, done : {"nil", "made"}]
      BY DEF Init, Resting
    <2>2. sup \in [at : Supervising \cup {"none", "ended"}, done : {"nil", "made"}]
      BY DEF Init
    <2>3. failures \in 0 .. MaxRestartFailures
      BY FubonProxyAssumption DEF Init
    <2>4. QED
      BY <2>1, <2>2, <2>3 DEF Init, TypeOK, ChildStates
  <1>2. PhaseInv /\ StopInv
    BY DEF Init, Resting, PhaseInv, StopInv, Supervising
  <1>3. ChannelInv /\ ChildInv
    BY DEF Init, ChannelInv, ChildInv, Starting, Supervising
  <1>4. QED
    BY <1>1, <1>2, <1>3 DEF ProxyInv

\* ... and always.
LEMMA ProxyAlwaysInv == Spec => []ProxyInv
  <1>1. ProxyInv /\ [Next]_vars => ProxyInv'
    <2> SUFFICES ASSUME ProxyInv, [Next]_vars PROVE ProxyInv'
      OBVIOUS
    <2>1. CASE UNCHANGED vars
      BY <2>1 DEF vars, fields, channel, children, ProxyInv, TypeOK, PhaseInv, StopInv, ChannelInv, ChildInv
    <2>2. QED
      BY <2>1, StartKeepsIt, StopKeepsIt, SupKeepsIt, OutsideKeepsIt DEF Next
  <1>2. QED
    BY ProxyInitInv, <1>1, PTL DEF Spec

\* All variables of the manager stay in their types.
THEOREM TypeCorrect == Spec => []TypeOK
  <1>1. ProxyInv => TypeOK
    BY DEF ProxyInv
  <1>2. QED
    BY <1>1, ProxyAlwaysInv, PTL

\* m.done is never closed twice and never when nil, in whichever window of
\* Start or of a restart Stop came and however often it gave up waiting.
THEOREM NoPanicHolds == Spec => []NoPanic
  <1>1. ProxyInv => NoPanic
    BY DEF ProxyInv, ChannelInv, NoPanic
  <1>2. QED
    BY <1>1, ProxyAlwaysInv, PTL

\* Once a Stop of a started manager has returned, and until it is started
\* again, no child lives: m.done is gone, and with it the supervisor that
\* watches a child and the Start or restart that may still bring one.
THEOREM StoppedMeansDownHolds == Spec => []StoppedMeansDown
  <1>1. ProxyInv => StoppedMeansDown
    <2> SUFFICES ASSUME ProxyInv, asked, stop.at = "idle"
                 PROVE  proc # "alive" /\ fresh # "alive"
      BY DEF StoppedMeansDown
    <2>1. done = "nil"
      BY DEF ProxyInv, StopInv
    <2>2. proc # "alive"
      BY <2>1 DEF ProxyInv, ChildInv
    <2>3. start # "started" /\ sup.at # "spawned"
      BY <2>1 DEF ProxyInv, ChannelInv, Starting, Supervising
    <2>4. QED
      BY <2>2, <2>3 DEF ProxyInv, ChildInv
  <1>2. QED
    BY <1>1, ProxyAlwaysInv, PTL

\* Status never reports a running supervisor that is gone, and no child is
\* started while another one lives.
THEOREM RunningMeansSupervisedHolds == Spec => []RunningMeansSupervised
  <1>1. ProxyInv => RunningMeansSupervised
    BY DEF ProxyInv, PhaseInv, ChannelInv, ChildInv, Watching, Supervising, RunningMeansSupervised
  <1>2. QED
    BY <1>1, ProxyAlwaysInv, PTL

\* No child is spawned under a cancelled context, or once m.done is gone: a
\* supervisor that a Stop has given up on never spawns again.
THEOREM SpawnsInChargeHolds == Spec => SpawnsInCharge
  <1> DEFINE Spawned == fresh # "alive" /\ fresh' = "alive" => ~canceled /\ done = "made"
  <1>1. ProxyInv /\ Next => Spawned
    <2> SUFFICES ASSUME ProxyInv, Next, fresh # "alive", fresh' = "alive"
                 PROVE  ~canceled /\ done = "made"
      OBVIOUS
    <2>1. StartSpawn \/ SupSpawn
      BY DEF Next, StartProbe, StartStep, StartLock, StartFails, StartRegister, StartKill, StartAbort,
             StopFlag, StopStep, StopCancel, StopReturns, StopTimesOut,
             SupStep, SupBegin, SupLoop, SupWait, SupBackoff, SupCheck, SupPort, SupSpawnFails,
             SupRegister, SupKill, SupHealth, Register, ChildExits, KillByContext, PortChanges, children
    <2>2. QED
      BY <2>1 DEF StartSpawn, SupSpawn, ProxyInv, TypeOK, ChannelInv, Starting, Supervising
  <1>2. ProxyInv /\ [Next]_vars => [Spawned]_vars
    BY <1>1
  <1>3. QED
    BY <1>2, ProxyAlwaysInv, PTL DEF Spec, SpawnsInCharge

-----------------------------------------------------------------------------
(* Nobody waits for nothing. *)

\* m.done, and the copy of it that Stop has taken, is closed or someone is
\* there who will close it.
AnswerInv ==
    \/ closed \/ start \in Starting \/ sup.at \in Supervising
    \/ done = "nil" /\ (stop.at # "idle" => stop.done = "nil")

\* An error path of Start, and a supervisor that ends, closes it; a Start that
\* succeeds leaves it to the supervisor.
LEMMA AnswerStepInv == ProxyInv /\ AnswerInv /\ [Next]_vars => AnswerInv'
  <1> SUFFICES ASSUME ProxyInv, AnswerInv, [Next]_vars PROVE AnswerInv'
    OBVIOUS
  <1>1. CASE StartLock
    BY <1>1 DEF StartLock, AnswerInv, Starting
  <1>2. CASE StartFails \/ StartAbort
    BY <1>2, ErrorPathCloses DEF StartFails, StartAbort, Starting, AnswerInv
  <1>3. CASE StartSpawn \/ StartRegister \/ StartKill
    BY <1>3 DEF StartSpawn, StartRegister, StartKill, Starting, Supervising, ProxyInv, TypeOK, AnswerInv
  <1>4. CASE StopFlag \/ StopStep
    <2>1. UNCHANGED <<closed, start, sup>>
      BY <1>4 DEF StopFlag, StopStep, StopCancel, StopReturns, StopTimesOut, channel
    <2>2. CASE StopFlag
      BY <2>1, <2>2 DEF StopFlag, AnswerInv
    <2>3. CASE StopCancel
      BY <2>1, <2>3 DEF StopCancel, fields, AnswerInv, ProxyInv, TypeOK
    <2>4. CASE StopReturns \/ StopTimesOut
      BY <2>1, <2>4 DEF StopReturns, StopTimesOut, Reset, Resting, AnswerInv
    <2>5. QED
      BY <1>4, <2>2, <2>3, <2>4 DEF StopStep
  <1>5. CASE SupStep
    <2>1. sup.at \in Supervising
      BY <1>5 DEF SupStep, SupBegin, SupLoop, SupWait, SupBackoff, SupCheck, SupPort, SupSpawnFails,
                  SupSpawn, SupRegister, SupKill, SupHealth, Supervising
    <2>2. CASE sup.at # "begin" /\ Ends
      BY <2>1, <2>2, EndsCloses DEF AnswerInv
    <2>3. CASE sup'.at \in Supervising
      BY <2>3 DEF AnswerInv
    <2>4. ASSUME NEW place, To(place) PROVE sup'.at = place
      BY <2>4 DEF To, ProxyInv, TypeOK
    <2>5. CASE SupBegin
      BY <2>3, <2>5 DEF SupBegin, Supervising
    <2>6. CASE SupLoop \/ SupWait \/ SupBackoff \/ SupCheck
      <3>1. Ends \/ To("wait") \/ To("backoff") \/ To("check") \/ To("port")
        BY <2>6 DEF SupLoop, SupWait, SupBackoff, SupCheck
      <3>2. sup.at # "begin"
        BY <2>6 DEF SupLoop, SupWait, SupBackoff, SupCheck
      <3>3. QED
        BY <3>1, <3>2, <2>2, <2>3, <2>4 DEF Supervising
    <2>7. CASE SupPort \/ SupSpawnFails
      <3>1. Ends \/ To("spawn") \/ To("loop")
        <4>1. SupPort => port' \in {"free", "unknown", "healthy", "foreign"}
          BY DEF SupPort, Ports, ProxyInv, TypeOK
        <4>2. Failed => Ends \/ To("loop")
          BY DEF Failed
        <4>3. QED
          BY <2>7, <4>1, <4>2 DEF SupPort, SupSpawnFails
      <3>2. sup.at # "begin"
        BY <2>7 DEF SupPort, SupSpawnFails
      <3>3. QED
        BY <3>1, <3>2, <2>2, <2>3, <2>4 DEF Supervising
    <2>8. CASE SupSpawn \/ SupRegister \/ SupHealth
      <3>1. To("spawned") \/ To("health") \/ To("loop")
        BY <2>8 DEF SupSpawn, SupRegister, SupHealth
      <3>2. QED
        BY <3>1, <2>3, <2>4 DEF Supervising
    <2>9. CASE SupKill
      BY <2>2, <2>9 DEF SupKill
    <2>10. QED
      BY <1>5, <2>5, <2>6, <2>7, <2>8, <2>9 DEF SupStep
  <1>6. CASE StartProbe \/ ChildExits \/ KillByContext \/ PortChanges \/ UNCHANGED vars
    BY <1>6 DEF StartProbe, ChildExits, KillByContext, PortChanges, vars, fields, channel,
                ProxyInv, TypeOK, AnswerInv, Starting
  <1>7. QED
    BY <1>1, <1>2, <1>3, <1>4, <1>5, <1>6 DEF Next, StartStep

\* Stop waits only for a channel that is closed, or that Start or the
\* supervisor is still there to close.
THEOREM StopAnsweredHolds == Spec => []StopAnswered
  <1>1. Init => AnswerInv
    BY DEF Init, Resting, AnswerInv
  <1>2. AnswerInv => StopAnswered
    BY DEF AnswerInv, StopAnswered, Starting
  <1>3. QED
    BY <1>1, <1>2, AnswerStepInv, ProxyAlwaysInv, PTL DEF Spec
=============================================================================
