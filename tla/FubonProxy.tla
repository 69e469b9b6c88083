----------------------------- MODULE FubonProxy -----------------------------
(***************************************************************************)
(* internal/fubonproxy/manager.go: ProcessManager starts the fubon-proxy   *)
(* child process, restarts it when it dies (supervise) and stops it.       *)
(* Stop may come at any time once Start has taken the lock, while Start or *)
(* the supervisor is between two of its critical sections too.  Start may  *)
(* be called again when no supervisor is left.  (atlas calls Start once    *)
(* and Stop when it ends.)                                                 *)
(*                                                                         *)
(* A child is "alive", "exited" (a zombie until someone calls Wait) or     *)
(* "none".  Cancelling the context kills every child started with it.  The *)
(* timeline, health times and log messages are left out.                   *)
(***************************************************************************)
EXTENDS Integers

CONSTANT MaxRestartFailures     \* maxRestartFailures

ASSUME FubonProxyAssumption == MaxRestartFailures \in Nat \ {0}

VARIABLES
    running, stopping,      \* m.running, m.stopping
    hasCmd,                 \* m.cmd is not nil
    hasCancel,              \* m.cancel is not nil
    canceled,               \* the context has been cancelled
    done,                   \* m.done: "nil" or "made"
    closed,                 \* the channel made by Start has been closed
    panicked,               \* a nil or closed channel was closed
    proc,                   \* the child that is m.cmd, or was until Stop
    fresh,                  \* a child that was started and is not yet m.cmd
    port,                   \* what a probe finds on the proxy's port besides it
    start, stop, sup,       \* where Start, Stop and supervise are
    failures,               \* m.restartFailures
    asked                   \* history: Stop was called since the last Start

fields == <<running, stopping, hasCmd, hasCancel, done>>
children == <<proc, fresh>>
channel == <<closed, panicked>>
vars == <<fields, canceled, channel, children, port, start, stop, sup, failures, asked>>

ChildStates == {"none", "alive", "exited"}
\* "unknown": the probe itself fails.
Ports == {"free", "healthy", "foreign", "unknown"}
Supervising == {"begin", "loop", "wait", "backoff", "check", "port", "spawn", "spawned", "health"}

TypeOK ==
    /\ running \in BOOLEAN /\ stopping \in BOOLEAN /\ hasCmd \in BOOLEAN /\ hasCancel \in BOOLEAN
    /\ canceled \in BOOLEAN /\ closed \in BOOLEAN /\ panicked \in BOOLEAN /\ asked \in BOOLEAN
    /\ done \in {"nil", "made"}
    /\ proc \in ChildStates /\ fresh \in ChildStates
    /\ port \in Ports
    /\ start \in {"idle", "probed", "spawning", "started", "aborting", "returned"}
    /\ stop \in [at : {"idle", "flagged", "waiting"}, cancel : BOOLEAN, cmd : BOOLEAN, done : {"nil", "made"}]
    /\ sup \in [at : Supervising \cup {"none", "ended"}, done : {"nil", "made"}]
    /\ failures \in 0 .. MaxRestartFailures

Resting == [at |-> "idle", cancel |-> FALSE, cmd |-> FALSE, done |-> "nil"]

Init ==
    /\ running = FALSE /\ stopping = FALSE /\ hasCmd = FALSE /\ hasCancel = FALSE
    /\ canceled = FALSE /\ closed = FALSE /\ panicked = FALSE /\ asked = FALSE
    /\ done = "nil" /\ proc = "none" /\ fresh = "none"
    /\ port \in Ports
    /\ start = "idle" /\ stop = Resting /\ sup = [at |-> "none", done |-> "nil"]
    /\ failures = 0

\* close(ch).
Close(ch) ==
    /\ closed' = (closed \/ ch = "made")
    /\ panicked' = (panicked \/ ch = "nil" \/ closed)

-----------------------------------------------------------------------------
\* Start, one action per critical section or system call.

\* The pre-flight probe: the port is free, is served by a healthy proxy
\* (nothing to start) or is held by another process (an error, unless it is
\* a zombie proxy that can be killed, which is looked at again).  A probe that
\* fails, the first or the second one, is logged and counts as a free port.
StartProbe ==
    /\ \/ start = "idle"
       \/ start = "returned" /\ stop.at = "idle" /\ sup.at \in {"none", "ended"}
    /\ \/ port' = port
       \/ port = "foreign" /\ port' \in Ports
    /\ start' = IF port' \in {"free", "unknown"} THEN "probed" ELSE "returned"
    /\ UNCHANGED <<fields, canceled, channel, children, stop, sup, failures, asked>>

StartLock ==
    /\ start = "probed"
    /\ hasCancel' = TRUE /\ done' = "made"
    /\ canceled' = FALSE /\ closed' = FALSE /\ asked' = FALSE
    /\ start' = "spawning"
    /\ UNCHANGED <<running, stopping, hasCmd, panicked, children, port, stop, sup, failures>>

\* Slip: the error return leaves the channel open.
StartFailsSilently ==
    /\ start = "spawning"
    /\ canceled' = TRUE
    /\ hasCancel' = FALSE /\ done' = "nil"
    /\ start' = "returned"
    /\ UNCHANGED <<running, stopping, hasCmd, channel, children, port, stop, sup, failures, asked>>

\* cmd.Start fails, as it always does once the context is cancelled.
StartFails ==
    /\ start = "spawning"
    /\ canceled' = TRUE
    /\ Close(done)
    /\ hasCancel' = FALSE /\ done' = "nil"
    /\ start' = "returned"
    /\ UNCHANGED <<running, stopping, hasCmd, children, port, stop, sup, failures, asked>>

StartSpawn ==
    /\ start = "spawning" /\ ~canceled
    /\ fresh' = "alive"
    /\ start' = "started"
    /\ UNCHANGED <<fields, canceled, channel, proc, port, stop, sup, failures, asked>>

\* The child becomes m.cmd.
Register ==
    /\ hasCmd' = TRUE /\ running' = TRUE
    /\ proc' = fresh /\ fresh' = "none"

StartRegister ==
    /\ start = "started" /\ ~stopping
    /\ Register
    /\ sup' = [sup EXCEPT !.at = "begin"]
    /\ start' = "returned"
    /\ UNCHANGED <<stopping, hasCancel, done, canceled, channel, port, stop, failures, asked>>

\* F1: Stop has come meanwhile; kill, wait, close the channel, start over.
StartKill ==
    /\ start = "started" /\ stopping
    /\ fresh' = "exited"
    /\ start' = "aborting"
    /\ UNCHANGED <<fields, canceled, channel, proc, port, stop, sup, failures, asked>>

StartAbort ==
    /\ start = "aborting"
    /\ fresh' = "none"
    /\ canceled' = TRUE
    /\ Close(done)
    /\ hasCancel' = FALSE /\ done' = "nil"
    /\ start' = "returned"
    /\ UNCHANGED <<running, stopping, hasCmd, proc, port, stop, sup, failures, asked>>

StartStep == StartLock \/ StartFails \/ StartSpawn \/ StartRegister \/ StartKill \/ StartAbort

-----------------------------------------------------------------------------
\* Stop.  (A second Stop returns at once while m.stopping is set.)

\* Slip: Stop does nothing unless a child is running.
StopFlagIfRunning ==
    /\ start \notin {"idle", "probed"}
    /\ stop.at = "idle" /\ ~stopping
    /\ IF running
       THEN /\ stopping' = TRUE
            /\ stop' = [at |-> "flagged", cancel |-> hasCancel, cmd |-> hasCmd, done |-> done]
       ELSE UNCHANGED <<stopping, stop>>
    /\ asked' = (asked \/ hasCancel)
    /\ UNCHANGED <<running, hasCmd, hasCancel, done, canceled, channel, children, port, start, sup, failures>>

StopFlag ==
    /\ start \notin {"idle", "probed"}
    /\ stop.at = "idle" /\ ~stopping
    /\ stopping' = TRUE
    /\ stop' = [at |-> "flagged", cancel |-> hasCancel, cmd |-> hasCmd, done |-> done]
    /\ asked' = (asked \/ hasCancel)
    /\ UNCHANGED <<running, hasCmd, hasCancel, done, canceled, channel, children, port, start, sup, failures>>

\* Slip: the child is signalled, but the context is not cancelled.
StopSignals ==
    /\ stop.at = "flagged"
    /\ stop' = [stop EXCEPT !.at = "waiting"]
    /\ UNCHANGED <<fields, canceled, channel, children, port, start, sup, failures, asked>>

\* cancel(), then SIGINT (which a child that lives on may heed, or not).
StopCancel ==
    /\ stop.at = "flagged"
    /\ canceled' = (canceled \/ stop.cancel)
    /\ stop' = [stop EXCEPT !.at = "waiting"]
    /\ UNCHANGED <<fields, channel, children, port, start, sup, failures, asked>>

Reset ==
    /\ running' = FALSE /\ stopping' = FALSE /\ hasCmd' = FALSE /\ hasCancel' = FALSE /\ done' = "nil"
    /\ stop' = Resting

\* The channel is closed, or there is nothing to wait for.
StopReturns ==
    /\ stop.at = "waiting"
    /\ \/ stop.done = "made" /\ closed
       \/ stop.done = "nil" /\ ~stop.cmd
    /\ Reset
    /\ UNCHANGED <<canceled, channel, children, port, start, sup, failures, asked>>

\* gracefulShutdownTimeout (5 s) passes first.  The supervisor can be that
\* long only where it waits for something outside: a child whose pipes are
\* held open (WaitDelay), the port probe with its kills, a health request.
\* A nil channel, left by a Start that failed, is never closed.
StopTimesOut ==
    /\ stop.at = "waiting" /\ stop.cmd
    /\ \/ stop.done = "nil"
       \/ ~closed /\ sup.at \in {"wait", "port", "health"}
    /\ proc' = IF proc = "alive" THEN "exited" ELSE proc
    /\ Reset
    /\ UNCHANGED <<canceled, channel, fresh, port, start, sup, failures, asked>>

StopStep == StopCancel \/ StopReturns \/ StopTimesOut

-----------------------------------------------------------------------------
\* supervise.
To(place) == sup' = [sup EXCEPT !.at = place]

\* Slip: the deferred function reads m.done when supervise returns.
EndsLate == To("ended") /\ Close(done)

\* The deferred close(m.done): m.done as it was when supervise began.
Ends == To("ended") /\ Close(sup.done)

SupBegin ==
    /\ sup.at = "begin"
    /\ sup' = [at |-> "loop", done |-> done]
    /\ UNCHANGED <<fields, canceled, channel, children, port, start, stop, failures, asked>>

SupLoop ==
    /\ sup.at = "loop"
    /\ IF hasCmd THEN To("wait") /\ UNCHANGED channel ELSE Ends
    /\ UNCHANGED <<fields, canceled, children, port, start, stop, failures, asked>>

\* Slip: m.running is left set when the child is gone.
SupWaitStillRunning ==
    /\ sup.at = "wait" /\ proc # "alive"
    /\ proc' = "none"
    /\ IF stopping THEN Ends ELSE To("backoff") /\ UNCHANGED channel
    /\ UNCHANGED <<running, stopping, hasCmd, hasCancel, done, canceled, fresh, port, start, stop, failures, asked>>

\* cmd.Wait returns (at once when it has been called before).
SupWait ==
    /\ sup.at = "wait" /\ proc # "alive"
    /\ proc' = "none"
    /\ running' = FALSE
    /\ IF stopping THEN Ends ELSE To("backoff") /\ UNCHANGED channel
    /\ UNCHANGED <<stopping, hasCmd, hasCancel, done, canceled, fresh, port, start, stop, failures, asked>>

\* The backoff passes, or the context is done.
SupBackoff ==
    /\ sup.at = "backoff"
    /\ \/ To("check") /\ UNCHANGED channel
       \/ canceled /\ Ends
    /\ UNCHANGED <<fields, canceled, children, port, start, stop, failures, asked>>

SupCheck ==
    /\ sup.at = "check"
    /\ IF stopping THEN Ends ELSE To("port") /\ UNCHANGED channel
    /\ UNCHANGED <<fields, canceled, children, port, start, stop, failures, asked>>

\* Slip: a taken port is not counted as a failed restart.
FailedUncounted ==
    /\ failures' = failures
    /\ To("loop") /\ UNCHANGED channel

\* A failed restart is counted; at the limit the supervisor gives up.  (The
\* count is kept up to the limit, all it is compared with.)
Failed ==
    /\ failures' = IF failures < MaxRestartFailures THEN failures + 1 ELSE failures
    /\ IF failures + 1 >= MaxRestartFailures THEN Ends ELSE To("loop") /\ UNCHANGED channel

\* preparePortForRestart: spawn (also when a probe fails), yield to a healthy
\* proxy, or try again.
SupPort ==
    /\ sup.at = "port"
    /\ \/ port' = port
       \/ port = "foreign" /\ port' \in Ports
    /\ CASE port' \in {"free", "unknown"} -> To("spawn") /\ UNCHANGED <<channel, failures>>
         [] port' = "healthy" -> Ends /\ UNCHANGED failures
         [] port' = "foreign" -> Failed
    /\ UNCHANGED <<fields, canceled, children, start, stop, asked>>

SupSpawnFails ==
    /\ sup.at = "spawn"
    /\ Failed
    /\ UNCHANGED <<fields, canceled, children, port, start, stop, asked>>

SupSpawn ==
    /\ sup.at = "spawn" /\ ~canceled
    /\ fresh' = "alive"
    /\ To("spawned")
    /\ UNCHANGED <<fields, canceled, channel, proc, port, start, stop, failures, asked>>

SupRegister ==
    /\ sup.at = "spawned" /\ ~stopping
    /\ Register
    /\ failures' = 0
    /\ To("health")
    /\ UNCHANGED <<stopping, hasCancel, done, canceled, channel, port, start, stop, asked>>

\* F1 again; unlike Start, the supervisor does not wait for the child.
SupKill ==
    /\ sup.at = "spawned" /\ stopping
    /\ fresh' = "exited"
    /\ Ends
    /\ UNCHANGED <<fields, canceled, proc, port, start, stop, failures, asked>>

\* waitForHealthy passes, times out or is cancelled.
SupHealth ==
    /\ sup.at = "health"
    /\ To("loop")
    /\ UNCHANGED <<fields, canceled, channel, children, port, start, stop, failures, asked>>

SupStep ==
    \/ SupBegin \/ SupLoop \/ SupWait \/ SupBackoff \/ SupCheck \/ SupPort
    \/ SupSpawnFails \/ SupSpawn \/ SupRegister \/ SupKill \/ SupHealth

-----------------------------------------------------------------------------
\* A child ends by itself ...
ChildExits ==
    /\ \/ proc = "alive" /\ proc' = "exited" /\ UNCHANGED fresh
       \/ fresh = "alive" /\ fresh' = "exited" /\ UNCHANGED proc
    /\ UNCHANGED <<fields, canceled, channel, port, start, stop, sup, failures, asked>>

\* ... or is killed by os/exec once the context of its command is done.
KillByContext ==
    /\ canceled
    /\ "alive" \in {proc, fresh}
    /\ proc' = IF proc = "alive" THEN "exited" ELSE proc
    /\ fresh' = IF fresh = "alive" THEN "exited" ELSE fresh
    /\ UNCHANGED <<fields, canceled, channel, port, start, stop, sup, failures, asked>>

PortChanges ==
    /\ port' \in Ports \ {port}
    /\ UNCHANGED <<fields, canceled, channel, children, start, stop, sup, failures, asked>>

Next ==
    \/ StartProbe \/ StartStep \/ StopFlag \/ StopStep \/ SupStep
    \/ ChildExits \/ KillByContext \/ PortChanges

Spec == Init /\ [][Next]_vars

\* Goroutines go on, timers fire and os/exec kills.  Nothing is assumed of
\* the child, the port or the calls of Stop.
FairSpec ==
    Spec /\ WF_vars(StartStep) /\ WF_vars(StopStep) /\ WF_vars(SupStep) /\ WF_vars(KillByContext)

-----------------------------------------------------------------------------
\* F1: once a Stop of a started manager has returned, and until it is started
\* again, no child lives, in whichever window of Start or of a restart the
\* call came and whether or not it gave up waiting.
StoppedMeansDown == asked /\ stop.at = "idle" => proc # "alive" /\ fresh # "alive"

\* F7: Stop waits for a channel that is closed, or that Start or the supervisor
\* is left to close, as it was when Stop looked at it or has become since.
StopAnswered ==
    stop.at = "waiting" /\ stop.done = "made" =>
       closed \/ start \in {"spawning", "started", "aborting"} \/ sup.at \in Supervising

\* F7: Stop always returns.
StopEnds == stop.at # "idle" ~> stop.at = "idle"

\* m.done is closed once and never when nil, which would take atlas down:
\* not by Start's error paths, not by a supervisor that outlives a timed-out
\* Stop, which has reset m.done by then.
NoPanic == ~panicked

\* Status never reports a running supervisor that is gone, and no child is
\* started while another one lives.
RunningMeansSupervised ==
    /\ running => sup.at \in Supervising
    /\ ~(proc = "alive" /\ fresh = "alive")

\* A child is spawned only under a context that is not cancelled, and only
\* while m.done is there for the next Stop to wait for: a supervisor that a
\* Stop has given up on never spawns again.
SpawnsInCharge == [][fresh # "alive" /\ fresh' = "alive" => ~canceled /\ done = "made"]_vars

\* Every child that has ended is waited for in the end, as the comment of
\* Start demands of a child that was killed ("cmd.Wait() must really reap").
\* SupKill does not: this does not hold.
AllReaped == <>[]asked => <>[](fresh # "exited")

\* No endless restart loop: while the port stays taken and the child dead,
\* the supervisor comes to its end.  (The probe must see that it is taken: one
\* that fails leads to a spawn, and a child that is registered before it dies
\* of the taken port sets the count back to 0, so that the loop has no end.)
GivesUp ==
    <>[](port \in {"healthy", "foreign"} /\ proc # "alive") => <>[](sup.at \in {"none", "ended"})
=============================================================================
