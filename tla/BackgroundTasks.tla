-------------------------- MODULE BackgroundTasks --------------------------
(***************************************************************************)
(* internal/apigateway/background.go: the loop that BackgroundTaskManager  *)
(* runs for one scheduled task, with the handlers cmd/atlas installs: the  *)
(* alert after three failures, the task_liveness row written after every   *)
(* run, and the StalenessMonitor of internal/liveness, which reads the row *)
(* every few minutes and alerts when it is older than three intervals.     *)
(*                                                                         *)
(* The model has one task.  The others touch it in one way only: when one  *)
(* of them recovers, the recovery handler resolves the open alerts of all  *)
(* (OtherRecovers).  Time goes in units of the overlap tolerance; every    *)
(* age is kept up to the value it is compared with.  Time-gated tasks      *)
(* (judged by a 72 h window), the data-health fields and what              *)
(* monitor.Alert does with an alert are left out: an alert is open from    *)
(* the call until something resolves it.  No task is started a second time *)
(* in one process, so the jitter for a task that has run before is never   *)
(* used.                                                                   *)
(***************************************************************************)
EXTENDS Integers

CONSTANTS
    Interval,       \* task.Interval
    Tolerance,      \* overlapTolerance(task.Interval)
    Stagger,        \* the longest startupStaggerDelay
    MaxLag,         \* how late a goroutine takes a tick that is ready
    StaleFactor,    \* StaleFactor
    AlertAfter,     \* failures from which the failure handler alerts
    MaxRestarts     \* bound on the restarts of the process

ASSUME BackgroundTasksAssumption ==
    /\ Interval \in Nat /\ Tolerance \in Nat /\ Tolerance < Interval
    /\ MaxLag \in Nat /\ MaxLag <= Tolerance
    /\ Stagger \in Nat /\ MaxRestarts \in Nat
    /\ StaleFactor \in Nat \ {0} /\ AlertAfter \in Nat \ {0}

VARIABLES
    enabled, since, failures,   \* task.Enabled, the age of lastRun, consecutiveFailures
    loop,                       \* where the task's goroutine is
    spent,                      \* how long it has been there, or left a tick waiting
    left, pending,              \* time.Ticker: time to the next tick, a tick is ready
    canceled,                   \* the context of Start is done
    row, writing,               \* task_liveness: age of last_run_at; a Record is under way
    scan, alerted,              \* StalenessMonitor: how far CheckOnce is with the task; alerted[task]
    staleOpen, failOpen,        \* the open alerts about the task
    restarts,
    mark, excuse, slipped, swept, crashed   \* history, see the properties

task == <<enabled, since, failures>>
ticker == <<left, pending>>
alerts == <<staleOpen, failOpen>>
monitor == <<scan, alerted>>
history == <<mark, excuse, slipped, swept, crashed>>
vars == <<task, loop, spent, ticker, canceled, row, writing, monitor, alerts, restarts, history>>

Never == -1
StaleAge == StaleFactor * Interval + 1

TypeOK ==
    /\ enabled \in BOOLEAN /\ since \in {Never} \cup 0 .. Interval /\ failures \in 0 .. AlertAfter
    /\ loop \in {"none", "delay", "idle", "running", "ended"}
    /\ spent \in 0 .. Interval /\ left \in 1 .. Interval /\ pending \in BOOLEAN
    /\ canceled \in BOOLEAN
    /\ row \in {Never} \cup 0 .. StaleAge /\ writing \in BOOLEAN
    /\ scan \in {"none", "fresh", "stale", "raised"} /\ alerted \in BOOLEAN
    /\ staleOpen \in BOOLEAN /\ failOpen \in BOOLEAN /\ restarts \in 0 .. MaxRestarts
    /\ mark \in {"none", "overran", "late"}
    /\ excuse \in BOOLEAN /\ slipped \in BOOLEAN /\ swept \in BOOLEAN /\ crashed \in BOOLEAN

\* A process begins: nothing in memory, all that the database holds.
Begin ==
    /\ enabled' = TRUE /\ since' = Never /\ failures' = 0
    /\ loop' \in {"none", "delay"} /\ spent' = 0
    /\ left' = Interval /\ pending' = FALSE
    /\ canceled' = FALSE /\ writing' = FALSE
    /\ scan' = "none" /\ alerted' = FALSE
    /\ mark' = "none" /\ slipped' = FALSE /\ swept' = FALSE /\ crashed' = FALSE

Init ==
    /\ enabled = TRUE /\ since = Never /\ failures = 0
    /\ loop \in {"none", "delay"} /\ spent = 0
    /\ left = Interval /\ pending = FALSE
    /\ canceled = FALSE /\ writing = FALSE /\ row = Never
    /\ scan = "none" /\ alerted = FALSE
    /\ staleOpen = FALSE /\ failOpen = FALSE /\ restarts = 0
    /\ mark = "none" /\ excuse = FALSE /\ slipped = FALSE /\ swept = FALSE /\ crashed = FALSE

-----------------------------------------------------------------------------
\* RegisterAndStart by a task that runs already (the fubon adapter watch);
\* tasks registered before Start are in their loops from the beginning.
RegisterAndStart ==
    /\ loop = "none" /\ ~canceled
    /\ loop' = "delay" /\ spent' = 0
    /\ UNCHANGED <<task, ticker, canceled, row, writing, monitor, alerts, restarts, history>>

\* Slip: no tolerance, so that a tick taken a little late loses the next.
DebouncedExactly == since # Never /\ since < Interval

\* The tick comes much earlier than an interval after the last run.
Debounced == since # Never /\ since < Interval - Tolerance

\* executeTask up to the call of task.Task, or its early returns.
Execute ==
    \/ /\ enabled /\ ~Debounced
       /\ loop' = "running" /\ since' = 0
       /\ mark' = IF mark = "overran" THEN "late" ELSE "none"
       /\ UNCHANGED excuse
    \/ /\ ~(enabled /\ ~Debounced)
       /\ loop' = "idle" /\ mark' = "none"
       /\ excuse' = (excuse \/ ~enabled)
       /\ UNCHANGED since

\* runTask after the stagger: a new ticker and the first run.
FirstRun ==
    /\ loop = "delay"
    /\ left' = Interval /\ pending' = FALSE /\ spent' = 0
    /\ Execute
    /\ UNCHANGED <<enabled, failures, canceled, row, writing, monitor, alerts, restarts, slipped, swept, crashed>>

TakeTick ==
    /\ loop = "idle" /\ pending
    /\ pending' = FALSE /\ spent' = 0
    /\ Execute
    /\ UNCHANGED <<enabled, failures, left, canceled, row, writing, monitor, alerts, restarts, slipped, swept, crashed>>

\* select on ctx.Done, in the stagger or in the loop.
LoopStops ==
    /\ loop \in {"delay", "idle"} /\ canceled
    /\ loop' = "ended" /\ spent' = 0
    /\ UNCHANGED <<task, ticker, canceled, row, writing, monitor, alerts, restarts, history>>

\* executeTask after the call of task.Task.
Finish ==
    /\ loop = "running"
    /\ spent' = 0
    /\ mark' = IF pending THEN "overran" ELSE mark
    /\ UNCHANGED <<enabled, since, ticker, canceled, row, monitor, restarts>>

\* Slip: a skipped tick counts as a success.
FinishSkippedAsSuccess ==
    /\ Finish
    /\ loop' = "idle" /\ failures' = 0 /\ excuse' = TRUE
    /\ UNCHANGED <<writing, alerts, slipped, swept, crashed>>

\* ErrTaskSkipped: neither a success nor a failure.
FinishSkipped ==
    /\ Finish
    /\ loop' = "idle" /\ excuse' = TRUE
    /\ UNCHANGED <<failures, writing, alerts, slipped, swept, crashed>>

\* Slip: a task that panics takes its loop with it.
FinishFailedEndsLoop ==
    /\ Finish
    /\ failures' = IF failures < AlertAfter THEN failures + 1 ELSE failures
    /\ failOpen' = (failOpen \/ failures' >= AlertAfter)
    /\ swept' = (swept /\ failures' < AlertAfter)
    /\ writing' = TRUE /\ loop' \in {"idle", "ended"}
    /\ UNCHANGED <<staleOpen, excuse, slipped, crashed>>

\* An error or a recovered panic: the failure handler alerts at the third in
\* a row and at every later one, the completion handler starts a Record.
FinishFailed ==
    /\ Finish
    /\ failures' = IF failures < AlertAfter THEN failures + 1 ELSE failures
    /\ failOpen' = (failOpen \/ failures' >= AlertAfter)
    /\ swept' = (swept /\ failures' < AlertAfter)
    /\ writing' = TRUE /\ loop' = "idle"
    /\ UNCHANGED <<staleOpen, excuse, slipped, crashed>>

\* The monitor will take the stale episode for alerted.
Silent == alerted \/ scan = "raised"

\* Success: after failures the recovery handler resolves every open alert of
\* the category, and in any case the completion handler resolves the task's.
FinishOk ==
    /\ Finish
    /\ failures' = 0
    /\ staleOpen' = FALSE /\ failOpen' = FALSE
    /\ writing' = TRUE /\ loop' = "idle"
    /\ slipped' = (slipped \/ Silent) /\ swept' = FALSE
    /\ UNCHANGED <<excuse, crashed>>

\* Success after failures, and the recovery handler, which nothing guards,
\* panics: runTask's own recover ends the loop.
RecoveryPanics ==
    /\ Finish
    /\ failures > 0 /\ failures' = 0
    /\ loop' = "ended" /\ crashed' = TRUE /\ excuse' = TRUE
    /\ UNCHANGED <<writing, alerts, slipped, swept>>

Returns == FinishSkipped \/ FinishFailed \/ FinishOk \/ RecoveryPanics

\* Another task succeeds after failures: its recovery handler resolves the
\* open alerts of the whole category, this task's too.  (So does a success of
\* a task whose name occurs in the alert's text, and the operator.)
OtherRecovers ==
    /\ staleOpen' = FALSE /\ failOpen' = FALSE
    /\ slipped' = (slipped \/ Silent)
    /\ swept' = (swept \/ failOpen)
    /\ UNCHANGED <<task, loop, spent, ticker, canceled, row, writing, monitor, restarts, mark, excuse, crashed>>

-----------------------------------------------------------------------------
\* liveness.Store.Record in the completion handler's goroutine.
RecordLands ==
    /\ writing /\ writing' = FALSE
    /\ row' = 0 /\ excuse' = FALSE
    /\ UNCHANGED <<task, loop, spent, ticker, canceled, monitor, alerts, restarts, mark, slipped, swept, crashed>>

RecordFails ==
    /\ writing /\ writing' = FALSE
    /\ excuse' = TRUE
    /\ UNCHANGED <<task, loop, spent, ticker, canceled, row, monitor, alerts, restarts, mark, slipped, swept, crashed>>

\* Slip: a run is expected every interval.
IsStaleAtOnce == row > Interval

IsStale == row > StaleFactor * Interval

\* CheckOnce reads the rows, at any time (in the code every five minutes); a
\* task that has no row yet is not looked at.
CheckList ==
    /\ scan = "none"
    /\ scan' = IF IsStale THEN "stale" ELSE "fresh"
    /\ UNCHANGED <<task, loop, spent, ticker, canceled, row, writing, alerted, alerts, restarts, history>>

\* List fails and CheckOnce returns the error before it changes anything.
ListFails ==
    /\ scan = "none"
    /\ UNCHANGED vars

\* CheckOnce goes on with what it read, whatever has happened since: alertIfNew
\* calls alertFn ...
CheckAlert ==
    /\ scan = "stale" /\ ~alerted
    /\ scan' = "raised" /\ staleOpen' = TRUE
    /\ UNCHANGED <<task, loop, spent, ticker, canceled, row, writing, alerted, failOpen, restarts, history>>

\* Slip: what was alerted once is never cleared.
CheckMarkForgetful ==
    /\ scan \in {"fresh", "raised"} \/ (scan = "stale" /\ alerted)
    /\ scan' = "none"
    /\ alerted' = (alerted \/ scan # "fresh")
    /\ slipped' = (slipped /\ scan # "fresh")
    /\ UNCHANGED <<task, loop, spent, ticker, canceled, row, writing, alerts, restarts, mark, excuse, swept, crashed>>

\* ... and then notes the episode, or CheckOnce finds it alerted or over.
CheckMark ==
    /\ scan \in {"fresh", "raised"} \/ (scan = "stale" /\ alerted)
    /\ scan' = "none"
    /\ alerted' = (scan # "fresh")
    /\ slipped' = (slipped /\ scan # "fresh")
    /\ UNCHANGED <<task, loop, spent, ticker, canceled, row, writing, alerts, restarts, mark, excuse, swept, crashed>>

\* SchedulerService.toggle.
SetEnabled ==
    /\ enabled' = ~enabled
    /\ UNCHANGED <<since, failures, loop, spent, ticker, canceled, row, writing, monitor, alerts, restarts, history>>

\* Stop, or the end of the context given to Start.
Stop ==
    /\ ~canceled /\ canceled' = TRUE
    /\ UNCHANGED <<task, loop, spent, ticker, row, writing, monitor, alerts, restarts, history>>

\* The process ends at any point and is started again.
Restart ==
    /\ restarts < MaxRestarts /\ restarts' = restarts + 1
    /\ Begin
    /\ excuse' = TRUE
    /\ UNCHANGED <<row, alerts>>

\* A unit of time.  Writes and checks end within it, and the goroutine
\* leaves neither its stagger nor a tick for longer than assumed.
Tick ==
    /\ ~writing /\ scan = "none"
    /\ loop = "delay" => spent < Stagger
    /\ loop = "idle" /\ pending => spent < MaxLag
    /\ since' = IF since \in {Never, Interval} THEN since ELSE since + 1
    /\ row' = IF row \in {Never, StaleAge} THEN row ELSE row + 1
    /\ LET fires == loop \in {"idle", "running"} /\ left = 1
       IN  /\ left' = CASE loop \notin {"idle", "running"} -> left
                         [] fires -> Interval
                         [] OTHER -> left - 1
           /\ pending' = (pending \/ fires)
    /\ spent' = CASE loop \in {"delay", "running"} \/ (loop = "idle" /\ pending) ->
                        IF spent < Interval THEN spent + 1 ELSE spent
                  [] OTHER -> 0
    /\ excuse' = (excuse \/ (loop = "running" /\ spent' = Interval) \/ loop = "ended")
    /\ UNCHANGED <<enabled, failures, loop, canceled, writing, monitor, alerts, restarts, mark, slipped, swept, crashed>>

Next ==
    \/ RegisterAndStart \/ FirstRun \/ TakeTick \/ LoopStops \/ Returns
    \/ OtherRecovers \/ RecordLands \/ RecordFails
    \/ CheckList \/ ListFails \/ CheckAlert \/ CheckMark
    \/ SetEnabled \/ Stop \/ Restart \/ Tick

Spec == Init /\ [][Next]_vars

\* Goroutines go on, time passes, and the rows are read again and again: List
\* does not fail for ever.  A task need not return.
FairSpec ==
    /\ Spec
    /\ WF_vars(FirstRun \/ TakeTick \/ LoopStops)
    /\ WF_vars(RecordLands \/ RecordFails)
    /\ WF_vars(CheckList) /\ WF_vars(CheckAlert \/ CheckMark)
    /\ SF_vars(Tick)

-----------------------------------------------------------------------------
\* #B02: the debounce costs a tick only when the last run went past one, or
\* began late behind one that did, and then a single tick.  (mark: "overran"
\* after the former, "late" after the latter.)
NoTickLost == [][TakeTick /\ enabled /\ Debounced => mark # "none"]_vars

\* The monitor never finds a task stale that is enabled and works: since its
\* row was last written it was disabled, skipped a tick, ran for an interval
\* or more, lost a write, had no loop, or atlas was down.
NoFalseAlarm == [][scan # "stale" /\ scan' = "stale" => excuse]_vars

\* A task whose row stays stale, not least one that hangs in its run, ends up
\* with an open alert, whatever List calls fail.  The exception: something
\* resolves the alert (a success whose row the monitor has not seen, another
\* task's recovery) while the monitor takes the episode for alerted already
\* and stays silent.
HangReported == <>[](row = StaleAge) => <>[]staleOpen \/ <>[]slipped

\* An enabled task that always returns runs again and again: no error, panic,
\* skip or debounced tick ends its loop, only a recovery handler that panics
\* does.
KeepsRunning ==
    <>[](enabled /\ ~canceled) /\ []<>(loop # "running")
       => []<>(loop = "running") \/ <>[](loop = "none" \/ crashed)

\* #B01: the alert about repeated failures is open only while the count that
\* a success resets has reached its threshold, and then it is open unless
\* another task's recovery has resolved it since the last failure; skipped
\* ticks in between change neither.
AlertFollowsCount ==
    restarts = 0 /\ ~crashed =>
       /\ failOpen => failures >= AlertAfter
       /\ failures >= AlertAfter => failOpen \/ swept

\* What the completion handler says of #1787: a success clears the alerts "for
\* THIS task only", so that an alert about a task outlives everything but a
\* success of that task.  It does not hold: see OtherRecovers.
OwnAlertsOnly ==
    [][(staleOpen /\ ~staleOpen') \/ (failOpen /\ ~failOpen') => loop = "running"]_vars
=============================================================================
