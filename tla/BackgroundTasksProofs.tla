------------------------ MODULE BackgroundTasksProofs ------------------------
(***************************************************************************)
(* Proofs about the loop of a scheduled task: the debounce costs a tick    *)
(* only after a run that went past one, the monitor finds no task stale    *)
(* that is enabled and works, and the failure alert follows the count of   *)
(* failures, for any interval, tolerance, stagger and lag the assumption   *)
(* allows.                                                                 *)
(***************************************************************************)
EXTENDS BackgroundTasks, TLAPS

-----------------------------------------------------------------------------
(* The ticker and the debounce. *)

InLoop == loop \in {"idle", "running"}

\* A task that has not been in its loop has not run, nor is its run recorded.
BeginInv == loop \in {"none", "delay"} => since = Never /\ ~pending /\ ~writing /\ (excuse \/ row = Never)

\* A tick that came while the task was idle is taken soon after it.
LagInv ==
    loop = "idle" /\ pending =>
        /\ spent <= MaxLag
        /\ mark # "overran" => left + spent = Interval

\* From the last run to the next tick it is almost an interval, unless the
\* run began late.
SpacingInv ==
    /\ InLoop /\ since # Never /\ (mark # "late" \/ pending) => since + left >= Interval - MaxLag
    /\ loop = "idle" /\ pending /\ since # Never /\ mark = "none" => since >= Interval - MaxLag

TickInv == TypeOK /\ BeginInv /\ LagInv /\ SpacingInv

-----------------------------------------------------------------------------
(* The age of the row. *)

\* While nothing excuses it and no write is under way, the row is about as
\* old as the last run, one interval older if a tick was debounced, and the
\* task is at the latest in a run that ends in time.
AgeInv ==
    /\ writing => spent = 0
    /\ ~excuse => row <= 3 * Interval
    /\ ~excuse /\ ~writing /\ loop = "idle" =>
          row <= since \/ since \in {Never, Interval}
    /\ ~excuse /\ ~writing /\ loop = "idle" /\ ~pending =>
          \/ row + left <= Interval
          \/ mark = "none" /\ row + left < 2 * Interval - Tolerance
    /\ ~excuse /\ ~writing /\ loop = "idle" /\ pending =>
          \/ row <= Interval + spent
          \/ mark = "none" /\ row < 2 * Interval - Tolerance + spent
    /\ ~excuse /\ loop = "running" =>
          /\ spent < Interval
          /\ ~writing => row < 2 * Interval + spent

Inv == TickInv /\ AgeInv

-----------------------------------------------------------------------------
(* What the steps do, in the terms of the invariant. *)

\* The age from which a row is no longer counted up.
LEMMA StaleAgeTyped == StaleAge \in Nat
  <1>1. Interval \in Nat /\ StaleFactor \in Nat
    BY BackgroundTasksAssumption
  <1>2. StaleFactor * Interval \in Nat
    BY <1>1
  <1>3. QED
    BY <1>2 DEF StaleAge

\* executeTask starts a run, or returns early: a debounced tick excuses nothing.
LEMMA ExecuteEffect ==
    ASSUME Execute
    PROVE  \/ /\ ~Debounced
              /\ loop' = "running" /\ since' = 0 /\ excuse' = excuse
              /\ mark' = IF mark = "overran" THEN "late" ELSE "none"
           \/ /\ ~excuse' => ~excuse /\ Debounced
              /\ excuse' \in BOOLEAN
              /\ loop' = "idle" /\ since' = since /\ mark' = "none"
  <1>1. CASE enabled /\ ~Debounced /\ loop' = "running"
    BY <1>1 DEF Execute
  <1>2. CASE ~(enabled /\ ~Debounced) /\ excuse' = (excuse \/ ~enabled)
    <2>1. excuse' \in BOOLEAN
      BY <1>2, Zenon
    <2>2. ~excuse' => ~excuse /\ Debounced
      BY <1>2, Zenon
    <2>3. QED
      BY <1>2, <2>1, <2>2 DEF Execute
  <1>3. QED
    BY <1>1, <1>2 DEF Execute

\* A unit of time.
LEMMA TickEffect ==
    ASSUME pending \in BOOLEAN, Tick
    PROVE  /\ ~writing /\ (loop = "idle" /\ pending => spent < MaxLag)
           /\ since' = IF since \in {Never, Interval} THEN since ELSE since + 1
           /\ row' = IF row \in {Never, StaleAge} THEN row ELSE row + 1
           /\ \/ InLoop /\ left = 1 /\ left' = Interval /\ pending' = TRUE
              \/ InLoop /\ left # 1 /\ left' = left - 1 /\ pending' = pending
              \/ ~InLoop /\ left' = left /\ pending' = pending
           /\ spent' = IF loop \in {"delay", "running"} \/ (loop = "idle" /\ pending)
                       THEN IF spent < Interval THEN spent + 1 ELSE spent
                       ELSE 0
           /\ excuse' \in BOOLEAN
           /\ ~excuse' => ~excuse /\ loop # "ended" /\ ~(loop = "running" /\ spent' = Interval)
           /\ UNCHANGED <<enabled, failures, loop, canceled, writing, monitor, alerts, restarts, mark, slipped, swept, crashed>>
  <1>1. excuse' = (excuse \/ (loop = "running" /\ spent' = Interval) \/ loop = "ended")
    BY DEF Tick
  <1>2. excuse' \in BOOLEAN
    BY <1>1, Zenon
  <1>3. ~excuse' => ~excuse /\ loop # "ended" /\ ~(loop = "running" /\ spent' = Interval)
    BY <1>1, Zenon
  <1>4. \/ InLoop /\ left = 1 /\ left' = Interval /\ pending' = TRUE
        \/ InLoop /\ left # 1 /\ left' = left - 1 /\ pending' = pending
        \/ ~InLoop /\ left' = left /\ pending' = pending
    <2> DEFINE fires == loop \in {"idle", "running"} /\ left = 1
    <2>1. /\ left' = CASE loop \notin {"idle", "running"} -> left
                       [] fires -> Interval
                       [] OTHER -> left - 1
          /\ pending' = (pending \/ fires)
      BY DEF Tick
    <2>2. CASE fires
      <3>1. pending' = TRUE
        BY <2>1, <2>2, Zenon
      <3>2. QED
        BY <2>1, <2>2, <3>1 DEF InLoop
    <2>3. CASE ~fires
      <3>1. pending' = pending
        BY <2>1, <2>3, Zenon
      <3>2. QED
        BY <2>1, <2>3, <3>1 DEF InLoop
    <2>4. QED
      BY <2>2, <2>3
  <1>5. /\ ~writing /\ (loop = "idle" /\ pending => spent < MaxLag)
        /\ since' = IF since \in {Never, Interval} THEN since ELSE since + 1
        /\ row' = IF row \in {Never, StaleAge} THEN row ELSE row + 1
        /\ spent' = IF loop \in {"delay", "running"} \/ (loop = "idle" /\ pending)
                    THEN IF spent < Interval THEN spent + 1 ELSE spent
                    ELSE 0
        /\ UNCHANGED <<enabled, failures, loop, canceled, writing, monitor, alerts, restarts, mark, slipped, swept, crashed>>
    BY DEF Tick
  <1>6. QED
    BY <1>2, <1>3, <1>4, <1>5

-----------------------------------------------------------------------------
(* Types. *)

Flags ==
    /\ enabled \in BOOLEAN /\ pending \in BOOLEAN /\ canceled \in BOOLEAN /\ writing \in BOOLEAN
    /\ alerted \in BOOLEAN /\ staleOpen \in BOOLEAN /\ failOpen \in BOOLEAN
    /\ excuse \in BOOLEAN /\ slipped \in BOOLEAN /\ swept \in BOOLEAN /\ crashed \in BOOLEAN

Ages ==
    /\ since \in {Never} \cup 0 .. Interval /\ failures \in 0 .. AlertAfter
    /\ loop \in {"none", "delay", "idle", "running", "ended"}
    /\ spent \in 0 .. Interval /\ left \in 1 .. Interval
    /\ row \in {Never} \cup 0 .. StaleAge
    /\ restarts \in 0 .. MaxRestarts /\ scan \in {"none", "fresh", "stale", "raised"}
    /\ mark \in {"none", "overran", "late"}

\* The type invariant in two halves, for the provers.
LEMMA TypeHalves == TypeOK <=> Flags /\ Ages
  BY DEF TypeOK, Flags, Ages

\* A flag is set, kept or computed from flags.
LEMMA FlagsTyped == ASSUME Flags, [Next]_vars PROVE Flags'
  <1> USE DEF Flags
  <1>1. CASE FirstRun \/ TakeTick
    <2>1. Execute
      BY <1>1 DEF FirstRun, TakeTick
    <2>2. excuse' \in BOOLEAN
      BY <2>1, ExecuteEffect
    <2>3. QED
      BY <1>1, <2>2 DEF FirstRun, TakeTick, alerts, monitor
  <1>2. CASE FinishSkipped \/ RecoveryPanics
    BY <1>2 DEF FinishSkipped, RecoveryPanics, Finish, alerts, ticker, monitor
  <1>3. CASE FinishFailed
    <2>1. failOpen' \in BOOLEAN /\ swept' \in BOOLEAN
      BY <1>3, Zenon DEF FinishFailed
    <2>2. QED
      BY <1>3, <2>1 DEF FinishFailed, Finish, ticker, monitor
  <1>4. CASE FinishOk
    <2>1. slipped' \in BOOLEAN
      BY <1>4, Zenon DEF FinishOk, Silent
    <2>2. QED
      BY <1>4, <2>1 DEF FinishOk, Finish, ticker, monitor
  <1>5. CASE RegisterAndStart \/ LoopStops \/ Stop
    BY <1>5 DEF RegisterAndStart, LoopStops, Stop, task, ticker, alerts, monitor, history
  <1>6. CASE RecordLands \/ RecordFails
    BY <1>6 DEF RecordLands, RecordFails, task, ticker, alerts, monitor
  <1>7. CASE CheckList \/ ListFails \/ CheckAlert \/ CheckMark \/ OtherRecovers
    <2>1. CASE CheckMark
      <3>1. alerted' \in BOOLEAN /\ slipped' \in BOOLEAN
        BY <2>1, Zenon DEF CheckMark
      <3>2. QED
        BY <2>1, <3>1 DEF CheckMark, task, ticker, alerts
    <2>2. CASE OtherRecovers
      <3>1. slipped' \in BOOLEAN /\ swept' \in BOOLEAN
        BY <2>2, Zenon DEF OtherRecovers, Silent
      <3>2. QED
        BY <2>2, <3>1 DEF OtherRecovers, task, ticker, monitor
    <2>3. CASE CheckList \/ ListFails
      BY <2>3 DEF CheckList, ListFails, vars, task, ticker, alerts, monitor, history
    <2>4. CASE CheckAlert
      BY <2>4 DEF CheckAlert, task, ticker, history
    <2>5. QED
      BY <1>7, <2>1, <2>2, <2>3, <2>4
  <1>8. CASE SetEnabled
    <2>1. enabled' \in BOOLEAN
      BY <1>8, Zenon DEF SetEnabled
    <2>2. QED
      BY <1>8, <2>1 DEF SetEnabled, ticker, alerts, monitor, history
  <1>9. CASE Restart
    BY <1>9 DEF Restart, Begin, alerts
  <1>10. CASE Tick
    <2>1. pending' \in BOOLEAN /\ excuse' \in BOOLEAN
      BY <1>10, TickEffect
    <2>2. QED
      BY <1>10, <2>1 DEF Tick, alerts, monitor
  <1>11. CASE UNCHANGED vars
    BY <1>11 DEF vars, task, ticker, alerts, monitor, history
  <1>12. QED
    BY <1>1, <1>2, <1>3, <1>4, <1>5, <1>6, <1>7, <1>8, <1>9, <1>10, <1>11 DEF Next, Returns

\* An age is reset, kept or counted up to what it is compared with.
LEMMA AgesTyped == ASSUME Flags, Ages, [Next]_vars PROVE Ages'
  <1> USE DEF Ages
  <1>1. Interval \in Nat \ {0} /\ MaxRestarts \in Nat /\ AlertAfter \in Nat \ {0}
    BY BackgroundTasksAssumption
  <1>2. CASE FirstRun \/ TakeTick
    <2>1. Execute
      BY <1>2 DEF FirstRun, TakeTick
    <2>2. loop' \in {"idle", "running"} /\ mark' \in {"none", "late"} /\ since' \in {since, 0}
      BY <2>1, ExecuteEffect
    <2>3. since' \in {Never} \cup 0 .. Interval
      BY <1>1, <2>2
    <2>4. left' \in 1 .. Interval /\ spent' = 0
      BY <1>1, <1>2 DEF FirstRun, TakeTick
    <2>5. QED
      BY <1>1, <1>2, <2>2, <2>3, <2>4 DEF FirstRun, TakeTick, monitor
  <1>3. CASE Returns
    <2>1. failures' \in 0 .. AlertAfter
      BY <1>1, <1>3 DEF Returns, FinishSkipped, FinishFailed, FinishOk, RecoveryPanics
    <2>2. mark' \in {"none", "overran", "late"} /\ spent' \in 0 .. Interval
      BY <1>1, <1>3 DEF Returns, FinishSkipped, FinishFailed, FinishOk, RecoveryPanics, Finish
    <2>3. loop' \in {"idle", "ended"}
      BY <1>3 DEF Returns, FinishSkipped, FinishFailed, FinishOk, RecoveryPanics
    <2>4. UNCHANGED <<since, left, row, restarts, scan>>
      BY <1>3 DEF Returns, FinishSkipped, FinishFailed, FinishOk, RecoveryPanics, Finish, ticker, monitor
    <2>5. QED
      BY <2>1, <2>2, <2>3, <2>4
  <1>4. CASE RegisterAndStart \/ LoopStops \/ Stop
    <2>1. loop' \in {"none", "delay", "idle", "running", "ended"} /\ spent' \in 0 .. Interval
      BY <1>1, <1>4 DEF RegisterAndStart, LoopStops, Stop
    <2>2. QED
      BY <1>4, <2>1 DEF RegisterAndStart, LoopStops, Stop, task, ticker, monitor, history
  <1>5. CASE RecordLands \/ RecordFails
    <2>1. row' \in {Never} \cup 0 .. StaleAge
      BY <1>5, StaleAgeTyped DEF RecordLands, RecordFails
    <2>2. QED
      BY <1>5, <2>1 DEF RecordLands, RecordFails, task, ticker, monitor
  <1>6. CASE CheckList \/ ListFails \/ CheckAlert \/ CheckMark \/ OtherRecovers \/ SetEnabled
    <2>1. scan' \in {"none", "fresh", "stale", "raised"}
      BY <1>6 DEF CheckList, ListFails, CheckAlert, CheckMark, OtherRecovers, SetEnabled, vars, monitor
    <2>2. QED
      BY <1>6, <2>1 DEF CheckList, ListFails, CheckAlert, CheckMark, OtherRecovers, SetEnabled, vars, task,
                        ticker, monitor, history
  <1>7. CASE Restart
    <2>1. restarts' \in 0 .. MaxRestarts /\ left' \in 1 .. Interval
      BY <1>1, <1>7 DEF Restart, Begin
    <2>2. QED
      BY <1>1, <1>7, <2>1 DEF Restart, Begin
  <1>8. CASE Tick
    <2>1. since' \in {Never} \cup 0 .. Interval
      BY <1>1, <1>8 DEF Tick, Never
    <2>2. row' \in {Never} \cup 0 .. StaleAge
      BY <1>8, StaleAgeTyped DEF Tick, Never
    <2>3. left' \in 1 .. Interval
      <3>1. left' = left \/ left' = Interval \/ (left # 1 /\ left' = left - 1)
        BY <1>8, TickEffect DEF Flags
      <3>2. QED
        BY <1>1, <3>1
    <2>4. spent' \in 0 .. Interval
      BY <1>1, <1>8, TickEffect DEF Flags
    <2>5. QED
      BY <1>8, <2>1, <2>2, <2>3, <2>4 DEF Tick, monitor
  <1>9. CASE UNCHANGED vars
    BY <1>9 DEF vars, task, ticker, monitor, history
  <1>10. QED
    BY <1>2, <1>3, <1>4, <1>5, <1>6, <1>7, <1>8, <1>9 DEF Next

-----------------------------------------------------------------------------
(* The invariant, step by step. *)

\* What the steps use of the types.
LEMMA Typed ==
    ASSUME TypeOK
    PROVE  /\ Flags /\ Ages
           /\ Interval \in Nat \ {0} /\ Tolerance \in Nat /\ MaxLag \in Nat
           /\ Tolerance < Interval /\ MaxLag <= Tolerance
  BY TypeHalves, BackgroundTasksAssumption

\* A run begins, or a tick is debounced.
LEMMA ExecuteKeepsInv ==
    ASSUME Inv, FirstRun \/ TakeTick
    PROVE  (BeginInv /\ LagInv /\ SpacingInv /\ AgeInv)'
  <1>1. Flags /\ Ages /\ BeginInv /\ LagInv /\ SpacingInv /\ AgeInv
    BY Typed DEF Inv, TickInv
  <1>2. /\ Interval \in Nat \ {0} /\ Tolerance \in Nat /\ MaxLag \in Nat
        /\ Tolerance < Interval /\ MaxLag <= Tolerance
    BY BackgroundTasksAssumption
  <1>3. /\ pending' = FALSE /\ spent' = 0 /\ loop' \in {"idle", "running"}
        /\ UNCHANGED <<row, writing>>
    BY ExecuteEffect DEF FirstRun, TakeTick, Execute
  <1>4. BeginInv' /\ LagInv'
    BY <1>3 DEF BeginInv, LagInv
  <1>5. CASE FirstRun
    <2>1. since = Never /\ ~writing /\ (excuse \/ row = Never) /\ left' = Interval
      BY <1>1, <1>5 DEF BeginInv, FirstRun
    <2>2. \/ loop' = "running" /\ since' = 0 /\ excuse' = excuse
          \/ loop' = "idle" /\ since' = Never /\ excuse'
      <3>1. ~Debounced
        BY <2>1 DEF Debounced
      <3>2. Execute
        BY <1>5 DEF FirstRun
      <3>3. QED
        BY <2>1, <3>1, <3>2, ExecuteEffect
    <2>3. SpacingInv'
      BY <1>2, <1>3, <2>1, <2>2 DEF SpacingInv
    <2>4. AgeInv'
      BY <1>2, <1>3, <2>1, <2>2 DEF AgeInv, Never
    <2>5. QED
      BY <1>4, <2>3, <2>4
  <1>6. CASE TakeTick
    <2>1. loop = "idle" /\ pending /\ left' = left
      BY <1>6 DEF TakeTick
    <2>2. Execute
      BY <1>6 DEF TakeTick
    <2>3. spent <= MaxLag /\ (mark # "overran" => left + spent = Interval)
      BY <1>1, <2>1 DEF LagInv
    <2>4. CASE /\ loop' = "running" /\ since' = 0 /\ excuse' = excuse
               /\ mark' = IF mark = "overran" THEN "late" ELSE "none"
      <3>1. SpacingInv'
        BY <1>1, <1>2, <1>3, <2>1, <2>3, <2>4 DEF SpacingInv, Ages
      <3>2. AgeInv'
        BY <1>1, <1>2, <1>3, <2>1, <2>3, <2>4 DEF AgeInv, Ages, Never
      <3>3. QED
        BY <1>4, <3>1, <3>2
    <2>5. CASE /\ ~excuse' => ~excuse /\ Debounced
               /\ loop' = "idle" /\ since' = since /\ mark' = "none"
      <3>1. SpacingInv'
        BY <1>1, <1>2, <1>3, <2>1, <2>5 DEF SpacingInv, InLoop, Ages
      <3>2. CASE excuse'
        BY <1>4, <3>1, <3>2, <1>3, <2>5 DEF AgeInv
      <3>3. CASE ~excuse'
        <4>1. ~excuse /\ since # Never /\ since < Interval - Tolerance
          BY <2>5, <3>3 DEF Debounced
        <4>2. mark # "none"
          BY <1>1, <1>2, <2>1, <4>1 DEF SpacingInv, Ages, Never
        <4>3. ~writing => row <= since /\ row <= Interval + spent
          BY <1>1, <1>2, <2>1, <4>1, <4>2 DEF AgeInv, Ages, Never
        <4>4. row <= 3 * Interval
          BY <1>1, <4>1 DEF AgeInv
        <4>5. ~writing => row + left < 2 * Interval - Tolerance
          BY <1>1, <1>2, <4>1, <4>3 DEF Ages, Never
        <4>6. AgeInv'
          BY <1>3, <2>1, <2>5, <4>3, <4>4, <4>5 DEF AgeInv
        <4>7. QED
          BY <1>4, <3>1, <4>6
      <3>4. QED
        BY <3>2, <3>3
    <2>6. QED
      BY <2>2, <2>4, <2>5, ExecuteEffect
  <1>7. QED
    BY <1>5, <1>6

\* A run ends: its row is about to be written, or the end is excused.
LEMMA ReturnsKeepInv ==
    ASSUME Inv, Returns
    PROVE  (BeginInv /\ LagInv /\ SpacingInv /\ AgeInv)'
  <1>1. Flags /\ Ages /\ BeginInv /\ LagInv /\ SpacingInv /\ AgeInv
    BY Typed DEF Inv, TickInv
  <1>2. /\ Interval \in Nat \ {0} /\ Tolerance \in Nat /\ MaxLag \in Nat
        /\ Tolerance < Interval /\ MaxLag <= Tolerance
    BY BackgroundTasksAssumption
  <1>3. /\ loop = "running" /\ loop' \in {"idle", "ended"} /\ spent' = 0
        /\ mark' = IF pending THEN "overran" ELSE mark
        /\ UNCHANGED <<since, left, pending, row>>
    BY DEF Returns, FinishSkipped, FinishFailed, FinishOk, RecoveryPanics, Finish, ticker
  <1>4. \/ excuse' = TRUE /\ writing' = writing
        \/ writing' = TRUE /\ excuse' = excuse
    BY DEF Returns, FinishSkipped, FinishFailed, FinishOk, RecoveryPanics
  <1>5. BeginInv' /\ LagInv'
    BY <1>2, <1>3 DEF BeginInv, LagInv
  <1>6. SpacingInv'
    BY <1>1, <1>3 DEF SpacingInv, InLoop
  <1>7. AgeInv'
    BY <1>1, <1>3, <1>4 DEF AgeInv
  <1>8. QED
    BY <1>5, <1>6, <1>7

\* A row lands, or does not.
LEMMA RecordKeepsInv ==
    ASSUME Inv, RecordLands \/ RecordFails
    PROVE  (BeginInv /\ LagInv /\ SpacingInv /\ AgeInv)'
  <1>1. Flags /\ Ages /\ BeginInv /\ LagInv /\ SpacingInv /\ AgeInv
    BY Typed DEF Inv, TickInv
  <1>2. /\ Interval \in Nat \ {0} /\ Tolerance \in Nat
    BY BackgroundTasksAssumption
  <1>3. UNCHANGED <<since, loop, spent, left, pending, mark>>
    BY DEF RecordLands, RecordFails, task, ticker
  <1>4. writing /\ (excuse' = TRUE \/ (row' = 0 /\ writing' = FALSE /\ excuse' = FALSE))
    BY DEF RecordLands, RecordFails
  <1>5. spent = 0
    BY <1>1, <1>4 DEF AgeInv
  <1>6. BeginInv' /\ LagInv' /\ SpacingInv'
    BY <1>1, <1>3, <1>4 DEF BeginInv, LagInv, SpacingInv, InLoop
  <1>7. CASE excuse' = TRUE
    BY <1>3, <1>5, <1>6, <1>7 DEF AgeInv
  <1>8. CASE row' = 0 /\ excuse' = FALSE
    <2>1. AgeInv'
      BY <1>1, <1>2, <1>3, <1>5, <1>8 DEF AgeInv, Ages, Never
    <2>2. QED
      BY <1>6, <2>1
  <1>9. QED
    BY <1>4, <1>7, <1>8

\* An age goes up as the time to the next tick goes down.
LEMMA BothMoveOn ==
    ASSUME NEW age \in Int, NEW age1 \in Int, age1 <= age + 1,
           NEW rest \in 1 .. Interval, rest # 1, NEW rest1, rest1 = rest - 1
    PROVE  /\ age + rest <= Interval => age1 + rest1 <= Interval
           /\ age + rest < 2 * Interval - Tolerance => age1 + rest1 < 2 * Interval - Tolerance
           /\ age + rest <= Interval \/ age + rest < 2 * Interval - Tolerance => age1 <= 3 * Interval
  BY BackgroundTasksAssumption

\* Time passes: ages grow together, and what takes too long is excused.
LEMMA TickKeepsInv ==
    ASSUME Inv, Tick
    PROVE  (BeginInv /\ LagInv /\ SpacingInv /\ AgeInv)'
  <1>1. Flags /\ Ages /\ BeginInv /\ LagInv /\ SpacingInv /\ AgeInv
    BY Typed DEF Inv, TickInv
  <1>2. /\ Interval \in Nat \ {0} /\ Tolerance \in Nat /\ MaxLag \in Nat
        /\ Tolerance < Interval /\ MaxLag <= Tolerance
    BY BackgroundTasksAssumption
  <1>3. /\ ~writing /\ (loop = "idle" /\ pending => spent < MaxLag)
        /\ \/ InLoop /\ left = 1 /\ left' = Interval /\ pending' = TRUE
           \/ InLoop /\ left # 1 /\ left' = left - 1 /\ pending' = pending
           \/ ~InLoop /\ left' = left /\ pending' = pending
        /\ loop' = loop /\ writing' = writing /\ mark' = mark
    BY <1>1, TickEffect DEF Flags
  <1>4. /\ since' = IF since \in {Never, Interval} THEN since ELSE since + 1
        /\ row' = IF row \in {Never, StaleAge} THEN row ELSE row + 1
        /\ spent' = IF loop \in {"delay", "running"} \/ (loop = "idle" /\ pending)
                    THEN IF spent < Interval THEN spent + 1 ELSE spent
                    ELSE 0
    BY <1>1, TickEffect DEF Flags
  <1>5. ~excuse' => ~excuse /\ loop # "ended" /\ ~(loop = "running" /\ spent' = Interval)
    BY <1>1, TickEffect DEF Flags
  <1>6. BeginInv'
    <2>1. row = Never => row' = Never
      BY <1>4
    <2>2. since = Never => since' = Never
      BY <1>4
    <2>3. loop \in {"none", "delay"} => pending' = pending
      BY <1>3 DEF InLoop
    <2>4. QED
      BY <1>1, <1>3, <1>5, <2>1, <2>2, <2>3 DEF BeginInv, Tick
  <1>7. LagInv'
    <2>1. CASE loop = "idle" /\ pending
      <3>1. spent < MaxLag /\ spent' = spent + 1
        BY <1>1, <1>2, <1>3, <1>4, <2>1 DEF Ages
      <3>2. mark # "overran" => left + spent = Interval
        BY <1>1, <2>1 DEF LagInv
      <3>3. mark # "overran" => left' = left - 1
        <4>1. left \in 1 .. Interval /\ spent \in 0 .. Interval
          BY <1>1 DEF Ages
        <4>2. mark # "overran" => left # 1
          BY <1>2, <3>1, <3>2, <4>1
        <4>3. QED
          BY <1>3, <2>1, <4>2 DEF InLoop
      <3>4. spent' <= MaxLag /\ (mark # "overran" => left' + spent' = Interval)
        BY <1>1, <1>2, <3>1, <3>2, <3>3 DEF Ages
      <3>5. QED
        BY <1>3, <3>4 DEF LagInv
    <2>2. CASE loop = "idle" /\ ~pending
      <3>1. spent' = 0
        BY <1>4, <2>2
      <3>2. pending' => left' = Interval
        BY <1>3, <2>2 DEF InLoop
      <3>3. QED
        BY <1>2, <3>1, <3>2 DEF LagInv
    <2>3. CASE loop # "idle"
      BY <1>3, <2>3 DEF LagInv
    <2>4. QED
      BY <2>1, <2>2, <2>3
  <1>8. SpacingInv'
    BY <1>1, <1>2, <1>3, <1>4 DEF SpacingInv, LagInv, InLoop, Ages, Never
  <1>9. AgeInv'
    <2>1. ~writing' /\ row \in Int /\ row' \in Int /\ row' <= row + 1
      BY <1>1, <1>3, <1>4, StaleAgeTyped DEF Ages, Never
    <2>2. CASE excuse'
      BY <2>1, <2>2 DEF AgeInv
    <2>3. CASE ~excuse'
      <3>1. ~excuse /\ loop # "ended" /\ ~(loop = "running" /\ spent' = Interval)
        BY <1>5, <2>3
      <3>2. CASE loop \in {"none", "delay"}
        BY <1>1, <1>2, <1>3, <1>4, <2>1, <3>1, <3>2 DEF AgeInv, BeginInv, Never
      <3>3. CASE loop = "idle"
        <4>1. row <= since \/ since \in {Never, Interval}
          BY <1>1, <1>3, <3>1, <3>3 DEF AgeInv
        <4>2. row' <= since' \/ since' \in {Never, Interval}
          BY <1>1, <1>2, <1>4, <2>1, <4>1, StaleAgeTyped DEF Ages, Never
        <4>3. CASE pending
          <5>1. spent < MaxLag /\ spent' = spent + 1
            BY <1>1, <1>2, <1>3, <1>4, <3>3, <4>3 DEF Ages
          <5>2. row <= Interval + spent \/ (mark = "none" /\ row < 2 * Interval - Tolerance + spent)
            BY <1>1, <1>3, <3>1, <3>3, <4>3 DEF AgeInv
          <5>3. row' <= Interval + spent' \/ (mark = "none" /\ row' < 2 * Interval - Tolerance + spent')
            BY <1>1, <1>2, <2>1, <5>1, <5>2 DEF Ages
          <5>4. row' <= 3 * Interval
            BY <1>1, <1>2, <2>1, <5>1, <5>3 DEF Ages
          <5>5. pending' = TRUE
            BY <1>3, <3>3, <4>3 DEF InLoop
          <5>6. QED
            BY <1>3, <2>1, <3>3, <4>2, <5>3, <5>4, <5>5 DEF AgeInv
        <4>4. CASE ~pending
          <5>1. spent' = 0
            BY <1>4, <3>3, <4>4
          <5>2. row + left <= Interval \/ (mark = "none" /\ row + left < 2 * Interval - Tolerance)
            BY <1>1, <1>3, <3>1, <3>3, <4>4 DEF AgeInv
          <5>3. CASE left = 1
            <6>1. pending' = TRUE
              BY <1>3, <3>3, <5>3 DEF InLoop
            <6>2. row' <= Interval \/ (mark = "none" /\ row' < 2 * Interval - Tolerance)
              BY <1>2, <2>1, <5>2, <5>3
            <6>3. row' <= 3 * Interval
              BY <1>2, <2>1, <6>2
            <6>4. QED
              BY <1>2, <1>3, <2>1, <3>3, <4>2, <5>1, <6>1, <6>2, <6>3 DEF AgeInv
          <5>4. CASE left # 1
            <6>1. pending' = FALSE
              BY <1>1, <1>3, <3>3, <4>4, <5>4 DEF InLoop, Flags
            <6>2. left \in 1 .. Interval /\ left' = left - 1
              BY <1>1, <1>3, <3>3, <5>4 DEF InLoop, Ages
            <6>3. row' + left' <= Interval \/ (mark = "none" /\ row' + left' < 2 * Interval - Tolerance)
              <7>1. /\ row + left <= Interval => row' + left' <= Interval
                    /\ row + left < 2 * Interval - Tolerance => row' + left' < 2 * Interval - Tolerance
                BY <2>1, <5>4, <6>2, BothMoveOn
              <7>2. QED
                BY <5>2, <7>1, Zenon
            <6>4. row' <= 3 * Interval
              BY <1>2, <2>1, <5>2, <5>4, <6>2, BothMoveOn
            <6>5. QED
              BY <1>3, <2>1, <3>3, <4>2, <6>1, <6>3, <6>4 DEF AgeInv
          <5>5. QED
            BY <5>3, <5>4
        <4>5. QED
          BY <4>3, <4>4
      <3>4. CASE loop = "running"
        <4>1. spent < Interval /\ row < 2 * Interval + spent
          BY <1>1, <1>3, <3>1, <3>4 DEF AgeInv
        <4>2. spent' = spent + 1 /\ spent' < Interval
          BY <1>1, <1>2, <1>4, <3>1, <3>4, <4>1 DEF Ages
        <4>3. row' < 2 * Interval + spent' /\ row' <= 3 * Interval
          BY <1>1, <1>2, <2>1, <4>1, <4>2 DEF Ages
        <4>4. QED
          BY <1>3, <2>1, <3>4, <4>2, <4>3 DEF AgeInv
      <3>5. QED
        BY <1>1, <3>1, <3>2, <3>3, <3>4 DEF Ages
    <2>4. QED
      BY <2>2, <2>3
  <1>10. QED
    BY <1>6, <1>7, <1>8, <1>9

\* What else happens moves no age: the process begins anew, the loop ends.
LEMMA AroundKeepsInv ==
    ASSUME Inv,
           \/ RegisterAndStart \/ LoopStops \/ SetEnabled \/ Stop \/ Restart
           \/ OtherRecovers \/ CheckList \/ ListFails \/ CheckAlert \/ CheckMark
    PROVE  (BeginInv /\ LagInv /\ SpacingInv /\ AgeInv)'
  <1>1. Flags /\ Ages /\ BeginInv /\ LagInv /\ SpacingInv /\ AgeInv
    BY Typed DEF Inv, TickInv
  <1>2. CASE RegisterAndStart \/ LoopStops
    <2>1. /\ loop' \in {"delay", "ended"} /\ spent' = 0
          /\ loop' = "delay" => loop = "none"
          /\ UNCHANGED <<since, pending, writing, excuse, row>>
      BY <1>2 DEF RegisterAndStart, LoopStops, task, ticker, history
    <2>2. QED
      BY <1>1, <2>1 DEF BeginInv, LagInv, SpacingInv, AgeInv, InLoop
  <1>3. CASE SetEnabled \/ Stop \/ OtherRecovers \/ CheckList \/ ListFails \/ CheckAlert \/ CheckMark
    <2>1. UNCHANGED <<since, loop, spent, left, pending, row, writing, mark, excuse>>
      BY <1>3 DEF SetEnabled, Stop, OtherRecovers, CheckList, ListFails, CheckAlert, CheckMark, vars, task,
                  ticker, history
    <2>2. QED
      BY <1>1, <2>1 DEF BeginInv, LagInv, SpacingInv, AgeInv, InLoop
  <1>4. CASE Restart
    <2>1. /\ loop' \in {"none", "delay"} /\ since' = Never /\ excuse' = TRUE
          /\ pending' = FALSE /\ writing' = FALSE
      BY <1>4 DEF Restart, Begin
    <2>2. QED
      BY <2>1 DEF BeginInv, LagInv, SpacingInv, AgeInv, InLoop
  <1>5. QED
    BY <1>2, <1>3, <1>4

\* The invariant holds when the first process begins ...
LEMMA InitInv == Init => Inv
  <1> SUFFICES ASSUME Init PROVE Inv
    OBVIOUS
  <1>1. Interval \in Nat \ {0} /\ MaxRestarts \in Nat /\ AlertAfter \in Nat
    BY BackgroundTasksAssumption
  <1>2. Flags
    BY DEF Init, Flags
  <1>3. Ages
    BY <1>1 DEF Init, Ages
  <1>4. BeginInv /\ LagInv /\ SpacingInv
    BY DEF Init, BeginInv, LagInv, SpacingInv, InLoop
  <1>5. AgeInv
    BY <1>1 DEF Init, AgeInv, Never
  <1>6. QED
    BY <1>2, <1>3, <1>4, <1>5, TypeHalves DEF Inv, TickInv

\* ... and always.
LEMMA AlwaysInv == Spec => []Inv
  <1>1. Inv /\ [Next]_vars => Inv'
    <2> SUFFICES ASSUME Inv, [Next]_vars PROVE Inv'
      OBVIOUS
    <2>1. Flags' /\ Ages'
      BY Typed, FlagsTyped, AgesTyped DEF Inv, TickInv
    <2>2. TypeOK'
      BY <2>1 DEF Flags, Ages, TypeOK
    <2>3. (BeginInv /\ LagInv /\ SpacingInv /\ AgeInv)'
      <3>1. CASE UNCHANGED vars
        BY <3>1 DEF vars, task, ticker, history, Inv, TickInv, BeginInv, LagInv, SpacingInv, AgeInv, InLoop
      <3>2. QED
        BY <3>1, ExecuteKeepsInv, ReturnsKeepInv, RecordKeepsInv, TickKeepsInv, AroundKeepsInv DEF Next
    <2>4. QED
      BY <2>2, <2>3 DEF Inv, TickInv
  <1>2. QED
    BY InitInv, <1>1, PTL DEF Spec

-----------------------------------------------------------------------------
(* The theorems. *)

\* All variables of the loop, the ticker, the row and the alerts stay in
\* their types.
THEOREM TypeCorrect == Spec => []TypeOK
  <1>1. Inv => TypeOK
    BY DEF Inv, TickInv
  <1>2. QED
    BY <1>1, AlwaysInv, PTL

\* #B02: the debounce costs a tick only when the last run went past one, or
\* began late behind one that did, for any tolerance that is shorter than
\* the interval and covers the lag of the goroutine.
THEOREM NoTickLostHolds == Spec => NoTickLost
  <1> DEFINE Kept == TakeTick /\ enabled /\ Debounced => mark # "none"
  <1>1. ASSUME Inv, TakeTick, Debounced PROVE mark # "none"
    <2>1. loop = "idle" /\ pending /\ since # Never /\ since < Interval - Tolerance
      BY <1>1 DEF TakeTick, Debounced
    <2>2. Ages /\ SpacingInv
      BY <1>1, Typed DEF Inv, TickInv
    <2>3. QED
      BY <2>1, <2>2, BackgroundTasksAssumption DEF Ages, SpacingInv, Never
  <1>2. Inv /\ [Next]_vars => [Kept]_vars
    BY <1>1
  <1>3. QED
    BY <1>2, AlwaysInv, PTL DEF Spec, NoTickLost

\* With the code's factor, three, or a longer one the monitor never finds a
\* task stale that is enabled and works.  A run and its row can be two
\* intervals and a lag apart from the next, and a debounced tick nearly adds
\* another interval: a factor of two would not do.
THEOREM NoFalseAlarmHolds == ASSUME StaleFactor >= 3 PROVE Spec => NoFalseAlarm
  <1> DEFINE Excused == scan # "stale" /\ scan' = "stale" => excuse
  <1>1. ASSUME Inv, Next, scan # "stale", scan' = "stale" PROVE excuse
    <2>1. CheckList
      BY <1>1 DEF Next, RegisterAndStart, FirstRun, TakeTick, LoopStops, Returns, FinishSkipped,
                  FinishFailed, FinishOk, RecoveryPanics, Finish, OtherRecovers, RecordLands,
                  RecordFails, ListFails, CheckAlert, CheckMark, SetEnabled, Stop, Restart, Begin, Tick,
                  monitor, vars
    <2>2. row > StaleFactor * Interval
      BY <1>1, <2>1 DEF CheckList, IsStale
    <2>3. Interval \in Nat /\ StaleFactor \in Nat
      BY BackgroundTasksAssumption
    <2>4. StaleFactor * Interval >= 3 * Interval
      BY <2>3
    <2>5. row \in Int
      BY <1>1, Typed, StaleAgeTyped DEF Inv, TickInv, Ages, Never
    <2>6. row > 3 * Interval
      BY <2>2, <2>3, <2>4, <2>5
    <2>7. ~excuse => row <= 3 * Interval
      BY <1>1 DEF Inv, AgeInv
    <2>8. QED
      BY <2>3, <2>5, <2>6, <2>7
  <1>2. Inv /\ [Next]_vars => [Excused]_vars
    BY <1>1
  <1>3. QED
    BY <1>2, AlwaysInv, PTL DEF Spec, NoFalseAlarm

\* #B01: the failure alert and the count, step by step.
LEMMA AlertStepInv ==
    ASSUME TypeOK, AlertFollowsCount, [Next]_vars
    PROVE  AlertFollowsCount'
  <1>1. /\ failures \in 0 .. AlertAfter /\ AlertAfter \in Nat \ {0}
        /\ restarts \in 0 .. MaxRestarts /\ MaxRestarts \in Nat
    BY BackgroundTasksAssumption DEF TypeOK
  <1>2. CASE FinishFailed
    <2>1. /\ failures' = IF failures < AlertAfter THEN failures + 1 ELSE failures
          /\ restarts' = restarts /\ crashed' = crashed
      BY <1>2 DEF FinishFailed, Finish
    <2>2. failOpen' <=> failOpen \/ failures' >= AlertAfter
      BY <1>2, Zenon DEF FinishFailed
    <2>3. failures >= AlertAfter => failures' >= AlertAfter
      BY <1>1, <2>1
    <2>4. QED
      BY <2>1, <2>2, <2>3 DEF AlertFollowsCount
  <1>3. CASE FinishOk
    BY <1>1, <1>3 DEF FinishOk, Finish, AlertFollowsCount
  <1>4. CASE RecoveryPanics
    BY <1>4 DEF RecoveryPanics, AlertFollowsCount
  <1>5. CASE Restart
    BY <1>1, <1>5 DEF Restart, AlertFollowsCount
  <1>6. CASE OtherRecovers
    <2>1. failOpen' = FALSE /\ (failOpen \/ swept => swept') /\ UNCHANGED <<failures, restarts, crashed>>
      BY <1>6, Zenon DEF OtherRecovers, task
    <2>2. QED
      BY <2>1 DEF AlertFollowsCount
  <1>7. CASE UNCHANGED <<failures, failOpen, swept, restarts, crashed>>
    BY <1>7 DEF AlertFollowsCount
  <1>8. QED
    BY <1>2, <1>3, <1>4, <1>5, <1>6, <1>7
    DEF Next, vars, RegisterAndStart, FirstRun, TakeTick, LoopStops, Returns, FinishSkipped, Finish,
        RecordLands, RecordFails, CheckList, ListFails, CheckAlert, CheckMark, SetEnabled, Stop, Tick, task,
        alerts, history

\* #B01: within a process the alert about repeated failures is open only while
\* the count has reached its threshold, and missing then only if another
\* task's recovery has resolved it since the last failure, for any threshold.
THEOREM AlertFollowsCountHolds == Spec => []AlertFollowsCount
  <1>1. Init => AlertFollowsCount
    BY BackgroundTasksAssumption DEF Init, AlertFollowsCount
  <1>2. QED
    BY <1>1, AlertStepInv, TypeCorrect, PTL DEF Spec
=============================================================================
