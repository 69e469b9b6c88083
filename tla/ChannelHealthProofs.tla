------------------------ MODULE ChannelHealthProofs -------------------------
(***************************************************************************)
(* Proofs about the channel health stores: no version of a record counts   *)
(* more failures than were made, and a recorder that nobody interferes     *)
(* with does what recordInternal says, for any number of goroutines and    *)
(* stores on the file, channels, attempts and any grace.                   *)
(***************************************************************************)
EXTENDS ChannelHealth, FiniteSetTheorems, TLAPS

-----------------------------------------------------------------------------
(* The invariant. *)

\* A record that counts no more failures than f, and pages only for enough.
Sound(rec, f) ==
    /\ rec.streak <= f
    /\ rec.status = "error" => rec.streak >= GraceFailures

SoundContents(contents) == \A ch \in Channels : Sound(contents[ch], tally[ch].failed)

\* So are the records of every map and every file.
AllSound ==
    /\ file # Absent => SoundContents(file)
    /\ tmp # Absent => SoundContents(tmp)
    /\ \A s \in Stores : SoundContents(mem[s])
    /\ \A ch \in Channels : Sound(tally[ch].record, tally[ch].failed)

\* The goroutines that have begun to record an attempt on ch.
Updating(ch) == {p \in Procs : pc[p] = "update" /\ job[p].channel = ch}

\* Every attempt begun is still to be counted, or was counted at most once.
Counted == \A ch \in Channels : tally[ch].failed + Cardinality(Updating(ch)) <= tally[ch].attempts

\* Where an undisturbed recorder stands, relative to the file it found.
LoneInv ==
    \A p \in undisturbed :
        /\ pc[p] \in {"update", "save", "rename"}
        /\ pc[p] = "update" /\ file # Absent => mem[StoreOf[p]] = file
        /\ pc[p] = "save" /\ file # Absent =>
              mem[StoreOf[p]] = [file EXCEPT ![job[p].channel] = Apply(@, job[p].attempt)]
        /\ pc[p] = "rename" /\ file # Absent =>
              tmp = [file EXCEPT ![job[p].channel] = Apply(@, job[p].attempt)]

HealthInv == TypeOK /\ AllSound /\ Counted /\ LoneInv

-----------------------------------------------------------------------------
(* The operators. *)

\* What an attempt makes of a sound record is sound, if it is counted.
LEMMA ApplySound ==
    ASSUME NEW rec \in Records, NEW a \in Attempts, NEW f \in Nat, Sound(rec, f),
           NEW g \in Nat, g = IF a = "error" THEN f + 1 ELSE f, g <= MaxAttempts
    PROVE  Apply(rec, a) \in Records /\ Sound(Apply(rec, a), g)
  <1>1. GraceFailures \in Nat /\ MaxAttempts \in Nat
    BY HealthAssumption
  <1>2. rec.streak \in 0 .. MaxAttempts /\ rec.status \in Statuses
    BY DEF Records
  <1>3. CASE a = "ok"
    BY <1>1, <1>3, HealthAssumption DEF Apply, Records, Sound, Statuses
  <1>4. CASE a = "error"
    BY <1>1, <1>2, <1>4 DEF Apply, Records, Sound, Statuses
  <1>5. CASE a = "warn"
    BY <1>1, <1>2, <1>5 DEF Apply, Records, Sound, Statuses
  <1>6. QED
    BY <1>3, <1>4, <1>5 DEF Attempts

\* More failures leave a sound record sound.
LEMMA SoundGrows ==
    ASSUME NEW rec \in Records, NEW f \in Nat, NEW g \in Nat, f <= g, Sound(rec, f)
    PROVE  Sound(rec, g)
  BY HealthAssumption DEF Records, Sound

\* load() takes a sound map from a sound file.
LEMMA LoadKeeps ==
    ASSUME TypeOK, AllSound, NEW s \in Stores, Load(s)
    PROVE  /\ mem' \in [Stores -> Contents]
           /\ \A t \in Stores : SoundContents(mem'[t])
           /\ file # Absent => mem'[s] = file
           /\ \A t \in Stores \ {s} : mem'[t] = mem[t]
  BY DEF TypeOK, AllSound, Load

\* Adding or taking one goroutine changes their number by at most one.
LEMMA OneRecorder ==
    ASSUME NEW S \in SUBSET Procs, NEW p \in Procs
    PROVE  /\ Cardinality(S) \in Nat
           /\ Cardinality(S \cup {p}) \in Nat /\ Cardinality(S \cup {p}) <= Cardinality(S) + 1
           /\ Cardinality(S \ {p}) \in Nat
           /\ p \in S => Cardinality(S \ {p}) = Cardinality(S) - 1
  <1>1. IsFiniteSet(S)
    BY HealthAssumption, FS_Subset
  <1>2. Cardinality(S) \in Nat
    BY <1>1, FS_CardinalityType
  <1>3. /\ IsFiniteSet(S \cup {p})
        /\ Cardinality(S \cup {p}) = Cardinality(S) \/ Cardinality(S \cup {p}) = Cardinality(S) + 1
    BY <1>1, FS_AddElement
  <1>4. /\ IsFiniteSet(S \ {p})
        /\ Cardinality(S \ {p}) = IF p \in S THEN Cardinality(S) - 1 ELSE Cardinality(S)
    BY <1>1, FS_RemoveElement
  <1>5. Cardinality(S \ {p}) \in Nat
    BY <1>4, FS_CardinalityType
  <1>6. QED
    BY <1>2, <1>3, <1>4, <1>5

\* A file that is there is not Absent, as there are channels.
LEMMA ContentsPresent == ASSUME NEW f \in Contents PROVE f # Absent
  BY HealthAssumption DEF Contents, Absent

-----------------------------------------------------------------------------
(* Every step preserves the invariant. *)

\* recordInternal begins: the map is the file's, and one more attempt is
\* under way.
LEMMA StartKeepsInv == ASSUME HealthInv, NEW p \in Procs, StartRecord(p) PROVE HealthInv'
  <1> USE DEF HealthInv
  <1>1. PICK j \in Jobs :
           /\ tally[j.channel].attempts < MaxAttempts
           /\ job' = [job EXCEPT ![p] = j]
           /\ tally' = [tally EXCEPT ![j.channel].attempts = @ + 1]
    BY DEF StartRecord
  <1> DEFINE ch0 == j.channel
  <1>2. StoreOf[p] \in Stores /\ ch0 \in Channels /\ MaxAttempts \in Nat
    BY HealthAssumption DEF Jobs
  <1>3. /\ pc[p] = "idle" /\ pc' = [pc EXCEPT ![p] = "update"]
        /\ undisturbed' = {p} /\ UNCHANGED <<file, tmp>>
    BY DEF StartRecord
  <1>4. /\ mem' \in [Stores -> Contents]
        /\ \A t \in Stores : SoundContents(mem'[t])
        /\ file # Absent => mem'[StoreOf[p]] = file
    BY <1>2, LoadKeeps DEF StartRecord
  <1>5. /\ tally \in [Channels -> [attempts : 0..MaxAttempts, failed : 0..MaxAttempts, record : Records]]
        /\ pc \in [Procs -> {"idle", "update", "save", "rename"}] /\ job \in [Procs -> Jobs]
    BY DEF TypeOK
  <1>6. /\ tally' \in [Channels -> [attempts : 0..MaxAttempts, failed : 0..MaxAttempts, record : Records]]
        /\ \A ch \in Channels : tally'[ch].failed = tally[ch].failed /\ tally'[ch].record = tally[ch].record
        /\ \A ch \in Channels : tally'[ch].attempts =
                                   IF ch = ch0 THEN tally[ch].attempts + 1 ELSE tally[ch].attempts
    BY <1>1, <1>2, <1>5
  <1>7. TypeOK'
    BY <1>1, <1>3, <1>4, <1>5, <1>6 DEF TypeOK
  <1>8. AllSound'
    BY <1>2, <1>3, <1>4, <1>6 DEF AllSound, SoundContents
  <1>9. Counted'
    <2> SUFFICES ASSUME NEW ch \in Channels
                 PROVE  tally'[ch].failed + Cardinality(Updating(ch)') <= tally'[ch].attempts
      BY DEF Counted
    <2>1. tally[ch].failed \in Nat /\ tally[ch].attempts \in Nat
      BY <1>2, <1>5
    <2>2. tally[ch].failed + Cardinality(Updating(ch)) <= tally[ch].attempts
      BY DEF Counted
    <2>3. Updating(ch) \in SUBSET Procs
      BY DEF Updating
    <2>4. CASE ch = ch0
      <3>1. Updating(ch)' = Updating(ch) \cup {p}
        BY <1>1, <1>3, <1>5, <2>4 DEF Updating
      <3>2. tally'[ch].failed = tally[ch].failed /\ tally'[ch].attempts = tally[ch].attempts + 1
        BY <1>6, <2>4
      <3>3. /\ Cardinality(Updating(ch)) \in Nat /\ Cardinality(Updating(ch) \cup {p}) \in Nat
            /\ Cardinality(Updating(ch) \cup {p}) <= Cardinality(Updating(ch)) + 1
        BY <2>3, OneRecorder
      <3>4. QED
        BY <2>1, <2>2, <3>1, <3>2, <3>3
    <2>5. CASE ch # ch0
      <3>1. Updating(ch)' = Updating(ch)
        BY <1>1, <1>3, <1>5, <2>5 DEF Updating
      <3>2. QED
        BY <1>6, <2>1, <2>2, <2>5, <3>1
    <2>6. QED
      BY <2>4, <2>5
  <1>10. LoneInv'
    BY <1>3, <1>4, <1>5 DEF LoneInv
  <1>11. QED
    BY <1>7, <1>8, <1>9, <1>10

\* The attempt is counted and applied to the record.
LEMMA UpdateKeepsInv == ASSUME HealthInv, NEW p \in Procs, Update(p) PROVE HealthInv'
  <1> USE DEF HealthInv
  <1> DEFINE c == job[p].channel
             a == job[p].attempt
             st == StoreOf[p]
  <1>1. /\ pc[p] = "update" /\ pc' = [pc EXCEPT ![p] = "save"]
        /\ mem' = [mem EXCEPT ![st][c] = Apply(@, a)]
        /\ tally' = [tally EXCEPT ![c].record = Apply(@, a),
                                  ![c].failed = IF a = "error" THEN @ + 1 ELSE @]
        /\ undisturbed' = undisturbed \cap {p} /\ UNCHANGED <<file, tmp, job>>
    BY DEF Update, By
  <1>2. st \in Stores /\ c \in Channels /\ a \in Attempts /\ MaxAttempts \in Nat
    BY HealthAssumption DEF TypeOK, Jobs
  <1>3. /\ tally \in [Channels -> [attempts : 0..MaxAttempts, failed : 0..MaxAttempts, record : Records]]
        /\ pc \in [Procs -> {"idle", "update", "save", "rename"}] /\ job \in [Procs -> Jobs]
        /\ mem \in [Stores -> Contents]
    BY DEF TypeOK
  <1> DEFINE f == tally[c].failed
             g == IF a = "error" THEN f + 1 ELSE f
  <1>4. f \in Nat /\ g \in Nat /\ f <= g /\ g <= MaxAttempts
    <2>1. p \in Updating(c) /\ Updating(c) \in SUBSET Procs
      BY <1>1 DEF Updating
    <2>2. Cardinality(Updating(c)) \in Nat /\ Cardinality(Updating(c)) >= 1
      <3>1. Cardinality(Updating(c) \ {p}) \in Nat
            /\ Cardinality(Updating(c) \ {p}) = Cardinality(Updating(c)) - 1
            /\ Cardinality(Updating(c)) \in Nat
        BY <2>1, OneRecorder
      <3>2. QED
        BY <3>1
    <2>3. f + Cardinality(Updating(c)) <= tally[c].attempts
      BY <1>2 DEF Counted
    <2>4. tally[c].attempts \in 0 .. MaxAttempts /\ f \in 0 .. MaxAttempts
      BY <1>2, <1>3
    <2> HIDE DEF f
    <2>5. QED
      BY <1>2, <2>2, <2>3, <2>4
  <1>5. \A ch \in Channels : /\ tally'[ch].failed = IF ch = c THEN g ELSE tally[ch].failed
                             /\ tally'[ch].record = IF ch = c THEN Apply(tally[ch].record, a) ELSE tally[ch].record
                             /\ tally'[ch].attempts = tally[ch].attempts
    BY <1>1, <1>2, <1>3
  <1>6. /\ Apply(tally[c].record, a) \in Records /\ Sound(Apply(tally[c].record, a), g)
        /\ Apply(mem[st][c], a) \in Records /\ Sound(Apply(mem[st][c], a), g)
    <2>1. /\ tally[c].record \in Records /\ Sound(tally[c].record, f)
          /\ mem[st][c] \in Records /\ Sound(mem[st][c], f)
      BY <1>2, <1>3 DEF AllSound, SoundContents, Contents
    <2> HIDE DEF c, a, st, f
    <2>2. QED
      BY <1>2, <1>4, <2>1, ApplySound
  <1> HIDE DEF g
  <1>7. TypeOK'
    <2>1. tally' \in [Channels -> [attempts : 0..MaxAttempts, failed : 0..MaxAttempts, record : Records]]
      BY <1>1, <1>2, <1>3, <1>4, <1>6 DEF g
    <2>2. mem' \in [Stores -> Contents]
      BY <1>1, <1>2, <1>3, <1>6 DEF Contents
    <2>3. QED
      BY <1>1, <1>3, <2>1, <2>2 DEF TypeOK
  <1>8. AllSound'
    <2>1. ASSUME NEW contents \in Contents, SoundContents(contents)
          PROVE  \A ch \in Channels : Sound(contents[ch], tally'[ch].failed)
      <3> SUFFICES ASSUME NEW ch \in Channels PROVE Sound(contents[ch], tally'[ch].failed)
        OBVIOUS
      <3>1. contents[ch] \in Records /\ Sound(contents[ch], tally[ch].failed)
        BY <2>1 DEF Contents, SoundContents
      <3>2. tally[ch].failed \in Nat /\ tally'[ch].failed \in Nat /\ tally[ch].failed <= tally'[ch].failed
        BY <1>2, <1>3, <1>4, <1>5
      <3>3. QED
        BY <3>1, <3>2, SoundGrows
    <2>2. ASSUME NEW s \in Stores PROVE \A ch \in Channels : Sound(mem'[s][ch], tally'[ch].failed)
      <3>1. mem[s] \in Contents /\ SoundContents(mem[s])
        BY <1>3 DEF AllSound
      <3>2. \A ch \in Channels : s # st \/ ch # c => mem'[s][ch] = mem[s][ch]
        BY <1>1, <1>2, <1>3 DEF Contents
      <3>3. mem'[st][c] = Apply(mem[st][c], a)
        BY <1>1, <1>2, <1>3 DEF Contents
      <3>4. QED
        BY <1>5, <1>6, <2>1, <3>1, <3>2, <3>3
    <2>3. \A ch \in Channels : Sound(tally'[ch].record, tally'[ch].failed)
      BY <1>2, <1>5, <1>6 DEF AllSound
    <2>4. (file # Absent => SoundContents(file))' /\ (tmp # Absent => SoundContents(tmp))'
      BY <1>1, <2>1 DEF AllSound, TypeOK, SoundContents
    <2>5. QED
      BY <2>2, <2>3, <2>4 DEF AllSound, SoundContents
  <1>9. Counted'
    <2> SUFFICES ASSUME NEW ch \in Channels
                 PROVE  tally'[ch].failed + Cardinality(Updating(ch)') <= tally'[ch].attempts
      BY DEF Counted
    <2>1. tally[ch].failed \in Nat /\ tally[ch].attempts \in Nat
      BY <1>2, <1>3
    <2>2. tally[ch].failed + Cardinality(Updating(ch)) <= tally[ch].attempts
      BY DEF Counted
    <2>3. Updating(ch) \in SUBSET Procs
      BY DEF Updating
    <2>4. CASE ch = c
      <3>1. Updating(ch)' = Updating(ch) \ {p} /\ p \in Updating(ch)
        BY <1>1, <1>3, <2>4 DEF Updating
      <3>2. tally'[ch].failed <= tally[ch].failed + 1 /\ tally'[ch].failed \in Nat
        BY <1>4, <1>5, <2>1, <2>4 DEF g
      <3>3. QED
        BY <1>5, <2>1, <2>2, <2>3, <3>1, <3>2, OneRecorder
    <2>5. CASE ch # c
      <3>1. Updating(ch)' = Updating(ch)
        BY <1>1, <1>3, <2>5 DEF Updating
      <3>2. QED
        BY <1>5, <2>2, <2>5, <3>1
    <2>6. QED
      BY <2>4, <2>5
  <1>10. LoneInv'
    <2> SUFFICES ASSUME p \in undisturbed, file # Absent
                 PROVE  mem'[st] = [file EXCEPT ![c] = Apply(@, a)]
      BY <1>1, <1>3 DEF LoneInv
    <2>1. mem[st] = file
      BY <1>1 DEF LoneInv
    <2>2. QED
      BY <1>1, <1>2, <1>3, <2>1
  <1>11. QED
    BY <1>7, <1>8, <1>9, <1>10

\* save() writes the store's map to the temporary file.
LEMMA WriteTmpKeepsInv == ASSUME HealthInv, NEW p \in Procs, WriteTmp(p) PROVE HealthInv'
  <1> USE DEF HealthInv
  <1>1. /\ pc[p] = "save" /\ pc' = [pc EXCEPT ![p] = "rename"]
        /\ tmp' = mem[StoreOf[p]]
        /\ undisturbed' = undisturbed \cap {p} /\ UNCHANGED <<file, mem, job, tally>>
    BY DEF WriteTmp, By
  <1>2. StoreOf[p] \in Stores
    BY HealthAssumption
  <1>3. pc \in [Procs -> {"idle", "update", "save", "rename"}] /\ mem \in [Stores -> Contents]
    BY DEF TypeOK
  <1>4. TypeOK'
    BY <1>1, <1>2, <1>3 DEF TypeOK
  <1>5. AllSound'
    BY <1>1, <1>2 DEF AllSound, SoundContents
  <1>6. Counted'
    <2>1. \A ch \in Channels : Updating(ch)' = Updating(ch)
      BY <1>1, <1>3 DEF Updating
    <2>2. QED
      BY <1>1, <2>1 DEF Counted
  <1>7. LoneInv'
    BY <1>1, <1>3 DEF LoneInv
  <1>8. QED
    BY <1>4, <1>5, <1>6, <1>7

\* The temporary file, if it is still there, becomes the file.
LEMMA RenameKeepsInv == ASSUME HealthInv, NEW p \in Procs, Rename(p) PROVE HealthInv'
  <1> USE DEF HealthInv
  <1>1. /\ pc[p] = "rename" /\ pc' = [pc EXCEPT ![p] = "idle"]
        /\ file' = IF tmp = Absent THEN file ELSE tmp
        /\ tmp' = Absent /\ job' = [job EXCEPT ![p] = NoJob]
        /\ undisturbed' = {} /\ UNCHANGED <<mem, tally>>
    BY DEF Rename
  <1>2. pc \in [Procs -> {"idle", "update", "save", "rename"}] /\ job \in [Procs -> Jobs]
    BY DEF TypeOK
  <1>3. NoJob \in Jobs
    BY HealthAssumption DEF NoJob, Jobs, Attempts
  <1>4. TypeOK'
    BY <1>1, <1>2, <1>3 DEF TypeOK
  <1>5. AllSound'
    BY <1>1 DEF AllSound, SoundContents
  <1>6. Counted'
    <2>1. \A ch \in Channels : Updating(ch)' = Updating(ch)
      BY <1>1, <1>2 DEF Updating
    <2>2. QED
      BY <1>1, <2>1 DEF Counted
  <1>7. LoneInv'
    BY <1>1 DEF LoneInv
  <1>8. QED
    BY <1>4, <1>5, <1>6, <1>7

\* A reader loads the file and disturbs the recorders under way.
LEMMA ReadKeepsInv == ASSUME HealthInv, NEW p \in Procs, Read(p) PROVE HealthInv'
  <1> USE DEF HealthInv
  <1>1. pc[p] = "idle" /\ undisturbed' = undisturbed \cap {p}
        /\ UNCHANGED <<file, tmp, pc, job, tally>>
    BY DEF Read, By
  <1>2. /\ mem' \in [Stores -> Contents]
        /\ \A t \in Stores : SoundContents(mem'[t])
    BY HealthAssumption, LoadKeeps DEF Read
  <1>3. undisturbed' = {}
    BY <1>1 DEF LoneInv
  <1>4. TypeOK'
    BY <1>1, <1>2, <1>3 DEF TypeOK
  <1>5. AllSound'
    BY <1>1, <1>2 DEF AllSound, SoundContents
  <1>6. Counted'
    BY <1>1 DEF Counted, Updating
  <1>7. LoneInv'
    BY <1>3 DEF LoneInv
  <1>8. QED
    BY <1>4, <1>5, <1>6, <1>7

\* No file, empty maps and nobody recording.
LEMMA HealthInitInv == ASSUME Init PROVE HealthInv
  <1> USE HealthAssumption DEF Init
  <1>1. NoJob \in Jobs /\ NoRecord \in Records
    BY DEF NoJob, Jobs, NoRecord, Records, Attempts, Statuses
  <1>2. TypeOK
    BY <1>1 DEF TypeOK, Contents
  <1>3. AllSound
    BY DEF AllSound, SoundContents, Sound, NoRecord
  <1>4. Counted
    <2>1. \A ch \in Channels : Updating(ch) = {}
      BY DEF Updating
    <2>2. Cardinality({}) = 0
      BY FS_EmptySet
    <2>3. \A ch \in Channels : tally[ch].failed = 0 /\ tally[ch].attempts = 0
      OBVIOUS
    <2>4. \A ch \in Channels : Cardinality(Updating(ch)) = 0
      BY <2>1, <2>2
    <2> HIDE DEF Init
    <2>5. QED
      BY <2>3, <2>4 DEF Counted
  <1>5. QED
    BY <1>2, <1>3, <1>4 DEF HealthInv, LoneInv

\* The invariant holds for every set of goroutines and stores.
LEMMA AlwaysHealthInv == Spec => []HealthInv
<1>1. HealthInv /\ [Next]_vars => HealthInv'
  <2> SUFFICES ASSUME HealthInv, [Next]_vars PROVE HealthInv'
    OBVIOUS
  <2>1. ASSUME NEW p \in Procs, StartRecord(p) PROVE HealthInv'
    BY <2>1, StartKeepsInv
  <2>2. ASSUME NEW p \in Procs, Update(p) PROVE HealthInv'
    BY <2>2, UpdateKeepsInv
  <2>3. ASSUME NEW p \in Procs, WriteTmp(p) PROVE HealthInv'
    BY <2>3, WriteTmpKeepsInv
  <2>4. ASSUME NEW p \in Procs, Rename(p) PROVE HealthInv'
    BY <2>4, RenameKeepsInv
  <2>5. ASSUME NEW p \in Procs, Read(p) PROVE HealthInv'
    BY <2>5, ReadKeepsInv
  <2>6. CASE UNCHANGED vars
    BY <2>6 DEF vars, HealthInv, TypeOK, AllSound, SoundContents, Counted, Updating, LoneInv
  <2>7. QED
    BY <2>1, <2>2, <2>3, <2>4, <2>5, <2>6 DEF Next
<1>2. QED
  BY <1>1, HealthInitInv, PTL DEF Spec

-----------------------------------------------------------------------------
(* The theorems. *)

\* Type correctness: no record's streak exceeds the attempts made.
THEOREM TypeCorrect == Spec => []TypeOK
<1>1. HealthInv => TypeOK
  BY DEF HealthInv
<1>2. QED
  BY <1>1, AlwaysHealthInv, PTL

\* No page before the grace is used up: no map and no file ever has a record
\* that counts a failure nobody made, or says "error" with a short streak.
THEOREM NoEarlyPageHolds == Spec => []NoEarlyPage
<1>1. HealthInv => NoEarlyPage
  <2> SUFFICES ASSUME HealthInv, NEW ch \in Channels, NEW rec \in Versions(ch)
               PROVE  Sound(rec, tally[ch].failed)
    BY DEF NoEarlyPage, Sound
  <2>1. CASE \E s \in Stores : rec = mem[s][ch]
    BY <2>1 DEF HealthInv, AllSound, SoundContents
  <2>2. CASE \E f \in {file, tmp} \ {Absent} : rec = f[ch]
    BY <2>2 DEF HealthInv, AllSound, SoundContents
  <2>3. QED
    BY <2>1, <2>2 DEF Versions
<1>2. QED
  BY <1>1, AlwaysHealthInv, PTL

\* A recorder that nobody interferes with applies its attempt to the record
\* in the file and leaves the other channels' records alone.
THEOREM LoneRecordLandsHolds == Spec => LoneRecordLands
<1> DEFINE A == \A p \in undisturbed :
                   pc[p] = "rename" /\ pc'[p] = "idle" /\ file # Absent =>
                      file' = [file EXCEPT ![job[p].channel] = Apply(@, job[p].attempt)]
<1>1. HealthInv /\ [Next]_vars => [A]_vars
  <2> SUFFICES ASSUME HealthInv, Next, NEW p \in undisturbed,
                      pc[p] = "rename", pc'[p] = "idle", file # Absent
               PROVE  file' = [file EXCEPT ![job[p].channel] = Apply(@, job[p].attempt)]
    OBVIOUS
  <2>1. p \in Procs /\ pc \in [Procs -> {"idle", "update", "save", "rename"}]
    BY DEF HealthInv, TypeOK
  <2>2. PICK q \in Procs : StartRecord(q) \/ Update(q) \/ WriteTmp(q) \/ Rename(q) \/ Read(q)
    BY DEF Next
  <2>3. q = p /\ Rename(p)
    BY <2>1, <2>2 DEF StartRecord, Update, WriteTmp, Rename, Read
  <2>4. tmp = [file EXCEPT ![job[p].channel] = Apply(@, job[p].attempt)]
    BY DEF HealthInv, LoneInv
  <2>5. tmp # Absent
    <3>1. file \in Contents
      BY DEF HealthInv, TypeOK
    <3>2. DOMAIN tmp = Channels
      BY <2>4, <3>1 DEF Contents
    <3>3. QED
      BY <3>2, HealthAssumption DEF Absent
  <2>6. QED
    BY <2>3, <2>4, <2>5 DEF Rename
<1>2. QED
  BY <1>1, AlwaysHealthInv, PTL DEF Spec, LoneRecordLands
=============================================================================
