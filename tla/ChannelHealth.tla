---------------------------- MODULE ChannelHealth ---------------------------
(***************************************************************************)
(* internal/apigateway/channel_health.go: ChannelHealthStore, the JSON     *)
(* file of channel health records and the in-memory map in front of it.    *)
(*                                                                         *)
(* recordInternal is three critical sections: load() replaces the map by   *)
(* the file's contents, the record is updated in the map, and, after a     *)
(* database write of up to five seconds with no lock held, save() writes   *)
(* the map to the file.  Every reader (Get, All, Alerts, RecentFetches,    *)
(* SyncAllToDB) starts with the same load().  The process has several      *)
(* stores on the same file (the gateway's, the dashboard's, the data       *)
(* channel service's), each with a lock of its own, and save() goes through*)
(* one temporary file that they all share.                                 *)
(***************************************************************************)
EXTENDS Integers, FiniteSets

CONSTANTS
    Stores,             \* ChannelHealthStore instances on one path
    Procs,              \* goroutines that use them
    StoreOf,            \* the store each goroutine uses
    Channels,
    GraceFailures,      \* contract.EffectiveGraceFailures()
    MaxAttempts         \* bound: attempts recorded per channel

ASSUME HealthAssumption ==
    /\ IsFiniteSet(Procs) /\ Channels # {}
    /\ StoreOf \in [Procs -> Stores]
    /\ GraceFailures \in Nat \ {0}
    /\ MaxAttempts \in Nat

Attempts == {"ok", "error", "warn"}     \* "warn" stands for degraded, too
Statuses == {"none", "ok", "warn", "error"}
Records == [status : Statuses, streak : 0..MaxAttempts]
NoRecord == [status |-> "none", streak |-> 0]

VARIABLES
    file,               \* channel_health.json: Absent, or its contents
    tmp,                \* channel_health.json.tmp, the same
    mem,                \* s.data of each store
    pc,                 \* the next section of each goroutine
    job,                \* the channel and the attempt it records
    tally,              \* history: per channel, attempts recorded, failed ones
                        \* among them, and the record they should add up to
    undisturbed         \* history: recorders nobody has interfered with

vars == <<file, tmp, mem, pc, job, tally, undisturbed>>

Contents == [Channels -> Records]
Absent == [ch \in {} |-> NoRecord]      \* there is no such file
Jobs == [channel : Channels, attempt : Attempts]
NoJob == [channel |-> CHOOSE ch \in Channels : TRUE, attempt |-> "ok"]

TypeOK ==
    /\ file \in Contents \cup {Absent}
    /\ tmp \in Contents \cup {Absent}
    /\ mem \in [Stores -> Contents]
    /\ pc \in [Procs -> {"idle", "update", "save", "rename"}]
    /\ job \in [Procs -> Jobs]
    /\ tally \in [Channels -> [attempts : 0..MaxAttempts, failed : 0..MaxAttempts,
                               record : Records]]
    /\ undisturbed \subseteq Procs

Init ==
    /\ file = Absent
    /\ tmp = Absent
    /\ mem = [s \in Stores |-> [ch \in Channels |-> NoRecord]]
    /\ pc = [p \in Procs |-> "idle"]
    /\ job = [p \in Procs |-> NoJob]
    /\ tally = [ch \in Channels |-> [attempts |-> 0, failed |-> 0, record |-> NoRecord]]
    /\ undisturbed = {}

-----------------------------------------------------------------------------
\* save() holds the store's lock shared from the marshalling to the rename:
\* load() and the update, which take it exclusively, wait for it.
Saving(s) == \E p \in Procs : StoreOf[p] = s /\ pc[p] = "rename"

\* Slip: load() keeps the map it has.
LoadNothing(s) == UNCHANGED mem

\* load(): the map is replaced by the file's contents, if there is a file.
Load(s) == mem' = IF file = Absent THEN mem ELSE [mem EXCEPT ![s] = file]

\* Slip: warn and degraded attempts count as failures.
ApplyCountsWarn(rec, attempt) ==
    IF attempt = "ok" THEN [status |-> "ok", streak |-> 0]
    ELSE [status |-> IF rec.streak + 1 >= GraceFailures THEN "error" ELSE "warn",
          streak |-> rec.streak + 1]

\* The status switch of recordInternal, for a channel whose contract is not
\* bound to a market session.
Apply(rec, attempt) ==
    CASE attempt = "ok" -> [status |-> "ok", streak |-> 0]
      [] attempt = "error" ->
            [status |-> IF rec.streak + 1 >= GraceFailures THEN "error" ELSE "warn",
             streak |-> rec.streak + 1]
      [] OTHER -> [rec EXCEPT !.status = attempt]

\* A step of p interferes with every other recorder under way.
By(p) == undisturbed' = undisturbed \cap {p}

\* recordInternal begins: Record or RecordWaiting on a channel.
StartRecord(p) ==
    /\ pc[p] = "idle"
    /\ ~Saving(StoreOf[p])
    /\ \E j \in Jobs :
          /\ tally[j.channel].attempts < MaxAttempts
          /\ job' = [job EXCEPT ![p] = j]
          /\ tally' = [tally EXCEPT ![j.channel].attempts = @ + 1]
    /\ Load(StoreOf[p])
    /\ pc' = [pc EXCEPT ![p] = "update"]
    /\ undisturbed' = {p}
    /\ UNCHANGED <<file, tmp>>

\* The record is updated under the lock; the database write follows, unlocked.
Update(p) ==
    /\ pc[p] = "update"
    /\ ~Saving(StoreOf[p])
    /\ LET ch == job[p].channel
           a  == job[p].attempt
       IN  /\ mem' = [mem EXCEPT ![StoreOf[p]][ch] = Apply(@, a)]
           /\ tally' = [tally EXCEPT ![ch].record = Apply(@, a),
                                     ![ch].failed = IF a = "error" THEN @ + 1 ELSE @]
    /\ pc' = [pc EXCEPT ![p] = "save"]
    /\ By(p)
    /\ UNCHANGED <<file, tmp, job>>

\* save() writes the map to the temporary file ...
WriteTmp(p) ==
    /\ pc[p] = "save"
    /\ tmp' = mem[StoreOf[p]]
    /\ pc' = [pc EXCEPT ![p] = "rename"]
    /\ By(p)
    /\ UNCHANGED <<file, mem, job, tally>>

\* ... and renames it.  If another save has taken the temporary file away the
\* rename fails, and the callers of Record ignore the error.
Rename(p) ==
    /\ pc[p] = "rename"
    /\ file' = IF tmp = Absent THEN file ELSE tmp
    /\ tmp' = Absent
    /\ pc' = [pc EXCEPT ![p] = "idle"]
    /\ job' = [job EXCEPT ![p] = NoJob]
    /\ undisturbed' = {}
    /\ UNCHANGED <<mem, tally>>

\* Get, All, Alerts, RecentFetches, SyncAllToDB: a load(), then only reads.
Read(p) ==
    /\ pc[p] = "idle"
    /\ ~Saving(StoreOf[p])
    /\ Load(StoreOf[p])
    /\ By(p)
    /\ UNCHANGED <<file, tmp, pc, job, tally>>

Next == \E p \in Procs :
            StartRecord(p) \/ Update(p) \/ WriteTmp(p) \/ Rename(p) \/ Read(p)

Spec == Init /\ [][Next]_vars

-----------------------------------------------------------------------------
\* Everything the stores and the files hold about a channel.
Versions(ch) ==
    {mem[s][ch] : s \in Stores}
        \cup {f[ch] : f \in {file, tmp} \ {Absent}}

\* No page before the grace is used up: whatever is lost or resurrected on
\* the way, no version of a record counts a failed attempt that was not made,
\* and "error" takes at least GraceFailures of them.
NoEarlyPage ==
    \A ch \in Channels : \A rec \in Versions(ch) :
        /\ rec.streak <= tally[ch].failed
        /\ rec.status = "error" => rec.streak >= GraceFailures

\* A recorder that nobody interferes with does what recordInternal says: it
\* applies its attempt to the record in the file and leaves the records of
\* the other channels alone, whatever its store's map held before.
LoneRecordLands ==
    [][\A p \in undisturbed :
          pc[p] = "rename" /\ pc'[p] = "idle" /\ file # Absent =>
              file' = [file EXCEPT ![job[p].channel] = Apply(@, job[p].attempt)]]_vars

\* "ConsecutiveFailures counts failed attempts since the last ok": when no
\* recorder is at work, the file has the record its attempts add up to.  It
\* does not hold: a reader's load() between update and save undoes an attempt.
StreakCountsAttempts ==
    (\A p \in Procs : pc[p] = "idle") =>
        \A ch \in Channels :
            tally[ch].attempts > 0 => file # Absent /\ file[ch] = tally[ch].record
=============================================================================
