--------------------------- MODULE TaskLifecycle ---------------------------
(***************************************************************************)
(* What the task API promises about an execution, without goroutines,      *)
(* contexts, events or stores: a row is created, its run begins, one       *)
(* outcome is announced, the row is closed with that outcome if it can be  *)
(* written, and a user's request to cancel marks the row at any time       *)
(* between.  TaskExec implements it (TaskExec!ImplementsLifecycle).        *)
(***************************************************************************)
CONSTANT Execs

VARIABLES
    status,     \* Status of the row
    phase,      \* how far the run is
    outcome,    \* the outcome announced, "none" before
    asking      \* executions a user has asked to cancel, not yet marked

vars == <<status, phase, outcome, asking>>

Outcomes == {"succeeded", "failed", "cancel_requested"}

Init ==
    /\ status \in [Execs -> {"none", "succeeded"}]
    /\ phase = [e \in Execs |-> "absent"]
    /\ outcome = [e \in Execs |-> "none"]
    /\ asking = {}

To(e, p) == phase' = [phase EXCEPT ![e] = p]

\* A row may be created without a run: Retry of a type that has no runner.
Create(e) ==
    /\ status[e] = "none"
    /\ status' = [status EXCEPT ![e] = "queued"]
    /\ \/ To(e, "queued")
       \/ UNCHANGED phase
    /\ UNCHANGED <<outcome, asking>>

\* The run says so in its row, or is refused because it was cancelled.
Begin(e) ==
    /\ phase[e] = "queued"
    /\ To(e, "running")
    /\ \/ status' = [status EXCEPT ![e] = "running"]
       \/ UNCHANGED status
    /\ UNCHANGED <<outcome, asking>>

\* Only a request that a user made, and that is in the row, makes the
\* outcome a cancelled one.
Announce(e, o) ==
    /\ phase[e] = "running"
    /\ o = "cancel_requested" => status[e] = "cancel_requested"
    /\ outcome' = [outcome EXCEPT ![e] = o]
    /\ To(e, "announced")
    /\ UNCHANGED <<status, asking>>

\* The row gets the outcome, or the write fails and is not repeated.
Close(e) ==
    /\ phase[e] = "announced"
    /\ \/ status' = [status EXCEPT ![e] = outcome[e]]
       \/ UNCHANGED status
    /\ To(e, "closed")
    /\ UNCHANGED <<outcome, asking>>

Leave(e) ==
    /\ phase[e] = "closed"
    /\ To(e, "gone")
    /\ UNCHANGED <<status, outcome, asking>>

Ask(e) ==
    /\ phase[e] \notin {"absent", "gone"}
    /\ asking' = asking \cup {e}
    /\ UNCHANGED <<status, phase, outcome>>

\* The mark may come late, even after the run has gone; several users may ask.
Mark(e) ==
    /\ e \in asking
    /\ status' = [status EXCEPT ![e] = "cancel_requested"]
    /\ asking' \in {asking, asking \ {e}}
    /\ UNCHANGED <<phase, outcome>>

Withdraw(e) ==
    /\ asking' = asking \ {e}
    /\ UNCHANGED <<status, phase, outcome>>

Next ==
    \E e \in Execs :
       \/ Create(e) \/ Begin(e) \/ Close(e) \/ Leave(e)
       \/ \E o \in Outcomes : Announce(e, o)
       \/ Ask(e) \/ Mark(e) \/ Withdraw(e)

\* Every run that was accepted comes to its end.
EveryRunEnds == \A e \in Execs : phase[e] = "queued" ~> phase[e] = "gone"

Safe == Init /\ [][Next]_vars
Spec == Safe /\ EveryRunEnds
=============================================================================
