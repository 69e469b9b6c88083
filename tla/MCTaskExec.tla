----------------------------- MODULE MCTaskExec -----------------------------
(* Small instances of TaskExec.  Executions touch each other only through  *)
(* Retry, so one live run is enough; the other row belongs to a task type  *)
(* that has been retired since.                                            *)
EXTENDS TaskExec

CONSTANTS old, e1, k1, k2, s1

LiveAndOld == {old, e1}
OnlyOld == {old}
OneExec == {e1}
OneCanceller == {k1}
TwoCancellers == {k1, k2}
OneSubscriber == {s1}
=============================================================================
