--------------------------- MODULE MCTaskManager ---------------------------
(* Two runs of an agent with two tasks.  Time is long enough for a task to *)
(* be started after a first check, to time out and to outlive retention.   *)
EXTENDS TaskManager

CONSTANTS t1, t2, r1, r2

MCTaskId == {t1, t2}
MCRun == {r1, r2}
=============================================================================
