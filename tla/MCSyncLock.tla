----------------------------- MODULE MCSyncLock -----------------------------
(* SyncLock on a small instance: an app with two overlapping runs, the app *)
(* opened again, a daemon and its successor.                               *)
EXTENDS SyncLock

CONSTANTS app1, app2, syncd1, syncd2, run1, run2, run3, cycle1, cycle2

AppsAndDaemons ==
    [p \in Procs |-> IF p \in {app1, app2} THEN "app" ELSE "daemon"]

TheirRuns ==
    [t \in Threads |-> CASE t \in {run1, run2} -> app1
                         [] t = run3 -> app2
                         [] t = cycle1 -> syncd1
                         [] t = cycle2 -> syncd2]
=============================================================================
