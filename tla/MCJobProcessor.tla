--------------------------- MODULE MCJobProcessor ---------------------------
(* Instances of JobProcessor for TLC. *)
EXTENDS JobProcessor

Job(type, mode, ref, priority, retries) ==
  [type |-> type, mode |-> mode, ref |-> ref, priority |-> priority, maxRetries |-> retries]

\* a sequential job of one reference, an urgent concurrent job without reference
\* and without retries, the same with one retry, and a job nobody handles
SyncJob    == Job("sync", "sequential", "source", 0, 1)
UrgentTask == Job("sync", "concurrent", "none", 5, 0)
RetryTask  == Job("sync", "concurrent", "none", 5, 1)
AlienJob   == Job("alien", "concurrent", "none", 0, 0)

AllKinds  == {SyncJob, UrgentTask, AlienJob}
SyncOnly  == {SyncJob}
RetryOnly == {RetryTask}
=============================================================================
