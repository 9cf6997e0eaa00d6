------------------------------ MODULE JobQueue ------------------------------
(***************************************************************************)
(* JobQueueService: the rows of table `job` and the operations that write  *)
(* them, all of them under the service's writeMutex.                       *)
(*                                                                         *)
(* A terminal operation (completeJob, failJob, markJobCancelled, cancelJob *)
(* of a pending job) is three awaited steps inside the mutex: the UPDATE   *)
(* to a terminal status, the notification of subscribers and of the event  *)
(* bus, and the DELETE of the row.  Reads never take the mutex, and the    *)
(* process may die between any two steps.                                  *)
(***************************************************************************)
EXTENDS Integers

CONSTANTS
  MaxJobs,        \* bound: how many jobs are ever enqueued
  NewJobs,        \* the inputs of enqueue(): records type/mode/ref/priority/maxRetries
  NoRef,          \* "no referenceType/referenceId given"
  HandledTypes    \* job types with a registered handler

JobId == 1..MaxJobs
NoJob == 0

Modes    == {"sequential", "concurrent"}
Active   == {"pending", "running"}
Terminal == {"completed", "failed", "cancelled"}

ASSUME MaxJobsAssumption == MaxJobs \in Nat \ {0}
ASSUME NewJobsAssumption ==
  /\ NewJobs # {}
  /\ \A t \in NewJobs : /\ t.mode \in Modes
                        /\ t.priority \in Int
                        /\ t.maxRetries \in Nat

VARIABLES
  status,           \* status column; "unused" before CREATE, "deleted" after DELETE
  columns,          \* the columns CREATE sets once
  retryCount,       \* retryCount column
  owner,            \* processInstanceId column; 0 is NONE
  cancelRequested,  \* cancelledAt IS NOT NONE
  lastId,           \* jobs created so far: ids are in createdAt order
  mutex,            \* writeMutex and how far the operation inside it has got
  notified          \* jobs whose completion has been announced

rowVars   == <<columns, retryCount, owner, cancelRequested, lastId>>
queueVars == <<status, rowVars, mutex, notified>>

Free == [stage |-> "free", job |-> NoJob, by |-> "nobody", todo |-> {}]

QueueTypeOK ==
  /\ status \in [JobId -> Active \cup Terminal \cup {"unused", "deleted"}]
  /\ columns \in [JobId -> NewJobs]
  /\ retryCount \in [JobId -> Nat]
  /\ owner \in [JobId -> Nat]
  /\ cancelRequested \in [JobId -> BOOLEAN]
  /\ lastId \in 0..MaxJobs
  /\ mutex \in [stage : {"free", "settled", "notified", "bulk"},
                job : JobId \cup {NoJob},
                by : {"nobody", "client", "loop", "boot"},
                todo : SUBSET JobId]
  /\ mutex.stage \in {"settled", "notified"} => mutex.job \in JobId
  /\ notified \in SUBSET JobId

QueueInit ==
  /\ status = [j \in JobId |-> "unused"]
  /\ columns = [j \in JobId |-> CHOOSE t \in NewJobs : TRUE]
  /\ retryCount = [j \in JobId |-> 0]
  /\ owner = [j \in JobId |-> 0]
  /\ cancelRequested = [j \in JobId |-> FALSE]
  /\ lastId = 0
  /\ mutex = Free
  /\ notified = {}

-----------------------------------------------------------------------------
(* Reads *)

RowExists(j) == status[j] \in Active \cup Terminal

\* ORDER BY priority DESC, createdAt ASC
Before(i, j) ==
  \/ columns[i].priority > columns[j].priority
  \/ columns[i].priority = columns[j].priority /\ i < j

\* the first row of a set of rows in that order
First(S) == {j \in S : \A i \in S \ {j} : Before(j, i)}

\* getNextPendingJob(): pending and not marked for cancellation
Eligible == {j \in JobId : status[j] = "pending" /\ ~cancelRequested[j]}

\* getOrphanedJobs() of the process `self`
OrphansOf(self) ==
  {j \in JobId : status[j] = "running" /\ owner[j] \notin {self, 0}}

\* mutant of Duplicate: the query looks at pending jobs only
DuplicatePendingOnly(t) ==
  /\ t.mode = "sequential" /\ t.ref # NoRef
  /\ \E j \in JobId : /\ status[j] = "pending"
                      /\ columns[j].mode = "sequential" /\ columns[j].ref = t.ref

\* the uniqueness query of enqueue(): an active sequential job of the same reference
Duplicate(t) ==
  /\ t.mode = "sequential" /\ t.ref # NoRef
  /\ \E j \in JobId : /\ status[j] \in Active
                      /\ columns[j].mode = "sequential"
                      /\ columns[j].ref = t.ref

-----------------------------------------------------------------------------
(* Writes.  Each names only what it changes in the table and the mutex.    *)

\* enqueue(): the duplicate check and the CREATE share one hold of the mutex,
\* so no other writer runs between them and they are one step
Enqueue(t) ==
  /\ mutex = Free
  /\ lastId < MaxJobs
  /\ ~Duplicate(t)
  /\ lastId' = lastId + 1
  /\ status' = [status EXCEPT ![lastId + 1] = "pending"]
  /\ columns' = [columns EXCEPT ![lastId + 1] = t]
  /\ UNCHANGED <<retryCount, owner, cancelRequested, mutex, notified>>

\* claimJob(): UPDATE ... WHERE status = 'pending'
ClaimRow(j, self) ==
  /\ status' = [status EXCEPT ![j] = "running"]
  /\ owner' = [owner EXCEPT ![j] = self]
  /\ UNCHANGED <<columns, retryCount, cancelRequested, lastId, mutex, notified>>

\* the terminal UPDATE of completeJob, failJob, markJobCancelled and of the
\* cancellation of a pending job; none of them tests the status it overwrites
Settle(j, outcome, caller, rest) ==
  /\ status' = [status EXCEPT ![j] = outcome]
  /\ cancelRequested' =
       [cancelRequested EXCEPT ![j] = @ \/ outcome = "cancelled"]
  /\ mutex' = [stage |-> "settled", job |-> j, by |-> caller, todo |-> rest]
  /\ UNCHANGED <<columns, retryCount, owner, lastId, notified>>

\* notifyCompletionAndDelete(), up to the publication of JOB_COMPLETED
Announce ==
  /\ mutex.stage = "settled"
  /\ notified' = notified \cup {mutex.job}
  /\ mutex' = [mutex EXCEPT !.stage = "notified"]
  /\ UNCHANGED <<status, rowVars>>

\* what the mutex becomes when the operation on mutex.job has ended: cancelJobs()
\* goes on with the rows it has left, every other operation releases it
AfterDelete ==
  IF mutex.todo = {} THEN Free
  ELSE [stage |-> "bulk", job |-> NoJob, by |-> "client", todo |-> mutex.todo]

\* mutant of DeleteRow: the row is deleted before anybody is told
DeleteUnannounced ==
  /\ mutex.stage = "settled"
  /\ status' = [status EXCEPT ![mutex.job] = "deleted"]
  /\ mutex' = AfterDelete
  /\ UNCHANGED <<rowVars, notified>>

\* notifyCompletionAndDelete(): the DELETE
DeleteRow ==
  /\ mutex.stage = "notified"
  /\ status' = [status EXCEPT ![mutex.job] = "deleted"]
  /\ mutex' = AfterDelete
  /\ UNCHANGED <<rowVars, notified>>

\* mutant of ResetRow: the retry is not counted
ResetUncounted(j) ==
  /\ status' = [status EXCEPT ![j] = "pending"]
  /\ owner' = [owner EXCEPT ![j] = 0]
  /\ UNCHANGED <<retryCount, columns, cancelRequested, lastId, mutex, notified>>

\* resetOrphanedJob() below the retry limit: cancelledAt is left as it was
ResetRow(j) ==
  /\ status' = [status EXCEPT ![j] = "pending"]
  /\ owner' = [owner EXCEPT ![j] = 0]
  /\ retryCount' = [retryCount EXCEPT ![j] = @ + 1]
  /\ UNCHANGED <<columns, cancelRequested, lastId, mutex, notified>>

\* the UPDATE of cancelJob() and cancelJobs() on a running job
MarkCancelled(j, rest) ==
  /\ cancelRequested' = [cancelRequested EXCEPT ![j] = TRUE]
  /\ mutex' = IF rest = {} THEN Free ELSE [mutex EXCEPT !.todo = rest]
  /\ UNCHANGED <<status, columns, retryCount, owner, lastId, notified>>

\* cancelJobs(): the SELECT of the rows to cancel; without a reference, of all
SelectForCancel(ref) ==
  {j \in JobId : /\ status[j] \in Active /\ ~cancelRequested[j]
                 /\ ref = NoRef \/ columns[j].ref = ref}

StartBulkCancel(ref) ==
  /\ mutex = Free
  /\ SelectForCancel(ref) # {}
  /\ mutex' = [stage |-> "bulk", job |-> NoJob, by |-> "client",
               todo |-> SelectForCancel(ref)]
  /\ UNCHANGED <<status, rowVars, notified>>
=============================================================================
