---------------------------- MODULE JobProcessor ----------------------------
(***************************************************************************)
(* JobProcessorService on top of JobQueueService: start() with the recovery*)
(* of orphaned jobs, the processing loop, the wake-ups the event bus gives *)
(* it, the polling timer, stop(), the clients that enqueue and cancel, and *)
(* the death of the process at any point.                                  *)
(*                                                                         *)
(* Every await of the code is a boundary between two steps here; what runs *)
(* between two awaits is one step, because JavaScript does not preempt it. *)
(***************************************************************************)
EXTENDS JobQueue

CONSTANTS
  MaxInstances,            \* bound: how many times the process is started
  MaxConsecutiveFailures,  \* MAX_CONSECUTIVE_FAILURES
  MaxDbErrors,             \* bound: how many database calls fail
  PayloadEncryption,       \* is the queue given an encryptionService?
  StopTimeout              \* may shutdownTimeoutMs elapse before the loop ends?

ASSUME MaxInstancesAssumption == MaxInstances \in Nat \ {0}
ASSUME MaxConsecutiveFailuresAssumption == MaxConsecutiveFailures \in Nat \ {0}
ASSUME MaxDbErrorsAssumption == MaxDbErrors \in Nat
ASSUME SwitchesAssumption == PayloadEncryption \in BOOLEAN /\ StopTimeout \in BOOLEAN

VARIABLES
  pc,         \* where processLoop()/processJob() is; "idle" is ~isProcessing
  launcher,   \* who awaits the current processLoop(): boot, timer or wakeup
  wakeup,     \* wakeupRequested
  failures,   \* consecutiveFailures, saturated at MaxConsecutiveFailures
  timer,      \* timerId # null
  boot,       \* how far the promise chain of start() has got
  current,    \* the job processJob() was given
  token,      \* isCancelled of its CancellationToken
  attached,   \* the token is subscribed to the job's cancellation
  runs,       \* history: how often each job's handler was started
  instance,   \* InstanceIdService.getId(), fresh in every process
  orphans,    \* the result of getOrphanedJobs() not handled yet
  stop,       \* "no", "waiting" inside stop(), "stopped" after it
  dbErrors    \* database calls that have failed so far

ctlVars  == <<pc, launcher, wakeup, failures, timer, boot>>
workVars == <<current, token, attached, runs>>
lifeVars == <<instance, orphans, stop, dbErrors>>
vars     == <<queueVars, ctlVars, workVars, lifeVars>>

Settling == {"complete", "cancel", "abort", "fail"}
Working  == Settling \cup {"precheck", "claim", "attach", "handler"}

TypeOK ==
  /\ QueueTypeOK
  /\ pc \in {"idle", "fetch", "drained"} \cup Working
  /\ launcher \in {"boot", "timer", "wakeup"}
  /\ wakeup \in BOOLEAN /\ timer \in BOOLEAN
  /\ failures \in 0..MaxConsecutiveFailures
  /\ boot \in {"orphans", "recover", "failing", "looping", "done", "failed"}
  /\ current \in JobId \cup {NoJob}
  /\ pc \in Working => current \in JobId
  /\ token \in BOOLEAN /\ attached \in BOOLEAN
  /\ runs \in [JobId -> Nat]
  /\ instance \in 1..MaxInstances
  /\ orphans \in SUBSET JobId
  /\ stop \in {"no", "waiting", "stopped"}
  /\ dbErrors \in 0..MaxDbErrors

stopRequested == stop = "waiting"
Subscribed    == stop # "stopped"

Init ==
  /\ QueueInit
  /\ pc = "idle" /\ launcher = "boot" /\ wakeup = FALSE /\ failures = 0
  /\ timer = FALSE /\ boot = "orphans"
  /\ current = NoJob /\ token = FALSE /\ attached = FALSE
  /\ runs = [j \in JobId |-> 0]
  /\ instance = 1 /\ orphans = {} /\ stop = "no" /\ dbErrors = 0

-----------------------------------------------------------------------------
(* processLoop() as its three callers see it *)

GoTo(label) == pc' = label /\ UNCHANGED <<launcher, wakeup, failures, timer, boot>>

\* the processLoop() promise of `who` resolves: the counter is reset, and the
\* chain of start() arms the polling timer unless a stop is in progress
LoopReturns(who) ==
  /\ pc' = "idle"
  /\ failures' = 0
  /\ timer' = IF who = "boot" THEN ~stopRequested ELSE timer
  /\ boot' = IF who = "boot" THEN "done" ELSE boot

\* mutant of LoopDies: without the finally block isProcessing stays set
LoopDiesBusy ==
  /\ pc' = "rejected"
  /\ failures' = IF failures = MaxConsecutiveFailures THEN failures ELSE failures + 1
  /\ UNCHANGED <<launcher, wakeup, timer, boot>>

\* it rejects: the chain of start() ends there, without a timer; a tick or a
\* wake-up counts the failure, and a tick clears the timer at the limit
LoopDies ==
  /\ pc' = "idle"
  /\ failures' = IF launcher = "boot" \/ failures = MaxConsecutiveFailures
                 THEN failures ELSE failures + 1
  /\ timer' = (timer /\ ~(launcher = "timer" /\ failures' >= MaxConsecutiveFailures))
  /\ boot' = IF launcher = "boot" THEN "failed" ELSE boot
  /\ UNCHANGED <<launcher, wakeup>>

\* processLoop() called while ~isProcessing
LoopStarts(who) ==
  /\ launcher' = who
  /\ wakeup' = FALSE
  /\ IF stopRequested
     THEN LoopReturns(who)
     ELSE /\ pc' = "fetch"
          /\ boot' = IF who = "boot" THEN "looping" ELSE boot
          /\ UNCHANGED <<failures, timer>>

\* requestWakeup(), called synchronously by EventBus.publish()
Wakeup ==
  IF ~Subscribed THEN UNCHANGED ctlVars
  ELSE IF pc = "idle" THEN LoopStarts("wakeup")
  ELSE wakeup' = TRUE /\ UNCHANGED <<pc, launcher, failures, timer, boot>>

\* the finally block of processJob()
ProcessJobEnds ==
  current' = NoJob /\ token' = FALSE /\ attached' = FALSE /\ UNCHANGED runs

\* an exception other than the two that processJob() recognises: inside its try
\* block it leads to failJob(), outside of it (or in its catch) it ends the loop
Raise ==
  IF pc \in {"precheck", "claim", "complete", "cancel"}
  THEN GoTo("fail") /\ UNCHANGED workVars
  ELSE LoopDies /\ ProcessJobEnds

-----------------------------------------------------------------------------
(* The loop *)

\* while (!stopRequested): the stop is seen before the next read
LoopStops ==
  /\ pc = "fetch" /\ stopRequested
  /\ LoopReturns(launcher)
  /\ UNCHANGED <<launcher, wakeup, queueVars, workVars, lifeVars>>

FetchJob ==
  /\ pc = "fetch" /\ ~stopRequested /\ Eligible # {}
  /\ \E j \in First(Eligible) :
       /\ current' = j
       /\ GoTo(IF columns[j].type \in HandledTypes THEN "precheck" ELSE "fail")
  /\ UNCHANGED <<token, attached, runs, queueVars, lifeVars>>

\* the read found nothing; its answer is handled in the next step
FetchNothing ==
  /\ pc = "fetch" /\ ~stopRequested /\ Eligible = {}
  /\ GoTo("drained")
  /\ UNCHANGED <<queueVars, workVars, lifeVars>>

\* mutant of Drained: a plain while loop, which forgets the wake-ups meanwhile
DrainedOnce ==
  /\ pc = "drained"
  /\ LoopReturns(launcher)
  /\ UNCHANGED <<launcher, wakeup, queueVars, workVars, lifeVars>>

\* do ... while (wakeupRequested && !stopRequested)
Drained ==
  /\ pc = "drained"
  /\ IF wakeup /\ ~stopRequested
     THEN /\ pc' = "fetch" /\ wakeup' = FALSE
          /\ UNCHANGED <<launcher, failures, timer, boot>>
     ELSE LoopReturns(launcher) /\ UNCHANGED <<launcher, wakeup>>
  /\ UNCHANGED <<queueVars, workVars, lifeVars>>

\* getCancellationStatus() before the claim
Precheck ==
  /\ pc = "precheck"
  /\ GoTo(IF RowExists(current) /\ cancelRequested[current] THEN "cancel" ELSE "claim")
  /\ UNCHANGED <<queueVars, workVars, lifeVars>>

\* mutant of HandlerStarts: the token is not subscribed
HandlerStartsDeaf ==
  /\ runs' = [runs EXCEPT ![current] = @ + 1]
  /\ UNCHANGED <<current, token, attached>>

HandlerStarts ==
  /\ attached' = TRUE
  /\ runs' = [runs EXCEPT ![current] = @ + 1]
  /\ UNCHANGED <<current, token>>

\* claimJob() succeeds.  With a payload to decrypt its caller goes on only
\* after more awaits, when the mutex is already free again.
Claim ==
  /\ pc = "claim" /\ mutex = Free /\ status[current] = "pending"
  /\ ClaimRow(current, instance)
  /\ IF PayloadEncryption THEN GoTo("attach") /\ UNCHANGED workVars
     ELSE GoTo("handler") /\ HandlerStarts
  /\ UNCHANGED lifeVars

\* the rest of claimJob(), subscribeToCancellation() and the handler's call
Attach ==
  /\ pc = "attach"
  /\ GoTo("handler") /\ HandlerStarts
  /\ UNCHANGED <<queueVars, lifeVars>>

\* JobNotFoundError is an ordinary error, JobAlreadyClaimedError is not
ClaimFindsNoRow ==
  /\ pc = "claim" /\ mutex = Free /\ ~RowExists(current)
  /\ Raise
  /\ UNCHANGED <<queueVars, lifeVars>>

ClaimLost ==
  /\ pc = "claim" /\ mutex = Free
  /\ RowExists(current) /\ status[current] # "pending"
  /\ GoTo("fetch") /\ ProcessJobEnds
  /\ UNCHANGED <<queueVars, lifeVars>>

HandlerReturns ==
  /\ pc = "handler"
  /\ GoTo(IF token THEN "cancel" ELSE "complete")
  /\ UNCHANGED <<queueVars, workVars, lifeVars>>

\* the handler throws JobCancellationError, which only its token makes it do
HandlerAborts ==
  /\ pc = "handler" /\ token
  /\ GoTo("abort")
  /\ UNCHANGED <<queueVars, workVars, lifeVars>>

\* mutant of HandlerFails: the handler's error is logged and forgotten
HandlerErrorDropped ==
  /\ pc = "handler"
  /\ GoTo("fetch") /\ ProcessJobEnds
  /\ UNCHANGED <<queueVars, lifeVars>>

HandlerFails ==
  /\ pc = "handler"
  /\ GoTo("fail")
  /\ UNCHANGED <<queueVars, workVars, lifeVars>>

Outcome == CASE pc = "complete" -> "completed"
             [] pc = "fail" -> "failed"
             [] OTHER -> "cancelled"

\* completeJob(), failJob() or markJobCancelled(), up to its UPDATE
LoopSettles ==
  /\ pc \in Settling /\ mutex = Free /\ RowExists(current)
  /\ Settle(current, Outcome, "loop", {})
  /\ UNCHANGED <<ctlVars, workVars, lifeVars>>

\* ... and JobNotFoundError when the row is gone
LoopFindsNoRow ==
  /\ pc \in Settling /\ mutex = Free /\ ~RowExists(current)
  /\ Raise
  /\ UNCHANGED <<queueVars, lifeVars>>

LoopDeletes ==
  /\ mutex.by = "loop" /\ DeleteRow
  /\ GoTo("fetch") /\ ProcessJobEnds
  /\ UNCHANGED lifeVars

\* setInterval: a tick during a run returns at once and still resets the counter
TimerTick ==
  /\ timer
  /\ IF pc = "idle" THEN LoopStarts("timer")
     ELSE failures' = 0 /\ UNCHANGED <<pc, launcher, wakeup, timer, boot>>
  /\ UNCHANGED <<queueVars, workVars, lifeVars>>

-----------------------------------------------------------------------------
(* start(), stop() and the death of the process *)

BootFindsOrphans ==
  /\ boot = "orphans"
  /\ orphans' = OrphansOf(instance)
  /\ boot' = "recover"
  /\ UNCHANGED <<pc, launcher, wakeup, failures, timer, queueVars, workVars,
                 instance, stop, dbErrors>>

\* resetOrphanedJob() below the retry limit
BootResets ==
  /\ boot = "recover" /\ ~stopRequested /\ mutex = Free
  /\ \E j \in First(orphans) :
       /\ retryCount[j] < columns[j].maxRetries
       /\ ResetRow(j)
       /\ orphans' = orphans \ {j}
  /\ UNCHANGED <<ctlVars, workVars, instance, stop, dbErrors>>

\* resetOrphanedJob() throws MaxRetriesExceededError and releases the mutex ...
BootGivesUp ==
  /\ boot = "recover" /\ ~stopRequested /\ mutex = Free
  /\ \E j \in First(orphans) : retryCount[j] >= columns[j].maxRetries
  /\ boot' = "failing"
  /\ UNCHANGED <<pc, launcher, wakeup, failures, timer, queueVars, workVars, lifeVars>>

\* ... and the orphan is failed
BootSettles ==
  /\ boot = "failing" /\ mutex = Free
  /\ \E j \in First(orphans) : Settle(j, "failed", "boot", {})
  /\ UNCHANGED <<ctlVars, workVars, lifeVars>>

BootDeletes ==
  /\ mutex.by = "boot" /\ DeleteRow
  /\ orphans' = orphans \ {mutex.job}
  /\ boot' = "recover"
  /\ UNCHANGED <<pc, launcher, wakeup, failures, timer, workVars, instance, stop, dbErrors>>

\* handleOrphanedJobs() is over: processLoop(), which returns at once when a
\* wake-up has started the loop before
BootLaunches ==
  /\ boot = "recover" /\ (orphans = {} \/ stopRequested)
  /\ orphans' = {}
  /\ IF pc = "idle" THEN LoopStarts("boot")
     ELSE /\ failures' = 0 /\ timer' = ~stopRequested /\ boot' = "done"
          /\ UNCHANGED <<pc, launcher, wakeup>>
  /\ UNCHANGED <<queueVars, workVars, instance, stop, dbErrors>>

\* stop() awaits only while the loop is processing; otherwise it is one step
StopBegins ==
  /\ stop = "no"
  /\ stop' = IF pc = "idle" THEN "stopped" ELSE "waiting"
  /\ timer' = FALSE
  /\ UNCHANGED <<pc, launcher, wakeup, failures, boot, queueVars, workVars,
                 instance, orphans, dbErrors>>

\* the end of stop(): the subscriptions go and stopRequested is FALSE again
StopEnds ==
  /\ stop' = "stopped" /\ attached' = FALSE
  /\ UNCHANGED <<current, token, runs, ctlVars, queueVars, instance, orphans, dbErrors>>

StopFinishes == stop = "waiting" /\ pc = "idle" /\ StopEnds
StopTimesOut == StopTimeout /\ stop = "waiting" /\ pc # "idle" /\ StopEnds

\* the process dies, in whatever state it is, and a new one is started
Restart ==
  /\ instance < MaxInstances
  /\ instance' = instance + 1
  /\ mutex' = Free
  /\ pc' = "idle" /\ launcher' = "boot" /\ wakeup' = FALSE /\ failures' = 0
  /\ timer' = FALSE /\ boot' = "orphans"
  /\ current' = NoJob /\ token' = FALSE /\ attached' = FALSE
  /\ orphans' = {} /\ stop' = "no"
  /\ UNCHANGED <<status, rowVars, notified, runs, dbErrors>>

-----------------------------------------------------------------------------
(* Clients of the queue, and the rest of notifyCompletionAndDelete() *)

EnqueueJob ==
  /\ \E t \in NewJobs : Enqueue(t)
  /\ Wakeup
  /\ UNCHANGED <<workVars, lifeVars>>

\* the subscribers of the job go, and JOB_COMPLETED is published
AnnounceCompletion ==
  /\ Announce
  /\ Wakeup
  /\ attached' = (attached /\ mutex.job # current)
  /\ UNCHANGED <<current, token, runs, lifeVars>>

ClientDeletes ==
  /\ mutex.by = "client" /\ DeleteRow
  /\ UNCHANGED <<ctlVars, workVars, lifeVars>>

\* notifyCancellationRequest(): the subscriber cancels the token
NotifyCancellation(j) ==
  /\ token' = (token \/ (attached /\ current = j))
  /\ UNCHANGED <<current, attached, runs>>

\* mutant of CancelPending: a pending job is marked, as a running one is
CancelPendingMarks ==
  /\ mutex = Free
  /\ \E j \in JobId : /\ status[j] = "pending" /\ ~cancelRequested[j]
                      /\ MarkCancelled(j, {})
  /\ UNCHANGED <<ctlVars, workVars, lifeVars>>

\* cancelJob(); a job that is gone, terminal or already marked changes nothing
CancelPending ==
  /\ mutex = Free
  /\ \E j \in JobId : /\ status[j] = "pending" /\ ~cancelRequested[j]
                      /\ Settle(j, "cancelled", "client", {})
  /\ UNCHANGED <<ctlVars, workVars, lifeVars>>

CancelRunning ==
  /\ mutex = Free
  /\ \E j \in JobId : /\ status[j] = "running" /\ ~cancelRequested[j]
                      /\ MarkCancelled(j, {}) /\ NotifyCancellation(j)
  /\ UNCHANGED <<ctlVars, lifeVars>>

\* cancelJobs(): one SELECT, then the rows one after the other
BulkCancelStarts ==
  /\ \E t \in NewJobs : StartBulkCancel(t.ref)
  /\ UNCHANGED <<ctlVars, workVars, lifeVars>>

BulkCancelsPending ==
  /\ mutex.stage = "bulk"
  /\ \E j \in mutex.todo : /\ status[j] = "pending"
                           /\ Settle(j, "cancelled", "client", mutex.todo \ {j})
  /\ UNCHANGED <<ctlVars, workVars, lifeVars>>

BulkMarksRunning ==
  /\ mutex.stage = "bulk"
  /\ \E j \in mutex.todo : /\ status[j] = "running"
                           /\ MarkCancelled(j, mutex.todo \ {j})
                           /\ NotifyCancellation(j)
  /\ UNCHANGED <<ctlVars, lifeVars>>

-----------------------------------------------------------------------------
(* Database calls that throw.  A failed write is taken not to be applied.  *)

DbError == dbErrors < MaxDbErrors /\ dbErrors' = dbErrors + 1

LoopDbError ==
  /\ pc \in {"fetch", "precheck", "claim"} \cup Settling
  /\ mutex.by # "loop"
  /\ DbError /\ Raise
  /\ UNCHANGED <<queueVars, instance, orphans, stop>>

\* the DELETE fails: the row stays, terminal, and the caller gets the exception
DeleteFails ==
  /\ mutex.stage = "notified"
  /\ DbError
  /\ mutex' = Free
  /\ CASE mutex.by = "loop" -> Raise
       [] mutex.by = "boot" -> /\ boot' = "failed"
                               /\ UNCHANGED <<pc, launcher, wakeup, failures, timer, workVars>>
       [] OTHER -> UNCHANGED <<ctlVars, workVars>>
  /\ UNCHANGED <<status, rowVars, notified, instance, orphans, stop>>

\* a failing SELECT or failJob() rejects the chain of start(); a failing reset
\* is logged and the next orphan is tried
BootDbError ==
  /\ DbError
  /\ \/ /\ boot \in {"orphans", "failing"} /\ mutex.by # "boot"
        /\ boot' = "failed" /\ UNCHANGED orphans
     \/ /\ boot = "recover" /\ ~stopRequested
        /\ \E j \in First(orphans) : orphans' = orphans \ {j}
        /\ UNCHANGED boot
  /\ UNCHANGED <<pc, launcher, wakeup, failures, timer, workVars, queueVars, instance, stop>>

-----------------------------------------------------------------------------
LoopStep ==
  \/ LoopStops \/ FetchJob \/ FetchNothing \/ Drained
  \/ Precheck \/ Claim \/ Attach \/ ClaimFindsNoRow \/ ClaimLost
  \/ HandlerReturns \/ HandlerAborts \/ HandlerFails
  \/ LoopSettles \/ LoopFindsNoRow \/ LoopDeletes

BootStep ==
  BootFindsOrphans \/ BootResets \/ BootGivesUp \/ BootSettles \/ BootDeletes \/ BootLaunches

QueueStep == AnnounceCompletion \/ ClientDeletes \/ BulkCancelsPending \/ BulkMarksRunning

StopStep == StopFinishes \/ StopTimesOut

ClientStep == EnqueueJob \/ CancelPending \/ CancelRunning \/ BulkCancelStarts \/ StopBegins

FaultStep == Restart \/ LoopDbError \/ DeleteFails \/ BootDbError

Next ==
  LoopStep \/ BootStep \/ QueueStep \/ StopStep \/ TimerTick \/ ClientStep \/ FaultStep

Spec == Init /\ [][Next]_vars

\* the steps the process owes: its promise chains go on, the interval timer
\* ticks, and a handler, once called, ends
Fairness ==
  WF_vars(LoopStep) /\ WF_vars(BootStep) /\ WF_vars(QueueStep) /\ WF_vars(StopStep)
    /\ WF_vars(TimerTick)

FairSpec == Spec /\ Fairness

-----------------------------------------------------------------------------
(* Properties *)

\* At most one sequential job per reference is pending or running, whatever the
\* order of enqueues, recoveries of orphans, cancellations and crashes: the
\* check in enqueue() only sees active rows, so no step may make a finished or
\* superseded row active again (enqueue, resetOrphanedJob, claimJob).
SequentialExclusive ==
  \A i, j \in JobId :
    (/\ i # j /\ status[i] \in Active /\ status[j] \in Active
     /\ columns[i].mode = "sequential" /\ columns[j].mode = "sequential"
     /\ columns[i].ref # NoRef)
    => columns[i].ref # columns[j].ref

\* A job's handler is started at most once more than the job was recovered, and
\* a job is recovered at most maxRetries times, over all processes
\* (claimJob, resetOrphanedJob, processJob).
HandlerStartsBounded ==
  \A j \in JobId : /\ runs[j] <= retryCount[j] + 1
                    /\ retryCount[j] <= columns[j].maxRetries

\* Why both hold, step by step.  Recovery writes to rows it read a while ago
\* (getOrphanedJobs) and to whatever status they have by then: it is safe because
\* nobody else can move an orphan, neither the loop, which works on rows it has
\* seen pending, nor a client, nor another terminal operation.
BootOwnsLoop == (pc # "idle" /\ launcher = "boot") => boot = "looping"
BootHoldsMutex == mutex.by = "boot" => boot = "failing" /\ mutex.stage \in {"settled", "notified"}
Recovering == boot \in {"recover", "failing"}
OrphansStayRunning ==
  Recovering => \A j \in orphans : status[j] = "running" \/ (mutex.by = "boot" /\ j = mutex.job)
LoopAvoidsOrphans ==
  pc \in Working => /\ Recovering => current \notin orphans
                    /\ status[current] = "running" => owner[current] = instance
SettledIsTerminal == mutex.stage \in {"settled", "notified"} => status[mutex.job] \in Terminal
StartsCounted ==
  /\ \A j \in JobId : status[j] = "pending" => runs[j] <= retryCount[j]
  /\ \A j \in JobId : j > lastId => status[j] = "unused" /\ runs[j] = 0 /\ retryCount[j] = 0
  /\ pc = "attach" => status[current] = "running" /\ runs[current] <= retryCount[current]

RecoverySafe ==
  /\ SequentialExclusive /\ HandlerStartsBounded
  /\ BootOwnsLoop /\ BootHoldsMutex /\ OrphansStayRunning /\ LoopAvoidsOrphans
  /\ SettledIsTerminal /\ StartsCounted

\* As long as no database call fails, every row this process has claimed is the
\* one its loop is working on: none is left running with a live owner, where
\* orphan recovery would never find it (processJob's error paths).
RunningIsCurrent ==
  \A j \in JobId :
    (dbErrors = 0 /\ status[j] = "running" /\ owner[j] = instance)
    => current = j /\ pc \in Working

\* The check of wakeupRequested at the end of processLoop() loses no wake-up: an
\* idle, started processor that has not just failed leaves no job it was woken up
\* for.  (Recovery wakes nobody up: a job reset while an earlier wake-up's loop is
\* about to end waits for the next tick of the timer.)
NoLostWakeup ==
  (pc = "idle" /\ boot = "done" /\ stop = "no" /\ failures = 0)
  => \A j \in Eligible : retryCount[j] > 0

\* While a handler runs, a cancellation that cancelJob() has accepted since the
\* claim is on the handler's token: "the token is notified immediately" (types.ts).
CancellationReachesHandler ==
  (pc = "handler" /\ stop # "stopped" /\ cancelRequested[current]) => token

\* A job marked for cancellation is never started (again): not when the mark comes
\* between its selection and its claim, and not after the process died and the job
\* was recovered (cancelJob, getNextPendingJob, processJob, resetOrphanedJob).
CancelledNeverClaimed ==
  [][\A j \in JobId : (cancelRequested[j] /\ status'[j] = "running") => status[j] = "running"]_vars

\* The lifecycle a job shows to its subscribers, read off the row and the history
\* of announcements.
Phase(j) ==
  CASE status[j] = "unused"  -> "unused"
    [] status[j] = "pending" -> "waiting"
    [] status[j] = "running" -> "running"
    [] status[j] = "deleted" -> "gone"
    [] OTHER -> IF j \in notified THEN "announced" ELSE "ended"

Lifecycle == INSTANCE JobLifecycle
  WITH Jobs <- JobId, Kinds <- NewJobs,
       phase <- [j \in JobId |-> Phase(j)], kind <- columns, recoveries <- retryCount

\* Queue and processor together, with all their interleavings, crashes and
\* restarts, show every job the lifecycle of JobLifecycle: active jobs of one
\* reference exclude each other, an ended job is announced at most once, never
\* before it has ended, and deleted only then (as long as no DELETE fails).
ImplementsLifecycle == Lifecycle!Spec

\* What the processor can no longer be expected to serve: it is being stopped,
\* its start failed, or the polling timer was cleared after repeated failures.
Halted == stop # "no" \/ boot = "failed" \/ (boot = "done" /\ ~timer)

\* Every pending job is eventually taken off the queue, although a wake-up may
\* be lost with a failed loop and recovery publishes no event: the timer and the
\* order of start() make up for both.
PendingServed ==
  \A j \in JobId : (j \in Eligible) ~> (j \notin Eligible \/ Halted)

\* cancelJob(): "For running jobs: Sets cancelledAt to signal handler to stop"
\* (job_queue_service.ts): a running job marked so leaves the table.
CancelledJobEnds ==
  \A j \in JobId : (status[j] = "running" /\ cancelRequested[j]) ~> (status[j] \notin Active \/ Halted)
=============================================================================
