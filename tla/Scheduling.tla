----------------------------- MODULE Scheduling -----------------------------
(***************************************************************************)
(* SchedulingService: the rows of table `schedule`, the timers, start() and*)
(* stop(), the trigger, the completion handler and the operations of its   *)
(* clients, over a job queue that keeps the promises of JobLifecycle.      *)
(*                                                                         *)
(* A run time is "none", "future" or "due"; timers may fire early, as they *)
(* do when setTimeout() is clamped.  The completion handler runs inside the*)
(* terminal operation of the queue, which holds the queue's mutex.         *)
(***************************************************************************)
EXTENDS Integers, FiniteSets

CONSTANTS
  Schedules,    \* names
  Type,         \* [Schedules -> type of the schedule]
  Ref,          \* [Schedules -> jobReferenceId, or NoRef]
  Transient,    \* schedules with isPersistent = false
  Owned,        \* schedules their owner pauses, resumes, cancels and deletes
  Updatable,    \* schedules whose interval or run time a route changes
  MaxFailures,  \* maxConsecutiveFailures
  MaxRetries,   \* jobMaxRetries
  ForeignRefs,  \* references under which others enqueue sequential jobs
  NoRef,
  MaxJobs,      \* bound: jobs that exist or are referred to at one time
  MaxInstances, \* bound: how many times the process is started
  MaxCalls,     \* bound: calls of scheduleNextTrigger() in flight at one time
  MaxStrays,    \* bound: live timers the service has lost track of
  Manual,       \* is triggerNow() called?
  StopTimeout   \* may stop() give up waiting?

JobIds == 1..MaxJobs
NoJob  == 0
Foreign == "foreign"
NoSchedule == "no schedule"

Interval == {"sequential_interval", "concurrent_interval"}
Awaited  == {"dynamic", "sequential_interval"}

ASSUME SchedulesAssumption ==
  /\ Schedules # {} /\ Foreign \notin Schedules
  /\ Type \in [Schedules -> Interval \cup {"dynamic", "one_off"}]
  /\ Transient \cup Owned \cup Updatable \subseteq Schedules
  /\ MaxFailures \in Nat \ {0} /\ MaxRetries \in Nat

ASSUME BoundsAssumption ==
  MaxJobs \in Nat /\ MaxInstances \in Nat \ {0} /\ MaxCalls \in Nat /\ MaxStrays \in Nat

Kind(by, ref) == [mode |-> "sequential", ref |-> ref, maxRetries |-> MaxRetries, schedule |-> by]
Kinds == {Kind(s, Ref[s]) : s \in Schedules} \cup {Kind(Foreign, r) : r \in ForeignRefs}

VARIABLES
  row,         \* table schedule: status, next (nextRunAt), active (activeJobId), failures
  phase, kind, recoveries,  \* the jobs, as JobLifecycle has them
  orphans,     \* running jobs of a process that died
  subscribed,  \* jobs with a completion subscriber
  notice,      \* the terminal operation in the queue: its job and how far it is
  svc,         \* how far start() has got; "running" afterwards
  todo,        \* the schedules a loop of start() has left, with their jobs
  found,       \* the one whose job getJob() has just found
  stop,        \* how far stop() has got
  timer,       \* timerId is a live timer
  strays,      \* live timers that timerId no longer names
  debounce,    \* rescheduleDebounceTimer is set
  arm,         \* calls of scheduleNextTrigger(), by caller
  trig,        \* calls of triggerDueSchedules() and triggerNow()
  client,      \* the client operation that holds the service's writeMutex
  instance,
  missed       \* history: schedules whose job's end nobody will handle, see Misses

jobVars    == <<phase, kind, recoveries>>
queueVars  == <<jobVars, orphans, subscribed, notice>>
startVars  == <<svc, todo, found>>
timerVars  == <<timer, strays, debounce, arm>>
vars == <<row, queueVars, startVars, stop, timerVars, trig, client, instance, missed>>

Queue == INSTANCE JobLifecycle WITH Jobs <- JobIds

Absent == [status |-> "absent", next |-> "none", active |-> NoJob, failures |-> 0]
Deleted == [Absent EXCEPT !.status = "deleted"]
Exists(s) == row[s].status \notin {"absent", "deleted"}
\* CREATE gives a new id; the ids are interchangeable
Fresh(j) == phase[j] = "unused" /\ \A i \in JobIds : i < j => phase[i] # "unused"
IsActiveJob(j) == j # NoJob /\ phase[j] \in {"waiting", "running"}

Actors  == {"timer", "manual"}
Callers == {"start", "debounce", "finally", "notice"}

NoDue    == [s \in {} |-> 0]
NoTrig   == [step |-> "idle", due |-> NoDue, s |-> Foreign, job |-> NoJob]
NoNotice == [step |-> "none", job |-> NoJob, outcome |-> "failed", failures |-> 0]
NoClient == [op |-> "none", s |-> Foreign, next |-> "none", job |-> NoJob]

starting      == svc \in {"clear", "stale", "reset", "waiting", "resub", "subscribe", "arming"}
isRunning     == starting \/ svc = "running"
stopRequested == stop \in {"waiting", "draining"}
isProcessing  == trig["timer"].step # "idle"

\* operations of clients have the mutex one after the other, and main.ts awaits start() first
ClientMay == client = NoClient /\ ~starting

TypeOK ==
  /\ row \in [Schedules -> [status : {"absent", "deleted", "active", "paused", "completed", "error"},
                            next : {"none", "future", "due"},
                            active : JobIds \cup {NoJob}, failures : 0..MaxFailures]]
  /\ kind \in [JobIds -> Kinds] /\ recoveries \in [JobIds -> 0..MaxRetries]
  /\ orphans \in SUBSET JobIds /\ subscribed \in SUBSET JobIds
  /\ notice.job \in JobIds \cup {NoJob}
  /\ arm \in [Callers -> {"idle", "read", "set"}]
  /\ strays \in 0..MaxStrays /\ timer \in BOOLEAN /\ debounce \in BOOLEAN
  /\ stop \in {"no", "waiting", "draining", "stopped"}
  /\ starting \/ svc \in {"running", "halted", "stopped"}
  /\ DOMAIN todo \subseteq Schedules
  /\ instance \in 1..MaxInstances
  /\ missed \subseteq Schedules

Init ==
  /\ row = [s \in Schedules |-> Absent]
  /\ phase = [j \in JobIds |-> "unused"] /\ kind = [j \in JobIds |-> CHOOSE k \in Kinds : TRUE]
  /\ recoveries = [j \in JobIds |-> 0]
  /\ orphans = {} /\ subscribed = {} /\ notice = NoNotice
  /\ svc = "clear" /\ todo = NoDue /\ found = NoSchedule /\ stop = "no"
  /\ timer = FALSE /\ strays = 0 /\ debounce = FALSE /\ arm = [c \in Callers |-> "idle"]
  /\ trig = [a \in Actors |-> NoTrig] /\ client = NoClient
  /\ instance = 1 /\ missed = {}

\* counts beyond maxConsecutiveFailures act alike
OneMore(n) == IF n < MaxFailures THEN n + 1 ELSE n

\* an UPDATE of the row, which does nothing when the row is gone
Write(s, r) == row' = IF Exists(s) THEN [row EXCEPT ![s] = r] ELSE row

-----------------------------------------------------------------------------
(* scheduleNextTrigger() and requestReschedule() *)

\* up to its query, in one step with the write its caller awaits first: the timer it
\* knows of is cleared.  Calls may overlap; a bound limits how many do.
ArmStarts(c) ==
  /\ Cardinality({d \in Callers \ {c} : arm[d] \in {"read", "set"}}) < MaxCalls
  /\ timer' = FALSE
  /\ arm' = [arm EXCEPT ![c] = IF stopRequested THEN "idle" ELSE "read"]

Soonest == {s \in Schedules : row[s].status = "active" /\ row[s].next # "none"}

ArmReads(c) ==
  /\ arm[c] = "read"
  /\ arm' = [arm EXCEPT ![c] = IF Soonest = {} THEN "idle" ELSE "set"]
  /\ UNCHANGED <<row, queueVars, startVars, stop, timer, strays, debounce, trig, client, instance, missed>>

\* setTimeout(): a timer that another call has set meanwhile stays alive, unnamed
ArmSets(c) ==
  /\ arm[c] = "set"
  /\ timer => strays < MaxStrays
  /\ timer' = TRUE /\ strays' = IF timer THEN strays + 1 ELSE strays
  /\ arm' = [arm EXCEPT ![c] = "idle"]
  /\ UNCHANGED <<row, queueVars, startVars, stop, debounce, trig, client, instance, missed>>

ArmStep(c) == ArmReads(c) \/ ArmSets(c)

\* requestReschedule(), if the service runs
Reschedule == debounce' = (debounce \/ isRunning)

\* one call per caller is in flight at a time (a bound)
DebounceFires ==
  /\ debounce /\ arm["debounce"] = "idle"
  /\ debounce' = FALSE /\ ArmStarts("debounce")
  /\ UNCHANGED <<row, queueVars, startVars, stop, strays, trig, client, instance, missed>>

-----------------------------------------------------------------------------
(* triggerDueSchedules() and triggerScheduleInternal() *)

SetTrig(a, r) == trig' = [trig EXCEPT ![a] = r]

\* a timer of this service fires; during a run of triggerDueSchedules() in vain
TriggerBegins ==
  IF isProcessing THEN UNCHANGED trig
  ELSE SetTrig("timer", [NoTrig EXCEPT !.step = "query"])

TimerFires ==
  /\ timer /\ timer' = FALSE /\ TriggerBegins
  /\ UNCHANGED <<row, queueVars, startVars, stop, strays, debounce, arm, client, instance, missed>>

StrayFires ==
  /\ strays > 0 /\ strays' = strays - 1 /\ TriggerBegins
  /\ UNCHANGED <<row, queueVars, startVars, stop, timer, debounce, arm, client, instance, missed>>

DueRead ==
  /\ trig["timer"].step = "query"
  /\ SetTrig("timer", [NoTrig EXCEPT !.step = "loop",
       !.due = [s \in {t \in Soonest : row[t].next = "due"} |-> row[s].failures]])
  /\ UNCHANGED <<row, queueVars, startVars, stop, timerVars, client, instance, missed>>

\* enqueue(), which waits for the queue's mutex, creates the job ...
Enqueues(a, s) ==
  /\ trig[a].step = "loop" /\ s \in DOMAIN trig[a].due
  /\ a = "timer" => ~stopRequested
  /\ notice = NoNotice
  /\ \E j \in JobIds :
       /\ Fresh(j) /\ Queue!Create(j, Kind(s, Ref[s]))
       /\ SetTrig(a, [trig[a] EXCEPT !.step = "update", !.s = s, !.job = j])
  /\ UNCHANGED <<row, orphans, subscribed, notice, startVars, stop, timerVars, client, instance, missed>>

\* ... or throws DuplicateJobError
EnqueueRejected(a, s) ==
  /\ trig[a].step = "loop" /\ s \in DOMAIN trig[a].due
  /\ a = "timer" => ~stopRequested
  /\ notice = NoNotice
  /\ \E j \in JobIds : IsActiveJob(j) /\ Queue!Rivals(kind[j], Kind(s, Ref[s]))
  /\ SetTrig(a, IF a = "manual" THEN NoTrig ELSE [trig[a] EXCEPT !.step = "error", !.s = s])
  /\ UNCHANGED <<row, queueVars, startVars, stop, timerVars, client, instance, missed>>

\* the snapshot of schedule s has been handled
Handled(t) ==
  [t EXCEPT !.step = "loop", !.due = [u \in DOMAIN t.due \ {t.s} |-> t.due[u]],
            !.s = Foreign, !.job = NoJob]

\* mutant of Triggered: the run time is left as it was
TriggeredStillDue(s, j) ==
  CASE Type[s] = "one_off" -> [row[s] EXCEPT !.status = "completed", !.active = j, !.failures = 0]
    [] Type[s] \in Awaited -> [row[s] EXCEPT !.active = j, !.failures = 0]
    [] OTHER -> [row[s] EXCEPT !.next = "future", !.failures = 0]

\* the row after a trigger, by type
Triggered(s, j) ==
  CASE Type[s] = "one_off" ->
         [row[s] EXCEPT !.status = "completed", !.next = "none", !.active = j, !.failures = 0]
    [] Type[s] \in Awaited ->
         [row[s] EXCEPT !.next = "none", !.active = j, !.failures = 0]
    [] OTHER -> [row[s] EXCEPT !.next = "future", !.failures = 0]

TriggerWrites(a) ==
  /\ trig[a].step = "update"
  /\ Write(trig[a].s, Triggered(trig[a].s, trig[a].job))
  /\ SetTrig(a, IF Type[trig[a].s] \in Awaited THEN [trig[a] EXCEPT !.step = "subscribe"]
                ELSE Handled(trig[a]))
  /\ missed' = IF Type[trig[a].s] \in Awaited /\ ~IsActiveJob(trig[a].job)
               THEN missed \cup {trig[a].s} ELSE missed \ {trig[a].s}
  /\ UNCHANGED <<queueVars, startVars, stop, timerVars, client, instance>>

\* mutant of TriggerSubscribes: nobody waits for the job
TriggerForgets(a) ==
  /\ trig[a].step = "subscribe"
  /\ SetTrig(a, Handled(trig[a]))
  /\ UNCHANGED <<row, queueVars, startVars, stop, timerVars, client, instance, missed>>

\* subscribeToJobCompletion(), after the UPDATE has been answered
TriggerSubscribes(a) ==
  /\ trig[a].step = "subscribe"
  /\ subscribed' = subscribed \cup {trig[a].job}
  /\ SetTrig(a, Handled(trig[a]))
  /\ UNCHANGED <<row, jobVars, orphans, notice, startVars, stop, timerVars, client, instance, missed>>

\* handleScheduleError(), with the failure count read by the query
TriggerFails(a) ==
  /\ trig[a].step = "error"
  /\ LET count == OneMore(trig[a].due[trig[a].s]) IN
       Write(trig[a].s, [row[trig[a].s] EXCEPT !.failures = count,
                         !.status = IF count >= MaxFailures THEN "error" ELSE @])
  /\ SetTrig(a, Handled(trig[a]))
  /\ UNCHANGED <<queueVars, startVars, stop, timerVars, client, instance, missed>>

\* mutant of TriggerEnds: the next timer is set only if something was due
TriggerEndsUnarmed ==
  /\ trig["timer"].step = "loop" /\ (stopRequested \/ trig["timer"].due = NoDue)
  /\ SetTrig("timer", NoTrig)
  /\ UNCHANGED <<row, queueVars, startVars, stop, timerVars, client, instance, missed>>

\* the finally block
TriggerEnds ==
  /\ trig["timer"].step = "loop" /\ (stopRequested \/ trig["timer"].due = NoDue)
  /\ SetTrig("timer", NoTrig)
  /\ IF stopRequested THEN UNCHANGED <<timer, arm>>
     ELSE arm["finally"] = "idle" /\ ArmStarts("finally")
  /\ UNCHANGED <<row, queueVars, startVars, stop, strays, debounce, client, instance, missed>>

TriggerNow(s) ==
  /\ Manual /\ ClientMay /\ trig["manual"] = NoTrig
  /\ row[s].status \in {"active", "paused"}
  /\ SetTrig("manual", [NoTrig EXCEPT !.step = "loop", !.due = [u \in {s} |-> row[u].failures]])
  /\ UNCHANGED <<row, queueVars, startVars, stop, timerVars, client, instance, missed>>

TriggerNowEnds ==
  /\ trig["manual"].step = "loop" /\ trig["manual"].due = NoDue
  /\ SetTrig("manual", NoTrig)
  /\ UNCHANGED <<row, queueVars, startVars, stop, timerVars, client, instance, missed>>

TriggerStep(a) ==
  \/ \E s \in Schedules : Enqueues(a, s) \/ EnqueueRejected(a, s)
  \/ TriggerWrites(a) \/ TriggerSubscribes(a) \/ TriggerFails(a)

-----------------------------------------------------------------------------
(* The job queue and the completion handler *)

JobStarts(j) ==
  /\ notice = NoNotice /\ Queue!Start(j)
  /\ UNCHANGED <<row, orphans, subscribed, notice, startVars, stop, timerVars, trig, client, instance, missed>>

\* an orphan is reset, or failed when its retries are used up
JobRecovers(j) ==
  /\ notice = NoNotice /\ j \in orphans
  /\ Queue!Recover(j)
  /\ orphans' = orphans \ {j}
  /\ UNCHANGED <<row, subscribed, notice, startVars, stop, timerVars, trig, client, instance, missed>>

\* does the service still owe job j its subscription?
Owed(j) ==
  \/ \E a \in Actors : trig[a].job = j
  \/ svc = "subscribe" /\ todo[found] = j

\* start() has still to read which schedules wait for job j
Sought(j) ==
  svc \in {"clear", "stale", "reset", "waiting"} /\ \E s \in Schedules : row[s].active = j

\* The ends that nobody handles: of a job that its trigger has yet to subscribe to, that
\* start() has yet to look for or has just found, or that a start() which was told to stop
\* never looked for.  A trigger may also write the id of a job that has ended already, and
\* start() passes over paused schedules, finds a job amid its completion, or dies with
\* the job gone before it has looked.
Misses(j) ==
  {s \in Schedules : row[s].active = j /\ (Owed(j) \/ Sought(j) \/ svc = "halted")}

\* the UPDATE of a terminal operation; a dynamic job names the next time or none
JobEnds(j, outcome) ==
  /\ notice = NoNotice /\ Queue!End(j)
  /\ missed' = missed \cup Misses(j)
  /\ phase[j] = "waiting" => outcome = "failed"
  /\ outcome = "last" => \E s \in Schedules : kind[j].schedule = s /\ Type[s] = "dynamic"
  /\ j \in orphans => outcome = "failed" /\ recoveries[j] >= kind[j].maxRetries
  /\ orphans' = orphans \ {j}
  /\ notice' = IF j \in subscribed
               THEN [NoNotice EXCEPT !.job = j, !.step = "read", !.outcome = outcome]
               ELSE [NoNotice EXCEPT !.job = j, !.step = "announce"]
  /\ UNCHANGED <<row, subscribed, startVars, stop, timerVars, trig, client, instance>>

JobStep(j) ==
  JobStarts(j) \/ JobRecovers(j) \/ \E o \in {"next", "last", "failed"} : JobEnds(j, o)

\* handleJobCompletionEvent(): only the schedule's active job counts
NoticeReads ==
  /\ notice.step = "read"
  /\ LET s == kind[notice.job].schedule IN
       notice' = IF Exists(s) /\ row[s].active = notice.job
                 THEN [notice EXCEPT !.step = "write", !.failures = row[s].failures]
                 ELSE [NoNotice EXCEPT !.job = notice.job, !.step = "announce"]
  /\ UNCHANGED <<row, jobVars, orphans, subscribed, startVars, stop, timerVars, trig, client, instance, missed>>

\* handleJobCompletion() and handleJobFailure()
AfterJob(s, outcome, failures) ==
  CASE outcome = "failed" ->
         IF OneMore(failures) >= MaxFailures
         THEN [row[s] EXCEPT !.status = "error", !.active = NoJob, !.failures = OneMore(failures)]
         ELSE [row[s] EXCEPT !.next = "future", !.active = NoJob, !.failures = OneMore(failures)]
    [] outcome = "last" /\ Type[s] = "dynamic" ->
         [row[s] EXCEPT !.status = "completed", !.active = NoJob]
    [] OTHER -> [row[s] EXCEPT !.next = "future", !.active = NoJob]

NoticeWrites ==
  /\ notice.step = "write"
  /\ LET s == kind[notice.job].schedule IN
       Write(s, AfterJob(s, notice.outcome, notice.failures)) /\ missed' = missed \ {s}
  /\ notice' = [NoNotice EXCEPT !.job = notice.job, !.step = "arm"]
  /\ ArmStarts("notice")
  /\ UNCHANGED <<jobVars, orphans, subscribed, startVars, stop, strays, debounce,
                 trig, client, instance>>

\* the subscriber is awaited, then the subscribers go and the row is deleted
NoticeAnnounces ==
  /\ notice.step = "announce" \/ (notice.step = "arm" /\ arm["notice"] = "idle")
  /\ Queue!Announce(notice.job)
  /\ subscribed' = subscribed \ {notice.job}
  /\ notice' = [notice EXCEPT !.step = "delete"]
  /\ UNCHANGED <<row, orphans, startVars, stop, timerVars, trig, client, instance, missed>>

\* with the event clear_schedule_activeJob, whether or not the schedule was told
NoticeDeletes ==
  /\ notice.step = "delete"
  /\ Queue!Remove(notice.job)
  /\ notice' = NoNotice
  /\ row' = [s \in Schedules |-> IF row[s].active = notice.job THEN [row[s] EXCEPT !.active = NoJob]
                                ELSE row[s]]
  /\ UNCHANGED <<orphans, subscribed, startVars, stop, timerVars, trig, client, instance, missed>>

NoticeStep == NoticeReads \/ NoticeWrites \/ NoticeAnnounces \/ NoticeDeletes

\* a sequential job that somebody else enqueues under the same reference
ForeignEnqueues ==
  /\ notice = NoNotice
  /\ ~starting
  /\ \E j \in JobIds, r \in ForeignRefs : Fresh(j) /\ Queue!Create(j, Kind(Foreign, r))
  /\ UNCHANGED <<row, orphans, subscribed, notice, startVars, stop, timerVars, trig, client, instance, missed>>

\* the id of a deleted job that nobody refers to may stand for a new job
Forgotten(j) ==
  /\ phase[j] = "gone"
  /\ \A s \in Schedules : row[s].active # j
  /\ \A s \in DOMAIN todo : todo[s] # j
  /\ \A a \in Actors : trig[a].job # j
  /\ client.job # j

Forgets(j) ==
  /\ Forgotten(j)
  /\ phase' = [phase EXCEPT ![j] = "unused"]
  /\ kind' = [kind EXCEPT ![j] = CHOOSE k \in Kinds : TRUE]
  /\ recoveries' = [recoveries EXCEPT ![j] = 0]
  /\ subscribed' = subscribed \ {j}
  /\ UNCHANGED <<row, orphans, notice, startVars, stop, timerVars, trig, client, instance, missed>>

-----------------------------------------------------------------------------
(* start(), stop() and the death of the process *)

\* every await of start() is followed by a look at stopRequested
Goes(next) == svc' = IF stopRequested THEN "halted" ELSE next

StartClears ==
  /\ svc = "clear"
  /\ row' = [s \in Schedules |-> IF s \in Transient THEN Absent ELSE row[s]]
  /\ missed' = missed \ Transient
  /\ Goes("stale")
  /\ UNCHANGED <<queueVars, todo, found, stop, timerVars, trig, client, instance>>

\* resetStaleActiveJobs(): the rows whose job is no longer pending or running
StartReadsStale ==
  /\ svc = "stale" /\ svc' = "reset"
  /\ LET stale == {s \in Schedules : row[s].active # NoJob /\ ~IsActiveJob(row[s].active)}
     IN todo' = [s \in stale |-> row[s].active]
  /\ UNCHANGED <<row, queueVars, found, stop, timerVars, trig, client, instance, missed>>

Without(s) == [u \in DOMAIN todo \ {s} |-> todo[u]]

\* mutant of StartResets: the run time is not set again
StartResetsKeepingTime ==
  /\ svc = "reset"
  /\ \E s \in DOMAIN todo :
       Write(s, [row[s] EXCEPT !.active = NoJob]) /\ todo' = Without(s) /\ missed' = missed \ {s}
  /\ UNCHANGED <<svc, found, queueVars, stop, timerVars, trig, client, instance>>

\* interval schedules get a new run time, the others keep theirs
StartResets ==
  /\ svc = "reset"
  /\ \E s \in DOMAIN todo :
       /\ Write(s, [row[s] EXCEPT !.active = NoJob,
                                  !.next = IF Type[s] \in Interval THEN "future" ELSE @])
       /\ todo' = Without(s) /\ missed' = missed \ {s}
  /\ UNCHANGED <<svc, found, queueVars, stop, timerVars, trig, client, instance>>

StartResetDone ==
  /\ svc = "reset" /\ todo = NoDue /\ Goes("waiting")
  /\ UNCHANGED <<row, queueVars, todo, found, stop, timerVars, trig, client, instance, missed>>

\* resubscribeToActiveJobs()
StartReadsWaiting ==
  /\ svc = "waiting" /\ svc' = "resub"
  /\ LET waiting == {s \in Schedules : row[s].status = "active" /\ row[s].active # NoJob}
     IN todo' = [s \in waiting |-> row[s].active]
  /\ missed' = missed \cup {s \in Schedules : row[s].status = "paused" /\ row[s].active # NoJob}
  /\ UNCHANGED <<row, queueVars, found, stop, timerVars, trig, client, instance>>

\* getJob() finds nothing: resetScheduleAfterJobGone()
StartFindsJobGone ==
  /\ svc = "resub" /\ arm["start"] = "idle"
  /\ \E s \in DOMAIN todo :
       /\ phase[todo[s]] = "gone"
       /\ Write(s, [row[s] EXCEPT !.active = NoJob,
                                  !.next = IF Type[s] \in Interval THEN "future" ELSE "due"])
       /\ todo' = Without(s) /\ missed' = missed \ {s}
  /\ ArmStarts("start")
  /\ UNCHANGED <<svc, found, queueVars, stop, strays, debounce, trig, client, instance>>

\* getJob() finds the row, whatever its status; the subscription follows
StartFindsJob ==
  /\ svc = "resub" /\ arm["start"] = "idle"
  /\ \E s \in DOMAIN todo :
       /\ phase[todo[s]] # "gone" /\ found' = s
       /\ missed' = IF notice.job = todo[s] THEN missed \cup {s} ELSE missed
  /\ svc' = "subscribe"
  /\ UNCHANGED <<row, queueVars, todo, stop, timerVars, trig, client, instance>>

StartSubscribes ==
  /\ svc = "subscribe" /\ svc' = "resub"
  /\ subscribed' = subscribed \cup {todo[found]}
  /\ todo' = Without(found) /\ found' = NoSchedule
  /\ UNCHANGED <<row, jobVars, orphans, notice, stop, timerVars, trig, client, instance, missed>>

StartArms ==
  /\ svc = "resub" /\ todo = NoDue /\ arm["start"] = "idle"
  /\ Goes("arming")
  /\ IF stopRequested THEN UNCHANGED <<timer, arm>> ELSE ArmStarts("start")
  /\ UNCHANGED <<row, queueVars, todo, found, stop, strays, debounce, trig, client, instance, missed>>

StartEnds ==
  /\ svc = "arming" /\ arm["start"] = "idle" /\ Goes("running")
  /\ UNCHANGED <<row, queueVars, todo, found, stop, timerVars, trig, client, instance, missed>>

StartStep ==
  \/ StartClears \/ StartReadsStale \/ StartResets \/ StartResetDone \/ StartReadsWaiting
  \/ StartFindsJobGone \/ StartFindsJob \/ StartSubscribes \/ StartArms \/ StartEnds

StopBegins ==
  /\ stop = "no" /\ stop' = "waiting"
  /\ UNCHANGED <<row, queueVars, startVars, timerVars, trig, client, instance, missed>>

\* start() has ended or the wait for it timed out: the two timers are cleared
StopClears ==
  /\ stop = "waiting" /\ (starting => StopTimeout)
  /\ stop' = "draining" /\ timer' = FALSE /\ debounce' = FALSE
  /\ UNCHANGED <<row, queueVars, startVars, strays, arm, trig, client, instance, missed>>

StopEnds ==
  /\ stop = "draining" /\ (isProcessing => StopTimeout)
  /\ stop' = "stopped"
  /\ svc' = IF svc = "running" THEN "stopped" ELSE svc
  /\ UNCHANGED <<row, queueVars, todo, found, timerVars, trig, client, instance, missed>>

Restart ==
  /\ instance < MaxInstances /\ instance' = instance + 1
  /\ orphans' = {j \in JobIds : phase[j] = "running"}
  /\ subscribed' = {} /\ notice' = NoNotice
  /\ svc' = "clear" /\ todo' = NoDue /\ found' = NoSchedule /\ stop' = "no"
  /\ timer' = FALSE /\ strays' = 0 /\ debounce' = FALSE
  /\ arm' = [c \in Callers |-> "idle"]
  /\ trig' = [a \in Actors |-> NoTrig] /\ client' = NoClient
  /\ missed' = missed \cup {s \in DOMAIN todo : row[s].active = NoJob}
  /\ UNCHANGED <<row, jobVars>>

-----------------------------------------------------------------------------
(* The clients' operations, one at a time under writeMutex: a read that     *)
(* decides, then the write.                                                 *)

\* registerSchedule(); a deleted schedule is not registered again (a bound): the new
\* row would have a new id, and what still refers to the old one would not find it
Registers(s) ==
  /\ ClientMay /\ row[s] = Absent
  /\ \E time \in IF Type[s] \in Interval THEN {"future"} ELSE {"future", "due"} :
       row' = [row EXCEPT ![s] = [Absent EXCEPT !.status = "active", !.next = time]]
  /\ Reschedule
  /\ UNCHANGED <<queueVars, startVars, stop, timer, strays, arm, trig, client, instance, missed>>

Reads(s, op, time, job) ==
  /\ ClientMay
  /\ client' = [op |-> op, s |-> s, next |-> time, job |-> job]
  /\ UNCHANGED <<row, queueVars, startVars, stop, timerVars, trig, instance, missed>>

ReadsToPause(s) == s \in Owned /\ row[s].status = "active" /\ Reads(s, "pause", "none", NoJob)

\* calculateNextRunAtFromNow(): one-off and dynamic schedules keep a stored time
ReadsToResume(s) ==
  /\ s \in Owned /\ row[s].status = "paused"
  /\ Reads(s, "resume", IF Type[s] \in Interval THEN "future"
                        ELSE IF row[s].next # "none" THEN row[s].next ELSE "due", NoJob)

\* calculateUpdatedNextRunAt(): a new interval leaves the time alone while a job is active
ReadsToUpdate(s) ==
  /\ s \in Updatable /\ row[s].status \in {"active", "paused"}
  /\ Type[s] \in Interval => row[s].active = NoJob
  /\ Reads(s, "update", "future", NoJob)

ReadsToEnd(s) ==
  /\ s \in Owned /\ Exists(s)
  /\ \E op \in {"cancel", "delete"}, job \in {NoJob, row[s].active} : Reads(s, op, "none", job)

\* cancelJob() of a pending job is a terminal operation, awaited by the client
ClientCancelsJob ==
  /\ client.job # NoJob /\ phase[client.job] = "waiting"
  /\ JobEnds(client.job, "failed")

ClientWrites ==
  /\ client # NoClient
  /\ client.job # NoJob => phase[client.job] # "waiting" /\ notice.job # client.job
  /\ LET s == client.s IN
       Write(s, CASE client.op = "pause"  -> [row[s] EXCEPT !.status = "paused"]
                  [] client.op = "resume" -> [row[s] EXCEPT !.status = "active", !.next = client.next]
                  [] client.op = "update" -> [row[s] EXCEPT !.next = client.next]
                  [] client.op = "cancel" -> [row[s] EXCEPT !.status = "completed", !.next = "none",
                                                            !.active = NoJob]
                  [] OTHER -> Deleted)
  /\ Reschedule
  /\ client' = NoClient
  /\ UNCHANGED <<queueVars, startVars, stop, timer, strays, arm, trig, instance, missed>>

ClientStep == ClientCancelsJob \/ ClientWrites

\* time passes: a run time that lay ahead has come
Elapses(s) ==
  /\ row[s].next = "future"
  /\ row' = [row EXCEPT ![s].next = "due"]
  /\ UNCHANGED <<queueVars, startVars, stop, timerVars, trig, client, instance, missed>>

-----------------------------------------------------------------------------
Next ==
  \/ \E c \in Callers : ArmStep(c)
  \/ DebounceFires \/ TimerFires \/ StrayFires \/ DueRead \/ TriggerEnds \/ TriggerNowEnds
  \/ \E a \in Actors : TriggerStep(a)
  \/ \E j \in JobIds : JobStep(j) \/ Forgets(j)
  \/ NoticeStep \/ ForeignEnqueues
  \/ StartStep \/ StopBegins \/ StopClears \/ StopEnds \/ Restart
  \/ \E s \in Schedules : \/ Registers(s) \/ ReadsToPause(s) \/ ReadsToResume(s)
                          \/ ReadsToUpdate(s) \/ ReadsToEnd(s) \/ TriggerNow(s) \/ Elapses(s)
  \/ ClientStep

Spec == Init /\ [][Next]_vars

\* what the process owes: live timers fire, its promise chains go on, jobs are
\* processed, time passes; the queue's mutex is first come, first served, so that a
\* trigger gets its turn.  Clients and crashes owe nothing.
Fairness ==
  /\ WF_vars(\E c \in Callers : ArmStep(c))
  /\ WF_vars(DebounceFires) /\ WF_vars(TimerFires)
  /\ WF_vars(DueRead \/ TriggerEnds) /\ SF_vars(TriggerStep("timer"))
  /\ WF_vars(TriggerNowEnds \/ TriggerStep("manual"))
  /\ WF_vars(\E j \in JobIds : Forgets(j)) /\ \A j \in JobIds : WF_vars(JobStep(j))
  /\ WF_vars(NoticeStep) /\ WF_vars(StartStep) /\ WF_vars(ClientStep)
  /\ \A s \in Schedules : WF_vars(Elapses(s))

FairSpec == Spec /\ Fairness

-----------------------------------------------------------------------------
(* Properties *)

Stopping == stop # "no"

\* While the service runs, an active schedule with a run time always has a live
\* timer or somebody on the way to setting one, however timers are cleared, lost
\* track of and set again by overlapping calls (scheduleNextTrigger,
\* requestReschedule, the finally block of triggerDueSchedules).
NextTriggerArmed ==
  (svc = "running" /\ ~Stopping /\ Soonest # {}) =>
    \/ timer \/ strays > 0 \/ debounce \/ isProcessing
    \/ \E c \in Callers : arm[c] # "idle"

\* The service will see the end of the job that schedule s waits for: it is subscribed
\* to it or about to be, or the job's completion is being handled; or it is one of the
\* ends that Misses names.
CompletionIsSeen(s) ==
  (/\ svc = "running" /\ row[s].status = "active" /\ Type[s] \in Awaited
   /\ row[s].active # NoJob /\ s \notin missed)
  => LET j == row[s].active IN
       \/ IsActiveJob(j) /\ (j \in subscribed \/ Owed(j))
       \/ notice.job = j /\ notice.step \in {"read", "write"}

\* While the service runs, no active schedule waits for a job whose completion is
\* missed, not even of a job that survived a restart (triggerScheduleInternal,
\* resubscribeToActiveJobs, handleJobCompletionEvent).  The exceptions are the windows of
\* the code: an end before the subscription, and a schedule that was paused when the
\* process restarted, since resubscribeToActiveJobs() reads the active ones only.
WaitingIsSubscribed == \A s \in Schedules : CompletionIsSeen(s)

\* An undisturbed interval schedule does not trigger again before its job has ended
\* (sequential_interval: "Wait for job completion", types.ts), whatever timers fire.
TriggersInTurn ==
  [][\A s \in Schedules \ (Owned \cup Updatable), j \in JobIds :
       (/\ Type[s] \in Awaited /\ trig["manual"] = NoTrig
        /\ phase[j] = "unused" /\ phase'[j] = "waiting" /\ kind'[j].schedule = s)
       => ~IsActiveJob(row[s].active)]_vars

\* Every active interval schedule triggers again, over restarts, as long as the
\* service is not stopped and the end of its job is not missed.
ActiveScheduleTriggers ==
  \A s \in {t \in Schedules \ Updatable : Type[t] \in Interval} :
    (row[s].status = "active")
    ~> (\/ \E j \in JobIds : phase[j] = "waiting" /\ kind[j].schedule = s
        \/ row[s].status # "active" \/ Stopping \/ s \in missed)

\* "Next scheduled execution time. NONE if paused or completed." (schedule.surql):
\* an active schedule without a job in hand has a run time.
ActiveHasNextRun ==
  \A s \in Schedules :
    (svc = "running" /\ row[s].status = "active" /\ row[s].active = NoJob) => row[s].next # "none"

\* The same of the interval schedules: a running service never leaves an active one with
\* neither a job nor a run time, whatever is cancelled, paused, crashed or cleared by the
\* database's event in between (handleJobCompletionEvent, resetStaleActiveJobs,
\* resetScheduleAfterJobGone), unless it has missed the end of the job.
IntervalHasNextRun ==
  \A s \in Schedules \ missed :
    (/\ svc = "running" /\ Type[s] \in Interval
     /\ row[s].status = "active" /\ row[s].active = NoJob) => row[s].next # "none"

\* A schedule that waits for its jobs and sees every one of them fail ends up in the
\* error state: "Max consecutive failures before error state" (types.ts).
SeesOutcome(s, outcomes) ==
  /\ notice.step = "write" /\ notice.outcome \in outcomes
  /\ kind[notice.job].schedule = s /\ row[s].active = notice.job

FailuresReachError ==
  \A s \in {t \in Schedules \ (Owned \cup Updatable) : Type[t] \in Awaited} :
    ([]<>SeesOutcome(s, {"failed"}) /\ []~SeesOutcome(s, {"next", "last"}))
    => <>(row[s].status = "error")
=============================================================================
