-------------------------- MODULE SchedulingProofs --------------------------
(***************************************************************************)
(* What holds of the scheduling service for every number of schedules,     *)
(* jobs, calls in flight and restarts.  On the shape of the state and on   *)
(* whose job a reference means (BaseInv) rest three invariants: somebody   *)
(* sets the next timer (ArmedInv), a schedule with a run time has no job   *)
(* (TurnsInv), and somebody waits for every job that counts (WatchInv).    *)
(***************************************************************************)
EXTENDS Scheduling, TLAPS

Phases == {"unused", "waiting", "running", "ended", "announced", "gone"}
Rows == [status : {"absent", "deleted", "active", "paused", "completed", "error"},
         next : {"none", "future", "due"}, active : JobIds \cup {NoJob}, failures : 0..MaxFailures]

Snapshots == UNION {[D -> 0..MaxFailures] : D \in SUBSET Schedules}
Trigs == [step : {"idle", "query", "loop", "update", "subscribe", "error"}, due : Snapshots,
          s : Schedules \cup {Foreign}, job : JobIds \cup {NoJob}]
Notices == [step : {"none", "read", "write", "arm", "announce", "delete"}, job : JobIds \cup {NoJob},
            outcome : {"next", "last", "failed"}, failures : 0..MaxFailures]
Clients == [op : {"none", "pause", "resume", "update", "cancel", "delete"}, s : Schedules \cup {Foreign},
            next : {"none", "future", "due"}, job : JobIds \cup {NoJob}]

RowShapes ==
  /\ row \in [Schedules -> Rows]
  /\ \A s \in Schedules : ~Exists(s) => row[s].active = NoJob

QueueShapes ==
  /\ phase \in [JobIds -> Phases] /\ kind \in [JobIds -> Kinds] /\ recoveries \in [JobIds -> 0..MaxRetries]
  /\ orphans \in SUBSET JobIds /\ subscribed \in SUBSET JobIds

\* the job of a terminal operation has ended, and is gone only after it
NoticeShapes ==
  /\ notice \in Notices
  /\ notice.step = "none" <=> notice.job = NoJob
  /\ notice.step = "none" => notice = NoNotice
  /\ notice.step \in {"read", "write", "arm", "announce"} => phase[notice.job] = "ended"
  /\ notice.step = "delete" => phase[notice.job] = "announced"

TrigShapes ==
  /\ trig \in [Actors -> Trigs]
  /\ \A a \in Actors :
       /\ trig[a].step \in {"update", "subscribe", "error"} => trig[a].s \in DOMAIN trig[a].due
       /\ trig[a].step \notin {"update", "subscribe", "error"} => trig[a].s = Foreign
       /\ trig[a].step \in {"update", "subscribe"} <=> trig[a].job # NoJob

ClientShapes ==
  /\ client \in Clients
  /\ client # NoClient => client.s \in Schedules
  /\ client.op \in {"pause", "resume", "cancel", "delete"} => client.s \in Owned
  /\ client.op = "update" => client.s \in Updatable
  /\ client.op \in {"resume", "update"} => client.next # "none"

StartShapes ==
  /\ starting \/ svc \in {"running", "halted", "stopped"}
  /\ todo \in UNION {[D -> JobIds] : D \in SUBSET Schedules}
  /\ svc = "subscribe" => found \in DOMAIN todo
  /\ missed \subseteq Schedules

TimerShapes ==
  /\ arm \in [Callers -> {"idle", "read", "set"}]
  /\ strays \in 0..MaxStrays /\ timer \in BOOLEAN /\ debounce \in BOOLEAN
  /\ stop \in {"no", "waiting", "draining", "stopped"}
  /\ instance \in 1..MaxInstances

Shapes ==
  /\ RowShapes /\ QueueShapes /\ NoticeShapes /\ TrigShapes /\ ClientShapes /\ StartShapes /\ TimerShapes

\* job j was created for schedule s
JobOf(j, s) == phase[j] # "unused" /\ kind[j].schedule = s

RefersToOwnJob ==
  /\ \A s \in Schedules : row[s].active # NoJob => JobOf(row[s].active, s)
  /\ \A s \in DOMAIN todo : JobOf(todo[s], s)
  /\ \A a \in Actors : trig[a].job # NoJob => JobOf(trig[a].job, trig[a].s)
  /\ \A j \in subscribed : phase[j] # "unused" /\ kind[j].schedule \in Schedules
  /\ notice.step \in {"read", "write"} => kind[notice.job].schedule \in Schedules

-----------------------------------------------------------------------------
\* a manual trigger sets no timer, but leaves no schedule with a first run time either
ConcurrentHasTime ==
  \A s \in Schedules :
    row[s].status = "active" /\ Type[s] = "concurrent_interval" => row[s].next # "none"

ArmedInv ==
  /\ ConcurrentHasTime
  /\ (svc \in {"arming", "running"} /\ ~Stopping /\ Soonest # {}) =>
       \/ timer \/ strays > 0 \/ debounce \/ isProcessing
       \/ \E c \in Callers : arm[c] # "idle"

-----------------------------------------------------------------------------
early == svc \in {"clear", "stale", "reset", "waiting"}

\* before start() has armed or subscribed anything, nothing else goes on
Quiet ==
  early =>
    /\ trig = [a \in Actors |-> NoTrig] /\ client = NoClient
    /\ ~timer /\ strays = 0 /\ ~debounce /\ arm = [c \in Callers |-> "idle"]
    /\ subscribed = {} /\ notice.step \notin {"read", "write", "arm"}
    /\ instance = 1 => \A s \in Schedules : row[s].active = NoJob

\* resetStaleActiveJobs() leaves no row with a job that has ended, unless its end is missed
StaleAreReset ==
  \A s \in Schedules \ missed :
    (/\ svc = "waiting" \/ (svc = "reset" /\ s \notin DOMAIN todo)
     /\ row[s].active # NoJob)
    => IsActiveJob(row[s].active)

\* start() does not subscribe to a job amid its completion, unless its end is missed
FoundInTime ==
  (/\ svc = "subscribe" /\ found \notin missed
   /\ Type[found] \in Awaited /\ todo[found] = row[found].active)
    => notice.job # todo[found]

Unseen(s) == svc \in {"resub", "subscribe"} /\ s \in DOMAIN todo /\ todo[s] = row[s].active

\* a schedule that waits for its job, or may do so again when its owner resumes it
Waits(s) ==
  /\ Type[s] \in Awaited /\ row[s].active # NoJob
  /\ \/ row[s].status \in {"active", "paused"}
     \/ client.op \in {"pause", "resume"} /\ client.s = s

IsWatched(s) ==
  LET j == row[s].active IN
    \/ IsActiveJob(j) /\ (j \in subscribed \/ Owed(j) \/ Unseen(s))
    \/ notice.job = j /\ (notice.step \in {"read", "write"} \/ Unseen(s))

Watched ==
  ~early /\ svc \notin {"halted", "stopped"} =>
    \A s \in Schedules \ missed : Waits(s) => IsWatched(s)

WatchInv == Quiet /\ StaleAreReset /\ FoundInTime /\ Watched

\* nothing but a job in hand will give schedule s a run time
Untimed(s) == Type[s] = "sequential_interval" /\ row[s].status = "active" /\ row[s].next = "none"

-----------------------------------------------------------------------------
Undisturbed == {s \in Schedules \ (Owned \cup Updatable) : Type[s] \in Awaited}

HasActiveJob(s) == IsActiveJob(row[s].active)

TurnsInv ==
  ~Manual =>
    /\ trig["manual"] = NoTrig
    /\ \A s \in Undisturbed : row[s].next # "none" => ~HasActiveJob(s)
    /\ \A s \in Undisturbed \cap DOMAIN trig["timer"].due : s # trig["timer"].s => ~HasActiveJob(s)

-----------------------------------------------------------------------------
(* Who changes what *)

RowSteps ==
  \/ \E a \in Actors : TriggerWrites(a) \/ TriggerFails(a)
  \/ NoticeWrites \/ NoticeDeletes \/ StartClears \/ StartResets \/ StartFindsJobGone \/ ClientWrites
  \/ \E s \in Schedules : Registers(s) \/ Elapses(s)

JobSteps ==
  \/ \E a \in Actors, s \in Schedules : Enqueues(a, s)
  \/ ForeignEnqueues \/ ClientCancelsJob \/ NoticeAnnounces \/ NoticeDeletes
  \/ \E j \in JobIds : JobStep(j) \/ Forgets(j)

NoticeSteps == (\E j \in JobIds : JobStep(j)) \/ ClientCancelsJob \/ NoticeStep \/ Restart

SubscribedSteps ==
  \/ \E a \in Actors : TriggerSubscribes(a)
  \/ \E j \in JobIds : Forgets(j)
  \/ NoticeAnnounces \/ StartSubscribes \/ Restart

TrigSteps ==
  \/ TimerFires \/ StrayFires \/ DueRead \/ TriggerEnds \/ TriggerNowEnds \/ Restart
  \/ \E a \in Actors : TriggerStep(a)
  \/ \E s \in Schedules : TriggerNow(s)

ClientSteps ==
  \/ ClientWrites \/ Restart
  \/ \E s \in Schedules : ReadsToPause(s) \/ ReadsToResume(s) \/ ReadsToUpdate(s) \/ ReadsToEnd(s)

StartSteps == StartStep \/ StopEnds \/ Restart

TimerSteps ==
  \/ \E c \in Callers : ArmStep(c)
  \/ DebounceFires \/ TimerFires \/ StrayFires \/ TriggerEnds \/ NoticeWrites \/ StartFindsJobGone
  \/ StartArms \/ StopBegins \/ StopClears \/ StopEnds \/ Restart \/ ClientWrites
  \/ \E s \in Schedules : Registers(s)

MissedSteps ==
  \/ \E a \in Actors : TriggerWrites(a)
  \/ \E j \in JobIds : JobStep(j)
  \/ ClientCancelsJob \/ NoticeWrites \/ StartClears \/ StartResets \/ StartReadsWaiting
  \/ StartFindsJobGone \/ StartFindsJob \/ Restart

ReadSteps == \E s \in Schedules : ReadsToPause(s) \/ ReadsToResume(s) \/ ReadsToUpdate(s) \/ ReadsToEnd(s)

\* what each step leaves alone
LEMMA Frames ==
  ASSUME [Next]_vars
  PROVE  /\ ~RowSteps => row' = row
         /\ ~JobSteps => UNCHANGED jobVars /\ (Restart \/ UNCHANGED orphans)
         /\ ~NoticeSteps => notice' = notice
         /\ ~SubscribedSteps => subscribed' = subscribed
         /\ ~TrigSteps => trig' = trig
         /\ ~ClientSteps => client' = client
         /\ ~StartSteps => UNCHANGED startVars
         /\ ~TimerSteps => UNCHANGED <<timerVars, stop, instance>>
         /\ Restart \/ instance' = instance
         /\ StopBegins \/ StopClears \/ StopEnds \/ Restart \/ stop' = stop
<1> USE DEF queueVars, startVars, timerVars
<1>1. ASSUME NEW c \in Callers, ArmStep(c) PROVE UNCHANGED <<row, queueVars, startVars, stop, trig, client, instance>>
  BY <1>1 DEF ArmStep, ArmReads, ArmSets
<1>2. ASSUME NEW a \in Actors, NEW s \in Schedules, Enqueues(a, s) \/ EnqueueRejected(a, s)
      PROVE  UNCHANGED <<row, notice, subscribed, client, startVars, timerVars, stop, instance>>
             /\ (EnqueueRejected(a, s) => UNCHANGED <<jobVars, orphans>>)
  BY <1>2 DEF Enqueues, EnqueueRejected
<1>3. ASSUME NEW a \in Actors, TriggerWrites(a) \/ TriggerFails(a)
      PROVE  UNCHANGED <<queueVars, client, startVars, timerVars, stop, instance>>
  BY <1>3 DEF TriggerWrites, TriggerFails
<1>4. ASSUME NEW a \in Actors, TriggerSubscribes(a)
      PROVE  UNCHANGED <<row, jobVars, orphans, notice, client, startVars, timerVars, stop, instance>>
  BY <1>4 DEF TriggerSubscribes
<1>5. ASSUME NEW j \in JobIds, JobStep(j)
      PROVE  UNCHANGED <<row, subscribed, client, startVars, timerVars, trig, stop, instance>>
  BY <1>5 DEF JobStep, JobStarts, JobRecovers, JobEnds
<1>6. ASSUME NEW j \in JobIds, Forgets(j)
      PROVE  UNCHANGED <<row, notice, client, startVars, timerVars, trig, stop, instance>>
  BY <1>6 DEF Forgets
<1>7. ASSUME ForeignEnqueues
      PROVE  UNCHANGED <<row, notice, subscribed, client, startVars, timerVars, trig, stop, instance>>
  BY <1>7 DEF ForeignEnqueues
<1>8. ASSUME NoticeStep
      PROVE  /\ UNCHANGED <<client, startVars, trig, stop, instance>>
             /\ NoticeReads => UNCHANGED <<row, jobVars, orphans, subscribed, timerVars>>
             /\ NoticeWrites => UNCHANGED <<jobVars, orphans, subscribed>>
             /\ NoticeAnnounces => UNCHANGED <<row, timerVars>>
             /\ NoticeDeletes => UNCHANGED <<subscribed, timerVars>>
  BY <1>8 DEF NoticeStep, NoticeReads, NoticeWrites, NoticeAnnounces, NoticeDeletes
<1>9. ASSUME StartStep
      PROVE  /\ UNCHANGED <<jobVars, orphans, notice, trig, client, stop, instance>>
             /\ StartSubscribes \/ UNCHANGED subscribed
             /\ StartClears \/ StartResets \/ StartFindsJobGone \/ UNCHANGED row
             /\ StartFindsJobGone \/ StartArms \/ UNCHANGED timerVars
  BY <1>9 DEF StartStep, StartClears, StartReadsStale, StartResets, StartResetDone, StartReadsWaiting,
              StartFindsJobGone, StartFindsJob, StartSubscribes, StartArms, StartEnds
<1>10. ASSUME NEW s \in Schedules, Registers(s) \/ TriggerNow(s) \/ Elapses(s)
       PROVE  /\ UNCHANGED <<queueVars, startVars, client, stop, instance>>
              /\ TriggerNow(s) => UNCHANGED <<row, timerVars>>
              /\ Elapses(s) => UNCHANGED <<trig, timerVars>>
              /\ Registers(s) => UNCHANGED trig
  BY <1>10 DEF Registers, TriggerNow, Elapses
<1>11. ASSUME ReadSteps PROVE UNCHANGED <<row, queueVars, startVars, timerVars, trig, stop, instance>>
  BY <1>11 DEF ReadSteps, ReadsToPause, ReadsToResume, ReadsToUpdate, ReadsToEnd, Reads
<1>12. ASSUME ClientWrites PROVE UNCHANGED <<queueVars, startVars, stop, trig, instance>>
  BY <1>12 DEF ClientWrites
<1>13. ASSUME DebounceFires \/ TimerFires \/ StrayFires \/ DueRead \/ TriggerEnds \/ TriggerNowEnds
       PROVE  /\ UNCHANGED <<row, queueVars, startVars, stop, client, instance>>
              /\ DebounceFires => UNCHANGED trig
              /\ DueRead \/ TriggerNowEnds => UNCHANGED timerVars
  BY <1>13 DEF DebounceFires, TimerFires, StrayFires, DueRead, TriggerEnds, TriggerNowEnds
<1>14. ASSUME StopBegins \/ StopClears \/ StopEnds
       PROVE  UNCHANGED <<row, queueVars, trig, client, instance>> /\ (StopEnds \/ UNCHANGED startVars)
  BY <1>14 DEF StopBegins, StopClears, StopEnds
<1>15. ASSUME Restart PROVE UNCHANGED <<row, jobVars>>
  BY <1>15 DEF Restart
<1>16. ClientCancelsJob => UNCHANGED <<row, subscribed, client, startVars, timerVars, trig, stop, instance>>
  BY DEF ClientCancelsJob, JobEnds
<1> HIDE DEF queueVars, startVars, timerVars
<1>20. CASE \E c \in Callers : ArmStep(c)
  BY <1>1, <1>20 DEF queueVars, TimerSteps
<1>21. CASE DebounceFires \/ TimerFires \/ StrayFires \/ DueRead \/ TriggerEnds \/ TriggerNowEnds
  BY <1>13, <1>21 DEF queueVars, TimerSteps, TrigSteps
<1>22. CASE \E a \in Actors : TriggerStep(a)
  BY <1>2, <1>3, <1>4, <1>22 DEF TriggerStep, queueVars, RowSteps, JobSteps, TrigSteps, SubscribedSteps
<1>23. CASE \E j \in JobIds : JobStep(j) \/ Forgets(j)
  BY <1>5, <1>6, <1>23 DEF JobSteps, NoticeSteps, SubscribedSteps
<1>24. CASE NoticeStep
  BY <1>8, <1>24 DEF NoticeStep, JobSteps, NoticeSteps, SubscribedSteps, RowSteps, TimerSteps
<1>25. CASE ForeignEnqueues
  BY <1>7, <1>25 DEF JobSteps
<1>26. CASE StartStep
  BY <1>9, <1>26 DEF StartSteps, SubscribedSteps, RowSteps, TimerSteps
<1>27. CASE StopBegins \/ StopClears \/ StopEnds
  BY <1>14, <1>27 DEF StartSteps, TimerSteps, queueVars
<1>28. CASE Restart
  BY <1>15, <1>28 DEF StartSteps, TimerSteps, TrigSteps, ClientSteps, SubscribedSteps, NoticeSteps
<1>29. CASE \E s \in Schedules : Registers(s) \/ TriggerNow(s) \/ Elapses(s)
  BY <1>10, <1>29 DEF queueVars, RowSteps, TimerSteps, TrigSteps
<1>30. CASE ReadSteps
  BY <1>11, <1>30 DEF queueVars, ReadSteps, ClientSteps
<1>31. CASE ClientStep
  BY <1>12, <1>16, <1>31 DEF ClientStep, queueVars, ClientSteps, JobSteps, NoticeSteps, RowSteps, TimerSteps
<1>32. CASE UNCHANGED vars
  BY <1>32 DEF vars, queueVars
<1> QED
  BY <1>20, <1>21, <1>22, <1>23, <1>24, <1>25, <1>26, <1>27, <1>28, <1>29, <1>30, <1>31, <1>32
  DEF Next, ReadSteps

LEMMA MissedFrame ==
  ASSUME [Next]_vars, ~MissedSteps
  PROVE  missed' = missed
<1>1. ASSUME NEW c \in Callers, ArmStep(c) PROVE missed' = missed
  BY <1>1 DEF ArmStep, ArmReads, ArmSets
<1>2. ASSUME NEW a \in Actors, TriggerStep(a) PROVE missed' = missed
  BY <1>2 DEF TriggerStep, Enqueues, EnqueueRejected, TriggerSubscribes, TriggerFails, MissedSteps
<1>3. DebounceFires \/ TimerFires \/ StrayFires \/ DueRead \/ TriggerEnds \/ TriggerNowEnds => missed' = missed
  BY DEF DebounceFires, TimerFires, StrayFires, DueRead, TriggerEnds, TriggerNowEnds
<1>4. ASSUME NEW j \in JobIds, Forgets(j) PROVE missed' = missed
  BY <1>4 DEF Forgets
<1>5. NoticeStep \/ ForeignEnqueues => missed' = missed
  BY DEF NoticeStep, NoticeReads, NoticeAnnounces, NoticeDeletes, ForeignEnqueues, MissedSteps
<1>6. StartStep => missed' = missed
  BY DEF StartStep, StartReadsStale, StartResetDone, StartSubscribes, StartArms, StartEnds, MissedSteps
<1>7. StopBegins \/ StopClears \/ StopEnds => missed' = missed
  BY DEF StopBegins, StopClears, StopEnds
<1>8. ASSUME NEW s \in Schedules, Registers(s) \/ TriggerNow(s) \/ Elapses(s) PROVE missed' = missed
  BY <1>8 DEF Registers, TriggerNow, Elapses
<1>9. ReadSteps => missed' = missed
  BY DEF ReadSteps, ReadsToPause, ReadsToResume, ReadsToUpdate, ReadsToEnd, Reads
<1>10. ClientWrites => missed' = missed
  BY DEF ClientWrites
<1>11. UNCHANGED vars => missed' = missed
  BY DEF vars
<1>12. ~Restart /\ ~ClientCancelsJob /\ \A j \in JobIds : ~JobStep(j)
  BY DEF MissedSteps
<1> QED
  BY <1>1, <1>2, <1>3, <1>4, <1>5, <1>6, <1>7, <1>8, <1>9, <1>10, <1>11, <1>12 DEF Next, ClientStep, ReadSteps

-----------------------------------------------------------------------------
(* Shapes *)

LEMMA Bounds ==
  /\ JobIds \subseteq Nat /\ NoJob \notin JobIds /\ NoJob = 0
  /\ MaxFailures \in Nat /\ 0 \in 0..MaxFailures
BY SchedulesAssumption, BoundsAssumption DEF JobIds, NoJob

LEMMA OneMoreBounded == ASSUME NEW n \in 0..MaxFailures PROVE OneMore(n) \in 0..MaxFailures
BY SchedulesAssumption DEF OneMore

LEMMA AbsentIsRow == Absent \in Rows /\ Deleted \in Rows /\ Absent.active = NoJob /\ Deleted.active = NoJob
BY Bounds DEF Absent, Deleted, Rows

LEMMA KindsNonempty == (CHOOSE k \in Kinds : TRUE) \in Kinds
BY SchedulesAssumption DEF Kinds

LEMMA SnapshotFields ==
  ASSUME NEW f \in Snapshots
  PROVE  DOMAIN f \subseteq Schedules /\ \A s \in DOMAIN f : f[s] \in 0..MaxFailures
BY DEF Snapshots

LEMMA NoDueShapes == NoDue \in Snapshots /\ NoDue \in UNION {[D -> JobIds] : D \in SUBSET Schedules} /\ DOMAIN NoDue = {}
BY DEF NoDue, Snapshots

LEMMA WriteKeepsShape ==
  ASSUME RowShapes, NEW s \in Schedules, NEW r \in Rows, Write(s, r),
         r.status \in {"absent", "deleted"} => r.active = NoJob
  PROVE  RowShapes'
BY DEF RowShapes, Write, Exists

\* a row that exists keeps a status in which it does
LEMMA TriggeredShape ==
  ASSUME RowShapes, NEW s \in Schedules, NEW j \in JobIds, Exists(s)
  PROVE  Triggered(s, j) \in Rows /\ Triggered(s, j).status \notin {"absent", "deleted"}
BY Bounds DEF RowShapes, Triggered, Rows, Exists

LEMMA AfterJobShape ==
  ASSUME RowShapes, NEW s \in Schedules, NEW o, NEW n \in 0..MaxFailures, Exists(s)
  PROVE  /\ AfterJob(s, o, n) \in Rows /\ AfterJob(s, o, n).status \notin {"absent", "deleted"}
         /\ AfterJob(s, o, n).active = NoJob
BY Bounds, OneMoreBounded DEF RowShapes, AfterJob, Rows, Exists

LEMMA RowShapesKept ==
  ASSUME Shapes, RefersToOwnJob, [Next]_vars
  PROVE  RowShapes'
<1> USE DEF Shapes
<1>1. ASSUME NEW a \in Actors, TriggerWrites(a) PROVE RowShapes'
  <2>1. trig[a].s \in Schedules /\ trig[a].job \in JobIds
    BY <1>1, SnapshotFields DEF TriggerWrites, TrigShapes, Trigs
  <2>2. CASE Exists(trig[a].s)
    BY <1>1, <2>1, <2>2, TriggeredShape, WriteKeepsShape DEF TriggerWrites
  <2>3. CASE ~Exists(trig[a].s)
    BY <1>1, <2>3 DEF TriggerWrites, Write, RowShapes, Exists
  <2> QED BY <2>2, <2>3
<1>2. ASSUME NEW a \in Actors, TriggerFails(a) PROVE RowShapes'
  <2>1. trig[a].s \in Schedules /\ trig[a].due[trig[a].s] \in 0..MaxFailures
    BY <1>2, SnapshotFields DEF TriggerFails, TrigShapes, Trigs
  <2> DEFINE count == OneMore(trig[a].due[trig[a].s])
  <2>2. count \in 0..MaxFailures
    BY <2>1, OneMoreBounded
  <2>3. PICK status \in {"error", row[trig[a].s].status} :
          Write(trig[a].s, [row[trig[a].s] EXCEPT !.failures = count, !.status = status])
    BY <1>2 DEF TriggerFails
  <2> HIDE DEF count
  <2>4. [row[trig[a].s] EXCEPT !.failures = count, !.status = status] \in Rows
    BY <2>1, <2>2, <2>3 DEF RowShapes, Rows
  <2> QED BY <2>1, <2>3, <2>4, WriteKeepsShape DEF Exists, RowShapes, Rows
<1>3. CASE NoticeWrites
  <2>1. kind[notice.job].schedule \in Schedules /\ notice.failures \in 0..MaxFailures
    BY <1>3 DEF NoticeWrites, RefersToOwnJob, NoticeShapes, Notices
  <2>2. CASE Exists(kind[notice.job].schedule)
    BY <1>3, <2>1, <2>2, AfterJobShape, WriteKeepsShape DEF NoticeWrites
  <2>3. CASE ~Exists(kind[notice.job].schedule)
    BY <1>3, <2>3 DEF NoticeWrites, Write, RowShapes, Exists
  <2> QED BY <2>2, <2>3
<1>4. CASE NoticeDeletes
  BY <1>4, Bounds DEF NoticeDeletes, RowShapes, Rows, Exists
<1>5. CASE StartClears
  BY <1>5, AbsentIsRow DEF StartClears, RowShapes, Exists
<1>6. CASE StartResets \/ StartFindsJobGone
  <2>1. PICK s \in DOMAIN todo : \E time \in {"future", "due", row[s].next} :
          Write(s, [row[s] EXCEPT !.active = NoJob, !.next = time])
    BY <1>6 DEF StartResets, StartFindsJobGone
  <2>2. s \in Schedules
    BY <2>1 DEF StartShapes
  <2>3. PICK time \in {"future", "due", row[s].next} :
          Write(s, [row[s] EXCEPT !.active = NoJob, !.next = time])
    BY <2>1
  <2>4. [row[s] EXCEPT !.active = NoJob, !.next = time] \in Rows
    BY <2>2, <2>3, Bounds DEF RowShapes, Rows
  <2> QED BY <2>2, <2>3, <2>4, WriteKeepsShape DEF Rows, RowShapes
<1>7. CASE ClientWrites
  <2>1. PICK r : Write(client.s, r) /\
          \/ r = [row[client.s] EXCEPT !.status = "paused"]
          \/ r = [row[client.s] EXCEPT !.status = "active", !.next = client.next]
          \/ r = [row[client.s] EXCEPT !.next = client.next]
          \/ r = [row[client.s] EXCEPT !.status = "completed", !.next = "none", !.active = NoJob]
          \/ r = Deleted
    BY <1>7 DEF ClientWrites
  <2>2. client.s \in Schedules /\ client.next \in {"none", "future", "due"}
    BY <1>7 DEF ClientWrites, ClientShapes, Clients
  <2>3. row[client.s] \in Rows
    BY <2>2 DEF RowShapes
  <2>4. r \in Rows
    BY <2>1, <2>2, <2>3, AbsentIsRow, Bounds DEF Rows
  <2>5. Exists(client.s) /\ r.status \in {"absent", "deleted"} => r.active = NoJob
    BY <2>1, <2>3, AbsentIsRow DEF Rows, Exists
  <2> QED BY <2>1, <2>2, <2>4, <2>5 DEF Write, Exists, RowShapes
<1>8. ASSUME NEW s \in Schedules, Registers(s) PROVE RowShapes'
  <2>1. PICK time \in {"future", "due"} :
          row' = [row EXCEPT ![s] = [Absent EXCEPT !.status = "active", !.next = time]]
    BY <1>8 DEF Registers
  <2>2. [Absent EXCEPT !.status = "active", !.next = time] \in Rows
    BY <2>1, Bounds DEF Absent, Rows
  <2> QED BY <2>1, <2>2 DEF RowShapes, Exists, Absent
<1>9. ASSUME NEW s \in Schedules, Elapses(s) PROVE RowShapes'
  BY <1>9 DEF Elapses, RowShapes, Rows, Exists
<1>10. CASE row' = row
  BY <1>10 DEF RowShapes, Exists
<1> QED BY <1>1, <1>2, <1>3, <1>4, <1>5, <1>6, <1>7, <1>8, <1>9, <1>10, Frames DEF RowSteps

-----------------------------------------------------------------------------
(* The jobs *)

\* every step treats a job in one of these ways
Created(j)  == phase[j] = "unused" /\ phase'[j] = "waiting" /\ kind'[j] \in Kinds /\ notice = NoNotice
Proceeds(j) == phase[j] \in {"waiting", "running"} /\ phase'[j] \in {"waiting", "running"} /\ kind'[j] = kind[j]
Ends(j)     == /\ phase[j] \in {"waiting", "running"} /\ phase'[j] = "ended" /\ kind'[j] = kind[j]
               /\ (\E o \in {"next", "last", "failed"} : JobEnds(j, o))
Leaves(j)   == /\ notice.job = j /\ kind'[j] = kind[j]
               /\ \/ NoticeAnnounces /\ phase[j] = "ended" /\ phase'[j] = "announced"
                  \/ NoticeDeletes /\ phase[j] = "announced" /\ phase'[j] = "gone"

LEMMA JobMoves ==
  ASSUME Shapes, [Next]_vars, NEW j \in JobIds
  PROVE  \/ phase'[j] = phase[j] /\ kind'[j] = kind[j]
         \/ Created(j) \/ Proceeds(j) \/ Ends(j) \/ Leaves(j)
         \/ Forgets(j) /\ phase'[j] = "unused"
<1> USE DEF Shapes, QueueShapes
<1>1. ASSUME NEW a \in Actors, NEW s \in Schedules, Enqueues(a, s)
      PROVE  (phase'[j] = phase[j] /\ kind'[j] = kind[j]) \/ Created(j)
  BY <1>1 DEF Enqueues, Queue!Create, Queue!Move, Created, Kinds
<1>2. ASSUME ForeignEnqueues
      PROVE  (phase'[j] = phase[j] /\ kind'[j] = kind[j]) \/ Created(j)
  BY <1>2 DEF ForeignEnqueues, Queue!Create, Queue!Move, Created, Kinds
<1>3. ASSUME NEW i \in JobIds, JobStarts(i) \/ JobRecovers(i)
      PROVE  (phase'[j] = phase[j] /\ kind'[j] = kind[j]) \/ Proceeds(j)
  BY <1>3 DEF JobStarts, JobRecovers, Queue!Start, Queue!Recover, Queue!Move, Proceeds
<1>4. ASSUME NEW i \in JobIds, NEW o \in {"next", "last", "failed"}, JobEnds(i, o)
      PROVE  (phase'[j] = phase[j] /\ kind'[j] = kind[j]) \/ Ends(j)
  <2>1. phase[i] \in {"waiting", "running"} /\ phase' = [phase EXCEPT ![i] = "ended"] /\ kind' = kind
    BY <1>4 DEF JobEnds, Queue!End, Queue!Move
  <2>2. CASE i = j
    BY <1>4, <2>1, <2>2 DEF Ends
  <2> QED BY <2>1, <2>2
<1>5. ASSUME NoticeAnnounces \/ NoticeDeletes
      PROVE  (phase'[j] = phase[j] /\ kind'[j] = kind[j]) \/ Leaves(j)
  BY <1>5 DEF NoticeAnnounces, NoticeDeletes, Queue!Announce, Queue!Remove, Queue!Move, Leaves
<1>6. ASSUME NEW i \in JobIds, Forgets(i)
      PROVE  (phase'[j] = phase[j] /\ kind'[j] = kind[j]) \/ (Forgets(j) /\ phase'[j] = "unused")
  <2>1. CASE i = j
    BY <1>6, <2>1 DEF Forgets
  <2>2. CASE i # j
    BY <1>6, <2>2 DEF Forgets
  <2> QED BY <2>1, <2>2
<1>7. ClientCancelsJob => client.job \in JobIds /\ JobEnds(client.job, "failed")
  BY DEF ClientCancelsJob, ClientShapes, Clients
<1>8. CASE UNCHANGED jobVars
  BY <1>8 DEF jobVars
<1> QED BY <1>1, <1>2, <1>3, <1>4, <1>5, <1>6, <1>7, <1>8, Frames DEF JobSteps, JobStep

LEMMA SubscribedTyped ==
  ASSUME Shapes, [Next]_vars
  PROVE  subscribed' \in SUBSET JobIds
<1> USE DEF Shapes, QueueShapes
<1>1. ASSUME NEW a \in Actors, TriggerSubscribes(a) PROVE subscribed' \in SUBSET JobIds
  BY <1>1 DEF TriggerSubscribes, TrigShapes, Trigs
<1>2. CASE StartSubscribes
  BY <1>2 DEF StartSubscribes, StartShapes
<1>3. CASE (\E j \in JobIds : Forgets(j)) \/ NoticeAnnounces \/ Restart
  BY <1>3 DEF Forgets, NoticeAnnounces, Restart
<1> QED BY <1>1, <1>2, <1>3, Frames DEF SubscribedSteps

LEMMA QueueShapesKept ==
  ASSUME Shapes, [Next]_vars
  PROVE  QueueShapes'
<1> USE DEF Shapes, QueueShapes
<1>1. ASSUME NEW a \in Actors, NEW s \in Schedules, Enqueues(a, s) PROVE QueueShapes'
  BY <1>1 DEF Enqueues, Queue!Create, Queue!Move, Phases, Kinds
<1>2. CASE ForeignEnqueues
  BY <1>2 DEF ForeignEnqueues, Queue!Create, Queue!Move, Phases, Kinds
<1>3. ASSUME NEW i \in JobIds, JobStarts(i) PROVE QueueShapes'
  BY <1>3 DEF JobStarts, Queue!Start, Queue!Move, Phases
<1>4. ASSUME NEW i \in JobIds, JobRecovers(i) PROVE QueueShapes'
  <2>1. kind[i].maxRetries = MaxRetries
    BY <1>4 DEF Kinds, Kind
  <2>2. recoveries[i] + 1 \in 0..MaxRetries
    BY <1>4, <2>1, SchedulesAssumption DEF JobRecovers, Queue!Recover
  <2> QED BY <1>4, <2>2 DEF JobRecovers, Queue!Recover, Queue!Move, Phases
<1>5. ASSUME NEW i \in JobIds, NEW o \in {"next", "last", "failed"}, JobEnds(i, o) PROVE QueueShapes'
  BY <1>5 DEF JobEnds, Queue!End, Queue!Move, Phases
<1>6. CASE NoticeAnnounces \/ NoticeDeletes
  BY <1>6 DEF NoticeAnnounces, NoticeDeletes, Queue!Announce, Queue!Remove, Queue!Move, Phases
<1>7. ASSUME NEW i \in JobIds, Forgets(i) PROVE QueueShapes'
  BY <1>7, KindsNonempty, SchedulesAssumption DEF Forgets, Phases
<1>8. ClientCancelsJob => client.job \in JobIds /\ JobEnds(client.job, "failed")
  BY DEF ClientCancelsJob, ClientShapes, Clients
<1>9. CASE UNCHANGED jobVars /\ (Restart \/ UNCHANGED orphans)
  <2>1. phase' \in [JobIds -> Phases] /\ kind' \in [JobIds -> Kinds] /\ recoveries' \in [JobIds -> 0..MaxRetries]
    BY <1>9 DEF jobVars
  <2>2. orphans' \in SUBSET JobIds
    BY <1>9 DEF Restart
  <2>3. subscribed' \in SUBSET JobIds
    BY SubscribedTyped
  <2> QED BY <2>1, <2>2, <2>3
<1> QED BY <1>1, <1>2, <1>3, <1>4, <1>5, <1>6, <1>7, <1>8, <1>9, Frames DEF JobSteps, JobStep

LEMMA NoticeShapesKept ==
  ASSUME Shapes, RefersToOwnJob, [Next]_vars
  PROVE  NoticeShapes'
<1> USE DEF Shapes
<1>1. ASSUME NEW i \in JobIds, NEW o \in {"next", "last", "failed"}, JobEnds(i, o) PROVE NoticeShapes'
  <2>1. phase'[i] = "ended"
    BY <1>1 DEF JobEnds, Queue!End, Queue!Move, QueueShapes
  <2>2. \/ notice' = [NoNotice EXCEPT !.job = i, !.step = "read", !.outcome = o]
        \/ notice' = [NoNotice EXCEPT !.job = i, !.step = "announce"]
    BY <1>1 DEF JobEnds
  <2> QED BY <2>1, <2>2, Bounds DEF NoticeShapes, Notices, NoNotice
<1>2. CASE NoticeReads
  <2>1. phase' = phase /\ notice.job \in JobIds /\ notice.job # NoJob /\ phase[notice.job] = "ended"
    BY <1>2, Bounds DEF NoticeReads, NoticeShapes, Notices, jobVars
  <2>2. kind[notice.job].schedule \in Schedules
    BY <1>2 DEF NoticeReads, RefersToOwnJob
  <2>3. row[kind[notice.job].schedule].failures \in 0..MaxFailures
    BY <2>2 DEF RowShapes, Rows
  <2>4. \/ notice' = [notice EXCEPT !.step = "write", !.failures = row[kind[notice.job].schedule].failures]
        \/ notice' = [NoNotice EXCEPT !.job = notice.job, !.step = "announce"]
    BY <1>2 DEF NoticeReads
  <2> QED BY <2>1, <2>3, <2>4, Bounds DEF NoticeShapes, Notices, NoNotice
<1>3. CASE NoticeWrites
  <2>1. phase' = phase /\ notice.job \in JobIds /\ notice.job # NoJob /\ phase[notice.job] = "ended"
    BY <1>3, Bounds DEF NoticeWrites, NoticeShapes, Notices, jobVars
  <2>2. notice' = [NoNotice EXCEPT !.job = notice.job, !.step = "arm"]
    BY <1>3 DEF NoticeWrites
  <2> QED BY <2>1, <2>2, Bounds DEF NoticeShapes, Notices, NoNotice
<1>4. CASE NoticeAnnounces
  <2>1. notice.job \in JobIds /\ notice.job # NoJob
    BY <1>4, Bounds DEF NoticeAnnounces, NoticeShapes, Notices
  <2>2. phase'[notice.job] = "announced"
    BY <1>4, <2>1 DEF NoticeAnnounces, Queue!Announce, Queue!Move, QueueShapes
  <2>3. notice' = [notice EXCEPT !.step = "delete"]
    BY <1>4 DEF NoticeAnnounces
  <2> QED BY <2>1, <2>2, <2>3 DEF NoticeShapes, Notices
<1>5. CASE NoticeDeletes \/ Restart
  BY <1>5, Bounds DEF NoticeDeletes, Restart, NoticeShapes, Notices, NoNotice
<1>6. CASE notice' = notice
  <2>1. CASE notice.job = NoJob
    BY <1>6, <2>1 DEF NoticeShapes
  <2>2. CASE notice.job # NoJob
    <3>1. notice.job \in JobIds /\ notice.step # "none" /\ phase[notice.job] \in {"ended", "announced"}
      BY <2>2 DEF NoticeShapes, Notices
    <3>2. ~Leaves(notice.job)
      BY <1>6, <2>2, <3>1, Bounds DEF Leaves, NoticeAnnounces, NoticeDeletes, NoticeShapes, Notices, NoNotice
    <3>3. phase'[notice.job] = phase[notice.job]
      BY <3>1, <3>2, JobMoves DEF Created, Proceeds, Ends, Forgets, Forgotten
    <3> QED BY <1>6, <3>3 DEF NoticeShapes
  <2> QED BY <2>1, <2>2
<1>7. ClientCancelsJob => client.job \in JobIds /\ JobEnds(client.job, "failed")
  BY DEF ClientCancelsJob, ClientShapes, Clients
<1>8. ASSUME NEW i \in JobIds, JobStarts(i) \/ JobRecovers(i) PROVE notice' = notice
  BY <1>8 DEF JobStarts, JobRecovers
<1> QED BY <1>1, <1>2, <1>3, <1>4, <1>5, <1>6, <1>7, <1>8, Frames DEF NoticeSteps, NoticeStep, JobStep

\* the snapshot of a run shrinks as it is handled
LEMMA HandledShape ==
  ASSUME NEW t \in Trigs
  PROVE  /\ Handled(t) \in Trigs /\ Handled(t).step = "loop" /\ Handled(t).job = NoJob
         /\ Handled(t).s = Foreign /\ DOMAIN Handled(t).due = DOMAIN t.due \ {t.s}
<1> DEFINE rest == [u \in DOMAIN t.due \ {t.s} |-> t.due[u]]
<1>1. t.due \in Snapshots
  BY DEF Trigs
<1>2. DOMAIN rest = DOMAIN t.due \ {t.s} /\ rest \in [DOMAIN t.due \ {t.s} -> 0..MaxFailures]
  BY <1>1, SnapshotFields
<1>3. rest \in Snapshots
  BY <1>1, <1>2, SnapshotFields DEF Snapshots
<1>4. Handled(t) = [t EXCEPT !.step = "loop", !.due = rest, !.s = Foreign, !.job = NoJob]
  BY DEF Handled
<1> HIDE DEF rest
<1> QED BY <1>2, <1>3, <1>4 DEF Trigs

LEMMA NoTrigShape == NoTrig \in Trigs /\ NoTrig.step = "idle" /\ NoTrig.job = NoJob /\ NoTrig.s = Foreign
                     /\ DOMAIN NoTrig.due = {}
BY NoDueShapes DEF NoTrig, Trigs

\* the shape of one trigger
TrigFits(t) ==
  /\ t \in Trigs
  /\ t.step \in {"update", "subscribe", "error"} => t.s \in DOMAIN t.due
  /\ t.step \notin {"update", "subscribe", "error"} => t.s = Foreign
  /\ t.step \in {"update", "subscribe"} <=> t.job # NoJob

LEMMA SetTrigFits ==
  ASSUME Shapes, NEW a \in Actors, NEW t, SetTrig(a, t), TrigFits(t)
  PROVE  TrigShapes'
<1>1. trig' = [trig EXCEPT ![a] = t]
  BY DEF SetTrig
<1> QED BY <1>1 DEF TrigFits, Shapes, TrigShapes

LEMMA TrigShapesKept ==
  ASSUME Shapes, [Next]_vars
  PROVE  TrigShapes'
<1> USE DEF Shapes
<1>0. TrigFits(NoTrig) /\ TrigFits([NoTrig EXCEPT !.step = "query"])
  BY NoTrigShape DEF TrigFits, Trigs, NoTrig
<1>1. \A a \in Actors : TrigFits(trig[a])
  BY DEF TrigShapes, TrigFits
<1>2. \A a \in Actors : TrigFits(Handled(trig[a]))
  BY <1>1, HandledShape DEF TrigFits
<1>3. ASSUME NEW a \in Actors, NEW s \in Schedules, Enqueues(a, s) PROVE TrigShapes'
  <2>1. PICK j \in JobIds : SetTrig(a, [trig[a] EXCEPT !.step = "update", !.s = s, !.job = j])
    BY <1>3 DEF Enqueues
  <2>2. s \in DOMAIN trig[a].due
    BY <1>3 DEF Enqueues
  <2>3. TrigFits([trig[a] EXCEPT !.step = "update", !.s = s, !.job = j])
    BY <1>1, <2>2, Bounds DEF TrigFits, Trigs
  <2> QED BY <2>1, <2>3, SetTrigFits
<1>4. ASSUME NEW a \in Actors, NEW s \in Schedules, EnqueueRejected(a, s) PROVE TrigShapes'
  <2>1. s \in DOMAIN trig[a].due /\ trig[a].step = "loop"
    BY <1>4 DEF EnqueueRejected
  <2>2. TrigFits([trig[a] EXCEPT !.step = "error", !.s = s])
    BY <1>1, <2>1, Bounds DEF TrigFits, Trigs
  <2> QED BY <1>0, <1>4, <2>2, SetTrigFits DEF EnqueueRejected
<1>5. ASSUME NEW a \in Actors, TriggerWrites(a) PROVE TrigShapes'
  <2>1. trig[a].step = "update"
    BY <1>5 DEF TriggerWrites
  <2>2. TrigFits([trig[a] EXCEPT !.step = "subscribe"])
    BY <1>1, <2>1 DEF TrigFits, Trigs
  <2> QED BY <1>2, <1>5, <2>2, SetTrigFits DEF TriggerWrites
<1>6. ASSUME NEW a \in Actors, TriggerSubscribes(a) \/ TriggerFails(a) PROVE TrigShapes'
  BY <1>2, <1>6, SetTrigFits DEF TriggerSubscribes, TriggerFails
<1>7. ASSUME TimerFires \/ StrayFires PROVE TrigShapes'
  <2>1. "timer" \in Actors
    BY DEF Actors
  <2>2. CASE isProcessing
    BY <1>7, <2>2 DEF TimerFires, StrayFires, TriggerBegins, TrigShapes
  <2>3. CASE ~isProcessing
    BY <1>0, <1>7, <2>1, <2>3, SetTrigFits DEF TimerFires, StrayFires, TriggerBegins
  <2> QED BY <2>2, <2>3
<1>8. ASSUME DueRead PROVE TrigShapes'
  <2>1. PICK D \in SUBSET Schedules :
          SetTrig("timer", [NoTrig EXCEPT !.step = "loop", !.due = [s \in D |-> row[s].failures]])
    BY <1>8 DEF DueRead, Soonest
  <2>2. [s \in D |-> row[s].failures] \in Snapshots
    BY DEF Snapshots, RowShapes, Rows
  <2>3. TrigFits([NoTrig EXCEPT !.step = "loop", !.due = [s \in D |-> row[s].failures]])
    BY <2>2, NoTrigShape DEF TrigFits, Trigs, NoTrig
  <2> QED BY <2>1, <2>3, SetTrigFits DEF Actors
<1>9. ASSUME TriggerEnds \/ TriggerNowEnds PROVE TrigShapes'
  BY <1>0, <1>9, SetTrigFits DEF TriggerEnds, TriggerNowEnds, Actors
<1>10. ASSUME NEW s \in Schedules, TriggerNow(s) PROVE TrigShapes'
  <2>1. SetTrig("manual", [NoTrig EXCEPT !.step = "loop", !.due = [u \in {s} |-> row[u].failures]])
    BY <1>10 DEF TriggerNow
  <2>2. [u \in {s} |-> row[u].failures] \in Snapshots
    <3>1. {s} \in SUBSET Schedules /\ row[s].failures \in 0..MaxFailures
      BY DEF RowShapes, Rows
    <3>2. [u \in {s} |-> row[u].failures] \in [{s} -> 0..MaxFailures]
      BY <3>1
    <3> QED BY <3>1, <3>2 DEF Snapshots
  <2>3. TrigFits([NoTrig EXCEPT !.step = "loop", !.due = [u \in {s} |-> row[u].failures]])
    BY <2>2, NoTrigShape DEF TrigFits, Trigs, NoTrig
  <2> QED BY <2>1, <2>3, SetTrigFits DEF Actors
<1>11. CASE Restart
  BY <1>0, <1>11 DEF Restart, TrigShapes, TrigFits
<1>12. CASE trig' = trig
  BY <1>12 DEF TrigShapes
<1> QED BY <1>3, <1>4, <1>5, <1>6, <1>7, <1>8, <1>9, <1>10, <1>11, <1>12, Frames DEF TrigSteps, TriggerStep

LEMMA ClientShapesKept ==
  ASSUME Shapes, [Next]_vars
  PROVE  ClientShapes'
<1> USE DEF Shapes
<1>1. ASSUME NEW s \in Schedules, NEW op \in {"pause", "resume", "update", "cancel", "delete"},
             NEW time \in {"none", "future", "due"}, NEW job \in JobIds \cup {NoJob}, Reads(s, op, time, job),
             op \in {"pause", "resume", "cancel", "delete"} => s \in Owned,
             op = "update" => s \in Updatable, op \in {"resume", "update"} => time # "none"
      PROVE  ClientShapes'
  BY <1>1 DEF Reads, ClientShapes, Clients
<1>2. ASSUME NEW s \in Schedules, ReadsToPause(s) \/ ReadsToResume(s) \/ ReadsToUpdate(s) PROVE ClientShapes'
  <2>1. row[s].next \in {"none", "future", "due"}
    BY DEF RowShapes, Rows
  <2>2. CASE ReadsToPause(s)
    BY <1>1, <2>2 DEF ReadsToPause
  <2>3. CASE ReadsToResume(s)
    BY <1>1, <2>1, <2>3 DEF ReadsToResume
  <2>4. CASE ReadsToUpdate(s)
    BY <1>1, <2>4 DEF ReadsToUpdate
  <2> QED BY <1>2, <2>2, <2>3, <2>4
<1>3. ASSUME NEW s \in Schedules, ReadsToEnd(s) PROVE ClientShapes'
  <2>1. PICK op \in {"cancel", "delete"}, job \in {NoJob, row[s].active} : Reads(s, op, "none", job)
    BY <1>3 DEF ReadsToEnd
  <2>2. job \in JobIds \cup {NoJob}
    BY <2>1 DEF RowShapes, Rows
  <2> QED BY <1>1, <1>3, <2>1, <2>2 DEF ReadsToEnd
<1>4. CASE ClientWrites \/ Restart
  BY <1>4 DEF ClientWrites, Restart, ClientShapes, Clients, NoClient
<1>5. CASE client' = client
  BY <1>5 DEF ClientShapes
<1> QED BY <1>2, <1>3, <1>4, <1>5, Frames DEF ClientSteps

LEMMA MissedTyped ==
  ASSUME Shapes, [Next]_vars
  PROVE  missed' \subseteq Schedules
<1> USE DEF Shapes
<1>0. missed \subseteq Schedules /\ DOMAIN todo \subseteq Schedules
  BY DEF StartShapes
<1>1. ASSUME NEW a \in Actors, TriggerWrites(a) PROVE missed' \subseteq missed \cup {trig[a].s}
  BY <1>1 DEF TriggerWrites
<1>2. ASSUME NEW a \in Actors, TriggerWrites(a) PROVE trig[a].s \in Schedules
  BY <1>2 DEF TriggerWrites, TrigShapes, Trigs, Snapshots
<1>3. ASSUME NEW j \in JobIds, JobStep(j) PROVE missed' \subseteq missed \cup Misses(j)
  BY <1>3 DEF JobStep, JobStarts, JobRecovers, JobEnds
<1>4. ClientCancelsJob => missed' \subseteq missed \cup Misses(client.job)
  BY DEF ClientCancelsJob, JobEnds
<1>5. \A j : Misses(j) \subseteq Schedules
  BY DEF Misses
<1>6. NoticeWrites \/ StartClears \/ StartResets \/ StartFindsJobGone => missed' \subseteq missed
  BY DEF NoticeWrites, StartClears, StartResets, StartFindsJobGone
<1>7. StartReadsWaiting \/ StartFindsJob \/ Restart => missed' \subseteq missed \cup Schedules
  BY <1>0 DEF StartReadsWaiting, StartFindsJob, Restart
<1> QED BY <1>0, <1>1, <1>2, <1>3, <1>4, <1>5, <1>6, <1>7, MissedFrame DEF MissedSteps

LEMMA StartShapesKept ==
  ASSUME Shapes, [Next]_vars
  PROVE  StartShapes'
<1> USE DEF Shapes
<1> DEFINE Todos == UNION {[D -> JobIds] : D \in SUBSET Schedules}
<1>a. missed' \subseteq Schedules
  BY MissedTyped
<1>0. todo \in Todos /\ DOMAIN todo \subseteq Schedules /\ \A s \in DOMAIN todo : todo[s] \in JobIds
  BY DEF StartShapes
<1>1. ASSUME NEW D \in SUBSET Schedules, \A s \in D : row[s].active # NoJob
      PROVE  [s \in D |-> row[s].active] \in Todos
  <2>1. [s \in D |-> row[s].active] \in [D -> JobIds]
    BY <1>1 DEF RowShapes, Rows
  <2> QED BY <2>1
<1>2. ASSUME NEW s PROVE Without(s) \in Todos
  <2>1. Without(s) \in [DOMAIN todo \ {s} -> JobIds]
    BY <1>0 DEF Without
  <2> QED BY <1>0, <2>1
<1>3. CASE StartReadsStale \/ StartReadsWaiting
  <2>1. PICK D \in SUBSET Schedules :
          todo' = [s \in D |-> row[s].active] /\ \A s \in D : row[s].active # NoJob
    BY <1>3 DEF StartReadsStale, StartReadsWaiting
  <2>2. todo' \in Todos
    BY <1>1, <2>1
  <2> QED BY <1>a, <1>3, <2>2 DEF StartReadsStale, StartReadsWaiting, StartShapes, starting
<1>4. CASE StartResets \/ StartFindsJobGone
  <2>1. PICK s : todo' = Without(s)
    BY <1>4 DEF StartResets, StartFindsJobGone
  <2> QED BY <1>a, <1>2, <1>4, <2>1 DEF StartResets, StartFindsJobGone, StartShapes, starting
<1>5. CASE StartSubscribes
  BY <1>a, <1>2, <1>5 DEF StartSubscribes, StartShapes, starting
<1>6. CASE StartFindsJob
  BY <1>a, <1>6 DEF StartFindsJob, StartShapes, starting
<1>7. CASE Restart
  BY <1>a, <1>7, NoDueShapes DEF Restart, StartShapes, starting
<1>8. CASE StartClears \/ StartResetDone \/ StartArms \/ StartEnds \/ StopEnds
  BY <1>a, <1>8 DEF StartClears, StartResetDone, StartArms, StartEnds, StopEnds, Goes, StartShapes, starting
<1>9. CASE UNCHANGED startVars
  BY <1>a, <1>9 DEF startVars, StartShapes, starting
<1> QED BY <1>3, <1>4, <1>5, <1>6, <1>7, <1>8, <1>9, Frames DEF StartSteps, StartStep

LEMMA TimerShapesKept ==
  ASSUME Shapes, [Next]_vars
  PROVE  TimerShapes'
<1> USE DEF Shapes, TimerShapes
<1>0. ASSUME NEW c \in Callers, ArmStarts(c)
      PROVE  arm' \in [Callers -> {"idle", "read", "set"}] /\ timer' \in BOOLEAN
  BY <1>0 DEF ArmStarts
<1>1. ASSUME NEW c \in Callers, ArmReads(c) PROVE TimerShapes'
  BY <1>1 DEF ArmReads
<1>2. ASSUME NEW c \in Callers, ArmSets(c) PROVE TimerShapes'
  BY <1>2, BoundsAssumption DEF ArmSets
<1>3. CASE DebounceFires
  BY <1>0, <1>3 DEF DebounceFires, Callers
<1>4. CASE TimerFires
  BY <1>4 DEF TimerFires
<1>5. CASE StrayFires
  BY <1>5, BoundsAssumption DEF StrayFires
<1>6. CASE TriggerEnds
  BY <1>0, <1>6 DEF TriggerEnds, Callers
<1>7. CASE NoticeWrites \/ StartFindsJobGone \/ StartArms
  BY <1>0, <1>7 DEF NoticeWrites, StartFindsJobGone, StartArms, Callers
<1>8. CASE StopBegins \/ StopClears \/ StopEnds
  BY <1>8 DEF StopBegins, StopClears, StopEnds, timerVars
<1>9. CASE Restart
  <2>1. instance' \in 1..MaxInstances
    BY <1>9, BoundsAssumption DEF Restart
  <2>2. strays' \in 0..MaxStrays
    BY <1>9, BoundsAssumption DEF Restart
  <2>3. arm' \in [Callers -> {"idle", "read", "set"}] /\ timer' = FALSE /\ debounce' = FALSE /\ stop' = "no"
    BY <1>9 DEF Restart
  <2> QED BY <2>1, <2>2, <2>3
<1>10. ASSUME NEW s \in Schedules, Registers(s) \/ ClientWrites PROVE TimerShapes'
  BY <1>10 DEF Registers, ClientWrites, Reschedule
<1>11. CASE UNCHANGED <<timerVars, stop, instance>>
  BY <1>11 DEF timerVars
<1> QED BY <1>1, <1>2, <1>3, <1>4, <1>5, <1>6, <1>7, <1>8, <1>9, <1>10, <1>11, Frames, SchedulesAssumption
        DEF TimerSteps, ArmStep

-----------------------------------------------------------------------------
(* References to jobs *)

\* what anyone refers to keeps its schedule: an id is used again only when it is forgotten
LEMMA JobStaysOf ==
  ASSUME Shapes, [Next]_vars, NEW j \in JobIds, NEW s, JobOf(j, s), ~Forgets(j)
  PROVE  JobOf(j, s)'
BY JobMoves DEF JobOf, Created, Proceeds, Ends, Leaves

\* the jobs that rows, start() and the triggers refer to are no longer forgotten
LEMMA ReferredJobs ==
  ASSUME Shapes, NEW j \in JobIds, Forgets(j)
  PROVE  /\ \A s \in Schedules : row[s].active # j
         /\ \A s \in DOMAIN todo : todo[s] # j
         /\ \A a \in Actors : trig[a].job # j
         /\ phase[j] = "gone"
BY DEF Forgets, Forgotten

\* a row gets its job from the trigger that created it
LEMMA RowRefersKept ==
  ASSUME Shapes, RefersToOwnJob, [Next]_vars, NEW s \in Schedules, row'[s].active # NoJob
  PROVE  /\ row'[s].active # row[s].active =>
              \E a \in Actors : TriggerWrites(a) /\ trig[a].s = s /\ trig[a].job = row'[s].active
         /\ row'[s].active \in JobIds
         /\ phase'[row'[s].active] # "unused" /\ kind'[row'[s].active].schedule = s
<1> USE DEF Shapes
<1>0. row'[s].active \in JobIds
  BY RowShapesKept DEF RowShapes, Rows
<1>1. ASSUME NEW a \in Actors, TriggerWrites(a)
      PROVE  row'[s].active = row[s].active \/ (trig[a].s = s /\ row'[s].active = trig[a].job)
  BY <1>1 DEF TriggerWrites, Write, Triggered, RowShapes, Rows
<1>2. ASSUME NEW a \in Actors, TriggerFails(a) PROVE row'[s].active = row[s].active
  <2> DEFINE count == OneMore(trig[a].due[trig[a].s])
  <2>1. Write(trig[a].s, [row[trig[a].s] EXCEPT !.failures = count,
                            !.status = IF count >= MaxFailures THEN "error" ELSE @])
    BY <1>2 DEF TriggerFails
  <2> HIDE DEF count
  <2> QED BY <2>1 DEF Write, RowShapes, Rows
<1>3. ASSUME NoticeWrites PROVE row'[s].active = row[s].active
  <2>1. kind[notice.job].schedule \in Schedules /\ notice.failures \in 0..MaxFailures
    BY <1>3 DEF NoticeWrites, RefersToOwnJob, NoticeShapes, Notices
  <2>2. row'[s].active = row[s].active
    BY <1>3, <2>1, AfterJobShape, RowShapesKept DEF NoticeWrites, Write, RowShapes
  <2> QED BY <2>2
<1>4. ASSUME NoticeDeletes PROVE row'[s].active = row[s].active
  BY <1>4 DEF NoticeDeletes, RowShapes, Rows
<1>5. ASSUME StartClears PROVE row'[s].active = row[s].active
  BY <1>5 DEF StartClears, Absent
<1>6. ASSUME StartResets \/ StartFindsJobGone PROVE row'[s].active = row[s].active
  <2>1. PICK u \in DOMAIN todo : \E time \in {"future", "due", row[u].next} :
          Write(u, [row[u] EXCEPT !.active = NoJob, !.next = time])
    BY <1>6 DEF StartResets, StartFindsJobGone
  <2>2. PICK time : Write(u, [row[u] EXCEPT !.active = NoJob, !.next = time])
    BY <2>1
  <2>3. row'[s].active = row[s].active
    BY <2>2 DEF Write, RowShapes, Rows
  <2> QED BY <2>3
<1>7. ASSUME ClientWrites PROVE row'[s].active = row[s].active
  <2>1. PICK r : Write(client.s, r) /\
          \/ r = [row[client.s] EXCEPT !.status = "paused"]
          \/ r = [row[client.s] EXCEPT !.status = "active", !.next = client.next]
          \/ r = [row[client.s] EXCEPT !.next = client.next]
          \/ r = [row[client.s] EXCEPT !.status = "completed", !.next = "none", !.active = NoJob]
          \/ r = Deleted
    BY <1>7 DEF ClientWrites
  <2>2. client.s \in Schedules
    BY <1>7 DEF ClientWrites, ClientShapes
  <2>3. row[client.s] \in Rows
    BY <2>2 DEF RowShapes
  <2>4. r.active = row[client.s].active \/ r.active = NoJob
    BY <2>1, <2>3, AbsentIsRow DEF Rows
  <2> QED BY <2>1, <2>2, <2>4 DEF Write, RowShapes
<1>8. ASSUME NEW u \in Schedules, Registers(u) PROVE row'[s].active = row[s].active
  <2>1. PICK time \in {"future", "due"} :
          row' = [row EXCEPT ![u] = [Absent EXCEPT !.status = "active", !.next = time]]
    BY <1>8 DEF Registers
  <2> QED BY <2>1, AbsentIsRow DEF RowShapes, Absent
<1>9. ASSUME NEW u \in Schedules, Elapses(u) PROVE row'[s].active = row[s].active
  BY <1>9 DEF Elapses, RowShapes, Rows
<1>10. row'[s].active # row[s].active =>
         \E a \in Actors : TriggerWrites(a) /\ trig[a].s = s /\ trig[a].job = row'[s].active
  BY <1>1, <1>2, <1>3, <1>4, <1>5, <1>6, <1>7, <1>8, <1>9, Frames DEF RowSteps
<1>11. PICK j \in JobIds : j = row'[s].active
  BY <1>0
<1>12. JobOf(j, s) /\ ~Forgets(j)
  BY <1>10, <1>11, ReferredJobs DEF RefersToOwnJob
<1>13. JobOf(j, s)'
  BY <1>12, JobStaysOf
<1> QED BY <1>0, <1>10, <1>11, <1>13 DEF JobOf

LEMMA TodoMoves ==
  ASSUME Shapes, [Next]_vars, NEW s \in DOMAIN todo'
  PROVE  \/ s \in DOMAIN todo /\ todo'[s] = todo[s]
         \/ /\ StartReadsStale \/ StartReadsWaiting
            /\ s \in Schedules /\ todo'[s] = row[s].active /\ row[s].active # NoJob
<1>1. CASE StartReadsStale \/ StartReadsWaiting
  BY <1>1 DEF StartReadsStale, StartReadsWaiting
<1>2. ASSUME NEW u, todo' = Without(u) PROVE s \in DOMAIN todo /\ todo'[s] = todo[s]
  BY <1>2 DEF Without
<1>3. CASE StartResets \/ StartFindsJobGone \/ StartSubscribes
  BY <1>2, <1>3 DEF StartResets, StartFindsJobGone, StartSubscribes
<1>4. CASE StartClears \/ StartResetDone \/ StartFindsJob \/ StartArms \/ StartEnds \/ StopEnds
  BY <1>4 DEF StartClears, StartResetDone, StartFindsJob, StartArms, StartEnds, StopEnds
<1>5. CASE Restart
  BY <1>5, NoDueShapes DEF Restart
<1>6. CASE UNCHANGED startVars
  BY <1>6 DEF startVars
<1> QED BY <1>1, <1>3, <1>4, <1>5, <1>6, Frames DEF StartSteps, StartStep

\* a trigger has a job from its enqueue() to the end of its handling
LEMMA TrigMoves ==
  ASSUME Shapes, [Next]_vars, NEW a \in Actors, trig'[a].job # NoJob
  PROVE  \/ trig'[a].job = trig[a].job /\ trig'[a].s = trig[a].s /\ ~Restart
         \/ \E s \in Schedules, j \in JobIds :
              /\ Enqueues(a, s) /\ trig'[a].job = j /\ trig'[a].s = s
              /\ phase'[j] = "waiting" /\ kind'[j] = Kind(s, Ref[s])
<1> USE DEF Shapes
<1>0. ~Restart
  BY NoTrigShape DEF Restart
<1>1. ASSUME NEW b \in Actors, NEW s \in Schedules, Enqueues(b, s)
      PROVE  \/ trig'[a] = trig[a]
             \/ \E u \in Schedules, j \in JobIds :
                  /\ Enqueues(a, u) /\ trig'[a].job = j /\ trig'[a].s = u
                  /\ phase'[j] = "waiting" /\ kind'[j] = Kind(u, Ref[u])
  <2>1. PICK j \in JobIds : /\ Queue!Create(j, Kind(s, Ref[s]))
                            /\ trig' = [trig EXCEPT ![b] = [trig[b] EXCEPT !.step = "update", !.s = s, !.job = j]]
    BY <1>1 DEF Enqueues, SetTrig
  <2>2. phase'[j] = "waiting" /\ kind'[j] = Kind(s, Ref[s])
    BY <2>1 DEF Queue!Create, Queue!Move, QueueShapes
  <2>3. CASE a = b
    <3>1. trig[a] \in Trigs
      BY DEF TrigShapes
    <3>2. trig'[a] = [trig[a] EXCEPT !.step = "update", !.s = s, !.job = j]
      BY <2>1, <2>3 DEF TrigShapes
    <3>3. trig'[a].job = j /\ trig'[a].s = s
      BY <3>1, <3>2 DEF Trigs
    <3> QED BY <1>1, <2>2, <2>3, <3>3
  <2>4. CASE a # b
    BY <2>1, <2>4 DEF TrigShapes
  <2> QED BY <2>3, <2>4
<1>2. ASSUME NEW b \in Actors, NEW s \in Schedules, EnqueueRejected(b, s) PROVE trig'[a] = trig[a]
  <2>1. trig[b] \in Trigs /\ trig[b].job = NoJob
    BY <1>2 DEF EnqueueRejected, TrigShapes
  <2>2. trig' = [trig EXCEPT ![b] = NoTrig] \/ trig' = [trig EXCEPT ![b] = [trig[b] EXCEPT !.step = "error", !.s = s]]
    BY <1>2 DEF EnqueueRejected, SetTrig
  <2>3. CASE a = b
    <3>1. trig'[a] = NoTrig \/ trig'[a] = [trig[a] EXCEPT !.step = "error", !.s = s]
      BY <2>2, <2>3 DEF TrigShapes
    <3>2. trig'[a].job = NoJob
      BY <2>1, <2>3, <3>1, NoTrigShape DEF Trigs
    <3> QED BY <3>2
  <2> QED BY <2>2, <2>3 DEF TrigShapes
<1>3. ASSUME NEW b \in Actors, TriggerWrites(b)
      PROVE  trig'[a].job = trig[a].job /\ trig'[a].s = trig[a].s
  <2>1. trig[b] \in Trigs /\ Handled(trig[b]).job = NoJob
    BY HandledShape DEF TrigShapes
  <2>2. trig' = [trig EXCEPT ![b] = [trig[b] EXCEPT !.step = "subscribe"]] \/ trig' = [trig EXCEPT ![b] = Handled(trig[b])]
    BY <1>3 DEF TriggerWrites, SetTrig
  <2>3. CASE a = b
    <3>1. trig'[a] = [trig[a] EXCEPT !.step = "subscribe"] \/ trig'[a] = Handled(trig[a])
      BY <2>2, <2>3 DEF TrigShapes
    <3> QED BY <2>1, <2>3, <3>1 DEF Trigs
  <2> QED BY <2>2, <2>3 DEF TrigShapes
<1>4. ASSUME NEW b \in Actors, TriggerSubscribes(b) \/ TriggerFails(b) PROVE trig'[a] = trig[a]
  <2>1. Handled(trig[b]).job = NoJob
    BY HandledShape DEF TrigShapes
  <2>2. trig' = [trig EXCEPT ![b] = Handled(trig[b])]
    BY <1>4 DEF TriggerSubscribes, TriggerFails, SetTrig
  <2> QED BY <2>1, <2>2 DEF TrigShapes
<1>5. CASE TimerFires \/ StrayFires \/ DueRead \/ TriggerEnds \/ TriggerNowEnds
  <2> DEFINE Sets(b, t) == trig' = [trig EXCEPT ![b] = t]
  <2>1. ASSUME NEW b, NEW t, Sets(b, t), t.job = NoJob PROVE trig'[a] = trig[a]
    BY <2>1 DEF TrigShapes
  <2>2. ASSUME trig' # trig PROVE trig'[a] = trig[a]
    <3>1. PICK b, t : Sets(b, t) /\ t.job = NoJob
      <4>1. CASE TimerFires \/ StrayFires
        <5>1. Sets("timer", [NoTrig EXCEPT !.step = "query"])
          BY <2>2, <4>1 DEF TimerFires, StrayFires, TriggerBegins, SetTrig
        <5>2. [NoTrig EXCEPT !.step = "query"].job = NoJob
          BY DEF NoTrig
        <5> HIDE DEF Sets
        <5> QED BY <5>1, <5>2
      <4>2. CASE DueRead
        <5>1. PICK due : Sets("timer", [NoTrig EXCEPT !.step = "loop", !.due = due])
          BY <4>2 DEF DueRead, SetTrig
        <5>2. [NoTrig EXCEPT !.step = "loop", !.due = due].job = NoJob
          BY DEF NoTrig
        <5> HIDE DEF Sets
        <5> QED BY <5>1, <5>2
      <4>3. CASE TriggerEnds \/ TriggerNowEnds
        BY <4>3, NoTrigShape DEF TriggerEnds, TriggerNowEnds, SetTrig
      <4> QED BY <1>5, <4>1, <4>2, <4>3
    <3> QED BY <2>1, <3>1
  <2>3. trig'[a] = trig[a]
    BY <2>2
  <2> QED BY <1>0, <2>3
<1>6. ASSUME NEW s \in Schedules, TriggerNow(s) PROVE trig'[a] = trig[a]
  BY <1>6 DEF TriggerNow, SetTrig, NoTrig, TrigShapes
<1>8. CASE trig' = trig
  BY <1>0, <1>8
<1> QED BY <1>1, <1>2, <1>3, <1>4, <1>5, <1>6, <1>0, <1>8, Frames DEF TrigSteps, TriggerStep

LEMMA SubscribedMoves ==
  ASSUME Shapes, [Next]_vars, NEW j, j \in subscribed'
  PROVE  /\ j \in JobIds /\ ~Forgets(j)
         /\ \/ j \in subscribed
            \/ \E a \in Actors : TriggerSubscribes(a) /\ trig[a].job = j
            \/ StartSubscribes /\ todo[found] = j
<1>1. j \in JobIds
  BY SubscribedTyped
<1>2. ~Forgets(j)
  BY DEF Forgets
<1>3. ASSUME NEW a \in Actors, TriggerSubscribes(a) PROVE j \in subscribed \/ trig[a].job = j
  BY <1>3 DEF TriggerSubscribes
<1>4. StartSubscribes => j \in subscribed \/ todo[found] = j
  BY DEF StartSubscribes
<1>5. NoticeAnnounces \/ Restart \/ (\E i \in JobIds : Forgets(i)) => j \in subscribed
  BY DEF NoticeAnnounces, Restart, Forgets
<1>6. CASE \E a \in Actors : TriggerSubscribes(a)
  BY <1>1, <1>2, <1>3, <1>6
<1> QED BY <1>1, <1>2, <1>4, <1>5, <1>6, Frames DEF SubscribedSteps

LEMMA RefersKept ==
  ASSUME Shapes, RefersToOwnJob, [Next]_vars
  PROVE  RefersToOwnJob'
<1> USE DEF Shapes
<1>1. ASSUME NEW s \in Schedules, row'[s].active # NoJob PROVE JobOf(row[s].active, s)'
  BY <1>1, RowRefersKept DEF JobOf
<1>2. ASSUME NEW s \in DOMAIN todo' PROVE JobOf(todo[s], s)'
  <2>1. CASE s \in DOMAIN todo /\ todo'[s] = todo[s]
    <3>1. PICK j \in JobIds : j = todo[s]
      BY <2>1 DEF StartShapes
    <3>2. JobOf(j, s) /\ ~Forgets(j)
      BY <2>1, <3>1, ReferredJobs DEF RefersToOwnJob
    <3>3. JobOf(j, s)'
      BY <3>2, JobStaysOf
    <3> QED BY <2>1, <3>1, <3>3 DEF JobOf
  <2>2. CASE /\ StartReadsStale \/ StartReadsWaiting
             /\ s \in Schedules /\ todo'[s] = row[s].active /\ row[s].active # NoJob
    BY <2>2 DEF StartReadsStale, StartReadsWaiting, RefersToOwnJob, JobOf, queueVars, jobVars
  <2> QED BY <2>1, <2>2, <1>2, TodoMoves
<1>3. ASSUME NEW a \in Actors, trig'[a].job # NoJob PROVE JobOf(trig[a].job, trig[a].s)'
  <2>1. CASE trig'[a].job = trig[a].job /\ trig'[a].s = trig[a].s
    <3>1. PICK j \in JobIds : j = trig[a].job
      BY <1>3, <2>1 DEF TrigShapes, Trigs
    <3>2. PICK s : s = trig[a].s
      OBVIOUS
    <3>3. JobOf(j, s) /\ ~Forgets(j)
      BY <1>3, <2>1, <3>1, <3>2, ReferredJobs DEF RefersToOwnJob
    <3>4. JobOf(j, s)'
      BY <3>3, JobStaysOf
    <3> QED BY <2>1, <3>1, <3>2, <3>4 DEF JobOf
  <2>2. CASE \E s \in Schedules, j \in JobIds :
               trig'[a].job = j /\ trig'[a].s = s /\ phase'[j] = "waiting" /\ kind'[j] = Kind(s, Ref[s])
    BY <2>2 DEF JobOf, Kind
  <2> QED BY <1>3, <2>1, <2>2, TrigMoves
<1>4. ASSUME NEW j \in subscribed' PROVE phase'[j] # "unused" /\ kind'[j].schedule \in Schedules
  <2>1. j \in JobIds /\ ~Forgets(j)
    BY <1>4, SubscribedMoves
  <2>2. \E s \in Schedules : JobOf(j, s)
    <3>1. CASE j \in subscribed
      BY <3>1 DEF RefersToOwnJob, JobOf
    <3>2. ASSUME NEW a \in Actors, TriggerSubscribes(a), trig[a].job = j PROVE \E s \in Schedules : JobOf(j, s)
      <4>1. trig[a].s \in Schedules
        BY <3>2, SnapshotFields DEF TriggerSubscribes, TrigShapes, Trigs
      <4> QED BY <2>1, <3>2, <4>1, Bounds DEF RefersToOwnJob
    <3>3. CASE StartSubscribes /\ todo[found] = j
      BY <3>3 DEF StartSubscribes, StartShapes, RefersToOwnJob
    <3> QED BY <1>4, <3>1, <3>2, <3>3, SubscribedMoves
  <2>3. PICK s \in Schedules : JobOf(j, s)
    BY <2>2
  <2> QED BY <2>1, <2>3, JobStaysOf DEF JobOf
<1>5. notice'.step \in {"read", "write"} => kind'[notice'.job].schedule \in Schedules
  <2>1. CASE notice'.job = notice.job /\ notice.step \in {"read", "write"}
    <3>1. PICK j \in JobIds : j = notice.job
      BY <2>1, Bounds DEF NoticeShapes, Notices
    <3>2. phase[j] = "ended" /\ kind[j].schedule \in Schedules
      BY <2>1, <3>1 DEF NoticeShapes, RefersToOwnJob
    <3>3. kind'[j] = kind[j]
      BY <3>2, JobMoves, ReferredJobs DEF Created, Proceeds, Ends, Leaves
    <3> QED BY <2>1, <3>1, <3>2, <3>3
  <2>2. ASSUME NEW i \in JobIds, NEW o, JobEnds(i, o)
        PROVE  notice'.step \in {"read", "write"} => kind'[notice'.job].schedule \in Schedules
    <3>1. kind' = kind /\ (notice' = [NoNotice EXCEPT !.job = i, !.step = "announce"] \/
                           (i \in subscribed /\ notice' = [NoNotice EXCEPT !.job = i, !.step = "read", !.outcome = o]))
      BY <2>2 DEF JobEnds, Queue!End
    <3> QED BY <3>1 DEF RefersToOwnJob, NoNotice
  <2>3. CASE NoticeWrites \/ NoticeAnnounces \/ NoticeDeletes \/ Restart
    <3>1. notice \in Notices
      BY DEF NoticeShapes
    <3>2. \/ notice' = [NoNotice EXCEPT !.job = notice.job, !.step = "arm"]
          \/ notice' = [notice EXCEPT !.step = "delete"]
          \/ notice' = NoNotice
      BY <2>3 DEF NoticeWrites, NoticeAnnounces, NoticeDeletes, Restart
    <3>3. CASE notice' = [notice EXCEPT !.step = "delete"]
      <4>1. notice'.step = "delete"
        BY <3>1, <3>3 DEF Notices
      <4> QED BY <4>1
    <3>4. CASE notice' = [NoNotice EXCEPT !.job = notice.job, !.step = "arm"]
      <4>1. notice'.step = "arm"
        BY <3>4 DEF NoNotice
      <4> QED BY <4>1
    <3>5. CASE notice' = NoNotice
      <4>1. notice'.step = "none"
        BY <3>5 DEF NoNotice
      <4> QED BY <4>1
    <3> QED BY <3>2, <3>3, <3>4, <3>5
  <2>4. CASE NoticeReads
    <3>1. notice.step = "read" /\ notice'.job = notice.job
      BY <2>4 DEF NoticeReads, NoNotice, NoticeShapes, Notices
    <3> QED BY <2>1, <3>1
  <2>5. CASE notice' = notice
    BY <2>1, <2>5
  <2>6. ClientCancelsJob => client.job \in JobIds /\ JobEnds(client.job, "failed")
    BY DEF ClientCancelsJob, ClientShapes, Clients
  <2>7. ASSUME NEW i \in JobIds, JobStarts(i) \/ JobRecovers(i) PROVE notice' = notice
    BY <2>7 DEF JobStarts, JobRecovers
  <2> QED BY <2>2, <2>3, <2>4, <2>5, <2>6, <2>7, Frames DEF NoticeSteps, NoticeStep, JobStep
<1> QED BY <1>1, <1>2, <1>3, <1>4, <1>5 DEF RefersToOwnJob

-----------------------------------------------------------------------------
BaseInv == Shapes /\ RefersToOwnJob

LEMMA BaseInit == Init => BaseInv
<1> SUFFICES ASSUME Init PROVE BaseInv
  OBVIOUS
<1> USE Bounds, BoundsAssumption, SchedulesAssumption DEF Init
<1>1. RowShapes
  BY AbsentIsRow DEF RowShapes, Exists
<1>2. QueueShapes
  BY KindsNonempty DEF QueueShapes, Phases
<1>3. NoticeShapes
  BY DEF NoticeShapes, Notices, NoNotice
<1>4. TrigShapes
  BY NoTrigShape DEF TrigShapes
<1>5. ClientShapes
  BY DEF ClientShapes, Clients, NoClient
<1>6. StartShapes
  BY NoDueShapes DEF StartShapes, starting
<1>7. TimerShapes
  <2>1. arm \in [Callers -> {"idle", "read", "set"}]
    OBVIOUS
  <2>2. strays \in 0..MaxStrays /\ instance \in 1..MaxInstances
    OBVIOUS
  <2> QED BY <2>1, <2>2 DEF TimerShapes
<1>8. RefersToOwnJob
  BY NoDueShapes, NoTrigShape, AbsentIsRow DEF RefersToOwnJob, NoNotice
<1> QED BY <1>1, <1>2, <1>3, <1>4, <1>5, <1>6, <1>7, <1>8 DEF BaseInv, Shapes

LEMMA BaseStep == BaseInv /\ [Next]_vars => BaseInv'
BY RowShapesKept, QueueShapesKept, NoticeShapesKept, TrigShapesKept, ClientShapesKept, StartShapesKept,
   TimerShapesKept, RefersKept DEF BaseInv, Shapes

LEMMA BaseInvariant == Spec => []BaseInv
BY BaseInit, BaseStep, PTL DEF Spec

\* Rows, jobs, timers and calls keep their types, whatever clients, jobs and restarts do
\* (scheduling_service.ts); a job is failed or reset for no more than its retries.
THEOREM TypeCorrect == Spec => []TypeOK
<1>1. BaseInv => TypeOK
  <2> SUFFICES ASSUME BaseInv PROVE TypeOK
    OBVIOUS
  <2>1. row \in [Schedules -> [status : {"absent", "deleted", "active", "paused", "completed", "error"},
                               next : {"none", "future", "due"},
                               active : JobIds \cup {NoJob}, failures : 0..MaxFailures]]
    BY DEF BaseInv, Shapes, RowShapes, Rows
  <2>2. notice.job \in JobIds \cup {NoJob}
    BY DEF BaseInv, Shapes, NoticeShapes, Notices
  <2>3. DOMAIN todo \subseteq Schedules
    BY DEF BaseInv, Shapes, StartShapes
  <2> QED BY <2>1, <2>2, <2>3 DEF BaseInv, Shapes, QueueShapes, StartShapes, TimerShapes, TypeOK
<1> QED BY <1>1, BaseInvariant, PTL

-----------------------------------------------------------------------------
(* What a step does to one row *)

FailsTo(s) == \E count \in 0..MaxFailures, status \in {"error", row[s].status} :
                row'[s] = [row[s] EXCEPT !.failures = count, !.status = status]
LosesJob(s) == \E time \in {"future", "due", row[s].next} :
                 /\ Type[s] \in Interval => time = "future"
                 /\ row'[s] = [row[s] EXCEPT !.active = NoJob, !.next = time]
ClientSets(s) ==
  \/ client.op = "pause" /\ row'[s] = [row[s] EXCEPT !.status = "paused"]
  \/ client.op = "resume" /\ row'[s] = [row[s] EXCEPT !.status = "active", !.next = client.next]
  \/ client.op = "update" /\ row'[s] = [row[s] EXCEPT !.next = client.next]
  \/ client.op = "cancel" /\ row'[s] = [row[s] EXCEPT !.status = "completed", !.next = "none", !.active = NoJob]
  \/ row'[s] = Deleted

RowMove(s) ==
  \/ \E a \in Actors : TriggerWrites(a) /\ trig[a].s = s /\ Exists(s) /\ row'[s] = Triggered(s, trig[a].job)
  \/ (\E a \in Actors : TriggerFails(a) /\ trig[a].s = s) /\ FailsTo(s)
  \/ /\ NoticeWrites /\ kind[notice.job].schedule = s /\ Exists(s)
     /\ row'[s] = AfterJob(s, notice.outcome, notice.failures)
  \/ NoticeDeletes /\ row[s].active = notice.job /\ row'[s] = [row[s] EXCEPT !.active = NoJob]
  \/ StartClears /\ row'[s] = Absent
  \/ (StartResets \/ StartFindsJobGone) /\ s \in DOMAIN todo /\ Exists(s) /\ LosesJob(s)
  \/ ClientWrites /\ client.s = s /\ Exists(s) /\ ClientSets(s)
  \/ /\ Registers(s) /\ row[s] = Absent
     /\ \E time \in {"future", "due"} : row'[s] = [Absent EXCEPT !.status = "active", !.next = time]
  \/ Elapses(s) /\ row[s].next = "future" /\ row'[s] = [row[s] EXCEPT !.next = "due"]

LEMMA RowMoves ==
  ASSUME BaseInv, [Next]_vars, NEW s \in Schedules
  PROVE  row'[s] = row[s] \/ RowMove(s)
<1> USE DEF BaseInv, Shapes
<1> SUFFICES ASSUME row'[s] # row[s] PROVE RowMove(s)
  OBVIOUS
<1>0. row \in [Schedules -> Rows]
  BY DEF RowShapes
<1>1. ASSUME NEW a \in Actors, TriggerWrites(a) PROVE RowMove(s)
  <2>1. trig[a].s = s /\ Exists(s) /\ row'[s] = Triggered(s, trig[a].job)
    BY <1>0, <1>1 DEF TriggerWrites, Write
  <2> QED BY <1>1, <2>1 DEF RowMove
<1>2. ASSUME NEW a \in Actors, TriggerFails(a) PROVE RowMove(s)
  <2> DEFINE count == OneMore(trig[a].due[trig[a].s])
  <2>1. count \in 0..MaxFailures
    BY <1>2, OneMoreBounded, SnapshotFields DEF TriggerFails, TrigShapes, Trigs
  <2>2. PICK status \in {"error", row[trig[a].s].status} :
          Write(trig[a].s, [row[trig[a].s] EXCEPT !.failures = count, !.status = status])
    BY <1>2 DEF TriggerFails
  <2> HIDE DEF count
  <2>3. trig[a].s = s /\ row'[s] = [row[s] EXCEPT !.failures = count, !.status = status]
    BY <1>0, <2>2 DEF Write
  <2>4. FailsTo(s)
    BY <2>1, <2>2, <2>3 DEF FailsTo
  <2> QED BY <1>2, <2>3, <2>4 DEF RowMove
<1>3. ASSUME NoticeWrites PROVE RowMove(s)
  <2>1. /\ kind[notice.job].schedule = s /\ Exists(s)
        /\ row'[s] = AfterJob(s, notice.outcome, notice.failures)
    BY <1>0, <1>3 DEF NoticeWrites, Write
  <2> QED BY <1>3, <2>1 DEF RowMove
<1>4. ASSUME NoticeDeletes PROVE RowMove(s)
  <2>1. row[s].active = notice.job /\ row'[s] = [row[s] EXCEPT !.active = NoJob]
    BY <1>4 DEF NoticeDeletes
  <2> QED BY <1>4, <2>1 DEF RowMove
<1>5. ASSUME StartClears PROVE RowMove(s)
  <2>1. row'[s] = Absent
    BY <1>5 DEF StartClears
  <2> QED BY <1>5, <2>1 DEF RowMove
<1>6. ASSUME StartResets \/ StartFindsJobGone PROVE RowMove(s)
  <2>1. PICK u \in DOMAIN todo : \E time \in {"future", "due", row[u].next} :
          /\ Type[u] \in Interval => time = "future"
          /\ Write(u, [row[u] EXCEPT !.active = NoJob, !.next = time])
    BY <1>6 DEF StartResets, StartFindsJobGone
  <2>2. PICK time \in {"future", "due", row[u].next} :
          /\ Type[u] \in Interval => time = "future"
          /\ Write(u, [row[u] EXCEPT !.active = NoJob, !.next = time])
    BY <2>1
  <2>3. u = s /\ Exists(s) /\ row'[s] = [row[s] EXCEPT !.active = NoJob, !.next = time]
    BY <1>0, <2>2 DEF Write
  <2>4. LosesJob(s)
    BY <2>2, <2>3 DEF LosesJob
  <2> QED BY <1>6, <2>1, <2>3, <2>4 DEF RowMove
<1>7. ASSUME ClientWrites PROVE RowMove(s)
  <2>1. PICK r : Write(client.s, r) /\
          \/ client.op = "pause" /\ r = [row[client.s] EXCEPT !.status = "paused"]
          \/ client.op = "resume" /\ r = [row[client.s] EXCEPT !.status = "active", !.next = client.next]
          \/ client.op = "update" /\ r = [row[client.s] EXCEPT !.next = client.next]
          \/ client.op = "cancel" /\ r = [row[client.s] EXCEPT !.status = "completed", !.next = "none",
                                                             !.active = NoJob]
          \/ r = Deleted
    BY <1>7 DEF ClientWrites
  <2>2. client.s = s /\ Exists(s) /\ row'[s] = r
    BY <1>0, <2>1 DEF Write
  <2>3. ClientSets(s)
    BY <2>1, <2>2 DEF ClientSets
  <2> QED BY <1>7, <2>2, <2>3 DEF RowMove
<1>8. ASSUME NEW u \in Schedules, Registers(u) PROVE RowMove(s)
  <2>1. PICK time \in {"future", "due"} :
          row' = [row EXCEPT ![u] = [Absent EXCEPT !.status = "active", !.next = time]]
    BY <1>8 DEF Registers
  <2>2. u = s /\ row[s] = Absent /\ row'[s] = [Absent EXCEPT !.status = "active", !.next = time]
    BY <1>0, <1>8, <2>1 DEF Registers
  <2> QED BY <1>8, <2>1, <2>2 DEF RowMove
<1>9. ASSUME NEW u \in Schedules, Elapses(u) PROVE RowMove(s)
  <2>1. row[u].next = "future" /\ row' = [row EXCEPT ![u] = [row[u] EXCEPT !.next = "due"]]
    BY <1>9 DEF Elapses
  <2>2. u = s /\ row'[s] = [row[s] EXCEPT !.next = "due"]
    BY <1>0, <2>1
  <2> QED BY <1>9, <2>1, <2>2 DEF RowMove
<1> QED BY <1>1, <1>2, <1>3, <1>4, <1>5, <1>6, <1>7, <1>8, <1>9, Frames DEF RowSteps

-----------------------------------------------------------------------------
(* The next trigger *)

LEMMA ArmedInit == Init => ArmedInv
BY AbsentIsRow DEF Init, ArmedInv, ConcurrentHasTime, Absent

LEMMA ConcurrentTimesKept ==
  ASSUME BaseInv, ConcurrentHasTime, [Next]_vars
  PROVE  ConcurrentHasTime'
<1> SUFFICES ASSUME NEW s \in Schedules, row'[s].status = "active", Type[s] = "concurrent_interval"
             PROVE  row'[s].next # "none"
  BY DEF ConcurrentHasTime
<1>0. row[s] \in Rows /\ row'[s] \in Rows
  BY BaseStep DEF BaseInv, Shapes, RowShapes
<1>1. ASSUME NEW j, row'[s] = Triggered(s, j) PROVE row'[s].next # "none"
  BY <1>0, <1>1 DEF Triggered, Awaited, Rows
<1>2. CASE FailsTo(s) \/ LosesJob(s)
  BY <1>0, <1>2 DEF FailsTo, LosesJob, Rows, ConcurrentHasTime
<1>3. ASSUME NEW o, NEW n, row'[s] = AfterJob(s, o, n) PROVE row'[s].next # "none"
  BY <1>0, <1>3 DEF AfterJob, Rows, ConcurrentHasTime
<1>4. CASE row'[s] = [row[s] EXCEPT !.active = NoJob] \/ row'[s] = [row[s] EXCEPT !.next = "due"]
  BY <1>0, <1>4 DEF Rows, ConcurrentHasTime
<1>5. CASE row'[s] = Absent
  BY <1>5 DEF Absent
<1>6. CASE ClientWrites /\ ClientSets(s)
  <2>1. client.op \in {"resume", "update"} => client.next # "none"
    BY DEF BaseInv, Shapes, ClientShapes
  <2> QED BY <1>0, <1>6, <2>1 DEF ClientSets, Rows, Deleted, Absent
<1>7. CASE \E time \in {"future", "due"} : row'[s] = [Absent EXCEPT !.status = "active", !.next = time]
  BY <1>7 DEF Absent
<1>8. CASE row'[s] = row[s]
  BY <1>8 DEF ConcurrentHasTime
<1> QED BY <1>1, <1>2, <1>3, <1>4, <1>5, <1>6, <1>7, <1>8, RowMoves DEF RowMove

\* triggerDueSchedules() is left by its finally block alone
LEMMA ProcessingGoesOn ==
  ASSUME BaseInv, [Next]_vars, isProcessing
  PROVE  isProcessing' \/ TriggerEnds \/ Restart
<1> USE DEF BaseInv, Shapes
<1>0. "timer" \in Actors /\ "manual" \in Actors /\ trig \in [Actors -> Trigs]
  BY DEF Actors, TrigShapes
<1>1. ASSUME NEW a \in Actors, NEW t, SetTrig(a, t), a = "timer" => t.step # "idle" PROVE isProcessing'
  BY <1>0, <1>1 DEF SetTrig, isProcessing
<1>2. \A a \in Actors : trig[a] \in Trigs /\ Handled(trig[a]).step = "loop"
  BY HandledShape DEF TrigShapes
<1>3. ASSUME NEW a \in Actors, NEW s \in Schedules, Enqueues(a, s) \/ EnqueueRejected(a, s) PROVE isProcessing'
  <2>1. PICK j : \/ SetTrig(a, [trig[a] EXCEPT !.step = "update", !.s = s, !.job = j])
                 \/ SetTrig(a, [trig[a] EXCEPT !.step = "error", !.s = s])
                 \/ a = "manual" /\ SetTrig(a, NoTrig)
    BY <1>3 DEF Enqueues, EnqueueRejected
  <2>2. [trig[a] EXCEPT !.step = "update", !.s = s, !.job = j].step = "update"
    BY <1>2 DEF Trigs
  <2>3. [trig[a] EXCEPT !.step = "error", !.s = s].step = "error"
    BY <1>2 DEF Trigs
  <2>4. CASE SetTrig(a, [trig[a] EXCEPT !.step = "update", !.s = s, !.job = j])
    BY <1>1, <2>2, <2>4
  <2>5. CASE SetTrig(a, [trig[a] EXCEPT !.step = "error", !.s = s])
    BY <1>1, <2>3, <2>5
  <2>6. CASE a = "manual" /\ SetTrig(a, NoTrig)
    BY <1>1, <2>6
  <2> QED BY <2>1, <2>4, <2>5, <2>6
<1>4. ASSUME NEW a \in Actors, TriggerWrites(a) PROVE isProcessing'
  <2>1. [trig[a] EXCEPT !.step = "subscribe"].step = "subscribe"
    BY <1>2 DEF Trigs
  <2> QED BY <1>1, <1>2, <1>4, <2>1 DEF TriggerWrites
<1>5. ASSUME NEW a \in Actors, TriggerSubscribes(a) \/ TriggerFails(a) PROVE isProcessing'
  BY <1>1, <1>2, <1>5 DEF TriggerSubscribes, TriggerFails
<1>6. ASSUME TimerFires \/ StrayFires PROVE isProcessing'
  BY <1>6 DEF TimerFires, StrayFires, TriggerBegins, isProcessing
<1>7. ASSUME DueRead PROVE isProcessing'
  <2>1. PICK due : SetTrig("timer", [NoTrig EXCEPT !.step = "loop", !.due = due])
    BY <1>7 DEF DueRead
  <2>2. [NoTrig EXCEPT !.step = "loop", !.due = due].step = "loop"
    BY DEF NoTrig
  <2> QED BY <1>0, <1>1, <2>1, <2>2
<1>8. ASSUME TriggerNowEnds PROVE isProcessing'
  BY <1>0, <1>1, <1>8 DEF TriggerNowEnds
<1>9. ASSUME NEW s \in Schedules, TriggerNow(s) PROVE isProcessing'
  BY <1>0, <1>1, <1>9 DEF TriggerNow
<1>10. CASE trig' = trig
  BY <1>10 DEF isProcessing
<1> QED BY <1>3, <1>4, <1>5, <1>6, <1>7, <1>8, <1>9, <1>10, Frames DEF TrigSteps, TriggerStep

\* somebody sets a timer, or a timer is set
Armed == timer \/ strays > 0 \/ debounce \/ isProcessing \/ \E c \in Callers : arm[c] # "idle"

LEMMA ArmStartsArms ==
  ASSUME Shapes, NEW c \in Callers, ArmStarts(c), ~Stopping
  PROVE  arm'[c] # "idle"
BY DEF ArmStarts, Stopping, stopRequested, Shapes, TimerShapes

\* no schedule gets a first run time without a call that sets a timer
LEMMA SoonestShrinks ==
  ASSUME BaseInv, ConcurrentHasTime, [Next]_vars, Soonest' # {},
         ~NoticeWrites, ~ClientWrites, \A s \in Schedules : ~Registers(s), svc \in {"arming", "running"}
  PROVE  Soonest # {}
<1>1. PICK s \in Schedules : row'[s].status = "active" /\ row'[s].next # "none"
  BY DEF Soonest
<1>2. row[s] \in Rows /\ row'[s] \in Rows
  BY BaseStep DEF BaseInv, Shapes, RowShapes
<1>3. ASSUME NEW j, row'[s] = Triggered(s, j) PROVE s \in Soonest
  <2>1. Type[s] = "concurrent_interval"
    BY <1>1, <1>2, <1>3, SchedulesAssumption DEF Triggered, Awaited, Interval, Rows
  <2>2. row[s].status = "active"
    BY <1>1, <1>2, <1>3, <2>1 DEF Triggered, Awaited, Rows
  <2> QED BY <2>1, <2>2 DEF Soonest, ConcurrentHasTime
<1>4. CASE FailsTo(s)
  BY <1>1, <1>2, <1>4 DEF FailsTo, Rows, Soonest
<1>5. CASE row'[s] = [row[s] EXCEPT !.active = NoJob]
  BY <1>1, <1>2, <1>5 DEF Rows, Soonest
<1>6. CASE row[s].next = "future" /\ row'[s] = [row[s] EXCEPT !.next = "due"]
  BY <1>1, <1>2, <1>6 DEF Rows, Soonest
<1>7. CASE row'[s] = row[s]
  BY <1>1, <1>7 DEF Soonest
<1>8. ~StartClears /\ ~StartResets /\ ~StartFindsJobGone
  BY DEF StartClears, StartResets, StartFindsJobGone
<1> QED BY <1>3, <1>4, <1>5, <1>6, <1>7, <1>8, RowMoves DEF RowMove

LEMMA ArmedStep == BaseInv /\ ArmedInv /\ [Next]_vars => ArmedInv'
<1> SUFFICES ASSUME BaseInv, ArmedInv, [Next]_vars, svc' \in {"arming", "running"}, ~Stopping', Soonest' # {}
             PROVE  Armed'
  BY ConcurrentTimesKept DEF ArmedInv, Armed
<1> USE DEF BaseInv, Shapes
<1>0. ~Stopping /\ ~Restart /\ ~StopBegins /\ ~StopClears /\ ~StopEnds
  <2>1. ~StopBegins /\ ~StopClears /\ ~StopEnds /\ ~Restart
    BY DEF Stopping, StopBegins, StopClears, StopEnds, Restart
  <2> QED BY <2>1, Frames DEF Stopping
<1>1. ASSUME NEW c \in Callers, ArmStarts(c) PROVE Armed'
  BY <1>0, <1>1, ArmStartsArms DEF Armed
<1>2. ASSUME NEW c \in Callers, ArmReads(c) PROVE Armed'
  <2>1. Soonest # {}
    BY <1>2 DEF ArmReads, Soonest
  <2>2. arm'[c] = "set"
    BY <1>2, <2>1 DEF ArmReads, TimerShapes
  <2> QED BY <2>2 DEF Armed
<1>3. ASSUME NEW c \in Callers, ArmSets(c) PROVE Armed'
  BY <1>3 DEF ArmSets, Armed
<1>4. CASE DebounceFires \/ NoticeWrites \/ StartArms \/ TriggerEnds
  BY <1>0, <1>1, <1>4 DEF DebounceFires, NoticeWrites, StartArms, TriggerEnds, Callers, Stopping, stopRequested
<1>5. CASE TimerFires \/ StrayFires
  <2>1. isProcessing'
    BY <1>5 DEF TimerFires, StrayFires, TriggerBegins, SetTrig, NoTrig, Actors, isProcessing, TrigShapes
  <2> QED BY <2>1 DEF Armed
<1>6. ASSUME ~StartArms PROVE svc \in {"arming", "running"}
  <2>1. CASE StartStep
    BY <1>6, <2>1 DEF StartStep, StartClears, StartReadsStale, StartResets, StartResetDone, StartReadsWaiting,
                     StartFindsJobGone, StartFindsJob, StartSubscribes, StartEnds, Goes
  <2>2. CASE UNCHANGED startVars
    BY <2>2 DEF startVars
  <2> QED BY <1>0, <2>1, <2>2, Frames DEF StartSteps
<1>7. CASE ClientWrites \/ \E s \in Schedules : Registers(s)
  <2>1. ~StartArms
    BY <1>7 DEF ClientWrites, Registers, StartArms, startVars
  <2>2. debounce'
    BY <1>6, <1>7, <2>1 DEF ClientWrites, Registers, Reschedule, isRunning, starting
  <2> QED BY <2>2 DEF Armed
<1>8. CASE /\ ~NoticeWrites /\ ~ClientWrites /\ \A s \in Schedules : ~Registers(s)
           /\ ~StartArms /\ ~TriggerEnds /\ ~TimerSteps
  <2>1. Armed
    BY <1>6, <1>8, <1>0, SoonestShrinks DEF ArmedInv, Armed
  <2>2. CASE isProcessing
    BY <1>0, <1>8, <2>2, ProcessingGoesOn DEF Armed
  <2>3. CASE ~isProcessing
    <3>1. UNCHANGED timerVars
      BY <1>8, Frames
    <3> QED BY <2>1, <2>3, <3>1 DEF Armed, timerVars
  <2> QED BY <2>2, <2>3
<1>9. ~StartFindsJobGone
  BY DEF StartFindsJobGone
<1> QED BY <1>0, <1>2, <1>3, <1>4, <1>5, <1>7, <1>8, <1>9 DEF TimerSteps, ArmStep

\* An active schedule with a run time has a timer, or a call that sets one: over overlapping calls
\* of scheduleNextTrigger() that clear each other's timers, manual triggers, pauses and updates.
THEOREM NextTriggersAreArmed == Spec => []NextTriggerArmed
<1>1. ArmedInv => NextTriggerArmed
  BY DEF ArmedInv, NextTriggerArmed
<1> QED BY <1>1, ArmedInit, ArmedStep, BaseInvariant, PTL DEF Spec

-----------------------------------------------------------------------------
(* One trigger after the other *)

LEMMA TurnsInit == Init => TurnsInv
<1> SUFFICES ASSUME Init PROVE TurnsInv
  OBVIOUS
<1>1. \A s \in Schedules : row[s].next = "none"
  BY DEF Init, Absent
<1>2. trig["manual"] = NoTrig /\ trig["timer"] = NoTrig
  BY DEF Init, Actors
<1>3. DOMAIN trig["timer"].due = {}
  BY <1>2, NoTrigShape
<1> QED BY <1>1, <1>2, <1>3 DEF TurnsInv, Undisturbed

\* a job that has ended stays so while a row refers to it
LEMMA NotRevived ==
  ASSUME BaseInv, [Next]_vars, NEW s \in Schedules, row'[s].active = row[s].active, ~HasActiveJob(s)
  PROVE  ~HasActiveJob(s)'
<1> USE DEF BaseInv, Shapes
<1>1. CASE row[s].active = NoJob
  BY <1>1 DEF HasActiveJob, IsActiveJob
<1>2. CASE row[s].active # NoJob
  <2>1. PICK j \in JobIds : j = row[s].active
    BY <1>2 DEF RowShapes, Rows
  <2>2. phase[j] \notin {"unused", "waiting", "running"}
    BY <1>2, <2>1 DEF HasActiveJob, IsActiveJob, RefersToOwnJob, JobOf
  <2>3. phase'[j] \notin {"waiting", "running"}
    BY <2>2, JobMoves DEF Created, Proceeds, Ends, Leaves
  <2> QED BY <2>1, <2>3 DEF HasActiveJob, IsActiveJob
<1> QED BY <1>1, <1>2

\* the schedules a run has still to trigger were read by its query
LEMMA SnapshotMoves ==
  ASSUME BaseInv, [Next]_vars, NEW s \in DOMAIN trig'["timer"].due, s # trig'["timer"].s, s \in Schedules
  PROVE  \/ s \in DOMAIN trig["timer"].due /\ s # trig["timer"].s
         \/ DueRead /\ s \in Soonest /\ row[s].next = "due"
<1> USE DEF BaseInv, Shapes
<1>0. "timer" \in Actors /\ trig["timer"] \in Trigs /\ trig \in [Actors -> Trigs] /\ Foreign \notin Schedules
  BY SchedulesAssumption DEF Actors, TrigShapes
<1>1. ASSUME NEW a \in Actors, NEW u \in Schedules, Enqueues(a, u) \/ EnqueueRejected(a, u)
      PROVE  s \in DOMAIN trig["timer"].due /\ s # trig["timer"].s
  <2>1. PICK j : \/ SetTrig(a, [trig[a] EXCEPT !.step = "update", !.s = u, !.job = j])
                 \/ SetTrig(a, [trig[a] EXCEPT !.step = "error", !.s = u])
                 \/ a = "manual" /\ SetTrig(a, NoTrig)
    BY <1>1 DEF Enqueues, EnqueueRejected
  <2>2. CASE a = "timer"
    <3>1. trig["timer"].s = Foreign
      BY <1>1, <2>2 DEF Enqueues, EnqueueRejected, TrigShapes
    <3>2. trig'["timer"].due = trig["timer"].due
      <4>1. CASE trig'["timer"] = [trig["timer"] EXCEPT !.step = "update", !.s = u, !.job = j]
        BY <1>0, <4>1 DEF Trigs
      <4>2. CASE trig'["timer"] = [trig["timer"] EXCEPT !.step = "error", !.s = u]
        BY <1>0, <4>2 DEF Trigs
      <4> QED BY <1>0, <2>1, <2>2, <4>1, <4>2 DEF SetTrig
    <3> QED BY <1>0, <3>1, <3>2
  <2>3. CASE a # "timer"
    BY <1>0, <2>1, <2>3 DEF SetTrig
  <2> QED BY <2>2, <2>3
<1>2. ASSUME NEW a \in Actors, TriggerWrites(a) \/ TriggerSubscribes(a) \/ TriggerFails(a)
      PROVE  s \in DOMAIN trig["timer"].due /\ s # trig["timer"].s
  <2>1. SetTrig(a, [trig[a] EXCEPT !.step = "subscribe"]) \/ SetTrig(a, Handled(trig[a]))
    BY <1>2 DEF TriggerWrites, TriggerSubscribes, TriggerFails
  <2>2. CASE a = "timer"
    <3>1. CASE trig'["timer"] = [trig["timer"] EXCEPT !.step = "subscribe"]
      BY <1>0, <3>1 DEF Trigs
    <3>2. CASE trig'["timer"] = Handled(trig["timer"])
      BY <1>0, <3>2, HandledShape
    <3> QED BY <1>0, <2>1, <2>2, <3>1, <3>2 DEF SetTrig
  <2>3. CASE a # "timer"
    BY <1>0, <2>1, <2>3 DEF SetTrig
  <2> QED BY <2>2, <2>3
<1>3. ASSUME trig'["timer"] = [NoTrig EXCEPT !.step = "query"] \/ trig'["timer"] = NoTrig PROVE FALSE
  <2>1. [NoTrig EXCEPT !.step = "query"].due = NoDue /\ NoTrig.due = NoDue
    BY DEF NoTrig
  <2> QED BY <1>3, <2>1, NoDueShapes
<1>4. ASSUME TimerFires \/ StrayFires PROVE trig' = trig
  <2>1. trig' = trig \/ trig'["timer"] = [NoTrig EXCEPT !.step = "query"]
    BY <1>0, <1>4 DEF TimerFires, StrayFires, TriggerBegins, SetTrig
  <2> QED BY <1>0, <1>3, <1>4, <2>1 DEF TimerFires, StrayFires, TriggerBegins, SetTrig
<1>5. ASSUME TriggerEnds \/ Restart PROVE FALSE
  BY <1>0, <1>3, <1>5 DEF TriggerEnds, Restart, SetTrig
<1>6. ASSUME DueRead PROVE s \in Soonest /\ row[s].next = "due"
  <2> DEFINE due == [u \in {t \in Soonest : row[t].next = "due"} |-> row[u].failures]
  <2>1. trig'["timer"] = [NoTrig EXCEPT !.step = "loop", !.due = due]
    BY <1>0, <1>6 DEF DueRead, SetTrig
  <2>2. DOMAIN due = {t \in Soonest : row[t].next = "due"}
    OBVIOUS
  <2> HIDE DEF due
  <2>3. trig'["timer"].due = due
    BY <2>1 DEF NoTrig
  <2> QED BY <2>2, <2>3
<1>7. ASSUME TriggerNowEnds \/ \E u \in Schedules : TriggerNow(u) PROVE trig'["timer"] = trig["timer"]
  BY <1>0, <1>7 DEF TriggerNowEnds, TriggerNow, SetTrig
<1>8. CASE trig'["timer"] = trig["timer"]
  BY <1>8
<1> QED BY <1>1, <1>2, <1>4, <1>5, <1>6, <1>7, <1>8, Frames DEF TrigSteps, TriggerStep

LEMMA TurnsStep == BaseInv /\ TurnsInv /\ [Next]_vars => TurnsInv'
<1> SUFFICES ASSUME BaseInv, TurnsInv, [Next]_vars, ~Manual PROVE TurnsInv'
  BY DEF TurnsInv
<1> USE DEF BaseInv, Shapes
<1>0. trig["manual"] = NoTrig /\ "manual" \in Actors /\ trig \in [Actors -> Trigs] /\ Actors = {"timer", "manual"}
  BY DEF TurnsInv, Actors, TrigShapes
<1>1. trig'["manual"] = NoTrig
  <2>1. ASSUME NEW a \in Actors, TriggerStep(a) PROVE trig'["manual"] = trig["manual"]
    <3>1. a = "timer"
      <4>1. trig[a].step # "idle"
        BY <2>1 DEF TriggerStep, Enqueues, EnqueueRejected, TriggerWrites, TriggerSubscribes, TriggerFails
      <4> QED BY <1>0, <4>1, NoTrigShape
    <3> QED BY <1>0, <2>1, <3>1 DEF TriggerStep, Enqueues, EnqueueRejected, TriggerWrites, TriggerSubscribes,
                                   TriggerFails, SetTrig
  <2>2. TimerFires \/ StrayFires \/ DueRead \/ TriggerEnds => trig'["manual"] = trig["manual"]
    BY <1>0 DEF TimerFires, StrayFires, DueRead, TriggerEnds, TriggerBegins, SetTrig
  <2>3. TriggerNowEnds \/ Restart => trig'["manual"] = NoTrig
    BY <1>0 DEF TriggerNowEnds, Restart, SetTrig
  <2>4. \A s \in Schedules : ~TriggerNow(s)
    BY DEF TriggerNow
  <2> QED BY <1>0, <2>1, <2>2, <2>3, <2>4, Frames DEF TrigSteps
<1>2. ASSUME NEW s \in Schedules, row'[s].active # row[s].active, row'[s].active # NoJob
      PROVE  TriggerWrites("timer") /\ trig["timer"].s = s
  <2>1. PICK a \in Actors : TriggerWrites(a) /\ trig[a].s = s
    BY <1>2, RowRefersKept
  <2>2. a # "manual"
    BY <1>0, <2>1 DEF TriggerWrites, NoTrig
  <2> QED BY <1>0, <2>1, <2>2
<1>3. ASSUME NEW s \in Undisturbed, row'[s].next # "none" PROVE ~HasActiveJob(s)'
  <2>0. s \in Schedules /\ Type[s] \in Awaited /\ s \notin Owned /\ s \notin Updatable
    BY DEF Undisturbed
  <2>1. row[s] \in Rows /\ row'[s] \in Rows
    BY <2>0, BaseStep DEF RowShapes
  <2>2. CASE row'[s].active = NoJob
    BY <2>2 DEF HasActiveJob, IsActiveJob
  <2>3. CASE row[s].next # "none" /\ row'[s].active = row[s].active
    BY <1>3, <2>0, <2>3, NotRevived DEF TurnsInv
  <2>4. ASSUME NEW j PROVE Triggered(s, j).next = "none"
    BY <2>0, <2>1, SchedulesAssumption DEF Triggered, Awaited, Interval, Rows
  <2>5. CASE FailsTo(s)
    BY <1>3, <2>1, <2>3, <2>5 DEF FailsTo, Rows
  <2>6. CASE LosesJob(s)
    BY <2>1, <2>2, <2>6 DEF LosesJob, Rows
  <2>7. ASSUME NEW o, NEW n PROVE AfterJob(s, o, n).active = NoJob
    BY <2>1 DEF AfterJob, Rows
  <2>8. CASE row'[s] = [row[s] EXCEPT !.active = NoJob]
    BY <2>1, <2>2, <2>8 DEF Rows
  <2>9. CASE row'[s] = Absent \/ \E time \in {"future", "due"} : row'[s] = [Absent EXCEPT !.status = "active", !.next = time]
    <3>1. ASSUME NEW time PROVE [Absent EXCEPT !.status = "active", !.next = time].active = NoJob
      BY DEF Absent
    <3>2. row'[s].active = NoJob
      BY <2>9, <3>1, AbsentIsRow
    <3> QED BY <2>2, <3>2
  <2>10. ~(client.s = s /\ ClientSets(s))
    <3>1. ASSUME client.s = s, ClientSets(s) PROVE row'[s] = Deleted
      BY <2>0, <3>1 DEF ClientSets, ClientShapes
    <3> QED BY <1>3, <3>1 DEF Deleted, Absent
  <2>11. CASE row[s].next = "future" /\ row'[s] = [row[s] EXCEPT !.next = "due"]
    BY <2>1, <2>3, <2>11 DEF Rows
  <2>12. CASE row'[s] = row[s]
    BY <1>3, <2>3, <2>12
  <2>13. ASSUME NEW j, row'[s] = Triggered(s, j) PROVE FALSE
    BY <1>3, <2>4, <2>13
  <2>14. ASSUME NEW o, NEW n, row'[s] = AfterJob(s, o, n) PROVE ~HasActiveJob(s)'
    BY <2>2, <2>7, <2>14
  <2> QED BY <2>0, <2>5, <2>6, <2>8, <2>9, <2>10, <2>11, <2>12, <2>13, <2>14, RowMoves DEF RowMove
<1>4. ASSUME NEW s \in Undisturbed, s \in DOMAIN trig'["timer"].due, s # trig'["timer"].s
      PROVE  ~HasActiveJob(s)'
  <2>0. s \in Schedules
    BY DEF Undisturbed
  <2>1. ~HasActiveJob(s)
    BY <1>4, <2>0, SnapshotMoves DEF TurnsInv
  <2>2. CASE row'[s].active = NoJob
    BY <2>2 DEF HasActiveJob, IsActiveJob
  <2>3. CASE row'[s].active = row[s].active
    BY <2>0, <2>1, <2>3, NotRevived
  <2>4. CASE TriggerWrites("timer") /\ trig["timer"].s = s
    <3>1. s \notin DOMAIN trig["timer"].due \/ s = trig["timer"].s
      BY <2>4
    <3>2. ~DueRead
      BY <2>4 DEF TriggerWrites, DueRead
    <3> QED BY <1>4, <2>0, <3>1, <3>2, SnapshotMoves
  <2> QED BY <1>2, <2>0, <2>2, <2>3, <2>4
<1> QED BY <1>1, <1>3, <1>4 DEF TurnsInv

\* A schedule that waits for its jobs triggers the next one only when the last has ended, over
\* early timers, timers that were lost track of and restarts between enqueue() and its UPDATE.
\* (A manual trigger between the query of due schedules and their enqueue() would break this
\* for schedules without a reference; nobody calls triggerNow().)
THEOREM SchedulesTriggerInTurn ==
  ASSUME ~Manual \/ \A s \in Undisturbed : Ref[s] # NoRef
  PROVE  Spec => TriggersInTurn
<1>1. BaseInv /\ TurnsInv /\ [Next]_vars =>
        [\A s \in Schedules \ (Owned \cup Updatable), j \in JobIds :
           (/\ Type[s] \in Awaited /\ trig["manual"] = NoTrig
            /\ phase[j] = "unused" /\ phase'[j] = "waiting" /\ kind'[j].schedule = s)
           => ~IsActiveJob(row[s].active)]_vars
  <2> SUFFICES ASSUME BaseInv, TurnsInv, [Next]_vars, NEW s \in Undisturbed, NEW j \in JobIds,
                      phase[j] = "unused", phase'[j] = "waiting", kind'[j].schedule = s
               PROVE  ~IsActiveJob(row[s].active)
    BY DEF Undisturbed
  <2> USE DEF BaseInv, Shapes
  <2>0. s \in Schedules /\ Foreign \notin Schedules
    BY SchedulesAssumption DEF Undisturbed
  <2>1. PICK a \in Actors : Enqueues(a, s)
    <3>1. ASSUME NEW a \in Actors, NEW u \in Schedules, Enqueues(a, u) PROVE u = s
      <4>1. PICK i \in JobIds : phase' = [phase EXCEPT ![i] = "waiting"] /\ kind' = [kind EXCEPT ![i] = Kind(u, Ref[u])]
        BY <3>1 DEF Enqueues, Queue!Create, Queue!Move
      <4>2. i = j
        BY <4>1 DEF QueueShapes
      <4> QED BY <4>1, <4>2 DEF QueueShapes, Kind
    <3>2. ~ForeignEnqueues
      <4> SUFFICES ASSUME ForeignEnqueues PROVE FALSE
        OBVIOUS
      <4>1. PICK i \in JobIds, r \in ForeignRefs :
              phase' = [phase EXCEPT ![i] = "waiting"] /\ kind' = [kind EXCEPT ![i] = Kind(Foreign, r)]
        BY DEF ForeignEnqueues, Queue!Create, Queue!Move
      <4>2. i = j
        BY <4>1 DEF QueueShapes
      <4> QED BY <2>0, <4>1, <4>2 DEF QueueShapes, Kind
    <3>3. ASSUME NEW i \in JobIds, JobStep(i) \/ Forgets(i) PROVE FALSE
      BY <3>3 DEF JobStep, JobStarts, JobRecovers, JobEnds, Forgets, Queue!Start, Queue!Recover, Queue!End,
                  Queue!Move, QueueShapes
    <3>4. ~ClientCancelsJob
      BY DEF ClientCancelsJob, JobEnds, Queue!End, Queue!Move, QueueShapes
    <3>5. ~NoticeAnnounces /\ ~NoticeDeletes
      BY DEF NoticeAnnounces, NoticeDeletes, Queue!Announce, Queue!Remove, Queue!Move, QueueShapes
    <3> QED BY <3>1, <3>2, <3>3, <3>4, <3>5, Frames DEF JobSteps, jobVars
  <2>2. CASE Ref[s] # NoRef
    <3> SUFFICES ASSUME IsActiveJob(row[s].active) PROVE FALSE
      OBVIOUS
    <3>1. row[s].active \in JobIds /\ kind[row[s].active].schedule = s
      BY <2>0 DEF IsActiveJob, RowShapes, Rows, RefersToOwnJob, JobOf
    <3>2. kind[row[s].active] = Kind(s, Ref[s])
      BY <2>0, <3>1 DEF QueueShapes, Kinds, Kind
    <3> QED BY <2>1, <2>2, <3>1, <3>2 DEF Enqueues, Queue!Create, Queue!Rivals, Queue!IsActive, IsActiveJob, Kind
  <2>3. CASE ~Manual
    <3>1. a = "timer"
      BY <2>1, <2>3 DEF Enqueues, TurnsInv, NoTrig, Actors
    <3>2. trig["timer"].s = Foreign /\ s \in DOMAIN trig["timer"].due
      BY <2>1, <3>1 DEF Enqueues, TrigShapes
    <3> QED BY <2>0, <2>3, <3>2 DEF TurnsInv, HasActiveJob
  <2> QED BY <2>2, <2>3
<1> QED BY <1>1, TurnsInit, TurnsStep, BaseInvariant, PTL DEF Spec, TriggersInTurn


-----------------------------------------------------------------------------
(* No completion is missed *)

\* what a step does to the queue's terminal operation
LEMMA NoticeMoves ==
  ASSUME BaseInv, [Next]_vars
  PROVE  \/ notice' = notice
         \/ \E j \in JobIds, o \in {"next", "last", "failed"} : JobEnds(j, o)
         \/ notice'.job = notice.job /\ (NoticeReads \/ NoticeWrites \/ NoticeAnnounces)
         \/ notice' = NoNotice /\ (NoticeDeletes \/ Restart)
<1> USE DEF BaseInv, Shapes
<1>1. NoticeReads \/ NoticeWrites \/ NoticeAnnounces => notice'.job = notice.job
  BY DEF NoticeReads, NoticeWrites, NoticeAnnounces, NoNotice, NoticeShapes, Notices
<1>2. NoticeDeletes \/ Restart => notice' = NoNotice
  BY DEF NoticeDeletes, Restart
<1>3. ClientCancelsJob => client.job \in JobIds /\ JobEnds(client.job, "failed")
  BY DEF ClientCancelsJob, ClientShapes, Clients
<1>4. ASSUME NEW j \in JobIds, JobStarts(j) \/ JobRecovers(j) PROVE notice' = notice
  BY <1>4 DEF JobStarts, JobRecovers
<1> QED BY <1>1, <1>2, <1>3, <1>4, Frames DEF NoticeSteps, NoticeStep, JobStep

LEMMA JobEndsEffect ==
  ASSUME BaseInv, NEW j \in JobIds, NEW o, JobEnds(j, o)
  PROVE  /\ notice = NoNotice /\ notice'.job = j /\ phase[j] \in {"waiting", "running"}
         /\ notice'.step = (IF j \in subscribed THEN "read" ELSE "announce")
         /\ UNCHANGED <<row, subscribed, startVars, trig>>
         /\ missed' = missed \cup Misses(j)
<1>1. notice' = IF j \in subscribed THEN [NoNotice EXCEPT !.job = j, !.step = "read", !.outcome = o]
                ELSE [NoNotice EXCEPT !.job = j, !.step = "announce"]
  BY DEF JobEnds
<1>2. notice'.job = j /\ notice'.step = (IF j \in subscribed THEN "read" ELSE "announce")
  BY <1>1 DEF NoNotice
<1> QED BY <1>2 DEF JobEnds, Queue!End, Queue!Move

LEMMA QuietStep == BaseInv /\ Quiet /\ [Next]_vars => Quiet'
<1> SUFFICES ASSUME BaseInv, Quiet, [Next]_vars, early' PROVE Quiet'
  BY DEF Quiet
<1> USE DEF BaseInv, Shapes
<1>1. CASE Restart
  BY <1>1, BoundsAssumption DEF Restart, Quiet, NoNotice, TimerShapes
<1>2. CASE ~Restart
  <2>0. early
    <3>1. CASE StartStep
      BY <1>2, <3>1 DEF early, StartStep, StartClears, StartReadsStale, StartResets, StartResetDone, StartReadsWaiting,
                      StartFindsJobGone, StartFindsJob, StartSubscribes, StartArms, StartEnds, Goes
    <3>2. CASE StopEnds
      BY <3>2 DEF early, StopEnds
    <3>3. CASE UNCHANGED startVars
      BY <3>3 DEF early, startVars
    <3> QED BY <1>2, <3>1, <3>2, <3>3, Frames DEF StartSteps
  <2>1. /\ \A a \in Actors : trig[a] = NoTrig
        /\ client = NoClient /\ ~timer /\ strays = 0 /\ ~debounce
        /\ \A c \in Callers : arm[c] = "idle"
        /\ subscribed = {} /\ notice.step \notin {"read", "write", "arm"} /\ starting
    BY <2>0 DEF Quiet, early, starting
  <2>2. trig' = trig
    <3>1. \A a \in Actors : trig[a].step = "idle"
      BY <2>1, NoTrigShape
    <3>2. ASSUME NEW a \in Actors, TriggerStep(a) PROVE FALSE
      BY <3>1, <3>2 DEF TriggerStep, Enqueues, EnqueueRejected, TriggerWrites, TriggerSubscribes, TriggerFails
    <3>3. ~TimerFires /\ ~StrayFires
      BY <2>1 DEF TimerFires, StrayFires
    <3>4. ~DueRead /\ ~TriggerEnds /\ ~TriggerNowEnds
      BY <3>1 DEF DueRead, TriggerEnds, TriggerNowEnds, Actors
    <3>5. \A s \in Schedules : ~TriggerNow(s)
      BY <2>1 DEF TriggerNow, ClientMay
    <3> QED BY <1>2, <3>2, <3>3, <3>4, <3>5, Frames DEF TrigSteps
  <2>3. ~ClientWrites /\ (\A s \in Schedules : ~Registers(s)) /\ ~ReadSteps
    BY <2>1 DEF ClientWrites, Registers, ReadSteps, ReadsToPause, ReadsToResume, ReadsToUpdate, ReadsToEnd, Reads, ClientMay
  <2>4. client' = client
    BY <1>2, <2>3, Frames DEF ClientSteps, ReadSteps
  <2>5. UNCHANGED <<timer, strays, debounce, arm>>
    <3>1. ASSUME NEW c \in Callers, ArmStep(c) PROVE FALSE
      BY <2>1, <3>1 DEF ArmStep, ArmReads, ArmSets
    <3>2. ~DebounceFires /\ ~TimerFires /\ ~StrayFires /\ ~NoticeWrites
      BY <2>1 DEF DebounceFires, TimerFires, StrayFires, NoticeWrites
    <3>3. ~TriggerEnds
      BY <2>1, NoTrigShape DEF TriggerEnds, Actors
    <3>4. ~StartFindsJobGone /\ ~StartArms
      BY <2>0 DEF early, StartFindsJobGone, StartArms
    <3>5. StopBegins \/ StopClears \/ StopEnds => UNCHANGED <<timer, strays, debounce, arm>>
      BY <2>1 DEF StopBegins, StopClears, StopEnds, timerVars, TimerShapes
    <3> QED BY <1>2, <2>3, <3>1, <3>2, <3>3, <3>4, <3>5, Frames DEF TimerSteps, timerVars
  <2>6. subscribed' = {}
    <3>1. ASSUME NEW j, j \in subscribed' PROVE FALSE
      <4>1. ~StartSubscribes
        BY <2>0 DEF early, StartSubscribes
      <4>2. \A a \in Actors : ~TriggerSubscribes(a)
        BY <2>1, NoTrigShape DEF TriggerSubscribes
      <4> QED BY <2>1, <3>1, <4>1, <4>2, SubscribedMoves
    <3> QED BY <3>1
  <2>7. notice'.step \notin {"read", "write", "arm"}
    <3>1. ASSUME NEW j \in JobIds, NEW o, JobEnds(j, o) PROVE notice'.step = "announce"
      BY <2>1, <3>1, JobEndsEffect
    <3>2. NoticeAnnounces => notice'.step = "delete"
      BY DEF NoticeAnnounces, NoticeShapes, Notices
    <3>3. ~NoticeReads /\ ~NoticeWrites
      BY <2>1 DEF NoticeReads, NoticeWrites
    <3>4. NoNotice.step = "none"
      BY DEF NoNotice
    <3> QED BY <2>1, <3>1, <3>2, <3>3, <3>4, NoticeMoves
  <2>8. ASSUME instance' = 1, NEW s \in Schedules, row'[s].active # NoJob PROVE FALSE
    <3>1. instance = 1
      BY <1>2, <2>8, Frames
    <3>2. row[s].active = NoJob
      BY <2>0, <3>1 DEF Quiet
    <3>3. \A a \in Actors : ~TriggerWrites(a)
      BY <2>1, NoTrigShape DEF TriggerWrites
    <3> QED BY <2>8, <3>2, <3>3, RowRefersKept
  <2> QED BY <2>0, <2>2, <2>4, <2>5, <2>6, <2>7, <2>8 DEF Quiet
<1> QED BY <1>1, <1>2

\* a schedule whose end was missed waits for another job, or has been set right
LEMMA MissedBefore ==
  ASSUME BaseInv, [Next]_vars, NEW s \in Schedules, s \notin missed',
         row'[s].active # NoJob \/ Untimed(s)',
         \A a \in Actors : ~(TriggerWrites(a) /\ trig[a].s = s)
  PROVE  s \notin missed
<1> USE DEF BaseInv, Shapes
<1> SUFFICES ASSUME s \in missed PROVE FALSE
  OBVIOUS
<1>0. row[s] \in Rows /\ (~Exists(s) => row[s].active = NoJob) /\ (~Exists(s) => row[s].status # "active")
  BY DEF RowShapes, Exists
<1>1. ASSUME NEW r, Write(s, r), r.active = NoJob, r.status # "active" \/ r.next # "none" \/ Type[s] \notin Interval
      PROVE  FALSE
  <2>1. Untimed(s)' => row'[s].status = "active" /\ row'[s].next = "none" /\ Type[s] \in Interval
    BY DEF Untimed, Interval
  <2>2. CASE Exists(s)
    BY <1>1, <2>1, <2>2 DEF Write, RowShapes
  <2>3. CASE ~Exists(s)
    BY <1>0, <1>1, <2>1, <2>3 DEF Write
  <2> QED BY <2>2, <2>3
<1>2. ~NoticeWrites
  <2> SUFFICES ASSUME NoticeWrites PROVE FALSE
    OBVIOUS
  <2>1. kind[notice.job].schedule = s /\ Write(s, AfterJob(s, notice.outcome, notice.failures))
    BY DEF NoticeWrites
  <2>2. LET r == AfterJob(s, notice.outcome, notice.failures) IN
          r.active = NoJob /\ (r.status # "active" \/ r.next # "none")
    BY <1>0 DEF AfterJob, Rows
  <2> QED BY <1>1, <2>1, <2>2
<1>3. ~StartClears
  BY AbsentIsRow DEF StartClears, Untimed, Absent
<1>4. ~StartResets
  <2> SUFFICES ASSUME StartResets PROVE FALSE
    OBVIOUS
  <2>1. Write(s, [row[s] EXCEPT !.active = NoJob, !.next = IF Type[s] \in Interval THEN "future" ELSE @])
    BY DEF StartResets
  <2> QED BY <1>0, <1>1, <2>1 DEF Rows
<1>5. ~StartFindsJobGone
  <2> SUFFICES ASSUME StartFindsJobGone PROVE FALSE
    OBVIOUS
  <2>1. Write(s, [row[s] EXCEPT !.active = NoJob, !.next = IF Type[s] \in Interval THEN "future" ELSE "due"])
    BY DEF StartFindsJobGone
  <2> QED BY <1>0, <1>1, <2>1 DEF Rows
<1>6. ASSUME NEW a \in Actors, TriggerWrites(a) PROVE FALSE
  BY <1>6 DEF TriggerWrites
<1>7. ASSUME NEW j \in JobIds, JobStep(j) PROVE FALSE
  BY <1>7 DEF JobStep, JobStarts, JobRecovers, JobEnds
<1>8. ~ClientCancelsJob
  BY DEF ClientCancelsJob, JobEnds
<1>9. ~StartReadsWaiting /\ ~StartFindsJob /\ ~Restart
  BY DEF StartReadsWaiting, StartFindsJob, Restart
<1> QED BY <1>2, <1>3, <1>4, <1>5, <1>6, <1>7, <1>8, <1>9, MissedFrame DEF MissedSteps

\* a job that start() has found does not end unless its end is missed
LEMMA FoundStep ==
  ASSUME BaseInv, FoundInTime, [Next]_vars
  PROVE  FoundInTime'
<1> USE DEF BaseInv, Shapes
<1> SUFFICES ASSUME svc' = "subscribe", found' \notin missed', Type[found'] \in Awaited,
                    todo'[found'] = row'[found'].active
             PROVE  notice'.job # todo'[found']
  BY DEF FoundInTime
<1>1. CASE StartFindsJob
  BY <1>1 DEF StartFindsJob, queueVars
<1>2. CASE ~StartFindsJob
  <2>1. svc = "subscribe" /\ UNCHANGED <<todo, found>>
    <3>1. CASE StartStep
      BY <1>2, <3>1 DEF StartStep, StartClears, StartReadsStale, StartResets, StartResetDone, StartReadsWaiting,
                      StartFindsJobGone, StartSubscribes, StartArms, StartEnds, Goes
    <3>2. CASE StopEnds \/ Restart
      BY <3>2 DEF StopEnds, Restart
    <3>3. CASE UNCHANGED startVars
      BY <3>3 DEF startVars
    <3> QED BY <3>1, <3>2, <3>3, Frames DEF StartSteps
  <2>2. PICK s \in Schedules, j \in JobIds : s = found /\ j = todo[found]
    BY <2>1 DEF StartShapes
  <2>3. ASSUME NEW i \in JobIds, NEW o, JobEnds(i, o) PROVE notice'.job # j
    <3>1. row' = row /\ notice'.job = i /\ missed' = missed \cup Misses(i)
      BY <2>3, JobEndsEffect
    <3>2. Owed(j) /\ row[s].active = j
      BY <2>1, <2>2, <3>1 DEF Owed
    <3> QED BY <2>1, <2>2, <3>1, <3>2 DEF Misses
  <2>4. notice' = NoNotice => notice'.job # j
    BY <2>2, Bounds DEF NoNotice
  <2>5. ASSUME notice'.job = notice.job PROVE notice'.job # j
    <3>1. CASE \E a \in Actors : TriggerWrites(a) /\ trig[a].s = s
      <4>1. PICK a \in Actors : TriggerWrites(a) /\ trig[a].s = s
        BY <3>1
      <4>2. trig[a] \in Trigs /\ trig[a].job \in JobIds /\ Exists(s) /\ notice \in Notices
        <5>1. ASSUME ~Exists(s) PROVE FALSE
          BY <2>1, <2>2, <4>1, <5>1, Bounds DEF TriggerWrites, Write, RowShapes
        <5> QED BY <4>1, <5>1 DEF TriggerWrites, TrigShapes, Trigs, NoticeShapes
      <4>3. row'[s] = Triggered(s, trig[a].job)
        BY <4>1, <4>2 DEF TriggerWrites, Write, RowShapes
      <4>4. Type[s] \in Awaited
        BY <2>1, <2>2
      <4>5. row'[s].active = trig[a].job
        BY <4>3, <4>4 DEF Triggered, RowShapes, Rows, Awaited
      <4>6. phase[j] \in {"waiting", "running"}
        BY <2>1, <2>2, <4>1, <4>4, <4>5 DEF TriggerWrites, IsActiveJob
      <4>7. notice.job = j => notice.step \notin {"none", "read", "write", "arm", "announce", "delete"}
        BY <2>2, <4>6, Bounds DEF NoticeShapes
      <4> QED BY <2>5, <4>2, <4>7 DEF Notices
    <3>2. CASE ~\E a \in Actors : TriggerWrites(a) /\ trig[a].s = s
      <4>1. row'[s].active # NoJob
        BY <2>1, <2>2, Bounds
      <4>2. row[s].active = j
        BY <2>1, <2>2, <3>2, <4>1, RowRefersKept
      <4>3. s \notin missed
        BY <2>1, <2>2, <3>2, <4>1, MissedBefore
      <4> QED BY <2>1, <2>2, <2>5, <4>2, <4>3 DEF FoundInTime
    <3> QED BY <3>1, <3>2
  <2> QED BY <2>1, <2>2, <2>3, <2>4, <2>5, NoticeMoves
<1> QED BY <1>1, <1>2


\* the job a row waits for at the start of the process lasts until the service has read the row
LEMMA StaleStep ==
  ASSUME BaseInv, Quiet, StaleAreReset, [Next]_vars
  PROVE  StaleAreReset'
<1> USE DEF BaseInv, Shapes
<1> SUFFICES ASSUME NEW s \in Schedules, s \notin missed', row'[s].active # NoJob,
                    \/ svc' = "reset" /\ s \notin DOMAIN todo'
                    \/ svc' = "waiting"
             PROVE  IsActiveJob(row[s].active)'
  BY DEF StaleAreReset
<1>1. CASE StartReadsStale
  <2>1. row' = row /\ phase' = phase /\ svc' = "reset"
    BY <1>1 DEF StartReadsStale, queueVars, jobVars
  <2>2. s \in DOMAIN todo' \/ IsActiveJob(row[s].active)
    BY <1>1, <2>1 DEF StartReadsStale
  <2> QED BY <2>1, <2>2 DEF IsActiveJob
<1>2. CASE ~StartReadsStale
  <2>1. svc \in {"reset", "waiting"} /\ early /\ ~Restart
    <3>1. CASE StartStep
      BY <1>2, <3>1 DEF early, StartStep, StartClears, StartReadsStale, StartResets, StartResetDone, StartReadsWaiting,
                      StartFindsJobGone, StartFindsJob, StartSubscribes, StartArms, StartEnds, Goes, Restart
    <3>2. ~Restart
      BY DEF Restart
    <3>3. CASE StopEnds \/ UNCHANGED startVars
      BY <3>2, <3>3 DEF early, StopEnds, startVars
    <3> QED BY <3>1, <3>2, <3>3, Frames DEF StartSteps
  <2>2. row'[s].active = row[s].active /\ s \notin missed
    <3>1. \A a \in Actors : ~TriggerWrites(a)
      BY <2>1, NoTrigShape DEF Quiet, TriggerWrites
    <3> QED BY <3>1, RowRefersKept, MissedBefore
  <2>3. IsActiveJob(row[s].active)
    <3>1. CASE svc = "waiting"
      BY <2>2, <3>1 DEF StaleAreReset
    <3>2. ASSUME svc = "reset" PROVE s \notin DOMAIN todo
      <4>1. CASE StartResets
        <5>1. PICK u \in DOMAIN todo :
                \E time : Write(u, [row[u] EXCEPT !.active = NoJob, !.next = time]) /\ todo' = Without(u)
          BY <4>1 DEF StartResets
        <5>2. s # u
          <6>1. ASSUME s = u PROVE FALSE
            <7>1. Exists(s)
              BY <2>2 DEF RowShapes
            <7>2. PICK time : Write(s, [row[s] EXCEPT !.active = NoJob, !.next = time])
              BY <5>1, <6>1
            <7>3. row'[s].active = NoJob
              BY <7>1, <7>2 DEF Write, RowShapes, Rows
            <7> QED BY <7>3
          <6> QED BY <6>1
        <5>3. svc' = "reset"
          BY <4>1, <3>2 DEF StartResets
        <5> QED BY <5>1, <5>2, <5>3 DEF Without
      <4>2. CASE StartResetDone
        BY <4>2, NoDueShapes DEF StartResetDone
      <4>3. CASE StopEnds \/ UNCHANGED startVars
        BY <3>2, <4>3 DEF StopEnds, startVars
      <4>4. CASE StartStep /\ ~StartResets /\ ~StartResetDone
        BY <3>2, <4>4 DEF StartStep, StartClears, StartReadsStale, StartReadsWaiting, StartFindsJobGone, StartFindsJob,
                        StartSubscribes, StartArms, StartEnds
      <4> QED BY <2>1, <4>1, <4>2, <4>3, <4>4, Frames DEF StartSteps
    <3> QED BY <2>1, <2>2, <3>1, <3>2 DEF StaleAreReset
  <2>4. PICK j \in JobIds : j = row[s].active
    BY <2>2 DEF RowShapes, Rows
  <2>5. ~Ends(j)
    <3>1. Sought(j)
      BY <2>1, <2>4 DEF Sought, early
    <3> QED BY <2>4, <3>1, JobEndsEffect DEF Ends, Misses
  <2>6. phase'[j] \in {"waiting", "running"}
    BY <2>3, <2>4, <2>5, JobMoves DEF IsActiveJob, Created, Proceeds, Leaves, Forgets, Forgotten
  <2> QED BY <2>2, <2>4, <2>6 DEF IsActiveJob
<1> QED BY <1>1, <1>2

\* a row that keeps its job waited for it before
LEMMA WaitedBefore ==
  ASSUME BaseInv, [Next]_vars, ~Restart, NEW s \in Schedules, Waits(s)', row'[s].active = row[s].active,
         \A a \in Actors : ~(TriggerWrites(a) /\ trig[a].s = s)
  PROVE  Waits(s)
<1> USE DEF BaseInv, Shapes
<1>0. row[s] \in Rows /\ row[s].active # NoJob /\ Type[s] \in Awaited
  BY DEF RowShapes, Waits
<1>1. CASE client'.op \in {"pause", "resume"} /\ client'.s = s
  <2>1. CASE client' = client
    BY <1>0, <1>1, <2>1 DEF Waits
  <2>2. CASE client' # client
    <3>1. ~ClientWrites
      BY <1>1 DEF ClientWrites, NoClient
    <3>2. ASSUME NEW u \in Schedules,
                 ReadsToPause(u) \/ ReadsToResume(u) \/ ReadsToUpdate(u) \/ ReadsToEnd(u)
          PROVE  row[s].status \in {"active", "paused"}
      BY <1>1, <3>2 DEF ReadsToPause, ReadsToResume, ReadsToUpdate, ReadsToEnd, Reads
    <3> QED BY <1>0, <2>2, <3>1, <3>2, Frames DEF ClientSteps, Waits
  <2> QED BY <2>1, <2>2
<1>2. CASE row'[s].status \in {"active", "paused"}
  <2>1. CASE FailsTo(s)
    BY <1>0, <1>2, <2>1 DEF FailsTo, Rows, Waits
  <2>2. ~LosesJob(s)
    BY <1>0 DEF LosesJob, Rows
  <2>3. ASSUME NEW o, NEW n, row'[s] = AfterJob(s, o, n) PROVE FALSE
    BY <1>0, <2>3 DEF AfterJob, Rows
  <2>4. CASE row'[s] = [row[s] EXCEPT !.active = NoJob] \/ row'[s] = [row[s] EXCEPT !.next = "due"] \/ row'[s] = row[s]
    BY <1>0, <1>2, <2>4 DEF Rows, Waits
  <2>5. row'[s] # Absent
    BY <1>0, AbsentIsRow
  <2>6. CASE client.s = s /\ ClientSets(s)
    <3>1. CASE client.op \in {"pause", "resume"}
      BY <1>0, <2>6, <3>1 DEF Waits
    <3>2. CASE client.op \notin {"pause", "resume"}
      BY <1>0, <1>2, <2>6, <3>2, AbsentIsRow DEF ClientSets, Rows, Waits
    <3> QED BY <3>1, <3>2
  <2>7. ~Registers(s)
    BY <1>0, AbsentIsRow DEF Registers
  <2> QED BY <2>1, <2>2, <2>3, <2>4, <2>5, <2>6, <2>7, RowMoves DEF RowMove
<1> QED BY <1>1, <1>2 DEF Waits


\* a trigger gives up its job when it has subscribed to it, or when nobody waits for it
LEMMA TrigJobKept ==
  ASSUME BaseInv, [Next]_vars, NEW a \in Actors, trig[a].job # NoJob, ~Restart
  PROVE  \/ trig'[a].job = trig[a].job
         \/ TriggerSubscribes(a)
         \/ TriggerWrites(a) /\ Type[trig[a].s] \notin Awaited
<1> USE DEF BaseInv, Shapes
<1>0. trig \in [Actors -> Trigs] /\ trig[a].step \in {"update", "subscribe"}
  BY DEF TrigShapes
<1>1. ASSUME NEW b \in Actors, NEW t, SetTrig(b, t), b # a PROVE trig'[a] = trig[a]
  BY <1>0, <1>1 DEF SetTrig
<1>2. ASSUME NEW b \in Actors, NEW s \in Schedules, Enqueues(b, s) \/ EnqueueRejected(b, s) PROVE trig'[a] = trig[a]
  <2>1. b # a
    BY <1>0, <1>2 DEF Enqueues, EnqueueRejected
  <2>2. \E t : SetTrig(b, t)
    BY <1>2 DEF Enqueues, EnqueueRejected
  <2> QED BY <1>1, <2>1, <2>2
<1>3. ASSUME NEW b \in Actors, TriggerWrites(b)
      PROVE trig'[a].job = trig[a].job \/ (TriggerWrites(a) /\ Type[trig[a].s] \notin Awaited)
  <2>1. \E t : SetTrig(b, t)
    BY <1>3 DEF TriggerWrites
  <2>2. CASE a # b
    BY <1>1, <2>1, <2>2
  <2>3. CASE a = b /\ Type[trig[a].s] \in Awaited
    <3>1. trig'[a] = [trig[a] EXCEPT !.step = "subscribe"]
      BY <1>0, <1>3, <2>3 DEF TriggerWrites, SetTrig
    <3> QED BY <1>0, <3>1 DEF Trigs
  <2> QED BY <1>3, <2>2, <2>3
<1>4. ASSUME NEW b \in Actors, TriggerSubscribes(b) PROVE trig'[a] = trig[a] \/ TriggerSubscribes(a)
  BY <1>1, <1>4 DEF TriggerSubscribes
<1>5. ASSUME NEW b \in Actors, TriggerFails(b) PROVE trig'[a] = trig[a]
  <2>1. b # a
    BY <1>0, <1>5 DEF TriggerFails
  <2> QED BY <1>1, <1>5, <2>1 DEF TriggerFails
<1>6. ASSUME TimerFires \/ StrayFires PROVE trig'[a] = trig[a]
  <2>1. CASE isProcessing
    BY <1>6, <2>1 DEF TimerFires, StrayFires, TriggerBegins
  <2>2. CASE ~isProcessing
    <3>1. a # "timer"
      BY <1>0, <2>2 DEF isProcessing
    <3> QED BY <1>1, <1>6, <2>2, <3>1 DEF TimerFires, StrayFires, TriggerBegins, Actors
  <2> QED BY <2>1, <2>2
<1>7. ASSUME DueRead \/ TriggerEnds PROVE trig'[a] = trig[a]
  <2>1. a # "timer" /\ "timer" \in Actors
    BY <1>0, <1>7 DEF DueRead, TriggerEnds, Actors
  <2>2. \E t : SetTrig("timer", t)
    BY <1>7 DEF DueRead, TriggerEnds
  <2> QED BY <1>1, <2>1, <2>2
<1>8. ASSUME TriggerNowEnds PROVE trig'[a] = trig[a]
  BY <1>0, <1>1, <1>8 DEF TriggerNowEnds, Actors
<1>9. ASSUME NEW s \in Schedules, TriggerNow(s) PROVE trig'[a] = trig[a]
  <2>1. a # "manual" /\ "manual" \in Actors
    BY <1>0, <1>9, NoTrigShape DEF TriggerNow, Actors
  <2>2. \E t : SetTrig("manual", t)
    BY <1>9 DEF TriggerNow
  <2> QED BY <1>1, <2>1, <2>2
<1>10. CASE trig' = trig
  BY <1>10
<1> QED BY <1>2, <1>3, <1>4, <1>5, <1>6, <1>7, <1>8, <1>9, <1>10, Frames DEF TrigSteps, TriggerStep

\* start() subscribes to the jobs it has read, as long as the row waits for them
LEMMA UnseenKept ==
  ASSUME BaseInv, [Next]_vars, ~Restart, NEW s \in Schedules, Unseen(s),
         row[s].active # NoJob, row'[s].active = row[s].active
  PROVE  Unseen(s)' \/ (StartSubscribes /\ todo[found] = row[s].active)
<1> USE DEF BaseInv, Shapes
<1>0. svc \in {"resub", "subscribe"} /\ s \in DOMAIN todo /\ todo[s] = row[s].active
  BY DEF Unseen
<1>1. CASE StartFindsJobGone
  <2>1. PICK u \in DOMAIN todo :
          \E time : Write(u, [row[u] EXCEPT !.active = NoJob, !.next = time]) /\ todo' = Without(u)
    BY <1>1 DEF StartFindsJobGone
  <2>2. ASSUME s = u PROVE FALSE
    <3>1. Exists(s)
      BY DEF RowShapes
    <3>2. PICK time : Write(s, [row[s] EXCEPT !.active = NoJob, !.next = time])
      BY <2>1, <2>2
    <3>3. row'[s].active = NoJob
      BY <3>1, <3>2 DEF Write, RowShapes, Rows
    <3> QED BY <3>3
  <2>3. s \in DOMAIN todo' /\ todo'[s] = todo[s]
    BY <1>0, <2>1, <2>2 DEF Without
  <2> QED BY <1>0, <1>1, <2>3 DEF Unseen, StartFindsJobGone
<1>2. CASE StartSubscribes
  <2>1. CASE found = s
    BY <1>0, <1>2, <2>1
  <2>2. CASE found # s
    BY <1>0, <1>2, <2>2 DEF StartSubscribes, Without, Unseen
  <2> QED BY <2>1, <2>2
<1>3. CASE StartFindsJob
  BY <1>0, <1>3 DEF StartFindsJob, Unseen
<1>4. ~StartArms
  BY <1>0, NoDueShapes DEF StartArms
<1>5. ~StartClears /\ ~StartReadsStale /\ ~StartResets /\ ~StartResetDone /\ ~StartReadsWaiting /\ ~StartEnds
  BY <1>0 DEF StartClears, StartReadsStale, StartResets, StartResetDone, StartReadsWaiting, StartEnds
<1>6. CASE StopEnds \/ UNCHANGED startVars
  BY <1>0, <1>6 DEF StopEnds, startVars, Unseen
<1> QED BY <1>1, <1>2, <1>3, <1>4, <1>5, <1>6, Frames DEF StartSteps, StartStep

\* a subscription lasts until its job's completion has been announced
LEMMA SubscriptionKept ==
  ASSUME BaseInv, [Next]_vars, ~Restart, NEW j \in subscribed, phase[j] \in {"waiting", "running"}
  PROVE  j \in subscribed'
<1> USE DEF BaseInv, Shapes
<1>1. ASSUME NoticeAnnounces PROVE notice.job # j
  BY <1>1 DEF NoticeAnnounces, Queue!Announce, Queue!Move
<1>2. ASSUME NEW i \in JobIds, Forgets(i) PROVE i # j
  BY <1>2 DEF Forgets, Forgotten
<1>3. TriggerSubscribes("timer") \/ TriggerSubscribes("manual") \/ StartSubscribes => j \in subscribed'
  BY DEF TriggerSubscribes, StartSubscribes
<1>4. NoticeAnnounces => subscribed' = subscribed \ {notice.job}
  BY DEF NoticeAnnounces
<1>5. \A i \in JobIds : Forgets(i) => subscribed' = subscribed \ {i}
  BY DEF Forgets
<1> QED BY <1>1, <1>2, <1>3, <1>4, <1>5, Frames DEF SubscribedSteps, Actors

\* what the service owes it keeps owing until it has subscribed
LEMMA OwedKept ==
  ASSUME BaseInv, [Next]_vars, ~Restart, NEW s \in Schedules, Type[s] \in Awaited,
         NEW j \in JobIds, row[s].active = j, Owed(j)
  PROVE  Owed(j)' \/ j \in subscribed'
<1> USE DEF BaseInv, Shapes
<1>0. j # NoJob
  BY Bounds
<1>1. ASSUME NEW a \in Actors, trig[a].job = j
      PROVE  trig'[a].job = j \/ j \in subscribed'
  <2>1. trig[a].s = s
    BY <1>0, <1>1 DEF RefersToOwnJob, JobOf
  <2> QED BY <1>0, <1>1, <2>1, TrigJobKept DEF TriggerSubscribes
<1>2. ASSUME svc = "subscribe", todo[found] = j
      PROVE  \/ svc' = "subscribe" /\ todo'[found'] = j
             \/ j \in subscribed'
  <2>1. CASE StartStep
    BY <1>2, <2>1 DEF StartStep, StartClears, StartReadsStale, StartResets, StartResetDone, StartReadsWaiting,
                    StartFindsJobGone, StartFindsJob, StartSubscribes, StartArms, StartEnds
  <2>2. CASE StopEnds \/ UNCHANGED startVars
    BY <1>2, <2>2 DEF StopEnds, startVars
  <2> QED BY <2>1, <2>2, Frames DEF StartSteps
<1> QED BY <1>1, <1>2 DEF Owed

\* start() finds every schedule that waits for a job, or its end is missed
LEMMA StartWatches ==
  ASSUME BaseInv, StaleAreReset, StartReadsWaiting, NEW s \in Schedules, s \notin missed',
         row[s].status \in {"active", "paused"}, row[s].active # NoJob
  PROVE  IsWatched(s)'
<1>1. row' = row /\ phase' = phase /\ svc' = "resub" /\ svc = "waiting"
  BY DEF StartReadsWaiting, queueVars, jobVars
<1>2. row[s].status = "active" /\ s \notin missed
  BY DEF StartReadsWaiting
<1>3. IsActiveJob(row[s].active)
  BY <1>1, <1>2 DEF StaleAreReset
<1>4. s \in DOMAIN todo' /\ todo'[s] = row[s].active
  BY <1>2 DEF StartReadsWaiting
<1> QED BY <1>1, <1>3, <1>4 DEF IsWatched, Unseen, IsActiveJob

\* a trigger that has written its job into the row is about to subscribe to it
LEMMA TriggerWatches ==
  ASSUME BaseInv, NEW s \in Schedules, Type[s] \in Awaited, s \notin missed', row'[s].active # NoJob,
         NEW a \in Actors, TriggerWrites(a), trig[a].s = s
  PROVE  IsWatched(s)'
<1> USE DEF BaseInv, Shapes
<1>1. trig[a] \in Trigs /\ trig[a].job \in JobIds /\ phase' = phase
  BY DEF TriggerWrites, TrigShapes, Trigs, queueVars, jobVars
<1>2. row'[s].active = trig[a].job
  <2>1. Exists(s)
    <3>1. ASSUME ~Exists(s) PROVE row' = row
      BY <3>1 DEF TriggerWrites, Write
    <3> QED BY <3>1 DEF RowShapes
  <2> QED BY <2>1 DEF TriggerWrites, Write, Triggered, RowShapes, Rows, Awaited
<1>3. trig'[a].job = trig[a].job
  <2>1. trig'[a] = [trig[a] EXCEPT !.step = "subscribe"]
    BY DEF TriggerWrites, SetTrig, TrigShapes
  <2> QED BY <1>1, <2>1 DEF Trigs
<1>4. IsActiveJob(trig[a].job)
  BY DEF TriggerWrites
<1> QED BY <1>1, <1>2, <1>3, <1>4 DEF IsWatched, Owed, IsActiveJob

\* a job is watched as long as it stays in the row
LEMMA WatchKept ==
  ASSUME BaseInv, FoundInTime, [Next]_vars, ~Restart, NEW s \in Schedules, Type[s] \in Awaited,
         s \notin missed, s \notin missed', row'[s].active # NoJob, row'[s].active = row[s].active, IsWatched(s)
  PROVE  IsWatched(s)'
<1> USE DEF BaseInv, Shapes
<1>1. PICK j \in JobIds : j = row[s].active
  BY DEF RowShapes, Rows
<1>2. j # NoJob /\ JobOf(j, s) /\ Exists(s)
  BY <1>1 DEF RefersToOwnJob, RowShapes
<1>3. Unseen(s) => Unseen(s)' \/ (StartSubscribes /\ todo[found] = j)
  BY <1>1, UnseenKept
<1>4. ASSUME phase[j] \in {"waiting", "running"}, j \in subscribed \/ Owed(j) \/ Unseen(s) PROVE IsWatched(s)'
  <2>1. CASE Ends(j)
    <3>1. /\ notice'.job = j /\ UNCHANGED <<row, subscribed, startVars>> /\ ~Owed(j)
          /\ notice'.step = (IF j \in subscribed THEN "read" ELSE "announce")
      BY <1>1, <2>1, JobEndsEffect DEF Ends, Misses
    <3>2. j \in subscribed \/ Unseen(s)'
      BY <1>4, <3>1 DEF Unseen, startVars
    <3> QED BY <1>1, <3>1, <3>2 DEF IsWatched
  <2>2. CASE ~Ends(j)
    <3>1. phase'[j] \in {"waiting", "running"}
      BY <1>4, <2>2, JobMoves DEF Created, Proceeds, Leaves, Forgets, Forgotten
    <3>2. j \in subscribed => j \in subscribed'
      BY <1>4, SubscriptionKept
    <3>3. Owed(j) => Owed(j)' \/ j \in subscribed'
      BY <1>1, OwedKept
    <3>4. StartSubscribes /\ todo[found] = j => j \in subscribed'
      BY DEF StartSubscribes
    <3> QED BY <1>1, <1>2, <1>3, <1>4, <3>1, <3>2, <3>3, <3>4 DEF IsWatched, IsActiveJob
  <2> QED BY <2>1, <2>2
<1>5. ASSUME notice.job = j, notice.step \in {"read", "write"} \/ Unseen(s) PROVE IsWatched(s)'
  <2>1. ~NoticeWrites
    <3>1. ASSUME NoticeWrites PROVE FALSE
      <4>1. kind[notice.job].schedule = s /\ notice.failures \in 0..MaxFailures
        BY <1>2, <1>5 DEF JobOf, NoticeShapes, Notices
      <4>2. row'[s] = AfterJob(s, notice.outcome, notice.failures)
        <5>1. Write(s, AfterJob(s, notice.outcome, notice.failures))
          BY <3>1, <4>1 DEF NoticeWrites
        <5> QED BY <1>2, <5>1 DEF Write, RowShapes
      <4> QED BY <1>2, <4>1, <4>2, AfterJobShape
    <3> QED BY <3>1
  <2>2. ~NoticeDeletes
    BY <1>1, <1>5 DEF NoticeDeletes, RowShapes, Rows
  <2>3. notice # NoNotice
    BY <1>2, <1>5 DEF NoNotice
  <2>4. notice'.job = j /\ (notice' = notice \/ NoticeReads \/ NoticeAnnounces)
    BY <1>5, <2>1, <2>2, <2>3, JobEndsEffect, NoticeMoves
  <2>5. CASE Unseen(s)
    <3>1. ~(StartSubscribes /\ todo[found] = j)
      <4> SUFFICES ASSUME StartSubscribes, todo[found] = j PROVE FALSE
        OBVIOUS
      <4>1. found = s
        BY <1>2 DEF StartSubscribes, StartShapes, RefersToOwnJob, JobOf
      <4> QED BY <1>1, <1>5, <2>3, <2>5, <4>1 DEF StartSubscribes, FoundInTime, Unseen
    <3> QED BY <1>1, <1>3, <2>4, <2>5, <3>1 DEF IsWatched
  <2>6. CASE notice.step \in {"read", "write"}
    <3>1. ~NoticeAnnounces
      BY <2>6 DEF NoticeAnnounces
    <3>2. NoticeReads => notice'.step = "write"
      <4>1. kind[notice.job].schedule = s
        BY <1>2, <1>5 DEF JobOf
      <4>2. notice \in Notices
        BY DEF NoticeShapes
      <4>3. NoticeReads => notice' = [notice EXCEPT !.step = "write", !.failures = row[s].failures]
        BY <1>1, <1>2, <1>5, <4>1 DEF NoticeReads
      <4> QED BY <4>2, <4>3 DEF Notices
    <3> QED BY <1>1, <2>4, <2>6, <3>1, <3>2 DEF IsWatched
  <2> QED BY <1>5, <2>5, <2>6
<1> QED BY <1>1, <1>4, <1>5 DEF IsWatched, IsActiveJob

LEMMA WatchedStep ==
  ASSUME BaseInv, WatchInv, [Next]_vars
  PROVE  Watched'
<1> SUFFICES ASSUME ~early', svc' \notin {"halted", "stopped"}, NEW s \in Schedules, s \notin missed', Waits(s)'
             PROVE  IsWatched(s)'
  BY DEF Watched
<1> USE DEF BaseInv, Shapes
<1>0. ~Restart /\ Type[s] \in Awaited /\ row'[s].active # NoJob
  BY DEF early, Restart, Waits
<1>1. CASE StartReadsWaiting
  <2>1. row' = row /\ client' = client /\ early
    BY <1>1 DEF StartReadsWaiting, early
  <2>2. row[s].status \in {"active", "paused"}
    BY <2>1 DEF Waits, WatchInv, Quiet, NoClient
  <2> QED BY <1>0, <1>1, <2>1, <2>2, StartWatches DEF WatchInv
<1>2. CASE \E a \in Actors : TriggerWrites(a) /\ trig[a].s = s
  BY <1>0, <1>2, TriggerWatches
<1>3. CASE ~StartReadsWaiting /\ ~\E a \in Actors : TriggerWrites(a) /\ trig[a].s = s
  <2>1. ~early /\ svc \notin {"halted", "stopped"}
    <3>1. CASE StartStep
      BY <1>3, <3>1 DEF early, StartStep, StartClears, StartReadsStale, StartResets, StartResetDone, StartReadsWaiting,
                      StartFindsJobGone, StartFindsJob, StartSubscribes, StartArms, StartEnds, Goes
    <3>2. CASE StopEnds
      BY <3>2 DEF StopEnds, early
    <3>3. CASE UNCHANGED startVars
      BY <3>3 DEF startVars, early
    <3> QED BY <1>0, <3>1, <3>2, <3>3, Frames DEF StartSteps
  <2>2. row'[s].active = row[s].active /\ s \notin missed
    BY <1>0, <1>3, RowRefersKept, MissedBefore
  <2>3. IsWatched(s)
    BY <1>0, <1>3, <2>1, <2>2, WaitedBefore DEF WatchInv, Watched
  <2> QED BY <1>0, <2>2, <2>3, WatchKept DEF WatchInv
<1> QED BY <1>1, <1>2, <1>3

LEMMA WatchInit == Init => WatchInv
<1> SUFFICES ASSUME Init PROVE WatchInv
  OBVIOUS
<1>1. Quiet
  BY AbsentIsRow DEF Init, Quiet, NoNotice
<1>2. StaleAreReset /\ FoundInTime /\ Watched
  BY DEF Init, StaleAreReset, FoundInTime, Watched, early
<1> QED BY <1>1, <1>2 DEF WatchInv

LEMMA WatchInvariant == Spec => [](BaseInv /\ WatchInv)
<1>1. BaseInv /\ WatchInv /\ [Next]_vars => WatchInv'
  BY QuietStep, StaleStep, FoundStep, WatchedStep DEF WatchInv
<1> QED BY <1>1, WatchInit, BaseInit, BaseStep, PTL DEF Spec

\* A running service sees the end of every job that an active schedule waits for, over any number
\* of triggers, pauses, crashes and restarts.  The ends it does not see are named in Misses and in
\* the steps that add to missed: those that come before the subscription (scheduling_service.ts:1036),
\* or before start() has looked (main.ts:455), and the schedules that a restart finds paused.
THEOREM WaitingSchedulesAreSubscribed == Spec => []WaitingIsSubscribed
<1>1. WatchInv => WaitingIsSubscribed
  <2> SUFFICES ASSUME WatchInv, NEW s \in Schedules, s \notin missed, svc = "running", Waits(s)
               PROVE  CompletionIsSeen(s)
    BY DEF WaitingIsSubscribed, CompletionIsSeen, Waits
  <2>1. IsWatched(s) /\ ~Unseen(s)
    BY DEF WatchInv, Watched, early, Unseen
  <2> QED BY <2>1 DEF IsWatched, CompletionIsSeen
<1> QED BY <1>1, WatchInvariant, PTL

-----------------------------------------------------------------------------
(* Interval schedules keep a run time *)

\* the job that start() has read is gone, and with it the row's reference; start() has yet to see it
LostItsJob(s) ==
  /\ svc \in {"resub", "subscribe"} /\ s \in DOMAIN todo /\ phase[todo[s]] = "gone"
  /\ row[s].active = NoJob /\ (svc = "subscribe" => found # s)

\* The job in hand is one whose completion will be handled.  Before start() has looked, and after
\* a start() that was told to stop, it is one whose completion has not begun.
InHand(s) ==
  \/ LostItsJob(s)
  \/ /\ row[s].active # NoJob
     /\ IF early THEN notice.job # row[s].active
        ELSE IsWatched(s) \/ (svc = "halted" /\ notice.job # row[s].active)

TimesInv == \A s \in Schedules \ missed : Untimed(s) => InHand(s)

\* a schedule gets into this state by a trigger, or it loses its job there
LEMMA UntimedBefore ==
  ASSUME BaseInv, [Next]_vars, NEW s \in Schedules, Untimed(s)',
         \A a \in Actors : ~(TriggerWrites(a) /\ trig[a].s = s)
  PROVE  /\ Untimed(s)
         /\ \/ row'[s].active = row[s].active
            \/ NoticeDeletes /\ row[s].active = notice.job /\ row'[s].active = NoJob
<1> USE DEF BaseInv, Shapes
<1>0. row[s] \in Rows /\ Type[s] = "sequential_interval" /\ row'[s].status = "active" /\ row'[s].next = "none"
  BY DEF RowShapes, Untimed
<1>1. CASE row'[s] = row[s]
  BY <1>0, <1>1 DEF Untimed
<1>2. CASE FailsTo(s)
  BY <1>0, <1>2 DEF FailsTo, Rows, Untimed
<1>3. ASSUME NEW o, NEW n, row'[s] = AfterJob(s, o, n) PROVE FALSE
  BY <1>0, <1>3 DEF AfterJob, Rows
<1>4. CASE NoticeDeletes /\ row[s].active = notice.job /\ row'[s] = [row[s] EXCEPT !.active = NoJob]
  BY <1>0, <1>4 DEF Rows, Untimed
<1>5. ~LosesJob(s)
  BY <1>0 DEF LosesJob, Rows, Interval
<1>6. row'[s] # Absent /\ row'[s] # [row[s] EXCEPT !.next = "due"]
  BY <1>0 DEF Absent, Rows
<1>7. ~(client.s = s /\ ClientSets(s))
  BY <1>0 DEF ClientSets, Rows, Deleted, Absent, ClientShapes
<1>8. \A time \in {"future", "due"} : row'[s] # [Absent EXCEPT !.status = "active", !.next = time]
  BY <1>0 DEF Absent
<1> QED BY <1>1, <1>2, <1>3, <1>4, <1>5, <1>6, <1>7, <1>8, RowMoves DEF RowMove

\* start() comes to see that the job is gone, if nothing else gives the schedule a job before
LEMMA LostJobStep ==
  ASSUME BaseInv, [Next]_vars, ~Restart, NEW s \in Schedules, LostItsJob(s), Untimed(s)',
         row'[s].active = NoJob
  PROVE  LostItsJob(s)'
<1> USE DEF BaseInv, Shapes
<1>0. /\ svc \in {"resub", "subscribe"} /\ s \in DOMAIN todo /\ phase[todo[s]] = "gone"
      /\ todo[s] \in JobIds /\ (svc = "subscribe" => found # s)
  BY DEF LostItsJob, StartShapes
<1>1. phase'[todo[s]] = "gone"
  BY <1>0, JobMoves, ReferredJobs DEF Created, Proceeds, Ends, Leaves
<1>2. CASE StartFindsJobGone
  <2>1. PICK u \in DOMAIN todo : \E time \in {"future", "due"} :
          /\ Type[u] \in Interval => time = "future"
          /\ Write(u, [row[u] EXCEPT !.active = NoJob, !.next = time]) /\ todo' = Without(u)
    BY <1>2 DEF StartFindsJobGone
  <2>2. ASSUME s = u PROVE FALSE
    <3>1. PICK time \in {"future", "due"} : Write(s, [row[s] EXCEPT !.active = NoJob, !.next = time])
      BY <2>1, <2>2
    <3>2. Exists(s)
      BY <3>1 DEF Write, Untimed, Exists
    <3>3. row'[s].next = time
      BY <3>1, <3>2 DEF Write, RowShapes, Rows
    <3> QED BY <3>3 DEF Untimed
  <2>3. s \in DOMAIN todo' /\ todo'[s] = todo[s]
    BY <1>0, <2>1, <2>2 DEF Without
  <2> QED BY <1>0, <1>1, <1>2, <2>3 DEF LostItsJob, StartFindsJobGone
<1>3. CASE StartSubscribes
  BY <1>0, <1>1, <1>3 DEF StartSubscribes, Without, LostItsJob
<1>4. CASE StartFindsJob
  BY <1>0, <1>1, <1>4 DEF StartFindsJob, LostItsJob
<1>5. ~StartArms
  BY <1>0, NoDueShapes DEF StartArms
<1>6. ~StartClears /\ ~StartReadsStale /\ ~StartResets /\ ~StartResetDone /\ ~StartReadsWaiting /\ ~StartEnds
  BY <1>0 DEF StartClears, StartReadsStale, StartResets, StartResetDone, StartReadsWaiting, StartEnds
<1>7. CASE StopEnds \/ UNCHANGED startVars
  BY <1>0, <1>1, <1>7 DEF StopEnds, startVars, LostItsJob
<1> QED BY <1>2, <1>3, <1>4, <1>5, <1>6, <1>7, Frames DEF StartSteps, StartStep

\* a watched job is not deleted behind the schedule's back, unless start() has still to look for it
LEMMA DeletedUnseen ==
  ASSUME BaseInv, FoundInTime, NEW s \in Schedules, Type[s] \in Awaited, s \notin missed,
         row[s].active # NoJob, IsWatched(s), NoticeDeletes, row[s].active = notice.job, row'[s].active = NoJob
  PROVE  LostItsJob(s)'
<1> USE DEF BaseInv, Shapes
<1>1. PICK j \in JobIds : j = row[s].active
  BY DEF RowShapes, Rows
<1>2. notice.job = j /\ notice.step = "delete" /\ phase[j] = "announced" /\ phase'[j] = "gone" /\ UNCHANGED startVars
  BY <1>1 DEF NoticeDeletes, Queue!Remove, Queue!Move, NoticeShapes, QueueShapes
<1>3. Unseen(s)
  BY <1>1, <1>2 DEF IsWatched, IsActiveJob
<1>4. svc = "subscribe" => found # s
  BY <1>1, <1>2, <1>3 DEF FoundInTime, Unseen
<1> QED BY <1>1, <1>2, <1>3, <1>4 DEF LostItsJob, Unseen, startVars

LEMMA TimesStep ==
  ASSUME BaseInv, WatchInv, TimesInv, [Next]_vars
  PROVE  TimesInv'
<1> SUFFICES ASSUME NEW s \in Schedules, s \notin missed', Untimed(s)' PROVE InHand(s)'
  BY DEF TimesInv
<1> USE DEF BaseInv, Shapes
<1>0. Type[s] \in Awaited
  BY DEF Untimed, Awaited
<1>a. ASSUME NEW j \in JobIds, NEW o, JobEnds(j, o), row[s].active = j, Sought(j) \/ svc = "halted"
      PROVE  FALSE
  BY <1>a, JobEndsEffect DEF Misses
<1>1. CASE Restart
  <2>1. row' = row /\ notice'.job = NoJob /\ early' /\ missed' = missed \cup {u \in DOMAIN todo : row[u].active = NoJob}
    BY <1>1 DEF Restart, NoNotice, early
  <2>2. InHand(s) /\ ~LostItsJob(s)
    BY <2>1 DEF TimesInv, Untimed, LostItsJob
  <2> QED BY <2>1, <2>2 DEF InHand
<1>2. ASSUME ~Restart, NEW a \in Actors, TriggerWrites(a), trig[a].s = s PROVE InHand(s)'
  <2>1. trig[a] # NoTrig /\ svc' = svc
    BY <1>2, NoTrigShape DEF TriggerWrites, startVars
  <2>2. ~early'
    BY <2>1 DEF WatchInv, Quiet, early
  <2>3. row'[s].active # NoJob
    <3>1. Exists(s)
      BY <1>2 DEF TriggerWrites, Write, Untimed, Exists
    <3>2. row'[s] = Triggered(s, trig[a].job) /\ trig[a].job # NoJob
      BY <1>2, <3>1 DEF TriggerWrites, Write, RowShapes, TrigShapes
    <3> QED BY <1>0, <3>2 DEF Triggered, RowShapes, Rows, Awaited
  <2> QED BY <1>0, <1>2, <2>2, <2>3, TriggerWatches DEF InHand
<1>3. CASE ~Restart /\ \A a \in Actors : ~(TriggerWrites(a) /\ trig[a].s = s)
  <2>0. s \notin missed
    BY <1>3, MissedBefore
  <2>1. /\ Untimed(s) /\ InHand(s)
        /\ \/ row'[s].active = row[s].active
           \/ NoticeDeletes /\ row[s].active = notice.job /\ row'[s].active = NoJob
    BY <1>3, <2>0, UntimedBefore DEF TimesInv
  <2>a. ASSUME row[s].active # NoJob, notice.job # row[s].active, early \/ svc = "halted"
        PROVE  row'[s].active = row[s].active /\ notice'.job # row[s].active
    <3>1. ASSUME NEW j \in JobIds, NEW o, JobEnds(j, o) PROVE notice'.job # row[s].active
      <4>1. notice'.job = j
        BY <3>1, JobEndsEffect
      <4>2. row[s].active = j => Sought(j) \/ svc = "halted"
        BY <2>a DEF Sought, early
      <4> QED BY <1>a, <3>1, <4>1, <4>2
    <3>2. NoNotice.job = NoJob
      BY DEF NoNotice
    <3> QED BY <2>1, <2>a, <3>1, <3>2, NoticeMoves
  <2>2. CASE StartReadsWaiting
    <3>1. row' = row /\ early /\ ~early' /\ ~LostItsJob(s)
      BY <2>2 DEF StartReadsWaiting, early, LostItsJob
    <3> QED BY <2>1, <2>2, <3>1, StartWatches DEF WatchInv, InHand, Untimed
  <2>3. CASE early /\ ~StartReadsWaiting
    <3>1. early' \/ svc' = "halted"
      <4>1. CASE StartStep
        BY <2>3, <4>1 DEF early, StartStep, StartClears, StartReadsStale, StartResets, StartResetDone, StartFindsJobGone,
                        StartFindsJob, StartSubscribes, StartArms, StartEnds, Goes
      <4>2. CASE StopEnds \/ UNCHANGED startVars
        BY <2>3, <4>2 DEF early, StopEnds, startVars
      <4> QED BY <1>3, <4>1, <4>2, Frames DEF StartSteps
    <3>2. row[s].active # NoJob /\ notice.job # row[s].active
      BY <2>1, <2>3 DEF InHand, LostItsJob, early
    <3> QED BY <2>3, <2>a, <3>1, <3>2 DEF InHand
  <2>4. CASE ~early
    <3>1. ~early' /\ (svc = "halted" => svc' = "halted")
      <4>1. CASE StartStep
        BY <2>4, <4>1 DEF early, StartStep, StartClears, StartReadsStale, StartResets, StartResetDone, StartReadsWaiting,
                        StartFindsJobGone, StartFindsJob, StartSubscribes, StartArms, StartEnds, Goes
      <4>2. CASE StopEnds \/ UNCHANGED startVars
        BY <2>4, <4>2 DEF early, StopEnds, startVars
      <4> QED BY <1>3, <4>1, <4>2, Frames DEF StartSteps
    <3>2. CASE LostItsJob(s)
      <4>1. row'[s].active = NoJob
        BY <2>1, <3>2 DEF LostItsJob
      <4> QED BY <1>3, <3>1, <3>2, <4>1, LostJobStep DEF InHand
    <3>3. CASE row[s].active # NoJob /\ IsWatched(s)
      <4>1. CASE row'[s].active = row[s].active
        BY <1>0, <1>3, <2>0, <3>1, <3>3, <4>1, WatchKept DEF WatchInv, InHand
      <4>2. CASE NoticeDeletes /\ row[s].active = notice.job /\ row'[s].active = NoJob
        BY <1>0, <2>0, <3>1, <3>3, <4>2, DeletedUnseen DEF WatchInv, InHand
      <4> QED BY <2>1, <4>1, <4>2
    <3>4. CASE row[s].active # NoJob /\ svc = "halted" /\ notice.job # row[s].active
      BY <2>a, <3>1, <3>4 DEF InHand
    <3> QED BY <2>1, <2>4, <3>2, <3>3, <3>4 DEF InHand
  <2> QED BY <2>2, <2>3, <2>4
<1> QED BY <1>1, <1>2, <1>3

\* An active interval schedule of a running service has a run time or a job whose end it will see,
\* over any number of crashes, stops and restarts, unless the end of its job was missed in one of
\* the ways that Misses and the steps that add to missed name: IsWatched keeps every other way to
\* lose the job covered.
THEOREM IntervalSchedulesHaveNextRun == Spec => []IntervalHasNextRun
<1>1. Init => TimesInv
  BY DEF Init, TimesInv, Untimed, Absent
<1>2. BaseInv /\ WatchInv /\ TimesInv /\ [Next]_vars => TimesInv'
  BY TimesStep
<1>3. BaseInv /\ ArmedInv /\ TimesInv => IntervalHasNextRun
  <2> SUFFICES ASSUME BaseInv, ArmedInv, TimesInv, NEW s \in Schedules \ missed, svc = "running", Type[s] \in Interval,
                      row[s].status = "active", row[s].active = NoJob, row[s].next = "none"
               PROVE  FALSE
    BY DEF IntervalHasNextRun
  <2>1. Type[s] = "sequential_interval"
    BY DEF ArmedInv, ConcurrentHasTime, Interval
  <2>2. InHand(s)
    BY <2>1 DEF TimesInv, Untimed
  <2> QED BY <2>2 DEF InHand, LostItsJob, early
<1>4. Spec => [](BaseInv /\ ArmedInv)
  BY BaseInit, BaseStep, ArmedInit, ArmedStep, PTL DEF Spec
<1> QED BY <1>1, <1>2, <1>3, <1>4, WatchInvariant, PTL DEF Spec
=============================================================================
