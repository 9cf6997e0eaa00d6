# TLA+ models of Crude Functions

Crude Functions is a single Deno process that serves user-written HTTP functions,
with SurrealDB beside it as a child process. Most request handling is a pipeline of
single queries. What is hard is in the background: a persistent job queue with one
processor, schedules that feed it, the rotation of encryption keys under live
traffic, the supervision of the database process, and buffers that are flushed by
timers. All of it runs on one event loop, so interleaving happens at `await`s only,
but it happens at every one of them, and the process may die at each.

These modules model the job system, the schedules and the key rotation in full, and the
other services that keep state, one by one and side by side in one process. The safety of
all of them is proved for every size: each invariant, action property and refinement of a
passing run has a theorem. What the code does not guarantee is not assumed: the properties name it as their
exceptions, kept in history variables that say when the code has got there. Line numbers
refer to the repository at the commit beside these files; `PROJECT.json` maps every definition to its lines.

## Inventory

| component | state it keeps | operations | what is hard | correct means |
|---|---|---|---|---|
| job queue (`jobs/job_queue_service.ts`) | rows of `job`, write mutex, completion and cancellation subscribers | enqueue, claim, complete, fail, cancel one/many, orphans, reset | three-step terminal operations under a mutex that reads ignore; crashes between the steps | one active sequential job per reference; each job announced once, then deleted; bounded retries |
| job processor (`jobs/job_processor_service.ts`) | loop flag, wake-up flag, stop flag, failure counter, timer, token of the current job | start with recovery, loop, wake-up, tick, stop | promise chains of start, timer and wake-up in any order; errors inside the error path | no job lost or left running; cancellation reaches the handler; pending jobs are served |
| event bus (`events/event_bus.ts`) | subscriber lists | subscribe, publish | synchronous callbacks inside other services' steps | as part of the processor |
| scheduling (`scheduling/scheduling_service.ts`) | rows of `schedule`, timer, flags | register, trigger, completion handling, stale reset, cancel, stop | enqueue-then-subscribe race, recovery, check-await-set of the timer | an active schedule always triggers again; never two jobs of one sequential schedule |
| key rotation (`encryption/key_rotation_service.ts`) | isRotating, stopRequested, progress inside one call | scheduled check, manual trigger | long multi-batch migration beside writers, resumable after a crash | no stored value is lost, overwritten or left unreadable; a rotation ends |
| versioned encryption, key storage | key file; keys, cached CryptoKeys, rotation lock | encrypt, decrypt, updateKeys; load, save | keys changing under operations in flight | a ciphertext always opens under the key its letter names |
| secrets, API keys and groups | rows, encrypted value columns, write mutexes | create, update, delete by API and page, hierarchical lookup | encrypt and write are two steps; counts and checks outside the mutex; lookups in several queries | what is deleted takes its secrets along; the most specific value is found |
| settings | rows of `setting`, configuration read once | bootstrap, batch save with schedules, page save | schedules are changed after the mutex is released | a schedule runs at the interval the settings show |
| code sources (`sources/`) | rows of `codeSource`, schedules and jobs per source | create, update, delete, manual/webhook/scheduled sync | check-then-enqueue, delete during sync, status left by a crash | one sync per source; status agrees with jobs |
| database supervision (`database/surreal_supervisor.ts`, health monitor, process manager) | status, restart attempts, process handle, failure counter | start, stop, restart, health check, exit | late exits of an old process, failing restarts, stop during restart | the database is brought back, never two of it |
| connection pool | connections, reference counts, idle timers, mutex per key | withConnection, idle close, closeAll | late closes, names reused | a connection in use is never closed; none leaks |
| console logs | write buffer, flush timer | store, flush, shutdown | flush beside store, failing inserts | each line stored once |
| metrics | raw and aggregated rows, markers | minute/hour/day aggregation, cleanup | crash between insert and marker, late rows | each execution counted once per level |
| function routes and router | route rows, dirty flag, built router; module cache | write, rebuild, load | rebuild beside writes; mtime cache | a request sees the last completed write |
| migrations | `schemaVersion`, error state | migrate at startup | lost answers, a version that cannot be read, crashes | each migration once, in order |
| users, auth, CSRF, files, rendering, validation, isolators | little or none | single queries, pure functions, I/O | - | covered well by unit tests; not modelled |

Interaction: schedules and code sources enqueue jobs and subscribe to their
completion; the queue publishes on the event bus, which wakes the processor up; the
processor's handlers run key rotation, syncs, trimming and aggregation; every
service reaches the database through the connection factory, whose process the
supervisor owns. Web pages and API routes call the same services, but not always with
the same checks, so their handlers are actions of their own. `PROJECT.json` lists the hazards of all of these at their lines.

## Modules

| module | models |
|---|---|
| `JobQueue` | the table `job` and the writes of `JobQueueService` |
| `JobProcessor` | extends it with `JobProcessorService`, clients, failing database calls and crashes: the system |
| `JobLifecycle` | abstract: what enqueuers and subscribers are promised of a job |
| `MCJobProcessor` | instances for TLC |
| `JobProcessorProofs` | types of queue and processor; the inductive invariant of recovery and what follows from it; the loop's claims, wake-ups and cancellations; queue and processor implement `JobLifecycle` |
| `KeyRotation` | key rotation, versioned encryption, key file and the services that write encrypted rows |
| `ValueStore` | abstract: what the owners of encrypted values promise, as if there were no keys |
| `MCKeyRotation` | instances for TLC |
| `KeyRotationProofs` | types, what the rotation has passed, that no value is lost; the rotation implements `ValueStore` |
| `Scheduling` | `SchedulingService` over a queue that keeps the promises of `JobLifecycle` |
| `MCScheduling` | its instances: one schedule and one kind of disturbance in a behaviour |
| `SchedulingProofs` | types, the next timer, triggers in turn, completions that are seen, run times that are kept |
| `ConnectionPool` | `SurrealConnectionPool` for one key |
| `DatabaseSupervision` | supervisor, health monitor, process manager and the database processes |
| `Startup` | `migrate()` against the events of `schemaVersion`, over releases and crashes |
| `DatabaseProofs` | theorems about these three |
| `CodeSources` | git sources, their schedules, jobs and directory |
| `FunctionRoutes` | `FunctionsService`, the lazy rebuild of the router, `HandlerLoader` |
| `FunctionsProofs` | theorems about these two |
| `ConsoleLogs` | buffer, flush, retry, trimming, pagination |
| `MetricsAggregation` | recording, retention, the three aggregation passes, charts |
| `ExecutionRecordsProofs` | theorems about these two |
| `KeysAndSecrets` | API key groups, keys, secrets and the hierarchical lookup |
| `SettingsStore` | settings and the schedules that follow them |
| `ConfigurationProofs` | theorems about these two |
| `Services` | the nine service modules as one process that interleaves their steps |
| `ServicesProofs` | what is proved of each of them holds of that process |
| `MCServices` | an instance of `Services`, one service in a behaviour |

### Jobs

One step runs from one `await` to the next. `pc` says where
`processLoop()`/`processJob()` is, `boot` where the promise chain of `start()` is,
`mutex` which operation holds `writeMutex` and how far it has got. A terminal
operation is three steps under the mutex: UPDATE (`Settle`), the subscribers and the
event (`Announce`), DELETE (`DeleteRow`). The duplicate query and the CREATE of
`enqueue()` share one hold of the mutex, so they are one step; `getNextPendingJob()`
does not take it, so a fetched job may be gone when it is claimed.
`EventBus.publish()` calls `requestWakeup()` synchronously: `Wakeup` is part of the
step that publishes. The loop's failure is passed to whoever launched it
(`launcher`): the timer counts it, a wake-up counts it, the chain of `start()` ends.

`Restart` is the death of the process at any point and the start of the next: rows
stay, everything in memory is new. `notified` and `runs` are history, read by
properties (and by the refinement mapping) only.

Abstractions: a job's payload, result and reasons are left out; a failing write is
one that was not applied; subscribers and the event of a completion are one step;
`cancelJobs()` filters by reference, not by type; the handler may return, fail or,
when its token is cancelled, abort, at any time. The terminal row that a crash or a
failing DELETE leaves behind stays, as in the code. `main.ts` gives the queue no
`encryptionService`; `PayloadEncryption` is the other setting.

### Key rotation

A ciphertext is (key, version letter, plaintext) and opens only where its letter
stands for its key. `file` is the key file, replaced in one rename; `memory` is what
`VersionedEncryptionService` was given, `cache` its imported `currentKey`. `pc[c]` is
where a call `c` of the rotation is: "load" after the isRotating check, "save" and
"swap" in `startNewRotation()`, "enter" before each table, "lock" and "rows" in
`reencryptTable()`, "complete" and "drop" at the end. The rotation lock is held from
`FetchBatch` to `BatchEnds`; `batch` holds the rows as they were read and `touched`
those that have been written since, which is what the comparison of `updatedAt`
finds out.

`encrypt()` and `decrypt()` take the lock but return their promise without awaiting
it, so the lock is free again at once. The model therefore lets an encryption take
its steps - import of the key, AES-GCM, reading the version letter, the query - in
between everything else, also a change of the keys.

Five things break the promise that no value is lost. The model takes all of their steps,
history variables record which values they reach, and the properties except those values
(`Lost`) or that time (`CacheStale`) and no others:

| what the code does | exception | shown by |
|---|---|---|
| two calls pass the check of `isRotating` (`key_rotation_service.ts:164`) | `overlapped`, from then on | run `two_rotations` |
| `encryptUnlocked()` reads the version letter after its await, so that a ciphertext may have the letter of another key | the (row, key) in `mixed` | run `encryption_outlives_lock` |
| an import that ends after `updateKeys()` replaces the cached key | `CacheStale`, until the next change of keys | run `rotation_interrupted` |
| a cancellation ends a table as if it were clean (`:346`); a write that had its ciphertext is stored after the scan of its table | the (row, key) in `leftBehind` | run `rotation_interrupted` |
| tokens and webhook secrets of code sources are in a table the rotation does not visit (`git_code_source_provider.ts:185`, `code_source_service.ts:1033`) | `TableOf[r]` outside `ENCRYPTED_TABLES` | without the disjunct `ReadsLastWrite` fails after one rotation |

`SlowOperations`, `CancelRotation` and `Rotators` are bounds: run `rotation` sets the first
two to `FALSE` to afford more rows and writes under fairness, `rotation_interrupted` sets
them to `TRUE`.

`ValueStore` is what callers of `SecretsService` and `ApiKeyService` may rely on: a value
per row, changed by whole writes and deletions under the `writeMutex` of its table, and
nothing else. `KeyRotation` maps to it in two ways. `ReadStore` takes as value what a
reader is given, that is what the ciphertext opens to with the keys in memory;
`PlainStore` takes the plaintext that is behind the ciphertext, readable or not. Every
step of the rotation must be a stutter under both.

`better_auth_secret` and `hash_key` ride along in the file and are left out, as is
the reading side beyond the import that a decryption may start. Plaintexts are two
model values; a row's other columns do not matter.

### Scheduling

`row` is the table, with `next` "none", "future" or "due"; `phase`, `kind` and
`recoveries` are the jobs as `JobLifecycle` has them. `arm[c]` is where a call of
`scheduleNextTrigger()` by `c` is: it clears the timer, awaits the query, sets the
timer; several may overlap. `trig[a]` is where a trigger is between reading the row,
`enqueue()`, the UPDATE of the row and the subscription. `notice` is the terminal
operation of the queue while it runs the completion handler, under the queue's mutex:
read the schedule, write it, announce, delete the row (which clears `activeJobId`).
`svc` and `todo` follow `start()`: clearing transient schedules, resetting stale jobs,
resubscribing, setting the timer. A client reads a row in one step and writes it in a
later one (`client`). Timers may fire early, as `setTimeout()` does for long delays; a
timer that overlapping calls have lost track of is counted in `strays`.

A job can end where nobody handles it: between its `enqueue()` and the subscription, before
`start()` has looked for it (the processor is started first), while `start()` resubscribes,
when the service has been stopped, or with its schedule paused over a restart, which
`resubscribeToActiveJobs()` (`scheduling_service.ts:1151`) does not read. `missed` is the
history of this: the schedules whose job's end came, or will come, unheard (`Misses`), until
a trigger, a completion handler or `start()` writes their row again. Nothing is assumed of how
long jobs take, and no run but `schedule_forgotten` and `failures_forgotten` bounds it.

### Services

The nine modules share no variables, and `Services` composes them: a step of the process
is a step of one service. What they share in the program is the database, where each has
tables of its own, and the event loop. Each says in its header what it abstracts. The
correspondence in short:

* `ConnectionPool`: `conn[c]` is a `CachedConnection` (state, reference count, timer)
  and who is closing it; `entry` and `mutex` are the maps by key. The mutex ends before
  the callback, since the promise is returned and not awaited.
* `DatabaseSupervision`: `child` are processes that boot, serve, hang, exit or are
  dead (exit seen); `handle` is `this.process`. Two `track`s, the main one (start, stop)
  and the restarts, use the process manager and overlap. Timing assumption: the cooldown
  is shorter than the checks that make the status unhealthy again, which holds for the
  defaults (5 s against several checks of 5 s).
* `Startup`: `history` is what was applied, `files` what the release ships.
* `CodeSources`: `row`, `schedule`, `syncJob` per source; `dir` is the content of the
  directory (empty, partial, the whole of a source at certain settings), `writer` the
  operation under the mutex, `sync` where `syncSource()` is; `resync` the triggers that
  the page or the API makes after its write. All sources have one name, hence one
  directory: the successor of a deleted source meets what a late sync left there.
* `FunctionRoutes`: `rebuildMutex` is shared by writes and rebuilds; `writes` counts the
  commits and those that were answered; `router.built` is the commit the router has
  seen; `handlerCache` is (time, code). Assumption: two writes of a file have different
  modification times, and import URLs are distinct.
* `ConsoleLogs`: `captured` has the (timestamp, sequence) of each entry as one number, the
  order of pages and trimming (`Place`); the sequence starts anew in each batch and the clock
  may be set back, so entries of two batches can tie. `executionLog` holds records: the entry
  and the attempt that wrote it, so that a retry after a partly inserted batch makes second
  records. `flushing.locked` is `writeMutex`, which is free between the two attempts; the event
  that deletes a function's logs knows of no mutex.
* `MetricsAggregation`: `metric[k][t]` is the set of the executions that the record of
  level `k` at `t` stands for (the code keeps their number, from which a double count could
  not be told); `doubled` are those that the sum over the records at that place counts more than
  once, after a window was stored a second time, and `torn` those that a run had stored when it
  broke off before the marker. `run` is where
  `performAggregation()` is, from `cleanupOldMetrics()` to `cleanupProcessedRecords()`.
  The queries of one chart are one step.
* `KeysAndSecrets`: `keyWriter` is the operation under the mutex of `ApiKeyService`,
  `groupDeletions` the requests that have counted the keys of a group outside of it,
  `secretRequest` a request between the check of the owner and its write, `lookup` the
  queries of one hierarchical lookup. The group `management`, which cannot be deleted,
  is no member of `Groups`.
* `SettingsStore`: `setting`, `interval` (of the schedule) and `config` (read once);
  `save[r]` is a request of the API or the page. `apart` names the settings whose
  schedule may differ: what a page saved, a failed batch or update, two requests at once.

## Runs

| run | question | bounds |
|---|---|---|
| `job_safety` | are exclusion, retries, wake-ups, cancellation and announcements right, and is the lifecycle implemented? | 2 jobs of 3 kinds (sequential with a reference and one retry; urgent without; unhandled), 3 processes |
| `job_faults` | are pending jobs served when a database call fails? | 2 jobs with one retry, 2 processes, 1 failing call, encrypted payloads; fairness |
| `cancel_then_crash` | does a cancelled running job end? (no) | 1 job, 2 processes; fairness |
| `rotation` | is the rotation invisible to readers and writers, and does it end? | 2 secrets and 1 API key in batches of 2, 2 rotations, 2 letters (the second rotation wraps), 3 writes, 1 failure or crash; fairness |
| `rotation_interrupted` | is anything lost but what `Lost` names, with slow operations and cancellation? are plaintexts left alone even so? | 1 secret and 1 API key in batches of 1, 2 rotations, 2 writes, 2 failures or crashes; symmetry of the plaintexts, which the code never compares |
| `encryption_outlives_lock`, `two_rotations` | two statements of the code's comments (both refuted) | 2 rows, 1 write |
| `schedules` | does an active schedule always trigger again, in turn, with nothing missed? | 2 jobs at a time, 2 processes; 9 scenarios of a schedule (sync, trimming, rotation) with a disturbance (crash, stop, foreign job, pause, cancel or delete, manual trigger, update; the pause also over a restart); fairness |
| `schedule_forgotten` | does an active schedule always have a job or a run time? (no: its job ends before `start()` has looked for it) | 1 schedule; `Prompt` |
| `failures_forgotten` | does a schedule all of whose jobs fail reach status `error`? (no) | 1 schedule; `Prompt`; fairness |
| `services` | do the nine services keep their promises? | below |
| `database_stays_down` | is a database process that exits restarted? (no) | 2 processes, 1 attempt; fairness |

Two jobs are enough for exclusion and for the order of the queue, since every rule
relates at most two rows; three processes let a job be recovered, recovered again
and given up. Two rows of one table and a batch of two give a batch in which one row
changes while another is re-encrypted, and a third row in the next table makes the
order of tables matter. The bounds are constants: `MaxJobs`, `MaxInstances`,
`MaxDbErrors`, `MaxConsecutiveFailures` (5 in the code), `MaxKeys`, `NumVersions` (26
in the code), `MaxWrites`, `MaxFaults`, and those that the modules mark as bounds. Every run has `CHECK_DEADLOCK FALSE`:
a stopped processor with an empty queue, or a process with all bounds used up,
rightly does nothing.

Run `services` begins each behaviour with one service and one kind of disturbance
(`Scenarios`), so that the state spaces add up instead of multiplying; `Within` says what
each scenario leaves out. The instances: 2 users and 3 connections; 4 processes and 2
restarts; 3 migrations; 2 sources in succession, or one whose settings change and whose
marks fail; 2 requests and 2 functions that contend for one path, with 2 writes of the
table, or one of the table and 2 of the file; batches of 2 log entries, 4 with one timestamp
and a shutdown, or 3 with two timestamps beside a client with pages of 1; windows of 1, 2 and
4 minutes over minutes 0 to 5 with 2 executions and records that expire after 4, or over
minutes 0 to 4 with one execution and a run that breaks off; a group, a key and a value with secrets in all four scopes, with deletions of the
group or with a lookup; 2 settings saved by 2 requests, or by one with a crash. Two of
each rival are enough because every rule relates two; what can be reused or outlived
(connections, processes, sources) has one more than can be live at a time.

What the properties say:

* `SequentialExclusive`, `HandlerStartsBounded`: see the theorems below.
* `RunningIsCurrent`: no row is left running under a live owner - there orphan
  recovery would not look. It holds while no database call fails.
* `NoLostWakeup`: an idle loop has left nothing it was woken for.
* `CancellationReachesHandler`: no accepted cancellation misses the token (payloads
  not encrypted, as in the app; with encryption there is a gap after the claim).
* `CancelledNeverClaimed`: a job marked for cancellation is never started (again),
  neither between its selection and its claim nor after a crash.
* `ImplementsLifecycle`: subscribers see `JobLifecycle`, each completion once.
* `PendingServed`: leads-to; halted means stopped, start failed, or the timer cleared.
* `ReadsLastWrite`: what is stored is the last write and, unless `Lost`, opens in memory and
  with the file; `PendingReadable`: so does every ciphertext still to be stored.
* `TablesBehindClean`: nothing under the old key in, or on its way into, a table that
  the rotation has passed, but what is in `leftBehind`. `LossOnlyAtCompletion`: readability
  is lost, if at all, in the two steps that discard the old key (or by overlapping calls, or
  a stale import).
* `ReadersSeeStore`, `PlaintextsSurvive`: refinements. What readers are given, or what is
  encrypted, changes by the services' own writes only, at no point of a rotation.
* `RotationEnds`: leads-to.
* `NextTriggerArmed`: while there is a run time, there is a timer or somebody setting one.
* `WaitingIsSubscribed`: no schedule waits for a completion nobody will report, unless it is
  in `missed`.
* `IntervalHasNextRun`: no active interval schedule is left with neither a job nor a run
  time, unless it is in `missed`. (Of a dynamic schedule this is refuted: the stale reset
  gives it none.)
* `TriggersInTurn`: an undisturbed schedule's jobs do not overlap.
* `ActiveScheduleTriggers`: leads-to, over one restart: the schedule triggers, or is in
  `missed`.
* `IdleCloseSparesUsers`, `UnusedConnectionHasCloser`: no connection is closed under its
  user, none leaks, also when a newer one has its name.
* `DeadProcessNoticed`: `isRunning` never stays true for a process whose exit was seen.
* `MigrationsOnceInOrder`, over crashes and versions that could not be read.
* `GateHasJob`: `lastSyncStartedAt`, which turns triggers away, is set only while a job
  will clear it, or one ended without marking its end (`unmarked`: the UPDATE of
  `markSyncFailed()` failed, or a second crash). `SyncedMeansWhole`: "synced" means that the
  directory has that source's content at its settings. `ScheduleHasSource`: no schedule
  outlives its source, but those whose best-effort deletion failed (`kept`).
* `RequestSeesWrites`: a request is dispatched by a router with every write that had been
  answered when it came. `HandlerIsCurrent`: the handler that runs is not older than the
  file was when its time was read.
* `LogsKept`, `BufferedIsScheduled`, `PagesAreWhole`: no entry is lost but those the
  retry gives up or somebody deletes; a flush is coming for all but the entries that were
  there when a flush was refused; following the cursor shows each stable record once and in
  order, but those that tie with one that was shown.
* `ExecutionsCounted`, `ChartCountsOnce`: each execution is in one record that is still to
  be read, or `missed` for a named reason; no chart or summary counts one twice but those
  that a run had stored when it broke off before its marker (`torn`).
* `SpecificSecretWins`, `KeysHaveGroups`, `OrphansCameLate`: the lookup finds the most
  specific of the values that were there all the time; no key outlives its group; a
  secret without owner was created after the owner had gone.
* `IntervalsFollow`: schedules run at the interval shown, except where `apart` says why not.

### Fairness

`JobProcessor!Fairness`: the promise chains of loop, start, mutex holder and stop go
on, the interval timer ticks, and a handler ends. The last is an assumption on
handlers; the code does not limit their time. Clients, crashes and failing calls are
not fair. `LoopStep`, `BootStep` and `QueueStep` are disjunctions of which one at a
time is enabled, so weak fairness of the disjunction is enough.

`KeyRotation!Fairness`: a rotation, a write and a decryption that have begun go on,
and the check is called again. The last is what the schedule does: a dynamic schedule
is triggered again when its job has completed, and one minute after it has failed
(`handleJobFailure`; the failure count that would stop it is reset by each trigger).
After a crash it is the job queue that repeats the check: the job is an orphan and
is reset, once. A failure followed by a crash before the schedule is updated would
stop the schedule; therefore run `rotation` allows one failure or crash, not both.

`Scheduling!Fairness`: live timers fire, the promise chains go on, jobs are processed and
time passes. A trigger gets strong fairness: it competes with the other operations of the
queue for a mutex that is first come, first served, so it cannot be overtaken for ever,
while weak fairness would allow that because the mutex is taken in between. Clients,
foreign jobs, `stop()` and crashes owe nothing.

`DatabaseSupervision!SupervisionFairness`: checks and cooldowns come, processes boot and
exits are delivered. The other service modules state safety only: their only liveness is
that a timer fires, or that a request gets a first-come mutex.

## Proofs

Everything here holds for all values of the constants that satisfy the named `ASSUME`s of
the modules: bounds that are natural numbers, finite sets of callers, letters and tables
that exist, names that are not also the value for "none". A hypothesis beyond those is
written in the theorem. Each invariant was checked by TLC on small instances before it was
proved; the proofs have one step per action and treat apart what most actions leave alone.
The type invariants of jobs and scheduling, and the conjuncts that only make an invariant
inductive (`RecoverySafe`, for instance), are in no run any more: the theorems say more.

### Jobs

`TypeCorrect`, `RecoveryIsSafe`, `SequentialJobsExclusive`, `HandlerStartsAreBounded`,
`NoRowIsAbandoned`, `MarkedJobsStayUnclaimed`, `WakeupsAreNotLost`, `LifecycleImplemented`
have no hypothesis: they hold over failing calls and crashes (`RunningIsCurrent` itself speaks of
the time before the first failing call).

Exclusion could be broken by `ResetRow`, which does not look at the row's status: it must
be known that an orphan still is running when it is reset. A handler's start could be
counted wrongly if the loop could claim a row twice. The invariant is

    IInv == TypeOK /\ LoopHoldsMutex /\ RecoverySafe

where `RecoverySafe` has the two claims and what they need: the loop runs for
`start()` only after recovery (`BootOwnsLoop`), recovery holds the mutex only while
it fails an orphan (`BootHoldsMutex`), listed orphans stay running
(`OrphansStayRunning`) because the loop never works on one of them
(`LoopAvoidsOrphans`), a settled row is terminal (`SettledIsTerminal`), and a pending
job has been started no more often than it was recovered (`StartsCounted`).
`LoopHoldsMutex` ties the mutex to `pc`.

On top of it, `ClaimInv` says that what `processJob()` read stays true until it acts on it,
`WakeupInv` that what was enqueued after the read that found nothing has set the flag, and
`NotifiedInv` that only ended jobs are announced and only announced ones deleted. With the
last, each step of queue and processor is a step of `JobLifecycle` or a stutter
(`LifecycleStep`). A failing DELETE makes a second announcement such a stutter;
`JobsAreAnnouncedOnce` (hypothesis `MaxDbErrors = 0`) says that there is none otherwise.
`CancellationsReachHandlers` needs `~PayloadEncryption`: with encryption there is a gap
between the claim and the subscription of the token.

### Key rotation

No theorem has a hypothesis: any number of callers, operations as slow as they like,
cancellations, crashes, failing calls, resumption, reused letters and rows outside the
tables are covered, and what they can lose is in the properties as `Lost` and `CacheStale`,
the table above. The argument: as long as no two calls have overlapped, file, memory and the
rotation's own copy of the keys agree except from `saveKeys()` to `updateKeys()`
(`KeysAgree`), and the two letters of a rotation differ (`LettersDiffer`); no value and no
pending write of a table the rotation has passed has the old letter, unless it is in
`leftBehind` (`TablesInv`), so that nothing else needs the old key when it is dropped, nor
once a rotation is complete (`CompletedIsClean`). `ValuesKept` says of every ciphertext,
stored or pending, that it opens with the keys in memory unless it is `Lost`; `KeysAgree`
carries that over to the file.

The refinements split the promise in two. `PlaintextsSurviveRotation` has no hypothesis at
all: whoever cancels, calls twice or outlives the lock, a row of the batch that has not been
`touched` still is what was read (`BatchIsFresh`), so that what the rotation writes back is
the plaintext that is there. `RotationIsInvisible`: each value that is not an exception opens to
its plaintext in every state (`ReadsLastWrite`), so the two mappings agree
(`ReadersSeePlaintexts`), and the first theorem carries over; what `ReadValues` takes as
given is what `Lost` and `CacheStale` name.

### Scheduling

* `TypeCorrect`, from the shape of the state and `RefersToOwnJob`: whoever names a job -
  row, `start()`, trigger, subscription - names one that was created for the same schedule,
  since ids in use are not given out again.
* `NextTriggersAreArmed`, no hypothesis. The strengthening is small: it must hold from the
  moment `start()` sets its timer, and a concurrent schedule always has a run time, so that
  a manual trigger creates none that nobody has armed.
* `SchedulesTriggerInTurn`: a schedule with a run time has no active job, nor has one that a
  run has still to handle; both follow each other through every write. Manual triggers
  (nobody in `src/` calls `triggerNow()`) would break it between the query of due schedules and
  the `enqueue()` of one; the hypothesis is that there are none, or that the schedules have
  references, in which case `enqueue()` refuses the second job.
* `WaitingSchedulesAreSubscribed`: while the service runs, it will see the end of every job
  that a schedule waits for, over any restarts and pauses, unless the schedule is in `missed`.
  `Quiet` says that before `start()` has looked, nothing else goes on; `StaleAreReset` that it
  leaves no row with an ended job; `FoundInTime` and `Watched` follow a job from creation
  through the UPDATE to the subscription, or from the read in `resubscribeToActiveJobs()` to
  it. Each step of that way at which the job may end adds the schedule to `missed`; the proof
  shows that there are no others.
* `IntervalSchedulesHaveNextRun`: `Untimed` is the state in which only a job in hand will give
  the schedule a run time. `InHand` says what must be true of that job: before `start()` has
  looked, that its completion is not being handled by a queue without subscribers; later,
  that it is watched as above, whoever owns the schedule, since a resumed schedule has a run
  time; or, while `start()` resubscribes, that the job it has read is gone and `start()` is on
  its way to it (`LostItsJob`), which a crash takes into `missed`. Crashes, pauses, updates,
  cancellations, manual triggers and stops need no hypothesis; a schedule that they leave
  without a run time is in `missed`.

### Services

No hypotheses beyond the named `ASSUME`s, and a theorem on types for each module.

`Services`: `ServicesTypeCorrect` and `ServicesKeepPromises` say of the process that
interleaves all nine what the theorems below say of each. A step of it is a step of every
service or leaves it alone (`StepsProject`), so a behaviour of the process is a behaviour of
each service.

`ConnectionPool`: the reference count of a connection is the number of its callers
(`CountsAreRight`), and its state tells who closes it (`StatesAgree`); hence
`IdleCloseIsSafe` and `UnusedConnectionsAreClosed`.

`DatabaseSupervision`: `DeadProcessNoticed` is inductive beside the types; those need that a
restart that is scheduled is one of the attempts left, and that the count of failures stops at
its threshold.

`Startup`: a version that the events do not reject is higher than all before it
(`HistoryGrows`), so that nothing has to be known of what `migrate()` thought was pending.

`FunctionRoutes`: the flag is dirty whenever the router misses an answered write, and a
rebuild fetches under the mutex what writers write under it; hence `RoutesAreCurrent`. A load
stores a module under the time it has read before the import; hence `HandlersAreCurrent`.

`CodeSources`: sources share a directory, and a sync outlives the deletion of its source. The
invariant says that there is one live source of the name and what the holder of the mutex works
on (`WriterInv`), that the loop works on a running job (`SyncInv`), and what a sync finds when
it ends (`ContentInv`): while it runs, no other source shows a completed sync, and unless its own
source is being deleted, the directory is in the state that its step expects. A source that shows
a completed sync then has its content or a sync to come (`SyncedInv`).

`KeysAndSecrets`: whoever has the mutex looks at the group again (`KeysKeepTheirGroups`),
deletions take along what is there (`OnlyLateSecretsAreOrphans`), and the lookup passes each
scope once, in order (`LookupsAreSpecific`).

`SettingsStore`: a PUT that was alone from its begin has written what it has passed (`PutInv`);
a second request takes that away from all of them at once (`AloneInv`); so at its end the
intervals of its settings follow, and the others followed before (`FollowInv`).

`ConsoleLogs`: what is left of a batch belongs to a flush in flight (`BufferInv`), and what a
client has still to see is before its cursor or ties with what it has seen (`PagerInv`). The
pages need facts of cardinality for every set and limit: with a record, the first n have those
that are newer, and a set of at most n records has no others.

`MetricsAggregation`: an execution waits in a record that no marker has passed and that is not in
the window just read, is in the sum of that window, or is missed (`PresentInv`); what was read
stays in the window unless it came late (`ReadInv`). Both are inductive over breaks, because a
run that breaks off leaves the window before its marker. Without breaks an execution waits once
(`OnceInv`), since a level has records only behind its own marker; and while no run was limited,
no level overtakes the one below it (`OrderInv`), which is what makes a window's record wait for
the next level. That charts never show one execution at two places has another reason, which
breaks do not disturb: there is an assignment of executions to minutes such that every record
contains its executions' minutes in its window (`TimeInv`), and the windows of a chart are apart.
That one place does not hold it twice needs that a window is stored a second time only where
the run that stored it first broke off before its marker (`TornInv`).
`MetricsAssumption` has hours divide days, as in the code, without which this fails.

### Only model-checked

Liveness, which is out of the prover's reach: `PendingServed`, `RotationEnds`,
`ActiveScheduleTriggers`, and with them everything that fairness adds. The runs that end in a
violation. The theorems on key rotation, schedules, sources, logs and metrics have exceptions
in place of hypotheses: they name what the code does, step by step, and are neither assumed
away nor shown to be rare.

## Findings

`PROJECT.json` quotes them: a job cancelled before a crash is stuck
(`cancel_then_crash`); keys change under encryptions in flight
(`encryption_outlives_lock`); two rotations can run at once (`two_rotations`); a schedule
whose job ended before `start()` found it never triggers again (`schedule_forgotten`); each
trigger resets `consecutiveFailures`, so that a job that always fails is retried for ever
(`failures_forgotten`); a database process that exits by itself stays down
(`database_stays_down`).

Others that the models reproduce without a run of their own:

* code-source tokens and webhook secrets are encrypted with the rotating keys and forgotten
  by the rotation (`key_rotation_service.ts:33`): `ReadsLastWrite` fails with a row outside
  `ENCRYPTED_TABLES`, if `Lost` did not name it;
* a job whose schedule `start()` has read ends before the subscription, and the process dies
  before `resetScheduleAfterJobGone()` (`scheduling_service.ts:1160`): the schedule is left
  active without job and run time;
* a job cancelled between fetch and claim during startup ends the chain of `start()` before
  the timer is set (`ClaimFindsNoRow`, `LoopFindsNoRow`, `LoopDies`);
* a `stop()` during startup is forgotten and the timer armed after it (`StopEnds`, then
  `BootLaunches`);
* a cancellation during the last table of a rotation completes it (`AfterSleep`);
* the list of transitions in `jobs/types.ts:8-15` leaves out that pending jobs are cancelled
  or failed directly.

In the services the models take these steps, which the properties name as exceptions
or which no document promises against:

* scheduling: a schedule that is paused over a restart is not resubscribed to its job; a
  scheduled sync that meets a foreign one of the same source fails again at
  once, up to status `error`; an update or a resume while the job is active gives
  the schedule a second job.
* database: an unhealthy status during a restart is ignored, and a restart that fails
  leaves the status unhealthy with no new event; `restartAttempts` is never reset; the
  late exit of a killed process clears the handle of its successor.
* code sources: `create()` with an interval registers an active schedule also for a
  disabled source; a sync asked for after a PUT is turned away while another is running
  (the answer still says it was triggered), so that the new settings wait for the next
  sync; the page changes settings without asking for one; after a second crash in the
  same sync, or a `markSyncFailed()` that fails itself, the gate stays closed; a schedule whose
  deletion fails outlives its source and goes on enqueueing jobs that fail.
* logs: a record that ties in timestamp and sequence with the last one of a page is on no
  page, although `console_log_service.ts:341` says that the cursor handles "same-timestamp
  ambiguity" with the record's id (it has timestamp and sequence only); a retried batch
  leaves second records of its first lines; entries left in the buffer by a refused flush wait for the next `store()`; a
  shutdown does not wait for a flush in flight beyond its limit.
* metrics: an hour pass goes on past minutes that stopped at `maxMinutesPerRun`; a break
  between record and marker counts a window twice; a late `store()` is not counted.
* keys and secrets: the deletion of an "empty" group deletes a key that came after the
  count; `updateKey()` accepts a value that another key has; the API creates secrets for
  owners that are gone.
* settings: the page changes no schedule until the next start; two requests may leave the
  older interval.

## Not modelled

* Users, authentication, CSRF: single queries around a third-party library.
* Rendering, validation, file browsing, environment and process isolation: no state that
  interleavings could corrupt.
* The order of `gracefulShutdown()` and a second signal during it. Every model lets its
  service's stop come at any time instead.
* Manual code sources, per-source file edits, the contents of git repositories.
* The queue under the schedules is `JobLifecycle`'s abstraction; the two detailed models
  are not multiplied.
* Two writes of a handler file with one modification time.

## What is left

1. An abstract specification of a schedule that `Scheduling` implements, as `ValueStore` is
   one of the owners of encrypted values.
2. The job system, the schedules and the key rotation in one process with the services, with
   the calls between them; `Services` has the nine that do not call each other in the models.
