---------------------------- MODULE CodeSources ----------------------------
(***************************************************************************)
(* CodeSourceService and GitCodeSourceProvider: sources that are created,  *)
(* updated and deleted under writeMutex, with the schedule of each in the  *)
(* scheduling service, and the source_sync jobs that a schedule, a user or *)
(* a webhook enqueues and the one loop of the job processor runs.          *)
(*                                                                         *)
(* All sources have one name, and so one directory: names are unique, so   *)
(* that a source follows another only when that one has been deleted.      *)
(* Jobs are the queue's as JobQueue has it: sequential for each source,    *)
(* recovered once after a crash and given up after a second one.  Manual   *)
(* sources, which are not synced, are left out.                            *)
(*                                                                         *)
(* Triggers are one step with the reading of the row, except those that a  *)
(* page or the API asks for after a write, which may come at any time.     *)
(***************************************************************************)
EXTENDS Naturals, FiniteSets

CONSTANTS
  Sources,    \* bound: sources that are created, numbered
  Changeable  \* bound: sources whose settings change, once

ASSUME SourcesAssumption == Sources \subseteq Nat \ {0} /\ Changeable \subseteq Sources

VARIABLES
  row,       \* table codeSource
  schedule,  \* status of the schedule source_sync_<id>
  syncJob,   \* the job with the source as its reference
  unmarked,  \* history: sources whose last job ended without marking the end of its sync:
             \* it was lost to a second crash, or the UPDATE failed
  doomed,    \* sources whose deletion has begun
  kept,      \* history: sources whose schedule could not be deleted with them
  dir,       \* the directory of the name, and whose content it is
  writer,    \* the holder of writeMutex
  resync,    \* sources that a page or the API is about to ask a sync of
  behind,    \* history: sources with settings that no sync has read
  sync       \* the syncSource() that runs

sourceVars == <<row, schedule, syncJob, unmarked, doomed, kept, dir, writer, resync, behind, sync>>

Settings == 1..2  \* URL and ref

NoRow   == [state |-> "none", settings |-> 1, started |-> FALSE, synced |-> FALSE]
GoneRow == [NoRow EXCEPT !.state = "gone"]
NoJob   == [status |-> "none", by |-> "request", cancelled |-> FALSE, retried |-> FALSE]
Free    == [step |-> "free", id |-> 0, git |-> FALSE]
NoSync  == [step |-> "none", id |-> 0, settings |-> 1]
Empty   == [state |-> "empty", id |-> 0, settings |-> 1]
Partial == [Empty EXCEPT !.state = "partial"]
Whole(i, settings) == [state |-> "whole", id |-> i, settings |-> settings]

SourceTypeOK ==
  /\ row \in [Sources -> [state : {"none", "live", "gone"}, settings : Settings,
                          started : BOOLEAN, synced : BOOLEAN]]
  /\ schedule \in [Sources -> {"none", "active", "paused"}]
  /\ syncJob \in [Sources -> [status : {"none", "pending", "running"}, by : {"request", "schedule"},
                              cancelled : BOOLEAN, retried : BOOLEAN]]
  /\ {unmarked, doomed, kept, resync, behind} \subseteq SUBSET Sources
  /\ dir \in {Empty, Partial} \cup {Whole(i, s) : i \in Sources, s \in Settings}
  /\ writer \in [step : {"free", "directory", "remove", "row"}, id : Sources \cup {0}, git : BOOLEAN]
  /\ sync \in [step : {"none", "read", "begin", "clone", "rename", "checkout", "done",
                       "failed", "over"}, id : Sources \cup {0}, settings : Settings]

SourceInit ==
  /\ row = [i \in Sources |-> NoRow] /\ schedule = [i \in Sources |-> "none"]
  /\ syncJob = [i \in Sources |-> NoJob] /\ unmarked = {} /\ doomed = {} /\ kept = {}
  /\ dir = Empty
  /\ writer = Free /\ resync = {} /\ behind = {} /\ sync = NoSync

Live(i)       == row[i].state = "live"
Writes(step)  == writer' = [writer EXCEPT !.step = step]
Syncs(step)   == sync' = [sync EXCEPT !.step = step]
Cancelled     == syncJob[sync.id].cancelled

-----------------------------------------------------------------------------
(* Under writeMutex *)

\* validateNewSource(), nameExists() and the new row
CreateSource(i, git) ==
  /\ writer.step = "free" /\ row[i] = NoRow /\ \A j \in Sources : ~Live(j)
  /\ row' = [row EXCEPT ![i] = [NoRow EXCEPT !.state = "live"]]
  /\ writer' = [step |-> "directory", id |-> i, git |-> git]
  /\ UNCHANGED <<schedule, syncJob, unmarked, doomed, kept, dir, resync, behind, sync>>

\* the page asks for a first sync, the API does not
PostsSource(i)      == CreateSource(i, FALSE)
CreatesGitSource(i) == CreateSource(i, TRUE)

\* a new schedule is active, also that of a disabled source
Ensured(i, timed) == IF ~timed THEN "none" ELSE IF schedule[i] = "none" THEN "active" ELSE schedule[i]

\* ensureDirectory(), whose failure leaves the row without a schedule, and ensureSchedule()
EnsureSchedule ==
  /\ writer.step = "directory" /\ writer' = Free
  /\ \E timed \in BOOLEAN : schedule' = [schedule EXCEPT ![writer.id] = Ensured(writer.id, timed)]
  /\ resync' = IF writer.git THEN resync \cup {writer.id} ELSE resync
  /\ UNCHANGED <<row, syncJob, unmarked, doomed, kept, dir, behind, sync>>

CreateFails ==
  /\ writer.step = "directory" /\ writer' = Free
  /\ UNCHANGED <<row, schedule, syncJob, unmarked, doomed, kept, dir, resync, behind, sync>>

\* pauseSchedule() and resumeSchedule() change the status of a schedule that exists
Toggled(status, toggle) == IF "none" \in {status, toggle} THEN status ELSE toggle

\* ensureSchedule(), and pauseSchedule() or resumeSchedule() when enabled changes
UpdateSource(i, settings) ==
  /\ writer.step = "free" /\ Live(i) /\ settings \in row[i].settings..(IF i \in Changeable THEN 2 ELSE row[i].settings)
  /\ row' = [row EXCEPT ![i].settings = settings]
  /\ \E status \in {Toggled(Ensured(i, timed), toggle) :
                      timed \in BOOLEAN, toggle \in {"none", "active", "paused"}} :
       schedule' = [schedule EXCEPT ![i] = status]
  /\ behind' = IF settings # row[i].settings THEN behind \cup {i} ELSE behind
  /\ UNCHANGED <<syncJob, unmarked, doomed, kept, dir, writer, sync>>

\* the page asks for no sync, nor does the API when the update fails after its row
EditsSource(i, settings) == UpdateSource(i, settings) /\ UNCHANGED resync

\* the API asks for one if the source is enabled and its settings differ from what they
\* were when the request came: the present ones, or the first
PutsSource(i, settings) ==
  /\ UpdateSource(i, settings)
  /\ \E needsSync \in {settings # old /\ enabled : old \in {1, row[i].settings}, enabled \in BOOLEAN} :
       resync' = IF needsSync THEN resync \cup {i} ELSE resync

\* mutant of DeleteSource: the row goes before the schedule
DeleteRowFirst(i) ==
  /\ writer.step = "free" /\ Live(i)
  /\ row' = [row EXCEPT ![i] = GoneRow]
  /\ writer' = [Free EXCEPT !.step = "directory", !.id = i]
  /\ UNCHANGED <<schedule, syncJob, unmarked, doomed, kept, dir, resync, behind, sync>>

\* deleteSchedule() cancels the job of the schedule, not one that was asked for
JobWithoutSchedule(i) ==
  LET job == syncJob[i]
  IN IF schedule[i] = "none" \/ job.by = "request" THEN job
     ELSE IF job.status = "pending" THEN NoJob
     ELSE [job EXCEPT !.cancelled = (job.cancelled \/ job.status = "running")]

\* The cancellation may fail and is passed over; so may the deletion of the schedule: it is
\* logged as "best-effort", and the source is deleted all the same.
DeleteSource(i) ==
  /\ writer.step = "free" /\ Live(i)
  /\ \E fails \in BOOLEAN :
       /\ schedule' = IF fails THEN schedule ELSE [schedule EXCEPT ![i] = "none"]
       /\ kept' = IF fails THEN kept \cup {i} ELSE kept \ {i}
  /\ \E job \in {JobWithoutSchedule(i), syncJob[i]} : syncJob' = [syncJob EXCEPT ![i] = job]
  /\ writer' = [Free EXCEPT !.step = "remove", !.id = i] /\ doomed' = doomed \cup {i}
  /\ UNCHANGED <<row, unmarked, dir, resync, behind, sync>>

\* deleteDirectory(), whose failure is only logged
RemoveDirectory ==
  /\ writer.step = "remove" /\ Writes("row") /\ dir' \in {dir, Empty}
  /\ UNCHANGED <<row, schedule, syncJob, unmarked, doomed, kept, resync, behind, sync>>

RemoveRow ==
  /\ writer.step = "row" /\ writer' = Free
  /\ row' = [row EXCEPT ![writer.id] = GoneRow]
  /\ unmarked' = unmarked \ {writer.id} /\ doomed' = doomed \ {writer.id} /\ behind' = behind \ {writer.id}
  /\ UNCHANGED <<schedule, syncJob, kept, dir, resync, sync>>

-----------------------------------------------------------------------------
(* Triggers *)

Enqueued(i, by) == [syncJob EXCEPT ![i] = [NoJob EXCEPT !.status = "pending", !.by = by]]

\* triggerManualSync() and, for an enabled source, triggerWebhookSync(); the queue rejects a
\* second job for the source
TriggerSync(i) ==
  /\ ~row[i].started /\ syncJob[i] = NoJob
  /\ syncJob' = Enqueued(i, "request")
  /\ UNCHANGED <<row, schedule, unmarked, doomed, kept, dir, writer, behind, sync>>

PostsSync(i)   == Live(i) /\ TriggerSync(i) /\ UNCHANGED resync
WebhookSync(i) == Live(i) /\ TriggerSync(i) /\ UNCHANGED resync

\* the sync that a page or the API asks for after its write; it may be late, as the other
\* triggers may, and enqueue for a row that was deleted since it was read
Resyncs(i) == i \in resync /\ TriggerSync(i) /\ resync' = resync \ {i}

\* it is turned away while another one is under way, or fails; neither is told
ResyncRefused(i) ==
  /\ i \in resync /\ resync' = resync \ {i}
  /\ UNCHANGED <<row, schedule, syncJob, unmarked, doomed, kept, dir, writer, behind, sync>>

ScheduledSync(i) ==
  /\ schedule[i] = "active" /\ syncJob[i] = NoJob
  /\ syncJob' = Enqueued(i, "schedule")
  /\ UNCHANGED <<row, schedule, unmarked, doomed, kept, dir, writer, resync, behind, sync>>

-----------------------------------------------------------------------------
(* syncSource() *)

ClaimSync(i) ==
  /\ sync = NoSync /\ syncJob[i].status = "pending" /\ ~syncJob[i].cancelled
  /\ syncJob' = [syncJob EXCEPT ![i].status = "running"]
  /\ sync' = [NoSync EXCEPT !.step = "read", !.id = i]
  /\ UNCHANGED <<row, schedule, unmarked, doomed, kept, dir, writer, resync, behind>>

Marked(started, synced) ==
  row' = IF Live(sync.id) THEN [row EXCEPT ![sync.id].started = started, ![sync.id].synced = synced]
         ELSE row

SyncStarts ==
  /\ sync.step = "read"
  /\ sync' = [sync EXCEPT !.step = IF Live(sync.id) THEN "begin" ELSE "over", !.settings = row[sync.id].settings]
  /\ Marked(TRUE, row[sync.id].synced) /\ behind' = behind \ {sync.id}
  /\ UNCHANGED <<schedule, syncJob, unmarked, doomed, kept, dir, writer, resync>>

\* getById() or markSyncStarted() throws, after its UPDATE or before: the job fails
SyncStartFails ==
  /\ sync.step = "read" /\ Syncs("over")
  /\ UNCHANGED row \/ Marked(TRUE, row[sync.id].synced)
  /\ unmarked' = unmarked \cup {sync.id}
  /\ UNCHANGED <<schedule, syncJob, doomed, kept, dir, writer, resync, behind>>

\* a directory with content, of this source or of the one before it, is a clone, though a
\* checkout that was interrupted may have left one that is not
MayBeCloned == dir # Empty
NeedNotBeCloned == dir.state # "whole"

\* sync(): a clone, also to replace one of another URL, or performFetchAndReset(), whose
\* checkout rewrites the directory in place
SyncBegins ==
  /\ sync.step = "begin"
  /\ \/ Syncs("failed") /\ UNCHANGED dir
     \/ ~Cancelled /\ NeedNotBeCloned /\ Syncs("clone") /\ UNCHANGED dir
     \/ ~Cancelled /\ MayBeCloned /\ Syncs("clone") /\ dir' = Empty
     \/ ~Cancelled /\ MayBeCloned /\ Syncs("checkout") /\ dir' = Partial
  /\ UNCHANGED <<row, schedule, syncJob, unmarked, doomed, kept, writer, resync, behind>>

\* performClone(): the clone is made aside and replaces the directory
CloneEnds ==
  /\ sync.step = "clone"
  /\ \/ Syncs("failed") /\ UNCHANGED dir
     \/ ~Cancelled /\ Syncs("rename") /\ dir' = Empty
  /\ UNCHANGED <<row, schedule, syncJob, unmarked, doomed, kept, writer, resync, behind>>

CloneMoves ==
  /\ sync.step = "rename"
  /\ \/ Syncs("failed") /\ UNCHANGED dir
     \/ Syncs("done") /\ dir' = Whole(sync.id, sync.settings)
  /\ UNCHANGED <<row, schedule, syncJob, unmarked, doomed, kept, writer, resync, behind>>

CheckoutEnds ==
  /\ sync.step = "checkout"
  /\ \/ Syncs("failed") /\ dir' \in {dir, Partial}
     \/ ~Cancelled /\ Syncs("done") /\ dir' = IF dir = Partial THEN Whole(sync.id, sync.settings) ELSE Partial
  /\ UNCHANGED <<row, schedule, syncJob, unmarked, doomed, kept, writer, resync, behind>>

\* mutant of SyncEnds: a sync that failed is marked as completed
SyncEndsWell ==
  /\ sync.step \in {"done", "failed"} /\ Syncs("over")
  /\ Marked(FALSE, TRUE) /\ unmarked' = unmarked \ {sync.id}
  /\ UNCHANGED <<schedule, syncJob, doomed, kept, dir, writer, resync, behind>>

\* mutant of SyncEnds: a sync that fails throws past markSyncFailed()
SyncEndsUnmarked ==
  /\ sync.step \in {"done", "failed"} /\ Syncs("over")
  /\ IF sync.step = "failed" THEN UNCHANGED row ELSE Marked(FALSE, sync.step = "done")
  /\ unmarked' = unmarked \ {sync.id}
  /\ UNCHANGED <<schedule, syncJob, doomed, kept, dir, writer, resync, behind>>

\* markSyncCompleted(), or markSyncFailed(), also where the former throws; the job completes
\* either way.  When markSyncFailed() throws in the catch block, the job fails, and the row
\* is left as it is.
SyncEnds ==
  /\ sync.step \in {"done", "failed"} /\ Syncs("over")
  /\ \/ \E synced \in {FALSE, sync.step = "done"} : Marked(FALSE, synced) /\ unmarked' = unmarked \ {sync.id}
     \/ UNCHANGED row /\ unmarked' = unmarked \cup {sync.id}
  /\ UNCHANGED <<schedule, syncJob, doomed, kept, dir, writer, resync, behind>>

SyncJobEnds ==
  /\ sync.step = "over" /\ sync' = NoSync
  /\ syncJob' = [syncJob EXCEPT ![sync.id] = NoJob]
  /\ UNCHANGED <<row, schedule, unmarked, doomed, kept, dir, writer, resync, behind>>

\* a crash, and the recovery of the orphaned job
LostJobs == {i \in Sources : syncJob[i].status = "running" /\ syncJob[i].retried}

SourceCrash ==
  /\ writer' = Free /\ sync' = NoSync /\ resync' = {}
  /\ syncJob' = [i \in Sources |->
       IF syncJob[i].status # "running" THEN syncJob[i]
       ELSE IF syncJob[i].retried THEN NoJob
       ELSE [syncJob[i] EXCEPT !.status = "pending", !.retried = TRUE]]
  /\ unmarked' = unmarked \cup LostJobs
  /\ UNCHANGED <<row, schedule, doomed, kept, dir, behind>>

SourceNext ==
  \/ \E i \in Sources :
       \/ PostsSource(i) \/ CreatesGitSource(i) \/ DeleteSource(i)
       \/ \E settings \in Settings : EditsSource(i, settings) \/ PutsSource(i, settings)
       \/ PostsSync(i) \/ WebhookSync(i) \/ Resyncs(i) \/ ResyncRefused(i)
       \/ ScheduledSync(i) \/ ClaimSync(i)
  \/ EnsureSchedule \/ CreateFails \/ RemoveDirectory \/ RemoveRow
  \/ SyncStarts \/ SyncStartFails \/ SyncBegins \/ CloneEnds \/ CloneMoves
  \/ CheckoutEnds \/ SyncEnds \/ SyncJobEnds
  \/ SourceCrash

SourceSpec == SourceInit /\ [][SourceNext]_sourceVars

-----------------------------------------------------------------------------
\* lastSyncStartedAt, which turns away every manual and webhook trigger, is set only while
\* a job exists that will clear it: no failure of a sync, no cancellation and no crash
\* leaves the gate closed, except where the job ended without marking the end (lost to a
\* second crash, or the UPDATE itself failed), or in a deletion half done.
GateHasJob ==
  \A i \in Sources : Live(i) /\ row[i].started => syncJob[i] # NoJob \/ i \in unmarked \cup doomed

\* A source that shows a completed sync, and none under way, has the whole of its own
\* content at its present settings, whatever syncs, failures and crashes there were, and
\* whatever the deletion of an earlier source of the same name, or a sync that outlived it,
\* did to the directory, unless no sync has read those settings yet.
SyncedMeansWhole ==
  \A i \in Sources \ doomed :
    Live(i) /\ row[i].synced /\ ~row[i].started /\ i \notin behind => dir = Whole(i, row[i].settings)

\* No schedule outlives its source, also when the process dies inside create() or delete()
\* and when a sync ends after its source, except where delete() failed to delete it.
ScheduleHasSource == \A i \in Sources : schedule[i] # "none" => Live(i) \/ i \in kept
=============================================================================
