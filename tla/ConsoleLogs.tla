---------------------------- MODULE ConsoleLogs ----------------------------
(***************************************************************************)
(* ConsoleLogService: what handlers print is buffered, and written in      *)
(* batches when the buffer is full or a delay is over; the writes share a  *)
(* mutex with the trimming job and with deletions.                         *)
(*                                                                         *)
(* Entries are numbered in the order of their capture; all belong to one   *)
(* function.  The table has their records, which have an order of their    *)
(* own: by timestamp and then by sequence, the place of the entry in the   *)
(* buffer.  The sequence starts anew in every batch, so that entries of    *)
(* two batches may tie; and the retry of a batch that was written in part  *)
(* makes second records of its first entries, which tie with the first.    *)
(***************************************************************************)
EXTENDS Naturals, Sequences, FiniteSets, SequencesExt, FiniteSetsExt

CONSTANTS
  MaxEntries,      \* bound: entries that are captured
  Timestamps,      \* bound: timestamps, of a clock that may be set back
  maxBatchSize,
  maxLogsPerRoute,
  limit            \* entries of a page

ASSUME LogsAssumption ==
  MaxEntries \in Nat /\ Timestamps \subseteq Nat /\ maxBatchSize \in Nat \ {0} /\ maxLogsPerRoute \in Nat \ {0}
  /\ limit \in Nat \ {0}

VARIABLES
  captured,      \* the entries store() has accepted: timestamp and sequence of each, as a number
  buffer,
  flushTimer,
  flushQueued,   \* a microtask will call flush()
  flushing,      \* isFlushing: the batch, what is left of it to insert, the attempt, and
                 \* whether this has the writeMutex
  executionLog,
  logsGone,      \* entries that were deleted, or lost when the retry failed
  refused,       \* the entries in the buffer when flush() returned for another flush
  logService,    \* isShutdown, and the wait of shutdown()
  pager          \* a client that reads page after page; inOrder until a page repeats or goes back

logVars == <<captured, buffer, flushTimer, flushQueued, flushing, executionLog, logsGone,
             refused, logService, pager>>

Entries  == 1..MaxEntries
Records  == [entry : Entries, attempt : 1..2]
NotBusy  == [batch |-> <<>>, left |-> <<>>, attempt |-> 0, locked |-> FALSE]
isFlushing == flushing.attempt # 0

LogsTypeOK ==
  /\ captured \in Seq(Nat) /\ Len(captured) <= MaxEntries /\ buffer \in Seq(Entries)
  /\ flushTimer \in BOOLEAN /\ flushQueued \in BOOLEAN
  /\ flushing \in [batch : Seq(Entries), left : Seq(Entries), attempt : 0..2, locked : BOOLEAN]
  /\ executionLog \subseteq Records /\ logsGone \subseteq Entries /\ refused \subseteq Entries
  /\ logService \in {"open", "closing", "closed"}
  /\ pager \in [cursor : Nat, shown : SUBSET Records, stable : SUBSET Records,
                inOrder : BOOLEAN, at : {"none", "paging", "end"}]

LogsInit ==
  /\ captured = <<>> /\ buffer = <<>> /\ flushTimer = FALSE /\ flushQueued = FALSE
  /\ flushing = NotBusy /\ executionLog = {} /\ logsGone = {} /\ refused = {}
  /\ logService = "open"
  /\ pager = [cursor |-> 0, shown |-> {}, stable |-> {}, inOrder |-> TRUE, at |-> "none"]

\* ORDER BY timestamp DESC, sequence DESC; no sequence reaches MaxEntries
Place(record) == captured[record.entry]
Newer(records, r) == {d \in records : Place(d) > Place(r)}

\* START n - 1 LIMIT 1 gives the place from which on records are among the newest n
Newest(records, n) == {r \in records : Cardinality(Newer(records, r)) < n}

\* LIMIT n, where records that tie come in any order
Firsts(records, n) ==
  IF Cardinality(records) <= n THEN {records}
  ELSE {rows \in SUBSET Newest(records, n) :
          Cardinality(rows) = n /\ \A r \in rows, d \in records \ rows : Place(d) <= Place(r)}

EntriesOf(records) == {r.entry : r \in records}

-----------------------------------------------------------------------------
(* store() *)

\* mutant of Captures: a full buffer does not replace the timer, it only clears it
CapturesUnscheduled(timestamp) ==
  /\ logService = "open" /\ Len(captured) < MaxEntries
  /\ captured' = Append(captured, timestamp * MaxEntries + Len(buffer))
  /\ buffer' = Append(buffer, Len(captured'))
  /\ flushTimer' = (Len(buffer') < maxBatchSize)
  /\ UNCHANGED <<flushQueued, flushing, executionLog, logsGone, refused, logService, pager>>

\* a full buffer is flushed at once, another one when the timer fires
Captures(timestamp) ==
  /\ logService = "open" /\ Len(captured) < MaxEntries
  /\ captured' = Append(captured, timestamp * MaxEntries + Len(buffer))
  /\ buffer' = Append(buffer, Len(captured'))
  /\ IF Len(buffer') >= maxBatchSize THEN flushTimer' = FALSE /\ flushQueued' = TRUE
     ELSE flushTimer' = TRUE /\ UNCHANGED flushQueued
  /\ UNCHANGED <<flushing, executionLog, logsGone, refused, logService, pager>>

\* in a request, the console methods store everything, the streams what is not empty
Intercepts(source, message) ==
  (source = "stream" => message # "") /\ \E timestamp \in Timestamps : Captures(timestamp)

-----------------------------------------------------------------------------
(* flush() *)

\* the buffer is swapped for an empty one, unless a flush is in flight
Flush ==
  IF isFlushing THEN refused' = ToSet(buffer) /\ UNCHANGED <<buffer, flushing>>
  ELSE /\ buffer' = <<>> /\ refused' = {}
       /\ flushing' = IF buffer = <<>> THEN NotBusy
                      ELSE [batch |-> buffer, left |-> buffer, attempt |-> 1, locked |-> FALSE]

FlushTimerFires ==
  /\ flushTimer /\ flushTimer' = FALSE /\ Flush
  /\ UNCHANGED <<captured, flushQueued, executionLog, logsGone, logService, pager>>

QueuedFlush ==
  /\ flushQueued /\ flushQueued' = FALSE /\ Flush
  /\ UNCHANGED <<captured, flushTimer, executionLog, logsGone, logService, pager>>

\* executeBatchInsert(): the writeMutex, for each attempt anew, and then one entry after
\* the other
Inserting == flushing.locked /\ flushing.left # <<>>

AcquiresWrite ==
  /\ ~flushing.locked /\ flushing.left # <<>>
  /\ flushing' = [flushing EXCEPT !.locked = TRUE]
  /\ UNCHANGED <<captured, buffer, flushTimer, flushQueued, executionLog, logsGone, refused, logService, pager>>

Inserts ==
  /\ Inserting
  /\ executionLog' = executionLog \cup {[entry |-> Head(flushing.left), attempt |-> flushing.attempt]}
  /\ flushing' = [flushing EXCEPT !.left = Tail(@)]
  /\ UNCHANGED <<captured, buffer, flushTimer, flushQueued, logsGone, refused, logService, pager>>

\* the whole batch is tried once more; what the retry does not write is lost
InsertFails ==
  /\ Inserting
  /\ IF flushing.attempt = 1
     THEN /\ flushing' = [flushing EXCEPT !.left = flushing.batch, !.attempt = 2, !.locked = FALSE]
          /\ UNCHANGED logsGone
     ELSE flushing' = [flushing EXCEPT !.left = <<>>] /\ logsGone' = logsGone \cup ToSet(flushing.left)
  /\ UNCHANGED <<captured, buffer, flushTimer, flushQueued, executionLog, refused, logService, pager>>

\* mutant of FlushEnds: the buffer is emptied when its batch has been written
FlushEndsEmptying ==
  /\ isFlushing /\ flushing.left = <<>> /\ flushing' = NotBusy /\ buffer' = <<>>
  /\ UNCHANGED <<captured, flushTimer, flushQueued, executionLog, logsGone, refused, logService, pager>>

\* after the batch, maybeRefreshSettings()
FlushEnds ==
  /\ isFlushing /\ flushing.left = <<>> /\ flushing' = NotBusy
  /\ UNCHANGED <<captured, buffer, flushTimer, flushQueued, executionLog, logsGone, refused, logService, pager>>

-----------------------------------------------------------------------------
(* Shutdown and deletion *)

ShutdownBegins ==
  /\ logService = "open" /\ logService' = "closing" /\ flushTimer' = FALSE
  /\ UNCHANGED <<captured, buffer, flushQueued, flushing, executionLog, logsGone, refused, pager>>

\* the flush in flight has ended, or five seconds have passed and the buffer stays as it is
LastFlush ==
  /\ logService = "closing" /\ logService' = "closed" /\ Flush
  /\ UNCHANGED <<captured, flushTimer, flushQueued, executionLog, logsGone, pager>>

Deletes(old) ==
  /\ old # {}
  /\ executionLog' = executionLog \ old /\ logsGone' = logsGone \cup EntriesOf(old)
  /\ pager' = [pager EXCEPT !.stable = @ \ old]
  /\ UNCHANGED <<captured, buffer, flushTimer, flushQueued, flushing, refused, logService>>

\* under writeMutex; the threshold is the record that maxLogsPerRoute - 1 records precede
TrimToLimit == ~Inserting /\ Deletes(executionLog \ Newest(executionLog, maxLogsPerRoute))

\* deleteOlderThan(), under writeMutex
DeleteOlderThan(date) == ~Inserting /\ Deletes({r \in executionLog : Place(r) < date * MaxEntries})

\* deleteByFunctionId(), and the event delete_functionDef, which knows of no mutex
DeleteOfFunction == Deletes(executionLog)

-----------------------------------------------------------------------------
(* getPaginated(), from the newest record on *)

\* records before the cursor, if there is one
Older == IF pager.at = "none" THEN executionLog ELSE {r \in executionLog : Place(r) < pager.cursor}

\* mutant of Rows: no more rows are asked for than the page has
RowsOfPage == Firsts(Older, limit)

\* one row more than the page has tells whether there is a next page
Rows == Firsts(Older, limit + 1)

\* GET /api/logs and the log page: the next cursor is timestamp and sequence of the last row
ShowsPage(rows, page) ==
  LET hasMore == Cardinality(rows) > limit
  IN pager' = [cursor  |-> IF hasMore THEN Min({Place(r) : r \in page}) ELSE 0,
               shown   |-> pager.shown \cup page,
               stable  |-> IF pager.at = "none" THEN executionLog ELSE pager.stable,
               inOrder |-> pager.inOrder /\ \A r \in page, d \in pager.shown : Place(r) < Place(d),
               at      |-> IF hasMore THEN "paging" ELSE "end"]

GetPaginated ==
  /\ pager.at # "end"
  /\ \E rows \in Rows : \E page \in Firsts(rows, limit) : ShowsPage(rows, page)
  /\ UNCHANGED <<captured, buffer, flushTimer, flushQueued, flushing, executionLog, logsGone,
                 refused, logService>>

LogsNext ==
  \/ \E source \in {"console", "stream"}, message \in {"", "text"} : Intercepts(source, message)
  \/ FlushTimerFires \/ QueuedFlush \/ AcquiresWrite \/ Inserts \/ InsertFails \/ FlushEnds
  \/ ShutdownBegins \/ LastFlush
  \/ TrimToLimit \/ DeleteOfFunction \/ \E date \in Timestamps : DeleteOlderThan(date)
  \/ GetPaginated

LogsSpec == LogsInit /\ [][LogsNext]_logVars

-----------------------------------------------------------------------------
\* Every entry that store() accepted is in the buffer, in the batch that is being written
\* or in the table until the retry fails or it is deleted, over flushes that overlap store(),
\* batches that fail half way and a shutdown that does not wait for its flush.
LogsKept == 1..Len(captured) \subseteq
  ToSet(buffer) \cup ToSet(flushing.left) \cup EntriesOf(executionLog) \cup logsGone

\* A flush is coming for every buffered entry of a service that is open, except for those
\* that were in the buffer when a flush was refused because another was in flight: these
\* wait for the next call of store().
BufferedIsScheduled ==
  logService = "open" /\ ~(flushTimer \/ flushQueued) => ToSet(buffer) \subseteq refused

\* Of two records with the same timestamp and sequence a page may end with one.
Ties(r, d) == r # d /\ Place(r) = Place(d)

\* A client that follows the cursor to the last page has been shown every record that was in
\* the table when it began and was not deleted meanwhile, while records are written and
\* trimmed between its requests and the clock is set back, but for one that ties with a
\* record it was shown: the cursor passes over it.  Pages go from newer records to older
\* ones, so that no page shows again what an earlier one showed, nor the second record of
\* a line that was written twice.
PagesAreWhole ==
  /\ pager.inOrder
  /\ pager.at = "end" =>
       \A r \in pager.stable \ pager.shown : \E d \in pager.shown : Ties(r, d)
=============================================================================
