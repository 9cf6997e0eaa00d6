------------------------- MODULE MetricsAggregation -------------------------
(***************************************************************************)
(* ExecutionMetricsService and the aggregation job: executions become      *)
(* minutes, minutes hours and hours days, in three passes that follow the  *)
(* markers of MetricsStateService, and what a pass has read is deleted.    *)
(*                                                                         *)
(* Levels 0 to 3 are executions, minutes, hours and days.  Every reader    *)
(* adds up the records that a level has for a time: metric holds the       *)
(* executions that they stand for, and doubled those that they count more  *)
(* than once.  One function is modelled, and the global record of a        *)
(* window, which no pass reads, is left out.                               *)
(***************************************************************************)
EXTENDS Integers, FiniteSetsExt

CONSTANTS
  Width,             \* how many minutes a window of each level has
  maxMinutesPerRun,
  Retention,         \* in minutes
  MaxTime,           \* bound: minutes
  MaxExecutions,     \* bound: executions
  MaxBreaks          \* bound: runs that end in the middle

Levels == 1..3
ASSUME MetricsAssumption ==
  /\ Width \in [Levels -> Nat \ {0}] /\ Width[1] = 1 /\ Width[3] % Width[2] = 0
  /\ {maxMinutesPerRun, Retention, MaxTime, MaxExecutions, MaxBreaks} \subseteq Nat

NoMarker == -1

VARIABLES
  minute,      \* the time
  arriving,    \* the time of the record that store() creates, which has writeMutex
  executions,  \* how many records of executions were created
  metric,      \* table executionMetric: what its records of a level and time stand for
  doubled,     \* ... and what they count more than once
  marker,      \* metricsState
  run,         \* the job
  limited,     \* a run has stopped at maxMinutesPerRun
  missed,      \* executions that no pass will read, for a reason the property names
  torn,        \* executions in a record whose run broke off before it moved the marker past it
  breaks       \* runs that ended in the middle

metricsVars == <<minute, arriving, executions, metric, doubled, marker, run, limited, missed, torn, breaks>>

Times      == 0..MaxTime
Executions == 1..MaxExecutions
Resting == [step |-> "none", level |-> 1, now |-> 0, at |-> 0, sum |-> {}, doubled |-> {}, done |-> 0]

MetricsTypeOK ==
  /\ minute \in Times /\ arriving \in Times \cup {NoMarker} /\ executions \in 0..MaxExecutions
  /\ {metric, doubled} \subseteq [0..3 -> [Times -> SUBSET Executions]]
  /\ marker \in [Levels -> Nat \cup {NoMarker}]
  /\ run \in [step : {"none", "expire", "marker", "window", "store", "advance", "cleanup"}, level : Levels,
              now : Times, at : Nat, sum : SUBSET Executions, doubled : SUBSET Executions,
              done : 0..maxMinutesPerRun]
  /\ limited \in BOOLEAN /\ missed \subseteq Executions /\ torn \subseteq Executions
  /\ breaks \in 0..MaxBreaks

MetricsInit ==
  /\ minute = 0 /\ arriving = NoMarker /\ executions = 0
  /\ metric = [k \in 0..3 |-> [t \in Times |-> {}]] /\ doubled = metric /\ marker = [k \in Levels |-> NoMarker]
  /\ run = Resting /\ limited = FALSE /\ missed = {} /\ torn = {} /\ breaks = 0

Floor(level, t)   == t - (t % Width[level])
Window(level, at) == {t \in Times : at <= t /\ t < at + Width[level]}
Total(k, times)   == UNION {metric[k][t] : t \in times}

\* what the sum over the records of several times counts more than once
Doubles(k, times) ==
  (UNION {doubled[k][t] : t \in times})
    \cup {e \in Total(k, times) : \E t, u \in times : t # u /\ e \in metric[k][t] \cap metric[k][u]}

\* the records of a level that no pass has read: all of them as long as there is no marker
Unread(k) == {t \in Times : k = 3 \/ marker[k + 1] <= t}

-----------------------------------------------------------------------------
(* Executions *)

Tick ==
  /\ minute < MaxTime /\ minute' = minute + 1
  /\ UNCHANGED <<arriving, executions, metric, doubled, marker, run, limited, missed, torn, breaks>>

\* store() takes writeMutex and the time, and then runs its query
Executes ==
  /\ arriving = NoMarker /\ executions < MaxExecutions /\ arriving' = minute
  /\ UNCHANGED <<minute, executions, metric, doubled, marker, run, limited, missed, torn, breaks>>

\* an execution that comes after its minute was read is missed
Read(k, t) ==
  \/ marker[k + 1] > t
  \/ run.level = k + 1 /\ run.step \in {"store", "advance"} /\ t \in Window(k + 1, run.at)

StoreExecution ==
  /\ arriving # NoMarker /\ arriving' = NoMarker /\ executions' = executions + 1
  /\ metric' = [metric EXCEPT ![0][arriving] = @ \cup {executions + 1}]
  /\ missed' = IF Read(0, arriving) THEN missed \cup {executions + 1} ELSE missed
  /\ UNCHANGED <<minute, doubled, marker, run, limited, torn, breaks>>

StoreExecutionFails ==
  /\ arriving # NoMarker /\ arriving' = NoMarker
  /\ UNCHANGED <<minute, executions, metric, doubled, marker, run, limited, missed, torn, breaks>>

-----------------------------------------------------------------------------
(* performAggregation() *)

RunBegins ==
  /\ run.step = "none" /\ run' = [Resting EXCEPT !.step = "expire", !.now = minute]
  /\ UNCHANGED <<minute, arriving, executions, metric, doubled, marker, limited, missed, torn, breaks>>

\* what is older than the retention period is deleted first
CleanupOld ==
  LET kept(t) == t >= minute - Retention
      expired == {t \in Times : ~kept(t)}
  IN /\ run.step = "expire" /\ arriving = NoMarker /\ run' = [run EXCEPT !.step = "marker"]
     /\ metric' = [k \in 0..3 |-> [t \in Times |-> IF kept(t) THEN metric[k][t] ELSE {}]]
     /\ doubled' = [k \in 0..3 |-> [t \in Times |-> IF kept(t) THEN doubled[k][t] ELSE {}]]
     /\ missed' = missed \cup UNION {Total(k, Unread(k) \cap expired) : k \in 0..3}
     /\ UNCHANGED <<minute, arriving, executions, marker, limited, torn, breaks>>

NextPass(level) ==
  IF level = 3 THEN [run EXCEPT !.step = "cleanup", !.level = 1]
  ELSE [run EXCEPT !.step = "marker", !.level = level + 1]

\* the first marker is the time of the oldest record or, without one, the present
ReadMarker ==
  LET level == run.level
      found == {t \in Times : metric[level - 1][t] # {}}
  IN /\ run.step = "marker"
     /\ IF marker[level] = NoMarker /\ found = {}
        THEN marker' = [marker EXCEPT ![level] = Floor(level, run.now)] /\ run' = NextPass(level)
        ELSE /\ run' = [run EXCEPT !.step = "window",
                          !.at = IF marker[level] = NoMarker THEN Floor(level, Min(found)) ELSE marker[level]]
             /\ UNCHANGED marker
     /\ UNCHANGED <<minute, arriving, executions, metric, doubled, limited, missed, torn, breaks>>

\* mutant of IsOver: the window that the present is in is aggregated as well
HasBegun(level, at) == at <= run.now

\* the windows before the present one
IsOver(level, at) == at < Floor(level, run.now)

AtLimit == run.level = 1 /\ run.done = maxMinutesPerRun

ReadWindow ==
  LET times == Window(run.level, run.at)
      sum == Total(run.level - 1, times)
  IN /\ run.step = "window" /\ IsOver(run.level, run.at) /\ ~AtLimit
     /\ run' = [run EXCEPT !.sum = sum, !.doubled = Doubles(run.level - 1, times),
                           !.step = IF sum = {} THEN "advance" ELSE "store"]
     /\ UNCHANGED <<minute, arriving, executions, metric, doubled, marker, limited, missed, torn, breaks>>

\* the other passes follow also when the minutes stop at their limit
PassEnds ==
  /\ run.step = "window" /\ (~IsOver(run.level, run.at) \/ AtLimit)
  /\ limited' = (limited \/ IsOver(run.level, run.at))
  /\ run' = NextPass(run.level)
  /\ UNCHANGED <<minute, arriving, executions, metric, doubled, marker, missed, torn, breaks>>

\* another record, also where a run that broke off has stored the window before; behind the
\* marker of the next level it is missed when a pass was stopped at its limit
StoreWindow ==
  /\ run.step = "store" /\ arriving = NoMarker /\ run' = [run EXCEPT !.step = "advance"]
  /\ metric' = [metric EXCEPT ![run.level][run.at] = @ \cup run.sum]
  /\ missed' = IF limited /\ run.at \notin Unread(run.level) THEN missed \cup run.sum ELSE missed
  /\ doubled' = [doubled EXCEPT ![run.level][run.at] =
                    @ \cup run.doubled \cup (metric[run.level][run.at] \cap run.sum)]
  /\ UNCHANGED <<minute, arriving, executions, marker, limited, torn, breaks>>

\* store() swallows its error: the pass goes on
StoreWindowFails ==
  /\ run.step = "store" /\ arriving = NoMarker /\ run' = [run EXCEPT !.step = "advance"]
  /\ missed' = missed \cup run.sum
  /\ UNCHANGED <<minute, arriving, executions, metric, doubled, marker, limited, torn, breaks>>

SetMarker ==
  LET next == run.at + Width[run.level]
  IN /\ run.step = "advance" /\ marker' = [marker EXCEPT ![run.level] = next]
     /\ run' = [run EXCEPT !.step = "window", !.at = next, !.sum = {}, !.doubled = {},
                          !.done = IF run.level = 1 THEN @ + 1 ELSE @]
     /\ UNCHANGED <<minute, arriving, executions, metric, doubled, limited, missed, torn, breaks>>

\* mutant of Processed: the window that the marker is at as well
ProcessedToMarker(level) == {t \in Times : t <= marker[level]}

\* what the pass to this level has read
Processed(level) == {t \in Times : t < marker[level]}

Cleanup ==
  LET level == run.level
      Left(records) == [t \in Times |-> IF t \in Processed(level) THEN {} ELSE records[t]]
  IN /\ run.step = "cleanup" /\ arriving = NoMarker
     /\ metric' = [metric EXCEPT ![level - 1] = Left(@)] /\ doubled' = [doubled EXCEPT ![level - 1] = Left(@)]
     /\ run' = IF level = 3 THEN Resting ELSE [run EXCEPT !.level = level + 1]
     /\ UNCHANGED <<minute, arriving, executions, marker, limited, missed, torn, breaks>>

\* the token is cancelled, a query fails or the process dies; a window that was read and
\* not passed by its marker is read again, and stored again
RunBreaks ==
  /\ run.step # "none" /\ breaks < MaxBreaks /\ breaks' = breaks + 1 /\ run' = Resting
  /\ torn' = IF run.step = "advance" THEN torn \cup metric[run.level][run.at] ELSE torn
  /\ UNCHANGED <<minute, arriving, executions, metric, doubled, marker, limited, missed>>

MetricsNext ==
  \/ Tick \/ Executes \/ StoreExecution \/ StoreExecutionFails
  \/ RunBegins \/ CleanupOld \/ ReadMarker \/ ReadWindow \/ PassEnds \/ StoreWindow \/ StoreWindowFails
  \/ SetMarker \/ Cleanup \/ RunBreaks

MetricsSpec == MetricsInit /\ [][MetricsNext]_metricsVars

-----------------------------------------------------------------------------
(* The charts of the pages and GET /api/metrics: the minutes of the last hour, the hours *)
(* of the last day, or the days that are kept.  Their queries are one step here, and a   *)
(* record is named by its level and time.                                                *)

Slots(level) ==
  CASE level = 1 -> Width[2] [] level = 2 -> Width[3] \div Width[2] [] OTHER -> Retention \div Width[3]

SlotTime(level, slotsBack) == Floor(level, minute - slotsBack * Width[level])

\* the present slot is put together from the levels below: the executions of this minute,
\* the minutes of this hour, the hours of this day
CurrentPeriod(level) ==
  {<<0, minute>>} \cup UNION {{k} \X Window(k + 1, Floor(k + 1, minute)) : k \in 1..(level - 1)}

Shown(records) == UNION {metric[r[1]][r[2]] : r \in records}

\* it replaces the record of the present slot, when there is one
ChartTotal(level) ==
  LET past == {SlotTime(level, i) : i \in 1..(Slots(level) - 1)} \cap Times
  IN ({level} \X past)
     \cup (IF Shown(CurrentPeriod(level)) # {} THEN CurrentPeriod(level) ELSE {<<level, SlotTime(level, 0)>>})

TotalExecutions(level) ==
  {level} \X {t \in Times : minute - Slots(level) * Width[level] < t /\ t <= minute}

-----------------------------------------------------------------------------
\* no execution is in two of the records
Apart(records) ==
  \A e \in 1..executions : \A r, q \in {p \in records : e \in metric[p[1]][p[2]]} : r = q

Waiting == UNION {{k} \X Unread(k) : k \in 0..3}

\* Every execution is in a record that a pass has still to read, or that no pass reads; a
\* run that breaks off anywhere leaves it there. It is missed only when it was stored after
\* its minute was read, when it expired, when a record could not be stored, or when the
\* minutes had stopped at maxMinutesPerRun and the hours went on without them. And unless a
\* run broke off, it is in exactly one of these records, or missed.
ExecutionsCounted ==
  /\ 1..executions \subseteq missed \cup Shown(Waiting)
  /\ breaks = 0 /\ run.step \notin {"store", "advance"} => Apart(Waiting) /\ missed \cap Shown(Waiting) = {}

\* A chart or a summary counts an execution twice only when a run broke off after it had
\* stored a record of the execution and before it had moved the marker past the record's
\* window, which is then stored again. Otherwise a reader finds it once, while a run is
\* between writing a record and deleting the records it stands for as well as between
\* runs: the levels that the present slot is put together from, and the slots before it,
\* never overlap, and no pass reads a window twice, whatever run broke off elsewhere.
CountOnce(records) ==
  Apart(records) /\ \A r \in records : doubled[r[1]][r[2]] \subseteq torn

ChartCountsOnce ==
  \A level \in Levels : CountOnce(ChartTotal(level)) /\ CountOnce(TotalExecutions(level))
=============================================================================
