----------------------- MODULE ExecutionRecordsProofs -----------------------
(***************************************************************************)
(* Theorems about what the program records of executions: ConsoleLogs, for *)
(* every number of entries and every sequence of page requests, and        *)
(* MetricsAggregation, for all widths, limits and numbers of executions    *)
(* and of runs that break off.                                             *)
(***************************************************************************)
EXTENDS ConsoleLogs, MetricsAggregation, FiniteSetTheorems, WellFoundedInduction,
        TLAPS

-----------------------------------------------------------------------------
(***************************************************************************)
(* The console logs                                                        *)
(***************************************************************************)

(* The newest records *)

\* every set of numbers has a smallest member
LEMMA SmallestMember == ASSUME NEW S \in SUBSET Nat, S # {} PROVE \E m \in S : \A x \in S : m <= x
<1>1. \E R : IsWellFoundedOn(R, Nat) /\ \A m, x \in Nat : x < m => <<x, m>> \in R
  <2> DEFINE Less == OpToRel(<, Nat)
  <2>1. IsWellFoundedOn(Less, Nat)
    BY NatLessThanWellFounded
  <2>2. \A m, x \in Nat : x < m => <<x, m>> \in Less
    BY DEF OpToRel
  <2> HIDE DEF Less
  <2> QED BY <2>1, <2>2
<1>2. PICK R : IsWellFoundedOn(R, Nat) /\ \A m, x \in Nat : x < m => <<x, m>> \in R
  BY <1>1
<1>3. PICK m \in S : \A x \in S : ~(<<x, m>> \in R)
  BY <1>2, WFMin
<1>4. \A k, x \in Nat : x < k => <<x, k>> \in R
  BY <1>2
<1>5. ASSUME NEW x \in S PROVE m <= x
  <2>1. m \in Nat /\ x \in Nat
    OBVIOUS
  <2>2. ~(x < m)
    BY <1>3, <1>4, <2>1
  <2> QED BY <2>1, <2>2
<1> QED BY <1>5

LEMMA OldestRecord == ASSUME NEW S \in SUBSET Nat, S # {} PROVE Min(S) \in S /\ \A x \in S : Min(S) <= x
<1>1. \E m \in S : \A x \in S : m <= x
  BY SmallestMember
<1> QED BY <1>1 DEF Min

\* what LIMIT n may give
LEMMA FirstsGiven ==
  ASSUME NEW S, NEW n, NEW rows \in Firsts(S, n)
  PROVE  /\ rows \subseteq S
         /\ \/ Cardinality(S) <= n /\ rows = S
            \/ /\ ~(Cardinality(S) <= n) /\ Cardinality(rows) = n
               /\ \A r \in rows, d \in S \ rows : Place(d) <= Place(r)
<1>1. CASE Cardinality(S) <= n
  BY <1>1 DEF Firsts
<1>2. CASE ~(Cardinality(S) <= n)
  <2>1. Newest(S, n) \subseteq S
    BY DEF Newest
  <2> QED BY <1>2, <2>1 DEF Firsts
<1> QED BY <1>1, <1>2

-----------------------------------------------------------------------------
(* The buffer *)

\* a batch is left only to a flush in flight, and what is left of it belongs to it
BufferInv ==
  /\ flushing.attempt = 0 => flushing.left = <<>>
  /\ ToSet(flushing.left) \subseteq ToSet(flushing.batch)
  /\ ToSet(buffer) \cup ToSet(flushing.batch) \subseteq 1..Len(captured)
  /\ LogsKept /\ BufferedIsScheduled

\* a record was shown, or one that ties with it
Seen(r) == r \in pager.shown \/ \E d \in pager.shown : Ties(r, d)

\* what a client that has not come to the end has still to see is older than its cursor
PagerInv ==
  /\ IsFiniteSet(executionLog) /\ EntriesOf(executionLog \cup pager.shown) \subseteq 1..Len(captured)
  /\ pager.stable \subseteq executionLog /\ pager.inOrder
  /\ pager.at = "none" => pager.shown = {} /\ pager.stable = {}
  /\ pager.at = "paging" => /\ \A d \in pager.shown : pager.cursor <= Place(d)
                            /\ \A r \in pager.stable : Seen(r) \/ Place(r) < pager.cursor
  /\ pager.at = "end" => \A r \in pager.stable : Seen(r)

LogsInv == LogsTypeOK /\ BufferInv /\ PagerInv

Batches == [batch : Seq(Entries), left : Seq(Entries), attempt : 0..2, locked : BOOLEAN]
Pagers  == [cursor : Nat, shown : SUBSET Records, stable : SUBSET Records,
            inOrder : BOOLEAN, at : {"none", "paging", "end"}]

LEMMA LogsTypeParts ==
  /\ LogsTypeOK <=>
       /\ captured \in Seq(Nat) /\ Len(captured) <= MaxEntries /\ buffer \in Seq(Entries)
       /\ flushTimer \in BOOLEAN /\ flushQueued \in BOOLEAN /\ flushing \in Batches
       /\ executionLog \subseteq Records /\ logsGone \subseteq Entries /\ refused \subseteq Entries
       /\ logService \in {"open", "closing", "closed"} /\ pager \in Pagers
  /\ LogsTypeOK' <=>
       /\ captured' \in Seq(Nat) /\ Len(captured') <= MaxEntries /\ buffer' \in Seq(Entries)
       /\ flushTimer' \in BOOLEAN /\ flushQueued' \in BOOLEAN /\ flushing' \in Batches
       /\ executionLog' \subseteq Records /\ logsGone' \subseteq Entries /\ refused' \subseteq Entries
       /\ logService' \in {"open", "closing", "closed"} /\ pager' \in Pagers
  BY DEF LogsTypeOK, Batches, Pagers

LEMMA NothingBuffered == <<>> \in Seq(Entries) /\ ToSet(<<>>) = {}
  BY DEF ToSet

LEMMA SequenceFits == ASSUME NEW s \in Seq(Entries) PROVE ToSet(s) \subseteq Entries
<1>1. ASSUME NEW i \in 1..Len(s) PROVE s[i] \in Entries
  OBVIOUS
<1>2. DOMAIN s = 1..Len(s)
  OBVIOUS
<1> QED BY <1>1, <1>2 DEF ToSet

LEMMA BufferGrows ==
  ASSUME NEW s \in Seq(Entries), NEW e \in Entries
  PROVE  Append(s, e) \in Seq(Entries) /\ ToSet(Append(s, e)) = ToSet(s) \cup {e}
<1> DEFINE t == Append(s, e)
<1>1. t \in Seq(Entries) /\ Len(s) \in Nat
  OBVIOUS
<1>2. DOMAIN s = 1..Len(s) /\ DOMAIN t = 1..(Len(s) + 1) /\ t[Len(s) + 1] = e
  OBVIOUS
<1>3. \A i \in 1..Len(s) : t[i] = s[i]
  OBVIOUS
<1>4. 1..(Len(s) + 1) = 1..Len(s) \cup {Len(s) + 1}
  BY <1>1
<1> HIDE DEF t
<1>5. ASSUME NEW i \in DOMAIN t PROVE t[i] \in ToSet(s) \cup {e}
  <2>1. i \in DOMAIN s \/ i = Len(s) + 1
    BY <1>2, <1>4
  <2>2. CASE i \in DOMAIN s
    BY <1>2, <1>3, <2>2 DEF ToSet
  <2>3. CASE i = Len(s) + 1
    BY <1>2, <2>3
  <2> QED BY <2>1, <2>2, <2>3
<1>6. ASSUME NEW i \in DOMAIN s PROVE s[i] \in ToSet(t)
  <2>1. i \in DOMAIN t /\ t[i] = s[i]
    BY <1>2, <1>3, <1>4
  <2> QED BY <2>1 DEF ToSet
<1>7. Len(s) + 1 \in DOMAIN t
  BY <1>2, <1>4
<1>8. ToSet(t) \subseteq ToSet(s) \cup {e} /\ ToSet(s) \subseteq ToSet(t) /\ e \in ToSet(t)
  BY <1>2, <1>5, <1>6, <1>7, Zenon DEF ToSet
<1> QED BY <1>1, <1>8 DEF t

LEMMA BatchShrinks ==
  ASSUME NEW s \in Seq(Entries), s # <<>>
  PROVE  /\ Head(s) \in Entries /\ Tail(s) \in Seq(Entries)
         /\ ToSet(s) = {Head(s)} \cup ToSet(Tail(s))
<1> DEFINE t == Tail(s)
<1>1. Len(s) \in Nat /\ Len(s) >= 1 /\ DOMAIN s = 1..Len(s) /\ Head(s) = s[1] /\ Head(s) \in Entries
  OBVIOUS
<1>2. t \in Seq(Entries) /\ DOMAIN t = 1..(Len(s) - 1)
  OBVIOUS
<1>3. \A i \in 1..(Len(s) - 1) : t[i] = s[i + 1]
  OBVIOUS
<1> HIDE DEF t
<1>4. ToSet(t) \subseteq ToSet(s) /\ Head(s) \in ToSet(s)
  <2>1. ASSUME NEW i \in DOMAIN t PROVE t[i] \in ToSet(s)
    <3>1. i + 1 \in DOMAIN s /\ t[i] = s[i + 1]
      BY <1>1, <1>2, <1>3
    <3> QED BY <3>1 DEF ToSet
  <2>2. 1 \in DOMAIN s
    BY <1>1
  <2> QED BY <1>1, <2>1, <2>2 DEF ToSet
<1>5. ASSUME NEW i \in DOMAIN s, i # 1 PROVE s[i] \in ToSet(t)
  <2>1. i - 1 \in DOMAIN t /\ t[i - 1] = s[i]
    BY <1>1, <1>2, <1>3, <1>5
  <2> QED BY <2>1 DEF ToSet
<1>6. ToSet(s) \subseteq {Head(s)} \cup ToSet(t)
  BY <1>1, <1>5 DEF ToSet
<1> QED BY <1>1, <1>2, <1>4, <1>6 DEF t

\* an entry keeps its place
LEMMA PlacesStay ==
  ASSUME LogsTypeOK, captured' = captured \/ \E p \in Nat : captured' = Append(captured, p)
  PROVE  /\ Len(captured) <= Len(captured') /\ Len(captured) \in Nat /\ Len(captured') \in Nat
         /\ \A e \in 1..Len(captured) : captured'[e] = captured[e] /\ captured[e] \in Nat
<1>1. captured \in Seq(Nat)
  BY LogsTypeParts
<1>2. CASE captured' = captured
  BY <1>1, <1>2
<1>3. ASSUME NEW p \in Nat, captured' = Append(captured, p)
      PROVE  /\ Len(captured) <= Len(captured') /\ Len(captured) \in Nat /\ Len(captured') \in Nat
             /\ \A e \in 1..Len(captured) : captured'[e] = captured[e] /\ captured[e] \in Nat
  BY <1>1, <1>3
<1> QED BY <1>2, <1>3

LEMMA PagerWaits ==
  ASSUME LogsTypeOK, PagerInv, UNCHANGED pager, executionLog \subseteq executionLog',
         captured' = captured \/ \E p \in Nat : captured' = Append(captured, p),
         IsFiniteSet(executionLog'), EntriesOf(executionLog') \subseteq 1..Len(captured')
  PROVE  PagerInv'
<1>1. \A r \in executionLog \cup pager.shown : r.entry \in 1..Len(captured) /\ Place(r)' = Place(r)
  BY PlacesStay DEF PagerInv, EntriesOf, Place
<1>2. \A r \in executionLog \cup pager.shown : r.entry \in 1..Len(captured')
  BY <1>1, PlacesStay
<1>3. EntriesOf(executionLog' \cup pager'.shown) \subseteq 1..Len(captured')
  BY <1>2 DEF EntriesOf
<1>4. pager.stable \subseteq executionLog
  BY DEF PagerInv
<1>5. \A r \in pager.stable : Seen(r)' <=> Seen(r)
  BY <1>1, <1>4 DEF Seen, Ties
<1> QED BY <1>1, <1>3, <1>4, <1>5 DEF PagerInv

\* the log is as it was, or has fewer records
LEMMA LogStays ==
  ASSUME LogsInv, UNCHANGED <<captured, executionLog, pager>> PROVE PagerInv'
  BY PagerWaits DEF LogsInv, PagerInv, EntriesOf

-----------------------------------------------------------------------------
(* The steps of the buffer *)

LEMMA CapturesStep == ASSUME LogsInv, NEW timestamp \in Timestamps, Captures(timestamp) PROVE LogsInv'
<1>0. Captures(timestamp) /\ LogsTypeOK /\ BufferInv /\ PagerInv /\ MaxEntries \in Nat /\ timestamp \in Nat
  BY LogsAssumption DEF LogsInv
<1> DEFINE n == Len(captured)
           place == timestamp * MaxEntries + Len(buffer)
<1>1. captured \in Seq(Nat) /\ n \in Nat /\ n < MaxEntries /\ buffer \in Seq(Entries)
  BY <1>0, LogsTypeParts DEF Captures
<1>2. place \in Nat
  <2>1. timestamp * MaxEntries \in Nat
    BY <1>0
  <2> QED BY <1>1, <2>1
<1>3. captured' = Append(captured, place) /\ captured' \in Seq(Nat) /\ Len(captured') = n + 1
  <2>1. captured' = Append(captured, place)
    BY <1>0 DEF Captures
  <2> HIDE DEF place
  <2> QED BY <1>1, <1>2, <2>1
<1>4. n + 1 \in 1..MaxEntries /\ 1..(n + 1) = 1..n \cup {n + 1}
  <2> HIDE DEF n
  <2>1. n + 1 \in 1..MaxEntries
    BY <1>0, <1>1
  <2>2. 1..(n + 1) = 1..n \cup {n + 1}
    BY <1>1
  <2> QED BY <2>1, <2>2
<1>5. buffer' \in Seq(Entries) /\ ToSet(buffer') = ToSet(buffer) \cup {n + 1}
  <2>1. n + 1 \in Entries /\ buffer' = Append(buffer, n + 1)
    BY <1>0, <1>3, <1>4 DEF Entries, Captures
  <2> QED BY <1>1, <2>1, BufferGrows
<1> HIDE DEF n, place
<1>6. LogsTypeOK'
  <2>1. flushTimer' \in BOOLEAN /\ flushQueued' \in BOOLEAN
    BY <1>0, LogsTypeParts, Zenon DEF Captures
  <2>2. UNCHANGED <<flushing, executionLog, logsGone, refused, logService, pager>>
    BY <1>0 DEF Captures
  <2>3. Len(captured') <= MaxEntries
    BY <1>0, <1>3, <1>4
  <2> QED BY <1>0, <1>3, <1>5, <2>1, <2>2, <2>3, LogsTypeParts
<1>7. LogsKept' /\ ToSet(buffer') \cup ToSet(flushing'.batch) \subseteq 1..Len(captured')
  <2>1. 1..Len(captured') = 1..Len(captured) \cup {n + 1}
    BY <1>3, <1>4 DEF n
  <2>2. UNCHANGED <<flushing, executionLog, logsGone>>
    BY <1>0 DEF Captures
  <2> QED BY <1>0, <1>5, <2>1, <2>2 DEF BufferInv, LogsKept
<1>8. flushTimer' \/ flushQueued'
  BY <1>0, Zenon DEF Captures
<1>9. BufferInv'
  BY <1>0, <1>7, <1>8, Zenon DEF BufferInv, BufferedIsScheduled, Captures
<1>10. PagerInv'
  <2>1. UNCHANGED <<executionLog, pager>> /\ IsFiniteSet(executionLog)
    BY <1>0 DEF Captures, PagerInv
  <2>2. EntriesOf(executionLog) \subseteq 1..n /\ 1..n \subseteq 1..Len(captured')
    BY <1>0, <1>3, <1>4 DEF PagerInv, EntriesOf, n
  <2> QED BY <1>0, <1>2, <1>3, <2>1, <2>2, PagerWaits
<1> QED BY <1>6, <1>9, <1>10 DEF LogsInv

\* flush() with what its three callers leave alone
LEMMA FlushStep ==
  ASSUME LogsInv, Flush, UNCHANGED <<captured, executionLog, logsGone, pager>>,
         flushTimer' \in BOOLEAN, flushQueued' \in BOOLEAN, logService' \in {"open", "closing", "closed"}
  PROVE  LogsInv'
<1>0. LogsTypeOK /\ BufferInv /\ PagerInv /\ buffer \in Seq(Entries) /\ flushing \in Batches
  BY LogsTypeParts DEF LogsInv
<1>1. PagerInv'
  BY LogStays
<1>2. CASE isFlushing
  <2>1. refused' = ToSet(buffer) /\ UNCHANGED <<buffer, flushing>>
    BY <1>2 DEF Flush
  <2>2. refused' \subseteq Entries
    BY <1>0, <2>1, SequenceFits
  <2>3. LogsTypeOK'
    BY <1>0, <2>1, <2>2, LogsTypeParts
  <2>4. BufferInv'
    BY <1>0, <2>1 DEF BufferInv, LogsKept, BufferedIsScheduled
  <2> QED BY <1>1, <2>3, <2>4 DEF LogsInv
<1>3. CASE ~isFlushing
  <2>1. buffer' = <<>> /\ refused' = {} /\ flushing.left = <<>>
    BY <1>0, <1>3 DEF Flush, isFlushing, BufferInv
  <2>2. /\ flushing' \in Batches /\ ToSet(flushing'.left) = ToSet(buffer)
        /\ ToSet(flushing'.batch) = ToSet(buffer) /\ (flushing'.attempt = 0 => flushing'.left = <<>>)
    <3>1. CASE buffer = <<>>
      <4>1. flushing' = NotBusy
        BY <1>3, <3>1 DEF Flush
      <4> QED BY <3>1, <4>1, NothingBuffered DEF NotBusy, Batches
    <3>2. CASE buffer # <<>>
      <4>1. flushing' = [batch |-> buffer, left |-> buffer, attempt |-> 1, locked |-> FALSE]
        BY <1>3, <3>2 DEF Flush
      <4> QED BY <1>0, <4>1 DEF Batches
    <3> QED BY <3>1, <3>2
  <2>3. LogsTypeOK'
    BY <1>0, <2>1, <2>2, NothingBuffered, LogsTypeParts
  <2>4. ToSet(flushing.left) = {} /\ ToSet(buffer') = {}
    BY <2>1, NothingBuffered
  <2>5. LogsKept'
    BY <1>0, <2>2, <2>4 DEF BufferInv, LogsKept
  <2>6. BufferInv'
    BY <1>0, <2>2, <2>4, <2>5 DEF BufferInv, BufferedIsScheduled
  <2> QED BY <1>1, <2>3, <2>6 DEF LogsInv
<1> QED BY <1>2, <1>3

LEMMA AcquiresWriteStep == ASSUME LogsInv, AcquiresWrite PROVE LogsInv'
<1>0. LogsTypeOK /\ BufferInv /\ flushing \in Batches
  BY LogsTypeParts DEF LogsInv
<1>1. /\ flushing' = [flushing EXCEPT !.locked = TRUE]
      /\ UNCHANGED <<captured, buffer, flushTimer, flushQueued, executionLog, logsGone, refused, logService, pager>>
  BY DEF AcquiresWrite
<1>2. /\ flushing' \in Batches /\ flushing'.left = flushing.left
      /\ flushing'.batch = flushing.batch /\ flushing'.attempt = flushing.attempt
  BY <1>0, <1>1 DEF Batches
<1>3. LogsTypeOK'
  BY <1>0, <1>1, <1>2, LogsTypeParts
<1>4. BufferInv'
  BY <1>0, <1>1, <1>2 DEF BufferInv, LogsKept, BufferedIsScheduled
<1> QED BY <1>1, <1>3, <1>4, LogStays DEF LogsInv

LEMMA InsertsStep == ASSUME LogsInv, Inserts PROVE LogsInv'
<1>0. LogsTypeOK /\ BufferInv /\ PagerInv /\ flushing \in Batches /\ flushing.left # <<>>
  BY LogsTypeParts DEF LogsInv, Inserts, Inserting
<1> DEFINE e == Head(flushing.left)
           record == [entry |-> e, attempt |-> flushing.attempt]
<1>1. flushing.left \in Seq(Entries) /\ flushing.attempt \in 1..2
  BY <1>0 DEF Batches, BufferInv
<1>2. /\ executionLog' = executionLog \cup {record}
      /\ flushing' = [flushing EXCEPT !.left = Tail(flushing.left)]
      /\ UNCHANGED <<captured, buffer, flushTimer, flushQueued, logsGone, refused, logService, pager>>
  BY DEF Inserts
<1>3. /\ e \in Entries /\ Tail(flushing.left) \in Seq(Entries)
      /\ ToSet(flushing.left) = {e} \cup ToSet(Tail(flushing.left))
  BY <1>0, <1>1, BatchShrinks
<1>4. record \in Records /\ record.entry = e
  BY <1>1, <1>3 DEF Records
<1> HIDE DEF e, record
<1>5. /\ flushing' \in Batches /\ flushing'.left = Tail(flushing.left)
      /\ flushing'.batch = flushing.batch /\ flushing'.attempt = flushing.attempt
  BY <1>0, <1>2, <1>3 DEF Batches
<1>6. LogsTypeOK'
  BY <1>0, <1>2, <1>4, <1>5, LogsTypeParts
<1>7. EntriesOf(executionLog') = EntriesOf(executionLog) \cup {e}
  BY <1>2, <1>4 DEF EntriesOf
<1>8. BufferInv'
  <2>1. flushing.attempt # 0
    BY <1>1
  <2> QED BY <1>0, <1>2, <1>3, <1>5, <1>7, <2>1 DEF BufferInv, LogsKept, BufferedIsScheduled
<1>9. PagerInv'
  <2>1. e \in 1..Len(captured)
    BY <1>0, <1>3 DEF BufferInv
  <2>2. IsFiniteSet(executionLog')
    BY <1>0, <1>2, FS_AddElement DEF PagerInv
  <2>3. EntriesOf(executionLog') \subseteq 1..Len(captured')
    BY <1>0, <1>2, <1>7, <2>1 DEF PagerInv, EntriesOf
  <2> QED BY <1>0, <1>2, <2>2, <2>3, PagerWaits
<1> QED BY <1>6, <1>8, <1>9 DEF LogsInv

LEMMA InsertFailsStep == ASSUME LogsInv, InsertFails PROVE LogsInv'
<1>0. LogsTypeOK /\ BufferInv /\ PagerInv /\ flushing \in Batches
  BY LogsTypeParts DEF LogsInv
<1>1. UNCHANGED <<captured, buffer, flushTimer, flushQueued, executionLog, refused, logService, pager>>
  BY DEF InsertFails
<1>2. PagerInv'
  BY <1>1, LogStays
<1>3. flushing.batch \in Seq(Entries) /\ flushing.left \in Seq(Entries) /\ flushing.left # <<>>
  BY <1>0 DEF Batches, InsertFails, Inserting
<1>4. CASE flushing.attempt = 1
  <2>1. flushing' = [flushing EXCEPT !.left = flushing.batch, !.attempt = 2, !.locked = FALSE] /\ UNCHANGED logsGone
    BY <1>4 DEF InsertFails
  <2>2. /\ flushing' \in Batches /\ flushing'.left = flushing.batch
        /\ flushing'.batch = flushing.batch /\ flushing'.attempt = 2
    <3>1. 2 \in 0..2
      OBVIOUS
    <3> QED BY <1>0, <1>3, <2>1, <3>1 DEF Batches
  <2>3. LogsTypeOK'
    BY <1>0, <1>1, <2>1, <2>2, LogsTypeParts
  <2>4. BufferInv'
    BY <1>0, <1>1, <2>1, <2>2 DEF BufferInv, LogsKept, BufferedIsScheduled
  <2> QED BY <1>2, <2>3, <2>4 DEF LogsInv
<1>5. CASE flushing.attempt # 1
  <2>1. flushing' = [flushing EXCEPT !.left = <<>>] /\ logsGone' = logsGone \cup ToSet(flushing.left)
    BY <1>5 DEF InsertFails
  <2>2. /\ flushing' \in Batches /\ flushing'.left = <<>>
        /\ flushing'.batch = flushing.batch /\ flushing'.attempt = flushing.attempt
    BY <1>0, <2>1, NothingBuffered DEF Batches
  <2>3. LogsTypeOK'
    BY <1>0, <1>1, <1>3, <2>1, <2>2, SequenceFits, LogsTypeParts
  <2>4. BufferInv'
    BY <1>0, <1>1, <2>1, <2>2, NothingBuffered DEF BufferInv, LogsKept, BufferedIsScheduled
  <2> QED BY <1>2, <2>3, <2>4 DEF LogsInv
<1> QED BY <1>4, <1>5

LEMMA FlushEndsStep == ASSUME LogsInv, FlushEnds PROVE LogsInv'
<1>0. LogsTypeOK /\ BufferInv /\ PagerInv /\ flushing.left = <<>>
  BY DEF LogsInv, FlushEnds
<1>1. flushing' = NotBusy /\ UNCHANGED <<captured, buffer, flushTimer, flushQueued, executionLog, logsGone, refused, logService, pager>>
  BY DEF FlushEnds
<1>2. flushing' \in Batches /\ flushing'.left = <<>> /\ flushing'.batch = <<>>
  BY <1>1, NothingBuffered DEF NotBusy, Batches
<1>3. LogsTypeOK'
  BY <1>0, <1>1, <1>2, LogsTypeParts
<1>4. BufferInv'
  BY <1>0, <1>1, <1>2, NothingBuffered DEF BufferInv, LogsKept, BufferedIsScheduled
<1>5. PagerInv'
  BY <1>1, LogStays
<1> QED BY <1>3, <1>4, <1>5 DEF LogsInv

LEMMA ShutdownBeginsStep == ASSUME LogsInv, ShutdownBegins PROVE LogsInv'
<1>0. LogsTypeOK /\ BufferInv /\ PagerInv
  BY DEF LogsInv
<1>1. LogsTypeOK'
  BY <1>0, LogsTypeParts DEF ShutdownBegins
<1>2. BufferInv'
  BY <1>0 DEF BufferInv, LogsKept, BufferedIsScheduled, ShutdownBegins
<1>3. PagerInv'
  BY LogStays DEF ShutdownBegins
<1> QED BY <1>1, <1>2, <1>3 DEF LogsInv

-----------------------------------------------------------------------------
(* Deletions and pages *)

LEMMA DeletesStep ==
  ASSUME LogsInv, NEW old, old \subseteq executionLog, Deletes(old) PROVE LogsInv'
<1>0. LogsTypeOK /\ BufferInv /\ PagerInv /\ pager \in Pagers /\ executionLog \subseteq Records
  BY LogsTypeParts DEF LogsInv
<1>1. /\ executionLog' = executionLog \ old /\ logsGone' = logsGone \cup EntriesOf(old)
      /\ pager' = [pager EXCEPT !.stable = pager.stable \ old]
      /\ UNCHANGED <<captured, buffer, flushTimer, flushQueued, flushing, refused, logService>>
  BY DEF Deletes
<1>2. /\ pager' \in Pagers /\ pager'.stable = pager.stable \ old /\ pager'.shown = pager.shown
      /\ pager'.cursor = pager.cursor /\ pager'.at = pager.at /\ pager'.inOrder = pager.inOrder
  BY <1>0, <1>1 DEF Pagers
<1>3. EntriesOf(old) \subseteq Entries /\ EntriesOf(executionLog) = EntriesOf(executionLog \ old) \cup EntriesOf(old)
  BY <1>0 DEF EntriesOf, Records
<1>4. LogsTypeOK'
  BY <1>0, <1>1, <1>2, <1>3, LogsTypeParts
<1>5. BufferInv'
  BY <1>0, <1>1, <1>3 DEF BufferInv, LogsKept, BufferedIsScheduled
<1>6. PagerInv'
  <2>1. IsFiniteSet(executionLog')
    BY <1>0, <1>1, FS_Subset DEF PagerInv
  <2>2. \A r : (Place(r)' = Place(r)) /\ (Seen(r)' <=> Seen(r))
    BY <1>1, <1>2 DEF Place, Seen, Ties
  <2>3. EntriesOf(executionLog' \cup pager'.shown) \subseteq 1..Len(captured')
    BY <1>0, <1>1, <1>2 DEF PagerInv, EntriesOf
  <2>4. pager'.stable \subseteq executionLog' /\ pager'.stable \subseteq pager.stable
    BY <1>0, <1>1, <1>2 DEF PagerInv
  <2> QED BY <1>0, <1>2, <2>1, <2>2, <2>3, <2>4 DEF PagerInv
<1> QED BY <1>4, <1>5, <1>6 DEF LogsInv

\* what a page leaves of the older records is not newer than any of it
LEMMA PageIsNext ==
  ASSUME NEW older, IsFiniteSet(older), \A r \in older : Place(r) \in Nat,
         NEW rows \in Firsts(older, limit + 1), NEW page \in Firsts(rows, limit),
         NEW last, last = Min({Place(r) : r \in page})
  PROVE  /\ page \subseteq older
         /\ Cardinality(rows) > limit =>
              /\ last \in Nat /\ \E r \in page : Place(r) = last
              /\ \A r \in page : last <= Place(r)
              /\ \A r \in older \ page : Place(r) <= last
         /\ ~(Cardinality(rows) > limit) => page = older
<1>1. limit \in Nat /\ limit >= 1 /\ limit + 1 \in Nat
  BY LogsAssumption
<1>2. rows \subseteq older /\ page \subseteq rows
  BY FirstsGiven
<1>3. Cardinality(rows) \in Nat /\ Cardinality(page) \in Nat /\ Cardinality(older) \in Nat
  BY <1>2, FS_Subset, FS_CardinalityType
<1>4. CASE Cardinality(rows) > limit
  <2>1. Cardinality(page) = limit /\ \A r \in page, d \in rows \ page : Place(d) <= Place(r)
    <3>1. ~(Cardinality(rows) <= limit)
      BY <1>1, <1>3, <1>4
    <3> QED BY <3>1, FirstsGiven
  <2>2. page # {}
    BY <1>1, <2>1, FS_EmptySet
  <2>3. last \in {Place(r) : r \in page} /\ \A x \in {Place(r) : r \in page} : last <= x
    <3>1. {Place(r) : r \in page} \in SUBSET Nat /\ {Place(r) : r \in page} # {}
      BY <1>2, <2>2
    <3> QED BY <3>1, OldestRecord
  <2>4. PICK m \in page : Place(m) = last
    BY <2>3
  <2>5. ASSUME NEW r \in older \ page PROVE Place(r) <= last
    <3>1. CASE r \in rows
      BY <2>1, <2>4, <3>1
    <3>2. CASE r \notin rows
      <4>1. \A q \in rows, d \in older \ rows : Place(d) <= Place(q)
        BY <3>2, FirstsGiven
      <4> QED BY <1>2, <2>4, <3>2, <4>1
    <3> QED BY <3>1, <3>2
  <2>6. last \in Nat
    BY <1>2, <2>4
  <2> QED BY <1>2, <1>4, <2>3, <2>4, <2>5, <2>6
<1>5. CASE ~(Cardinality(rows) > limit)
  <2>1. Cardinality(rows) <= limit /\ Cardinality(rows) # limit + 1
    BY <1>1, <1>3, <1>5
  <2>2. rows = older
    BY <2>1, FirstsGiven
  <2>3. page = rows
    BY <2>1, FirstsGiven
  <2> QED BY <1>2, <1>5, <2>2, <2>3
<1> QED BY <1>4, <1>5

LEMMA GetPaginatedStep == ASSUME LogsInv, GetPaginated PROVE LogsInv'
<1>0. LogsTypeOK /\ BufferInv /\ PagerInv /\ pager \in Pagers /\ executionLog \subseteq Records
  BY LogsTypeParts DEF LogsInv
<1>1. PICK rows \in Firsts(Older, limit + 1) : \E page \in Firsts(rows, limit) : ShowsPage(rows, page)
  BY DEF GetPaginated, Rows
<1>2. PICK page \in Firsts(rows, limit) : ShowsPage(rows, page)
  BY <1>1
<1> DEFINE last == Min({Place(r) : r \in page})
           hasMore == Cardinality(rows) > limit
<1>3. /\ pager.at # "end" /\ pager.at \in {"none", "paging", "end"}
      /\ UNCHANGED <<captured, buffer, flushTimer, flushQueued, flushing, executionLog, logsGone,
                     refused, logService>>
      /\ pager' = [cursor  |-> IF hasMore THEN last ELSE 0,
                   shown   |-> pager.shown \cup page,
                   stable  |-> IF pager.at = "none" THEN executionLog ELSE pager.stable,
                   inOrder |-> pager.inOrder /\ \A r \in page, d \in pager.shown : Place(r) < Place(d),
                   at      |-> IF hasMore THEN "paging" ELSE "end"]
  BY <1>0, <1>2 DEF GetPaginated, ShowsPage, Pagers
<1>4. \A r \in executionLog \cup pager.shown : Place(r) \in Nat
  <2>1. \A e \in 1..Len(captured) : captured[e] \in Nat
    BY <1>0, LogsTypeParts
  <2> QED BY <1>0, <2>1 DEF PagerInv, EntriesOf, Place
<1>5. Older \subseteq executionLog /\ IsFiniteSet(Older)
  <2>1. Older \subseteq executionLog
    BY DEF Older
  <2> QED BY <1>0, <2>1, FS_Subset DEF PagerInv
<1>6. /\ page \subseteq Older
      /\ hasMore => /\ last \in Nat /\ \E r \in page : Place(r) = last
                    /\ \A r \in page : last <= Place(r)
                    /\ \A r \in Older \ page : Place(r) <= last
      /\ ~hasMore => page = Older
  BY <1>1, <1>2, <1>4, <1>5, PageIsNext
<1>7. \A r \in page, d \in pager.shown : Place(r) < Place(d)
  <2>1. CASE pager.at = "none"
    BY <1>0, <2>1 DEF PagerInv
  <2>2. CASE pager.at = "paging"
    <3>1. \A r \in page : Place(r) < pager.cursor /\ Place(r) \in Nat
      BY <1>4, <1>5, <1>6, <2>2 DEF Older
    <3>2. \A d \in pager.shown : pager.cursor <= Place(d) /\ Place(d) \in Nat
      BY <1>0, <1>4, <2>2 DEF PagerInv
    <3>3. pager.cursor \in Nat
      BY <1>0 DEF Pagers
    <3> QED BY <3>1, <3>2, <3>3
  <2> QED BY <1>3, <2>1, <2>2
<1> HIDE DEF last, hasMore
<1>8. /\ pager'.shown = pager.shown \cup page /\ pager'.inOrder = TRUE
      /\ pager'.at = (IF hasMore THEN "paging" ELSE "end") /\ pager'.cursor = (IF hasMore THEN last ELSE 0)
  BY <1>0, <1>3, <1>7 DEF PagerInv
<1>9. /\ pager'.stable \subseteq executionLog
      /\ \A r \in pager'.stable : Seen(r) \/ r \in Older
  <2>1. CASE pager.at = "none"
    BY <1>3, <2>1 DEF Older
  <2>2. CASE pager.at = "paging"
    <3>1. pager'.stable = pager.stable /\ pager.stable \subseteq executionLog
      BY <1>0, <1>3, <2>2 DEF PagerInv
    <3>2. \A r \in pager.stable : Seen(r) \/ Place(r) < pager.cursor
      BY <1>0, <2>2 DEF PagerInv
    <3> QED BY <2>2, <3>1, <3>2 DEF Older
  <2> QED BY <1>3, <2>1, <2>2
<1>10. \A r : Place(r)' = Place(r) /\ (Seen(r) => Seen(r)') /\ (r \in page => Seen(r)')
  BY <1>3, <1>8 DEF Place, Seen, Ties
<1>11. EntriesOf(executionLog' \cup pager'.shown) \subseteq 1..Len(captured') /\ IsFiniteSet(executionLog')
  BY <1>0, <1>3, <1>5, <1>6, <1>8 DEF PagerInv, EntriesOf
<1>12. PagerInv'
  <2>1. CASE hasMore
    <3>1. PICK m \in page : Place(m) = last
      BY <1>6, <2>1
    <3>2. ASSUME NEW d \in pager'.shown PROVE last <= Place(d)
      <4>1. CASE d \in page
        BY <1>6, <2>1, <4>1
      <4>2. CASE d \in pager.shown
        <5>1. Place(m) < Place(d) /\ Place(m) \in Nat /\ Place(d) \in Nat
          BY <1>4, <1>5, <1>6, <1>7, <4>2
        <5> QED BY <3>1, <5>1
      <4> QED BY <1>8, <4>1, <4>2
    <3>3. ASSUME NEW r \in pager'.stable PROVE Seen(r)' \/ Place(r) < last
      <4>1. CASE Seen(r) \/ r \in page
        BY <1>10, <4>1
      <4>2. CASE r \in Older \ page
        <5>1. Place(r) <= last /\ Place(r) \in Nat /\ last \in Nat
          BY <1>4, <1>5, <1>6, <2>1, <4>2
        <5>2. CASE Place(r) = last
          <6>1. m # r /\ m \in pager'.shown
            BY <1>8, <4>2
          <6>2. Place(r)' = Place(m)'
            BY <1>10, <3>1, <5>2
          <6> QED BY <6>1, <6>2 DEF Seen, Ties
        <5> QED BY <5>1, <5>2
      <4> QED BY <1>9, <4>1, <4>2
    <3>4. pager'.at = "paging" /\ pager'.cursor = last /\ pager'.stable \subseteq executionLog'
      BY <1>3, <1>8, <1>9, <2>1
    <3> QED BY <1>8, <1>10, <1>11, <3>2, <3>3, <3>4 DEF PagerInv
  <2>2. CASE ~hasMore
    <3>1. \A r \in pager'.stable : Seen(r)'
      BY <1>6, <1>9, <1>10, <2>2
    <3>2. pager'.at = "end" /\ pager'.stable \subseteq executionLog'
      BY <1>3, <1>8, <1>9, <2>2
    <3> QED BY <1>8, <1>11, <3>1, <3>2 DEF PagerInv
  <2> QED BY <2>1, <2>2
<1>13. pager' \in Pagers
  <2>1. pager'.cursor \in Nat /\ pager'.at \in {"none", "paging", "end"}
    BY <1>6, <1>8
  <2>2. pager'.stable \in SUBSET Records /\ pager'.shown \in SUBSET Records
    BY <1>0, <1>5, <1>6, <1>8, <1>9 DEF Pagers
  <2> QED BY <1>3, <1>8, <2>1, <2>2 DEF Pagers
<1>14. LogsTypeOK'
  BY <1>0, <1>3, <1>13, LogsTypeParts
<1>15. BufferInv'
  BY <1>0, <1>3 DEF BufferInv, LogsKept, BufferedIsScheduled
<1> QED BY <1>12, <1>14, <1>15 DEF LogsInv

-----------------------------------------------------------------------------
(* The theorems *)

LEMMA LogsInitInv == LogsInit => LogsInv
<1> SUFFICES ASSUME LogsInit PROVE LogsInv
  OBVIOUS
<1>1. captured = <<>> /\ Len(captured) = 0 /\ captured \in Seq(Nat) /\ 0 <= MaxEntries
  BY LogsAssumption DEF LogsInit
<1>2. pager \in Pagers /\ flushing \in Batches
  BY NothingBuffered DEF LogsInit, Pagers, Batches, NotBusy
<1>3. LogsTypeOK
  BY <1>1, <1>2, NothingBuffered, LogsTypeParts DEF LogsInit
<1>4. BufferInv
  <2>1. 1..0 = {}
    OBVIOUS
  <2> QED BY <1>1, <2>1, NothingBuffered DEF LogsInit, BufferInv, LogsKept, BufferedIsScheduled, NotBusy
<1>5. PagerInv
  BY FS_EmptySet DEF LogsInit, PagerInv, EntriesOf
<1> QED BY <1>3, <1>4, <1>5 DEF LogsInv

LEMMA LogsStepInv == LogsInv /\ [LogsNext]_logVars => LogsInv'
<1> SUFFICES ASSUME LogsInv, [LogsNext]_logVars PROVE LogsInv'
  OBVIOUS
<1>1. CASE UNCHANGED logVars
  <2>1. LogsTypeOK' /\ BufferInv'
    BY <1>1 DEF logVars, LogsInv, LogsTypeOK, BufferInv, LogsKept, BufferedIsScheduled
  <2> QED BY <1>1, <2>1, LogStays DEF logVars, LogsInv
<1>2. ASSUME NEW source, NEW message, Intercepts(source, message) PROVE LogsInv'
  <2>1. PICK timestamp \in Timestamps : Captures(timestamp)
    BY <1>2, Zenon DEF Intercepts
  <2> QED BY <2>1, CapturesStep
<1>3. ASSUME FlushTimerFires \/ QueuedFlush \/ LastFlush PROVE LogsInv'
  <2>1. LogsTypeOK
    BY DEF LogsInv
  <2>2. /\ Flush /\ UNCHANGED <<captured, executionLog, logsGone, pager>>
        /\ flushTimer' \in BOOLEAN /\ flushQueued' \in BOOLEAN
        /\ logService' \in {"open", "closing", "closed"}
    BY <1>3, <2>1, LogsTypeParts DEF FlushTimerFires, QueuedFlush, LastFlush
  <2> QED BY <2>2, FlushStep
<1>4. ASSUME TrimToLimit \/ DeleteOfFunction \/ \E date \in Timestamps : DeleteOlderThan(date) PROVE LogsInv'
  <2>1. CASE TrimToLimit
    BY <2>1, DeletesStep DEF TrimToLimit
  <2>2. CASE DeleteOfFunction
    BY <2>2, DeletesStep DEF DeleteOfFunction
  <2>3. ASSUME NEW date \in Timestamps, DeleteOlderThan(date) PROVE LogsInv'
    BY <2>3, DeletesStep DEF DeleteOlderThan
  <2> QED BY <1>4, <2>1, <2>2, <2>3
<1> QED BY <1>1, <1>2, <1>3, <1>4, AcquiresWriteStep, InsertsStep, InsertFailsStep, FlushEndsStep, ShutdownBeginsStep,
           GetPaginatedStep DEF LogsNext

LEMMA LogsInvariant == LogsSpec => []LogsInv
<1>1. LogsInit => LogsInv
  BY LogsInitInv
<1>2. LogsInv /\ [LogsNext]_logVars => LogsInv'
  BY LogsStepInv
<1> QED BY <1>1, <1>2, PTL DEF LogsSpec

\* Buffer, batch, table and client keep their types (console_log_service.ts).
THEOREM LogsTypeCorrect == LogsSpec => []LogsTypeOK
<1>1. LogsInv => LogsTypeOK
  BY DEF LogsInv
<1> QED BY <1>1, LogsInvariant, PTL

\* Every entry that store() has accepted is in the buffer, in the batch that is being written
\* or in the table until the retry fails or it is deleted, however flush() overlaps store(),
\* a failing write, a deletion and shutdown().
THEOREM EntriesAreKept == LogsSpec => []LogsKept
<1>1. LogsInv => LogsKept
  BY DEF LogsInv, BufferInv
<1> QED BY <1>1, LogsInvariant, PTL

\* While the service is open, scheduleFlush() has a flush coming for every entry in the
\* buffer that no flush() has refused because another was in flight.
THEOREM BufferedEntriesAreScheduled == LogsSpec => []BufferedIsScheduled
<1>1. LogsInv => BufferedIsScheduled
  BY DEF LogsInv, BufferInv
<1> QED BY <1>1, LogsInvariant, PTL

\* getPaginated() shows a client that follows its cursors every record that was in the table
\* from the first to the last page, or one with the same timestamp and sequence, and never
\* goes back to what it has shown: for every clock, however many records tie and however many
\* a page has, whatever is written, written again and deleted between two pages.
THEOREM PagesShowEverything == LogsSpec => []PagesAreWhole
<1>1. LogsInv => PagesAreWhole
  BY DEF LogsInv, PagerInv, PagesAreWhole, Seen
<1> QED BY <1>1, LogsInvariant, PTL

-----------------------------------------------------------------------------
(***************************************************************************)
(* The metrics                                                             *)
(***************************************************************************)

(* The windows *)

Aligned(level, t) == t % Width[level] = 0

LEMMA Widths ==
  /\ \A l \in Levels : Width[l] \in Nat \ {0} /\ Width[l] \in Int /\ Width[l] > 0
  /\ Width[1] = 1 /\ MaxTime \in Nat /\ Levels = 1..3
<1>1. \A l \in Levels : Width[l] \in Nat \ {0}
  BY MetricsAssumption
<1> QED BY <1>1, MetricsAssumption DEF Levels

LEMMA Multiples ==
  ASSUME NEW w \in Nat \ {0}, NEW t \in Int, t % w = 0 PROVE \E q \in Int : t = q * w
<1>1. t \div w \in Int /\ t = (t \div w) * w + (t % w)
  OBVIOUS
<1> QED BY <1>1

LEMMA NextMultiple ==
  ASSUME NEW w \in Nat \ {0}, NEW a \in Int, NEW b \in Int, a * w < b * w PROVE a * w + w <= b * w
<1>1. a + 1 <= b
  OBVIOUS
<1>2. (a + 1) * w <= b * w
  BY <1>1
<1> QED BY <1>2

\* two windows of a level are the same or apart
LEMMA WindowsApart ==
  ASSUME NEW l \in Levels, NEW t \in Int, NEW u \in Int, Aligned(l, t), Aligned(l, u), t < u
  PROVE  t + Width[l] <= u
<1>1. Width[l] \in Nat \ {0}
  BY Widths
<1>2. PICK a \in Int : t = a * Width[l]
  BY <1>1, Multiples DEF Aligned
<1>3. PICK b \in Int : u = b * Width[l]
  BY <1>1, Multiples DEF Aligned
<1> QED BY <1>1, <1>2, <1>3, NextMultiple

LEMMA NextIsAligned ==
  ASSUME NEW l \in Levels, NEW t \in Int, Aligned(l, t) PROVE Aligned(l, t + Width[l])
<1>1. Width[l] \in Nat \ {0}
  BY Widths
<1>2. PICK a \in Int : t = a * Width[l]
  BY <1>1, Multiples DEF Aligned
<1>3. t + Width[l] = (a + 1) * Width[l] /\ ((a + 1) * Width[l]) % Width[l] = 0
  BY <1>1, <1>2
<1> QED BY <1>3 DEF Aligned

LEMMA RoundedDown ==
  ASSUME NEW w \in Nat \ {0}, NEW t \in Nat, NEW f, f = t - (t % w)
  PROVE  f \in Nat /\ f <= t /\ t < f + w /\ f % w = 0
<1>1. t % w \in Int /\ 0 <= t % w /\ t % w < w
  OBVIOUS
<1>2. PICK q \in Int : t = q * w + (t % w)
  <2>1. t \div w \in Int /\ t = (t \div w) * w + (t % w)
    OBVIOUS
  <2> QED BY <2>1
<1>3. f = q * w /\ (q * w) % w = 0
  <2>1. f = q * w
    BY <1>1, <1>2
  <2>2. (q * w) % w = 0
    OBVIOUS
  <2> QED BY <2>1, <2>2
<1>4. ASSUME q < 0 PROVE FALSE
  <2>1. q * w < 0 * w
    BY <1>4
  <2>2. q * w + w <= 0 * w
    BY <2>1, NextMultiple
  <2> QED BY <1>1, <1>2, <2>2
<1>5. f >= 0
  BY <1>2, <1>3, <1>4
<1> QED BY <1>1, <1>3, <1>5

LEMMA Floors ==
  ASSUME NEW l \in Levels, NEW t \in Nat
  PROVE  Floor(l, t) \in Nat /\ Floor(l, t) <= t /\ t < Floor(l, t) + Width[l] /\ Aligned(l, Floor(l, t))
<1>1. Width[l] \in Nat \ {0}
  BY Widths
<1> QED BY <1>1, RoundedDown DEF Aligned, Floor

LEMMA FloorIsLast ==
  ASSUME NEW l \in Levels, NEW t \in Nat, NEW u \in Int, Aligned(l, u), u <= t
  PROVE  u <= Floor(l, t)
<1>1. Floor(l, t) \in Nat /\ Aligned(l, Floor(l, t)) /\ t < Floor(l, t) + Width[l] /\ Width[l] \in Int
  BY Floors, Widths
<1>2. ASSUME Floor(l, t) < u PROVE FALSE
  <2>1. Floor(l, t) + Width[l] <= u
    BY <1>1, <1>2, WindowsApart
  <2> QED BY <1>1, <2>1
<1> QED BY <1>1, <1>2

LEMMA MultipleOfMultiple ==
  ASSUME NEW v \in Nat \ {0}, NEW w \in Nat \ {0}, w % v = 0, NEW t \in Int, t % w = 0
  PROVE  t % v = 0
<1>1. PICK h \in Int : w = h * v
  BY Multiples
<1>2. PICK a \in Int : t = a * w
  BY Multiples
<1>3. t = (a * h) * v /\ a * h \in Int
  BY <1>1, <1>2
<1>4. PICK b \in Int : t = b * v
  BY <1>3
<1> QED BY <1>4

\* hours are made of minutes, and days of hours
LEMMA Coarser ==
  ASSUME NEW l \in {1, 2}, NEW t \in Int, Aligned(l + 1, t) PROVE Aligned(l, t)
<1>1. CASE l = 1
  BY <1>1, Widths DEF Aligned
<1>2. CASE l = 2
  <2>1. Width[2] \in Nat \ {0} /\ Width[3] \in Nat \ {0} /\ Width[3] % Width[2] = 0
    BY MetricsAssumption, Widths
  <2>2. t % Width[3] = 0
    BY <1>2 DEF Aligned
  <2> QED BY <1>2, <2>1, <2>2, MultipleOfMultiple DEF Aligned
<1> QED BY <1>1, <1>2

LEMMA CoarserFloor ==
  ASSUME NEW t \in Nat PROVE Floor(3, t) <= Floor(2, t) /\ Floor(2, t) <= Floor(1, t) /\ Floor(1, t) = t
<1>1. \A l \in Levels : Floor(l, t) \in Nat /\ Floor(l, t) <= t /\ Aligned(l, Floor(l, t))
  BY Floors
<1>2. Floor(3, t) \in Nat /\ Floor(2, t) \in Nat /\ Floor(2, t) <= t /\ Floor(3, t) <= t
  BY <1>1, Widths
<1>3. Aligned(2, Floor(3, t)) /\ Aligned(1, Floor(2, t))
  <2>1. Aligned(3, Floor(3, t)) /\ Aligned(2, Floor(2, t)) /\ 3 = 2 + 1 /\ 2 = 1 + 1
    BY <1>1, Widths
  <2> QED BY <1>2, <2>1, Coarser
<1>4. Floor(3, t) <= Floor(2, t) /\ Floor(2, t) <= Floor(1, t)
  BY <1>2, <1>3, FloorIsLast, Widths
<1>5. Floor(1, t) = t
  BY Widths DEF Floor
<1> QED BY <1>4, <1>5

-----------------------------------------------------------------------------
(* The inductive invariant *)

Passing  == run.step \in {"marker", "window", "store", "advance"}
AtWindow == run.step \in {"window", "store", "advance"}
Reading  == run.step \in {"store", "advance"}

\* a window that was read, and that the marker has not passed yet
BeingRead(k, t) == Reading /\ run.level = k + 1 /\ run.at <= t /\ t < run.at + Width[k + 1]
Behind(k, t)    == k # 3 /\ t < marker[k + 1]
Waits(e, k, t)  == e \in metric[k][t] /\ ~Behind(k, t) /\ ~BeingRead(k, t)

KnownInv ==
  /\ arriving # NoMarker => executions < MaxExecutions
  /\ missed \subseteq 1..executions /\ run.sum \subseteq 1..executions
  /\ \A k \in 0..3, t \in Times : metric[k][t] \subseteq 1..executions

\* records are not newer than the time, and executions are recorded in the order of their times
ClockInv ==
  /\ run.now <= minute /\ arriving <= minute
  /\ \A l \in Levels : marker[l] <= minute /\ (marker[l] # NoMarker => Aligned(l, marker[l]))
  /\ \A t \in Times : metric[0][t] # {} => t <= minute /\ (arriving # NoMarker => t <= arriving)
  /\ \A l \in Levels, t \in Times : metric[l][t] # {} => Aligned(l, t) /\ t + Width[l] <= minute

\* without a marker, a pass begins at its first record
FromFirst(l, at) ==
  /\ marker[l] = NoMarker /\ \A t \in Times : metric[l - 1][t] # {} => at <= t
  /\ l = 1 /\ arriving # NoMarker => at <= arriving

PassInv ==
  /\ AtWindow => /\ Aligned(run.level, run.at) /\ run.at <= minute
                 /\ marker[run.level] = run.at \/ FromFirst(run.level, run.at)
  /\ Reading => run.at + Width[run.level] <= run.now /\ (run.level = 1 => run.done < maxMinutesPerRun)
  /\ run.step = "expire" => run.level = 1

\* what a pass has read is in the window, and what else is there came too late
ReadInv ==
  /\ run.step = "store" => \A e \in run.sum :
       \E t \in Times : run.at <= t /\ t < run.at + Width[run.level] /\ e \in metric[run.level - 1][t]
  /\ Reading => \A t \in Times : run.at <= t /\ t < run.at + Width[run.level] =>
       metric[run.level - 1][t] \subseteq run.sum \cup missed

InSum(e) == run.step = "store" /\ e \in run.sum

PresentInv ==
  \A e \in 1..executions :
    e \in missed \/ InSum(e) \/ \E k \in 0..3, t \in Times : Waits(e, k, t)

\* nothing waits twice, and a level has records only behind its marker
OnceInv ==
  /\ \A e \in 1..executions, k, l \in 0..3, t, u \in Times :
       Waits(e, k, t) /\ Waits(e, l, u) => k = l /\ t = u
  /\ \A e \in 1..executions, k \in 0..3, t \in Times :
       Waits(e, k, t) => e \notin missed /\ ~InSum(e)
  /\ run.step = "store" => run.sum \cap missed = {}
  /\ \A l \in Levels, t \in Times : metric[l][t] # {} =>
       t < marker[l] \/ (run.step = "advance" /\ l = run.level /\ t = run.at)

\* as long as the minutes were not stopped, no level overtakes the one below it
OrderInv ==
  /\ \A t \in Times, j \in 2..3 : metric[0][t] # {} /\ marker[1] <= t => marker[j] <= t
  /\ \A j \in 2..3 : arriving # NoMarker /\ marker[1] <= arriving => marker[j] <= arriving
  /\ \A t \in Times : metric[1][t] # {} /\ marker[2] <= t => marker[3] <= t
  /\ Passing /\ run.level \in {2, 3} =>
       /\ \A t \in Times : metric[0][t] # {} /\ marker[1] <= t => run.now <= t
       /\ arriving # NoMarker /\ marker[1] <= arriving => run.now <= arriving
  /\ Passing /\ run.level = 3 =>
       \A t \in Times : metric[1][t] # {} /\ marker[2] <= t => Floor(3, run.now) <= t

Span(k) == IF k = 0 THEN 1 ELSE Width[k]

\* the executions that a record stands for took place in its window
Took(when) ==
  /\ \A k \in 0..3, t \in Times : \A e \in metric[k][t] : t <= when[e] /\ when[e] < t + Span(k)
  /\ run.step = "store" => \A e \in run.sum : run.at <= when[e] /\ when[e] < run.at + Width[run.level]

TimeInv == \E when \in [Executions -> Times] : Took(when)

MetricsInv ==
  /\ MetricsTypeOK /\ KnownInv /\ ClockInv /\ PassInv /\ ReadInv /\ PresentInv /\ TimeInv
  /\ (breaks = 0 => OnceInv) /\ (~limited => OrderInv)

-----------------------------------------------------------------------------
(* Types *)

RunSteps == {"none", "expire", "marker", "window", "store", "advance", "cleanup"}
RunRecords == [step : RunSteps, level : Levels, now : Times, at : Nat, sum : SUBSET Executions,
               doubled : SUBSET Executions, done : 0..maxMinutesPerRun]
Tables  == [0..3 -> [Times -> SUBSET Executions]]
Markers  == [Levels -> Nat \cup {NoMarker}]

LEMMA MetricsTypeParts ==
  /\ MetricsTypeOK <=>
       /\ minute \in Times /\ arriving \in Times \cup {NoMarker} /\ executions \in 0..MaxExecutions
       /\ metric \in Tables /\ doubled \in Tables /\ marker \in Markers /\ run \in RunRecords
       /\ limited \in BOOLEAN /\ missed \subseteq Executions /\ torn \subseteq Executions /\ breaks \in 0..MaxBreaks
  /\ MetricsTypeOK' <=>
       /\ minute' \in Times /\ arriving' \in Times \cup {NoMarker} /\ executions' \in 0..MaxExecutions
       /\ metric' \in Tables /\ doubled' \in Tables /\ marker' \in Markers /\ run' \in RunRecords
       /\ limited' \in BOOLEAN /\ missed' \subseteq Executions /\ torn' \subseteq Executions /\ breaks' \in 0..MaxBreaks
  BY DEF MetricsTypeOK, Tables, Markers, RunRecords, RunSteps

\* the values as numbers
LEMMA MetricsNumbers ==
  ASSUME MetricsTypeOK
  PROVE  /\ Times \subseteq Nat /\ MaxTime \in Nat /\ minute \in Nat /\ minute <= MaxTime
         /\ arriving \in Int /\ arriving >= -1 /\ NoMarker = -1 /\ executions \in Nat
         /\ \A l \in Levels : marker[l] \in Int /\ marker[l] >= -1 /\ marker[l] \in Nat \cup {NoMarker}
         /\ run.level \in 1..3 /\ run.now \in Nat /\ run.now \in Times /\ run.at \in Nat
         /\ run.sum \subseteq Executions /\ run.step \in RunSteps /\ run.done \in 0..maxMinutesPerRun
         /\ \A k \in 0..3, t \in Times : metric[k][t] \in SUBSET Executions
<1>1. MaxTime \in Nat /\ Times \subseteq Nat /\ Levels = 1..3 /\ NoMarker = -1
  BY Widths DEF Times, NoMarker
<1>2. minute \in 0..MaxTime /\ arriving \in (0..MaxTime) \cup {-1} /\ executions \in 0..MaxExecutions
  BY <1>1, MetricsTypeParts DEF Times
<1>3. minute \in Nat /\ minute <= MaxTime /\ arriving \in Int /\ arriving >= -1 /\ executions \in Nat
  BY <1>1, <1>2
<1>4. ASSUME NEW l \in Levels PROVE marker[l] \in Nat \cup {-1}
  BY <1>1, MetricsTypeParts DEF Markers
<1>5. ASSUME NEW k \in 0..3, NEW t \in Times PROVE metric[k][t] \in SUBSET Executions
  BY MetricsTypeParts DEF Tables
<1>6. /\ run.level \in 1..3 /\ run.now \in Times /\ run.at \in Nat /\ run.sum \subseteq Executions
      /\ run.step \in RunSteps /\ run.done \in 0..maxMinutesPerRun
  BY <1>1, MetricsTypeParts DEF RunRecords
<1>7. \A l \in Levels : marker[l] \in Int /\ marker[l] >= -1 /\ marker[l] \in Nat \cup {NoMarker}
  BY <1>1, <1>4
<1> QED BY <1>1, <1>3, <1>5, <1>6, <1>7

-----------------------------------------------------------------------------
(* Steps that hand on what waits *)

\* the same executions wait in the same records
LEMMA SameWait ==
  ASSUME MetricsInv, UNCHANGED <<executions, missed>>, breaks' = 0 => breaks = 0,
         \A e \in 1..executions, k \in 0..3, t \in Times : Waits(e, k, t)' <=> Waits(e, k, t),
         UNCHANGED run \/ (run.step # "store" /\ run'.step # "store"),
         breaks = 0 => \A l \in Levels, t \in Times : metric'[l][t] # {} =>
                         t < marker'[l] \/ (run'.step = "advance" /\ l = run'.level /\ t = run'.at)
  PROVE  PresentInv' /\ (breaks' = 0 => OnceInv')
<1>0. PresentInv /\ (breaks = 0 => OnceInv)
  BY DEF MetricsInv
<1>1. PresentInv'
  <2>1. ASSUME NEW e \in 1..executions
        PROVE  e \in missed \/ InSum(e)' \/ \E k \in 0..3, t \in Times : Waits(e, k, t)'
    <3>1. CASE e \in missed \/ InSum(e)
      BY <3>1 DEF InSum
    <3>2. CASE \E k \in 0..3, t \in Times : Waits(e, k, t)
      BY <3>2
    <3> QED BY <1>0, <3>1, <3>2 DEF PresentInv
  <2> QED BY <2>1 DEF PresentInv
<1>2. ASSUME breaks' = 0 PROVE OnceInv'
  <2>1. \A e \in 1..executions : InSum(e)' => InSum(e)
    BY DEF InSum
  <2> QED BY <1>0, <1>2, <2>1 DEF OnceInv
<1> QED BY <1>1, <1>2

LEMMA SameTimes ==
  ASSUME MetricsInv, \A k \in 0..3, t \in Times : metric'[k][t] \subseteq metric[k][t],
         UNCHANGED run \/ run'.step # "store"
  PROVE  TimeInv'
<1>1. PICK when \in [Executions -> Times] : Took(when)
  BY DEF MetricsInv, TimeInv
<1>2. Took(when)'
  <2>1. \A k \in 0..3, t \in Times : \A e \in metric'[k][t] : t <= when[e] /\ when[e] < t + Span(k)
    BY <1>1 DEF Took
  <2>2. run'.step = "store" => \A e \in run'.sum : run'.at <= when[e] /\ when[e] < run'.at + Width[run'.level]
    BY <1>1 DEF Took
  <2> QED BY <2>1, <2>2 DEF Took
<1> QED BY <1>2 DEF TimeInv

\* the time, the queue of store() and the end of store()
LEMMA TickStep == ASSUME MetricsInv, Tick \/ Executes \/ StoreExecutionFails PROVE MetricsInv'
<1>0. /\ MetricsTypeOK /\ KnownInv /\ ClockInv /\ PassInv /\ ReadInv
      /\ (breaks = 0 => OnceInv) /\ (~limited => OrderInv)
  BY DEF MetricsInv
<1>1. /\ UNCHANGED <<executions, metric, doubled, marker, run, limited, missed, torn, breaks>>
      /\ minute' \in Times /\ minute <= minute' /\ arriving' <= minute'
      /\ arriving' = arriving \/ arriving' = NoMarker \/ arriving' = minute
      /\ arriving' \in Times \cup {NoMarker} /\ (arriving' # NoMarker => executions < MaxExecutions)
  BY <1>0, MetricsNumbers, MetricsTypeParts DEF KnownInv, Tick, Executes, StoreExecutionFails, ClockInv, Times
<1>2. MetricsTypeOK' /\ KnownInv' /\ ReadInv'
  BY <1>0, <1>1, MetricsTypeParts DEF KnownInv, ReadInv, Reading
<1>3. minute' \in Nat /\ minute \in Nat /\ NoMarker = -1 /\ run.now \in Nat /\ run.at \in Nat
  <2>1. Times \subseteq Nat /\ minute \in Times /\ minute' \in Times
    BY <1>0, <1>1, MetricsNumbers, MetricsTypeParts
  <2> QED BY <1>0, <2>1, MetricsNumbers
<1>4. ClockInv'
  <2>1. run'.now <= minute'
    BY <1>0, <1>1, <1>3 DEF ClockInv
  <2>2. ASSUME NEW l \in Levels PROVE marker'[l] <= minute' /\ (marker'[l] # NoMarker => Aligned(l, marker'[l]))
    <3>1. marker[l] \in Int
      BY <1>0, MetricsNumbers
    <3> QED BY <1>0, <1>1, <1>3, <3>1 DEF ClockInv
  <2>3. ASSUME NEW t \in Times, metric'[0][t] # {} PROVE t <= minute' /\ (arriving' # NoMarker => t <= arriving')
    <3>1. t \in Nat
      BY <1>0, MetricsNumbers
    <3> QED BY <1>0, <1>1, <1>3, <2>3, <3>1 DEF ClockInv
  <2>4. ASSUME NEW l \in Levels, NEW t \in Times, metric'[l][t] # {} PROVE Aligned(l, t) /\ t + Width[l] <= minute'
    <3>1. t \in Nat /\ Width[l] \in Int
      BY <1>0, MetricsNumbers, Widths
    <3> QED BY <1>0, <1>1, <1>3, <2>4, <3>1 DEF ClockInv
  <2> QED BY <1>1, <2>1, <2>2, <2>3, <2>4 DEF ClockInv
<1>5. PassInv'
  BY <1>0, <1>1, <1>3, MetricsNumbers DEF PassInv, FromFirst, AtWindow, Reading
<1>6. PresentInv' /\ (breaks' = 0 => OnceInv') /\ TimeInv'
  <2>1. \A e \in 1..executions, k \in 0..3, t \in Times : Waits(e, k, t)' <=> Waits(e, k, t)
    BY <1>1 DEF Waits, Behind, BeingRead, Reading
  <2>2. breaks = 0 => \A l \in Levels, t \in Times : metric'[l][t] # {} =>
          t < marker'[l] \/ (run'.step = "advance" /\ l = run'.level /\ t = run'.at)
    BY <1>0, <1>1 DEF OnceInv
  <2> QED BY <1>1, <2>1, <2>2, SameWait, SameTimes
<1>7. ASSUME ~limited' PROVE OrderInv'
  <2>1. OrderInv /\ \A l \in Levels : marker[l] <= minute
    BY <1>0, <1>1, <1>7 DEF ClockInv
  <2>2. ASSUME NEW j \in 2..3, arriving' # NoMarker, marker'[1] <= arriving' PROVE marker'[j] <= arriving'
    <3>1. j \in Levels
      BY Widths
    <3> QED BY <1>1, <2>1, <2>2, <3>1 DEF OrderInv
  <2>3. run.now <= minute
    BY <1>0 DEF ClockInv
  <2>4. Passing' <=> Passing
    BY <1>1 DEF Passing
  <2> QED BY <1>1, <2>1, <2>2, <2>3, <2>4 DEF OrderInv
<1> QED BY <1>2, <1>4, <1>5, <1>6, <1>7 DEF MetricsInv

-----------------------------------------------------------------------------
(* Between two windows *)

\* the run goes on, and a marker may be set where no record is
LEMMA RunMoves ==
  ASSUME MetricsInv, ~Reading, ~Reading', run' \in RunRecords, run'.sum \subseteq 1..executions,
         UNCHANGED <<minute, arriving, executions, metric, doubled, missed, torn, breaks>>,
         marker' \in Markers, limited' \in BOOLEAN, run'.now <= minute, run'.step = "expire" => run'.level = 1,
         \A l \in Levels : marker[l] <= marker'[l] /\ marker'[l] <= minute
                           /\ (marker'[l] # NoMarker => Aligned(l, marker'[l])),
         \A l \in Levels, t \in Times : metric[l - 1][t] # {} => (t < marker'[l] <=> t < marker[l]),
         run'.step = "window" => /\ Aligned(run'.level, run'.at) /\ run'.at <= minute
                                 /\ marker'[run'.level] = run'.at \/ FromFirst(run.level, run.at)',
         ~limited' => OrderInv'
  PROVE  MetricsInv'
<1>0. /\ MetricsTypeOK /\ KnownInv /\ ClockInv /\ PassInv /\ ReadInv
      /\ (breaks = 0 => OnceInv) /\ run.step # "store" /\ run'.step # "store" /\ run.step # "advance"
  BY DEF MetricsInv, Reading
<1>1. MetricsTypeOK' /\ KnownInv' /\ ReadInv'
  BY <1>0, MetricsTypeParts DEF KnownInv, ReadInv
<1>2. ClockInv'
  BY <1>0 DEF ClockInv
<1>3. PassInv'
  <2>1. AtWindow' => run'.step = "window"
    BY DEF AtWindow, Reading
  <2> QED BY <1>0, <2>1 DEF PassInv
<1>4. PresentInv' /\ (breaks' = 0 => OnceInv')
  <2>1. ASSUME NEW e \in 1..executions, NEW k \in 0..3, NEW t \in Times PROVE Waits(e, k, t)' <=> Waits(e, k, t)
    <3>1. CASE k = 3
      BY <3>1 DEF Waits, Behind, BeingRead
    <3>2. CASE k # 3 /\ metric[k][t] # {}
      <4>1. k + 1 \in Levels /\ (k + 1) - 1 = k
        BY <3>2, Widths
      <4>2. t < marker'[k + 1] <=> t < marker[k + 1]
        BY <3>2, <4>1
      <4> QED BY <4>2 DEF Waits, Behind, BeingRead
    <3>3. CASE metric[k][t] = {}
      BY <3>3 DEF Waits
    <3> QED BY <3>1, <3>2, <3>3
  <2>2. ASSUME breaks = 0, NEW l \in Levels, NEW t \in Times, metric'[l][t] # {} PROVE t < marker'[l]
    <3>1. t < marker[l]
      BY <1>0, <2>2 DEF OnceInv
    <3>2. t \in Int /\ marker[l] \in Int /\ marker'[l] \in Int
      BY <1>0, MetricsNumbers DEF Markers, NoMarker
    <3> QED BY <3>1, <3>2
  <2> QED BY <1>0, <2>1, <2>2, SameWait
<1>5. TimeInv'
  BY <1>0, SameTimes
<1> QED BY <1>1, <1>2, <1>3, <1>4, <1>5 DEF MetricsInv

LEMMA RunBeginsStep == ASSUME MetricsInv, RunBegins PROVE MetricsInv'
<1>0. MetricsTypeOK /\ KnownInv /\ ClockInv /\ (~limited => OrderInv)
  BY DEF MetricsInv
<1>1. run.step = "none" /\ UNCHANGED <<minute, arriving, executions, metric, doubled, marker, limited, missed, torn, breaks>>
  BY DEF RunBegins
<1>2. run' = [step |-> "expire", level |-> 1, now |-> minute, at |-> 0, sum |-> {}, doubled |-> {}, done |-> 0]
  BY DEF RunBegins, Resting
<1>3. run' \in RunRecords
  <2>1. 1 \in Levels /\ minute \in Times /\ 0 \in 0..maxMinutesPerRun /\ 0 \in Nat /\ "expire" \in RunSteps
    BY <1>0, Widths, MetricsAssumption, MetricsTypeParts DEF RunSteps
  <2> QED BY <1>2, <2>1 DEF RunRecords
<1>4. \A l \in Levels : /\ marker[l] <= marker[l] /\ marker[l] <= minute
                         /\ (marker[l] # NoMarker => Aligned(l, marker[l]))
  BY <1>0, MetricsNumbers DEF ClockInv
<1>5. ~limited' => OrderInv'
  BY <1>0, <1>1, <1>2 DEF OrderInv, Passing
<1>6. minute <= minute /\ marker \in Markers /\ limited \in BOOLEAN
  BY <1>0, MetricsNumbers, MetricsTypeParts
<1>7. run'.step = "expire" /\ run'.level = 1 /\ run'.sum = {} /\ run'.now = minute
  BY <1>2
<1>8. ~Reading /\ ~Reading'
  BY <1>1, <1>7 DEF Reading
<1> QED BY <1>1, <1>3, <1>4, <1>5, <1>6, <1>7, <1>8, RunMoves

\* the steps after the last window of a pass
LEMMA NextPassFits ==
  ASSUME MetricsTypeOK, run' = NextPass(run.level)
  PROVE  /\ run' \in RunRecords /\ run'.sum = run.sum /\ run'.now = run.now
         /\ run.level = 3 => run'.step = "cleanup" /\ run'.level = 1
         /\ run.level # 3 => run'.step = "marker" /\ run'.level = run.level + 1
<1>1. run \in RunRecords /\ run.level \in 1..3
  BY MetricsTypeParts, MetricsNumbers
<1>2. CASE run.level = 3
  <2>1. run' = [run EXCEPT !.step = "cleanup", !.level = 1]
    BY <1>2 DEF NextPass
  <2>2. 1 \in Levels /\ "cleanup" \in RunSteps
    BY Widths DEF RunSteps
  <2> QED BY <1>1, <1>2, <2>1, <2>2 DEF RunRecords
<1>3. CASE run.level # 3
  <2>1. run' = [run EXCEPT !.step = "marker", !.level = run.level + 1]
    BY <1>3 DEF NextPass
  <2>2. run.level + 1 \in Levels /\ "marker" \in RunSteps
    BY <1>1, <1>3, Widths DEF RunSteps
  <2> QED BY <1>1, <1>3, <2>1, <2>2 DEF RunRecords
<1> QED BY <1>2, <1>3

LEMMA PassEndsStep == ASSUME MetricsInv, PassEnds PROVE MetricsInv'
<1>0. MetricsTypeOK /\ KnownInv /\ ClockInv /\ PassInv /\ (~limited => OrderInv)
  BY DEF MetricsInv
<1>1. /\ run.step = "window" /\ run' = NextPass(run.level)
      /\ limited' = (limited \/ IsOver(run.level, run.at))
      /\ UNCHANGED <<minute, arriving, executions, metric, doubled, marker, missed, torn, breaks>>
  BY DEF PassEnds
<1>2. /\ run' \in RunRecords /\ run'.sum = run.sum /\ run'.now = run.now
      /\ run.level = 3 => run'.step = "cleanup" /\ run'.level = 1
      /\ run.level # 3 => run'.step = "marker" /\ run'.level = run.level + 1
  BY <1>0, <1>1, NextPassFits
<1>3. /\ run.level \in 1..3 /\ run.level \in Levels /\ run.now \in Nat /\ run.at \in Nat
      /\ Times \subseteq Nat /\ arriving \in Int /\ \A l \in Levels : marker[l] \in Int
  BY <1>0, MetricsNumbers, Widths
<1>4. \A l \in Levels : /\ marker[l] <= marker[l] /\ marker[l] <= minute
                         /\ (marker[l] # NoMarker => Aligned(l, marker[l]))
  BY <1>0, <1>3 DEF ClockInv
<1>5. ASSUME ~limited' PROVE OrderInv'
  <2>1. OrderInv /\ ~(run.at < Floor(run.level, run.now)) /\ ~limited
    BY <1>0, <1>1, <1>5 DEF IsOver
  <2>2. /\ Floor(3, run.now) \in Nat /\ Floor(2, run.now) \in Nat /\ Floor(1, run.now) = run.now
        /\ Floor(3, run.now) <= Floor(2, run.now) /\ Floor(run.level, run.now) <= run.at
    <3>1. Floor(run.level, run.now) \in Nat /\ Floor(3, run.now) \in Nat /\ Floor(2, run.now) \in Nat
      BY <1>3, Floors, Widths
    <3> QED BY <1>3, <2>1, <3>1, CoarserFloor
  <2>3. marker[run.level] = run.at \/ FromFirst(run.level, run.at)
    BY <1>0, <1>1 DEF PassInv, AtWindow
  <2>4. CASE run.level = 1
    <3>0. run.now <= run.at /\ (marker[1] = run.at \/ FromFirst(1, run.at)) /\ 1 - 1 = 0
      BY <2>2, <2>3, <2>4
    <3>1. ASSUME NEW t \in Times, metric[0][t] # {}, marker[1] <= t PROVE run.now <= t
      <4>1. run.at <= t
        BY <3>0, <3>1 DEF FromFirst
      <4> QED BY <1>3, <3>0, <4>1
    <3>2. arriving # NoMarker /\ marker[1] <= arriving => run.now <= arriving
      BY <1>3, <2>2, <2>3, <2>4 DEF FromFirst
    <3>3. run'.level = 2
      BY <1>2, <2>4
    <3> QED BY <1>1, <1>2, <2>1, <3>1, <3>2, <3>3 DEF OrderInv
  <2>5. CASE run.level = 2
    <3>0. Floor(3, run.now) <= run.at /\ (marker[2] = run.at \/ FromFirst(2, run.at)) /\ 2 - 1 = 1
      BY <1>3, <2>2, <2>3, <2>5
    <3>1. ASSUME NEW t \in Times, metric[1][t] # {}, marker[2] <= t PROVE Floor(3, run.now) <= t
      <4>1. run.at <= t
        BY <3>0, <3>1 DEF FromFirst
      <4> QED BY <1>3, <2>2, <3>0, <4>1
    <3>2. Passing
      BY <1>1 DEF Passing
    <3> QED BY <1>1, <1>2, <2>1, <2>5, <3>1, <3>2 DEF OrderInv
  <2>6. CASE run.level = 3
    BY <1>1, <1>2, <2>1, <2>6 DEF OrderInv, Passing
  <2> QED BY <1>3, <2>4, <2>5, <2>6
<1>6. ~Reading /\ ~Reading' /\ run'.step # "window" /\ run'.step # "expire"
  BY <1>1, <1>2 DEF Reading
<1>7. run'.sum \subseteq 1..executions /\ run'.now <= minute
  BY <1>0, <1>2 DEF KnownInv, ClockInv
<1>8. marker \in Markers /\ limited' \in BOOLEAN
  BY <1>0, <1>1, MetricsTypeParts DEF IsOver
<1> QED BY <1>1, <1>2, <1>4, <1>5, <1>6, <1>7, <1>8, RunMoves
LEMMA FirstMarkerStep ==
  ASSUME MetricsInv, ReadMarker, marker[run.level] = NoMarker, \A t \in Times : metric[run.level - 1][t] = {}
  PROVE  MetricsInv'
<1>0. MetricsTypeOK /\ KnownInv /\ ClockInv /\ PassInv /\ (~limited => OrderInv)
  BY DEF MetricsInv
<1>1. /\ run.step = "marker" /\ run' = NextPass(run.level)
      /\ marker' = [marker EXCEPT ![run.level] = Floor(run.level, run.now)]
      /\ UNCHANGED <<minute, arriving, executions, metric, doubled, limited, missed, torn, breaks>>
  BY DEF ReadMarker
<1>2. /\ run' \in RunRecords /\ run'.sum = run.sum /\ run'.now = run.now
      /\ run.level = 3 => run'.step = "cleanup" /\ run'.level = 1
      /\ run.level # 3 => run'.step = "marker" /\ run'.level = run.level + 1
  BY <1>0, <1>1, NextPassFits
<1>3. /\ run.level \in 1..3 /\ run.level \in Levels /\ run.now \in Nat /\ minute \in Nat /\ NoMarker = -1
      /\ Times \subseteq Nat /\ arriving \in Int /\ \A l \in Levels : marker[l] \in Int /\ marker[l] >= -1
  BY <1>0, MetricsNumbers, Widths
<1>4. /\ Floor(run.level, run.now) \in Nat /\ Floor(run.level, run.now) <= run.now
      /\ Aligned(run.level, Floor(run.level, run.now))
  BY <1>3, Floors
<1>5. marker' \in Markers
  <2>1. marker \in Markers
    BY <1>0, MetricsTypeParts
  <2> QED BY <1>1, <1>3, <1>4, <2>1 DEF Markers
<1>6. marker'[run.level] = Floor(run.level, run.now) /\ \A l \in Levels : l # run.level => marker'[l] = marker[l]
  <2>1. marker \in Markers
    BY <1>0, MetricsTypeParts
  <2> QED BY <1>1, <1>3, <2>1 DEF Markers
<1>7. ASSUME NEW l \in Levels
      PROVE  /\ marker[l] <= marker'[l] /\ marker'[l] <= minute
             /\ (marker'[l] # NoMarker => Aligned(l, marker'[l]))
             /\ \A t \in Times : metric[l - 1][t] # {} => (t < marker'[l] <=> t < marker[l])
  <2>1. CASE l = run.level
    <3>1. run.now <= minute
      BY <1>0 DEF ClockInv
    <3> QED BY <1>3, <1>4, <1>6, <2>1, <3>1
  <2>2. CASE l # run.level
    BY <1>0, <1>3, <1>6, <2>2 DEF ClockInv
  <2> QED BY <2>1, <2>2
<1>8. ASSUME ~limited' PROVE OrderInv'
  <2>0. Passing /\ OrderInv /\ 1 - 1 = 0 /\ 2 - 1 = 1 /\ 1 \in Levels /\ 2 \in Levels /\ 3 \in Levels
    BY <1>0, <1>1, <1>8, Widths DEF Passing
  <2>1. CASE run.level = 1
    <3>1. /\ \A t \in Times : metric[0][t] = {}
          /\ marker'[1] = run.now /\ marker'[2] = marker[2] /\ marker'[3] = marker[3] /\ marker[1] = -1
      BY <1>3, <1>6, <2>0, <2>1, CoarserFloor
    <3>2. run'.level = 2 /\ run'.now = run.now
      BY <1>2, <2>1
    <3>3. ASSUME NEW t \in Times, metric[1][t] # {}, marker[2] <= t PROVE marker[3] <= t
      BY <2>0, <3>3 DEF OrderInv
    <3>4. ASSUME NEW j \in 2..3, arriving # NoMarker, marker'[1] <= arriving PROVE marker'[j] <= arriving
      BY <1>1, <1>3, <2>0, <3>1, <3>4 DEF OrderInv
    <3>5. arriving # NoMarker /\ marker'[1] <= arriving => run.now <= arriving
      BY <3>1
    <3>6. ~(run'.level = 3) /\ UNCHANGED <<metric, arriving>> /\ marker'[2] = marker[2] /\ marker'[3] = marker[3]
      BY <1>1, <3>1, <3>2
    <3>7. \A t \in Times : metric'[0][t] = {}
      BY <3>1, <3>6
    <3>8. \A t \in Times : metric'[1][t] # {} /\ marker'[2] <= t => marker'[3] <= t
      BY <3>3, <3>6
    <3>9. \A j \in 2..3 : arriving' # NoMarker /\ marker'[1] <= arriving' => marker'[j] <= arriving'
      BY <3>4, <3>6
    <3>10. arriving' # NoMarker /\ marker'[1] <= arriving' => run'.now <= arriving'
      BY <3>2, <3>5, <3>6
    <3> QED BY <3>6, <3>7, <3>8, <3>9, <3>10 DEF OrderInv
  <2>2. CASE run.level = 2
    <3>1. /\ \A t \in Times : metric[1][t] = {}
          /\ marker'[1] = marker[1] /\ marker'[2] <= run.now /\ marker'[3] = marker[3] /\ marker'[2] \in Int
      <4>1. \A t \in Times : metric[1][t] = {}
        BY <2>0, <2>2
      <4>2. marker'[2] = Floor(2, run.now) /\ marker'[1] = marker[1] /\ marker'[3] = marker[3]
        BY <1>6, <2>0, <2>2
      <4>3. Floor(2, run.now) \in Nat /\ Floor(2, run.now) <= run.now
        BY <1>4, <2>2
      <4> QED BY <4>1, <4>2, <4>3
    <3>2. run'.level = 3 /\ run'.now = run.now
      BY <1>2, <2>2
    <3> QED BY <1>1, <1>3, <2>0, <2>2, <3>1, <3>2 DEF OrderInv
  <2>3. CASE run.level = 3
    <3>1. /\ marker'[3] = Floor(3, run.now) /\ Floor(3, run.now) <= run.now /\ Floor(3, run.now) \in Nat
          /\ marker'[1] = marker[1] /\ marker'[2] = marker[2]
      BY <1>3, <1>4, <1>6, <2>0, <2>3
    <3>2. ~Passing'
      BY <1>2, <2>3 DEF Passing
    <3>3. ASSUME NEW t \in Times, metric[0][t] # {}, marker[1] <= t PROVE marker[2] <= t /\ marker'[3] <= t
      <4>1. run.now <= t /\ marker[2] <= t
        BY <2>0, <2>3, <3>3 DEF OrderInv
      <4> QED BY <1>3, <3>1, <4>1
    <3>4. ASSUME arriving # NoMarker, marker[1] <= arriving PROVE marker[2] <= arriving /\ marker'[3] <= arriving
      <4>1. run.now <= arriving /\ marker[2] <= arriving
        BY <2>0, <2>3, <3>4 DEF OrderInv
      <4> QED BY <1>3, <3>1, <4>1
    <3>5. \A t \in Times : metric[1][t] # {} /\ marker[2] <= t => marker'[3] <= t
      BY <2>0, <2>3, <3>1 DEF OrderInv
    <3>6. \A j \in 2..3 : j = 2 \/ j = 3
      OBVIOUS
    <3> QED BY <1>1, <3>1, <3>2, <3>3, <3>4, <3>5, <3>6 DEF OrderInv
  <2> QED BY <1>3, <2>1, <2>2, <2>3
<1>9. ~Reading /\ ~Reading' /\ run'.step # "window" /\ run'.step # "expire"
  BY <1>1, <1>2 DEF Reading
<1>10. run'.sum \subseteq 1..executions /\ run'.now <= minute /\ limited' \in BOOLEAN
  BY <1>0, <1>1, <1>2, MetricsTypeParts DEF KnownInv, ClockInv
<1> QED BY <1>1, <1>2, <1>5, <1>7, <1>8, <1>9, <1>10, RunMoves

LEMMA PassStartsStep ==
  ASSUME MetricsInv, ReadMarker, ~(marker[run.level] = NoMarker /\ \A t \in Times : metric[run.level - 1][t] = {})
  PROVE  MetricsInv'
<1>0. MetricsTypeOK /\ KnownInv /\ ClockInv /\ PassInv /\ (~limited => OrderInv)
  BY DEF MetricsInv
<1> DEFINE found == {t \in Times : metric[run.level - 1][t] # {}}
           at == IF marker[run.level] = NoMarker THEN Floor(run.level, Min(found)) ELSE marker[run.level]
<1>1. /\ run.step = "marker" /\ run' = [run EXCEPT !.step = "window", !.at = at]
      /\ UNCHANGED <<minute, arriving, executions, metric, doubled, marker, limited, missed, torn, breaks>>
  BY DEF ReadMarker
<1>2. /\ run.level \in 1..3 /\ run.level \in Levels /\ run.now \in Nat /\ minute \in Nat /\ NoMarker = -1
      /\ Times \subseteq Nat /\ arriving \in Int
      /\ \A l \in Levels : marker[l] \in Int /\ marker[l] >= -1 /\ marker[l] \in Nat \cup {NoMarker}
  BY <1>0, MetricsNumbers, Widths
<1>3. /\ at \in Nat /\ Aligned(run.level, at) /\ at <= minute
      /\ marker[run.level] = at \/ FromFirst(run.level, at)
  <2>1. CASE marker[run.level] # NoMarker
    BY <1>0, <1>2, <2>1 DEF ClockInv
  <2>2. CASE marker[run.level] = NoMarker
    <3>1. found # {} /\ found \in SUBSET Nat
      BY <1>2, <2>2
    <3>2. Min(found) \in found /\ \A t \in found : Min(found) <= t
      BY <3>1, OldestRecord
    <3> DEFINE first == Min(found)
    <3>3. first \in Nat /\ first \in Times /\ metric[run.level - 1][first] # {}
      BY <1>2, <3>2
    <3>4. first <= minute /\ (run.level = 1 /\ arriving # NoMarker => first <= arriving)
      <4>1. CASE run.level = 1
        <5>0. run.level - 1 = 0
          BY <4>1
        <5>1. metric[0][first] # {}
          BY <3>3, <5>0
        <5> QED BY <1>0, <3>3, <5>1 DEF ClockInv
      <4>2. CASE run.level # 1
        <5>1. run.level - 1 \in Levels /\ Width[run.level - 1] \in Nat
          BY <1>2, <4>2, Widths
        <5>2. first + Width[run.level - 1] <= minute
          BY <1>0, <3>3, <5>1 DEF ClockInv
        <5> QED BY <1>2, <3>3, <4>2, <5>1, <5>2
      <4> QED BY <4>1, <4>2
    <3>5. at = Floor(run.level, first)
      BY <2>2
    <3>6. at \in Nat /\ at <= first /\ Aligned(run.level, at)
      BY <1>2, <3>3, <3>5, Floors
    <3>7. \A t \in Times : metric[run.level - 1][t] # {} => first <= t
      BY <3>2
    <3> HIDE DEF first, at, found
    <3>8. \A t \in Times : metric[run.level - 1][t] # {} => at <= t
      BY <1>2, <3>3, <3>6, <3>7
    <3> QED BY <1>2, <2>2, <3>3, <3>4, <3>6, <3>8 DEF FromFirst
  <2> QED BY <2>1, <2>2
<1> HIDE DEF at
<1>4. run \in RunRecords /\ "window" \in RunSteps
  BY <1>0, MetricsTypeParts DEF RunSteps
<1>5. run' \in RunRecords
  BY <1>1, <1>3, <1>4 DEF RunRecords
<1>6. run'.step = "window" /\ run'.at = at /\ run'.level = run.level /\ run'.now = run.now /\ run'.sum = run.sum
  BY <1>1, <1>4 DEF RunRecords
<1>7. \A l \in Levels : /\ marker[l] <= marker'[l] /\ marker'[l] <= minute
                         /\ (marker'[l] # NoMarker => Aligned(l, marker'[l]))
  BY <1>0, <1>1, <1>2 DEF ClockInv
<1>8. ASSUME ~limited' PROVE OrderInv'
  <2>1. Passing /\ Passing' /\ OrderInv
    BY <1>0, <1>1, <1>6, <1>8 DEF Passing
  <2> QED BY <1>1, <1>6, <2>1 DEF OrderInv
<1>9. ~Reading /\ ~Reading'
  BY <1>1, <1>6 DEF Reading
<1>10. run'.sum \subseteq 1..executions /\ run'.now <= minute /\ limited' \in BOOLEAN /\ marker' \in Markers
  BY <1>0, <1>1, <1>6, MetricsTypeParts DEF KnownInv, ClockInv
<1>11. Aligned(run'.level, run'.at) /\ run'.at <= minute
       /\ (marker'[run'.level] = run'.at \/ FromFirst(run.level, run.at)')
  BY <1>1, <1>3, <1>6 DEF FromFirst
<1> QED BY <1>1, <1>5, <1>6, <1>7, <1>8, <1>9, <1>10, <1>11, RunMoves

LEMMA ReadMarkerStep == ASSUME MetricsInv, ReadMarker PROVE MetricsInv'
  BY FirstMarkerStep, PassStartsStep

-----------------------------------------------------------------------------
(* Records that are deleted *)

LEMMA WindowNumbers ==
  ASSUME MetricsInv, AtWindow
  PROVE  /\ run.level \in 1..3 /\ run.level \in Levels /\ run.level \in 0..3 /\ run.level - 1 \in 0..3
         /\ run.level - 1 # 3 /\ (run.level - 1) + 1 = run.level /\ run.level # run.level - 1
         /\ run.at \in Nat /\ Aligned(run.level, run.at) /\ run.now <= minute /\ run.now \in Nat /\ minute \in Nat
         /\ Width[run.level] \in Nat \ {0} /\ run.at + Width[run.level] \in Nat /\ NoMarker = -1
         /\ marker[run.level] \in Int /\ marker[run.level] <= run.at
         /\ Times \subseteq Nat
         /\ Reading => run.at + Width[run.level] <= run.now /\ run.at \in Times
<1>0. MetricsTypeOK /\ ClockInv /\ PassInv
  BY DEF MetricsInv
<1>1. /\ run.level \in 1..3 /\ run.level \in Levels /\ run.at \in Nat /\ run.now \in Nat /\ minute \in Nat
      /\ minute <= MaxTime /\ MaxTime \in Nat /\ NoMarker = -1 /\ Times \subseteq Nat /\ marker[run.level] \in Int
  BY <1>0, MetricsNumbers, Widths
<1>2. /\ run.level - 1 \in 0..3 /\ run.level - 1 # 3 /\ (run.level - 1) + 1 = run.level /\ run.level \in 0..3
      /\ run.level # run.level - 1
  BY <1>1
<1>3. Width[run.level] \in Nat \ {0}
  BY <1>1, Widths
<1>4. marker[run.level] <= run.at /\ Aligned(run.level, run.at) /\ run.now <= minute
  <2>1. marker[run.level] = run.at \/ marker[run.level] = NoMarker
    BY <1>0 DEF PassInv, FromFirst
  <2> QED BY <1>0, <1>1, <2>1 DEF PassInv, ClockInv
<1>5. ASSUME Reading PROVE run.at + Width[run.level] <= run.now /\ run.at \in Times
  <2>1. run.at + Width[run.level] <= run.now
    BY <1>0, <1>5 DEF PassInv
  <2> QED BY <1>1, <1>3, <1>4, <2>1 DEF Times
<1>6. run.at + Width[run.level] \in Nat
  BY <1>1, <1>3
<1> QED BY <1>1, <1>2, <1>3, <1>4, <1>5, <1>6


\* outside of the windows, records go that nothing waits in, or what waited in them is missed
LEMMA RecordsGo ==
  ASSUME MetricsInv, ~Reading, run' \in RunRecords, run'.sum \subseteq 1..executions, run'.now <= minute,
         run'.step \notin {"expire", "window", "store", "advance"}, run'.step = "marker" => run'.level = 1,
         UNCHANGED <<minute, arriving, executions, marker, limited, torn, breaks>>, metric' \in Tables, doubled' \in Tables,
         \A k \in 0..3, t \in Times : metric'[k][t] \subseteq metric[k][t],
         missed \subseteq missed', missed' \subseteq 1..executions,
         \A e \in 1..executions, k \in 0..3, t \in Times :
           e \in metric[k][t] /\ ~Behind(k, t) => e \in metric'[k][t] \/ e \in missed',
         breaks = 0 => \A e \in missed' \ missed, k \in 0..3, t \in Times : e \in metric'[k][t] => Behind(k, t)
  PROVE  MetricsInv'
<1>0. /\ MetricsTypeOK /\ KnownInv /\ ClockInv /\ PassInv /\ PresentInv /\ run.step # "store"
      /\ (breaks = 0 => OnceInv) /\ (~limited => OrderInv) /\ run.step # "advance"
  BY DEF MetricsInv, Reading
<1>1. MetricsTypeOK'
  <2>1. missed' \subseteq Executions
    <3>1. executions \in 0..MaxExecutions /\ MaxExecutions \in Nat
      BY <1>0, MetricsTypeParts, MetricsAssumption
    <3>2. 1..executions \subseteq 1..MaxExecutions
      BY <3>1
    <3> QED BY <3>2 DEF Executions
  <2> QED BY <1>0, <2>1, MetricsTypeParts
<1>2. KnownInv'
  <2>1. ASSUME NEW k \in 0..3, NEW t \in Times PROVE metric'[k][t] \subseteq 1..executions'
    BY <1>0 DEF KnownInv
  <2>2. run'.sum \subseteq 1..executions' /\ missed' \subseteq 1..executions'
    BY <1>0 DEF KnownInv
  <2> QED BY <1>0, <2>1, <2>2 DEF KnownInv
<1>3. \A k \in 0..3, t \in Times : metric'[k][t] # {} => metric[k][t] # {}
  OBVIOUS
<1>4. \A l \in Levels : l \in 0..3
  BY Widths
<1>5. ClockInv'
  <2>1. ASSUME NEW t \in Times, metric'[0][t] # {} PROVE metric[0][t] # {}
    BY <1>3, <2>1
  <2>2. ASSUME NEW l \in Levels, NEW t \in Times, metric'[l][t] # {} PROVE metric[l][t] # {}
    BY <1>3, <1>4, <2>2
  <2> QED BY <1>0, <2>1, <2>2 DEF ClockInv
<1>6. PassInv' /\ ReadInv'
  BY <1>0 DEF PassInv, ReadInv, AtWindow, Reading
<1>7. ~Reading' /\ ~BeingRead(0, 0)
  BY DEF Reading, BeingRead
<1>8. \A e, k, t : /\ Waits(e, k, t) <=> e \in metric[k][t] /\ ~Behind(k, t)
                   /\ Waits(e, k, t)' <=> e \in metric'[k][t] /\ ~Behind(k, t)
                   /\ ~InSum(e) /\ ~InSum(e)'
  BY <1>0, <1>7 DEF Waits, Behind, BeingRead, InSum, Reading
<1>9. PresentInv'
  <2>1. ASSUME NEW e \in 1..executions PROVE e \in missed' \/ \E k \in 0..3, t \in Times : Waits(e, k, t)'
    <3>1. CASE e \in missed
      BY <3>1
    <3>2. CASE \E k \in 0..3, t \in Times : Waits(e, k, t)
      <4>1. PICK k \in 0..3, t \in Times : Waits(e, k, t)
        BY <3>2
      <4> QED BY <1>8, <4>1
    <3> QED BY <1>0, <1>8, <3>1, <3>2 DEF PresentInv
  <2> QED BY <2>1 DEF PresentInv
<1>10. ASSUME breaks' = 0 PROVE OnceInv'
  <2>1. OnceInv
    BY <1>0, <1>10
  <2>2. \A e, k, t : k \in 0..3 /\ t \in Times /\ Waits(e, k, t)' => Waits(e, k, t)
    BY <1>8
  <2>3. ASSUME NEW e \in 1..executions, NEW k \in 0..3, NEW t \in Times, Waits(e, k, t)'
        PROVE  e \notin missed' /\ ~InSum(e)'
    <3>1. e \notin missed
      BY <2>1, <2>2, <2>3 DEF OnceInv
    <3>2. e \in metric'[k][t] /\ ~Behind(k, t)
      BY <1>8, <2>3
    <3> QED BY <1>8, <1>10, <3>1, <3>2
  <2>4. ASSUME NEW l \in Levels, NEW t \in Times, metric'[l][t] # {} PROVE t < marker'[l]
    <3>1. metric[l][t] # {}
      BY <1>3, <1>4, <2>4
    <3> QED BY <1>0, <2>1, <3>1 DEF OnceInv
  <2>5. run'.step # "store"
    BY <2>1 DEF OnceInv
  <2>6. \A e \in 1..executions, k, l \in 0..3, t, u \in Times :
          Waits(e, k, t)' /\ Waits(e, l, u)' => k = l /\ t = u
    BY <2>1, <2>2 DEF OnceInv
  <2> QED BY <2>3, <2>4, <2>5, <2>6 DEF OnceInv
<1>11. ASSUME ~limited' PROVE OrderInv'
  <2>1. OrderInv
    BY <1>0, <1>11
  <2>2. ASSUME NEW t \in Times PROVE (metric'[0][t] # {} => metric[0][t] # {}) /\ (metric'[1][t] # {} => metric[1][t] # {})
    BY <1>3
  <2>3. Passing' => run'.level = 1
    BY DEF Passing
  <2> QED BY <2>1, <2>2, <2>3 DEF OrderInv
<1>12. TimeInv'
  BY SameTimes
<1> QED BY <1>1, <1>2, <1>5, <1>6, <1>9, <1>10, <1>11, <1>12 DEF MetricsInv

LEMMA CleanupStep == ASSUME MetricsInv, Cleanup PROVE MetricsInv'
<1>0. MetricsTypeOK /\ KnownInv /\ ClockInv
  BY DEF MetricsInv
<1> DEFINE level == run.level
           Left(records) == [t \in Times |-> IF t < marker[level] THEN {} ELSE records[t]]
           left == Left(metric[level - 1])
<1>1. /\ run.step = "cleanup" /\ metric' = [metric EXCEPT ![level - 1] = left]
      /\ doubled' = [doubled EXCEPT ![level - 1] = Left(doubled[level - 1])]
      /\ run' = IF level = 3 THEN Resting ELSE [run EXCEPT !.level = level + 1]
      /\ UNCHANGED <<minute, arriving, executions, marker, limited, missed, torn, breaks>>
  <2>1. \A records : [t \in Times |-> IF t \in Processed(level) THEN {} ELSE records[t]] = Left(records)
    BY DEF Processed
  <2> QED BY <2>1 DEF Cleanup
<1>2. level \in 1..3 /\ level \in Levels /\ level - 1 \in 0..3 /\ run \in RunRecords /\ metric \in Tables /\ minute \in Nat
  BY <1>0, MetricsNumbers, MetricsTypeParts, Widths
<1>3. left \in [Times -> SUBSET Executions]
  BY <1>0, <1>2, MetricsNumbers
<1>4. metric' \in Tables /\ \A k \in 0..3 : metric'[k] = IF k = level - 1 THEN left ELSE metric[k]
  BY <1>1, <1>2, <1>3 DEF Tables
<1>9. doubled' \in Tables
  <2>1. doubled \in Tables
    BY <1>0, MetricsTypeParts
  <2>2. Left(doubled[level - 1]) \in [Times -> SUBSET Executions]
    BY <1>2, <2>1 DEF Tables
  <2> QED BY <1>1, <1>2, <2>1, <2>2 DEF Tables
<1> HIDE DEF left
<1>5. /\ run' \in RunRecords /\ run'.now <= minute /\ run'.step \in {"none", "cleanup"}
  <2>1. 1 \in Levels /\ 0 \in Times /\ 0 \in 0..maxMinutesPerRun /\ 0 \in Nat /\ "none" \in RunSteps
    BY <1>0, Widths, MetricsAssumption, MetricsNumbers DEF RunSteps, Times
  <2>2. CASE level = 3
    BY <1>1, <1>2, <2>1, <2>2 DEF Resting, RunRecords
  <2>3. CASE level # 3
    <3>1. level + 1 \in Levels /\ run.now <= minute
      BY <1>0, <1>2, <2>3, Widths DEF ClockInv
    <3> QED BY <1>1, <1>2, <2>3, <3>1 DEF RunRecords
  <2> QED BY <2>2, <2>3
<1>6. run'.sum \subseteq 1..executions
  <2>1. CASE level = 3
    BY <1>1, <2>1 DEF Resting
  <2>2. CASE level # 3
    BY <1>0, <1>1, <1>2, <2>2 DEF RunRecords, KnownInv
  <2> QED BY <2>1, <2>2
<1>7. ASSUME NEW k \in 0..3, NEW t \in Times
      PROVE  metric'[k][t] = metric[k][t] \/ (metric'[k][t] = {} /\ Behind(k, t))
  <2>1. CASE k = level - 1
    <3>1. level = k + 1 /\ k # 3 /\ metric'[k][t] = left[t]
      BY <1>2, <1>4, <2>1
    <3> QED BY <3>1, <2>1 DEF left, Behind
  <2>2. CASE k # level - 1
    BY <1>4, <2>2
  <2> QED BY <2>1, <2>2
<1>8. ~Reading /\ missed \subseteq 1..executions
  BY <1>0, <1>1 DEF Reading, KnownInv
<1> HIDE DEF level
<1> QED BY <1>1, <1>4, <1>5, <1>6, <1>7, <1>8, <1>9, RecordsGo

\* what is past the retention period
LEMMA CleanupOldStep == ASSUME MetricsInv, CleanupOld PROVE MetricsInv'
<1>0. MetricsTypeOK /\ KnownInv /\ ClockInv /\ PassInv /\ (breaks = 0 => OnceInv)
  BY DEF MetricsInv
<1> DEFINE kept(t) == t >= minute - Retention
           expired == {t \in Times : ~kept(t)}
           gone == UNION {Total(k, Unread(k) \cap expired) : k \in 0..3}
<1>1. /\ run.step = "expire" /\ run' = [run EXCEPT !.step = "marker"]
      /\ metric' = [k \in 0..3 |-> [t \in Times |-> IF kept(t) THEN metric[k][t] ELSE {}]]
      /\ doubled' = [k \in 0..3 |-> [t \in Times |-> IF kept(t) THEN doubled[k][t] ELSE {}]]
      /\ missed' = missed \cup gone
      /\ UNCHANGED <<minute, arriving, executions, marker, limited, torn, breaks>>
  BY DEF CleanupOld
<1>2. run.level = 1 /\ run \in RunRecords /\ metric \in Tables /\ minute \in Nat /\ Retention \in Nat
  BY <1>0, <1>1, MetricsTypeParts, MetricsNumbers, MetricsAssumption DEF PassInv
<1>3. /\ run' \in RunRecords /\ run'.sum = run.sum /\ run'.now = run.now /\ run'.step = "marker" /\ run'.level = 1
  <2>1. "marker" \in RunSteps
    BY DEF RunSteps
  <2> QED BY <1>1, <1>2, <2>1 DEF RunRecords
<1>4. metric' \in Tables /\ doubled' \in Tables
  <2>1. doubled \in Tables
    BY <1>0, MetricsTypeParts
  <2> QED BY <1>1, <1>2, <2>1 DEF Tables
<1>5. /\ Times \subseteq Nat /\ NoMarker = -1 /\ \A l \in Levels : marker[l] \in Int
      /\ \A k \in 0..3, t \in Times : metric[k][t] \subseteq 1..executions
  BY <1>0, MetricsNumbers DEF KnownInv
<1>6. ASSUME NEW k \in 0..3, NEW t \in Times PROVE metric'[k][t] = IF kept(t) THEN metric[k][t] ELSE {}
  BY <1>1
<1>7. ASSUME NEW k \in 0..3, NEW t \in Times PROVE t \in Unread(k) <=> ~Behind(k, t)
  <2>1. CASE k = 3
    BY <2>1 DEF Unread, Behind
  <2>2. CASE k # 3
    <3>1. k + 1 \in Levels /\ t \in Int
      BY <1>5, <2>2, Widths
    <3> QED BY <1>5, <2>2, <3>1 DEF Unread, Behind
  <2> QED BY <2>1, <2>2
<1>8. ASSUME NEW k \in 0..3, NEW t \in Times, ~kept(t), ~Behind(k, t) PROVE metric[k][t] \subseteq gone
  <2>1. t \in Unread(k) \cap expired
    BY <1>7, <1>8
  <2> QED BY <2>1 DEF Total
<1>9. ASSUME NEW e \in gone PROVE \E k \in 0..3, t \in Times : e \in metric[k][t] /\ ~Behind(k, t) /\ ~kept(t)
  <2>1. PICK k \in 0..3 : e \in Total(k, Unread(k) \cap expired)
    OBVIOUS
  <2>2. PICK t \in Unread(k) \cap expired : e \in metric[k][t]
    BY <2>1 DEF Total
  <2> QED BY <1>7, <2>2
<1> HIDE DEF gone, expired, kept
<1>10. missed' \subseteq 1..executions
  BY <1>0, <1>1, <1>5, <1>9 DEF KnownInv
<1>11. ~Reading
  BY <1>1 DEF Reading
<1>12. ASSUME breaks = 0, NEW e \in missed' \ missed, NEW k \in 0..3, NEW t \in Times, e \in metric'[k][t]
       PROVE  Behind(k, t)
  <2>1. e \in gone /\ e \in 1..executions /\ kept(t) /\ e \in metric[k][t]
    BY <1>1, <1>6, <1>10, <1>12
  <2>2. PICK l \in 0..3, u \in Times : e \in metric[l][u] /\ ~Behind(l, u) /\ ~kept(u)
    BY <1>9, <2>1
  <2>3. ASSUME ~Behind(k, t) PROVE FALSE
    <3>1. Waits(e, k, t) /\ Waits(e, l, u)
      BY <1>11, <2>1, <2>2, <2>3 DEF Waits, BeingRead
    <3>2. t = u
      BY <1>0, <1>12, <2>1, <3>1 DEF OnceInv
    <3> QED BY <2>1, <2>2, <3>2
  <2> QED BY <2>3
<1>13. \A e \in 1..executions, k \in 0..3, t \in Times :
         e \in metric[k][t] /\ ~Behind(k, t) => e \in metric'[k][t] \/ e \in missed'
  BY <1>1, <1>6, <1>8
<1>14. \A k \in 0..3, t \in Times : metric'[k][t] \subseteq metric[k][t]
  BY <1>6
<1>15. run'.now <= minute /\ missed \subseteq missed' /\ run'.sum \subseteq 1..executions
  BY <1>0, <1>1, <1>3 DEF ClockInv, KnownInv
<1> QED BY <1>1, <1>3, <1>4, <1>10, <1>11, <1>12, <1>13, <1>14, <1>15, RecordsGo

LEMMA RunBreaksStep == ASSUME MetricsInv, RunBreaks PROVE MetricsInv'
<1>0. /\ MetricsTypeOK /\ KnownInv /\ ClockInv /\ PassInv /\ ReadInv /\ PresentInv /\ (~limited => OrderInv)
  BY DEF MetricsInv
<1>1. /\ breaks < MaxBreaks /\ breaks' = breaks + 1
      /\ UNCHANGED <<minute, arriving, executions, metric, doubled, marker, limited, missed>>
      /\ torn' = IF run.step = "advance" THEN torn \cup metric[run.level][run.at] ELSE torn
  BY DEF RunBreaks
<1>2. run' = [step |-> "none", level |-> 1, now |-> 0, at |-> 0, sum |-> {}, doubled |-> {}, done |-> 0]
  BY DEF RunBreaks, Resting
<1>3. run' \in RunRecords
  <2>1. 1 \in Levels /\ 0 \in Times /\ 0 \in 0..maxMinutesPerRun /\ 0 \in Nat /\ "none" \in RunSteps
    BY <1>0, Widths, MetricsAssumption, MetricsNumbers DEF RunSteps, Times
  <2> QED BY <1>2, <2>1 DEF RunRecords
<1>4. breaks \in Nat /\ breaks' \in 0..MaxBreaks /\ breaks' # 0
  <2>1. breaks \in 0..MaxBreaks /\ MaxBreaks \in Nat
    BY <1>0, MetricsTypeParts, MetricsAssumption
  <2> QED BY <1>1, <2>1
<1>5. MetricsTypeOK'
  <2>1. ASSUME run.step = "advance" PROVE metric[run.level][run.at] \subseteq Executions
    <3>1. Reading /\ AtWindow
      BY <2>1 DEF Reading, AtWindow
    <3>2. run.level \in 0..3 /\ run.at \in Times
      BY <3>1, WindowNumbers
    <3> QED BY <1>0, <3>2, MetricsNumbers
  <2>2. torn' \subseteq Executions
    BY <1>0, <1>1, <2>1, MetricsTypeParts
  <2> QED BY <1>0, <1>1, <1>3, <1>4, <2>2, MetricsTypeParts
<1>6. run'.step = "none" /\ run'.sum = {} /\ run'.now = 0
  BY <1>2
<1>7. ~Reading' /\ ~Passing' /\ ~AtWindow'
  BY <1>6 DEF Reading, Passing, AtWindow
<1>8. KnownInv' /\ ClockInv' /\ PassInv' /\ ReadInv'
  <2>1. 0 <= minute
    BY <1>0, MetricsNumbers
  <2> QED BY <1>0, <1>1, <1>6, <1>7, <2>1 DEF KnownInv, ClockInv, PassInv, ReadInv
<1>9. PresentInv'
  <2>1. ASSUME NEW e \in 1..executions PROVE e \in missed' \/ \E k \in 0..3, t \in Times : Waits(e, k, t)'
    <3>1. CASE e \in missed
      BY <1>1, <3>1
    <3>2. CASE \E k \in 0..3, t \in Times : Waits(e, k, t)
      BY <1>1, <1>7, <3>2 DEF Waits, Behind, BeingRead
    <3>3. CASE InSum(e)
      <4>1. /\ run.level \in 1..3 /\ run.level \in Levels /\ marker[run.level] \in Int /\ run.at \in Nat
            /\ NoMarker = -1 /\ Times \subseteq Nat
        BY <1>0, MetricsNumbers, Widths
      <4>2. PICK t \in Times : run.at <= t /\ e \in metric[run.level - 1][t]
        BY <1>0, <3>3 DEF ReadInv, InSum
      <4>3. marker[run.level] = run.at \/ marker[run.level] = NoMarker
        BY <1>0, <3>3 DEF PassInv, AtWindow, InSum, FromFirst
      <4>4. PICK k \in 0..3 : k = run.level - 1 /\ k + 1 = run.level
        BY <4>1
      <4>5. ~(t < marker[k + 1])
        BY <4>1, <4>2, <4>3, <4>4
      <4>6. Waits(e, k, t)'
        BY <1>1, <1>7, <4>2, <4>4, <4>5 DEF Waits, BeingRead, Behind
      <4> QED BY <4>6
    <3> QED BY <1>0, <3>1, <3>2, <3>3 DEF PresentInv
  <2> QED BY <1>1, <2>1 DEF PresentInv
<1>10. TimeInv'
  BY <1>1, <1>6, SameTimes
<1>11. ~limited' => OrderInv'
  BY <1>0, <1>1, <1>7 DEF OrderInv
<1> QED BY <1>4, <1>5, <1>8, <1>9, <1>10, <1>11 DEF MetricsInv

-----------------------------------------------------------------------------
(* An execution is stored *)

LEMMA StoreExecutionStep == ASSUME MetricsInv, StoreExecution PROVE MetricsInv'
<1>0. /\ MetricsTypeOK /\ KnownInv /\ ClockInv /\ PassInv /\ ReadInv /\ PresentInv
      /\ (breaks = 0 => OnceInv) /\ (~limited => OrderInv)
  BY DEF MetricsInv
<1>1. /\ arriving # NoMarker /\ arriving' = NoMarker /\ executions' = executions + 1
      /\ metric' = [metric EXCEPT ![0] = [metric[0] EXCEPT ![arriving] = metric[0][arriving] \cup {executions + 1}]]
      /\ missed' = IF Read(0, arriving) THEN missed \cup {executions + 1} ELSE missed
      /\ UNCHANGED <<minute, doubled, marker, run, limited, torn, breaks>>
  BY DEF StoreExecution
<1>2. PICK a \in Times, n \in Executions : a = arriving /\ n = executions + 1 /\ a # NoMarker
  <2>1. arriving \in Times
    BY <1>0, <1>1, MetricsTypeParts
  <2>2. executions + 1 \in Executions
    <3>1. executions \in 0..MaxExecutions /\ MaxExecutions \in Nat /\ executions < MaxExecutions
      BY <1>0, <1>1, MetricsTypeParts, MetricsAssumption DEF KnownInv
    <3> QED BY <3>1 DEF Executions
  <2> QED BY <1>1, <2>1, <2>2
<1>3. /\ executions \in Nat /\ n = executions + 1 /\ a \in Nat /\ a <= minute /\ NoMarker = -1
      /\ Times \subseteq Nat /\ \A l \in Levels : marker[l] \in Int
      /\ run.level \in 1..3 /\ run.level \in Levels /\ run.at \in Nat
  BY <1>0, <1>2, MetricsNumbers, Widths DEF ClockInv
<1>4. ASSUME NEW k \in 0..3, NEW t \in Times
      PROVE  metric'[k][t] = IF k = 0 /\ t = a THEN metric[k][t] \cup {n} ELSE metric[k][t]
  <2>1. metric \in Tables
    BY <1>0, MetricsTypeParts
  <2> QED BY <1>1, <1>2, <2>1 DEF Tables
<1>5. metric' \in Tables
  <2>1. metric \in Tables /\ metric[0][a] \cup {n} \in SUBSET Executions
    <3>1. metric \in Tables
      BY <1>0, MetricsTypeParts
    <3>2. metric[0][a] \in SUBSET Executions
      BY <3>1 DEF Tables
    <3> QED BY <3>1, <3>2
  <2>2. metric' = [metric EXCEPT ![0] = [metric[0] EXCEPT ![a] = metric[0][a] \cup {n}]]
    BY <1>1, <1>2
  <2> QED BY <2>1, <2>2 DEF Tables
<1>6. (IF Behind(0, a) \/ BeingRead(0, a) THEN missed' = missed \cup {n} ELSE missed' = missed)
  <2>1. Read(0, a) <=> Behind(0, a) \/ BeingRead(0, a)
    <3>1. a \in Window(1, run.at) <=> run.at <= a /\ a < run.at + Width[1]
      BY DEF Window
    <3>2. 1 \in Levels
      BY Widths
    <3>3. marker[1] > a <=> a < marker[1]
      BY <1>3, <3>2
    <3> QED BY <3>1, <3>3 DEF Read, Behind, BeingRead, Reading
  <2> QED BY <1>1, <1>2, <2>1
<1>7. executions' \in 0..MaxExecutions /\ \A e : e \in 1..executions' <=> e \in 1..executions \/ e = n
  <2>1. n \in 1..MaxExecutions /\ executions' = n /\ MaxExecutions \in Nat
    BY <1>1, <1>2, <1>3, MetricsAssumption DEF Executions
  <2> QED BY <1>3, <2>1
<1>8. MetricsTypeOK'
  <2>1. missed' \subseteq Executions
    BY <1>0, <1>2, <1>6, MetricsTypeParts
  <2> QED BY <1>0, <1>1, <1>5, <1>7, <2>1, MetricsTypeParts
<1>9. n \notin 1..executions
  BY <1>3
<1>10. KnownInv'
  <2>1. ASSUME NEW k \in 0..3, NEW t \in Times PROVE metric'[k][t] \subseteq 1..executions'
    <3>1. metric[k][t] \subseteq 1..executions
      BY <1>0 DEF KnownInv
    <3>2. ASSUME NEW e \in metric'[k][t] PROVE e \in 1..executions \/ e = n
      BY <1>4, <3>1, <3>2
    <3> QED BY <1>7, <3>2
  <2>2. missed' \subseteq 1..executions' /\ run'.sum \subseteq 1..executions'
    BY <1>0, <1>1, <1>6, <1>7 DEF KnownInv
  <2> QED BY <1>1, <2>1, <2>2 DEF KnownInv
<1>11. ClockInv'
  <2>1. ASSUME NEW t \in Times, metric'[0][t] # {} PROVE t <= minute
    <3>1. CASE t = a
      BY <1>3, <3>1
    <3>2. CASE t # a
      <4>1. metric[0][t] # {}
        <5>1. 0 \in 0..3
          OBVIOUS
        <5> QED BY <1>4, <2>1, <3>2, <5>1
      <4> QED BY <1>0, <4>1 DEF ClockInv
    <3> QED BY <3>1, <3>2
  <2>2. ASSUME NEW l \in Levels, NEW t \in Times, metric'[l][t] # {} PROVE metric[l][t] # {}
    BY <1>4, <2>2, Widths
  <2>3. NoMarker <= minute
    BY <1>0, MetricsNumbers
  <2> QED BY <1>0, <1>1, <2>1, <2>2, <2>3 DEF ClockInv
<1>12. PassInv'
  <2>1. ASSUME AtWindow, FromFirst(run.level, run.at) PROVE FromFirst(run.level, run.at)'
    <3>1. ASSUME NEW t \in Times, metric'[run.level - 1][t] # {} PROVE run.at <= t
      <4>1. run.level - 1 \in 0..3 /\ (run.level - 1 = 0 => run.level = 1)
        BY <1>3
      <4>2. CASE run.level = 1 /\ t = a
        BY <1>1, <1>2, <2>1, <4>2 DEF FromFirst
      <4>3. CASE ~(run.level = 1 /\ t = a)
        <5>1. metric[run.level - 1][t] # {}
          BY <1>4, <3>1, <4>1, <4>3
        <5> QED BY <2>1, <5>1 DEF FromFirst
      <4> QED BY <4>2, <4>3
    <3> QED BY <1>1, <2>1, <3>1 DEF FromFirst
  <2>2. (AtWindow' <=> AtWindow) /\ (Reading' <=> Reading)
    BY <1>1 DEF AtWindow, Reading
  <2> QED BY <1>0, <1>1, <2>1, <2>2 DEF PassInv
<1>13. ReadInv'
  <2>1. run.level - 1 \in 0..3 /\ (run.level - 1 = 0 <=> run.level = 1)
    BY <1>3
  <2>2. ASSUME run.step = "store", NEW e \in run.sum
        PROVE  \E t \in Times : run.at <= t /\ t < run.at + Width[run.level] /\ e \in metric'[run.level - 1][t]
    <3>1. PICK t \in Times : run.at <= t /\ t < run.at + Width[run.level] /\ e \in metric[run.level - 1][t]
      BY <1>0, <2>2 DEF ReadInv
    <3>2. e \in metric'[run.level - 1][t]
      BY <1>4, <2>1, <3>1
    <3> QED BY <3>1, <3>2
  <2>3. ASSUME Reading, NEW t \in Times, run.at <= t /\ t < run.at + Width[run.level]
        PROVE  metric'[run.level - 1][t] \subseteq run.sum \cup missed'
    <3>1. metric[run.level - 1][t] \subseteq run.sum \cup missed
      BY <1>0, <2>3 DEF ReadInv
    <3>2. CASE run.level = 1 /\ t = a
      <4>1. BeingRead(0, a)
        BY <2>3, <3>2 DEF BeingRead
      <4>2. metric'[run.level - 1][t] = metric[run.level - 1][t] \cup {n}
        BY <1>4, <2>1, <3>2
      <4> QED BY <1>6, <3>1, <4>1, <4>2
    <3>3. CASE ~(run.level = 1 /\ t = a)
      <4>1. metric'[run.level - 1][t] = metric[run.level - 1][t]
        BY <1>4, <2>1, <3>3
      <4> QED BY <1>6, <3>1, <4>1
    <3> QED BY <3>2, <3>3
  <2>4. Reading' => Reading
    BY <1>1 DEF Reading
  <2> QED BY <1>1, <2>2, <2>3, <2>4 DEF ReadInv
<1>14. ASSUME NEW e \in 1..executions, NEW k \in 0..3, NEW t \in Times PROVE Waits(e, k, t)' <=> Waits(e, k, t)
  <2>1. e \in metric'[k][t] <=> e \in metric[k][t]
    BY <1>4, <1>9
  <2> QED BY <1>1, <2>1 DEF Waits, Behind, BeingRead, Reading
<1>15. ASSUME NEW k \in 0..3, NEW t \in Times
       PROVE  Waits(n, k, t)' <=> k = 0 /\ t = a /\ ~Behind(0, a) /\ ~BeingRead(0, a)
  <2>1. n \in metric'[k][t] <=> k = 0 /\ t = a
    <3>1. metric[k][t] \subseteq 1..executions
      BY <1>0 DEF KnownInv
    <3> QED BY <1>4, <1>9, <3>1
  <2> QED BY <1>1, <2>1 DEF Waits, Behind, BeingRead, Reading
<1>16. \A e : (InSum(e)' <=> InSum(e)) /\ ~InSum(n)
  BY <1>0, <1>1, <1>9 DEF InSum, KnownInv
<1>17. PresentInv'
  <2>1. ASSUME NEW e \in 1..executions'
        PROVE  e \in missed' \/ InSum(e)' \/ \E k \in 0..3, t \in Times : Waits(e, k, t)'
    <3>1. CASE e = n
      <4>1. 0 \in 0..3
        OBVIOUS
      <4> QED BY <1>6, <1>15, <3>1, <4>1
    <3>2. CASE e \in 1..executions
      <4>1. CASE e \in missed
        BY <1>6, <4>1
      <4>2. CASE \E k \in 0..3, t \in Times : Waits(e, k, t)
        BY <1>14, <3>2, <4>2
      <4> QED BY <1>0, <1>16, <3>2, <4>1, <4>2 DEF PresentInv
    <3> QED BY <1>7, <3>1, <3>2
  <2> QED BY <2>1 DEF PresentInv
<1>18. ASSUME breaks' = 0 PROVE OnceInv'
  <2>1. OnceInv
    BY <1>0, <1>1, <1>18
  <2>2. ASSUME NEW e \in 1..executions', NEW k \in 0..3, NEW l \in 0..3, NEW t \in Times, NEW u \in Times,
               Waits(e, k, t)', Waits(e, l, u)'
        PROVE  k = l /\ t = u
    <3>1. CASE e = n
      BY <1>15, <2>2, <3>1
    <3>2. CASE e \in 1..executions
      BY <1>14, <2>1, <2>2, <3>2 DEF OnceInv
    <3> QED BY <1>7, <3>1, <3>2
  <2>3. ASSUME NEW e \in 1..executions', NEW k \in 0..3, NEW t \in Times, Waits(e, k, t)'
        PROVE  e \notin missed' /\ ~InSum(e)'
    <3>1. CASE e = n
      <4>1. missed' = missed
        BY <1>6, <1>15, <2>3, <3>1
      <4> QED BY <1>0, <1>9, <1>16, <3>1, <4>1 DEF KnownInv
    <3>2. CASE e \in 1..executions
      BY <1>6, <1>9, <1>14, <1>16, <2>1, <2>3, <3>2 DEF OnceInv
    <3> QED BY <1>7, <3>1, <3>2
  <2>4. run'.step = "store" => run'.sum \cap missed' = {}
    BY <1>0, <1>1, <1>6, <1>9, <2>1 DEF OnceInv, KnownInv
  <2>5. ASSUME NEW l \in Levels, NEW t \in Times, metric'[l][t] # {} PROVE metric[l][t] # {}
    BY <1>4, <2>5, Widths
  <2> QED BY <1>1, <2>1, <2>2, <2>3, <2>4, <2>5 DEF OnceInv
<1>19. ASSUME ~limited' PROVE OrderInv'
  <2>1. OrderInv
    BY <1>0, <1>1, <1>19
  <2>2. ASSUME NEW t \in Times, metric'[0][t] # {} PROVE metric[0][t] # {} \/ t = arriving
    <3>1. 0 \in 0..3
      OBVIOUS
    <3>2. CASE t # a
      BY <1>4, <2>2, <3>1, <3>2
    <3> QED BY <1>2, <3>2
  <2>3. ASSUME NEW t \in Times, metric'[1][t] # {} PROVE metric[1][t] # {}
    BY <1>4, <2>3
  <2>4. (Passing' <=> Passing) /\ arriving' = NoMarker
    BY <1>1 DEF Passing
  <2> QED BY <1>1, <2>1, <2>2, <2>3, <2>4 DEF OrderInv
<1>20. TimeInv'
  <2>1. PICK when \in [Executions -> Times] : Took(when)
    BY DEF MetricsInv, TimeInv
  <2>2. PICK after \in [Executions -> Times] : after[n] = a /\ \A e \in Executions : e # n => after[e] = when[e]
    <3> DEFINE after == [when EXCEPT ![n] = a]
    <3>1. after \in [Executions -> Times]
      OBVIOUS
    <3>2. after[n] = a /\ \A e \in Executions : e # n => after[e] = when[e]
      OBVIOUS
    <3> QED BY <3>1, <3>2
  <2>3. ASSUME NEW k \in 0..3, NEW t \in Times, NEW e \in metric'[k][t]
        PROVE  t <= after[e] /\ after[e] < t + Span(k)
    <3>1. metric[k][t] \subseteq 1..executions /\ metric[k][t] \subseteq Executions
      BY <1>0, MetricsNumbers DEF KnownInv
    <3>2. CASE e = n
      <4>1. k = 0 /\ t = a
        BY <1>4, <1>9, <2>3, <3>1, <3>2
      <4> QED BY <1>3, <2>2, <3>2, <4>1 DEF Span
    <3>3. CASE e # n
      <4>1. e \in metric[k][t] /\ e \in Executions
        BY <1>4, <2>3, <3>1, <3>3
      <4> QED BY <2>1, <2>2, <3>3, <4>1 DEF Took
    <3> QED BY <3>2, <3>3
  <2>4. ASSUME run'.step = "store", NEW e \in run'.sum
        PROVE  run'.at <= after[e] /\ after[e] < run'.at + Width[run'.level]
    <3>1. e \in Executions /\ e # n /\ run' = run
      BY <1>0, <1>1, <1>9, <2>4, MetricsNumbers DEF KnownInv
    <3> QED BY <2>1, <2>2, <2>4, <3>1 DEF Took
  <2>5. Took(after)'
    BY <2>3, <2>4 DEF Took
  <2> QED BY <2>5 DEF TimeInv
<1> QED BY <1>8, <1>10, <1>11, <1>12, <1>13, <1>17, <1>18, <1>19, <1>20 DEF MetricsInv

-----------------------------------------------------------------------------
(* A window is read, stored and passed *)

LEMMA DoublesAre ==
  ASSUME NEW k, NEW times, NEW e \in Doubles(k, times)
  PROVE  \/ \E t \in times : e \in doubled[k][t]
         \/ e \in Total(k, times) /\ \E t, u \in times : t # u /\ e \in metric[k][t] \cap metric[k][u]
<1> DEFINE several == UNION {doubled[k][t] : t \in times}
           again == {x \in Total(k, times) : \E t, u \in times : t # u /\ x \in metric[k][t] \cap metric[k][u]}
<1>1. Doubles(k, times) = several \cup again
  BY DEF Doubles
<1>2. e \in several => \E t \in times : e \in doubled[k][t]
  OBVIOUS
<1>3. e \in again => e \in Total(k, times) /\ \E t, u \in times : t # u /\ e \in metric[k][t] \cap metric[k][u]
  OBVIOUS
<1> HIDE DEF several, again
<1> QED BY <1>1, <1>2, <1>3

\* what a window stands for ends with the window
LEMMA WindowEnds ==
  ASSUME MetricsInv, AtWindow, NEW t \in Times, metric[run.level - 1][t] # {}, t < run.at + Width[run.level]
  PROVE  t + Span(run.level - 1) <= run.at + Width[run.level]
<1>0. ClockInv
  BY DEF MetricsInv
<1>1. /\ run.level \in 1..3 /\ run.level \in Levels /\ run.at \in Nat /\ Aligned(run.level, run.at)
      /\ Width[run.level] \in Nat \ {0} /\ t \in Nat
  BY WindowNumbers
<1>2. CASE run.level = 1
  BY <1>1, <1>2 DEF Span
<1>3. CASE run.level # 1
  <2>1. PICK l \in {1, 2} : l = run.level - 1 /\ l + 1 = run.level /\ l # 0
    BY <1>1, <1>3
  <2>2. l \in Levels
    BY Widths
  <2>3. Aligned(l, t)
    BY <1>0, <2>1, <2>2 DEF ClockInv
  <2>4. Aligned(l + 1, run.at + Width[run.level])
    BY <1>1, <2>1, NextIsAligned
  <2>5. run.at + Width[run.level] \in Int /\ t \in Int
    BY <1>1
  <2>6. Aligned(l, run.at + Width[run.level])
    BY <2>4, <2>5, Coarser
  <2>7. t + Width[l] <= run.at + Width[run.level]
    BY <2>2, <2>3, <2>5, <2>6, WindowsApart
  <2> QED BY <2>1, <2>7 DEF Span
<1> QED BY <1>2, <1>3

LEMMA ReadWindowStep == ASSUME MetricsInv, ReadWindow PROVE MetricsInv'
<1>0. /\ MetricsTypeOK /\ KnownInv /\ ClockInv /\ PassInv /\ ReadInv /\ PresentInv
      /\ (breaks = 0 => OnceInv) /\ (~limited => OrderInv)
  BY DEF MetricsInv
<1> DEFINE times == Window(run.level, run.at)
           sum == Total(run.level - 1, times)
           more == Doubles(run.level - 1, times)
<1>1. /\ run.step = "window" /\ run.at < Floor(run.level, run.now) /\ ~AtLimit
      /\ run' = [run EXCEPT !.sum = sum, !.doubled = more, !.step = IF sum = {} THEN "advance" ELSE "store"]
      /\ UNCHANGED <<minute, arriving, executions, metric, doubled, marker, limited, missed, torn, breaks>>
  BY DEF ReadWindow, IsOver
<1>2. /\ AtWindow /\ ~Reading /\ run.step # "store" /\ Passing
  BY <1>1 DEF AtWindow, Reading, Passing
<1>3. /\ run.level \in 1..3 /\ run.level \in Levels /\ run.level - 1 \in 0..3
      /\ run.level - 1 # 3 /\ (run.level - 1) + 1 = run.level
      /\ run.at \in Nat /\ Aligned(run.level, run.at) /\ run.now \in Nat
      /\ Width[run.level] \in Nat \ {0} /\ marker[run.level] \in Int /\ marker[run.level] <= run.at
      /\ Times \subseteq Nat
  BY <1>2, WindowNumbers
<1>4. \A t : t \in times <=> t \in Times /\ run.at <= t /\ t < run.at + Width[run.level]
  BY DEF Window
<1>5. \A e : e \in sum <=> \E t \in times : e \in metric[run.level - 1][t]
  BY DEF Total
<1>9. more \subseteq Executions
  <2>1. \A t \in Times : metric[run.level - 1][t] \subseteq Executions /\ doubled[run.level - 1][t] \subseteq Executions
    <3>1. metric \in Tables /\ doubled \in Tables
      BY <1>0, MetricsTypeParts
    <3> QED BY <1>3, <3>1 DEF Tables
  <2>2. \A t \in times : t \in Times
    BY <1>4
  <2>3. Total(run.level - 1, times) \subseteq Executions
    BY <2>1, <2>2 DEF Total
  <2>4. \A t \in times : doubled[run.level - 1][t] \subseteq Executions
    BY <2>1, <2>2
  <2>5. ASSUME NEW e \in more PROVE e \in Total(run.level - 1, times) \/ \E t \in times : e \in doubled[run.level - 1][t]
    BY <2>5, DoublesAre
  <2> HIDE DEF times, more
  <2> QED BY <2>3, <2>4, <2>5
<1> HIDE DEF times, sum, more
<1>6. sum \subseteq 1..executions /\ sum \subseteq Executions
  <2>1. \A t \in Times : metric[run.level - 1][t] \subseteq 1..executions /\ metric[run.level - 1][t] \subseteq Executions
    BY <1>0, <1>3, MetricsNumbers DEF KnownInv
  <2> QED BY <1>4, <1>5, <2>1
<1>7. run \in RunRecords /\ "advance" \in RunSteps /\ "store" \in RunSteps
  BY <1>0, MetricsTypeParts DEF RunSteps
<1>8. /\ run' \in RunRecords /\ run'.sum = sum /\ run'.level = run.level /\ run'.at = run.at /\ run'.now = run.now
      /\ run'.done = run.done /\ run'.step = IF sum = {} THEN "advance" ELSE "store"
  <2>1. CASE sum = {}
    <3>1. run' = [run EXCEPT !.sum = sum, !.doubled = more, !.step = "advance"]
      BY <1>1, <2>1
    <3> QED BY <1>6, <1>7, <1>9, <2>1, <3>1 DEF RunRecords
  <2>2. CASE sum # {}
    <3>1. run' = [run EXCEPT !.sum = sum, !.doubled = more, !.step = "store"]
      BY <1>1, <2>2
    <3> QED BY <1>6, <1>7, <1>9, <2>2, <3>1 DEF RunRecords
  <2> QED BY <2>1, <2>2
<1>10. MetricsTypeOK' /\ KnownInv' /\ ClockInv'
  BY <1>0, <1>1, <1>6, <1>8, MetricsTypeParts DEF KnownInv, ClockInv
<1>11. Reading' /\ AtWindow' /\ Passing'
  BY <1>8 DEF Reading, AtWindow, Passing
<1>12. PassInv'
  <2>1. run.at + Width[run.level] <= run.now
    <3>1. /\ Floor(run.level, run.now) \in Nat /\ Floor(run.level, run.now) <= run.now
          /\ Aligned(run.level, Floor(run.level, run.now))
      BY <1>3, Floors
    <3>2. run.at + Width[run.level] <= Floor(run.level, run.now)
      BY <1>1, <1>3, <3>1, WindowsApart
    <3> QED BY <1>3, <3>1, <3>2
  <2>2. run.level = 1 => run.done < maxMinutesPerRun
    <3>1. run.done \in 0..maxMinutesPerRun /\ maxMinutesPerRun \in Nat
      BY <1>0, MetricsNumbers, MetricsAssumption
    <3> QED BY <1>1, <3>1 DEF AtLimit
  <2>3. run'.step # "expire"
    BY <1>8
  <2>4. FromFirst(run.level, run.at)' <=> FromFirst(run.level, run.at)
    BY <1>1, <1>8 DEF FromFirst
  <2> QED BY <1>0, <1>1, <1>2, <1>8, <2>1, <2>2, <2>3, <2>4 DEF PassInv
<1>13. ReadInv'
  BY <1>1, <1>4, <1>5, <1>8 DEF ReadInv
<1>14. ASSUME NEW t \in times PROVE ~Behind(run.level - 1, t)
  <2>1. ~(t < marker[run.level])
    <3>1. run.at <= t /\ t \in Nat
      BY <1>3, <1>4
    <3> QED BY <1>3, <3>1
  <2>2. marker[(run.level - 1) + 1] = marker[run.level]
    BY <1>3
  <2> QED BY <2>1, <2>2 DEF Behind
<1>15. ASSUME NEW e, NEW k \in 0..3, NEW t \in Times
       PROVE  Waits(e, k, t)' <=> Waits(e, k, t) /\ ~(k = run.level - 1 /\ t \in times)
  <2>1. k + 1 = run.level <=> k = run.level - 1
    BY <1>3
  <2>2. BeingRead(k, t)' <=> k = run.level - 1 /\ t \in times
    BY <1>4, <1>8, <1>11, <2>1 DEF BeingRead
  <2>3. ~BeingRead(k, t) /\ (Behind(k, t)' <=> Behind(k, t))
    BY <1>1, <1>2 DEF BeingRead, Behind
  <2> QED BY <1>1, <2>2, <2>3 DEF Waits
<1>16. ASSUME NEW e, NEW t \in times, e \in metric[run.level - 1][t] PROVE Waits(e, run.level - 1, t)
  BY <1>2, <1>14, <1>16 DEF Waits, BeingRead
<1>17. PresentInv'
  <2>1. ASSUME NEW e \in 1..executions
        PROVE  e \in missed \/ InSum(e)' \/ \E k \in 0..3, t \in Times : Waits(e, k, t)'
    <3>1. CASE e \in missed
      BY <3>1
    <3>2. CASE \E k \in 0..3, t \in Times : Waits(e, k, t)
      <4>1. PICK k \in 0..3, t \in Times : Waits(e, k, t)
        BY <3>2
      <4>2. CASE k = run.level - 1 /\ t \in times
        <5>1. e \in sum
          BY <1>5, <4>1, <4>2 DEF Waits
        <5> QED BY <1>8, <5>1 DEF InSum
      <4>3. CASE ~(k = run.level - 1 /\ t \in times)
        BY <1>15, <4>1, <4>3
      <4> QED BY <4>2, <4>3
    <3> QED BY <1>0, <1>2, <3>1, <3>2 DEF PresentInv, InSum
  <2> QED BY <1>1, <2>1 DEF PresentInv
<1>18. ASSUME breaks' = 0 PROVE OnceInv'
  <2>1. OnceInv
    BY <1>0, <1>1, <1>18
  <2>2. ASSUME NEW e \in sum, NEW k \in 0..3, NEW t \in Times, Waits(e, k, t) PROVE k = run.level - 1 /\ t \in times
    <3>1. PICK u \in times : e \in metric[run.level - 1][u]
      BY <1>5
    <3>2. Waits(e, run.level - 1, u) /\ u \in Times /\ e \in 1..executions
      BY <1>4, <1>6, <1>16, <3>1
    <3> QED BY <1>3, <2>1, <2>2, <3>2 DEF OnceInv
  <2>3. ASSUME NEW e \in sum PROVE e \notin missed
    <3>1. PICK u \in times : e \in metric[run.level - 1][u]
      BY <1>5
    <3>2. Waits(e, run.level - 1, u) /\ u \in Times /\ e \in 1..executions
      BY <1>4, <1>6, <1>16, <3>1
    <3> QED BY <1>3, <2>1, <3>2 DEF OnceInv
  <2>5. ASSUME NEW e \in 1..executions, NEW k \in 0..3, NEW t \in Times, Waits(e, k, t)'
        PROVE  e \notin missed /\ ~InSum(e)'
    <3>1. Waits(e, k, t) /\ ~(k = run.level - 1 /\ t \in times)
      BY <1>15, <2>5
    <3>2. e \notin sum
      BY <2>2, <3>1
    <3> QED BY <1>8, <2>1, <3>1, <3>2 DEF OnceInv, InSum
  <2>6. \A e \in 1..executions, k, l \in 0..3, t, u \in Times : Waits(e, k, t)' /\ Waits(e, l, u)' => k = l /\ t = u
    BY <1>15, <2>1 DEF OnceInv
  <2>7. \A l \in Levels, t \in Times : metric'[l][t] # {} => t < marker'[l]
    BY <1>1, <2>1 DEF OnceInv
  <2>8. run'.sum \cap missed' = {}
    BY <1>1, <1>8, <2>3
  <2> QED BY <1>1, <2>5, <2>6, <2>7, <2>8 DEF OnceInv
<1>19. ASSUME ~limited' PROVE OrderInv'
  BY <1>0, <1>1, <1>2, <1>8, <1>19 DEF OrderInv
<1>20. TimeInv'
  <2>1. PICK when \in [Executions -> Times] : Took(when)
    BY DEF MetricsInv, TimeInv
  <2>2. ASSUME NEW e \in sum PROVE run.at <= when[e] /\ when[e] < run.at + Width[run.level]
    <3>1. PICK t \in times : e \in metric[run.level - 1][t]
      BY <1>5
    <3>2. t \in Times /\ run.at <= t /\ t < run.at + Width[run.level] /\ when[e] \in Nat /\ t \in Nat
      BY <1>3, <1>4, <1>6, <2>1
    <3>3. t + Span(run.level - 1) <= run.at + Width[run.level]
      BY <1>2, <3>1, <3>2, WindowEnds
    <3>4. t <= when[e] /\ when[e] < t + Span(run.level - 1)
      BY <1>3, <2>1, <3>1, <3>2 DEF Took
    <3>5. Span(run.level - 1) \in Int
      BY <1>3, Widths DEF Span
    <3> QED BY <1>3, <3>2, <3>3, <3>4, <3>5
  <2>3. Took(when)'
    BY <1>1, <1>8, <2>1, <2>2 DEF Took
  <2> QED BY <2>3 DEF TimeInv
<1> QED BY <1>10, <1>12, <1>13, <1>17, <1>18, <1>19, <1>20 DEF MetricsInv

\* the window is written, or the write is lost
LEMMA SumIsNotBehind ==
  ASSUME MetricsInv, run.step = "store", run.sum # {}, ~limited, NEW j \in 2..3, run.level < j
  PROVE  marker[j] <= run.at
<1>0. MetricsTypeOK /\ ClockInv /\ ReadInv /\ OrderInv
  BY DEF MetricsInv
<1>1. AtWindow
  BY DEF AtWindow
<1>2. /\ run.level \in 1..3 /\ run.level \in Levels /\ run.at \in Nat /\ Aligned(run.level, run.at)
      /\ Width[run.level] \in Nat \ {0} /\ marker[run.level] \in Int /\ marker[run.level] <= run.at
      /\ Times \subseteq Nat /\ j \in Levels /\ marker[j] \in Int
  BY <1>0, <1>1, WindowNumbers, MetricsNumbers, Widths
<1>3. PICK t \in Times : run.at <= t /\ t < run.at + Width[run.level] /\ metric[run.level - 1][t] # {}
  BY <1>0 DEF ReadInv
<1>4. t \in Nat /\ marker[run.level] <= t
  BY <1>2, <1>3
<1>5. CASE run.level = 1
  <2>1. metric[0][t] # {} /\ t = run.at
    <3>1. run.level - 1 = 0 /\ Width[run.level] = 1
      BY <1>5, Widths
    <3> QED BY <1>2, <1>3, <1>4, <3>1
  <2> QED BY <1>0, <1>4, <1>5, <2>1 DEF OrderInv
<1>6. CASE run.level = 2
  <2>1. j = 3 /\ metric[1][t] # {}
    <3>1. run.level - 1 = 1 /\ j = 3
      BY <1>6
    <3> QED BY <1>3, <3>1
  <2>2. marker[3] <= t
    BY <1>0, <1>4, <1>6, <2>1 DEF OrderInv
  <2>3. CASE marker[3] = NoMarker
    BY <1>2, <2>1, <2>3 DEF NoMarker
  <2>4. CASE marker[3] # NoMarker
    <3>1. Aligned(3, marker[3]) /\ 2 + 1 = 3
      BY <1>0, <1>2, <2>1, <2>4 DEF ClockInv
    <3>2. Aligned(2, marker[3])
      BY <1>2, <2>1, <3>1, Coarser
    <3>3. ASSUME run.at < marker[3] PROVE FALSE
      <4>1. run.at + Width[2] <= marker[3]
        BY <1>2, <1>6, <2>1, <3>2, <3>3, WindowsApart
      <4> QED BY <1>2, <1>3, <1>4, <1>6, <2>1, <2>2, <4>1
    <3> QED BY <1>2, <2>1, <3>3
  <2> QED BY <2>3, <2>4
<1> QED BY <1>2, <1>5, <1>6

LEMMA StoreWindowStep == ASSUME MetricsInv, StoreWindow PROVE MetricsInv'
<1>0. /\ MetricsTypeOK /\ KnownInv /\ ClockInv /\ PassInv /\ ReadInv /\ PresentInv
      /\ (breaks = 0 => OnceInv) /\ (~limited => OrderInv)
  BY DEF MetricsInv
<1>1. /\ run.step = "store" /\ arriving = NoMarker /\ run' = [run EXCEPT !.step = "advance"]
      /\ metric' = [metric EXCEPT ![run.level] = [metric[run.level] EXCEPT ![run.at] = metric[run.level][run.at] \cup run.sum]]
      /\ missed' = IF limited /\ run.at \notin Unread(run.level) THEN missed \cup run.sum ELSE missed
      /\ doubled' = [doubled EXCEPT ![run.level] = [doubled[run.level] EXCEPT ![run.at] =
                        doubled[run.level][run.at] \cup run.doubled \cup (metric[run.level][run.at] \cap run.sum)]]
      /\ UNCHANGED <<minute, arriving, executions, marker, limited, torn, breaks>>
  BY DEF StoreWindow
<1>2. AtWindow /\ Reading
  BY <1>1 DEF AtWindow, Reading
<1>3. PICK l \in 1..3, a \in Times : l = run.level /\ a = run.at
  BY <1>2, WindowNumbers
<1>4. /\ l \in Levels /\ l \in 0..3 /\ l - 1 \in 0..3 /\ l # l - 1 /\ l # 0
      /\ a \in Nat /\ Aligned(l, a) /\ run.now <= minute /\ run.now \in Nat /\ minute \in Nat
      /\ Width[l] \in Nat \ {0} /\ a + Width[l] <= run.now
      /\ marker[l] \in Int /\ marker[l] <= a /\ Times \subseteq Nat /\ NoMarker = -1
  BY <1>2, <1>3, WindowNumbers
<1>5. /\ run' \in RunRecords /\ run'.step = "advance" /\ run'.level = l /\ run'.at = a /\ run'.now = run.now
      /\ run'.sum = run.sum /\ run'.done = run.done
  <2>1. run \in RunRecords /\ "advance" \in RunSteps
    BY <1>0, MetricsTypeParts DEF RunSteps
  <2> QED BY <1>1, <1>3, <2>1 DEF RunRecords
<1>6. ASSUME NEW k \in 0..3, NEW t \in Times
      PROVE  metric'[k][t] = IF k = l /\ t = a THEN metric[k][t] \cup run.sum ELSE metric[k][t]
  <2>1. metric \in Tables
    BY <1>0, MetricsTypeParts
  <2> QED BY <1>1, <1>3, <1>4, <2>1 DEF Tables
<1>7. metric' \in Tables
  <2>1. metric \in Tables /\ run.sum \subseteq Executions
    BY <1>0, MetricsTypeParts, MetricsNumbers
  <2>2. metric[l][a] \cup run.sum \in SUBSET Executions
    BY <1>4, <2>1 DEF Tables
  <2>3. metric' = [metric EXCEPT ![l] = [metric[l] EXCEPT ![a] = metric[l][a] \cup run.sum]]
    BY <1>1, <1>3
  <2> QED BY <1>4, <2>1, <2>2, <2>3 DEF Tables
<1>8. MetricsTypeOK'
  <2>1. run.sum \subseteq Executions /\ metric[l][a] \subseteq Executions
    BY <1>0, <1>4, MetricsNumbers
  <2>2. missed' \subseteq Executions
    BY <1>0, <1>1, <2>1, MetricsTypeParts
  <2>3. doubled' \in Tables
    <3>1. doubled \in Tables /\ run.doubled \subseteq Executions
      BY <1>0, MetricsTypeParts DEF RunRecords
    <3> DEFINE more == doubled[l][a] \cup run.doubled \cup (metric[l][a] \cap run.sum)
    <3>2. more \in SUBSET Executions
      BY <1>4, <2>1, <3>1 DEF Tables
    <3>3. doubled' = [doubled EXCEPT ![l] = [doubled[l] EXCEPT ![a] = more]]
      BY <1>1, <1>3
    <3> HIDE DEF more
    <3> QED BY <1>4, <3>1, <3>2, <3>3 DEF Tables
  <2> QED BY <1>0, <1>1, <1>5, <1>7, <2>2, <2>3, MetricsTypeParts
<1>9. KnownInv'
  <2>1. ASSUME NEW k \in 0..3, NEW t \in Times PROVE metric'[k][t] \subseteq 1..executions'
    BY <1>0, <1>1, <1>6 DEF KnownInv
  <2>2. missed' \subseteq 1..executions' /\ run'.sum \subseteq 1..executions'
    BY <1>0, <1>1, <1>5 DEF KnownInv
  <2> QED BY <1>0, <1>1, <2>1, <2>2 DEF KnownInv
<1>10. \A t \in Times : metric'[0][t] = metric[0][t] /\ metric'[l - 1][t] = metric[l - 1][t]
  <2>1. 0 \in 0..3
    OBVIOUS
  <2> QED BY <1>4, <1>6, <2>1
<1>11. ClockInv'
  <2>1. ASSUME NEW m \in Levels, NEW t \in Times, metric'[m][t] # {} PROVE Aligned(m, t) /\ t + Width[m] <= minute
    <3>1. CASE m = l /\ t = a
      BY <1>4, <3>1
    <3>2. CASE ~(m = l /\ t = a)
      <4>1. metric[m][t] # {}
        BY <1>6, <2>1, <3>2, Widths
      <4> QED BY <1>0, <4>1 DEF ClockInv
    <3> QED BY <3>1, <3>2
  <2> QED BY <1>0, <1>1, <1>5, <1>10, <2>1 DEF ClockInv
<1>12. PassInv'
  <2>1. FromFirst(run.level, run.at) => FromFirst(run.level, run.at)'
    BY <1>1, <1>3, <1>5, <1>10 DEF FromFirst
  <2> QED BY <1>0, <1>1, <1>2, <1>3, <1>5, <2>1 DEF PassInv
<1>13. ReadInv'
  <2>1. missed \subseteq missed'
    BY <1>1
  <2> QED BY <1>0, <1>2, <1>3, <1>5, <1>10, <2>1 DEF ReadInv
<1>14. ASSUME NEW k \in 0..3, NEW t \in Times
       PROVE  (Behind(k, t)' <=> Behind(k, t)) /\ (BeingRead(k, t)' <=> BeingRead(k, t))
  BY <1>1, <1>2, <1>3, <1>5 DEF Behind, BeingRead, Reading
<1>15. ~BeingRead(l, a)
  BY <1>3, <1>4 DEF BeingRead
<1>16. ASSUME NEW e, NEW k \in 0..3, NEW t \in Times
       PROVE  Waits(e, k, t)' <=> Waits(e, k, t) \/ (k = l /\ t = a /\ e \in run.sum /\ ~Behind(l, a))
  <2>1. CASE k = l /\ t = a
    BY <1>6, <1>14, <1>15, <2>1 DEF Waits
  <2>2. CASE ~(k = l /\ t = a)
    BY <1>6, <1>14, <2>2 DEF Waits
  <2> QED BY <2>1, <2>2
<1>17. a \notin Unread(l) <=> Behind(l, a)
  <2>1. CASE l = 3
    BY <2>1 DEF Unread, Behind
  <2>2. CASE l # 3
    <3>1. l + 1 \in Levels
      BY <1>4, <2>2, Widths
    <3>2. marker[l + 1] \in Int
      BY <1>0, <3>1, MetricsNumbers
    <3> QED BY <1>4, <2>2, <3>2 DEF Unread, Behind
  <2> QED BY <2>1, <2>2
<1>18. missed' = IF limited /\ Behind(l, a) THEN missed \cup run.sum ELSE missed
  BY <1>1, <1>3, <1>17
<1>19. ASSUME ~limited, run.sum # {} PROVE ~Behind(l, a)
  <2>1. CASE l = 3
    BY <2>1 DEF Behind
  <2>2. CASE l # 3
    <3>1. l + 1 \in 2..3 /\ run.level < l + 1 /\ l + 1 \in Levels
      BY <1>3, <2>2, Widths
    <3>2. marker[l + 1] <= run.at
      BY <1>1, <1>19, <3>1, SumIsNotBehind
    <3>3. marker[l + 1] \in Int
      BY <1>0, <3>1, MetricsNumbers
    <3> QED BY <1>3, <1>4, <3>2, <3>3 DEF Behind
  <2> QED BY <2>1, <2>2
<1>20. PresentInv'
  <2>1. ASSUME NEW e \in 1..executions
        PROVE  e \in missed' \/ \E k \in 0..3, t \in Times : Waits(e, k, t)'
    <3>1. CASE e \in missed
      BY <1>1, <3>1
    <3>2. CASE \E k \in 0..3, t \in Times : Waits(e, k, t)
      BY <1>16, <3>2
    <3>3. CASE InSum(e)
      <4>1. e \in run.sum
        BY <3>3 DEF InSum
      <4>2. CASE Behind(l, a)
        BY <1>18, <1>19, <4>1, <4>2
      <4>3. CASE ~Behind(l, a)
        BY <1>4, <1>16, <4>1, <4>3
      <4> QED BY <4>2, <4>3
    <3> QED BY <1>0, <3>1, <3>2, <3>3 DEF PresentInv
  <2> QED BY <1>1, <2>1 DEF PresentInv
<1>21. ASSUME breaks' = 0 PROVE OnceInv'
  <2>1. OnceInv
    BY <1>0, <1>1, <1>21
  <2>2. metric[l][a] = {}
    BY <1>1, <1>4, <2>1 DEF OnceInv
  <2>4. ASSUME NEW e \in 1..executions, NEW k \in 0..3, NEW t \in Times, Waits(e, k, t)
        PROVE  e \notin run.sum /\ e \notin missed
    BY <1>1, <2>1, <2>4 DEF OnceInv, InSum
  <2>5. ASSUME NEW e \in 1..executions, NEW k \in 0..3, NEW m \in 0..3, NEW t \in Times, NEW u \in Times,
               Waits(e, k, t)', Waits(e, m, u)'
        PROVE  k = m /\ t = u
    <3>1. CASE e \in run.sum
      BY <1>16, <2>4, <2>5, <3>1
    <3>2. CASE e \notin run.sum
      BY <1>16, <2>1, <2>5, <3>2 DEF OnceInv
    <3> QED BY <3>1, <3>2
  <2>6. ASSUME NEW e \in 1..executions, NEW k \in 0..3, NEW t \in Times, Waits(e, k, t)'
        PROVE  e \notin missed' /\ ~InSum(e)'
    <3>1. ~InSum(e)'
      BY <1>5 DEF InSum
    <3>2. CASE Waits(e, k, t)
      BY <1>18, <2>4, <3>1, <3>2
    <3>3. CASE ~Waits(e, k, t)
      <4>1. e \in run.sum /\ ~Behind(l, a)
        BY <1>16, <2>6, <3>3
      <4>2. e \notin missed
        BY <1>1, <2>1, <4>1 DEF OnceInv
      <4> QED BY <1>18, <3>1, <4>1, <4>2
    <3> QED BY <3>2, <3>3
  <2>7. ASSUME NEW m \in Levels, NEW t \in Times, metric'[m][t] # {}
        PROVE  t < marker'[m] \/ (run'.step = "advance" /\ m = run'.level /\ t = run'.at)
    <3>1. CASE m = l /\ t = a
      BY <1>5, <3>1
    <3>2. CASE ~(m = l /\ t = a)
      <4>1. metric[m][t] # {}
        BY <1>6, <2>7, <3>2, Widths
      <4> QED BY <1>1, <2>1, <4>1 DEF OnceInv
    <3> QED BY <3>1, <3>2
  <2>8. run'.step # "store"
    BY <1>5
  <2> QED BY <1>1, <2>5, <2>6, <2>7, <2>8 DEF OnceInv
<1>22. ASSUME ~limited' PROVE OrderInv'
  <2>1. OrderInv /\ ~limited
    BY <1>0, <1>1, <1>22
  <2>2. (Passing' <=> Passing) /\ run'.level = run.level
    BY <1>1, <1>3, <1>5 DEF Passing
  <2>3. ASSUME NEW t \in Times, metric'[1][t] # {} PROVE metric[1][t] # {} \/ (l = 1 /\ t = a /\ run.sum # {})
    <3>1. 1 \in 0..3
      OBVIOUS
    <3> QED BY <1>6, <2>3, <3>1
  <2>4. ASSUME NEW t \in Times, metric'[1][t] # {}, marker[2] <= t PROVE marker[3] <= t
    <3>1. CASE metric[1][t] # {}
      BY <2>1, <2>4, <3>1 DEF OrderInv
    <3>2. CASE l = 1 /\ t = a /\ run.sum # {}
      <4>1. 3 \in 2..3 /\ run.level < 3
        BY <1>3, <3>2
      <4> QED BY <1>1, <1>3, <2>1, <3>2, <4>1, SumIsNotBehind
    <3> QED BY <2>3, <2>4, <3>1, <3>2
  <2>5. ASSUME run.level = 3, NEW t \in Times, metric'[1][t] # {} PROVE metric[1][t] # {}
    BY <1>3, <2>3, <2>5
  <2> QED BY <1>1, <1>5, <1>10, <2>1, <2>2, <2>4, <2>5 DEF OrderInv
<1>23. TimeInv'
  <2>1. PICK when \in [Executions -> Times] : Took(when)
    BY DEF MetricsInv, TimeInv
  <2>2. ASSUME NEW k \in 0..3, NEW t \in Times, NEW e \in metric'[k][t] PROVE t <= when[e] /\ when[e] < t + Span(k)
    <3>1. CASE e \in metric[k][t]
      BY <2>1, <3>1 DEF Took
    <3>2. CASE e \notin metric[k][t]
      <4>1. k = l /\ t = a /\ e \in run.sum
        BY <1>6, <2>2, <3>2
      <4> QED BY <1>1, <1>3, <1>4, <2>1, <4>1 DEF Took, Span
    <3> QED BY <3>1, <3>2
  <2>3. Took(when)'
    BY <1>5, <2>2 DEF Took
  <2> QED BY <2>3 DEF TimeInv
<1> QED BY <1>8, <1>9, <1>11, <1>12, <1>13, <1>20, <1>21, <1>22, <1>23 DEF MetricsInv

LEMMA StoreWindowFailsStep == ASSUME MetricsInv, StoreWindowFails PROVE MetricsInv'
<1>0. /\ MetricsTypeOK /\ KnownInv /\ ClockInv /\ PassInv /\ ReadInv /\ PresentInv
      /\ (breaks = 0 => OnceInv) /\ (~limited => OrderInv)
  BY DEF MetricsInv
<1>1. /\ run.step = "store" /\ run' = [run EXCEPT !.step = "advance"] /\ missed' = missed \cup run.sum
      /\ UNCHANGED <<minute, arriving, executions, metric, doubled, marker, limited, torn, breaks>>
  BY DEF StoreWindowFails
<1>2. /\ run' \in RunRecords /\ run'.step = "advance" /\ run'.level = run.level /\ run'.at = run.at
      /\ run'.now = run.now /\ run'.sum = run.sum /\ run'.done = run.done
  <2>1. run \in RunRecords /\ "advance" \in RunSteps
    BY <1>0, MetricsTypeParts DEF RunSteps
  <2> QED BY <1>1, <2>1 DEF RunRecords
<1>3. Reading /\ Reading' /\ AtWindow /\ AtWindow' /\ (Passing' <=> Passing)
  BY <1>1, <1>2 DEF Reading, AtWindow, Passing
<1>4. run.sum \subseteq Executions
  BY <1>0, MetricsNumbers
<1>5. MetricsTypeOK' /\ KnownInv' /\ ClockInv' /\ ReadInv'
  BY <1>0, <1>1, <1>2, <1>3, <1>4, MetricsTypeParts DEF KnownInv, ClockInv, ReadInv
<1>6. PassInv'
  BY <1>0, <1>1, <1>2, <1>3 DEF PassInv, FromFirst
<1>7. \A e, k, t : Waits(e, k, t)' <=> Waits(e, k, t)
  BY <1>1, <1>2, <1>3 DEF Waits, Behind, BeingRead
<1>8. \A e : ~InSum(e)' /\ (InSum(e) <=> e \in run.sum)
  BY <1>1, <1>2 DEF InSum
<1>9. PresentInv'
  BY <1>0, <1>1, <1>7, <1>8 DEF PresentInv
<1>10. ASSUME breaks' = 0 PROVE OnceInv'
  <2>1. OnceInv
    BY <1>0, <1>1, <1>10
  <2>2. \A e \in 1..executions, k \in 0..3, t \in Times : Waits(e, k, t)' => e \notin missed' /\ ~InSum(e)'
    BY <1>1, <1>7, <1>8, <2>1 DEF OnceInv
  <2>3. \A e \in 1..executions, k, l \in 0..3, t, u \in Times : Waits(e, k, t)' /\ Waits(e, l, u)' => k = l /\ t = u
    BY <1>7, <2>1 DEF OnceInv
  <2>4. \A l \in Levels, t \in Times : metric'[l][t] # {} => t < marker'[l]
    BY <1>1, <2>1 DEF OnceInv
  <2>5. run'.step # "store"
    BY <1>1, <1>2, <2>1 DEF OnceInv
  <2> QED BY <1>1, <2>2, <2>3, <2>4, <2>5 DEF OnceInv
<1>11. ~limited' => OrderInv'
  BY <1>0, <1>1, <1>2, <1>3 DEF OrderInv
<1>12. TimeInv'
  BY <1>1, <1>2, SameTimes
<1> QED BY <1>5, <1>6, <1>9, <1>10, <1>11, <1>12 DEF MetricsInv

LEMMA SetMarkerStep == ASSUME MetricsInv, SetMarker PROVE MetricsInv'
<1>0. /\ MetricsTypeOK /\ KnownInv /\ ClockInv /\ PassInv /\ (breaks = 0 => OnceInv) /\ (~limited => OrderInv)
  BY DEF MetricsInv
<1> DEFINE next == run.at + Width[run.level]
           done == IF run.level = 1 THEN run.done + 1 ELSE run.done
<1>1. /\ run.step = "advance" /\ marker' = [marker EXCEPT ![run.level] = next]
      /\ run' = [run EXCEPT !.step = "window", !.at = next, !.sum = {}, !.doubled = {}, !.done = done]
      /\ UNCHANGED <<minute, arriving, executions, metric, doubled, limited, missed, torn, breaks>>
  BY DEF SetMarker
<1>2. AtWindow /\ Reading /\ Passing
  BY <1>1 DEF AtWindow, Reading, Passing
<1>3. /\ run.level \in 1..3 /\ run.level \in Levels /\ run.level - 1 \in 0..3
      /\ run.level - 1 # 3 /\ (run.level - 1) + 1 = run.level
      /\ run.at \in Nat /\ Aligned(run.level, run.at) /\ run.now <= minute /\ run.now \in Nat /\ minute \in Nat
      /\ Width[run.level] \in Nat \ {0} /\ next \in Nat /\ NoMarker = -1
      /\ marker[run.level] \in Int /\ marker[run.level] <= run.at /\ Times \subseteq Nat
      /\ next <= run.now /\ run.at \in Times
  BY <1>2, WindowNumbers
<1>4. Aligned(run.level, next) /\ next <= minute /\ run.at < next
  <2>1. Aligned(run.level, next)
    BY <1>3, NextIsAligned
  <2> QED BY <1>3, <2>1
<1>5. done \in 0..maxMinutesPerRun
  <2>1. run.done \in 0..maxMinutesPerRun /\ maxMinutesPerRun \in Nat
    BY <1>0, MetricsNumbers, MetricsAssumption
  <2>2. run.level = 1 => run.done < maxMinutesPerRun
    BY <1>0, <1>2 DEF PassInv
  <2> QED BY <2>1, <2>2
<1>6. \A t \in Times : t < next <=> t < run.at \/ (run.at <= t /\ t < run.at + Width[run.level])
  BY <1>3, <1>4
<1> HIDE DEF next, done
<1>7. /\ run' \in RunRecords /\ run'.step = "window" /\ run'.level = run.level /\ run'.at = next
      /\ run'.now = run.now /\ run'.sum = {}
  <2>1. run \in RunRecords /\ "window" \in RunSteps /\ {} \in SUBSET Executions
    BY <1>0, MetricsTypeParts DEF RunSteps
  <2> QED BY <1>1, <1>3, <1>5, <2>1 DEF RunRecords
<1>8. /\ marker' \in Markers /\ marker'[run.level] = next
      /\ \A l \in Levels : l # run.level => marker'[l] = marker[l]
  <2>1. marker \in Markers
    BY <1>0, MetricsTypeParts
  <2> QED BY <1>1, <1>3, <2>1 DEF Markers
<1>9. ~Reading' /\ AtWindow' /\ Passing'
  BY <1>7 DEF Reading, AtWindow, Passing
<1>10. MetricsTypeOK' /\ KnownInv' /\ ReadInv'
  BY <1>0, <1>1, <1>7, <1>8, <1>9, MetricsTypeParts DEF KnownInv, ReadInv
<1>11. ClockInv'
  <2>1. ASSUME NEW l \in Levels PROVE marker'[l] <= minute /\ (marker'[l] # NoMarker => Aligned(l, marker'[l]))
    <3>1. CASE l = run.level
      BY <1>4, <1>8, <3>1
    <3>2. CASE l # run.level
      BY <1>0, <1>8, <3>2 DEF ClockInv
    <3> QED BY <3>1, <3>2
  <2> QED BY <1>0, <1>1, <1>7, <2>1 DEF ClockInv
<1>12. PassInv'
  BY <1>1, <1>4, <1>7, <1>8, <1>9 DEF PassInv
<1>13. ASSUME NEW e \in 1..executions, NEW k \in 0..3, NEW t \in Times PROVE Waits(e, k, t)' <=> Waits(e, k, t)
  <2>1. CASE k # run.level - 1
    <3>1. k + 1 # run.level /\ (k # 3 => k + 1 \in Levels)
      BY <1>3, <2>1, Widths
    <3>2. Behind(k, t)' <=> Behind(k, t)
      BY <1>8, <3>1 DEF Behind
    <3> QED BY <1>1, <1>9, <3>1, <3>2 DEF Waits, BeingRead
  <2>2. CASE k = run.level - 1 /\ metric[k][t] # {}
    <3>1. k # 3 /\ k + 1 = run.level
      BY <1>3, <2>2
    <3>2. t < marker'[k + 1] <=> t < run.at \/ BeingRead(k, t)
      BY <1>2, <1>6, <1>8, <3>1 DEF BeingRead
    <3>3. t < run.at <=> t < marker[k + 1]
      <4>1. CASE marker[run.level] = run.at
        BY <3>1, <4>1
      <4>2. CASE FromFirst(run.level, run.at)
        <5>1. run.at <= t /\ marker[run.level] = -1 /\ t \in Nat
          BY <1>3, <2>2, <4>2 DEF FromFirst
        <5> QED BY <1>3, <3>1, <5>1
      <4> QED BY <1>0, <1>2, <4>1, <4>2 DEF PassInv
    <3> QED BY <1>1, <1>9, <3>1, <3>2, <3>3 DEF Waits, Behind, BeingRead
  <2>3. CASE metric[k][t] = {}
    BY <1>1, <2>3 DEF Waits
  <2> QED BY <2>1, <2>2, <2>3
<1>14. PresentInv' /\ (breaks' = 0 => OnceInv')
  <2>1. ASSUME breaks = 0, NEW l \in Levels, NEW t \in Times, metric'[l][t] # {} PROVE t < marker'[l]
    <3>1. t < marker[l] \/ (l = run.level /\ t = run.at)
      BY <1>0, <1>1, <2>1 DEF OnceInv
    <3>2. t \in Nat /\ marker[l] \in Int
      BY <1>0, <1>3, MetricsNumbers
    <3>3. CASE l = run.level
      BY <1>3, <1>4, <1>8, <3>1, <3>2, <3>3
    <3>4. CASE l # run.level
      BY <1>8, <3>1, <3>4
    <3> QED BY <3>3, <3>4
  <2>2. run.step # "store" /\ run'.step # "store"
    BY <1>1, <1>7
  <2> QED BY <1>1, <1>13, <2>1, <2>2, SameWait
<1>15. ASSUME ~limited' PROVE OrderInv'
  <2>0. /\ OrderInv /\ 1 \in Levels /\ 2 \in Levels /\ 3 \in Levels
        /\ \A l \in Levels : marker[l] \in Int
    BY <1>0, <1>1, <1>15, MetricsNumbers, Widths
  <2>1. ASSUME NEW t \in Nat, marker'[1] <= t, marker[1] <= t => \A j \in 2..3 : marker[j] <= t,
               run.level \in {2, 3} /\ marker[1] <= t => run.now <= t
        PROVE  /\ \A j \in 2..3 : marker'[j] <= t
               /\ run'.level \in {2, 3} => run'.now <= t
    <3>1. marker[1] <= t
      <4>1. CASE run.level = 1
        BY <1>3, <1>4, <1>8, <2>0, <2>1, <4>1
      <4>2. CASE run.level # 1
        BY <1>8, <2>0, <2>1, <4>2
      <4> QED BY <4>1, <4>2
    <3>2. run'.level \in {2, 3} => run'.now <= t
      BY <1>7, <2>1, <3>1
    <3>3. ASSUME NEW j \in 2..3 PROVE marker'[j] <= t
      <4>1. j \in Levels
        BY Widths
      <4>2. CASE j = run.level
        <5>1. run.now <= t
          BY <2>1, <3>1, <4>2
        <5> QED BY <1>3, <1>8, <4>2, <5>1
      <4>3. CASE j # run.level
        BY <1>8, <2>1, <3>1, <4>1, <4>3
      <4> QED BY <4>2, <4>3
    <3> QED BY <3>2, <3>3
  <2>2. ASSUME NEW t \in Times, metric[0][t] # {}, marker'[1] <= t
        PROVE  (\A j \in 2..3 : marker'[j] <= t) /\ (run'.level \in {2, 3} => run'.now <= t)
    <3>1. /\ t \in Nat /\ (marker[1] <= t => \A j \in 2..3 : marker[j] <= t)
          /\ (run.level \in {2, 3} /\ marker[1] <= t => run.now <= t)
      BY <1>2, <1>3, <2>0, <2>2 DEF OrderInv
    <3> QED BY <2>1, <2>2, <3>1
  <2>3. ASSUME arriving # NoMarker, marker'[1] <= arriving
        PROVE  (\A j \in 2..3 : marker'[j] <= arriving) /\ (run'.level \in {2, 3} => run'.now <= arriving)
    <3>1. arriving \in Nat
      BY <1>0, <2>3, MetricsNumbers
    <3>2. /\ (marker[1] <= arriving => \A j \in 2..3 : marker[j] <= arriving)
          /\ (run.level \in {2, 3} /\ marker[1] <= arriving => run.now <= arriving)
      BY <1>2, <2>0, <2>3 DEF OrderInv
    <3> QED BY <2>1, <2>3, <3>1, <3>2
  <2>4. ASSUME NEW t \in Times, metric[1][t] # {}, marker'[2] <= t
        PROVE  marker'[3] <= t /\ (run'.level = 3 => Floor(3, run'.now) <= t)
    <3>1. t \in Nat /\ Floor(3, run.now) \in Nat
      BY <1>3, Floors, Widths
    <3>2. marker[2] <= t
      <4>1. CASE run.level = 2
        BY <1>3, <1>4, <1>8, <2>0, <2>4, <3>1, <4>1
      <4>2. CASE run.level # 2
        BY <1>8, <2>0, <2>4, <4>2
      <4> QED BY <4>1, <4>2
    <3>3. marker[3] <= t /\ (run.level = 3 => Floor(3, run.now) <= t)
      BY <1>2, <2>0, <2>4, <3>2 DEF OrderInv
    <3>4. marker'[3] <= t
      <4>1. CASE run.level = 3
        <5>1. next <= Floor(3, run.now) /\ marker'[3] = next
          BY <1>3, <1>4, <1>8, <2>0, <4>1, FloorIsLast
        <5> QED BY <1>3, <3>1, <3>3, <4>1, <5>1
      <4>2. CASE run.level # 3
        BY <1>8, <2>0, <3>3, <4>2
      <4> QED BY <4>1, <4>2
    <3> QED BY <1>7, <3>3, <3>4
  <2> QED BY <1>1, <1>9, <2>2, <2>3, <2>4 DEF OrderInv
<1>16. TimeInv'
  BY <1>1, <1>7, SameTimes
<1> QED BY <1>10, <1>11, <1>12, <1>14, <1>15, <1>16 DEF MetricsInv

-----------------------------------------------------------------------------
(* Theorems *)

LEMMA MetricsBegins == MetricsInit => MetricsInv
<1> SUFFICES ASSUME MetricsInit PROVE MetricsInv
  OBVIOUS
<1>1. /\ minute = 0 /\ arriving = NoMarker /\ executions = 0
      /\ metric = [k \in 0..3 |-> [t \in Times |-> {}]] /\ doubled = metric /\ marker = [k \in Levels |-> NoMarker]
      /\ run = [step |-> "none", level |-> 1, now |-> 0, at |-> 0, sum |-> {}, doubled |-> {}, done |-> 0]
      /\ limited = FALSE /\ missed = {} /\ torn = {} /\ breaks = 0
  BY DEF MetricsInit, Resting
<1>2. /\ 0 \in Times /\ 1 \in Levels /\ 0 \in 0..MaxExecutions /\ 0 \in 0..MaxBreaks
      /\ 0 \in 0..maxMinutesPerRun /\ 0 \in Nat /\ Times \subseteq Nat /\ NoMarker = -1
  BY MetricsAssumption DEF Times, Levels, NoMarker
<1>3. run \in RunRecords /\ run.step = "none" /\ run.sum = {} /\ run.now = 0
  <2>1. "none" \in RunSteps
    BY DEF RunSteps
  <2> QED BY <1>1, <1>2, <2>1 DEF RunRecords
<1>4. metric \in Tables /\ \A k \in 0..3, t \in Times : metric[k][t] = {}
  BY <1>1 DEF Tables
<1>5. marker \in Markers /\ \A l \in Levels : marker[l] = -1
  BY <1>1, <1>2 DEF Markers
<1>6. MetricsTypeOK
  <2>1. arriving \in Times \cup {NoMarker} /\ limited \in BOOLEAN
    BY <1>1
  <2>2. minute \in Times /\ executions \in 0..MaxExecutions /\ breaks \in 0..MaxBreaks
    BY <1>1, <1>2
  <2> QED BY <1>1, <1>3, <1>4, <1>5, <2>1, <2>2, MetricsTypeParts
<1>7. KnownInv
  BY <1>1, <1>3, <1>4 DEF KnownInv
<1>8. \A l \in Levels : l \in 0..3
  BY Widths
<1>9. ClockInv
  <2>1. 0 \in 0..3
    OBVIOUS
  <2> QED BY <1>1, <1>2, <1>3, <1>4, <1>5, <1>8, <2>1 DEF ClockInv
<1>10. ~Reading /\ ~AtWindow /\ ~Passing /\ \A e, k, t : ~InSum(e) /\ ~BeingRead(k, t)
  BY <1>3 DEF Reading, AtWindow, Passing, InSum, BeingRead
<1>11. PassInv /\ ReadInv
  BY <1>3, <1>10 DEF PassInv, ReadInv
<1>12. PresentInv
  <2>1. 1..executions = {}
    BY <1>1
  <2> QED BY <2>1 DEF PresentInv
<1>13. OnceInv
  BY <1>1, <1>3, <1>4, <1>8 DEF OnceInv, Waits
<1>14. OrderInv
  <2>1. 0 \in 0..3 /\ 1 \in 0..3
    OBVIOUS
  <2> QED BY <1>1, <1>4, <1>10, <2>1 DEF OrderInv
<1>15. TimeInv
  <2>1. PICK when \in [Executions -> Times] : TRUE
    <3>1. [e \in Executions |-> 0] \in [Executions -> Times]
      BY <1>2
    <3> QED BY <3>1
  <2>2. Took(when)
    BY <1>3, <1>4 DEF Took
  <2> QED BY <2>2 DEF TimeInv
<1> QED BY <1>6, <1>7, <1>9, <1>11, <1>12, <1>13, <1>14, <1>15 DEF MetricsInv

LEMMA MetricsGoOn == MetricsInv /\ [MetricsNext]_metricsVars => MetricsInv'
<1> SUFFICES ASSUME MetricsInv, [MetricsNext]_metricsVars PROVE MetricsInv'
  OBVIOUS
<1>1. CASE MetricsNext
  BY <1>1, TickStep, StoreExecutionStep, RunBeginsStep, CleanupOldStep, ReadMarkerStep, ReadWindowStep, PassEndsStep,
     StoreWindowStep, StoreWindowFailsStep, SetMarkerStep, CleanupStep, RunBreaksStep DEF MetricsNext
<1>2. CASE UNCHANGED metricsVars
  <2>1. MetricsTypeOK' /\ KnownInv' /\ ClockInv' /\ PassInv' /\ ReadInv'
    BY <1>2, MetricsTypeParts DEF MetricsInv, metricsVars, KnownInv, ClockInv, PassInv, FromFirst, ReadInv, AtWindow, Reading
  <2>2. \A e, k, t : (Waits(e, k, t)' <=> Waits(e, k, t)) /\ (InSum(e)' <=> InSum(e))
    BY <1>2 DEF metricsVars, Waits, Behind, BeingRead, Reading, InSum
  <2>3. PresentInv' /\ (breaks' = 0 => OnceInv')
    BY <1>2, <2>2 DEF MetricsInv, metricsVars, PresentInv, OnceInv
  <2>4. (~limited' => OrderInv') /\ TimeInv'
    BY <1>2 DEF MetricsInv, metricsVars, OrderInv, Passing, TimeInv, Took
  <2> QED BY <2>1, <2>3, <2>4 DEF MetricsInv
<1> QED BY <1>1, <1>2

LEMMA MetricsStay == MetricsSpec => []MetricsInv
<1> QED BY MetricsBegins, MetricsGoOn, PTL DEF MetricsSpec

\* Records, markers and the run keep their types (metrics_aggregation_service.ts): a run
\* aggregates no more than maxMinutesPerRun windows of a minute.
THEOREM MetricsTypeCorrect == MetricsSpec => []MetricsTypeOK
<1>1. MetricsInv => MetricsTypeOK
  BY DEF MetricsInv
<1> QED BY <1>1, MetricsStay, PTL

\* Whatever run breaks off and wherever, an execution that was stored is in a record that a
\* pass has still to read, or that no pass reads, or it is missed for one of the reasons that
\* the property names; and unless a run broke off, it is counted only once.
THEOREM ExecutionsAreCounted == MetricsSpec => []ExecutionsCounted
<1>1. ASSUME MetricsInv PROVE ExecutionsCounted
  <2>0. MetricsTypeOK /\ KnownInv /\ PassInv /\ ReadInv /\ PresentInv /\ (breaks = 0 => OnceInv)
    BY <1>1 DEF MetricsInv
  <2>1. ASSUME NEW k \in 0..3, NEW t \in Times PROVE t \in Unread(k) <=> ~Behind(k, t)
    <3>1. CASE k = 3
      BY <3>1 DEF Unread, Behind
    <3>2. CASE k # 3
      <4>1. k + 1 \in Levels /\ t \in Int
        BY <2>0, <3>2, Widths, MetricsNumbers
      <4>2. marker[k + 1] \in Int
        BY <2>0, <4>1, MetricsNumbers
      <4> QED BY <3>2, <4>1, <4>2 DEF Unread, Behind
    <3> QED BY <3>1, <3>2
  <2>2. ASSUME NEW e PROVE e \in Shown(Waiting) <=> \E k \in 0..3, t \in Times : e \in metric[k][t] /\ ~Behind(k, t)
    <3>1. ASSUME NEW k \in 0..3, NEW t \in Times, e \in metric[k][t], ~Behind(k, t) PROVE e \in Shown(Waiting)
      <4>1. <<k, t>> \in {k} \X Unread(k)
        BY <2>1, <3>1
      <4>2. <<k, t>> \in Waiting
        BY <4>1 DEF Waiting
      <4> QED BY <3>1, <4>2 DEF Shown
    <3>2. ASSUME e \in Shown(Waiting) PROVE \E k \in 0..3, t \in Times : e \in metric[k][t] /\ ~Behind(k, t)
      <4>1. PICK r \in Waiting : e \in metric[r[1]][r[2]]
        BY <3>2 DEF Shown
      <4>2. PICK k \in 0..3 : r \in {k} \X Unread(k)
        BY DEF Waiting
      <4>3. r[1] = k /\ r[2] \in Unread(k) /\ r[2] \in Times
        BY <4>2 DEF Unread
      <4> QED BY <2>1, <4>1, <4>3
    <3> QED BY <3>1, <3>2
  <2>3. ASSUME NEW e \in 1..executions PROVE e \in missed \cup Shown(Waiting)
    <3>1. CASE InSum(e)
      <4>1. AtWindow
        BY <3>1 DEF InSum, AtWindow
      <4>2. PICK k \in 0..3 : k = run.level - 1 /\ k + 1 = run.level /\ k # 3
        BY <4>1, <1>1, WindowNumbers
      <4>3. PICK t \in Times : run.at <= t /\ e \in metric[k][t]
        BY <2>0, <3>1, <4>2 DEF ReadInv, InSum
      <4>4. ~Behind(k, t)
        <5>1. marker[k + 1] \in Int /\ marker[k + 1] <= run.at /\ run.at \in Nat /\ t \in Nat
          BY <1>1, <4>1, <4>2, WindowNumbers
        <5> QED BY <4>3, <5>1 DEF Behind
      <4> QED BY <2>2, <4>3, <4>4
    <3>2. CASE \E k \in 0..3, t \in Times : Waits(e, k, t)
      BY <2>2, <3>2 DEF Waits
    <3> QED BY <2>0, <3>1, <3>2 DEF PresentInv
  <2>4. ASSUME breaks = 0, run.step \notin {"store", "advance"}
        PROVE  Apart(Waiting) /\ missed \cap Shown(Waiting) = {}
    <3>1. OnceInv /\ \A e, k, t : Waits(e, k, t) <=> e \in metric[k][t] /\ ~Behind(k, t)
      BY <2>0, <2>4 DEF Waits, BeingRead, Reading
    <3>2. ASSUME NEW e \in 1..executions, NEW r \in Waiting, NEW q \in Waiting,
                 e \in metric[r[1]][r[2]], e \in metric[q[1]][q[2]]
          PROVE  r = q
      <4>1. PICK k \in 0..3 : r \in {k} \X Unread(k)
        BY DEF Waiting
      <4>2. PICK l \in 0..3 : q \in {l} \X Unread(l)
        BY DEF Waiting
      <4>3. r[1] = k /\ r[2] \in Times /\ r[2] \in Unread(k) /\ q[1] = l /\ q[2] \in Times /\ q[2] \in Unread(l)
        BY <4>1, <4>2 DEF Unread
      <4>4. Waits(e, k, r[2]) /\ Waits(e, l, q[2])
        BY <2>1, <3>1, <3>2, <4>3
      <4>5. k = l /\ r[2] = q[2]
        BY <3>1, <4>3, <4>4 DEF OnceInv
      <4> QED BY <4>1, <4>2, <4>3, <4>5
    <3>3. ASSUME NEW e \in missed, e \in Shown(Waiting) PROVE FALSE
      <4>1. PICK k \in 0..3, t \in Times : e \in metric[k][t] /\ ~Behind(k, t)
        BY <2>2, <3>3
      <4> QED BY <2>0, <3>1, <4>1 DEF OnceInv, KnownInv
    <3> QED BY <3>2, <3>3 DEF Apart
  <2> QED BY <2>0, <2>3, <2>4 DEF ExecutionsCounted, OnceInv
<1> QED BY <1>1, MetricsStay, PTL

-----------------------------------------------------------------------------
(* What is counted more than once *)

\* only a run that broke off leaves a record of a window that its marker has not passed
TornInv ==
  /\ \A k \in 0..3, t \in Times : doubled[k][t] \subseteq torn
  /\ run.doubled \subseteq torn
  /\ \A l \in Levels, t \in Times :
       metric[l][t] \subseteq torn \/ t < marker[l] \/ (run.step = "advance" /\ l = run.level /\ t = run.at)

\* nothing is added to the records, and the marker passes the window that was stored
LEMMA SameDoubles ==
  ASSUME MetricsInv, TornInv, torn' = torn, run'.doubled = run.doubled \/ run'.doubled = {},
         \A k \in 0..3, t \in Times : doubled'[k][t] \subseteq doubled[k][t],
         \A l \in Levels, t \in Times : metric'[l][t] \subseteq metric[l][t],
         \A l \in Levels : marker[l] <= marker'[l] /\ marker'[l] \in Int,
         run.step = "advance" => UNCHANGED run \/ run.at < marker'[run.level]
  PROVE  TornInv'
<1>0. MetricsTypeOK
  BY DEF MetricsInv
<1>1. ASSUME NEW l \in Levels, NEW t \in Times
      PROVE  metric'[l][t] \subseteq torn \/ t < marker'[l] \/ (run'.step = "advance" /\ l = run'.level /\ t = run'.at)
  <2>1. CASE metric[l][t] \subseteq torn
    BY <2>1
  <2>2. CASE t < marker[l]
    <3>1. t \in Int /\ marker[l] \in Int
      BY <1>0, MetricsNumbers
    <3> QED BY <2>2, <3>1
  <2>3. CASE run.step = "advance" /\ l = run.level /\ t = run.at
    BY <2>3
  <2> QED BY <2>1, <2>2, <2>3 DEF TornInv
<1>2. \A k \in 0..3, t \in Times : doubled'[k][t] \subseteq torn
  BY DEF TornInv
<1>3. run'.doubled \subseteq torn
  BY DEF TornInv
<1> QED BY <1>1, <1>2, <1>3 DEF TornInv

LEMMA MarkersKeep == ASSUME MetricsTypeOK, marker' = marker PROVE \A l \in Levels : marker[l] <= marker'[l] /\ marker'[l] \in Int
<1>1. \A l \in Levels : marker[l] \in Int
  BY MetricsNumbers
<1> QED BY <1>1

LEMMA RunKeepsDoubles ==
  ASSUME MetricsInv, TornInv, RunBegins \/ ReadMarker \/ PassEnds \/ CleanupOld \/ Cleanup
  PROVE  TornInv'
<1>0. MetricsTypeOK /\ ClockInv
  BY DEF MetricsInv
<1>1. run.step # "advance" /\ torn' = torn
  BY DEF RunBegins, ReadMarker, PassEnds, CleanupOld, Cleanup
<1>2. run'.doubled = run.doubled \/ run'.doubled = {}
  <2>1. run \in RunRecords
    BY <1>0, MetricsTypeParts
  <2>2. Resting.doubled = {}
    BY DEF Resting
  <2>3. CASE ReadMarker \/ PassEnds
    BY <2>1, <2>3 DEF ReadMarker, PassEnds, NextPass, RunRecords
  <2>4. CASE CleanupOld \/ Cleanup
    BY <2>1, <2>2, <2>4 DEF CleanupOld, Cleanup, RunRecords
  <2>5. CASE RunBegins
    BY <2>5 DEF RunBegins, Resting
  <2> QED BY <2>3, <2>4, <2>5
<1>3. metric \in Tables /\ doubled \in Tables /\ \A l \in Levels : l \in 0..3 /\ l - 1 \in 0..3
  BY <1>0, MetricsTypeParts, Widths
<1>4. \A k \in 0..3, t \in Times : metric'[k][t] \subseteq metric[k][t] /\ doubled'[k][t] \subseteq doubled[k][t]
  <2>1. CASE RunBegins \/ ReadMarker \/ PassEnds
    BY <2>1 DEF RunBegins, ReadMarker, PassEnds
  <2>2. CASE CleanupOld
    BY <2>2 DEF CleanupOld
  <2>3. CASE Cleanup
    <3> DEFINE Left(records) == [t \in Times |-> IF t \in Processed(run.level) THEN {} ELSE records[t]]
    <3>1. /\ metric' = [metric EXCEPT ![run.level - 1] = Left(metric[run.level - 1])]
          /\ doubled' = [doubled EXCEPT ![run.level - 1] = Left(doubled[run.level - 1])]
      BY <2>3 DEF Cleanup
    <3>2. \A records, t : t \in Times => Left(records)[t] \subseteq records[t]
      OBVIOUS
    <3> HIDE DEF Left
    <3>3. ASSUME NEW k \in 0..3
          PROVE  /\ metric'[k] = metric[k] \/ metric'[k] = Left(metric[k])
                 /\ doubled'[k] = doubled[k] \/ doubled'[k] = Left(doubled[k])
      BY <1>3, <3>1 DEF Tables
    <3> QED BY <3>2, <3>3
  <2> QED BY <2>1, <2>2, <2>3
<1>5. \A l \in Levels : marker[l] <= marker'[l] /\ marker'[l] \in Int
  <2>1. CASE marker' = marker
    BY <1>0, <2>1, MarkersKeep
  <2>2. CASE ReadMarker /\ marker' # marker
    <3>1. marker[run.level] = NoMarker /\ marker' = [marker EXCEPT ![run.level] = Floor(run.level, run.now)]
      BY <2>2 DEF ReadMarker
    <3>2. /\ run.level \in Levels /\ run.now \in Nat /\ NoMarker = -1 /\ marker \in Markers
          /\ \A l \in Levels : marker[l] \in Int
      BY <1>0, MetricsNumbers, MetricsTypeParts, Widths
    <3>3. Floor(run.level, run.now) \in Nat
      BY <3>2, Floors
    <3>4. \A l \in Levels : marker'[l] = IF l = run.level THEN Floor(run.level, run.now) ELSE marker[l]
      BY <3>1, <3>2 DEF Markers
    <3> QED BY <3>1, <3>2, <3>3, <3>4
  <2>3. ReadMarker \/ marker' = marker
    BY DEF RunBegins, PassEnds, CleanupOld, Cleanup
  <2> QED BY <2>1, <2>2, <2>3
<1> QED BY <1>1, <1>2, <1>3, <1>4, <1>5, SameDoubles

\* two records that stand for one execution are of different levels, and the finer of them is
\* before the window of the present that the coarser one's level has
LEMMA RecordsApart ==
  ASSUME MetricsInv, NEW e, NEW k \in 0..3, NEW l \in 0..3, NEW t \in Times, NEW u \in Times,
         e \in metric[k][t], e \in metric[l][u]
  PROVE  /\ k = l => t = u
         /\ k < l => t < Floor(k + 1, minute)
<1>0. MetricsTypeOK /\ ClockInv
  BY DEF MetricsInv
<1>1. PICK when \in [Executions -> Times] : Took(when)
  BY DEF MetricsInv, TimeInv
<1>2. e \in Executions /\ t \in Nat /\ u \in Nat /\ minute \in Nat /\ Times \subseteq Nat
  BY <1>0, MetricsNumbers
<1>3. PICK w \in Nat : w = when[e]
  BY <1>1, <1>2
<1>4. t <= w /\ w < t + Span(k) /\ u <= w /\ w < u + Span(l)
  BY <1>1, <1>3 DEF Took
<1>5. ASSUME k = l PROVE t = u
  <2>1. CASE k = 0
    BY <1>2, <1>3, <1>4, <1>5, <2>1 DEF Span
  <2>2. CASE k # 0
    <3>1. k \in Levels /\ Span(k) = Width[k] /\ Width[k] \in Nat
      BY <2>2, Widths DEF Span
    <3>2. Aligned(k, t) /\ Aligned(k, u)
      BY <1>0, <1>5, <3>1 DEF ClockInv
    <3>3. ASSUME t < u PROVE FALSE
      <4>1. t + Width[k] <= u
        BY <1>2, <3>1, <3>2, <3>3, WindowsApart
      <4> QED BY <1>2, <1>3, <1>4, <3>1, <4>1
    <3>4. ASSUME u < t PROVE FALSE
      <4>1. u + Width[k] <= t
        BY <1>2, <3>1, <3>2, <3>4, WindowsApart
      <4> QED BY <1>2, <1>3, <1>4, <1>5, <3>1, <4>1
    <3> QED BY <1>2, <3>3, <3>4
  <2> QED BY <2>1, <2>2
<1>6. ASSUME k < l PROVE t < Floor(k + 1, minute)
  <2>1. l \in Levels /\ k + 1 \in Levels /\ Span(l) = Width[l] /\ Width[l] \in Nat \ {0}
    BY <1>6, Widths DEF Span
  <2>2. Aligned(l, u) /\ u + Width[l] <= minute
    BY <1>0, <2>1 DEF ClockInv
  <2>3. u + Width[l] <= Floor(l, minute)
    <3>1. Aligned(l, u + Width[l]) /\ u + Width[l] \in Int
      BY <1>2, <2>1, <2>2, NextIsAligned
    <3> QED BY <1>2, <2>1, <2>2, <3>1, FloorIsLast
  <2>4. Floor(l, minute) <= Floor(k + 1, minute) /\ Floor(l, minute) \in Nat /\ Floor(k + 1, minute) \in Nat
    <3>1. \A m \in Levels : Floor(m, minute) \in Nat
      BY <1>2, Floors
    <3>2. /\ Floor(3, minute) <= Floor(2, minute) /\ Floor(2, minute) <= Floor(1, minute)
          /\ Floor(3, minute) \in Nat /\ Floor(2, minute) \in Nat /\ Floor(1, minute) \in Nat
      BY <1>2, <3>1, CoarserFloor, Widths
    <3>3. /\ l \in 1..3 /\ k + 1 <= l /\ k + 1 \in 1..3
      BY <1>6, <2>1, Widths
    <3>4. (l = 1 /\ k + 1 = 1) \/ (l = 2 /\ k + 1 \in {1, 2}) \/ (l = 3 /\ k + 1 \in {1, 2, 3})
      BY <3>3
    <3> QED BY <2>1, <3>1, <3>2, <3>4
  <2> QED BY <1>2, <1>3, <1>4, <2>1, <2>3, <2>4
<1> QED BY <1>5, <1>6

LEMMA TornGoesOn == MetricsInv /\ TornInv /\ [MetricsNext]_metricsVars => TornInv'
<1> SUFFICES ASSUME MetricsInv, TornInv, [MetricsNext]_metricsVars PROVE TornInv'
  OBVIOUS
<1>0. MetricsTypeOK /\ PassInv
  BY DEF MetricsInv
<1>1. CASE Tick \/ Executes \/ StoreExecutionFails \/ UNCHANGED metricsVars
  <2>1. UNCHANGED <<metric, doubled, marker, run, torn>>
    BY <1>1 DEF Tick, Executes, StoreExecutionFails, metricsVars
  <2> QED BY <2>1 DEF TornInv
<1>2. CASE StoreExecution
  <2>1. /\ UNCHANGED <<doubled, marker, run, torn>>
        /\ metric' = [metric EXCEPT ![0] = [metric[0] EXCEPT ![arriving] = metric[0][arriving] \cup {executions + 1}]]
    BY <1>2 DEF StoreExecution
  <2>2. metric \in Tables
    BY <1>0, MetricsTypeParts
  <2>3. ASSUME NEW l \in Levels PROVE metric'[l] = metric[l]
    <3>1. l \in 0..3 /\ l # 0
      BY Widths
    <3> QED BY <2>1, <2>2, <3>1 DEF Tables
  <2> QED BY <2>1, <2>3 DEF TornInv
<1>3. CASE RunBegins \/ ReadMarker \/ PassEnds \/ CleanupOld \/ Cleanup
  BY <1>3, RunKeepsDoubles
<1>4. CASE SetMarker
  <2>1. /\ run.step = "advance" /\ UNCHANGED <<metric, doubled, torn>>
        /\ marker' = [marker EXCEPT ![run.level] = run.at + Width[run.level]]
        /\ run'.doubled = {}
    <3>1. run \in RunRecords
      BY <1>0, MetricsTypeParts
    <3> QED BY <1>4, <3>1 DEF SetMarker, RunRecords
  <2>2. AtWindow
    BY <2>1 DEF AtWindow
  <2>3. /\ run.level \in Levels /\ run.at \in Nat /\ Width[run.level] \in Nat \ {0}
        /\ run.at + Width[run.level] \in Nat /\ marker[run.level] <= run.at /\ marker[run.level] \in Int
    BY <2>2, WindowNumbers
  <2>4. marker \in Markers /\ \A l \in Levels : marker[l] \in Int
    BY <1>0, MetricsTypeParts, MetricsNumbers
  <2>5. \A l \in Levels : marker'[l] = IF l = run.level THEN run.at + Width[run.level] ELSE marker[l]
    BY <2>1, <2>3, <2>4 DEF Markers
  <2>6. \A l \in Levels : marker[l] <= marker'[l] /\ marker'[l] \in Int
    BY <2>3, <2>4, <2>5
  <2>7. run.at < marker'[run.level]
    BY <2>3, <2>5
  <2> QED BY <2>1, <2>6, <2>7, SameDoubles
<1>5. CASE ReadWindow
  <2> DEFINE more == Doubles(run.level - 1, Window(run.level, run.at))
  <2>1. run.step = "window" /\ UNCHANGED <<metric, doubled, marker, torn>> /\ run'.doubled = more
    <3>1. run \in RunRecords
      BY <1>0, MetricsTypeParts
    <3> QED BY <1>5, <3>1 DEF ReadWindow, RunRecords
  <2>2. run.level - 1 \in 0..3
    <3>1. AtWindow
      BY <2>1 DEF AtWindow
    <3> QED BY <3>1, WindowNumbers
  <2>3. ASSUME NEW e \in more PROVE e \in torn
    <3>1. CASE \E t \in Window(run.level, run.at) : e \in doubled[run.level - 1][t]
      BY <2>2, <3>1 DEF TornInv, Window
    <3>2. ASSUME NEW t \in Window(run.level, run.at), NEW u \in Window(run.level, run.at), t # u,
                 e \in metric[run.level - 1][t], e \in metric[run.level - 1][u]
          PROVE  FALSE
      <4>1. t \in Times /\ u \in Times
        BY DEF Window
      <4> QED BY <2>2, <3>2, <4>1, RecordsApart
    <3>3. \/ \E t \in Window(run.level, run.at) : e \in doubled[run.level - 1][t]
          \/ \E t, u \in Window(run.level, run.at) :
               t # u /\ e \in metric[run.level - 1][t] \cap metric[run.level - 1][u]
      BY <2>3, DoublesAre
    <3> QED BY <3>1, <3>2, <3>3
  <2> HIDE DEF more
  <2> QED BY <2>1, <2>3 DEF TornInv
<1>6. CASE StoreWindow
  <2>1. AtWindow /\ Reading
    BY <1>6 DEF StoreWindow, AtWindow, Reading
  <2>2. PICK l \in 1..3, a \in Times : l = run.level /\ a = run.at
    BY <2>1, WindowNumbers
  <2>3. l \in Levels /\ l \in 0..3 /\ marker[l] \in Int /\ marker[l] <= a /\ a \in Nat
    BY <2>1, <2>2, WindowNumbers
  <2> DEFINE more == doubled[l][a] \cup run.doubled \cup (metric[l][a] \cap run.sum)
  <2>4. /\ run.step = "store" /\ run'.step = "advance" /\ run'.doubled = run.doubled
        /\ run'.level = l /\ run'.at = a
        /\ metric' = [metric EXCEPT ![l] = [metric[l] EXCEPT ![a] = metric[l][a] \cup run.sum]]
        /\ doubled' = [doubled EXCEPT ![l] = [doubled[l] EXCEPT ![a] = more]]
        /\ UNCHANGED <<marker, torn>>
    <3>1. run \in RunRecords
      BY <1>0, MetricsTypeParts
    <3> QED BY <1>6, <2>2, <3>1 DEF StoreWindow, RunRecords
  <2>5. metric[l][a] \subseteq torn
    BY <2>3, <2>4 DEF TornInv
  <2>6. more \subseteq torn
    BY <2>3, <2>5 DEF TornInv
  <2> HIDE DEF more
  <2>7. metric \in Tables /\ doubled \in Tables
    BY <1>0, MetricsTypeParts
  <2>8. ASSUME NEW k \in 0..3, NEW t \in Times PROVE doubled'[k][t] \subseteq torn
    BY <2>4, <2>6, <2>7 DEF Tables, TornInv
  <2>9. ASSUME NEW m \in Levels, NEW t \in Times
        PROVE  metric'[m][t] \subseteq torn \/ t < marker'[m] \/ (run'.step = "advance" /\ m = run'.level /\ t = run'.at)
    <3>1. CASE m = l /\ t = a
      BY <2>4, <3>1
    <3>2. CASE ~(m = l /\ t = a)
      <4>1. m \in 0..3
        BY Widths
      <4>2. metric'[m][t] = metric[m][t]
        BY <2>4, <2>7, <3>2, <4>1 DEF Tables
      <4> QED BY <2>4, <4>2 DEF TornInv
    <3> QED BY <3>1, <3>2
  <2> QED BY <2>4, <2>8, <2>9 DEF TornInv
<1>7. CASE StoreWindowFails
  <2>1. run.step = "store" /\ UNCHANGED <<metric, doubled, marker, torn>> /\ run'.doubled = run.doubled
    <3>1. run \in RunRecords
      BY <1>0, MetricsTypeParts
    <3> QED BY <1>7, <3>1 DEF StoreWindowFails, RunRecords
  <2> QED BY <2>1 DEF TornInv
<1>8. CASE RunBreaks
  <2>1. /\ UNCHANGED <<metric, doubled, marker>> /\ run' = Resting
        /\ torn' = IF run.step = "advance" THEN torn \cup metric[run.level][run.at] ELSE torn
    BY <1>8 DEF RunBreaks
  <2>2. run'.doubled = {} /\ run'.step = "none"
    BY <2>1 DEF Resting
  <2>3. \A l \in Levels, t \in Times : metric'[l][t] \subseteq torn' \/ t < marker'[l]
    BY <2>1 DEF TornInv
  <2>4. \A k \in 0..3, t \in Times : doubled'[k][t] \subseteq torn'
    BY <2>1 DEF TornInv
  <2> QED BY <2>2, <2>3, <2>4 DEF TornInv
<1> QED BY <1>1, <1>2, <1>3, <1>4, <1>5, <1>6, <1>7, <1>8 DEF MetricsNext

LEMMA TornStays == MetricsSpec => []TornInv
<1>1. MetricsInit => TornInv
  <2> SUFFICES ASSUME MetricsInit PROVE TornInv
    OBVIOUS
  <2>1. /\ \A k \in 0..3, t \in Times : metric[k][t] = {} /\ doubled[k][t] = {}
        /\ run.doubled = {}
    BY DEF MetricsInit, Resting
  <2>2. \A l \in Levels : l \in 0..3
    BY Widths
  <2> QED BY <2>1, <2>2 DEF TornInv
<1> QED BY <1>1, MetricsStay, TornGoesOn, PTL DEF MetricsSpec

\* A chart or a summary counts an execution twice only when a run broke off between storing a
\* record of it and moving the marker past the window of that record, whatever runs broke off
\* elsewhere and in whatever step the present one is.
THEOREM ChartsCountOnce == MetricsSpec => []ChartCountsOnce
<1>1. ASSUME MetricsInv, TornInv PROVE ChartCountsOnce
  <2> SUFFICES ASSUME NEW level \in Levels PROVE CountOnce(ChartTotal(level)) /\ CountOnce(TotalExecutions(level))
    BY DEF ChartCountsOnce
  <2>0. MetricsTypeOK /\ minute \in Nat /\ minute \in Times /\ Times \subseteq Nat /\ level \in 1..3 /\ level \in 0..3
    <3>1. MetricsTypeOK
      BY <1>1 DEF MetricsInv
    <3> QED BY <3>1, MetricsNumbers, MetricsTypeParts, Widths
  <2>1. ASSUME NEW r \in TotalExecutions(level) PROVE r = <<level, r[2]>> /\ r[1] = level /\ r[2] \in Times
    BY DEF TotalExecutions
  <2>2. Apart(TotalExecutions(level))
    <3>1. ASSUME NEW e \in 1..executions, NEW r \in TotalExecutions(level), NEW q \in TotalExecutions(level),
                 e \in metric[r[1]][r[2]], e \in metric[q[1]][q[2]]
          PROVE  r = q
      <4>1. PICK t \in Times, u \in Times : r = <<level, t>> /\ q = <<level, u>>
        BY <2>1
      <4>2. e \in metric[level][t] /\ e \in metric[level][u]
        BY <3>1, <4>1
      <4>3. level = level => t = u
        BY <1>1, <2>0, <4>2, RecordsApart
      <4> QED BY <4>1, <4>3
    <3> QED BY <3>1 DEF Apart
  <2>3. ASSUME NEW r \in CurrentPeriod(level)
        PROVE  \E k \in 0..3, t \in Times : r = <<k, t>> /\ k <= level /\ (k < level => Floor(k + 1, minute) <= t)
    <3>1. CASE r = <<0, minute>>
      <4>1. Floor(0 + 1, minute) <= minute /\ 0 \in 0..3 /\ 0 <= level
        BY <2>0, CoarserFloor
      <4> QED BY <2>0, <3>1, <4>1
    <3>2. CASE \E k \in 1..(level - 1) : r \in {k} \X Window(k + 1, Floor(k + 1, minute))
      <4>1. PICK k \in 1..(level - 1) : r \in {k} \X Window(k + 1, Floor(k + 1, minute))
        BY <3>2
      <4>2. k \in 0..3 /\ k <= level
        BY <2>0
      <4>3. PICK t \in Window(k + 1, Floor(k + 1, minute)) : r = <<k, t>>
        BY <4>1
      <4>4. t \in Times /\ Floor(k + 1, minute) <= t
        BY DEF Window
      <4> QED BY <4>2, <4>3, <4>4
    <3> QED BY <3>1, <3>2 DEF CurrentPeriod
  <2>4. ASSUME NEW r \in ChartTotal(level)
        PROVE  \E k \in 0..3, t \in Times : r = <<k, t>> /\ k <= level /\ (k < level => Floor(k + 1, minute) <= t)
    <3>1. CASE r \in CurrentPeriod(level)
      BY <2>3, <3>1
    <3>2. CASE \E t \in Times : r = <<level, t>>
      BY <2>0, <3>2
    <3>3. CASE r = <<level, SlotTime(level, 0)>>
      <4>1. minute - 0 * Width[level] = minute
        BY <2>0, Widths
      <4>2. SlotTime(level, 0) = Floor(level, minute)
        BY <4>1 DEF SlotTime
      <4>3. Floor(level, minute) \in Times
        <5>1. Floor(level, minute) \in Nat /\ Floor(level, minute) <= minute
          BY <2>0, Floors
        <5> QED BY <2>0, <5>1, Widths DEF Times
      <4>4. level <= level /\ ~(level < level)
        BY <2>0
      <4> QED BY <2>0, <3>3, <4>2, <4>3, <4>4
    <3> QED BY <3>1, <3>2, <3>3 DEF ChartTotal
  <2>5. Apart(ChartTotal(level))
    <3>1. ASSUME NEW e \in 1..executions, NEW r \in ChartTotal(level), NEW q \in ChartTotal(level),
                 e \in metric[r[1]][r[2]], e \in metric[q[1]][q[2]]
          PROVE  r = q
      <4>1. PICK k \in 0..3, t \in Times : r = <<k, t>> /\ k <= level /\ (k < level => Floor(k + 1, minute) <= t)
        BY <2>4
      <4>2. PICK l \in 0..3, u \in Times : q = <<l, u>> /\ l <= level /\ (l < level => Floor(l + 1, minute) <= u)
        BY <2>4
      <4>3. e \in metric[k][t] /\ e \in metric[l][u]
        BY <3>1, <4>1, <4>2
      <4>4. ASSUME k < l PROVE FALSE
        <5>0. k < level /\ k + 1 \in Levels
          BY <2>0, <4>2, <4>4, Widths
        <5>1. t < Floor(k + 1, minute)
          BY <1>1, <4>3, <4>4, RecordsApart
        <5>2. Floor(k + 1, minute) \in Nat /\ t \in Nat
          BY <2>0, <5>0, Floors
        <5> QED BY <4>1, <5>0, <5>1, <5>2
      <4>5. ASSUME l < k PROVE FALSE
        <5>0. l < level /\ l + 1 \in Levels
          BY <2>0, <4>1, <4>5, Widths
        <5>1. u < Floor(l + 1, minute)
          BY <1>1, <4>3, <4>5, RecordsApart
        <5>2. Floor(l + 1, minute) \in Nat /\ u \in Nat
          BY <2>0, <5>0, Floors
        <5> QED BY <4>2, <5>0, <5>1, <5>2
      <4>6. k = l
        BY <4>4, <4>5
      <4>7. t = u
        BY <1>1, <4>3, <4>6, RecordsApart
      <4> QED BY <4>1, <4>2, <4>6, <4>7
    <3> QED BY <3>1 DEF Apart
  <2>6. ASSUME NEW r, NEW k \in 0..3, NEW t \in Times, r = <<k, t>> PROVE doubled[r[1]][r[2]] \subseteq torn
    BY <1>1, <2>6 DEF TornInv
  <2>7. \A r \in ChartTotal(level) \cup TotalExecutions(level) : doubled[r[1]][r[2]] \subseteq torn
    BY <2>0, <2>1, <2>4, <2>6
  <2> QED BY <2>2, <2>5, <2>7 DEF CountOnce
<1> QED BY <1>1, MetricsStay, TornStays, PTL

=============================================================================
