---------------------------- MODULE KeyRotation ----------------------------
(***************************************************************************)
(* KeyRotationService, VersionedEncryptionService and KeyStorageService:   *)
(* the key file, the keys in memory, the encrypted rows, the services that *)
(* write rows and one or two concurrent calls of the rotation.             *)
(*                                                                         *)
(* A ciphertext is the key that made it, the version letter in front of it *)
(* and its plaintext.  It opens only under a key file or a memory in which *)
(* that letter stands for that key.                                        *)
(***************************************************************************)
EXTENDS Integers, Sequences, FiniteSets

CONSTANTS
  Rows,              \* places for encrypted values
  TableOf,           \* [Rows -> STRING]
  ENCRYPTED_TABLES,  \* the tables a rotation goes through, in order
  Values,            \* plaintexts
  BatchSize,         \* config.batchSize
  NumVersions,       \* letters A..Z: 26
  MaxKeys,           \* bound: encryption keys ever generated
  Rotators,          \* callers: "scheduled" (the job) and/or "manual" (the route)
  CancelRotation,    \* may the job's token be cancelled?
  SlowOperations,    \* may an operation of a service outlive the step of the
                     \* rotation that makes its ciphertext obsolete?
  MaxWrites,         \* bound: values written
  MaxFaults          \* bound: crashes and failing calls

ASSUME RowsAssumption ==
  Rows # {} /\ Values # {} /\ "absent" \notin Values /\ TableOf \in [Rows -> STRING]
ASSUME TablesAssumption == ENCRYPTED_TABLES \in Seq(STRING) /\ Len(ENCRYPTED_TABLES) > 0
ASSUME RotatorsAssumption == Rotators \subseteq {"scheduled", "manual"}
ASSUME NumbersAssumption ==
  /\ BatchSize \in Nat \ {0} /\ NumVersions \in Nat \ {0, 1} /\ MaxKeys \in Nat \ {0}
  /\ MaxWrites \in Nat /\ MaxFaults \in Nat
ASSUME SwitchAssumption == CancelRotation \in BOOLEAN /\ SlowOperations \in BOOLEAN

Key     == 1..MaxKeys
NoKey   == 0
Version == 0..NumVersions - 1

VARIABLES
  file,        \* the key file: current and phased-out key with their versions
  memory,      \* the same four fields of VersionedEncryptionService
  cache,       \* its currentKey: the imported current key
  reading,     \* the key that a decrypt() in flight is importing
  lastKey,     \* keys generated so far
  stored,      \* the value column of every row
  written,     \* history: the value each row was last given
  op,          \* the write under way for every row: encrypt(), then the query
  rotationLock,\* the rotator that holds rotationLock for a batch
  batch,       \* its batch: the rows fetched and not yet processed, as they were read
  touched,     \* rows written since then: their updatedAt has changed
  isRotating, stopRequested,
  pc,          \* where each rotator is
  keys,        \* the EncryptionKeyFile each rotator works with
  table,       \* index of the table it is at
  cancelled,   \* the job's token
  writes, faults,
  overlapped,  \* history: has a call begun before another was over?
  mixed,       \* history: row and key of what was encrypted with a key that was no
               \* longer the current one
  leftBehind   \* history: row and key of what a rotation left its table without, written
               \* or about to be

cacheVars  == <<cache, reading>>
storeVars  == <<stored, written, op>>
lockVars   == <<rotationLock, batch, touched>>
flagVars   == <<isRotating, stopRequested>>
callVars   == <<pc, keys, table, cancelled>>
boundVars  == <<writes, faults>>
historyVars == <<overlapped, mixed, leftBehind>>
vars == <<file, memory, cacheVars, lastKey, storeVars, lockVars, flagVars, callVars, boundVars,
          historyVars>>

Absent == [key |-> NoKey, version |-> 0, plain |-> "absent"]
Cipher == [key : Key, version : Version, plain : Values]
KeyFile ==
  [current : Key, version : Version, phasedOut : Key \cup {NoKey}, phasedOutVersion : Version]

NoOp == [step |-> "none", key |-> NoKey, version |-> 0, plain |-> "absent"]
Op   == [step : {"import", "encrypt", "store"}, key : Key, version : Version, plain : Values]

Nobody == "nobody"

TypeOK ==
  /\ file \in KeyFile /\ memory \in KeyFile /\ lastKey \in Key
  /\ stored \in [Rows -> Cipher \cup {Absent}]
  /\ written \in [Rows -> Values \cup {"absent"}]
  /\ op \in [Rows -> Op \cup {NoOp}]
  /\ cache \in Key \cup {NoKey} /\ reading \in Key \cup {NoKey}
  /\ rotationLock \in Rotators \cup {Nobody}
  /\ DOMAIN batch \subseteq Rows /\ \A r \in DOMAIN batch : batch[r] \in Cipher
  /\ touched \subseteq Rows
  /\ isRotating \in BOOLEAN /\ stopRequested \in BOOLEAN
  /\ pc \in [Rotators -> {"idle", "load", "save", "swap", "enter", "lock", "rows",
                          "sleep", "complete", "drop"}]
  /\ keys \in [Rotators -> KeyFile]
  /\ table \in [Rotators -> 1..Len(ENCRYPTED_TABLES)]
  /\ cancelled \in [Rotators -> BOOLEAN]
  /\ writes \in 0..MaxWrites /\ faults \in 0..MaxFaults
  /\ overlapped \in BOOLEAN /\ mixed \subseteq Rows \X Key /\ leftBehind \subseteq Rows \X Key

NoBatch == [r \in {} |-> Absent]
FirstKeys == [current |-> 1, version |-> 0, phasedOut |-> NoKey, phasedOutVersion |-> 0]

\* ensureInitialized() has made the first key; nothing is stored yet
Init ==
  /\ file = FirstKeys /\ memory = FirstKeys /\ lastKey = 1
  /\ stored = [r \in Rows |-> Absent] /\ written = [r \in Rows |-> "absent"]
  /\ op = [r \in Rows |-> NoOp] /\ cache = NoKey /\ reading = NoKey
  /\ rotationLock = Nobody /\ batch = NoBatch /\ touched = {}
  /\ isRotating = FALSE /\ stopRequested = FALSE
  /\ pc = [c \in Rotators |-> "idle"] /\ keys = [c \in Rotators |-> FirstKeys]
  /\ table = [c \in Rotators |-> 1] /\ cancelled = [c \in Rotators |-> FALSE]
  /\ writes = 0 /\ faults = 0
  /\ overlapped = FALSE /\ mixed = {} /\ leftBehind = {}

-----------------------------------------------------------------------------
(* Ciphertexts and key files *)

\* decrypt(): the letter picks the key, and AES-GCM rejects the wrong one
Opens(f, c) ==
  IF c.version = f.version THEN c.key = f.current
  ELSE f.phasedOut # NoKey /\ c.version = f.phasedOutVersion /\ c.key = f.phasedOut

\* the memory as decrypt() and encrypt() see it: the imported key goes first
InMemory == [memory EXCEPT !.current = IF cache = NoKey THEN @ ELSE cache]

\* encryptUnlocked() under the rotation lock
Encrypt(v) == [key |-> InMemory.current, version |-> memory.version, plain |-> v]

isRotationInProgress(f) == f.phasedOut # NoKey

\* mutant of getNextVersion: no wrap-around after the last letter
versionAfter(v) == v + 1

getNextVersion(v) == (v + 1) % NumVersions

\* the keys a new rotation saves, and those a completed one does
Swapped(f) ==
  [current |-> lastKey + 1, version |-> getNextVersion(f.version),
   phasedOut |-> f.current, phasedOutVersion |-> f.version]
Completed(f) == [f EXCEPT !.phasedOut = NoKey, !.phasedOutVersion = 0]

-----------------------------------------------------------------------------
(* A call of performRotationCheck() or triggerManualRotation() *)

Step(c, from, to) == pc[c] = from /\ pc' = [pc EXCEPT ![c] = to]

\* the in-memory lock is only looked at here
Check(c) ==
  /\ ~isRotating
  /\ Step(c, "idle", "load")
  /\ cancelled' = [cancelled EXCEPT ![c] = FALSE]
  /\ UNCHANGED <<file, memory, cacheVars, lastKey, storeVars, lockVars, flagVars, keys, table, boundVars, historyVars>>

\* history: a call begins to work on the keys, past the check of isRotating
Begins(c) ==
  /\ overlapped' = (overlapped \/ \E d \in Rotators \ {c} : pc[d] \notin {"idle", "load"})
  /\ UNCHANGED <<mixed, leftBehind>>

\* an incomplete rotation is resumed at the first table
Resume(c) ==
  /\ isRotationInProgress(file)
  /\ Step(c, "load", "enter")
  /\ keys' = [keys EXCEPT ![c] = file] /\ table' = [table EXCEPT ![c] = 1]
  /\ stopRequested' = FALSE /\ isRotating' = TRUE /\ Begins(c)
  /\ UNCHANGED <<file, memory, cacheVars, lastKey, storeVars, lockVars, cancelled, boundVars>>

\* mutant of StartNew: an incomplete rotation does not keep a new one from starting
StartOver(c) ==
  /\ lastKey < MaxKeys
  /\ Step(c, "load", "save")
  /\ keys' = [keys EXCEPT ![c] = file] /\ table' = [table EXCEPT ![c] = 1]
  /\ stopRequested' = FALSE /\ Begins(c)
  /\ UNCHANGED <<file, memory, cacheVars, lastKey, storeVars, lockVars, isRotating, cancelled, boundVars>>

StartNew(c) ==
  /\ ~isRotationInProgress(file) /\ lastKey < MaxKeys
  /\ Step(c, "load", "save")
  /\ keys' = [keys EXCEPT ![c] = file] /\ table' = [table EXCEPT ![c] = 1]
  /\ stopRequested' = FALSE /\ Begins(c)
  /\ UNCHANGED <<file, memory, cacheVars, lastKey, storeVars, lockVars, isRotating, cancelled, boundVars>>

\* the interval has not passed
NotDue(c) ==
  /\ c = "scheduled" /\ ~isRotationInProgress(file)
  /\ Step(c, "load", "idle")
  /\ UNCHANGED <<file, memory, cacheVars, lastKey, storeVars, lockVars, flagVars, keys, table, cancelled, boundVars, historyVars>>

\* startNewRotation(): saveKeys() replaces the file in one rename ...
SaveSwapped(c) ==
  /\ lastKey < MaxKeys
  /\ Step(c, "save", "swap")
  /\ file' = Swapped(keys[c]) /\ lastKey' = lastKey + 1
  /\ keys' = [keys EXCEPT ![c] = file']
  /\ UNCHANGED <<memory, cacheVars, storeVars, lockVars, flagVars, table, cancelled, boundVars, historyVars>>

\* mutant of SwapKeys: the keys in memory stay as they were
SwapFileOnly(c) ==
  /\ rotationLock = Nobody
  /\ Step(c, "swap", "enter")
  /\ isRotating' = TRUE
  /\ UNCHANGED <<file, memory, cacheVars, lastKey, storeVars, lockVars, stopRequested, keys, table, cancelled, boundVars, historyVars>>

\* encryptions and decryptions in flight: encrypt() and decrypt() return the
\* promise of their work without awaiting it, and so release the lock at once
InFlight == reading # NoKey \/ \E r \in Rows : op[r].step \in {"import", "encrypt"}

\* ... updateKeys() waits for the rotation lock and forgets the imported key, and
\* performRotation() begins
SwapKeys(c) ==
  /\ rotationLock = Nobody
  /\ SlowOperations \/ ~InFlight
  /\ Step(c, "swap", "enter")
  /\ memory' = keys[c] /\ cache' = NoKey
  /\ isRotating' = TRUE
  /\ UNCHANGED <<file, reading, lastKey, storeVars, lockVars, stopRequested, keys, table, cancelled, boundVars, historyVars>>

-----------------------------------------------------------------------------
(* performRotation(): the tables one after the other *)

Stopping(c) == stopRequested \/ cancelled[c]
LastTable(c) == table[c] = Len(ENCRYPTED_TABLES)

\* the check before each table; the finally block clears isRotating
EnterTable(c) ==
  /\ Step(c, "enter", IF Stopping(c) THEN "idle" ELSE "lock")
  /\ stopRequested' = Stopping(c)
  /\ isRotating' = (isRotating /\ ~Stopping(c))
  /\ UNCHANGED <<file, memory, cacheVars, lastKey, storeVars, lockVars, keys, table, cancelled, boundVars, historyVars>>

\* fetchBatch()'s query
ToReencrypt(c) ==
  {r \in Rows : /\ stored[r] # Absent
                /\ TableOf[r] = ENCRYPTED_TABLES[table[c]]
                /\ stored[r].version = keys[c].phasedOutVersion}

FetchBatch(c) ==
  /\ rotationLock = Nobody
  /\ Step(c, "lock", "rows")
  /\ \E S \in SUBSET ToReencrypt(c) :
       /\ S # {} /\ Cardinality(S) <= BatchSize
       /\ Cardinality(S) = BatchSize \/ S = ToReencrypt(c)
       /\ batch' = [r \in S |-> stored[r]]
  /\ rotationLock' = c /\ touched' = {}
  /\ UNCHANGED <<file, memory, cacheVars, lastKey, storeVars, flagVars, keys, table, cancelled, boundVars, historyVars>>

\* writes that have a ciphertext under the phased-out key and have not stored it
Late(c) ==
  {r \in Rows : /\ op[r].step = "store"
                /\ TableOf[r] = ENCRYPTED_TABLES[table[c]]
                /\ op[r].version = keys[c].phasedOutVersion}

\* history: the rotation leaves its table
Leaves(c) ==
  /\ leftBehind' = leftBehind \cup {<<r, stored[r].key>> : r \in ToReencrypt(c)}
                               \cup {<<r, op[r].key>> : r \in Late(c)}
  /\ UNCHANGED <<overlapped, mixed>>

\* an empty batch ends the table; after the last one nothing is checked again
TableDone(c) ==
  /\ rotationLock = Nobody /\ ToReencrypt(c) = {}
  /\ SlowOperations \/ Late(c) = {}
  /\ Leaves(c)
  /\ Step(c, "lock", IF LastTable(c) THEN "complete" ELSE "enter")
  /\ table' = [table EXCEPT ![c] = IF LastTable(c) THEN @ ELSE @ + 1]
  /\ UNCHANGED <<file, memory, cacheVars, lastKey, storeVars, lockVars, flagVars, keys, cancelled, boundVars>>

Without(r) == [x \in DOMAIN batch \ {r} |-> batch[x]]

\* history: r is given a ciphertext of key k under the letter of the keys in memory
Mixes(r, k) ==
  /\ mixed' = mixed \cup (IF k = memory.current THEN {} ELSE {<<r, k>>})
  /\ UNCHANGED <<overlapped, leftBehind>>

\* mutant of Reencrypt: the UPDATE does not compare updatedAt
ReencryptBlindly(c) ==
  /\ pc[c] = "rows" /\ rotationLock = c /\ ~Stopping(c)
  /\ \E r \in DOMAIN batch :
       /\ batch' = Without(r) /\ touched' = touched \cup {r}
       /\ stored' = [stored EXCEPT ![r] = Encrypt(batch[r].plain)] /\ Mixes(r, InMemory.current)
  /\ cache' = InMemory.current
  /\ UNCHANGED <<file, memory, reading, lastKey, written, op, rotationLock, flagVars, callVars, boundVars>>

\* reencryptBatch(), one record: UPDATE ... WHERE updatedAt = $oldUpdatedAt.  A
\* record that does not open, or has changed, is left to a later batch.
Reencrypt(c) ==
  /\ pc[c] = "rows" /\ rotationLock = c /\ ~Stopping(c)
  /\ \E r \in DOMAIN batch :
       /\ batch' = Without(r)
       /\ IF Opens(InMemory, batch[r]) /\ r \notin touched
          THEN /\ stored' = [stored EXCEPT ![r] = Encrypt(batch[r].plain)]
               /\ touched' = touched \cup {r} /\ Mixes(r, InMemory.current)
          ELSE UNCHANGED <<stored, touched, historyVars>>
       /\ cache' = IF Opens(InMemory, batch[r]) THEN InMemory.current ELSE cache
  /\ UNCHANGED <<file, memory, reading, lastKey, written, op, rotationLock, flagVars, callVars, boundVars>>

Release == rotationLock' = Nobody /\ batch' = NoBatch /\ touched' = {}

BatchEnds(c) ==
  /\ DOMAIN batch = {} \/ Stopping(c)
  /\ Step(c, "rows", "sleep") /\ rotationLock = c
  /\ Release
  /\ stopRequested' = (stopRequested \/ (DOMAIN batch # {} /\ cancelled[c]))
  /\ UNCHANGED <<file, memory, cacheVars, lastKey, storeVars, isRotating, keys, table, cancelled, boundVars, historyVars>>

\* the next round of reencryptTable(): a stop ends the table, and then the
\* rotation, unless the table was the last
AfterSleep(c) ==
  /\ Step(c, "sleep", IF ~Stopping(c) THEN "lock" ELSE IF LastTable(c) THEN "complete" ELSE "idle")
  /\ stopRequested' = Stopping(c)
  /\ isRotating' = (isRotating /\ (LastTable(c) \/ ~Stopping(c)))
  /\ IF Stopping(c) /\ LastTable(c) THEN Leaves(c) ELSE UNCHANGED historyVars
  /\ UNCHANGED <<file, memory, cacheVars, lastKey, storeVars, lockVars, keys, table, cancelled, boundVars>>

SaveCompleted(c) ==
  /\ Step(c, "complete", "drop")
  /\ file' = Completed(keys[c])
  /\ UNCHANGED <<memory, cacheVars, lastKey, storeVars, lockVars, flagVars, keys, table, cancelled, boundVars, historyVars>>

DropPhasedOut(c) ==
  /\ rotationLock = Nobody
  /\ Step(c, "drop", "idle")
  /\ memory' = Completed(keys[c]) /\ cache' = NoKey
  /\ isRotating' = FALSE
  /\ UNCHANGED <<file, reading, lastKey, storeVars, lockVars, stopRequested, keys, table, cancelled, boundVars, historyVars>>

\* the scheduled job is cancelled
Cancel(c) ==
  /\ CancelRotation /\ c = "scheduled" /\ pc[c] # "idle" /\ ~cancelled[c]
  /\ cancelled' = [cancelled EXCEPT ![c] = TRUE]
  /\ UNCHANGED <<file, memory, cacheVars, lastKey, storeVars, lockVars, flagVars, pc, keys, table, boundVars, historyVars>>

-----------------------------------------------------------------------------
(* The services that own the rows: SecretsService, ApiKeyService, ...      *)

\* the service's writeMutex: one write per table at a time
ServiceIdle(r) == \A x \in Rows : TableOf[x] = TableOf[r] => op[x] = NoOp

\* encrypt(): the rotation lock is taken and released; getCurrentKey() answers, or
\* imports the current key first
EncryptBegins(r, v) ==
  /\ rotationLock = Nobody /\ ServiceIdle(r) /\ writes < MaxWrites
  /\ op' = [op EXCEPT ![r] = [step |-> IF cache = NoKey THEN "import" ELSE "encrypt",
                              key |-> InMemory.current, version |-> 0, plain |-> v]]
  /\ writes' = writes + 1
  /\ UNCHANGED <<file, memory, cacheVars, lastKey, stored, written, lockVars, flagVars, callVars, faults, historyVars>>

ImportEnds(r) ==
  /\ op[r].step = "import"
  /\ cache' = op[r].key
  /\ op' = [op EXCEPT ![r].step = "encrypt"]
  /\ UNCHANGED <<file, memory, reading, lastKey, stored, written, lockVars, flagVars, callVars, boundVars, historyVars>>

\* the version letter is read when AES-GCM has answered
EncryptEnds(r) ==
  /\ op[r].step = "encrypt"
  /\ op' = [op EXCEPT ![r].step = "store", ![r].version = memory.version]
  /\ Mixes(r, op[r].key)
  /\ UNCHANGED <<file, memory, cacheVars, lastKey, stored, written, lockVars, flagVars, callVars, boundVars>>

CipherOf(o) == [key |-> o.key, version |-> o.version, plain |-> o.plain]

\* a write of the row: updatedAt becomes time::now()
Put(r, c) ==
  /\ stored' = [stored EXCEPT ![r] = c]
  /\ written' = [written EXCEPT ![r] = c.plain]
  /\ touched' = touched \cup ({r} \cap DOMAIN batch)

StoreValue(r) ==
  /\ op[r].step = "store"
  /\ Put(r, CipherOf(op[r]))
  /\ op' = [op EXCEPT ![r] = NoOp]
  /\ UNCHANGED <<file, memory, cacheVars, lastKey, rotationLock, batch, flagVars, callVars, boundVars, historyVars>>

DeleteValue(r) ==
  /\ stored[r] # Absent /\ ServiceIdle(r)
  /\ Put(r, Absent)
  /\ UNCHANGED <<file, memory, cacheVars, lastKey, op, rotationLock, batch, flagVars, callVars, boundVars, historyVars>>

\* decrypt() of a value under the current letter imports the current key
DecryptBegins ==
  /\ rotationLock = Nobody /\ cache = NoKey /\ reading = NoKey
  /\ \E r \in Rows : stored[r] # Absent /\ stored[r].version = memory.version
  /\ reading' = memory.current
  /\ UNCHANGED <<file, memory, cache, lastKey, storeVars, lockVars, flagVars, callVars, boundVars, historyVars>>

DecryptImports ==
  /\ reading # NoKey
  /\ cache' = reading /\ reading' = NoKey
  /\ UNCHANGED <<file, memory, lastKey, storeVars, lockVars, flagVars, callVars, boundVars, historyVars>>

-----------------------------------------------------------------------------
(* Failures *)

Fault == faults < MaxFaults /\ faults' = faults + 1

\* mutant of CallFails: no finally block clears isRotating
CallFailsBusy(c) ==
  /\ Fault
  /\ \/ Step(c, "save", "idle")
     \/ Step(c, "complete", "idle")
     \/ rotationLock = Nobody /\ Step(c, "lock", "idle")
  /\ UNCHANGED <<file, memory, cacheVars, lastKey, storeVars, lockVars, flagVars, keys, table, cancelled, writes, historyVars>>

\* saveKeys() or the query of fetchBatch() throws: so does the rotation, and
\* isRotating is cleared once performRotation() has set it
CallFails(c) ==
  /\ Fault
  /\ \/ Step(c, "save", "idle") /\ UNCHANGED isRotating
     \/ Step(c, "complete", "idle") /\ isRotating' = FALSE
     \/ rotationLock = Nobody /\ Step(c, "lock", "idle") /\ isRotating' = FALSE
  /\ UNCHANGED <<file, memory, cacheVars, lastKey, storeVars, lockVars, stopRequested, keys, table, cancelled, writes, historyVars>>

\* the UPDATE of one record throws: it is logged, and the next record follows
UpdateFails(c) ==
  /\ Fault
  /\ pc[c] = "rows" /\ rotationLock = c
  /\ \E r \in DOMAIN batch : batch' = Without(r)
  /\ UNCHANGED <<file, memory, cacheVars, lastKey, storeVars, rotationLock, touched, flagVars, callVars, writes, historyVars>>

\* mutant of Crash: the process comes back with the keys it was built with
CrashForgetfully ==
  /\ Fault
  /\ memory' = Completed(file)
  /\ cache' = NoKey /\ reading' = NoKey /\ op' = [r \in Rows |-> NoOp] /\ Release
  /\ isRotating' = FALSE /\ stopRequested' = FALSE
  /\ pc' = [c \in Rotators |-> "idle"] /\ cancelled' = [c \in Rotators |-> FALSE]
  /\ UNCHANGED <<file, lastKey, stored, written, keys, table, writes, historyVars>>

\* the process dies and is started again: main.ts builds VersionedEncryptionService
\* from the key file
Crash ==
  /\ Fault
  /\ memory' = file
  /\ cache' = NoKey /\ reading' = NoKey /\ op' = [r \in Rows |-> NoOp] /\ Release
  /\ isRotating' = FALSE /\ stopRequested' = FALSE
  /\ pc' = [c \in Rotators |-> "idle"] /\ cancelled' = [c \in Rotators |-> FALSE]
  /\ UNCHANGED <<file, lastKey, stored, written, keys, table, writes, historyVars>>

-----------------------------------------------------------------------------
\* what a call does once it has begun
RotationStep(c) ==
  \/ Resume(c) \/ StartNew(c) \/ NotDue(c) \/ SaveSwapped(c) \/ SwapKeys(c)
  \/ EnterTable(c) \/ FetchBatch(c) \/ TableDone(c) \/ Reencrypt(c) \/ BatchEnds(c)
  \/ AfterSleep(c) \/ SaveCompleted(c) \/ DropPhasedOut(c)

WriteStep(r) == ImportEnds(r) \/ EncryptEnds(r) \/ StoreValue(r)

ServiceStep(r) == WriteStep(r) \/ DeleteValue(r) \/ \E v \in Values : EncryptBegins(r, v)

Next ==
  \/ \E c \in Rotators : Check(c) \/ RotationStep(c) \/ Cancel(c) \/ CallFails(c) \/ UpdateFails(c)
  \/ \E r \in Rows : ServiceStep(r)
  \/ DecryptBegins \/ DecryptImports
  \/ Crash

Spec == Init /\ [][Next]_vars

\* the schedule keeps calling, and a rotation, a write and a decryption that have
\* begun go on
Fairness ==
  /\ \A c \in Rotators : WF_vars(Check(c)) /\ WF_vars(RotationStep(c))
  /\ \A r \in Rows : WF_vars(WriteStep(r))
  /\ WF_vars(DecryptImports)

FairSpec == Spec /\ Fairness

-----------------------------------------------------------------------------
(* Properties *)

\* an import that ended after updateKeys(): decrypt() and encrypt() work with it until the
\* next change of keys
CacheStale == cache \notin {NoKey, memory.current}

\* What is lost all the same: everything once two calls have overlapped, a ciphertext with
\* the letter of another key, what a rotation left its table without, and values outside
\* ENCRYPTED_TABLES.
Lost(r, c) ==
  \/ overlapped \/ <<r, c.key>> \in mixed \cup leftBehind
  \/ \A i \in 1..Len(ENCRYPTED_TABLES) : TableOf[r] # ENCRYPTED_TABLES[i]

\* with the keys in memory and, so that a crash is survived, with those of the key file
OpensNow(c) == Opens(file, c) /\ (CacheStale \/ Opens(InMemory, c))

Readable(r) == stored[r] # Absent => Opens(file, stored[r]) /\ Opens(InMemory, stored[r])

\* "All encrypted data is re-encrypted during rotation to use the new current
\* key" (key_rotation_service.ts): what is stored is the value last written, and it
\* can be read in whatever order batches, writes, failures and crashes come, unless it is
\* one of the values that are Lost, or while the imported key is stale.
ReadsLastWrite ==
  \A r \in Rows :
    /\ stored[r].plain = written[r]
    /\ stored[r] = Absent \/ Lost(r, stored[r]) \/ OpensNow(stored[r])

\* Whoever writes, writes under a key that the file still has: a ciphertext that
\* encrypt() has handed out can be read back when it is stored at last, however many
\* rotations later, with the same exceptions.
PendingReadable ==
  \A r \in Rows : op[r].step = "store" => Lost(r, op[r]) \/ OpensNow(CipherOf(op[r]))

\* The tables a rotation has left behind hold nothing under the phased-out key, and
\* nobody is about to store such a value there, however often it is stopped,
\* cancelled, resumed or restarted (performRotation, reencryptTable).  Only what a writer
\* held already when the table was left can be there, and what two rotations at a time do.
InRotation(c) == pc[c] \in {"enter", "lock", "rows", "sleep", "complete"}
TablesBehindClean ==
  \A c \in Rotators : InRotation(c) /\ ~overlapped =>
    \A r \in Rows, i \in 1..table[c] - 1 : TableOf[r] = ENCRYPTED_TABLES[i] =>
      /\ stored[r] = Absent \/ stored[r].version # keys[c].phasedOutVersion
           \/ <<r, stored[r].key>> \in leftBehind
      /\ op[r].step = "store" /\ op[r].version = keys[c].phasedOutVersion
           => <<r, op[r].key>> \in leftBehind

\* A stored value becomes unreadable, if ever, only where a rotation discards the
\* phased-out key, never by starting, stopping or resuming one: "the phased_out
\* key remains available" (key_rotation_service.ts) until then.  It takes two overlapping
\* calls, or an import that outlives the change of keys, to lose it elsewhere.
LossOnlyAtCompletion ==
  [][\A r \in Rows : (stored'[r] = stored[r] /\ Readable(r) /\ ~Readable(r)')
       => \/ overlapped \/ CacheStale'
          \/ \E c \in Rotators : pc[c] \in {"complete", "drop"} /\ pc'[c] # pc[c]]_vars

\* "Also acquires rotation lock to ensure no encrypt/decrypt operations are
\* in-flight during key updates" (versioned_encryption_service.ts, updateKeys).
KeysChangeAtRest == [][(memory' # memory /\ faults' = faults) => ~InFlight]_vars

\* "In-memory lock to prevent concurrent rotation" (key_rotation_service.ts):
\* at most one call is between the generation of keys and the end of a rotation.
OneRotation ==
  \A c, d \in Rotators : c # d => pc[c] \in {"idle", "load"} \/ pc[d] \in {"idle", "load"}

\* What a reader is given: decrypt() throws where the keys at hand do not open the value.
\* The values that are Lost, or out of reach of a stale key, are taken as they are stored.
ReadValues ==
  [r \in Rows |->
     IF Readable(r) \/ CacheStale \/ Lost(r, stored[r]) THEN stored[r].plain ELSE "unreadable"]
PlainValues == [r \in Rows |-> stored[r].plain]
PendingValues == [r \in Rows |-> op[r].plain]

ReadStore  == INSTANCE ValueStore WITH value <- ReadValues, pending <- PendingValues
PlainStore == INSTANCE ValueStore WITH value <- PlainValues, pending <- PendingValues

\* "All encrypted data is re-encrypted during rotation" (key_rotation_service.ts): to the
\* callers of SecretsService and ApiKeyService a rotation is invisible.  What they read
\* changes by their own writes and deletions only, each in one step, at no point of a
\* rotation, of its failure or of a restart; ReadsLastWrite has the exceptions.
ReadersSeeStore == ReadStore!StoreSpec

\* Whatever becomes of the keys, the rotation writes back no plaintext but the one that is
\* there ("WHERE updatedAt = $oldUpdatedAt", reencryptBatch): no write of a service is
\* undone and no deleted value comes back, cancelled or not.
PlaintextsSurvive == PlainStore!StoreSpec

\* "The service will automatically resume incomplete rotations on the next check
\* cycle" (key_rotation_service.ts): an incomplete rotation is completed.
RotationEnds == isRotationInProgress(file) ~> ~isRotationInProgress(file)
=============================================================================
