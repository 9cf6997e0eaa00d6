-------------------------- MODULE KeyRotationProofs --------------------------
(***************************************************************************)
(* Theorems about KeyRotation, for every set of rows and values, every     *)
(* list of tables and batch size, any callers, with and without            *)
(* cancellation and slow operations, and any number of keys, writes and    *)
(* faults.  What is lost all the same is in the properties themselves.     *)
(***************************************************************************)
EXTENDS KeyRotation, TLAPS

ConstantFacts ==
  /\ Rotators \subseteq {"scheduled", "manual"}
  /\ BatchSize \in Nat \ {0} /\ NumVersions \in Nat \ {0, 1} /\ MaxKeys \in Nat \ {0}
  /\ MaxWrites \in Nat /\ MaxFaults \in Nat
  /\ Len(ENCRYPTED_TABLES) \in Nat \ {0}

LEMMA Constants == ConstantFacts
  BY TablesAssumption, RotatorsAssumption, NumbersAssumption DEF ConstantFacts

-----------------------------------------------------------------------------
(* The invariant *)

\* Where the key file, the keys in memory and the keys in the hands of the rotation agree:
\* they differ only from saveKeys() to updateKeys().
KeysAgree ==
  /\ \A c \in Rotators :
       /\ pc[c] = "save" => keys[c] = file /\ ~isRotationInProgress(file)
       /\ pc[c] = "swap" =>
            /\ keys[c] = file /\ isRotationInProgress(file) /\ ~isRotationInProgress(memory)
            /\ file.phasedOut = memory.current /\ file.phasedOutVersion = memory.version
       /\ InRotation(c) => keys[c] = file /\ isRotationInProgress(file)
       /\ pc[c] = "drop" =>
            keys[c] = memory /\ isRotationInProgress(memory) /\ file = Completed(memory)
  /\ (\A c \in Rotators : pc[c] \notin {"swap", "drop"}) => memory = file

\* two keys at a time never have one letter
LettersDiffer == \A f \in {file, memory} : isRotationInProgress(f) => f.version # f.phasedOutVersion

\* what holds of the keys until two calls overlap
KeysHeld == ~overlapped => OneRotation /\ KeysAgree /\ LettersDiffer

KeysInv == TypeOK /\ KeysHeld

\* what the rotation c still has to go through is not in row r, or was left there
CleanRow(c, r) ==
  /\ stored[r] = Absent \/ stored[r].version # keys[c].phasedOutVersion
       \/ <<r, stored[r].key>> \in leftBehind
  /\ op[r].step = "store" /\ op[r].version = keys[c].phasedOutVersion
       => <<r, op[r].key>> \in leftBehind

-----------------------------------------------------------------------------
(* ... of the values *)

\* the batch holds its rows as they are stored, unless they were written since
BatchIsFresh == \A r \in DOMAIN batch : r \notin touched => stored[r] = batch[r]

Visited(r) == \E i \in 1..Len(ENCRYPTED_TABLES) : TableOf[r] = ENCRYPTED_TABLES[i]

\* no row needs the phased-out key when it is given up
CompletedIsClean ==
  ~overlapped =>
    \A c \in Rotators : pc[c] \in {"complete", "drop"} =>
      \A r \in Rows : Visited(r) => CleanRow(c, r)

StoredKept(r)  == stored[r] = Absent \/ Lost(r, stored[r]) \/ Opens(memory, stored[r])
PendingKept(r) == op[r].step = "store" => Lost(r, op[r]) \/ Opens(memory, CipherOf(op[r]))

ValuesKept == \A r \in Rows : stored[r].plain = written[r] /\ StoredKept(r) /\ PendingKept(r)

ValuesInv == BatchIsFresh /\ CompletedIsClean /\ ValuesKept

-----------------------------------------------------------------------------
(* Type correctness, part by part: keys, rows, the batch, control, history. *)

KeysTypeOK ==
  /\ file \in KeyFile /\ memory \in KeyFile /\ lastKey \in Key
  /\ cache \in Key \cup {NoKey} /\ reading \in Key \cup {NoKey}
  /\ keys \in [Rotators -> KeyFile]

RowsTypeOK ==
  /\ stored \in [Rows -> Cipher \cup {Absent}]
  /\ written \in [Rows -> Values \cup {"absent"}]
  /\ op \in [Rows -> Op \cup {NoOp}]

BatchTypeOK ==
  /\ rotationLock \in Rotators \cup {Nobody}
  /\ DOMAIN batch \subseteq Rows /\ \A r \in DOMAIN batch : batch[r] \in Cipher
  /\ touched \subseteq Rows

CtlTypeOK ==
  /\ isRotating \in BOOLEAN /\ stopRequested \in BOOLEAN
  /\ pc \in [Rotators -> {"idle", "load", "save", "swap", "enter", "lock", "rows",
                          "sleep", "complete", "drop"}]
  /\ table \in [Rotators -> 1..Len(ENCRYPTED_TABLES)]
  /\ cancelled \in [Rotators -> BOOLEAN]
  /\ writes \in 0..MaxWrites /\ faults \in 0..MaxFaults

HistoryTypeOK ==
  overlapped \in BOOLEAN /\ mixed \subseteq Rows \X Key /\ leftBehind \subseteq Rows \X Key

LEMMA TypeParts ==
  /\ TypeOK <=> KeysTypeOK /\ RowsTypeOK /\ BatchTypeOK /\ CtlTypeOK /\ HistoryTypeOK
  /\ TypeOK' <=> KeysTypeOK' /\ RowsTypeOK' /\ BatchTypeOK' /\ CtlTypeOK' /\ HistoryTypeOK'
  BY DEF TypeOK, KeysTypeOK, RowsTypeOK, BatchTypeOK, CtlTypeOK, HistoryTypeOK

StateTypeOK == KeysTypeOK /\ RowsTypeOK /\ BatchTypeOK /\ CtlTypeOK

\* What the operators on key files and the encryption return.
LEMMA KeyFiles ==
  ASSUME KeysTypeOK
  PROVE  /\ \A f \in KeyFile : Completed(f) \in KeyFile
         /\ \A f \in KeyFile : getNextVersion(f.version) \in Version /\ getNextVersion(f.version) # f.version
         /\ \A f \in KeyFile : (lastKey < MaxKeys) => Swapped(f) \in KeyFile
         /\ InMemory \in KeyFile
         /\ \A v \in Values : Encrypt(v) \in Cipher
<1> USE Constants DEF ConstantFacts
<1>1. \A f \in KeyFile : Completed(f) \in KeyFile
  <2>1. 0 \in Version
    BY DEF Version
  <2> QED BY <2>1 DEF KeyFile, Completed
<1>2. \A v \in Version : getNextVersion(v) \in Version /\ getNextVersion(v) # v
  <2> SUFFICES ASSUME NEW v \in Version
               PROVE getNextVersion(v) \in Version /\ getNextVersion(v) # v
    OBVIOUS
  <2>1. CASE v = NumVersions - 1
    BY <2>1 DEF getNextVersion, Version
  <2>2. CASE v # NumVersions - 1
    BY <2>2 DEF getNextVersion, Version
  <2> QED BY <2>1, <2>2
<1>3. \A f \in KeyFile : f.version \in Version
  BY DEF KeyFile
<1>4. \A f \in KeyFile : (lastKey < MaxKeys) => Swapped(f) \in KeyFile
  BY <1>2, <1>3 DEF KeyFile, Swapped, KeysTypeOK, Key
<1>5. InMemory \in KeyFile
  BY DEF InMemory, KeysTypeOK, KeyFile
<1>6. \A v \in Values : Encrypt(v) \in Cipher
  BY <1>5 DEF Encrypt, Cipher, KeysTypeOK, KeyFile
<1> QED BY <1>1, <1>2, <1>3, <1>4, <1>5, <1>6

\* The history only grows, by rows and the keys of their ciphertexts.
LEMMA HistoryTypes == TypeOK /\ [Next]_vars => HistoryTypeOK'
<1> SUFFICES ASSUME TypeOK, [Next]_vars PROVE HistoryTypeOK'
  OBVIOUS
<1> USE TypeParts DEF HistoryTypeOK
<1>1. ASSUME UNCHANGED historyVars PROVE HistoryTypeOK'
  BY <1>1 DEF historyVars
<1>2. ASSUME NEW c \in Rotators, Begins(c) PROVE HistoryTypeOK'
  BY <1>2 DEF Begins
<1>3. ASSUME NEW r \in Rows, NEW k \in Key, Mixes(r, k) PROVE HistoryTypeOK'
  BY <1>3 DEF Mixes
<1>4. ASSUME NEW c \in Rotators, Leaves(c) PROVE HistoryTypeOK'
  <2>1. \A r \in ToReencrypt(c) : r \in Rows /\ stored[r].key \in Key
    BY DEF ToReencrypt, RowsTypeOK, Cipher
  <2>2. \A r \in Late(c) : r \in Rows /\ op[r].key \in Key
    BY DEF Late, RowsTypeOK, Op, NoOp
  <2> QED BY <1>4, <2>1, <2>2 DEF Leaves
<1>5. ASSUME NEW c \in Rotators, Reencrypt(c) PROVE HistoryTypeOK'
  <2>1. InMemory.current \in Key
    BY KeyFiles DEF KeyFile
  <2>2. DOMAIN batch \subseteq Rows
    BY DEF BatchTypeOK
  <2> QED BY <1>1, <1>3, <1>5, <2>1, <2>2 DEF Reencrypt, historyVars
<1>6. ASSUME NEW r \in Rows, EncryptEnds(r) PROVE HistoryTypeOK'
  <2>1. op[r].key \in Key
    BY <1>6 DEF EncryptEnds, RowsTypeOK, Op, NoOp
  <2> QED BY <1>3, <1>6, <2>1 DEF EncryptEnds
<1>7. ASSUME NEW c \in Rotators, Resume(c) \/ StartNew(c) \/ TableDone(c) \/ AfterSleep(c)
      PROVE  HistoryTypeOK'
  BY <1>1, <1>2, <1>4, <1>7 DEF Resume, StartNew, TableDone, AfterSleep
<1>8. ASSUME NEW c \in Rotators,
             \/ Check(c) \/ NotDue(c) \/ SaveSwapped(c) \/ SwapKeys(c) \/ EnterTable(c) \/ FetchBatch(c)
             \/ BatchEnds(c) \/ SaveCompleted(c) \/ DropPhasedOut(c) \/ Cancel(c) \/ CallFails(c)
             \/ UpdateFails(c)
      PROVE  HistoryTypeOK'
  BY <1>1, <1>8 DEF Check, NotDue, SaveSwapped, SwapKeys, EnterTable, FetchBatch, BatchEnds, SaveCompleted,
                    DropPhasedOut, Cancel, CallFails, UpdateFails
<1>9. ASSUME NEW r \in Rows,
             \/ ImportEnds(r) \/ StoreValue(r) \/ DeleteValue(r) \/ \E v \in Values : EncryptBegins(r, v)
      PROVE  HistoryTypeOK'
  BY <1>1, <1>9 DEF ImportEnds, StoreValue, DeleteValue, EncryptBegins
<1>10. CASE DecryptBegins \/ DecryptImports \/ Crash
  BY <1>1, <1>10 DEF DecryptBegins, DecryptImports, Crash
<1>11. CASE UNCHANGED vars
  BY <1>1, <1>11 DEF vars
<1> QED BY <1>5, <1>6, <1>7, <1>8, <1>9, <1>10, <1>11 DEF Next, RotationStep, ServiceStep, WriteStep

\* Steps of the calls that leave rows, batch and the imported key alone.
LEMMA CallTypes ==
  ASSUME TypeOK, NEW c \in Rotators,
         \/ Check(c) \/ Resume(c) \/ StartNew(c) \/ NotDue(c) \/ SaveSwapped(c)
         \/ EnterTable(c) \/ TableDone(c) \/ AfterSleep(c) \/ SaveCompleted(c) \/ Cancel(c)
  PROVE  StateTypeOK'
<1> USE TypeParts, Constants DEF StateTypeOK
<1>1. UNCHANGED <<stored, written, op, rotationLock, batch, touched, memory, cache, reading, writes, faults>>
  BY DEF Check, Resume, StartNew, NotDue, SaveSwapped, EnterTable, TableDone, AfterSleep, SaveCompleted,
         Cancel, cacheVars, storeVars, lockVars, boundVars
<1>2. RowsTypeOK' /\ BatchTypeOK'
  BY <1>1 DEF RowsTypeOK, BatchTypeOK
<1>3. KeysTypeOK'
  <2>1. CASE SaveSwapped(c)
    <3>1. Swapped(keys[c]) \in KeyFile
      BY <2>1, KeyFiles DEF SaveSwapped, KeysTypeOK
    <3>2. lastKey + 1 \in Key
      BY <2>1 DEF SaveSwapped, KeysTypeOK, Key, ConstantFacts
    <3> QED BY <1>1, <2>1, <3>1, <3>2 DEF SaveSwapped, KeysTypeOK
  <2>2. CASE SaveCompleted(c)
    BY <1>1, <2>2, KeyFiles DEF SaveCompleted, KeysTypeOK
  <2>3. CASE Resume(c) \/ StartNew(c)
    BY <1>1, <2>3 DEF Resume, StartNew, KeysTypeOK
  <2>4. CASE Check(c) \/ NotDue(c) \/ EnterTable(c) \/ TableDone(c) \/ AfterSleep(c) \/ Cancel(c)
    BY <1>1, <2>4 DEF Check, NotDue, EnterTable, TableDone, AfterSleep, Cancel, KeysTypeOK
  <2> QED BY <2>1, <2>2, <2>3, <2>4
<1>4. CtlTypeOK'
  <2>1. CASE Check(c) \/ NotDue(c) \/ SaveSwapped(c) \/ SaveCompleted(c) \/ Cancel(c)
    BY <1>1, <2>1 DEF Check, NotDue, SaveSwapped, SaveCompleted, Cancel, Step, flagVars, CtlTypeOK
  <2>2. CASE Resume(c) \/ StartNew(c)
    <3>1. 1 \in 1..Len(ENCRYPTED_TABLES)
      BY DEF ConstantFacts
    <3> QED BY <1>1, <2>2, <3>1 DEF Resume, StartNew, Step, CtlTypeOK
  <2>3. CASE TableDone(c)
    BY <1>1, <2>3 DEF TableDone, Step, LastTable, flagVars, CtlTypeOK, ConstantFacts
  <2>4. CASE EnterTable(c) \/ AfterSleep(c)
    <3>1. stopRequested' \in BOOLEAN /\ isRotating' \in BOOLEAN
      BY <2>4, Zenon DEF EnterTable, AfterSleep, Stopping, CtlTypeOK
    <3>2. \E to \in {"idle", "lock", "complete"} : pc' = [pc EXCEPT ![c] = to]
      BY <2>4 DEF EnterTable, AfterSleep, Step
    <3> QED BY <1>1, <2>4, <3>1, <3>2 DEF EnterTable, AfterSleep, CtlTypeOK
  <2> QED BY <2>1, <2>2, <2>3, <2>4
<1> QED BY <1>2, <1>3, <1>4

\* Steps that change the keys in memory, or the batch and its rows.
LEMMA BatchTypes ==
  ASSUME TypeOK, NEW c \in Rotators,
         SwapKeys(c) \/ DropPhasedOut(c) \/ FetchBatch(c) \/ Reencrypt(c) \/ BatchEnds(c)
  PROVE  StateTypeOK'
<1> USE TypeParts, Constants DEF StateTypeOK
<1>1. CASE SwapKeys(c) \/ DropPhasedOut(c)
  <2>1. KeysTypeOK'
    BY <1>1, KeyFiles DEF SwapKeys, DropPhasedOut, KeysTypeOK
  <2>2. CtlTypeOK'
    BY <1>1 DEF SwapKeys, DropPhasedOut, Step, boundVars, CtlTypeOK
  <2>3. RowsTypeOK' /\ BatchTypeOK'
    BY <1>1 DEF SwapKeys, DropPhasedOut, storeVars, lockVars, RowsTypeOK, BatchTypeOK
  <2> QED BY <2>1, <2>2, <2>3
<1>2. CASE FetchBatch(c)
  <2>1. KeysTypeOK' /\ RowsTypeOK'
    BY <1>2 DEF FetchBatch, cacheVars, storeVars, KeysTypeOK, RowsTypeOK
  <2>2. CtlTypeOK'
    BY <1>2 DEF FetchBatch, Step, flagVars, boundVars, CtlTypeOK
  <2>3. \A r \in ToReencrypt(c) : stored[r] \in Cipher
    BY DEF ToReencrypt, RowsTypeOK
  <2>4. BatchTypeOK'
    BY <1>2, <2>3 DEF FetchBatch, BatchTypeOK, ToReencrypt
  <2> QED BY <2>1, <2>2, <2>4
<1>3. CASE Reencrypt(c)
  <2> PICK r \in DOMAIN batch :
       /\ batch' = Without(r)
       /\ IF Opens(InMemory, batch[r]) /\ r \notin touched
          THEN /\ stored' = [stored EXCEPT ![r] = Encrypt(batch[r].plain)]
               /\ touched' = touched \cup {r}
          ELSE UNCHANGED <<stored, touched>>
       /\ cache' = IF Opens(InMemory, batch[r]) THEN InMemory.current ELSE cache
    BY <1>3 DEF Reencrypt
  <2>1. r \in Rows /\ Encrypt(batch[r].plain) \in Cipher
    BY KeyFiles DEF BatchTypeOK, Cipher
  <2>2. RowsTypeOK'
    BY <1>3, <2>1 DEF Reencrypt, RowsTypeOK
  <2>3. KeysTypeOK'
    BY <1>3, KeyFiles DEF Reencrypt, callVars, KeysTypeOK, KeyFile
  <2>4. BatchTypeOK'
    BY <1>3, <2>1 DEF Reencrypt, Without, BatchTypeOK
  <2>5. CtlTypeOK'
    BY <1>3 DEF Reencrypt, flagVars, callVars, boundVars, CtlTypeOK
  <2> QED BY <2>2, <2>3, <2>4, <2>5
<1>4. CASE BatchEnds(c)
  <2>1. KeysTypeOK' /\ RowsTypeOK' /\ BatchTypeOK'
    BY <1>4 DEF BatchEnds, Release, NoBatch, cacheVars, storeVars, KeysTypeOK, RowsTypeOK, BatchTypeOK
  <2>2. stopRequested' \in BOOLEAN
    BY <1>4, Zenon DEF BatchEnds, CtlTypeOK
  <2>3. CtlTypeOK'
    BY <1>4, <2>2 DEF BatchEnds, Step, boundVars, CtlTypeOK
  <2> QED BY <2>1, <2>3
<1> QED BY <1>1, <1>2, <1>3, <1>4

\* Reads and writes of the services.
LEMMA ServiceTypes ==
  ASSUME TypeOK, (\E r \in Rows : ServiceStep(r)) \/ DecryptBegins \/ DecryptImports
  PROVE  StateTypeOK'
<1> USE TypeParts, Constants DEF StateTypeOK
<1>1. ASSUME NEW r \in Rows, NEW v \in Values, EncryptBegins(r, v) PROVE StateTypeOK'
  <2>1. [step |-> IF cache = NoKey THEN "import" ELSE "encrypt",
         key |-> InMemory.current, version |-> 0, plain |-> v] \in Op
    BY KeyFiles DEF Op, KeyFile, Version, ConstantFacts
  <2>2. RowsTypeOK'
    BY <1>1, <2>1 DEF EncryptBegins, RowsTypeOK
  <2>3. KeysTypeOK' /\ BatchTypeOK'
    BY <1>1 DEF EncryptBegins, cacheVars, lockVars, callVars, KeysTypeOK, BatchTypeOK
  <2>4. CtlTypeOK'
    BY <1>1 DEF EncryptBegins, flagVars, callVars, CtlTypeOK, ConstantFacts
  <2> QED BY <2>2, <2>3, <2>4
<1>2. ASSUME NEW r \in Rows, ImportEnds(r) \/ EncryptEnds(r) PROVE StateTypeOK'
  <2>1. op[r] \in Op
    BY <1>2 DEF ImportEnds, EncryptEnds, RowsTypeOK, NoOp
  <2>2. RowsTypeOK'
    BY <1>2, <2>1 DEF ImportEnds, EncryptEnds, RowsTypeOK, KeysTypeOK, KeyFile, Op
  <2>3. KeysTypeOK' /\ BatchTypeOK' /\ CtlTypeOK'
    BY <1>2, <2>1 DEF ImportEnds, EncryptEnds, cacheVars, lockVars, callVars, flagVars, boundVars,
                      KeysTypeOK, BatchTypeOK, CtlTypeOK, Op
  <2> QED BY <2>2, <2>3
<1>3. ASSUME NEW r \in Rows, StoreValue(r) PROVE StateTypeOK'
  <2>1. CipherOf(op[r]) \in Cipher
    BY <1>3 DEF StoreValue, RowsTypeOK, NoOp, Op, Cipher, CipherOf
  <2>2. RowsTypeOK' /\ BatchTypeOK'
    BY <1>3, <2>1 DEF StoreValue, Put, RowsTypeOK, BatchTypeOK, Cipher
  <2>3. KeysTypeOK' /\ CtlTypeOK'
    BY <1>3 DEF StoreValue, cacheVars, callVars, flagVars, boundVars, KeysTypeOK, CtlTypeOK
  <2> QED BY <2>2, <2>3
<1>4. ASSUME NEW r \in Rows, DeleteValue(r) PROVE StateTypeOK'
  <2>1. RowsTypeOK' /\ BatchTypeOK'
    BY <1>4 DEF DeleteValue, Put, RowsTypeOK, BatchTypeOK, Absent
  <2>2. KeysTypeOK' /\ CtlTypeOK'
    BY <1>4 DEF DeleteValue, cacheVars, callVars, flagVars, boundVars, KeysTypeOK, CtlTypeOK
  <2> QED BY <2>1, <2>2
<1>5. CASE DecryptBegins \/ DecryptImports
  <2>1. KeysTypeOK'
    BY <1>5 DEF DecryptBegins, DecryptImports, callVars, KeysTypeOK, KeyFile
  <2>2. RowsTypeOK' /\ BatchTypeOK' /\ CtlTypeOK'
    BY <1>5 DEF DecryptBegins, DecryptImports, storeVars, lockVars, callVars, flagVars, boundVars,
                RowsTypeOK, BatchTypeOK, CtlTypeOK
  <2> QED BY <2>1, <2>2
<1> QED BY <1>1, <1>2, <1>3, <1>4, <1>5 DEF ServiceStep, WriteStep

LEMMA FailureTypes ==
  ASSUME TypeOK, (\E c \in Rotators : CallFails(c) \/ UpdateFails(c)) \/ Crash
  PROVE  StateTypeOK'
<1> USE TypeParts, Constants DEF StateTypeOK
<1>1. faults' \in 0..MaxFaults
  BY DEF CallFails, UpdateFails, Crash, Fault, CtlTypeOK, ConstantFacts
<1>2. ASSUME NEW c \in Rotators, CallFails(c) PROVE StateTypeOK'
  <2>1. KeysTypeOK' /\ RowsTypeOK' /\ BatchTypeOK'
    BY <1>2 DEF CallFails, cacheVars, storeVars, lockVars, KeysTypeOK, RowsTypeOK, BatchTypeOK
  <2>2. CtlTypeOK'
    BY <1>1, <1>2 DEF CallFails, Step, CtlTypeOK
  <2> QED BY <2>1, <2>2
<1>3. ASSUME NEW c \in Rotators, UpdateFails(c) PROVE StateTypeOK'
  <2>1. KeysTypeOK' /\ RowsTypeOK' /\ BatchTypeOK'
    BY <1>3 DEF UpdateFails, Without, cacheVars, storeVars, callVars, KeysTypeOK, RowsTypeOK, BatchTypeOK
  <2>2. CtlTypeOK'
    BY <1>1, <1>3 DEF UpdateFails, flagVars, callVars, CtlTypeOK
  <2> QED BY <2>1, <2>2
<1>4. CASE Crash
  <2>1. KeysTypeOK' /\ RowsTypeOK' /\ BatchTypeOK'
    BY <1>4 DEF Crash, Release, NoBatch, KeysTypeOK, RowsTypeOK, BatchTypeOK
  <2>2. CtlTypeOK'
    BY <1>1, <1>4 DEF Crash, CtlTypeOK
  <2> QED BY <2>1, <2>2
<1> QED BY <1>2, <1>3, <1>4

LEMMA TypeStep == TypeOK /\ [Next]_vars => TypeOK'
<1>1. TypeOK /\ UNCHANGED vars => TypeOK'
  BY DEF vars, cacheVars, storeVars, lockVars, flagVars, callVars, boundVars, historyVars, TypeOK
<1>2. TypeOK /\ Next => StateTypeOK'
  BY CallTypes, BatchTypes, ServiceTypes, FailureTypes DEF Next, RotationStep
<1>3. StateTypeOK' /\ HistoryTypeOK' => TypeOK'
  BY TypeParts DEF StateTypeOK
<1> QED BY <1>1, <1>2, <1>3, HistoryTypes

LEMMA TypeInit == Init => TypeOK
<1> SUFFICES ASSUME Init PROVE TypeOK
  OBVIOUS
<1> USE Constants DEF ConstantFacts, Init
<1>1. FirstKeys \in KeyFile /\ 1 \in Key
  <2>1. 1 \in Key /\ 0 \in Version
    BY DEF Key, Version
  <2> QED BY <2>1 DEF FirstKeys, KeyFile
<1>2. KeysTypeOK
  BY <1>1 DEF KeysTypeOK
<1>3. RowsTypeOK /\ BatchTypeOK
  BY DEF RowsTypeOK, BatchTypeOK, NoBatch
<1>4. CtlTypeOK
  <2>1. 1 \in 1..Len(ENCRYPTED_TABLES) /\ 0 \in 0..MaxWrites /\ 0 \in 0..MaxFaults
    OBVIOUS
  <2> QED BY <2>1 DEF CtlTypeOK
<1>5. HistoryTypeOK
  BY DEF HistoryTypeOK
<1> QED BY <1>2, <1>3, <1>4, <1>5, TypeParts

\* Keys, letters, ciphertexts, batches and control keep their types, whatever calls,
\* services and failures do (key_rotation_service.ts, versioned_encryption_service.ts).
THEOREM TypeCorrect == Spec => []TypeOK
  BY TypeInit, TypeStep, PTL DEF Spec

-----------------------------------------------------------------------------
(* The keys, as long as no two calls overlap                               *)

\* where a call has not begun to work on the keys
AtRest(c) == pc[c] \in {"idle", "load"}

LEMMA OneStep ==
  ASSUME TypeOK, OneRotation, NEW c \in Rotators, NEW from, NEW to, Step(c, from, to),
         from \notin {"idle", "load"} \/ \A d \in Rotators \ {c} : AtRest(d)
  PROVE  /\ pc[c] = from /\ pc'[c] = to
         /\ \A d \in Rotators : d = c \/ (AtRest(d) /\ pc'[d] = pc[d])
  BY DEF OneRotation, Step, TypeOK, AtRest

\* the steps of the services, and those of a rotation within a batch
QuietStep ==
  \/ \E r \in Rows : ServiceStep(r)
  \/ DecryptBegins \/ DecryptImports
  \/ \E c \in Rotators : Reencrypt(c) \/ UpdateFails(c) \/ Cancel(c)

\* the steps of a call from one label to the next
LabelStep(c) ==
  \/ Check(c) \/ Resume(c) \/ StartNew(c) \/ NotDue(c) \/ SaveSwapped(c) \/ SwapKeys(c)
  \/ EnterTable(c) \/ FetchBatch(c) \/ TableDone(c) \/ BatchEnds(c) \/ AfterSleep(c)
  \/ SaveCompleted(c) \/ DropPhasedOut(c) \/ CallFails(c)

LEMMA NextSplits ==
  Next => QuietStep \/ (\E c \in Rotators : LabelStep(c)) \/ Crash
  BY DEF Next, RotationStep, QuietStep, LabelStep

LEMMA QuietKeys == QuietStep => UNCHANGED <<file, memory, pc, keys, table, overlapped>>
  BY DEF QuietStep, ServiceStep, WriteStep, EncryptBegins, ImportEnds, EncryptEnds, StoreValue, DeleteValue,
         DecryptBegins, DecryptImports, Reencrypt, UpdateFails, Cancel, callVars, historyVars, Mixes

\* an exception once made stays one
LEMMA HistoryGrows ==
  ASSUME [Next]_vars
  PROVE  (overlapped => overlapped') /\ mixed \subseteq mixed' /\ leftBehind \subseteq leftBehind'
<1> DEFINE Grows == (overlapped => overlapped') /\ mixed \subseteq mixed' /\ leftBehind \subseteq leftBehind'
<1>1. ASSUME UNCHANGED historyVars PROVE Grows
  BY <1>1 DEF historyVars
<1>2. ASSUME NEW c \in Rotators, Resume(c) \/ StartNew(c) \/ TableDone(c) \/ AfterSleep(c) PROVE Grows
  BY <1>1, <1>2 DEF Resume, StartNew, TableDone, AfterSleep, Begins, Leaves
<1>3. ASSUME NEW c \in Rotators, Reencrypt(c) PROVE Grows
  BY <1>1, <1>3 DEF Reencrypt, Mixes, historyVars
<1>4. ASSUME NEW r \in Rows, EncryptEnds(r) PROVE Grows
  BY <1>4 DEF EncryptEnds, Mixes
<1>5. ASSUME NEW c \in Rotators,
             \/ Check(c) \/ NotDue(c) \/ SaveSwapped(c) \/ SwapKeys(c) \/ EnterTable(c) \/ FetchBatch(c)
             \/ BatchEnds(c) \/ SaveCompleted(c) \/ DropPhasedOut(c) \/ Cancel(c) \/ CallFails(c)
             \/ UpdateFails(c)
      PROVE  Grows
  BY <1>1, <1>5 DEF Check, NotDue, SaveSwapped, SwapKeys, EnterTable, FetchBatch, BatchEnds, SaveCompleted,
                    DropPhasedOut, Cancel, CallFails, UpdateFails
<1>6. ASSUME NEW r \in Rows,
             \/ ImportEnds(r) \/ StoreValue(r) \/ DeleteValue(r) \/ \E v \in Values : EncryptBegins(r, v)
      PROVE  Grows
  BY <1>1, <1>6 DEF ImportEnds, StoreValue, DeleteValue, EncryptBegins
<1>7. CASE DecryptBegins \/ DecryptImports \/ Crash
  BY <1>1, <1>7 DEF DecryptBegins, DecryptImports, Crash
<1>8. CASE UNCHANGED vars
  BY <1>1, <1>8 DEF vars
<1> QED BY <1>2, <1>3, <1>4, <1>5, <1>6, <1>7, <1>8 DEF Next, RotationStep, ServiceStep, WriteStep

\* who begins without overlapping another call finds the others at rest
LEMMA BeginsAlone ==
  ASSUME NEW c \in Rotators, Resume(c) \/ StartNew(c), ~overlapped'
  PROVE  \A d \in Rotators \ {c} : AtRest(d)
  BY DEF Resume, StartNew, Begins, AtRest

LEMMA OneRotationStep ==
  ASSUME TypeOK, OneRotation, [Next]_vars, ~overlapped'
  PROVE  OneRotation'
<1> USE DEF OneRotation
<1>1. ASSUME UNCHANGED pc PROVE OneRotation'
  BY <1>1
<1>2. ASSUME NEW c \in Rotators, LabelStep(c) PROVE OneRotation'
  <2>1. CASE Check(c) \/ NotDue(c)
    <3>1. \A d \in Rotators : pc'[d] = pc[d] \/ pc'[d] \in {"idle", "load"}
      BY <2>1 DEF Check, NotDue, Step, TypeOK
    <3> QED BY <3>1
  <2>2. CASE Resume(c) \/ StartNew(c)
    <3>1. \A d \in Rotators \ {c} : pc'[d] \in {"idle", "load"}
      BY <2>2, BeginsAlone DEF Resume, StartNew, Step, TypeOK, AtRest
    <3> QED BY <3>1
  <2>3. CASE ~(Check(c) \/ NotDue(c) \/ Resume(c) \/ StartNew(c))
    <3>1. pc[c] \notin {"idle", "load"} /\ \A d \in Rotators \ {c} : pc'[d] = pc[d]
      BY <1>2, <2>3 DEF LabelStep, SaveSwapped, SwapKeys, EnterTable, FetchBatch, TableDone, BatchEnds,
                        AfterSleep, SaveCompleted, DropPhasedOut, CallFails, Step, TypeOK
    <3> QED BY <3>1
  <2> QED BY <2>1, <2>2, <2>3
<1>3. CASE Crash
  BY <1>3 DEF Crash
<1>4. CASE UNCHANGED vars
  BY <1>1, <1>4 DEF vars, callVars
<1> QED BY <1>1, <1>2, <1>3, <1>4, NextSplits, QuietKeys

LEMMA KeysAgreeStep ==
  ASSUME TypeOK, OneRotation, KeysAgree, [Next]_vars, ~overlapped'
  PROVE  KeysAgree'
<1> USE DEF KeysAgree, AtRest
<1>1. ASSUME UNCHANGED <<file, memory, pc, keys>> PROVE KeysAgree'
  BY <1>1 DEF InRotation
<1>2. ASSUME NEW c \in Rotators, LabelStep(c) PROVE KeysAgree'
  <2> USE OneStep
  <2>1. CASE Check(c) \/ NotDue(c)
    <3>1. \A d \in Rotators : pc'[d] = pc[d] \/ (pc'[d] \in {"idle", "load"} /\ pc[d] \in {"idle", "load"})
      BY <2>1 DEF Check, NotDue, Step, TypeOK
    <3>2. UNCHANGED <<file, memory, keys>>
      BY <2>1 DEF Check, NotDue
    <3> QED BY <3>1, <3>2 DEF InRotation
  <2>2. CASE Resume(c) \/ StartNew(c)
    <3>1. \A d \in Rotators \ {c} : AtRest(d)
      BY <2>2, BeginsAlone
    <3>2. UNCHANGED <<file, memory>> /\ keys'[c] = file /\ pc[c] = "load"
      BY <2>2 DEF Resume, StartNew, Step, TypeOK
    <3>3. \A d \in Rotators : d = c \/ pc'[d] \in {"idle", "load"}
      BY <2>2, <3>1 DEF Resume, StartNew, Step, TypeOK
    <3>4. /\ Resume(c) => pc'[c] = "enter" /\ isRotationInProgress(file)
          /\ StartNew(c) => pc'[c] = "save" /\ ~isRotationInProgress(file)
      BY <2>2 DEF Resume, StartNew, Step, TypeOK
    <3>5. memory = file
      BY <3>1, <3>2
    <3> QED BY <2>2, <3>2, <3>3, <3>4, <3>5 DEF InRotation
  <2>3. CASE SaveSwapped(c)
    <3>1. /\ pc[c] = "save" /\ pc'[c] = "swap"
          /\ \A d \in Rotators : d = c \/ (AtRest(d) /\ pc'[d] = pc[d])
          /\ file' = Swapped(keys[c]) /\ memory' = memory /\ keys' = [keys EXCEPT ![c] = file']
      BY <2>3 DEF SaveSwapped
    <3>2. memory = file /\ keys[c] = memory /\ ~isRotationInProgress(memory)
      BY <3>1
    <3>3. file'.phasedOut = memory.current /\ file'.phasedOutVersion = memory.version
      BY <3>1, <3>2 DEF Swapped
    <3>4. isRotationInProgress(file)'
      BY <3>3 DEF isRotationInProgress, TypeOK, KeyFile, Key, NoKey
    <3>5. keys'[c] = file'
      BY <3>1 DEF TypeOK
    <3> QED BY <3>1, <3>2, <3>3, <3>4, <3>5 DEF InRotation, isRotationInProgress
  <2>4. CASE SwapKeys(c)
    BY <2>4 DEF SwapKeys, InRotation
  <2>5. CASE EnterTable(c)
    BY <2>5 DEF EnterTable, InRotation
  <2>6. CASE FetchBatch(c) \/ TableDone(c) \/ BatchEnds(c)
    BY <2>6 DEF FetchBatch, TableDone, BatchEnds, InRotation
  <2>7. CASE AfterSleep(c)
    BY <2>7 DEF AfterSleep, InRotation
  <2>8. CASE SaveCompleted(c)
    BY <2>8 DEF SaveCompleted, InRotation
  <2>9. CASE DropPhasedOut(c)
    BY <2>9 DEF DropPhasedOut, InRotation
  <2>10. CASE CallFails(c)
    BY <2>10 DEF CallFails, InRotation
  <2> QED BY <1>2, <2>1, <2>2, <2>3, <2>4, <2>5, <2>6, <2>7, <2>8, <2>9, <2>10 DEF LabelStep
<1>3. CASE Crash
  BY <1>3 DEF Crash, InRotation
<1>4. CASE UNCHANGED vars
  BY <1>1, <1>4 DEF vars, callVars
<1> QED BY <1>1, <1>2, <1>3, <1>4, NextSplits, QuietKeys

LEMMA LettersDifferStep ==
  ASSUME TypeOK, KeysAgree, LettersDiffer, [Next]_vars
  PROVE  LettersDiffer'
<1> USE DEF LettersDiffer, isRotationInProgress
<1>1. ASSUME file' \in {file, memory}, memory' \in {file, memory} PROVE LettersDiffer'
  BY <1>1
<1>2. \A f \in KeyFile : ~isRotationInProgress(Completed(f))
  BY DEF Completed, KeyFile
<1>3. ASSUME NEW c \in Rotators, LabelStep(c) PROVE LettersDiffer'
  <2>1. CASE SaveSwapped(c)
    <3>1. keys[c] = file
      BY <2>1 DEF SaveSwapped, Step, KeysAgree
    <3>2. getNextVersion(file.version) # file.version
      BY KeyFiles, TypeParts DEF TypeOK
    <3>3. file'.version # file'.phasedOutVersion /\ memory' = memory
      BY <2>1, <3>1, <3>2 DEF SaveSwapped, Swapped
    <3> QED BY <3>3
  <2>2. CASE SaveCompleted(c)
    BY <1>2, <2>2 DEF SaveCompleted, TypeOK
  <2>3. CASE DropPhasedOut(c)
    BY <1>2, <2>3 DEF DropPhasedOut, TypeOK
  <2>4. CASE SwapKeys(c)
    BY <1>1, <2>4 DEF SwapKeys, Step, KeysAgree
  <2>5. CASE ~(SaveSwapped(c) \/ SaveCompleted(c) \/ DropPhasedOut(c) \/ SwapKeys(c))
    BY <1>1, <1>3, <2>5 DEF LabelStep, Check, Resume, StartNew, NotDue, EnterTable, FetchBatch, TableDone,
                            BatchEnds, AfterSleep, CallFails
  <2> QED BY <2>1, <2>2, <2>3, <2>4, <2>5
<1>4. CASE Crash
  BY <1>1, <1>4 DEF Crash
<1>5. CASE UNCHANGED vars
  BY <1>1, <1>5 DEF vars
<1> QED BY <1>1, <1>3, <1>4, <1>5, NextSplits, QuietKeys

LEMMA KeysHeldStep == TypeOK /\ KeysHeld /\ [Next]_vars => KeysHeld'
  BY OneRotationStep, KeysAgreeStep, LettersDifferStep, HistoryGrows DEF KeysHeld

LEMMA KeysInvariant == Spec => []KeysInv
<1>1. Init => KeysInv
  <2> SUFFICES ASSUME Init PROVE KeysInv
    OBVIOUS
  <2>1. TypeOK
    BY TypeInit
  <2>2. OneRotation /\ KeysAgree /\ LettersDiffer
    BY DEF Init, OneRotation, KeysAgree, LettersDiffer, InRotation, isRotationInProgress, FirstKeys
  <2> QED BY <2>1, <2>2 DEF KeysInv, KeysHeld
<1>2. KeysInv /\ [Next]_vars => KeysInv'
  BY TypeStep, KeysHeldStep DEF KeysInv
<1> QED BY <1>1, <1>2, PTL DEF Spec

-----------------------------------------------------------------------------
(* What stays readable *)

\* with an imported key that is not stale, decrypt() works with the keys in memory
LEMMA OpensInMemory ==
  ASSUME TypeOK, ~CacheStale
  PROVE  InMemory = memory
  BY DEF CacheStale, InMemory, TypeOK, KeyFile

\* What the key file opens is read with a key that the memory has as well, whatever was imported.
LEMMA ReadableInMemory ==
  ASSUME KeysInv, ~overlapped, NEW x \in Cipher, Opens(file, x), Opens(InMemory, x)
  PROVE  Opens(memory, x)
<1> USE DEF KeysInv, KeysHeld, KeysAgree
<1>1. CASE \A c \in Rotators : pc[c] \notin {"swap", "drop"}
  BY <1>1
<1>2. /\ InMemory.version = memory.version /\ InMemory.phasedOut = memory.phasedOut
      /\ InMemory.phasedOutVersion = memory.phasedOutVersion
  BY DEF InMemory, TypeOK, KeyFile
<1>3. ASSUME NEW c \in Rotators, pc[c] = "swap" PROVE Opens(memory, x)
  <2>1. x.version = memory.version
    BY <1>2, <1>3 DEF Opens, isRotationInProgress
  <2>2. file.phasedOut = memory.current /\ file.phasedOutVersion = memory.version
    BY <1>3
  <2>3. file.version # memory.version
    BY <1>3, <2>2 DEF LettersDiffer
  <2> QED BY <2>1, <2>2, <2>3 DEF Opens
<1>4. ASSUME NEW c \in Rotators, pc[c] = "drop" PROVE Opens(memory, x)
  <2>1. file = Completed(memory)
    BY <1>4
  <2>2. file.version = memory.version /\ file.current = memory.current /\ file.phasedOut = NoKey
    BY <2>1 DEF Completed, TypeOK, KeyFile
  <2> QED BY <2>2 DEF Opens
<1> QED BY <1>1, <1>3, <1>4

\* saveKeys() of new keys makes no ciphertext unreadable: the current key becomes the phased-out one.
LEMMA SwapKeepsReadable ==
  ASSUME KeysInv, ~overlapped, NEW c \in Rotators, SaveSwapped(c), NEW x \in Cipher, Opens(file, x)
  PROVE  Opens(file', x)
<1>1. keys[c] = file /\ ~isRotationInProgress(file)
  BY DEF KeysInv, KeysHeld, KeysAgree, SaveSwapped, Step
<1>2. x.version = file.version /\ x.key = file.current
  BY <1>1 DEF Opens, isRotationInProgress
<1>3. getNextVersion(file.version) # file.version
  BY KeyFiles, TypeParts DEF KeysInv, TypeOK
<1>4. file' = Swapped(file)
  BY <1>1 DEF SaveSwapped
<1>5. file.current # NoKey
  BY DEF KeysInv, TypeOK, KeyFile, Key, NoKey
<1> QED BY <1>2, <1>3, <1>4, <1>5 DEF Swapped, Opens

\* A stored value becomes unreadable only where a rotation gives up the phased-out key:
\* saveKeys() and updateKeys() of a completed rotation, never a start, a stop, a failure,
\* a crash or the resumption of a rotation ("the phased_out key remains available").  Nothing
\* is assumed of callers, cancellation and operations in flight: overlapping calls and a stale
\* import are in the property as its exceptions.
THEOREM LossNeedsCompletion == Spec => LossOnlyAtCompletion
<1>1. KeysInv /\ KeysInv' /\ [Next]_vars
        => [\A r \in Rows : (stored'[r] = stored[r] /\ Readable(r) /\ ~Readable(r)')
              => \/ overlapped \/ CacheStale'
                 \/ \E c \in Rotators : pc[c] \in {"complete", "drop"} /\ pc'[c] # pc[c]]_vars
  <2> SUFFICES ASSUME KeysInv, KeysInv', [Next]_vars, NEW r \in Rows,
                      stored'[r] = stored[r], Readable(r), ~Readable(r)',
                      ~overlapped, ~CacheStale',
                      \A c \in Rotators : pc[c] \notin {"complete", "drop"} \/ pc'[c] = pc[c]
               PROVE  FALSE
    OBVIOUS
  <2> DEFINE x == stored[r]
  <2>1. x \in Cipher /\ stored[r] # Absent /\ stored'[r] # Absent /\ stored'[r] = x
    BY DEF Readable, KeysInv, TypeOK
  <2> HIDE DEF x
  <2>2. Opens(file, x) /\ Opens(memory, x)
    BY <2>1, ReadableInMemory DEF Readable, x
  <2>3. ~(Opens(file', x) /\ Opens(memory', x))
    <3>1. InMemory' = memory'
      BY DEF KeysInv, CacheStale, InMemory, TypeOK, KeyFile
    <3> QED BY <2>1, <3>1 DEF Readable, Opens
  <2>4. ~(file' \in {file, memory} /\ memory' \in {file, memory})
    BY <2>2, <2>3
  <2>5. ~QuietStep /\ vars' # vars
    BY <2>4, QuietKeys DEF vars
  <2>6. ~Crash
    BY <2>4 DEF Crash
  <2>7. PICK c \in Rotators : LabelStep(c)
    BY <2>5, <2>6, NextSplits
  <2>8. SaveSwapped(c) \/ SwapKeys(c) \/ SaveCompleted(c) \/ DropPhasedOut(c)
    BY <2>4, <2>7 DEF LabelStep, Check, Resume, StartNew, NotDue, EnterTable, FetchBatch, TableDone,
                      BatchEnds, AfterSleep, CallFails
  <2>9. ~SaveSwapped(c)
    BY <2>1, <2>2, <2>3, SwapKeepsReadable DEF SaveSwapped
  <2>10. ~SwapKeys(c)
    BY <2>4 DEF SwapKeys, Step, KeysInv, KeysHeld, KeysAgree
  <2>11. ~(SaveCompleted(c) \/ DropPhasedOut(c))
    BY DEF SaveCompleted, DropPhasedOut, Step, KeysInv, TypeOK
  <2> QED BY <2>8, <2>9, <2>10, <2>11
<1> QED BY <1>1, KeysInvariant, PTL DEF Spec, LossOnlyAtCompletion

-----------------------------------------------------------------------------
(* The tables that a rotation has left behind *)

\* a rotation and the memory have the same keys, and what is encrypted now has another letter
\* than what is to be reencrypted
LEMMA CurrentLetter ==
  ASSUME KeysInv, ~overlapped, NEW c \in Rotators, InRotation(c) \/ pc[c] = "drop"
  PROVE  keys[c] = memory /\ memory.version # keys[c].phasedOutVersion
<1> USE DEF KeysInv, KeysHeld, KeysAgree, LettersDiffer
<1>1. CASE InRotation(c)
  <2>1. \A d \in Rotators : pc[d] \notin {"swap", "drop"}
    BY <1>1 DEF InRotation, OneRotation
  <2> QED BY <1>1, <2>1
<1>2. CASE pc[c] = "drop"
  BY <1>2
<1> QED BY <1>1, <1>2

\* how the operations of the services and of a batch change a row, and a write under way
RowChanges(r) ==
  \/ stored'[r] = stored[r] /\ written'[r] = written[r]
  \/ stored'[r] = Absent /\ written'[r] = "absent"
  \/ op[r].step = "store" /\ stored'[r] = CipherOf(op[r]) /\ written'[r] = op[r].plain
  \/ /\ r \in DOMAIN batch /\ r \notin touched /\ written'[r] = written[r]
     /\ stored'[r] = Encrypt(batch[r].plain)
     /\ stored'[r].key = memory.current \/ <<r, stored'[r].key>> \in mixed'

OpChanges(r) ==
  \/ op'[r] = op[r]
  \/ op'[r].step # "store"
  \/ /\ op'[r].step = "store" /\ op'[r].version = memory.version
     /\ op'[r].key = memory.current \/ <<r, op'[r].key>> \in mixed'

LEMMA QuietRows ==
  ASSUME TypeOK, QuietStep, NEW r \in Rows
  PROVE  RowChanges(r) /\ OpChanges(r)
<1>1. ASSUME UNCHANGED <<stored, written, op>> PROVE RowChanges(r) /\ OpChanges(r)
  BY <1>1 DEF RowChanges, OpChanges
<1>2. ASSUME NEW q \in Rows, NEW v \in Values, EncryptBegins(q, v) PROVE RowChanges(r) /\ OpChanges(r)
  <2>1. op'[r] = op[r] \/ op'[r].step # "store"
    BY <1>2 DEF EncryptBegins, TypeOK
  <2> QED BY <1>2, <2>1 DEF EncryptBegins, RowChanges, OpChanges
<1>3. ASSUME NEW q \in Rows, ImportEnds(q) PROVE RowChanges(r) /\ OpChanges(r)
  <2>1. op'[r] = op[r] \/ op'[r].step # "store"
    BY <1>3 DEF ImportEnds, TypeOK, Op, NoOp
  <2> QED BY <1>3, <2>1 DEF ImportEnds, RowChanges, OpChanges
<1>4. ASSUME NEW q \in Rows, EncryptEnds(q) PROVE RowChanges(r) /\ OpChanges(r)
  <2>1. CASE q = r
    <3>1. op[r] \in Op
      BY <1>4, <2>1 DEF EncryptEnds, TypeOK, NoOp
    <3>2. op'[r].step = "store" /\ op'[r].key = op[r].key /\ op'[r].version = memory.version
      BY <1>4, <2>1, <3>1 DEF EncryptEnds, TypeOK, Op
    <3>3. op[r].key = memory.current \/ <<r, op[r].key>> \in mixed'
      BY <1>4, <2>1 DEF EncryptEnds, Mixes
    <3> QED BY <1>4, <3>2, <3>3 DEF EncryptEnds, RowChanges, OpChanges
  <2>2. CASE q # r
    BY <1>4, <2>2 DEF EncryptEnds, TypeOK, RowChanges, OpChanges
  <2> QED BY <2>1, <2>2
<1>5. ASSUME NEW q \in Rows, StoreValue(q) PROVE RowChanges(r) /\ OpChanges(r)
  BY <1>5 DEF StoreValue, Put, CipherOf, TypeOK, NoOp, RowChanges, OpChanges
<1>6. ASSUME NEW q \in Rows, DeleteValue(q) PROVE RowChanges(r) /\ OpChanges(r)
  BY <1>6 DEF DeleteValue, Put, Absent, TypeOK, RowChanges, OpChanges
<1>7. ASSUME NEW c \in Rotators, Reencrypt(c) PROVE RowChanges(r) /\ OpChanges(r)
  <2> PICK q \in DOMAIN batch :
        IF Opens(InMemory, batch[q]) /\ q \notin touched
        THEN stored' = [stored EXCEPT ![q] = Encrypt(batch[q].plain)] /\ Mixes(q, InMemory.current)
        ELSE UNCHANGED stored
    BY <1>7 DEF Reencrypt
  <2>1. UNCHANGED <<written, op>>
    BY <1>7 DEF Reencrypt
  <2>2. \A v : Encrypt(v).key = InMemory.current
    BY DEF Encrypt
  <2>3. CASE q = r /\ Opens(InMemory, batch[q]) /\ q \notin touched
    <3>1. stored'[r] = Encrypt(batch[r].plain)
      BY <2>3 DEF TypeOK
    <3>2. InMemory.current = memory.current \/ <<r, InMemory.current>> \in mixed'
      BY <2>3 DEF Mixes
    <3> QED BY <2>1, <2>2, <2>3, <3>1, <3>2 DEF RowChanges, OpChanges
  <2>4. CASE ~(q = r /\ Opens(InMemory, batch[q]) /\ q \notin touched)
    BY <2>1, <2>4 DEF TypeOK, RowChanges, OpChanges
  <2> QED BY <2>3, <2>4
<1>8. ASSUME NEW c \in Rotators, UpdateFails(c) \/ Cancel(c) PROVE RowChanges(r) /\ OpChanges(r)
  BY <1>1, <1>8 DEF UpdateFails, Cancel, storeVars
<1>9. CASE DecryptBegins \/ DecryptImports
  BY <1>1, <1>9 DEF DecryptBegins, DecryptImports, storeVars
<1> QED BY <1>2, <1>3, <1>4, <1>5, <1>6, <1>7, <1>8, <1>9 DEF QuietStep, ServiceStep, WriteStep

LEMMA CleanRowsStay ==
  ASSUME KeysInv, ~overlapped, QuietStep,
         NEW c \in Rotators, InRotation(c) \/ pc[c] = "drop", NEW r \in Rows, CleanRow(c, r)
  PROVE  CleanRow(c, r)'
<1>1. keys' = keys /\ memory.version # keys[c].phasedOutVersion
  BY QuietKeys, CurrentLetter
<1>2. RowChanges(r) /\ OpChanges(r)
  BY QuietRows DEF KeysInv
<1>3. leftBehind \subseteq leftBehind'
  BY HistoryGrows DEF QuietStep, Next, RotationStep
<1>4. stored'[r] = Absent \/ stored'[r].version # keys[c].phasedOutVersion
        \/ <<r, stored'[r].key>> \in leftBehind'
  BY <1>1, <1>2, <1>3 DEF CleanRow, RowChanges, CipherOf, Encrypt
<1>5. op'[r].step = "store" /\ op'[r].version = keys[c].phasedOutVersion
        => <<r, op'[r].key>> \in leftBehind'
  BY <1>1, <1>2, <1>3 DEF CleanRow, OpChanges
<1> QED BY <1>1, <1>4, <1>5 DEF CleanRow

\* the steps from label to label write no row
LEMMA LabelRows ==
  ASSUME NEW c \in Rotators, LabelStep(c)
  PROVE  UNCHANGED <<stored, written, op>>
  BY DEF LabelStep, Check, Resume, StartNew, NotDue, SaveSwapped, SwapKeys, EnterTable, FetchBatch, TableDone,
         BatchEnds, AfterSleep, SaveCompleted, DropPhasedOut, CallFails, storeVars

\* what a rotation leaves its table without is put down
LEMMA TableIsClean ==
  ASSUME NEW c \in Rotators, Leaves(c), UNCHANGED <<stored, op, keys>>,
         NEW r \in Rows, TableOf[r] = ENCRYPTED_TABLES[table[c]]
  PROVE  CleanRow(c, r)'
<1>1. r \in ToReencrypt(c) => <<r, stored[r].key>> \in leftBehind'
  BY DEF Leaves
<1>2. r \in Late(c) => <<r, op[r].key>> \in leftBehind'
  BY DEF Leaves
<1> QED BY <1>1, <1>2 DEF ToReencrypt, Late, CleanRow

\* a rotation starts at the first table
StartsAtFirst == ~overlapped => \A c \in Rotators : pc[c] \in {"save", "swap"} => table[c] = 1

LEMMA StartsAtFirstStep ==
  ASSUME KeysInv, StartsAtFirst, [Next]_vars
  PROVE  StartsAtFirst'
<1> SUFFICES ASSUME ~overlapped, ~overlapped',
                    \A c \in Rotators : pc[c] \in {"save", "swap"} => table[c] = 1
             PROVE  \A c \in Rotators : pc'[c] \in {"save", "swap"} => table'[c] = 1
  BY HistoryGrows DEF StartsAtFirst
<1>1. ASSUME NEW c \in Rotators, LabelStep(c)
      PROVE  \A d \in Rotators : pc'[d] \in {"save", "swap"} => table'[d] = 1
  <2> USE DEF KeysInv, TypeOK
  <2>1. \A d \in Rotators \ {c} : pc'[d] = pc[d] /\ table'[d] = table[d]
    <3>1. \A d \in Rotators \ {c} : pc'[d] = pc[d]
      BY <1>1 DEF LabelStep, Step, Check, Resume, StartNew, NotDue, SaveSwapped, SwapKeys, EnterTable,
           FetchBatch, TableDone, BatchEnds, AfterSleep, SaveCompleted, DropPhasedOut, CallFails
    <3>2. \A d \in Rotators \ {c} : table'[d] = table[d]
      BY <1>1 DEF LabelStep, Check, Resume, StartNew, NotDue, SaveSwapped, SwapKeys, EnterTable,
           FetchBatch, TableDone, BatchEnds, AfterSleep, SaveCompleted, DropPhasedOut, CallFails
    <3> QED BY <3>1, <3>2
  <2>2. pc'[c] \in {"save", "swap"} => table'[c] = 1
    <3>1. CASE StartNew(c)
      BY <3>1 DEF StartNew
    <3>2. CASE SaveSwapped(c)
      BY <3>2 DEF SaveSwapped, Step
    <3>3. CASE ~StartNew(c) /\ ~SaveSwapped(c)
      BY <1>1, <3>3 DEF LabelStep, Step, Check, Resume, NotDue, SwapKeys, EnterTable,
           FetchBatch, TableDone, BatchEnds, AfterSleep, SaveCompleted, DropPhasedOut, CallFails
    <3> QED BY <3>1, <3>2, <3>3
  <2> QED BY <2>1, <2>2
<1>2. CASE Crash
  BY <1>2 DEF Crash
<1>3. CASE UNCHANGED vars
  BY <1>3 DEF vars, callVars
<1> QED BY <1>1, <1>2, <1>3, NextSplits, QuietKeys

LEMMA BehindCleanStep ==
  ASSUME KeysInv, KeysInv', StartsAtFirst, TablesBehindClean, [Next]_vars
  PROVE  TablesBehindClean'
<1> DEFINE Behind(d) ==
      \A r \in Rows, i \in 1..table[d] - 1 : TableOf[r] = ENCRYPTED_TABLES[i] => CleanRow(d, r)
<1>1. TablesBehindClean <=> \A d \in Rotators : InRotation(d) /\ ~overlapped => Behind(d)
  BY DEF TablesBehindClean, CleanRow
<1>2. TablesBehindClean' <=> \A d \in Rotators : InRotation(d)' /\ ~overlapped' => Behind(d)'
  BY DEF TablesBehindClean, CleanRow
<1>3. SUFFICES ASSUME ~overlapped, ~overlapped' PROVE TablesBehindClean'
  BY <1>2, HistoryGrows
<1>4. leftBehind \subseteq leftBehind'
  BY HistoryGrows
<1>5. CASE QuietStep
  <2>1. UNCHANGED <<pc, table>>
    BY <1>5, QuietKeys
  <2>2. ASSUME NEW d \in Rotators, InRotation(d), Behind(d) PROVE Behind(d)'
    BY <1>3, <1>5, <2>1, <2>2, CleanRowsStay
  <2> QED BY <1>1, <1>2, <1>3, <2>1, <2>2 DEF InRotation
<1>6. ASSUME NEW c \in Rotators, LabelStep(c) PROVE TablesBehindClean'
  <2> USE DEF KeysInv
  <2>1. UNCHANGED <<stored, op>>
    BY <1>6, LabelRows
  <2>2. ASSUME NEW d \in Rotators, keys'[d] = keys[d], table'[d] = table[d], Behind(d) PROVE Behind(d)'
    BY <1>4, <2>1, <2>2 DEF CleanRow
  <2>3. \A d \in Rotators : InRotation(d)' => pc'[d] \notin {"idle", "load"}
    BY DEF InRotation
  <2>4. CASE Check(c) \/ NotDue(c)
    <3>1. \A d \in Rotators : InRotation(d)' => InRotation(d)
      BY <2>4 DEF Check, NotDue, Step, TypeOK, InRotation
    <3>2. UNCHANGED <<keys, table>>
      BY <2>4 DEF Check, NotDue
    <3> QED BY <1>1, <1>2, <1>3, <2>2, <3>1, <3>2
  <2>5. ASSUME ~(Check(c) \/ NotDue(c)) PROVE \A d \in Rotators : d = c \/ ~InRotation(d)'
    <3>1. OneRotation'
      BY <1>3 DEF KeysHeld
    <3>2. CASE pc'[c] \notin {"idle", "load"}
      BY <2>3, <3>1, <3>2 DEF OneRotation
    <3>3. CASE pc'[c] \in {"idle", "load"}
      <4>1. pc[c] \notin {"idle", "load"} /\ \A d \in Rotators \ {c} : pc'[d] = pc[d]
        BY <1>6, <2>5, <3>3 DEF LabelStep, Resume, StartNew, SaveSwapped, SwapKeys, EnterTable, FetchBatch,
             TableDone, BatchEnds, AfterSleep, SaveCompleted, DropPhasedOut, CallFails, Step, TypeOK
      <4>2. OneRotation
        BY <1>3 DEF KeysHeld
      <4> QED BY <2>3, <4>1, <4>2 DEF OneRotation
    <3> QED BY <3>2, <3>3
  <2>6. CASE Resume(c) \/ SwapKeys(c)
    <3>1. table'[c] = 1
      BY <1>3, <2>6 DEF Resume, SwapKeys, Step, StartsAtFirst, TypeOK
    <3>2. Behind(c)'
      BY <3>1
    <3>3. ~(Check(c) \/ NotDue(c))
      BY <2>6 DEF Resume, SwapKeys, Check, NotDue, Step, TypeOK
    <3> QED BY <1>2, <2>5, <3>2, <3>3
  <2>7. CASE TableDone(c)
    <3>1. keys' = keys /\ InRotation(c) /\ table[c] \in Nat /\ Leaves(c)
      BY <2>7 DEF TableDone, Step, InRotation, TypeOK
    <3>2. table'[c] = table[c] \/ table'[c] = table[c] + 1
      BY <2>7 DEF TableDone, TypeOK
    <3>3. \A r \in Rows : TableOf[r] = ENCRYPTED_TABLES[table[c]] => CleanRow(c, r)'
      BY <2>1, <3>1, TableIsClean
    <3>4. \A r \in Rows, i \in 1..table[c] - 1 : TableOf[r] = ENCRYPTED_TABLES[i] => CleanRow(c, r)'
      BY <1>1, <1>3, <1>4, <2>1, <3>1 DEF CleanRow
    <3>5. Behind(c)'
      <4> SUFFICES ASSUME NEW r \in Rows, NEW i \in 1..table'[c] - 1, TableOf[r] = ENCRYPTED_TABLES[i]
                   PROVE CleanRow(c, r)'
        OBVIOUS
      <4>1. i \in 1..table[c] - 1 \/ i = table[c]
        BY <3>1, <3>2
      <4> QED BY <3>3, <3>4, <4>1
    <3>6. ~(Check(c) \/ NotDue(c))
      BY <2>7 DEF TableDone, Check, NotDue, Step, TypeOK
    <3> QED BY <1>2, <2>5, <3>5, <3>6
  <2>8. CASE EnterTable(c) \/ FetchBatch(c) \/ BatchEnds(c) \/ AfterSleep(c)
    <3>1. InRotation(c) /\ UNCHANGED <<keys, table>> /\ ~(Check(c) \/ NotDue(c))
      BY <2>8 DEF EnterTable, FetchBatch, BatchEnds, AfterSleep, Check, NotDue, Step, InRotation, TypeOK
    <3>2. Behind(c)'
      BY <1>1, <1>3, <2>2, <3>1
    <3> QED BY <1>2, <2>5, <3>1, <3>2
  <2>9. CASE StartNew(c) \/ SaveSwapped(c) \/ SaveCompleted(c) \/ DropPhasedOut(c) \/ CallFails(c)
    <3>1. ~InRotation(c)' /\ ~(Check(c) \/ NotDue(c))
      BY <2>9 DEF StartNew, SaveSwapped, SaveCompleted, DropPhasedOut, CallFails, Check, NotDue, Step,
                  InRotation, TypeOK
    <3> QED BY <1>2, <2>5, <3>1
  <2> QED BY <1>6, <2>4, <2>6, <2>7, <2>8, <2>9 DEF LabelStep
<1>7. CASE Crash
  BY <1>2, <1>7 DEF Crash, InRotation
<1>8. CASE UNCHANGED vars
  BY <1>8 DEF vars, callVars, storeVars, historyVars, TablesBehindClean, InRotation
<1> QED BY <1>5, <1>6, <1>7, <1>8, NextSplits

TablesInv == KeysInv /\ StartsAtFirst /\ TablesBehindClean

LEMMA TablesInvariant == Spec => []TablesInv
<1>1. Init => StartsAtFirst /\ TablesBehindClean
  BY DEF Init, StartsAtFirst, TablesBehindClean, InRotation
<1>2. KeysInv /\ KeysInv' /\ (StartsAtFirst /\ TablesBehindClean) /\ [Next]_vars
        => (StartsAtFirst /\ TablesBehindClean)'
  BY StartsAtFirstStep, BehindCleanStep
<1>3. KeysInv /\ (StartsAtFirst /\ TablesBehindClean) <=> TablesInv
  BY DEF TablesInv
<1> QED BY <1>1, <1>2, <1>3, KeysInvariant, PTL DEF Spec

\* A rotation leaves no table before everything in it has the new key, and no write can bring
\* the old one back, over cancellations, failing calls, crashes and resumptions
\* (performRotation, reencryptTable), but for the writes that it did not wait for and the
\* overlapping calls the property names.
THEOREM RotatedTablesStayClean == Spec => []TablesBehindClean
<1>1. TablesInv => TablesBehindClean
  BY DEF TablesInv
<1> QED BY <1>1, TablesInvariant, PTL

-----------------------------------------------------------------------------
(* The values *)

\* updatedAt tells what has been written since the batch was read
LEMMA BatchIsFreshStep ==
  ASSUME TypeOK, BatchIsFresh, [Next]_vars
  PROVE  BatchIsFresh'
<1> USE DEF BatchIsFresh
<1>1. ASSUME UNCHANGED <<stored, batch, touched>> PROVE BatchIsFresh'
  BY <1>1
<1>2. ASSUME NEW c \in Rotators, FetchBatch(c) PROVE BatchIsFresh'
  BY <1>2 DEF FetchBatch, storeVars
<1>3. ASSUME batch' = NoBatch PROVE BatchIsFresh'
  BY <1>3 DEF NoBatch
<1>4. ASSUME NEW c \in Rotators, BatchEnds(c) PROVE BatchIsFresh'
  BY <1>3, <1>4 DEF BatchEnds, Release
<1>5. ASSUME NEW c \in Rotators, Reencrypt(c) PROVE BatchIsFresh'
  BY <1>5 DEF Reencrypt, Without, TypeOK
<1>6. ASSUME NEW c \in Rotators, UpdateFails(c) PROVE BatchIsFresh'
  BY <1>6 DEF UpdateFails, Without, storeVars
<1>7. ASSUME NEW r \in Rows, StoreValue(r) \/ DeleteValue(r) PROVE BatchIsFresh'
  BY <1>7 DEF StoreValue, DeleteValue, Put, TypeOK
<1>8. ASSUME NEW r \in Rows, ImportEnds(r) \/ EncryptEnds(r) \/ \E v \in Values : EncryptBegins(r, v)
      PROVE  BatchIsFresh'
  BY <1>1, <1>8 DEF ImportEnds, EncryptEnds, EncryptBegins, lockVars
<1>9. CASE DecryptBegins \/ DecryptImports
  BY <1>1, <1>9 DEF DecryptBegins, DecryptImports, storeVars, lockVars
<1>10. ASSUME NEW c \in Rotators,
              Cancel(c) \/ (LabelStep(c) /\ ~FetchBatch(c) /\ ~BatchEnds(c))
       PROVE  BatchIsFresh'
  BY <1>1, <1>10 DEF Cancel, LabelStep, Check, Resume, StartNew, NotDue, SaveSwapped, SwapKeys, EnterTable,
       TableDone, AfterSleep, SaveCompleted, DropPhasedOut, CallFails, storeVars, lockVars
<1>11. CASE Crash
  BY <1>3, <1>11 DEF Crash, Release
<1>12. CASE UNCHANGED vars
  BY <1>1, <1>12 DEF vars, storeVars, lockVars
<1> QED BY <1>2, <1>4, <1>5, <1>6, <1>7, <1>8, <1>9, <1>10, <1>11, <1>12, NextSplits
        DEF QuietStep, ServiceStep, WriteStep

\* the last table is left with all that it holds under the phased-out key put down: nothing else
\* leads to saveKeys() of the completed rotation
LEMMA CompletedIsCleanStep ==
  ASSUME TablesInv, KeysInv', CompletedIsClean, [Next]_vars
  PROVE  CompletedIsClean'
<1> SUFFICES ASSUME ~overlapped, ~overlapped',
                    NEW d \in Rotators, pc'[d] \in {"complete", "drop"}, NEW r \in Rows, Visited(r)
             PROVE  CleanRow(d, r)'
  BY HistoryGrows DEF CompletedIsClean, Visited
<1> USE DEF TablesInv, KeysInv
<1>1. leftBehind \subseteq leftBehind'
  BY HistoryGrows
<1>2. pc[d] \in {"complete", "drop"} => CleanRow(d, r)
  BY DEF CompletedIsClean
<1>3. CASE QuietStep
  BY <1>2, <1>3, QuietKeys, CleanRowsStay DEF InRotation
<1>4. ASSUME NEW c \in Rotators, LabelStep(c) PROVE CleanRow(d, r)'
  <2>1. UNCHANGED <<stored, op>>
    BY <1>4, LabelRows
  <2>2. ASSUME keys'[d] = keys[d], CleanRow(d, r) PROVE CleanRow(d, r)'
    BY <1>1, <2>1, <2>2 DEF CleanRow
  <2>3. ASSUME pc[d] \in {"complete", "drop"}, UNCHANGED keys PROVE CleanRow(d, r)'
    BY <1>2, <2>2, <2>3
  <2>4. ASSUME InRotation(c), d = c, Leaves(c), LastTable(c), UNCHANGED keys PROVE CleanRow(d, r)'
    <3>1. PICK i \in 1..Len(ENCRYPTED_TABLES) : TableOf[r] = ENCRYPTED_TABLES[i]
      BY DEF Visited
    <3>2. CASE i = table[c]
      BY <2>1, <2>4, <3>1, <3>2, TableIsClean
    <3>3. CASE i # table[c]
      <4>1. i \in 1..table[c] - 1
        BY <2>4, <3>3, Constants DEF LastTable, ConstantFacts
      <4>2. CleanRow(c, r)
        BY <2>4, <3>1, <4>1 DEF TablesBehindClean, CleanRow
      <4> QED BY <2>2, <2>4, <4>2
    <3> QED BY <3>2, <3>3
  <2>5. CASE TableDone(c)
    <3>1. (d = c /\ LastTable(c)) \/ pc[d] \in {"complete", "drop"}
      BY <2>5 DEF TableDone, Step, TypeOK
    <3>2. Leaves(c) /\ InRotation(c) /\ UNCHANGED keys
      BY <2>5 DEF TableDone, Step, InRotation
    <3> QED BY <2>3, <2>4, <3>1, <3>2
  <2>6. CASE AfterSleep(c)
    <3>1. (d = c /\ LastTable(c) /\ Leaves(c)) \/ pc[d] \in {"complete", "drop"}
      BY <2>6 DEF AfterSleep, Step, TypeOK
    <3>2. InRotation(c) /\ UNCHANGED keys
      BY <2>6 DEF AfterSleep, Step, InRotation
    <3> QED BY <2>3, <2>4, <3>1, <3>2
  <2>7. CASE ~TableDone(c) /\ ~AfterSleep(c)
    <3>1. pc[d] \in {"complete", "drop"}
      BY <1>4, <2>7 DEF LabelStep, Check, Resume, StartNew, NotDue, SaveSwapped, SwapKeys, EnterTable, FetchBatch,
           BatchEnds, SaveCompleted, DropPhasedOut, CallFails, Step, TypeOK
    <3>2. keys'[d] = keys[d]
      BY <1>4, <2>7, <3>1 DEF LabelStep, Check, Resume, StartNew, NotDue, SaveSwapped, SwapKeys, EnterTable,
           FetchBatch, BatchEnds, SaveCompleted, DropPhasedOut, CallFails, Step, TypeOK
    <3> QED BY <1>2, <2>2, <3>1, <3>2
  <2> QED BY <2>5, <2>6, <2>7
<1>5. CASE Crash
  BY <1>5 DEF Crash
<1>6. CASE UNCHANGED vars
  BY <1>1, <1>2, <1>6 DEF vars, callVars, storeVars, CleanRow
<1> QED BY <1>3, <1>4, <1>5, <1>6, NextSplits

\* a ciphertext that the memory opens and no rotation still has to go through
LEMMA OpensInFile ==
  ASSUME KeysInv, ~overlapped, NEW x \in Cipher, Opens(memory, x),
         \A c \in Rotators : pc[c] = "drop" => x.version # keys[c].phasedOutVersion
  PROVE  Opens(file, x)
<1> USE DEF KeysInv, KeysHeld, KeysAgree
<1>1. CASE \A c \in Rotators : pc[c] \notin {"swap", "drop"}
  BY <1>1
<1>2. ASSUME NEW c \in Rotators, pc[c] = "swap" PROVE Opens(file, x)
  <2>1. x.version = file.phasedOutVersion /\ x.key = file.phasedOut /\ file.phasedOut # NoKey
    BY <1>2 DEF Opens, isRotationInProgress
  <2>2. file.version # file.phasedOutVersion
    BY <1>2 DEF LettersDiffer
  <2> QED BY <2>1, <2>2 DEF Opens
<1>3. ASSUME NEW c \in Rotators, pc[c] = "drop" PROVE Opens(file, x)
  <2>1. file = Completed(memory) /\ x.version # memory.phasedOutVersion
    BY <1>3
  <2>2. x.version = memory.version /\ x.key = memory.current
    BY <2>1 DEF Opens
  <2>3. file.version = memory.version /\ file.current = memory.current
    BY <2>1 DEF Completed, TypeOK, KeyFile
  <2> QED BY <2>2, <2>3 DEF Opens
<1> QED BY <1>1, <1>2, <1>3

\* what all ciphertexts in use can be read with
LEMMA CiphersReadable ==
  ASSUME KeysInv, CompletedIsClean, ValuesKept, NEW r \in Rows
  PROVE  /\ stored[r] = Absent \/ Lost(r, stored[r]) \/ (Opens(file, stored[r]) /\ OpensNow(stored[r]))
         /\ op[r].step = "store" =>
              Lost(r, op[r]) \/ (Opens(file, CipherOf(op[r])) /\ OpensNow(CipherOf(op[r])))
<1>1. ASSUME NEW x \in Cipher, ~overlapped, Opens(memory, x),
             \A c \in Rotators : pc[c] = "drop" => x.version # keys[c].phasedOutVersion
      PROVE  Opens(file, x) /\ OpensNow(x)
  BY <1>1, OpensInFile, OpensInMemory DEF OpensNow, KeysInv
<1>2. ASSUME ~overlapped, TableOf[r] \in {ENCRYPTED_TABLES[i] : i \in 1..Len(ENCRYPTED_TABLES)}
      PROVE  \A c \in Rotators : pc[c] = "drop" => CleanRow(c, r)
  BY <1>2 DEF CompletedIsClean, Visited
<1>3. ASSUME stored[r] # Absent, ~Lost(r, stored[r]) PROVE Opens(file, stored[r]) /\ OpensNow(stored[r])
  <2>1. stored[r] \in Cipher /\ Opens(memory, stored[r])
    BY <1>3 DEF KeysInv, TypeOK, ValuesKept, StoredKept
  <2>2. \A c \in Rotators : pc[c] = "drop" => stored[r].version # keys[c].phasedOutVersion
    BY <1>2, <1>3 DEF Lost, CleanRow
  <2> QED BY <1>1, <1>3, <2>1, <2>2 DEF Lost
<1>4. ASSUME op[r].step = "store", ~Lost(r, op[r])
      PROVE  Opens(file, CipherOf(op[r])) /\ OpensNow(CipherOf(op[r]))
  <2>1. CipherOf(op[r]) \in Cipher /\ CipherOf(op[r]).version = op[r].version
    BY <1>4 DEF KeysInv, TypeOK, NoOp, Op, Cipher, CipherOf
  <2>2. \A c \in Rotators : pc[c] = "drop" => op[r].version # keys[c].phasedOutVersion
    BY <1>2, <1>4 DEF Lost, CleanRow
  <2>3. Opens(memory, CipherOf(op[r]))
    BY <1>4 DEF ValuesKept, PendingKept
  <2> QED BY <1>1, <1>4, <2>1, <2>2, <2>3 DEF Lost
<1> QED BY <1>3, <1>4

\* a value that is lost stays among the exceptions, from encrypt() to the row
LEMMA LostStaysLost ==
  ASSUME [Next]_vars, NEW r
  PROVE  /\ Lost(r, stored[r]) /\ stored'[r].key = stored[r].key => Lost(r, stored[r])'
         /\ Lost(r, op[r]) /\ op'[r].key = op[r].key => Lost(r, op[r])'
         /\ Lost(r, op[r]) /\ stored'[r].key = op[r].key => Lost(r, stored[r])'
  BY HistoryGrows DEF Lost

LEMMA ValuesKeptStep ==
  ASSUME KeysInv, BatchIsFresh, CompletedIsClean, ValuesKept, [Next]_vars
  PROVE  ValuesKept'
<1>1. ASSUME \A r \in Rows : stored'[r].plain = written'[r] /\ StoredKept(r)' /\ PendingKept(r)'
      PROVE  ValuesKept'
  BY <1>1 DEF ValuesKept
<1>2. CASE QuietStep
  <2> SUFFICES ASSUME NEW r \in Rows PROVE stored'[r].plain = written'[r] /\ StoredKept(r)' /\ PendingKept(r)'
    BY <1>1
  <2>1. RowChanges(r) /\ OpChanges(r) /\ memory' = memory
    BY <1>2, QuietRows, QuietKeys DEF KeysInv
  <2>2. r \in DOMAIN batch /\ r \notin touched => batch[r].plain = written[r]
    BY DEF BatchIsFresh, ValuesKept
  <2>3. stored'[r].plain = written'[r]
    BY <2>1, <2>2 DEF RowChanges, ValuesKept, CipherOf, Absent, Encrypt
  <2>4. StoredKept(r)'
    <3>1. CASE stored'[r] = stored[r]
      BY <2>1, <3>1, LostStaysLost DEF ValuesKept, StoredKept, PendingKept, Opens, CipherOf
    <3>2. CASE op[r].step = "store" /\ stored'[r] = CipherOf(op[r])
      <4>1. stored'[r].key = op[r].key
        BY <3>2 DEF CipherOf
      <4> QED BY <2>1, <3>2, <4>1, LostStaysLost DEF ValuesKept, StoredKept, PendingKept, Opens
    <3>3. CASE /\ stored'[r] = Encrypt(batch[r].plain)
               /\ stored'[r].key = memory.current \/ <<r, stored'[r].key>> \in mixed'
      <4>1. stored'[r].version = memory.version
        BY <3>3 DEF Encrypt
      <4> QED BY <2>1, <3>3, <4>1 DEF StoredKept, Lost, Opens
    <3>4. CASE stored'[r] = Absent
      BY <3>4 DEF StoredKept
    <3> QED BY <2>1, <3>1, <3>2, <3>3, <3>4 DEF RowChanges
  <2>5. PendingKept(r)'
    <3>1. CASE op'[r] = op[r]
      BY <2>1, <3>1, LostStaysLost DEF ValuesKept, StoredKept, PendingKept, Opens, CipherOf
    <3>2. CASE op'[r] # op[r]
      BY <2>1, <3>2 DEF OpChanges, PendingKept, Lost, CipherOf, Opens
    <3> QED BY <3>1, <3>2
  <2> QED BY <2>3, <2>4, <2>5
<1>3. ASSUME \A r \in Rows : /\ stored'[r] = stored[r] /\ written'[r] = written[r]
                             /\ op'[r] = op[r] \/ op'[r].step # "store",
             memory' \in {file, memory}
      PROVE  ValuesKept'
  <2> SUFFICES ASSUME NEW r \in Rows PROVE stored'[r].plain = written'[r] /\ StoredKept(r)' /\ PendingKept(r)'
    BY <1>1
  <2>1. stored'[r].plain = written'[r]
    BY <1>3 DEF ValuesKept
  <2>2. StoredKept(r)'
    <3>1. stored[r] = Absent \/ Lost(r, stored[r])' \/ Opens(memory', stored[r])
      <4>1. stored[r] = Absent \/ Lost(r, stored[r]) \/ (Opens(file, stored[r]) /\ Opens(memory, stored[r]))
        BY CiphersReadable DEF ValuesKept, StoredKept
      <4> QED BY <1>3, <4>1, LostStaysLost
    <3> QED BY <1>3, <3>1 DEF StoredKept, Opens
  <2>3. PendingKept(r)'
    <3>1. CASE op'[r] = op[r] /\ op[r].step = "store"
      <4>1. Lost(r, op[r]) \/ (Opens(file, CipherOf(op[r])) /\ Opens(memory, CipherOf(op[r])))
        BY <3>1, CiphersReadable DEF ValuesKept, PendingKept
      <4>2. Lost(r, op[r])' \/ Opens(memory', CipherOf(op[r]))
        BY <1>3, <3>1, <4>1, LostStaysLost
      <4> QED BY <3>1, <4>2 DEF PendingKept, Opens, CipherOf
    <3>2. CASE op'[r].step # "store"
      BY <3>2 DEF PendingKept
    <3> QED BY <1>3, <3>1, <3>2
  <2> QED BY <2>1, <2>2, <2>3
<1>4. ASSUME NEW c \in Rotators, LabelStep(c) PROVE ValuesKept'
  <2>1. UNCHANGED <<stored, written, op>>
    BY <1>4, LabelRows
  <2>2. CASE DropPhasedOut(c) /\ ~overlapped
    <3>1. pc[c] = "drop" /\ keys[c] = memory /\ memory' = Completed(memory)
      BY <2>2 DEF DropPhasedOut, Step, KeysInv, KeysHeld, KeysAgree
    <3>2. \A r \in Rows : Visited(r) => CleanRow(c, r)
      BY <2>2, <3>1 DEF CompletedIsClean
    <3>3. memory'.version = memory.version /\ memory'.current = memory.current
      BY <3>1 DEF Completed, KeysInv, TypeOK, KeyFile
    <3>4. \A x \in Cipher : Opens(memory, x) /\ x.version # keys[c].phasedOutVersion => Opens(memory', x)
      BY <3>1, <3>3 DEF Opens
    <3>5. ASSUME NEW r \in Rows PROVE StoredKept(r)'
      <4>1. stored[r] # Absent => stored[r] \in Cipher
        BY DEF KeysInv, TypeOK
      <4>2. Lost(r, stored[r]) \/ stored[r] = Absent \/ stored[r].version # keys[c].phasedOutVersion
        BY <3>2 DEF CleanRow, Lost, Visited
      <4> QED BY <2>1, <3>4, <4>1, <4>2, LostStaysLost DEF ValuesKept, StoredKept, PendingKept, CipherOf, Opens
    <3>6. ASSUME NEW r \in Rows PROVE PendingKept(r)'
      <4>1. op[r].step = "store" => CipherOf(op[r]) \in Cipher /\ CipherOf(op[r]).version = op[r].version
        BY DEF KeysInv, TypeOK, NoOp, Op, Cipher, CipherOf
      <4>2. op[r].step = "store" => Lost(r, op[r]) \/ op[r].version # keys[c].phasedOutVersion
        BY <3>2 DEF CleanRow, Lost, Visited
      <4> QED BY <2>1, <3>4, <4>1, <4>2, LostStaysLost DEF ValuesKept, StoredKept, PendingKept, CipherOf, Opens
    <3> QED BY <1>1, <2>1, <3>5, <3>6 DEF ValuesKept
  <2>3. CASE SwapKeys(c) /\ ~overlapped
    BY <1>3, <2>1, <2>3 DEF SwapKeys, Step, KeysInv, KeysHeld, KeysAgree
  <2>4. CASE overlapped
    <3>1. overlapped'
      BY <2>4, HistoryGrows
    <3> QED BY <1>1, <2>1, <3>1 DEF Lost, ValuesKept, StoredKept, PendingKept
  <2>5. CASE ~DropPhasedOut(c) /\ ~SwapKeys(c)
    BY <1>3, <1>4, <2>1, <2>5 DEF LabelStep, Check, Resume, StartNew, NotDue, SaveSwapped, EnterTable,
         FetchBatch, TableDone, BatchEnds, AfterSleep, SaveCompleted, CallFails
  <2> QED BY <2>2, <2>3, <2>4, <2>5
<1>5. CASE Crash
  BY <1>3, <1>5 DEF Crash, NoOp
<1>6. CASE UNCHANGED vars
  BY <1>3, <1>6 DEF vars, storeVars
<1> QED BY <1>2, <1>4, <1>5, <1>6, NextSplits

LEMMA ValuesInvariant == Spec => [](KeysInv /\ ValuesInv)
<1>1. Init => ValuesInv
  BY DEF Init, ValuesInv, BatchIsFresh, NoBatch, CompletedIsClean, ValuesKept, StoredKept, PendingKept, Absent, NoOp
<1>2. TablesInv /\ KeysInv' /\ ValuesInv /\ [Next]_vars => ValuesInv'
  BY BatchIsFreshStep, CompletedIsCleanStep, ValuesKeptStep DEF ValuesInv, TablesInv, KeysInv
<1>3. TablesInv => KeysInv
  BY DEF TablesInv
<1> QED BY <1>1, <1>2, <1>3, TablesInvariant, PTL DEF Spec

\* Rotation loses no value: every row holds what was last written to it, readable with the keys
\* in memory and with those of the key file, in every order of callers, batches, writes,
\* cancellations, failing calls and crashes, but for the four kinds of value that Lost names
\* and while an import that outlived updateKeys() is in use.
THEOREM NoValueIsLost == Spec => []ReadsLastWrite
<1>1. KeysInv /\ ValuesInv => ReadsLastWrite
  BY CiphersReadable DEF ValuesInv, ReadsLastWrite, ValuesKept
<1> QED BY <1>1, ValuesInvariant, PTL

\* A ciphertext that encrypt() has returned and nobody has stored yet stays readable as well,
\* through every change of keys, but for the same exceptions.
THEOREM PendingWritesStayReadable == Spec => []PendingReadable
<1>1. KeysInv /\ ValuesInv => PendingReadable
  BY CiphersReadable DEF ValuesInv, PendingReadable
<1> QED BY <1>1, ValuesInvariant, PTL

-----------------------------------------------------------------------------
(* Rotation implements the store without keys *)

LEMMA Markers ==
  ASSUME TypeOK, NEW r \in Rows
  PROVE  /\ stored[r].plain = "absent" <=> stored[r] = Absent
         /\ op[r].plain = "absent" <=> op[r] = NoOp
         /\ op[r].step = "store" => op[r].plain \in Values
  BY RowsAssumption DEF TypeOK, Cipher, Absent, Op, NoOp

\* nothing of what a caller sees: the plaintexts and the writes under way
LEMMA SameStore ==
  ASSUME \A r \in Rows : stored'[r].plain = stored[r].plain /\ op'[r].plain = op[r].plain
  PROVE  UNCHANGED PlainStore!storedVars
  BY DEF PlainStore!storedVars, PlainValues, PendingValues

\* a step that changes the plaintext or the write under way of one row
LEMMA OneRowStores ==
  ASSUME NEW r \in Rows, NEW v
  PROVE  /\ (op'[r].plain = v /\ \A x \in Rows : x # r => op'[x] = op[x])
              => PendingValues' = [PendingValues EXCEPT ![r] = v]
         /\ (stored'[r].plain = v /\ \A x \in Rows : x # r => stored'[x] = stored[x])
              => PlainValues' = [PlainValues EXCEPT ![r] = v]
<1>1. ASSUME op'[r].plain = v, \A x \in Rows : x # r => op'[x] = op[x]
      PROVE  PendingValues' = [PendingValues EXCEPT ![r] = v]
  <2>1. \A x \in Rows : op'[x].plain = IF x = r THEN v ELSE op[x].plain
    BY <1>1
  <2> QED BY <2>1, Zenon DEF PendingValues
<1>2. ASSUME stored'[r].plain = v, \A x \in Rows : x # r => stored'[x] = stored[x]
      PROVE  PlainValues' = [PlainValues EXCEPT ![r] = v]
  <2>1. \A x \in Rows : stored'[x].plain = IF x = r THEN v ELSE stored[x].plain
    BY <1>2
  <2> QED BY <2>1, Zenon DEF PlainValues
<1> QED BY <1>1, <1>2

\* A write begins, reaches the row, or deletes it.
LEMMA ServiceStores ==
  ASSUME TypeOK, NEW r \in Rows, ServiceStep(r)
  PROVE  PlainStore!StoreNext \/ UNCHANGED PlainStore!storedVars
<1> USE Markers
<1>1. ASSUME NEW x \in Rows, TableOf[x] = TableOf[r], ServiceIdle(r) PROVE PendingValues[x] = "absent"
  BY <1>1 DEF ServiceIdle, PendingValues
<1>2. ServiceIdle(r) => PlainStore!TableIdle(r)
  BY <1>1 DEF PlainStore!TableIdle, PlainStore!Nothing
<1>3. ASSUME NEW v \in Values, EncryptBegins(r, v) PROVE PlainStore!StoreNext
  <2>1. op'[r].plain = v /\ \A x \in Rows : x # r => op'[x] = op[x]
    BY <1>3 DEF EncryptBegins, TypeOK
  <2>2. PendingValues' = [PendingValues EXCEPT ![r] = v] /\ UNCHANGED PlainValues
    BY <1>3, <2>1, OneRowStores DEF EncryptBegins, PlainValues
  <2>3. PlainStore!BeginWrite(r, v)
    BY <1>2, <1>3, <2>2 DEF EncryptBegins, PlainStore!BeginWrite
  <2> QED BY <2>3 DEF PlainStore!StoreNext
<1>4. CASE ImportEnds(r) \/ EncryptEnds(r)
  <2>1. op[r] \in Op /\ UNCHANGED stored
    BY <1>4 DEF ImportEnds, EncryptEnds, TypeOK, NoOp
  <2>2. op'[r].plain = op[r].plain /\ \A x \in Rows : x # r => op'[x] = op[x]
    BY <1>4, <2>1 DEF ImportEnds, EncryptEnds, TypeOK, Op
  <2> QED BY <2>1, <2>2, SameStore
<1>5. CASE StoreValue(r)
  <2>1. op[r].plain \in Values
    BY <1>5 DEF StoreValue
  <2>2. /\ stored'[r] = CipherOf(op[r]) /\ op'[r] = NoOp
        /\ \A x \in Rows : x # r => op'[x] = op[x] /\ stored'[x] = stored[x]
    BY <1>5 DEF StoreValue, Put, TypeOK
  <2>3. PlainValues' = [PlainValues EXCEPT ![r] = PendingValues[r]]
    <3>1. stored'[r].plain = PendingValues[r]
      BY <2>2 DEF PendingValues, CipherOf
    <3> QED BY <2>2, <3>1, OneRowStores
  <2>4. PendingValues' = [PendingValues EXCEPT ![r] = "absent"]
    BY <2>2, OneRowStores DEF NoOp
  <2>5. PendingValues[r] # "absent"
    BY <2>1, RowsAssumption DEF PendingValues
  <2>6. PlainStore!CommitWrite(r)
    BY <2>3, <2>4, <2>5 DEF PlainStore!CommitWrite, PlainStore!Nothing
  <2> QED BY <2>6 DEF PlainStore!StoreNext
<1>6. CASE DeleteValue(r)
  <2>1. stored'[r] = Absent /\ UNCHANGED op /\ \A x \in Rows : x # r => stored'[x] = stored[x]
    BY <1>6 DEF DeleteValue, Put, TypeOK
  <2>2. PlainValues' = [PlainValues EXCEPT ![r] = "absent"] /\ UNCHANGED PendingValues
    <3>1. stored'[r].plain = "absent"
      BY <2>1 DEF Absent
    <3> QED BY <2>1, <3>1, OneRowStores DEF PendingValues
  <2>3. PlainValues[r] # "absent"
    BY <1>6 DEF DeleteValue, PlainValues
  <2>4. PlainStore!Delete(r)
    BY <1>2, <1>6, <2>2, <2>3 DEF DeleteValue, PlainStore!Delete, PlainStore!Nothing
  <2> QED BY <2>4 DEF PlainStore!StoreNext
<1> QED BY <1>3, <1>4, <1>5, <1>6 DEF ServiceStep, WriteStep

\* Every step is one of the store, or none of it: a batch writes back the plaintext that the
\* row still has.
LEMMA StoreStep ==
  ASSUME TypeOK, BatchIsFresh, [Next]_vars
  PROVE  [PlainStore!StoreNext]_(PlainStore!storedVars)
<1>1. ASSUME UNCHANGED <<stored, op>> PROVE UNCHANGED PlainStore!storedVars
  BY <1>1, SameStore
<1>2. ASSUME NEW c \in Rotators, Reencrypt(c) PROVE UNCHANGED PlainStore!storedVars
  <2>1. PICK r \in DOMAIN batch :
          IF Opens(InMemory, batch[r]) /\ r \notin touched
          THEN stored' = [stored EXCEPT ![r] = Encrypt(batch[r].plain)]
          ELSE UNCHANGED stored
    BY <1>2 DEF Reencrypt
  <2>2. r \notin touched => stored[r].plain = batch[r].plain
    BY DEF BatchIsFresh
  <2>3. \A x \in Rows : stored'[x].plain = stored[x].plain
    BY <2>1, <2>2 DEF Encrypt, TypeOK
  <2> QED BY <1>2, <2>3, SameStore DEF Reencrypt
<1>3. ASSUME NEW c \in Rotators, UpdateFails(c) \/ Cancel(c) PROVE UNCHANGED PlainStore!storedVars
  BY <1>1, <1>3 DEF UpdateFails, Cancel, storeVars
<1>4. ASSUME NEW c \in Rotators, LabelStep(c) PROVE UNCHANGED PlainStore!storedVars
  BY <1>1, <1>4, LabelRows
<1>5. CASE DecryptBegins \/ DecryptImports
  BY <1>1, <1>5 DEF DecryptBegins, DecryptImports, storeVars
<1>6. CASE Crash
  <2>1. UNCHANGED PlainValues /\ PendingValues' = [r \in Rows |-> "absent"]
    BY <1>6 DEF Crash, PlainValues, PendingValues, NoOp
  <2> QED BY <2>1 DEF PlainStore!StoreNext, PlainStore!Restart, PlainStore!Nothing
<1>7. CASE UNCHANGED vars
  BY <1>1, <1>7 DEF vars, storeVars
<1> QED BY <1>2, <1>3, <1>4, <1>5, <1>6, <1>7, ServiceStores, NextSplits DEF QuietStep

LEMMA StoreStart == Init => PlainStore!StoreInit
  BY DEF Init, PlainStore!StoreInit, PlainStore!Nothing, PlainValues, PendingValues, Absent, NoOp

\* Rotation never undoes a write, never brings a deleted value back and never mixes up two rows:
\* for any number of callers, with cancellations, slow operations, failing calls and crashes,
\* the plaintexts behind the ciphertexts are changed by the services' own writes only
\* (reencryptBatch, "WHERE updatedAt = $oldUpdatedAt").
THEOREM PlaintextsSurviveRotation == Spec => PlaintextsSurvive
<1>1. Init => TypeOK /\ BatchIsFresh
  BY TypeInit DEF Init, BatchIsFresh, NoBatch
<1>2. TypeOK /\ BatchIsFresh /\ [Next]_vars => (TypeOK /\ BatchIsFresh)'
  BY TypeStep, BatchIsFreshStep
<1>3. TypeOK /\ BatchIsFresh /\ [Next]_vars => [PlainStore!StoreNext]_(PlainStore!storedVars)
  BY StoreStep
<1> QED BY <1>1, <1>2, <1>3, StoreStart, PTL DEF Spec, PlaintextsSurvive, PlainStore!StoreSpec

\* A reader is given the plaintexts, or it is one of the exceptions.
LEMMA ReadersSeePlaintexts == ReadsLastWrite => ReadValues = PlainValues
<1>1. \A r \in Rows : OpensNow(stored[r]) => Readable(r) \/ CacheStale
  BY DEF OpensNow, Readable
<1>2. \A r \in Rows : stored[r] = Absent => Readable(r)
  BY DEF Readable
<1> QED BY <1>1, <1>2 DEF ReadsLastWrite, ReadValues, PlainValues

\* A rotation is invisible to those who read and write values: in every state they are given
\* what the store without keys would give them, while keys change, batches are rewritten,
\* calls overlap, fail or are cancelled and the process crashes.  ReadValues counts what Lost
\* and CacheStale name, and nothing else, as given.
THEOREM RotationIsInvisible == Spec => ReadersSeeStore
<1> DEFINE Inv == TypeOK /\ BatchIsFresh /\ ReadValues = PlainValues
<1>1. KeysInv /\ ValuesInv => Inv
  BY CiphersReadable, ReadersSeePlaintexts DEF KeysInv, ValuesInv, ReadsLastWrite, ValuesKept
<1>2. Init /\ Inv => ReadStore!StoreInit
  BY StoreStart
     DEF PlainStore!StoreInit, ReadStore!StoreInit, PlainStore!Nothing, ReadStore!Nothing
<1>3. Inv /\ Inv' /\ [Next]_vars => [ReadStore!StoreNext]_(ReadStore!storedVars)
  <2> SUFFICES ASSUME Inv, Inv', [Next]_vars PROVE [ReadStore!StoreNext]_(ReadStore!storedVars)
    OBVIOUS
  <2>1. ReadValues = PlainValues /\ ReadValues' = PlainValues'
    OBVIOUS
  <2>2. [PlainStore!StoreNext]_(PlainStore!storedVars)
    BY StoreStep
  <2> QED BY <2>1, <2>2
          DEF PlainStore!StoreNext, PlainStore!BeginWrite, PlainStore!CommitWrite, PlainStore!Delete,
              PlainStore!Restart, PlainStore!TableIdle, PlainStore!Nothing, PlainStore!storedVars,
              ReadStore!StoreNext, ReadStore!BeginWrite, ReadStore!CommitWrite, ReadStore!Delete,
              ReadStore!Restart, ReadStore!TableIdle, ReadStore!Nothing, ReadStore!storedVars
<1> QED BY <1>1, <1>2, <1>3, ValuesInvariant, PTL DEF Spec, ReadersSeeStore, ReadStore!StoreSpec
=============================================================================
