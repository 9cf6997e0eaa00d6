----------------------------- MODULE ValueStore -----------------------------
(***************************************************************************)
(* What SecretsService, ApiKeyService and the other owners of encrypted    *)
(* values promise, whatever happens to the keys meanwhile: a value changes *)
(* only because a caller wrote or deleted it, all at once, and one write   *)
(* per table is under way (writeMutex).  There is no key and no rotation   *)
(* here; a restart forgets the writes that have not reached the database.  *)
(***************************************************************************)
CONSTANTS
  Rows,     \* places for values
  TableOf,  \* the table of each
  Values

VARIABLES
  value,    \* what a reader of the row is given
  pending   \* the value that a caller is writing into the row

storedVars == <<value, pending>>

Nothing == "absent"

StoreInit == value = [r \in Rows |-> Nothing] /\ pending = [r \in Rows |-> Nothing]

\* the writeMutex is free
TableIdle(r) == \A x \in Rows : TableOf[x] = TableOf[r] => pending[x] = Nothing

\* a create or an update takes the mutex and encrypts
BeginWrite(r, v) ==
  /\ TableIdle(r)
  /\ pending' = [pending EXCEPT ![r] = v] /\ UNCHANGED value

\* ... and reaches the database
CommitWrite(r) ==
  /\ pending[r] # Nothing
  /\ value' = [value EXCEPT ![r] = pending[r]] /\ pending' = [pending EXCEPT ![r] = Nothing]

Delete(r) ==
  /\ TableIdle(r) /\ value[r] # Nothing
  /\ value' = [value EXCEPT ![r] = Nothing] /\ UNCHANGED pending

\* the process dies and is started again
Restart == pending' = [r \in Rows |-> Nothing] /\ UNCHANGED value

StoreNext ==
  \/ \E r \in Rows : CommitWrite(r) \/ Delete(r) \/ \E v \in Values : BeginWrite(r, v)
  \/ Restart

StoreSpec == StoreInit /\ [][StoreNext]_storedVars
=============================================================================
