------------------------------ MODULE Startup ------------------------------
(***************************************************************************)
(* The start of the program up to its first request: migrate() of          *)
(* SurrealMigrationService against the events of the table schemaVersion,  *)
(* which guard what a migration may register, and the error state that     *)
(* main.ts keeps when it goes on after a failed migration.                 *)
(***************************************************************************)
EXTENDS Integers, Sequences, FiniteSets, SequencesExt

CONSTANT Versions  \* bound: migrations that releases ship

ASSUME StartupAssumption == Versions \subseteq Nat

NoVersion == -1

VARIABLES
  history,         \* the records of schemaVersion, in the order of their creation
  files,           \* the migrations in the directory
  boot,            \* where main.ts is, and the pending migrations
  migrationError   \* errorStateService.hasErrors()

startupVars == <<history, files, boot, migrationError>>

StartupTypeOK ==
  /\ history \in Seq(Versions) /\ files \subseteq Versions /\ migrationError \in BOOLEAN
  /\ boot \in [phase : {"down", "connected", "migrating", "serving"}, pending : SUBSET Versions]

StartupInit ==
  /\ history = <<>> /\ files = {} /\ migrationError = FALSE
  /\ boot = [phase |-> "down", pending |-> {}]

\* schemaVersion:current, which every record that is created moves
CurrentVersion == IF history = <<>> THEN NoVersion ELSE Last(history)

Ships(v) ==
  /\ boot.phase = "down" /\ files' = files \cup {v}
  /\ UNCHANGED <<history, boot, migrationError>>

\* mutant of Rejected: the record is created whatever is there
NeverRejected(v) == FALSE

\* the events of schemaVersion: a version is new, and higher than the current one
Rejected(v) == \E i \in DOMAIN history : history[i] >= v

\* keys, process and connection first; any failure is kept as a migration error
BootBegins ==
  /\ boot.phase = "down"
  /\ \/ boot' = [boot EXCEPT !.phase = "connected"] /\ UNCHANGED migrationError
     \/ boot' = [boot EXCEPT !.phase = "serving"] /\ migrationError' = TRUE
  /\ UNCHANGED <<history, files>>

\* getCurrentVersion(), for which a failed query means that nothing was applied yet
ReadsVersion ==
  /\ boot.phase = "connected"
  /\ \E version \in {CurrentVersion, NoVersion} :
       LET above == {v \in files : v > version}
       IN boot' = [phase |-> IF above = {} THEN "serving" ELSE "migrating",
                   pending |-> above]
  /\ UNCHANGED <<history, files, migrationError>>

\* the pending migrations are applied in the order of their versions
IsNext(v) == v \in boot.pending /\ \A w \in boot.pending : v <= w

\* applyMigration(): one transaction, with the record of its version
Applies(v) ==
  /\ boot.phase = "migrating" /\ IsNext(v) /\ ~Rejected(v)
  /\ history' = Append(history, v)
  /\ boot' = [phase |-> IF boot.pending = {v} THEN "serving" ELSE "migrating",
              pending |-> boot.pending \ {v}]
  /\ UNCHANGED <<files, migrationError>>

\* the transaction is rejected or fails, or its answer is lost after the commit
ApplyFails(v) ==
  /\ boot.phase = "migrating" /\ IsNext(v)
  /\ history' = history \/ (~Rejected(v) /\ history' = Append(history, v))
  /\ boot' = [phase |-> "serving", pending |-> {}] /\ migrationError' = TRUE
  /\ UNCHANGED files

ProcessEnds ==
  /\ boot.phase # "down"
  /\ boot' = [phase |-> "down", pending |-> {}] /\ migrationError' = FALSE
  /\ UNCHANGED <<history, files>>

StartupNext ==
  \/ \E v \in Versions : Ships(v) \/ Applies(v) \/ ApplyFails(v)
  \/ BootBegins \/ ReadsVersion \/ ProcessEnds

StartupSpec == StartupInit /\ [][StartupNext]_startupVars

-----------------------------------------------------------------------------
\* No migration is applied twice or after a later one, over crashes, lost answers and a
\* version that could not be read, after which migrate() begins again with the first file.
MigrationsOnceInOrder == \A i, j \in DOMAIN history : i < j => history[i] < history[j]
=============================================================================
