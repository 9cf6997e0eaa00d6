------------------------- MODULE JobProcessorProofs -------------------------
(***************************************************************************)
(* Theorems about JobProcessor, for every number of jobs, processes and    *)
(* failing database calls, every set of inputs and both settings of the    *)
(* switches: types, the inductive invariant of the recovery of orphans     *)
(* beside the loop, the clients and crashes, and the refinement.           *)
(***************************************************************************)
EXTENDS JobProcessor, TLAPS

ConstantFacts ==
  /\ MaxJobs \in Nat \ {0} /\ MaxInstances \in Nat \ {0}
  /\ MaxConsecutiveFailures \in Nat \ {0} /\ MaxDbErrors \in Nat
  /\ PayloadEncryption \in BOOLEAN /\ StopTimeout \in BOOLEAN
  /\ NewJobs # {}
  /\ \A t \in NewJobs : t.mode \in Modes /\ t.priority \in Int /\ t.maxRetries \in Nat

LEMMA Constants == ConstantFacts
  BY MaxJobsAssumption, NewJobsAssumption, MaxInstancesAssumption,
     MaxConsecutiveFailuresAssumption, MaxDbErrorsAssumption, SwitchesAssumption
     DEF ConstantFacts

-----------------------------------------------------------------------------
(* Type correctness *)

\* the part of TypeOK about the loop's control, and the part about its work
CtlTypeOK ==
  /\ pc \in {"idle", "fetch", "drained"} \cup Working
  /\ launcher \in {"boot", "timer", "wakeup"}
  /\ wakeup \in BOOLEAN /\ timer \in BOOLEAN
  /\ failures \in 0..MaxConsecutiveFailures
  /\ boot \in {"orphans", "recover", "failing", "looping", "done", "failed"}

WorkTypeOK ==
  /\ current \in JobId \cup {NoJob}
  /\ token \in BOOLEAN /\ attached \in BOOLEAN
  /\ runs \in [JobId -> Nat]

\* processJob() has a job
BusyOK == pc \in Working => current \in JobId

LifeTypeOK ==
  /\ instance \in 1..MaxInstances
  /\ orphans \in SUBSET JobId
  /\ stop \in {"no", "waiting", "stopped"}
  /\ dbErrors \in 0..MaxDbErrors

LEMMA TypeParts == TypeOK <=> QueueTypeOK /\ CtlTypeOK /\ WorkTypeOK /\ BusyOK /\ LifeTypeOK
  BY DEF TypeOK, CtlTypeOK, WorkTypeOK, BusyOK, LifeTypeOK

LEMMA TypePartsNext == TypeOK' <=> QueueTypeOK' /\ CtlTypeOK' /\ WorkTypeOK' /\ BusyOK' /\ LifeTypeOK'
  BY DEF TypeOK, CtlTypeOK, WorkTypeOK, BusyOK, LifeTypeOK

\* Whatever ends or starts a run of processLoop() leaves its control well-typed.
LEMMA CtlTypes ==
  ASSUME CtlTypeOK
  PROVE  /\ \A who \in {"boot", "timer", "wakeup"} :
              (LoopReturns(who) /\ UNCHANGED <<launcher, wakeup>>) => CtlTypeOK'
         /\ \A who \in {"boot", "timer", "wakeup"} : LoopStarts(who) => CtlTypeOK'
         /\ LoopDies => CtlTypeOK'
         /\ Wakeup => CtlTypeOK'
         /\ \A label \in {"idle", "fetch", "drained"} \cup Working : GoTo(label) => CtlTypeOK'
         /\ UNCHANGED ctlVars => CtlTypeOK'
<1> USE DEF ConstantFacts, CtlTypeOK
<1>1. \A who \in {"boot", "timer", "wakeup"} :
        (LoopReturns(who) /\ UNCHANGED <<launcher, wakeup>>) => CtlTypeOK'
  <2> SUFFICES ASSUME NEW who \in {"boot", "timer", "wakeup"},
                      LoopReturns(who), UNCHANGED <<launcher, wakeup>> PROVE CtlTypeOK'
    OBVIOUS
  <2>1. timer' \in BOOLEAN
    BY Zenon DEF LoopReturns, stopRequested
  <2> QED BY <2>1, Constants DEF LoopReturns
<1>2. \A who \in {"boot", "timer", "wakeup"} : LoopStarts(who) => CtlTypeOK'
  <2> SUFFICES ASSUME NEW who \in {"boot", "timer", "wakeup"}, LoopStarts(who)
               PROVE CtlTypeOK'
    OBVIOUS
  <2>1. CASE stopRequested
    <3>1. timer' \in BOOLEAN
      BY <2>1, Zenon DEF LoopStarts, LoopReturns
    <3>2. /\ launcher' = who /\ wakeup' = FALSE /\ pc' = "idle" /\ failures' = 0
          /\ boot' = (IF who = "boot" THEN "done" ELSE boot)
      BY <2>1, Zenon DEF LoopStarts, LoopReturns
    <3>3. 0 \in 0..MaxConsecutiveFailures
      BY Constants
    <3> QED BY <3>1, <3>2, <3>3
  <2>2. CASE ~stopRequested
    <3>1. /\ launcher' = who /\ wakeup' = FALSE /\ pc' = "fetch"
          /\ boot' = (IF who = "boot" THEN "looping" ELSE boot)
          /\ UNCHANGED <<failures, timer>>
      BY <2>2, Zenon DEF LoopStarts
    <3> QED BY <3>1
  <2> QED BY <2>1, <2>2
<1>3. LoopDies => CtlTypeOK'
  <2> SUFFICES ASSUME LoopDies PROVE CtlTypeOK'
    OBVIOUS
  <2>1. timer' \in BOOLEAN
    BY Zenon DEF LoopDies
  <2> QED BY <2>1, Constants DEF LoopDies
<1>4. UNCHANGED ctlVars => CtlTypeOK'
  BY DEF ctlVars
<1>5. Wakeup => CtlTypeOK'
  <2> SUFFICES ASSUME Wakeup PROVE CtlTypeOK'
    OBVIOUS
  <2>1. \/ UNCHANGED ctlVars
        \/ LoopStarts("wakeup")
        \/ wakeup' = TRUE /\ UNCHANGED <<pc, launcher, failures, timer, boot>>
    BY Zenon DEF Wakeup
  <2>2. LoopStarts("wakeup") => CtlTypeOK'
    BY <1>2
  <2>3. (wakeup' = TRUE /\ UNCHANGED <<pc, launcher, failures, timer, boot>>) => CtlTypeOK'
    OBVIOUS
  <2> QED BY <1>4, <2>1, <2>2, <2>3
<1>6. \A label \in {"idle", "fetch", "drained"} \cup Working : GoTo(label) => CtlTypeOK'
  BY DEF GoTo
<1> QED BY <1>1, <1>2, <1>3, <1>4, <1>5, <1>6

\* The writes of JobQueueService keep the table and the mutex well-typed.
LEMMA QueueTypes ==
  ASSUME QueueTypeOK
  PROVE  /\ UNCHANGED queueVars => QueueTypeOK'
         /\ \A t \in NewJobs : Enqueue(t) => QueueTypeOK'
         /\ \A j \in JobId, self \in Nat : ClaimRow(j, self) => QueueTypeOK'
         /\ \A j \in JobId, outcome \in Terminal, caller \in {"client", "loop", "boot"},
              rest \in SUBSET JobId :
              Settle(j, outcome, caller, rest) => QueueTypeOK'
         /\ Announce => QueueTypeOK'
         /\ DeleteRow => QueueTypeOK'
         /\ \A j \in JobId : ResetRow(j) => QueueTypeOK'
         /\ \A j \in JobId, rest \in SUBSET JobId : MarkCancelled(j, rest) => QueueTypeOK'
         /\ \A ref : StartBulkCancel(ref) => QueueTypeOK'
<1> USE DEF ConstantFacts, QueueTypeOK, JobId, NoJob, rowVars, queueVars
<1>1. UNCHANGED queueVars => QueueTypeOK'
  OBVIOUS
<1>2. \A t \in NewJobs : Enqueue(t) => QueueTypeOK'
  BY Constants DEF Enqueue, Active
<1>3. \A j \in JobId, self \in Nat : ClaimRow(j, self) => QueueTypeOK'
  BY Constants DEF ClaimRow, Active
<1>4. \A j \in JobId, outcome \in Terminal, caller \in {"client", "loop", "boot"},
        rest \in SUBSET JobId : Settle(j, outcome, caller, rest) => QueueTypeOK'
  BY Constants DEF Settle
<1>5. Announce => QueueTypeOK'
  <2> SUFFICES ASSUME Announce PROVE QueueTypeOK'
    OBVIOUS
  <2>1. mutex' = [stage |-> "notified", job |-> mutex.job, by |-> mutex.by,
                  todo |-> mutex.todo]
    BY DEF Announce
  <2> QED BY <2>1 DEF Announce
<1>6. DeleteRow => QueueTypeOK'
  BY Constants DEF DeleteRow, AfterDelete, Free
<1>7. \A j \in JobId : ResetRow(j) => QueueTypeOK'
  BY Constants DEF ResetRow, Active
<1>8. \A j \in JobId, rest \in SUBSET JobId : MarkCancelled(j, rest) => QueueTypeOK'
  <2> SUFFICES ASSUME NEW j \in JobId, NEW rest \in SUBSET JobId, MarkCancelled(j, rest)
               PROVE QueueTypeOK'
    OBVIOUS
  <2>1. mutex' \in {Free, [stage |-> mutex.stage, job |-> mutex.job, by |-> mutex.by,
                          todo |-> rest]}
    BY DEF MarkCancelled
  <2> QED BY <2>1 DEF MarkCancelled, Free
<1>9. \A ref : StartBulkCancel(ref) => QueueTypeOK'
  BY Constants DEF StartBulkCancel, SelectForCancel
<1> QED BY <1>1, <1>2, <1>3, <1>4, <1>5, <1>6, <1>7, <1>8, <1>9

\* Work and life cycle: what each kind of step does to them.
LEMMA WorkTypes ==
  ASSUME WorkTypeOK
  PROVE  /\ UNCHANGED workVars => WorkTypeOK'
         /\ ProcessJobEnds => WorkTypeOK'
         /\ HandlerStarts => WorkTypeOK'
         /\ \A j : NotifyCancellation(j) => WorkTypeOK'
<1> USE DEF WorkTypeOK, workVars
<1>1. UNCHANGED workVars => WorkTypeOK'
  OBVIOUS
<1>2. ProcessJobEnds => WorkTypeOK'
  BY DEF ProcessJobEnds
<1>3. HandlerStarts => WorkTypeOK'
  <2> SUFFICES ASSUME HandlerStarts PROVE WorkTypeOK'
    OBVIOUS
  <2>1. runs' \in [JobId -> Nat]
    <3>1. CASE current \in JobId
      BY <3>1 DEF HandlerStarts
    <3>2. CASE current \notin JobId
      BY <3>2 DEF HandlerStarts
    <3> QED BY <3>1, <3>2
  <2> QED BY <2>1 DEF HandlerStarts
<1>4. \A j : NotifyCancellation(j) => WorkTypeOK'
  <2> SUFFICES ASSUME NEW j, NotifyCancellation(j) PROVE WorkTypeOK'
    OBVIOUS
  <2>1. token' \in BOOLEAN
    BY Zenon DEF NotifyCancellation
  <2> QED BY <2>1 DEF NotifyCancellation
<1> QED BY <1>1, <1>2, <1>3, <1>4

\* A run of the loop begins and ends without a job.
LEMMA Busy ==
  ASSUME BusyOK
  PROVE  /\ \A who : LoopReturns(who) => BusyOK'
         /\ \A who : LoopStarts(who) => BusyOK'
         /\ LoopDies => BusyOK'
         /\ (Wakeup /\ UNCHANGED current) => BusyOK'
         /\ (UNCHANGED <<pc, current>>) => BusyOK'
         /\ \A label : (GoTo(label) /\ (label \in Working => current' \in JobId)) => BusyOK'
<1> USE DEF BusyOK, Working, Settling
<1>1. \A who : LoopReturns(who) => BusyOK'
  BY DEF LoopReturns
<1>2. \A who : LoopStarts(who) => BusyOK'
  BY <1>1, Zenon DEF LoopStarts
<1>3. LoopDies => BusyOK'
  BY DEF LoopDies
<1>4. (UNCHANGED <<pc, current>>) => BusyOK'
  OBVIOUS
<1>5. (Wakeup /\ UNCHANGED current) => BusyOK'
  BY <1>2, <1>4 DEF Wakeup, ctlVars
<1>6. \A label : (GoTo(label) /\ (label \in Working => current' \in JobId)) => BusyOK'
  BY DEF GoTo
<1> QED BY <1>1, <1>2, <1>3, <1>4, <1>5, <1>6

LEMMA RaiseTypes ==
  ASSUME CtlTypeOK, WorkTypeOK, BusyOK, Raise PROVE CtlTypeOK' /\ WorkTypeOK' /\ BusyOK'
<1>1. CASE LoopDies /\ ProcessJobEnds
  BY <1>1, CtlTypes, WorkTypes, Busy
<1>2. CASE /\ pc \in {"precheck", "claim", "complete", "cancel"}
           /\ GoTo("fail") /\ UNCHANGED workVars
  <2>1. "fail" \in Working /\ pc \in Working /\ UNCHANGED current
    BY <1>2 DEF Working, Settling, workVars
  <2> QED BY <1>2, <2>1, CtlTypes, WorkTypes, Busy DEF BusyOK
<1> QED BY <1>1, <1>2, Zenon DEF Raise

LEMMA LifeTypes ==
  ASSUME LifeTypeOK, UNCHANGED lifeVars PROVE LifeTypeOK'
  BY DEF LifeTypeOK, lifeVars

LEMMA Parts ==
  ASSUME TypeOK PROVE QueueTypeOK /\ CtlTypeOK /\ WorkTypeOK /\ BusyOK /\ LifeTypeOK
  BY TypeParts

LEMMA LoopStepTypes ==
  ASSUME TypeOK, LoopStep PROVE TypeOK'
<1> QueueTypeOK /\ CtlTypeOK /\ WorkTypeOK /\ BusyOK /\ LifeTypeOK
  BY Parts
<1> SUFFICES QueueTypeOK' /\ CtlTypeOK' /\ WorkTypeOK' /\ BusyOK' /\ LifeTypeOK'
  BY TypePartsNext
<1> Working = {"complete", "cancel", "abort", "fail", "precheck", "claim", "attach", "handler"}
  BY DEF Working, Settling
<1> HIDE DEF Working
<1> USE CtlTypes, QueueTypes, WorkTypes, LifeTypes, Busy
<1>1. CASE LoopStops
  BY <1>1 DEF LoopStops, CtlTypeOK
<1>2. CASE FetchJob
  <2> PICK j \in First(Eligible) :
        /\ current' = j
        /\ GoTo(IF columns[j].type \in HandledTypes THEN "precheck" ELSE "fail")
    BY <1>2 DEF FetchJob
  <2>1. j \in JobId
    BY DEF First, Eligible
  <2>2. CtlTypeOK' /\ BusyOK'
    BY <2>1 DEF BusyOK
  <2>3. WorkTypeOK'
    BY <1>2, <2>1 DEF FetchJob, WorkTypeOK
  <2> QED BY <1>2, <2>2, <2>3 DEF FetchJob
<1>3. CASE FetchNothing
  BY <1>3 DEF FetchNothing
<1>4. CASE Drained
  BY <1>4 DEF Drained, CtlTypeOK, BusyOK
<1>5. CASE Precheck
  BY <1>5 DEF Precheck, workVars, BusyOK
<1>6. CASE Claim
  <2>1. current \in JobId /\ instance \in Nat
    BY <1>6 DEF Claim, BusyOK, LifeTypeOK
  <2>2. QueueTypeOK' /\ LifeTypeOK'
    BY <1>6, <2>1 DEF Claim
  <2>3. CASE GoTo("attach") /\ UNCHANGED workVars
    BY <2>1, <2>2, <2>3 DEF workVars
  <2>4. CASE GoTo("handler") /\ HandlerStarts
    BY <2>1, <2>2, <2>4 DEF HandlerStarts
  <2> QED BY <1>6, <2>3, <2>4, Zenon DEF Claim
<1>7. CASE Attach
  BY <1>7 DEF Attach, HandlerStarts, BusyOK
<1>8. CASE ClaimFindsNoRow
  BY <1>8, RaiseTypes DEF ClaimFindsNoRow
<1>9. CASE ClaimLost
  BY <1>9 DEF ClaimLost
<1>10. CASE HandlerReturns
  BY <1>10 DEF HandlerReturns, workVars, BusyOK
<1>11. CASE HandlerAborts
  BY <1>11 DEF HandlerAborts, workVars, BusyOK
<1>12. CASE HandlerFails
  BY <1>12 DEF HandlerFails, workVars, BusyOK
<1>13. CASE LoopSettles
  <2>1. current \in JobId /\ Outcome \in Terminal
    BY <1>13 DEF LoopSettles, BusyOK, Outcome, Terminal, Settling
  <2>2. QueueTypeOK'
    BY <1>13, <2>1 DEF LoopSettles
  <2> QED BY <1>13, <2>2 DEF LoopSettles, ctlVars, workVars
<1>14. CASE LoopFindsNoRow
  BY <1>14, RaiseTypes DEF LoopFindsNoRow
<1>15. CASE LoopDeletes
  BY <1>15 DEF LoopDeletes
<1> QED
  BY <1>1, <1>2, <1>3, <1>4, <1>5, <1>6, <1>7, <1>8, <1>9, <1>10, <1>11, <1>12,
     <1>13, <1>14, <1>15 DEF LoopStep
LEMMA BootStepTypes ==
  ASSUME TypeOK, BootStep PROVE TypeOK'
<1> QueueTypeOK /\ CtlTypeOK /\ WorkTypeOK /\ BusyOK /\ LifeTypeOK
  BY Parts
<1> SUFFICES QueueTypeOK' /\ CtlTypeOK' /\ WorkTypeOK' /\ BusyOK' /\ LifeTypeOK'
  BY TypePartsNext
<1> USE CtlTypes, QueueTypes, WorkTypes, LifeTypes, Busy
<1>1. CASE BootFindsOrphans
  <2>1. OrphansOf(instance) \in SUBSET JobId
    BY DEF OrphansOf
  <2> QED
    BY <1>1, <2>1 DEF BootFindsOrphans, CtlTypeOK, LifeTypeOK, workVars
<1>2. CASE BootResets
  <2> PICK j \in First(orphans) : ResetRow(j) /\ orphans' = orphans \ {j}
    BY <1>2 DEF BootResets
  <2>1. j \in JobId
    BY DEF First, LifeTypeOK
  <2>2. LifeTypeOK'
    BY <1>2 DEF BootResets, LifeTypeOK
  <2> QED BY <1>2, <2>1, <2>2 DEF BootResets, ctlVars, workVars
<1>3. CASE BootGivesUp
  BY <1>3 DEF BootGivesUp, CtlTypeOK, workVars
<1>4. CASE BootSettles
  <2> PICK j \in First(orphans) : Settle(j, "failed", "boot", {})
    BY <1>4 DEF BootSettles
  <2>1. j \in JobId /\ "failed" \in Terminal
    BY DEF First, LifeTypeOK, Terminal
  <2>2. QueueTypeOK'
    BY <2>1
  <2> QED BY <1>4, <2>2 DEF BootSettles, ctlVars, workVars
<1>5. CASE BootDeletes
  <2>1. LifeTypeOK'
    BY <1>5 DEF BootDeletes, LifeTypeOK
  <2> QED BY <1>5, <2>1 DEF BootDeletes, CtlTypeOK, workVars
<1>6. CASE BootLaunches
  <2>1. LifeTypeOK'
    BY <1>6 DEF BootLaunches, LifeTypeOK
  <2>2. CASE LoopStarts("boot")
    BY <1>6, <2>1, <2>2 DEF BootLaunches
  <2>3. CASE /\ failures' = 0 /\ timer' = ~stopRequested /\ boot' = "done"
             /\ UNCHANGED <<pc, launcher, wakeup>>
    <3>1. timer' \in BOOLEAN
      BY <2>3, Zenon DEF stopRequested
    <3>2. 0 \in 0..MaxConsecutiveFailures
      BY Constants DEF ConstantFacts
    <3>3. failures' = 0 /\ boot' = "done" /\ UNCHANGED <<pc, launcher, wakeup>>
      BY <2>3
    <3>4. CtlTypeOK'
      BY <3>1, <3>2, <3>3 DEF CtlTypeOK
    <3> QED BY <1>6, <2>1, <3>3, <3>4 DEF BootLaunches, workVars
  <2> QED BY <1>6, <2>2, <2>3, Zenon DEF BootLaunches
<1> QED BY <1>1, <1>2, <1>3, <1>4, <1>5, <1>6 DEF BootStep

LEMMA QueueStepTypes ==
  ASSUME TypeOK, QueueStep PROVE TypeOK'
<1> QueueTypeOK /\ CtlTypeOK /\ WorkTypeOK /\ BusyOK /\ LifeTypeOK
  BY Parts
<1> SUFFICES QueueTypeOK' /\ CtlTypeOK' /\ WorkTypeOK' /\ BusyOK' /\ LifeTypeOK'
  BY TypePartsNext
<1> USE CtlTypes, QueueTypes, WorkTypes, LifeTypes, Busy
<1>1. CASE AnnounceCompletion
  <2>1. attached' \in BOOLEAN
    BY <1>1, Zenon DEF AnnounceCompletion
  <2>2. WorkTypeOK' /\ UNCHANGED current
    BY <1>1, <2>1 DEF AnnounceCompletion, WorkTypeOK
  <2> QED BY <1>1, <2>2 DEF AnnounceCompletion
<1>2. CASE ClientDeletes
  BY <1>2 DEF ClientDeletes, ctlVars, workVars
<1>3. CASE BulkCancelsPending
  <2> PICK j \in mutex.todo : Settle(j, "cancelled", "client", mutex.todo \ {j})
    BY <1>3 DEF BulkCancelsPending
  <2>1. /\ j \in JobId /\ mutex.todo \ {j} \in SUBSET JobId
        /\ "cancelled" \in Terminal /\ "client" \in {"client", "loop", "boot"}
    BY DEF QueueTypeOK, Terminal
  <2>2. QueueTypeOK'
    BY <2>1
  <2> QED BY <1>3, <2>2 DEF BulkCancelsPending, ctlVars, workVars
<1>4. CASE BulkMarksRunning
  <2> PICK j \in mutex.todo : MarkCancelled(j, mutex.todo \ {j}) /\ NotifyCancellation(j)
    BY <1>4 DEF BulkMarksRunning
  <2>1. j \in JobId /\ mutex.todo \ {j} \in SUBSET JobId
    BY DEF QueueTypeOK
  <2>2. QueueTypeOK' /\ WorkTypeOK'
    BY <2>1
  <2> QED BY <1>4, <2>2 DEF BulkMarksRunning, ctlVars, NotifyCancellation
<1> QED BY <1>1, <1>2, <1>3, <1>4 DEF QueueStep

LEMMA StopStepTypes ==
  ASSUME TypeOK, StopStep PROVE TypeOK'
<1> QueueTypeOK /\ CtlTypeOK /\ WorkTypeOK /\ BusyOK /\ LifeTypeOK
  BY Parts
<1> SUFFICES QueueTypeOK' /\ CtlTypeOK' /\ WorkTypeOK' /\ BusyOK' /\ LifeTypeOK'
  BY TypePartsNext
<1> USE CtlTypes, QueueTypes, WorkTypes, LifeTypes, Busy
<1>1. StopEnds
  BY DEF StopStep, StopFinishes, StopTimesOut
<1>2. QueueTypeOK' /\ CtlTypeOK'
  BY <1>1 DEF StopEnds
<1>3. WorkTypeOK' /\ LifeTypeOK' /\ BusyOK'
  BY <1>1 DEF StopEnds, WorkTypeOK, LifeTypeOK, ctlVars
<1> QED BY <1>2, <1>3

LEMMA TimerTickTypes ==
  ASSUME TypeOK, TimerTick PROVE TypeOK'
<1> QueueTypeOK /\ CtlTypeOK /\ WorkTypeOK /\ BusyOK /\ LifeTypeOK
  BY Parts
<1> SUFFICES QueueTypeOK' /\ CtlTypeOK' /\ WorkTypeOK' /\ BusyOK' /\ LifeTypeOK'
  BY TypePartsNext
<1> USE CtlTypes, QueueTypes, WorkTypes, LifeTypes, Busy
<1>1. CASE LoopStarts("timer")
  BY <1>1 DEF TimerTick
<1>2. CASE failures' = 0 /\ UNCHANGED <<pc, launcher, wakeup, timer, boot>>
  BY <1>2, Constants DEF TimerTick, CtlTypeOK, workVars, ConstantFacts
<1> QED BY <1>1, <1>2, Zenon DEF TimerTick

LEMMA ClientStepTypes ==
  ASSUME TypeOK, ClientStep PROVE TypeOK'
<1> QueueTypeOK /\ CtlTypeOK /\ WorkTypeOK /\ BusyOK /\ LifeTypeOK
  BY Parts
<1> SUFFICES QueueTypeOK' /\ CtlTypeOK' /\ WorkTypeOK' /\ BusyOK' /\ LifeTypeOK'
  BY TypePartsNext
<1> USE CtlTypes, QueueTypes, WorkTypes, LifeTypes, Busy
<1>1. CASE EnqueueJob
  BY <1>1 DEF EnqueueJob, workVars
<1>2. CASE CancelPending
  <2> PICK j \in JobId : Settle(j, "cancelled", "client", {})
    BY <1>2 DEF CancelPending
  <2>1. "cancelled" \in Terminal /\ "client" \in {"client", "loop", "boot"}
    BY DEF Terminal
  <2>2. QueueTypeOK'
    BY <2>1
  <2> QED BY <1>2, <2>2 DEF CancelPending, ctlVars, workVars
<1>3. CASE CancelRunning
  <2> PICK j \in JobId : MarkCancelled(j, {}) /\ NotifyCancellation(j)
    BY <1>3 DEF CancelRunning
  <2> QED BY <1>3 DEF CancelRunning, ctlVars, NotifyCancellation
<1>4. CASE BulkCancelStarts
  BY <1>4 DEF BulkCancelStarts, ctlVars, workVars
<1>5. CASE StopBegins
  <2>1. CtlTypeOK'
    BY <1>5 DEF StopBegins, CtlTypeOK
  <2> QED BY <1>5, <2>1 DEF StopBegins, LifeTypeOK, workVars
<1> QED BY <1>1, <1>2, <1>3, <1>4, <1>5 DEF ClientStep

LEMMA FaultStepTypes ==
  ASSUME TypeOK, FaultStep PROVE TypeOK'
<1> QueueTypeOK /\ CtlTypeOK /\ WorkTypeOK /\ BusyOK /\ LifeTypeOK
  BY Parts
<1> SUFFICES QueueTypeOK' /\ CtlTypeOK' /\ WorkTypeOK' /\ BusyOK' /\ LifeTypeOK'
  BY TypePartsNext
<1> USE CtlTypes, QueueTypes, WorkTypes, LifeTypes, Busy
<1> DbError => dbErrors' \in 0..MaxDbErrors
  BY Constants DEF DbError, LifeTypeOK, ConstantFacts
<1>1. CASE Restart
  <2>1. QueueTypeOK'
    BY <1>1 DEF Restart, QueueTypeOK, Free, rowVars, NoJob
  <2>2. CtlTypeOK'
    <3>1. 0 \in 0..MaxConsecutiveFailures
      BY Constants DEF ConstantFacts
    <3> QED BY <1>1, <3>1 DEF Restart, CtlTypeOK
  <2>3. BusyOK'
    BY <1>1 DEF Restart, BusyOK, Working, Settling
  <2>4. WorkTypeOK'
    BY <1>1 DEF Restart, WorkTypeOK
  <2>5. LifeTypeOK'
    <3>1. instance + 1 \in 1..MaxInstances
      BY <1>1, Constants DEF Restart, LifeTypeOK, ConstantFacts
    <3> QED BY <1>1, <3>1 DEF Restart, LifeTypeOK
  <2> QED BY <2>1, <2>2, <2>3, <2>4, <2>5
<1>2. CASE LoopDbError
  <2>1. LifeTypeOK'
    BY <1>2 DEF LoopDbError, LifeTypeOK
  <2> QED BY <1>2, <2>1, RaiseTypes DEF LoopDbError
<1>3. CASE DeleteFails
  <2>1. LifeTypeOK'
    BY <1>3 DEF DeleteFails, LifeTypeOK
  <2>2. QueueTypeOK'
    BY <1>3 DEF DeleteFails, QueueTypeOK, Free, rowVars, NoJob
  <2>3. CASE Raise
    BY <2>1, <2>2, <2>3, RaiseTypes
  <2>4. CASE /\ boot' = "failed"
             /\ UNCHANGED <<pc, launcher, wakeup, failures, timer, workVars>>
    BY <2>1, <2>2, <2>4 DEF CtlTypeOK, workVars
  <2>5. CASE UNCHANGED <<ctlVars, workVars>>
    BY <2>1, <2>2, <2>5 DEF ctlVars, workVars
  <2> QED BY <1>3, <2>3, <2>4, <2>5 DEF DeleteFails
<1>4. CASE BootDbError
  <2>1. LifeTypeOK'
    BY <1>4 DEF BootDbError, LifeTypeOK
  <2>2. CtlTypeOK'
    BY <1>4 DEF BootDbError, CtlTypeOK
  <2> QED BY <1>4, <2>1, <2>2 DEF BootDbError, workVars
<1> QED BY <1>1, <1>2, <1>3, <1>4 DEF FaultStep

LEMMA TypeStep ==
  ASSUME TypeOK, [Next]_vars PROVE TypeOK'
<1>1. CASE UNCHANGED vars
  BY <1>1 DEF vars, TypeOK, QueueTypeOK, queueVars, rowVars, ctlVars, workVars, lifeVars
<1> QED
  BY <1>1, LoopStepTypes, BootStepTypes, QueueStepTypes, StopStepTypes, TimerTickTypes,
     ClientStepTypes, FaultStepTypes DEF Next

LEMMA TypeInit == Init => TypeOK
<1> SUFFICES ASSUME Init PROVE TypeOK
  OBVIOUS
<1>1. QueueTypeOK
  BY Constants DEF Init, QueueInit, QueueTypeOK, Free, NoJob, JobId, ConstantFacts
<1>2. 0 \in 0..MaxConsecutiveFailures /\ 1 \in 1..MaxInstances /\ 0 \in 0..MaxDbErrors
  BY Constants DEF ConstantFacts
<1>3. CtlTypeOK
  BY <1>2 DEF Init, CtlTypeOK
<1>4. WorkTypeOK /\ BusyOK
  BY DEF Init, WorkTypeOK, BusyOK, Working, Settling
<1>5. LifeTypeOK
  BY <1>2 DEF Init, LifeTypeOK
<1> QED BY <1>1, <1>3, <1>4, <1>5, TypeParts

\* Every reachable state is well-typed; in particular the mutex names a job in
\* the middle of a terminal operation, and processJob() has a job.
THEOREM TypeCorrect == Spec => []TypeOK
<1>1. TypeOK /\ [Next]_vars => TypeOK'
  BY TypeStep
<1> QED BY <1>1, TypeInit, PTL DEF Spec

-----------------------------------------------------------------------------
(***************************************************************************)
(* The recovery of orphans: sequential jobs stay exclusive, and handler    *)
(* starts are bounded by the recoveries (RecoverySafe is inductive)        *)
(***************************************************************************)

\* the parts of RecoverySafe about rows alone, and those about who may touch them
RowsSafe ==
  /\ SequentialExclusive /\ HandlerStartsBounded
  /\ \A j \in JobId : status[j] = "pending" => runs[j] <= retryCount[j]
  /\ \A j \in JobId : j > lastId => status[j] = "unused" /\ runs[j] = 0 /\ retryCount[j] = 0

AttachSafe == pc = "attach" => status[current] = "running" /\ runs[current] <= retryCount[current]

ActorsSafe ==
  /\ BootOwnsLoop /\ BootHoldsMutex /\ OrphansStayRunning /\ LoopAvoidsOrphans
  /\ SettledIsTerminal /\ AttachSafe

LEMMA SafeParts ==
  /\ RecoverySafe <=> RowsSafe /\ ActorsSafe
  /\ RecoverySafe' <=> RowsSafe' /\ ActorsSafe'
  BY DEF RecoverySafe, RowsSafe, ActorsSafe, StartsCounted, AttachSafe

-----------------------------------------------------------------------------
(* Rows: the only writes that matter are CREATE, claim, settle, delete and  *)
(* reset.                                                                   *)

\* A write that activates no row and counts no start keeps the rows safe.
LEMMA RowsStay ==
  ASSUME TypeOK, RowsSafe,
         UNCHANGED <<columns, lastId, retryCount, runs>>,
         \A j \in JobId : \/ status'[j] = status[j]
                          \/ status[j] # "unused" /\ status'[j] \notin Active
  PROVE  RowsSafe'
  BY DEF RowsSafe, SequentialExclusive, HandlerStartsBounded, Active

LEMMA RowsCreate ==
  ASSUME TypeOK, RowsSafe, NEW t \in NewJobs, Enqueue(t), UNCHANGED runs
  PROVE  RowsSafe'
<1> DEFINE n == lastId + 1
<1>1. /\ n \in JobId /\ n > lastId
      /\ status' = [status EXCEPT ![n] = "pending"]
      /\ columns' = [columns EXCEPT ![n] = t]
      /\ UNCHANGED <<retryCount, runs>> /\ lastId' = n
      /\ ~Duplicate(t)
  BY Constants DEF Enqueue, TypeOK, QueueTypeOK, JobId, ConstantFacts
<1> HIDE DEF n
<1>2. SequentialExclusive'
  <2> SUFFICES ASSUME NEW i \in JobId, NEW j \in JobId, i # j,
                      status'[i] \in Active, status'[j] \in Active,
                      columns'[i].mode = "sequential", columns'[j].mode = "sequential",
                      columns'[i].ref # NoRef, columns'[i].ref = columns'[j].ref
               PROVE FALSE
    BY DEF SequentialExclusive
  <2>1. CASE i = n
    BY <1>1, <2>1 DEF Duplicate, TypeOK, QueueTypeOK
  <2>2. CASE j = n
    BY <1>1, <2>2 DEF Duplicate, TypeOK, QueueTypeOK
  <2>3. CASE i # n /\ j # n
    BY <1>1, <2>3 DEF RowsSafe, SequentialExclusive, TypeOK, QueueTypeOK
  <2> QED BY <2>1, <2>2, <2>3
<1>3. HandlerStartsBounded'
  <2> SUFFICES ASSUME NEW j \in JobId
               PROVE runs[j] <= retryCount[j] + 1 /\ retryCount[j] <= columns'[j].maxRetries
    BY <1>1 DEF HandlerStartsBounded
  <2>1. CASE j = n
    BY <1>1, <2>1, Constants DEF RowsSafe, TypeOK, QueueTypeOK, ConstantFacts
  <2>2. CASE j # n
    BY <1>1, <2>2 DEF RowsSafe, HandlerStartsBounded, TypeOK, QueueTypeOK
  <2> QED BY <2>1, <2>2
<1>4. \A j \in JobId : status'[j] = "pending" => runs'[j] <= retryCount'[j]
  BY <1>1 DEF RowsSafe, TypeOK, QueueTypeOK
<1>5. \A j \in JobId : j > lastId' => status'[j] = "unused" /\ runs'[j] = 0 /\ retryCount'[j] = 0
  BY <1>1 DEF RowsSafe, TypeOK, QueueTypeOK, JobId
<1> QED BY <1>2, <1>3, <1>4, <1>5 DEF RowsSafe

\* claimJob(): at most one more start, and only of a job that was pending
LEMMA RowsClaim ==
  ASSUME TypeOK, RowsSafe, NEW c \in JobId, status[c] = "pending", ClaimRow(c, instance),
         \/ runs' = runs
         \/ runs' = [runs EXCEPT ![c] = @ + 1]
  PROVE  RowsSafe'
<1>1. /\ status' = [status EXCEPT ![c] = "running"]
      /\ UNCHANGED <<columns, retryCount, lastId>>
  BY DEF ClaimRow
<1>2. SequentialExclusive'
  BY <1>1 DEF RowsSafe, SequentialExclusive, Active, TypeOK, QueueTypeOK
<1>3. \A j \in JobId : /\ runs'[j] <= retryCount[j] + 1
                       /\ j # c => runs'[j] = runs[j]
                       /\ status'[j] = "pending" => j # c
  BY <1>1 DEF RowsSafe, HandlerStartsBounded, TypeOK, QueueTypeOK
<1>4. HandlerStartsBounded'
  BY <1>1, <1>3 DEF RowsSafe, HandlerStartsBounded
<1>5. \A j \in JobId : j > lastId' => status'[j] = "unused" /\ runs'[j] = 0 /\ retryCount'[j] = 0
  <2> SUFFICES ASSUME NEW j \in JobId, j > lastId
               PROVE status'[j] = "unused" /\ runs'[j] = 0 /\ retryCount[j] = 0
    BY <1>1
  <2>1. j # c
    BY DEF RowsSafe
  <2> QED BY <1>1, <1>3, <2>1 DEF RowsSafe, TypeOK, QueueTypeOK
<1>6. \A j \in JobId : status'[j] = "pending" => runs'[j] <= retryCount'[j]
  BY <1>1, <1>3 DEF RowsSafe, TypeOK, QueueTypeOK
<1> QED BY <1>2, <1>4, <1>5, <1>6 DEF RowsSafe

\* Attach: the start that belongs to an earlier claim
LEMMA RowsAttach ==
  ASSUME TypeOK, RowsSafe, NEW c \in JobId, status[c] = "running", runs[c] <= retryCount[c],
         runs' = [runs EXCEPT ![c] = @ + 1],
         UNCHANGED <<status, columns, lastId, retryCount>>
  PROVE  RowsSafe'
<1>1. \A j \in JobId : /\ runs'[j] <= retryCount[j] + 1
                       /\ j # c => runs'[j] = runs[j]
  BY DEF RowsSafe, HandlerStartsBounded, TypeOK, QueueTypeOK
<1>2. SequentialExclusive'
  BY DEF RowsSafe, SequentialExclusive
<1>3. HandlerStartsBounded'
  BY <1>1 DEF RowsSafe, HandlerStartsBounded
<1>4. \A j \in JobId : j = c => status[j] # "pending" /\ status[j] # "unused"
  OBVIOUS
<1> QED BY <1>1, <1>2, <1>3, <1>4 DEF RowsSafe

\* resetOrphanedJob(): the row was active before
LEMMA RowsReset ==
  ASSUME TypeOK, RowsSafe, NEW c \in JobId, status[c] = "running", ResetRow(c),
         retryCount[c] < columns[c].maxRetries, UNCHANGED runs
  PROVE  RowsSafe'
<1>1. /\ status' = [status EXCEPT ![c] = "pending"]
      /\ retryCount' = [retryCount EXCEPT ![c] = @ + 1]
      /\ UNCHANGED <<columns, lastId>>
  BY DEF ResetRow
<1>2. /\ status'[c] = "pending" /\ retryCount'[c] = retryCount[c] + 1
      /\ \A j \in JobId : j # c => status'[j] = status[j] /\ retryCount'[j] = retryCount[j]
  BY <1>1 DEF TypeOK, QueueTypeOK
<1>3. SequentialExclusive'
  BY <1>1, <1>2 DEF RowsSafe, SequentialExclusive, Active
<1>4. retryCount[c] \in Nat /\ columns[c].maxRetries \in Nat /\ runs \in [JobId -> Nat]
  BY Constants DEF TypeOK, QueueTypeOK, ConstantFacts
<1>5. HandlerStartsBounded'
  <2> SUFFICES ASSUME NEW j \in JobId
               PROVE runs[j] <= retryCount'[j] + 1 /\ retryCount'[j] <= columns[j].maxRetries
    BY <1>1 DEF HandlerStartsBounded
  <2> QED BY <1>2, <1>4 DEF RowsSafe, HandlerStartsBounded
<1>6. \A j \in JobId : status'[j] = "pending" => runs[j] <= retryCount'[j]
  BY <1>2, <1>4 DEF RowsSafe, HandlerStartsBounded
<1>7. \A j \in JobId : j > lastId => j # c
  BY DEF RowsSafe
<1> QED BY <1>1, <1>2, <1>3, <1>5, <1>6, <1>7 DEF RowsSafe

-----------------------------------------------------------------------------
(* Actors: who may move which row *)

\* a step of the loop's control that leaves the recovery of orphans alone
Steady ==
  /\ BootOwnsLoop'
  /\ mutex.by = "boot" => boot' = boot
  /\ Recovering' => boot' = boot

LEMMA Control ==
  ASSUME TypeOK, ActorsSafe
  PROVE  /\ UNCHANGED ctlVars => Steady
         /\ (pc # "idle" /\ LoopReturns(launcher) /\ UNCHANGED launcher) => Steady
         /\ (pc # "idle" /\ LoopDies) => Steady
         /\ \A label : (pc # "idle" /\ GoTo(label)) => Steady
         /\ \A who \in {"timer", "wakeup"} : (pc = "idle" /\ LoopStarts(who)) => Steady
         /\ Wakeup => Steady
<1> USE DEF Steady, ActorsSafe, BootOwnsLoop, BootHoldsMutex, Recovering
<1>1. UNCHANGED ctlVars => Steady
  BY DEF ctlVars
<1>2. (pc # "idle" /\ LoopReturns(launcher) /\ UNCHANGED launcher) => Steady
  BY DEF LoopReturns
<1>3. (pc # "idle" /\ LoopDies) => Steady
  BY DEF LoopDies
<1>4. \A label : (pc # "idle" /\ GoTo(label)) => Steady
  BY DEF GoTo
<1>5. \A who \in {"timer", "wakeup"} : (pc = "idle" /\ LoopStarts(who)) => Steady
  <2> SUFFICES ASSUME NEW who \in {"timer", "wakeup"}, LoopStarts(who) PROVE Steady
    OBVIOUS
  <2>1. launcher' = who /\ boot' = boot
    BY Zenon DEF LoopStarts, LoopReturns
  <2> QED BY <2>1
<1>6. Wakeup => Steady
  <2>1. Wakeup => \/ UNCHANGED ctlVars
                  \/ pc = "idle" /\ LoopStarts("wakeup")
                  \/ UNCHANGED <<pc, launcher, boot>>
    BY Zenon DEF Wakeup
  <2> QED BY <1>1, <1>5, <2>1
<1> QED BY <1>1, <1>2, <1>3, <1>4, <1>5, <1>6

\* processJob() keeps its job, or is not running
Onward == pc' \in Working => pc \in Working /\ current' = current /\ pc' # "attach"

LEMMA WorkingIs ==
  Working = {"complete", "cancel", "abort", "fail", "precheck", "claim", "attach", "handler"}
  BY DEF Working, Settling

\* Steps that write no row and leave the mutex alone.
LEMMA ActorsQuiet ==
  ASSUME TypeOK, TypeOK', ActorsSafe, Steady, UNCHANGED <<queueVars, orphans, instance>>,
         \/ Onward
         \/ UNCHANGED <<pc, current, runs>>
         \/ status[current'] = "pending" /\ current' \in JobId /\ pc' # "attach"
  PROVE  ActorsSafe'
<1> USE DEF ActorsSafe, Steady, queueVars, rowVars, Recovering
<1>1. BootOwnsLoop' /\ BootHoldsMutex'
  BY DEF BootHoldsMutex
<1>2. OrphansStayRunning'
  BY DEF OrphansStayRunning
<1>3. LoopAvoidsOrphans'
  <2>1. CASE Onward
    BY <2>1 DEF LoopAvoidsOrphans, Onward
  <2>2. CASE UNCHANGED <<pc, current, runs>>
    BY <2>2 DEF LoopAvoidsOrphans
  <2>3. CASE status[current'] = "pending" /\ current' \in JobId
    <3>1. Recovering' => current' \notin orphans
      BY <2>3 DEF OrphansStayRunning, BootHoldsMutex, SettledIsTerminal, Terminal
    <3> QED BY <2>3, <3>1 DEF LoopAvoidsOrphans
  <2> QED BY <2>1, <2>2, <2>3
<1>4. SettledIsTerminal'
  BY DEF SettledIsTerminal
<1>5. AttachSafe'
  BY WorkingIs DEF AttachSafe, Onward
<1> QED BY <1>1, <1>2, <1>3, <1>4, <1>5

\* Steps under the free mutex that change one row, neither an orphan's nor the
\* loop's running job, and leave the mutex free: CREATE and markings.
LEMMA ActorsOther ==
  ASSUME TypeOK, TypeOK', ActorsSafe, Steady,
         UNCHANGED <<owner, orphans, instance, runs>>,
         \A j \in JobId : status[j] = "running" <=> status'[j] = "running",
         \A j \in JobId : status[j] = "running" => retryCount'[j] = retryCount[j],
         \A j \in JobId : status[j] \in Terminal => status'[j] = status[j],
         \/ UNCHANGED mutex
         \/ mutex'.stage \notin {"settled", "notified"} /\ mutex.by # "boot" /\ mutex'.by # "boot",
         pc' \in Working => pc \in Working /\ current' = current /\ pc' \in {pc, "fail"}
  PROVE  ActorsSafe'
<1> USE DEF ActorsSafe, Steady, Recovering
<1>1. BootOwnsLoop' /\ BootHoldsMutex'
  BY DEF BootHoldsMutex
<1>2. OrphansStayRunning'
  BY DEF OrphansStayRunning, TypeOK
<1>3. LoopAvoidsOrphans'
  BY DEF LoopAvoidsOrphans, TypeOK
<1>4. SettledIsTerminal'
  BY DEF SettledIsTerminal, TypeOK, QueueTypeOK
<1>5. AttachSafe'
  BY WorkingIs DEF AttachSafe, TypeOK
<1> QED BY <1>1, <1>2, <1>3, <1>4, <1>5

\* The terminal UPDATE, by whoever has the right to it.
LEMMA ActorsSettle ==
  ASSUME TypeOK, TypeOK', ActorsSafe,
         NEW j \in JobId, NEW outcome \in Terminal, NEW caller, NEW rest,
         Settle(j, outcome, caller, rest),
         mutex.stage \in {"free", "bulk"},
         UNCHANGED <<ctlVars, workVars, lifeVars>>,
         caller = "boot" => boot = "failing",
         (Recovering /\ j \in orphans) => caller = "boot",
         pc = "attach" => j # current
  PROVE  ActorsSafe'
<1> USE DEF ActorsSafe, Recovering, ctlVars, workVars, lifeVars
<1>1. /\ status' = [status EXCEPT ![j] = outcome] /\ UNCHANGED <<owner, retryCount>>
      /\ mutex'.stage = "settled" /\ mutex'.job = j /\ mutex'.by = caller
  BY DEF Settle, rowVars
<1>2. /\ status'[j] = outcome /\ outcome \notin Active
      /\ \A i \in JobId : i # j => status'[i] = status[i]
  BY <1>1 DEF TypeOK, QueueTypeOK, Terminal, Active
<1>3. BootOwnsLoop' /\ BootHoldsMutex'
  BY <1>1 DEF BootOwnsLoop, BootHoldsMutex
<1>4. OrphansStayRunning'
  BY <1>1, <1>2 DEF OrphansStayRunning, BootHoldsMutex, TypeOK
<1>5. LoopAvoidsOrphans'
  BY <1>1, <1>2 DEF LoopAvoidsOrphans, TypeOK, Active
<1>6. SettledIsTerminal'
  BY <1>1, <1>2 DEF SettledIsTerminal
<1>7. AttachSafe'
  BY <1>1, <1>2, WorkingIs DEF AttachSafe, TypeOK
<1> QED BY <1>3, <1>4, <1>5, <1>6, <1>7

LEMMA ActorsAnnounce ==
  ASSUME TypeOK, TypeOK', ActorsSafe, AnnounceCompletion
  PROVE  ActorsSafe'
<1> USE DEF ActorsSafe, Recovering
<1>1. /\ UNCHANGED <<status, owner, retryCount, orphans, instance, runs, current>>
      /\ mutex.stage = "settled" /\ mutex'.stage = "notified"
      /\ mutex'.job = mutex.job /\ mutex'.by = mutex.by
  BY DEF AnnounceCompletion, Announce, rowVars, lifeVars, TypeOK, QueueTypeOK
<1>2. Steady /\ (pc' \in Working => pc' = pc)
  <2>1. Wakeup
    BY DEF AnnounceCompletion
  <2>2. pc' \in Working => pc' = pc
    BY <2>1, WorkingIs DEF Wakeup, LoopStarts, LoopReturns, ctlVars
  <2> QED BY <2>1, <2>2, Control
<1>3. BootOwnsLoop' /\ BootHoldsMutex'
  BY <1>1, <1>2 DEF Steady, BootHoldsMutex
<1>4. OrphansStayRunning'
  BY <1>1, <1>2 DEF OrphansStayRunning, Steady
<1>5. LoopAvoidsOrphans'
  BY <1>1, <1>2 DEF LoopAvoidsOrphans, Steady
<1>6. SettledIsTerminal'
  BY <1>1 DEF SettledIsTerminal
<1>7. AttachSafe'
  BY <1>1, <1>2, WorkingIs DEF AttachSafe
<1> QED BY <1>3, <1>4, <1>5, <1>6, <1>7

\* What the DELETE does, whoever is in the middle of the operation.
LEMMA Deletion ==
  ASSUME TypeOK, ActorsSafe, DeleteRow
  PROVE  /\ mutex.job \in JobId /\ status[mutex.job] \in Terminal
         /\ status'[mutex.job] = "deleted"
         /\ \A j \in JobId : j # mutex.job => status'[j] = status[j]
         /\ \A j \in JobId : (status[j] = "running" <=> status'[j] = "running")
         /\ mutex'.stage \notin {"settled", "notified"} /\ mutex'.by # "boot"
         /\ UNCHANGED <<owner, retryCount, columns, lastId>>
<1>1. mutex.job \in JobId /\ status[mutex.job] \in Terminal
  BY DEF DeleteRow, TypeOK, QueueTypeOK, ActorsSafe, SettledIsTerminal
<1>2. /\ status' = [status EXCEPT ![mutex.job] = "deleted"]
      /\ mutex' = AfterDelete /\ UNCHANGED <<owner, retryCount, columns, lastId>>
  BY DEF DeleteRow, rowVars
<1>3. mutex'.stage \notin {"settled", "notified"} /\ mutex'.by # "boot"
  BY <1>2 DEF AfterDelete, Free
<1> QED BY <1>1, <1>2, <1>3 DEF TypeOK, QueueTypeOK, Terminal, Active

LEMMA ActorsDelete ==
  ASSUME TypeOK, TypeOK', ActorsSafe, DeleteRow,
         \/ Steady /\ UNCHANGED orphans /\ mutex.by # "boot"
         \/ /\ mutex.by = "boot" /\ orphans' = orphans \ {mutex.job}
            /\ boot' = "recover" /\ UNCHANGED <<pc, launcher>>,
         UNCHANGED <<instance, runs>>,
         \/ pc' = "fetch"
         \/ UNCHANGED <<pc, current>>
  PROVE  ActorsSafe'
<1> USE Deletion DEF ActorsSafe, Recovering
<1>1. BootOwnsLoop' /\ BootHoldsMutex'
  BY DEF BootOwnsLoop, BootHoldsMutex, Steady
<1>2. OrphansStayRunning'
  BY DEF OrphansStayRunning, BootHoldsMutex, Steady, TypeOK, Terminal
<1>3. LoopAvoidsOrphans'
  BY WorkingIs DEF LoopAvoidsOrphans, BootHoldsMutex, Steady, TypeOK
<1>4. SettledIsTerminal'
  BY DEF SettledIsTerminal
<1>5. AttachSafe'
  BY WorkingIs DEF AttachSafe, TypeOK
<1> QED BY <1>1, <1>2, <1>3, <1>4, <1>5

-----------------------------------------------------------------------------
(* Every step *)

LEMMA RowsUnchanged ==
  ASSUME TypeOK, RowsSafe, UNCHANGED <<queueVars, runs>> PROVE RowsSafe'
  BY RowsStay DEF queueVars, rowVars

\* While the loop's own terminal operation holds the mutex, the loop is in it.
LoopHoldsMutex == mutex.by = "loop" => pc \in Settling

LEMMA LoopHoldsMutexStep ==
  ASSUME TypeOK, LoopHoldsMutex, [Next]_vars PROVE LoopHoldsMutex'
<1> SUFFICES ASSUME mutex'.by = "loop" PROVE pc' \in Settling
  BY DEF LoopHoldsMutex
<1> USE DEF LoopHoldsMutex
<1>0. /\ mutex = Free => mutex.by = "nobody"
      /\ Settling = {"complete", "cancel", "abort", "fail"}
  BY DEF Free, Settling
<1>1. CASE UNCHANGED mutex
  <2>1. pc \in Settling /\ mutex.by = "loop"
    BY <1>1
  <2>2. CASE UNCHANGED vars
    BY <2>1, <2>2 DEF vars, ctlVars
  <2>3. CASE LoopStep
    <3>1. ~LoopSettles /\ ~LoopFindsNoRow /\ ~LoopDeletes /\ pc \notin {"fetch", "drained", "precheck"}
      BY <1>0, <2>1 DEF LoopSettles, LoopFindsNoRow, LoopDeletes, DeleteRow, AfterDelete, Free
    <3>2. pc \notin {"claim", "attach", "handler"}
      BY <1>0, <2>1
    <3> QED BY <2>3, <3>1, <3>2 DEF LoopStep, LoopStops, FetchJob, FetchNothing, Drained, Precheck,
         Claim, Attach, ClaimFindsNoRow, ClaimLost, HandlerReturns, HandlerAborts, HandlerFails
  <2>4. CASE BootStep
    BY <1>0, <2>1, <2>4 DEF BootStep, BootFindsOrphans, BootResets, BootGivesUp, BootSettles,
         BootDeletes, BootLaunches, ctlVars
  <2>5. CASE QueueStep
    BY <1>0, <2>1, <2>5 DEF QueueStep, AnnounceCompletion, Wakeup, ClientDeletes,
         BulkCancelsPending, BulkMarksRunning, ctlVars
  <2>6. CASE StopStep
    BY <1>0, <2>1, <2>6 DEF StopStep, StopFinishes, StopTimesOut, StopEnds, ctlVars
  <2>7. CASE TimerTick
    BY <1>0, <2>1, <2>7 DEF TimerTick
  <2>8. CASE ClientStep
    BY <1>0, <2>1, <2>8 DEF ClientStep, EnqueueJob, Wakeup, CancelPending, CancelRunning,
         BulkCancelStarts, StopBegins, ctlVars
  <2>9. CASE FaultStep
    <3>1. ~Restart
      BY <1>0 DEF Restart, Free
    <3>2. ~LoopDbError
      BY <1>1 DEF LoopDbError
    <3>3. ~DeleteFails
      BY <1>0 DEF DeleteFails, Free
    <3>4. BootDbError => UNCHANGED pc
      BY DEF BootDbError
    <3> QED BY <2>1, <2>9, <3>1, <3>2, <3>3, <3>4 DEF FaultStep
  <2> QED BY <2>2, <2>3, <2>4, <2>5, <2>6, <2>7, <2>8, <2>9 DEF Next
<1>2. CASE ~UNCHANGED mutex
  <2>1. CASE LoopStep
    <3>1. LoopSettles
      BY <1>2, <2>1 DEF LoopStep, LoopStops, FetchJob, FetchNothing, Drained, Precheck, Claim,
         ClaimRow, Attach, ClaimFindsNoRow, ClaimLost, HandlerReturns, HandlerAborts, HandlerFails,
         LoopFindsNoRow, LoopDeletes, DeleteRow, AfterDelete, Free, queueVars
    <3> QED BY <3>1 DEF LoopSettles, ctlVars
  <2>2. CASE BootStep
    BY <1>2, <2>2 DEF BootStep, BootFindsOrphans, BootResets, ResetRow, BootGivesUp, BootSettles,
         Settle, BootDeletes, DeleteRow, AfterDelete, Free, BootLaunches, queueVars
  <2>3. CASE QueueStep
    <3>1. CASE AnnounceCompletion
      <4>1. mutex'.by = mutex.by
        BY <3>1 DEF AnnounceCompletion, Announce, TypeOK, QueueTypeOK
      <4> QED BY <1>0, <3>1, <4>1 DEF AnnounceCompletion, Wakeup, ctlVars
    <3>2. CASE ClientDeletes
      BY <3>2 DEF ClientDeletes, DeleteRow, AfterDelete, Free
    <3>3. CASE BulkCancelsPending
      BY <3>3 DEF BulkCancelsPending, Settle
    <3>4. CASE BulkMarksRunning
      <4>1. mutex'.by \in {mutex.by, "nobody"}
        BY <3>4 DEF BulkMarksRunning, MarkCancelled, Free, TypeOK, QueueTypeOK
      <4> QED BY <3>4, <4>1 DEF BulkMarksRunning, ctlVars
    <3> QED BY <2>3, <3>1, <3>2, <3>3, <3>4 DEF QueueStep
  <2>4. CASE ClientStep
    <3>1. CASE CancelPending
      BY <3>1 DEF CancelPending, Settle
    <3>2. CASE CancelRunning
      BY <3>2 DEF CancelRunning, MarkCancelled, Free
    <3>3. CASE BulkCancelStarts
      BY <3>3 DEF BulkCancelStarts, StartBulkCancel
    <3> QED BY <1>2, <2>4, <3>1, <3>2, <3>3 DEF ClientStep, EnqueueJob, Enqueue, StopBegins,
                                                   queueVars
  <2>5. CASE FaultStep
    BY <1>2, <2>5 DEF FaultStep, Restart, LoopDbError, DeleteFails, BootDbError, Free, queueVars
  <2>6. CASE UNCHANGED vars \/ StopStep \/ TimerTick
    BY <1>2, <2>6 DEF vars, StopStep, StopFinishes, StopTimesOut, StopEnds, TimerTick, queueVars
  <2> QED BY <2>1, <2>2, <2>3, <2>4, <2>5, <2>6 DEF Next
<1> QED BY <1>1, <1>2

LEMMA RaiseSafe ==
  ASSUME TypeOK, TypeOK', RecoverySafe, Raise, pc # "idle",
         UNCHANGED <<queueVars, instance, orphans>>
  PROVE  RecoverySafe'
<1> RowsSafe /\ ActorsSafe
  BY SafeParts
<1>1. CASE LoopDies /\ ProcessJobEnds
  <2>1. UNCHANGED runs /\ Onward
    BY <1>1, WorkingIs DEF LoopDies, ProcessJobEnds, Onward
  <2>2. Steady
    BY <1>1, Control
  <2> QED BY <2>1, <2>2, ActorsQuiet, RowsUnchanged, SafeParts
<1>2. CASE /\ pc \in {"precheck", "claim", "complete", "cancel"}
           /\ GoTo("fail") /\ UNCHANGED workVars
  <2>1. UNCHANGED runs /\ Onward
    BY <1>2, WorkingIs DEF GoTo, workVars, Onward
  <2>2. Steady
    BY <1>2, Control
  <2> QED BY <2>1, <2>2, ActorsQuiet, RowsUnchanged, SafeParts
<1> QED BY <1>1, <1>2, Zenon DEF Raise

LEMMA LoopStepSafe ==
  ASSUME TypeOK, TypeOK', LoopHoldsMutex, RecoverySafe, LoopStep PROVE RecoverySafe'
<1> RowsSafe /\ ActorsSafe
  BY SafeParts
<1> SUFFICES RowsSafe' /\ ActorsSafe'
  BY SafeParts
<1> USE Control, WorkingIs
<1>1. CASE LoopStops
  <2>1. Steady /\ Onward /\ UNCHANGED <<queueVars, runs, orphans, instance>>
    BY <1>1 DEF LoopStops, LoopReturns, Onward, workVars, lifeVars
  <2> QED BY <2>1, RowsUnchanged, ActorsQuiet
<1>2. CASE FetchJob
  <2> PICK j \in First(Eligible) :
        /\ current' = j
        /\ GoTo(IF columns[j].type \in HandledTypes THEN "precheck" ELSE "fail")
    BY <1>2 DEF FetchJob
  <2>1. j \in JobId /\ status[j] = "pending"
    BY DEF First, Eligible
  <2>2. Steady /\ UNCHANGED <<queueVars, runs, orphans, instance>> /\ pc' # "attach"
    BY <1>2 DEF FetchJob, lifeVars, GoTo
  <2> QED BY <2>1, <2>2, RowsUnchanged, ActorsQuiet
<1>3. CASE FetchNothing
  <2>1. Steady /\ Onward /\ UNCHANGED <<queueVars, runs, orphans, instance>>
    BY <1>3 DEF FetchNothing, GoTo, Onward, workVars, lifeVars
  <2> QED BY <2>1, RowsUnchanged, ActorsQuiet
<1>4. CASE Drained
  <2>1. Onward /\ UNCHANGED <<queueVars, runs, orphans, instance>>
    BY <1>4 DEF Drained, LoopReturns, Onward, workVars, lifeVars
  <2>2. Steady
    <3>1. CASE pc' = "fetch" /\ UNCHANGED <<launcher, boot>>
      BY <1>4, <3>1 DEF Drained, Steady, ActorsSafe, BootOwnsLoop, Recovering
    <3>2. CASE LoopReturns(launcher) /\ UNCHANGED <<launcher, wakeup>>
      BY <1>4, <3>2 DEF Drained
    <3> QED BY <1>4, <3>1, <3>2 DEF Drained
  <2> QED BY <2>1, <2>2, RowsUnchanged, ActorsQuiet
<1>5. CASE Precheck
  <2>1. Steady /\ Onward /\ UNCHANGED <<queueVars, runs, orphans, instance>>
    BY <1>5 DEF Precheck, GoTo, Onward, workVars, lifeVars
  <2> QED BY <2>1, RowsUnchanged, ActorsQuiet
<1>6. CASE Claim
  <2>1. current \in JobId /\ status[current] = "pending" /\ ClaimRow(current, instance)
    BY <1>6 DEF Claim, TypeOK
  <2>2. /\ Steady /\ UNCHANGED <<current, orphans, instance, mutex, retryCount>>
        /\ pc' \in {"attach", "handler"}
    <3>1. CASE GoTo("attach") /\ UNCHANGED workVars
      BY <1>6, <3>1 DEF Claim, GoTo, workVars, lifeVars, ClaimRow
    <3>2. CASE GoTo("handler") /\ HandlerStarts
      BY <1>6, <3>2 DEF Claim, GoTo, HandlerStarts, lifeVars, ClaimRow
    <3> QED BY <1>6, <3>1, <3>2, Zenon DEF Claim
  <2>3. \/ pc' = "attach" /\ runs' = runs
        \/ pc' = "handler" /\ runs' = [runs EXCEPT ![current] = @ + 1]
    BY <1>6 DEF Claim, GoTo, workVars, HandlerStarts
  <2>4. RowsSafe'
    BY <2>1, <2>3, RowsClaim
  <2>5. /\ status'[current] = "running" /\ owner'[current] = instance
        /\ \A j \in JobId : j # current => status'[j] = status[j]
    BY <2>1 DEF ClaimRow, TypeOK, QueueTypeOK
  <2>6. BootOwnsLoop' /\ BootHoldsMutex'
    BY <2>2 DEF ActorsSafe, Steady, BootHoldsMutex
  <2>7. OrphansStayRunning'
    <3>1. mutex.by # "boot"
      BY <1>6 DEF Claim, Free
    <3>2. Recovering => current \notin orphans
      BY <2>1, <3>1 DEF ActorsSafe, OrphansStayRunning
    <3>3. orphans \subseteq JobId
      BY DEF TypeOK
    <3> QED BY <2>2, <2>5, <3>1, <3>2, <3>3 DEF ActorsSafe, Steady, Recovering, OrphansStayRunning
  <2>8. LoopAvoidsOrphans'
    BY <1>6, <2>2, <2>5 DEF Claim, ActorsSafe, Steady, Recovering, LoopAvoidsOrphans
  <2>9. SettledIsTerminal'
    BY <1>6, <2>2 DEF Claim, Free, SettledIsTerminal
  <2>10. AttachSafe'
    BY <2>1, <2>2, <2>3, <2>5 DEF AttachSafe, RowsSafe
  <2> QED BY <2>4, <2>6, <2>7, <2>8, <2>9, <2>10 DEF ActorsSafe
<1>7. CASE Attach
  <2>1. /\ current \in JobId /\ status[current] = "running"
        /\ runs[current] <= retryCount[current]
    BY <1>7 DEF Attach, TypeOK, ActorsSafe, AttachSafe
  <2>2. /\ runs' = [runs EXCEPT ![current] = @ + 1] /\ Onward /\ Steady
        /\ UNCHANGED <<queueVars, orphans, instance>>
    BY <1>7 DEF Attach, HandlerStarts, GoTo, Onward, lifeVars
  <2>3. RowsSafe'
    BY <2>1, <2>2, RowsAttach DEF queueVars, rowVars
  <2> QED BY <2>2, <2>3, ActorsQuiet
<1>8. CASE ClaimFindsNoRow
  BY <1>8, RaiseSafe, SafeParts DEF ClaimFindsNoRow, lifeVars
<1>9. CASE ClaimLost
  <2>1. Steady /\ Onward /\ UNCHANGED <<queueVars, runs, orphans, instance>>
    BY <1>9 DEF ClaimLost, GoTo, ProcessJobEnds, Onward, lifeVars
  <2> QED BY <2>1, RowsUnchanged, ActorsQuiet
<1>10. CASE HandlerReturns \/ HandlerAborts \/ HandlerFails
  <2>1. Steady /\ Onward /\ UNCHANGED <<queueVars, runs, orphans, instance>>
    BY <1>10 DEF HandlerReturns, HandlerAborts, HandlerFails, GoTo, Onward, workVars, lifeVars
  <2> QED BY <2>1, RowsUnchanged, ActorsQuiet
<1>11. CASE LoopSettles
  <2>1. /\ current \in JobId /\ Outcome \in Terminal /\ status[current] # "unused"
        /\ Settle(current, Outcome, "loop", {}) /\ mutex.stage = "free"
        /\ pc # "attach" /\ pc \in Working
        /\ UNCHANGED <<ctlVars, workVars, lifeVars>>
    BY <1>11 DEF LoopSettles, Outcome, Terminal, Settling, TypeOK, Free, RowExists, Active
  <2>2. ~(Recovering /\ current \in orphans)
    BY <2>1 DEF ActorsSafe, LoopAvoidsOrphans
  <2>3. ActorsSafe'
    BY <2>1, <2>2, ActorsSettle
  <2>4. RowsSafe'
    BY <2>1, RowsStay DEF Settle, workVars, TypeOK, QueueTypeOK, Terminal, Active
  <2> QED BY <2>3, <2>4
<1>12. CASE LoopFindsNoRow
  BY <1>12, RaiseSafe, SafeParts DEF LoopFindsNoRow, lifeVars, Settling
<1>13. CASE LoopDeletes
  <2>1. /\ Steady /\ UNCHANGED <<orphans, instance, runs>> /\ mutex.by # "boot"
        /\ pc' = "fetch" /\ DeleteRow
    <3>1. pc # "idle"
      BY <1>13 DEF LoopDeletes, LoopHoldsMutex, Settling
    <3> QED BY <1>13, <3>1 DEF LoopDeletes, GoTo, ProcessJobEnds, lifeVars
  <2>2. RowsSafe'
    BY <2>1, Deletion, RowsStay DEF Terminal, Active
  <2> QED BY <2>1, <2>2, ActorsDelete
<1> QED
  BY <1>1, <1>2, <1>3, <1>4, <1>5, <1>6, <1>7, <1>8, <1>9, <1>10, <1>11, <1>12, <1>13
     DEF LoopStep

LEMMA BootStepSafe ==
  ASSUME TypeOK, TypeOK', RecoverySafe, BootStep PROVE RecoverySafe'
<1> RowsSafe /\ ActorsSafe
  BY SafeParts
<1> SUFFICES RowsSafe' /\ ActorsSafe'
  BY SafeParts
<1> USE WorkingIs DEF Recovering
<1>0. orphans \subseteq JobId /\ \A j \in First(orphans) : j \in orphans
  BY DEF TypeOK, First
<1>1. CASE BootFindsOrphans
  <2>1. /\ UNCHANGED <<pc, launcher, current, runs, queueVars, instance>>
        /\ boot = "orphans" /\ boot' = "recover" /\ orphans' = OrphansOf(instance)
    BY <1>1 DEF BootFindsOrphans, workVars
  <2>2. RowsSafe'
    BY <2>1, RowsUnchanged
  <2>3. BootOwnsLoop' /\ BootHoldsMutex'
    BY <2>1 DEF ActorsSafe, BootOwnsLoop, BootHoldsMutex, queueVars
  <2>4. OrphansStayRunning' /\ LoopAvoidsOrphans'
    BY <2>1 DEF ActorsSafe, OrphansStayRunning, LoopAvoidsOrphans, OrphansOf, queueVars, rowVars
  <2>5. SettledIsTerminal' /\ AttachSafe'
    BY <2>1 DEF ActorsSafe, SettledIsTerminal, AttachSafe, queueVars, rowVars
  <2> QED BY <2>2, <2>3, <2>4, <2>5 DEF ActorsSafe
<1>2. CASE BootResets
  <2> PICK j \in First(orphans) : /\ retryCount[j] < columns[j].maxRetries
                                  /\ ResetRow(j) /\ orphans' = orphans \ {j}
    BY <1>2 DEF BootResets
  <2>1. /\ boot = "recover" /\ mutex = Free /\ mutex.by # "boot"
        /\ mutex.stage \notin {"settled", "notified"}
        /\ UNCHANGED <<ctlVars, workVars, instance>>
    BY <1>2 DEF BootResets, Free
  <2>2. j \in JobId /\ j \in orphans /\ status[j] = "running"
    BY <1>0, <2>1 DEF ActorsSafe, OrphansStayRunning
  <2>3. RowsSafe'
    BY <2>1, <2>2, RowsReset DEF workVars
  <2>4. /\ UNCHANGED mutex
        /\ \A i \in JobId : i # j => /\ status'[i] = status[i] /\ owner'[i] = owner[i]
                                     /\ retryCount'[i] = retryCount[i]
    BY <2>2 DEF ResetRow, TypeOK, QueueTypeOK
  <2>5. pc \in Working => current \in JobId /\ current # j
    BY <2>1, <2>2 DEF TypeOK, ActorsSafe, LoopAvoidsOrphans
  <2>6. BootOwnsLoop' /\ BootHoldsMutex' /\ SettledIsTerminal'
    BY <2>1, <2>4 DEF ActorsSafe, BootOwnsLoop, BootHoldsMutex, SettledIsTerminal, ctlVars
  <2>7. OrphansStayRunning'
    BY <1>0, <2>1, <2>4 DEF ActorsSafe, OrphansStayRunning, ctlVars
  <2>8. LoopAvoidsOrphans' /\ AttachSafe'
    BY <2>1, <2>4, <2>5 DEF ActorsSafe, LoopAvoidsOrphans, AttachSafe, ctlVars, workVars
  <2> QED BY <2>3, <2>6, <2>7, <2>8 DEF ActorsSafe
<1>3. CASE BootGivesUp
  <2>1. /\ boot = "recover" /\ boot' = "failing"
        /\ UNCHANGED <<pc, launcher, queueVars, workVars, instance, orphans>>
    BY <1>3 DEF BootGivesUp, lifeVars
  <2>2. RowsSafe'
    BY <2>1, RowsUnchanged DEF workVars
  <2>3. BootOwnsLoop' /\ BootHoldsMutex' /\ SettledIsTerminal'
    BY <2>1 DEF ActorsSafe, BootOwnsLoop, BootHoldsMutex, SettledIsTerminal, queueVars
  <2>4. OrphansStayRunning' /\ LoopAvoidsOrphans' /\ AttachSafe'
    BY <2>1 DEF ActorsSafe, OrphansStayRunning, LoopAvoidsOrphans, AttachSafe, queueVars, rowVars,
                workVars
  <2> QED BY <2>2, <2>3, <2>4 DEF ActorsSafe
<1>4. CASE BootSettles
  <2> PICK j \in First(orphans) : Settle(j, "failed", "boot", {})
    BY <1>4 DEF BootSettles
  <2>1. /\ boot = "failing" /\ mutex.stage = "free" /\ mutex.by # "boot"
        /\ UNCHANGED <<ctlVars, workVars, lifeVars>> /\ "failed" \in Terminal
    BY <1>4 DEF BootSettles, Free, Terminal
  <2>2. j \in JobId /\ j \in orphans /\ status[j] = "running"
    BY <1>0, <2>1 DEF ActorsSafe, OrphansStayRunning
  <2>3. pc = "attach" => j # current
    BY <2>1, <2>2 DEF ActorsSafe, LoopAvoidsOrphans
  <2>4. ActorsSafe'
    BY <2>1, <2>2, <2>3, ActorsSettle
  <2>5. RowsSafe'
    BY <2>1, <2>2, RowsStay DEF Settle, workVars, TypeOK, QueueTypeOK, Terminal, Active
  <2> QED BY <2>4, <2>5
<1>5. CASE BootDeletes
  <2>1. /\ mutex.by = "boot" /\ DeleteRow /\ orphans' = orphans \ {mutex.job}
        /\ boot' = "recover" /\ UNCHANGED <<pc, launcher, current, runs, instance>>
    BY <1>5 DEF BootDeletes, workVars
  <2>2. RowsSafe'
    BY <2>1, Deletion, RowsStay DEF Terminal, Active
  <2> QED BY <2>1, <2>2, ActorsDelete
<1>6. CASE BootLaunches
  <2>1. /\ boot = "recover" /\ orphans' = {} /\ mutex.by # "boot"
        /\ UNCHANGED <<queueVars, workVars, instance>>
        /\ boot' \in {"looping", "done"}
        /\ \/ pc' = "idle"
           \/ pc' = "fetch" /\ boot' = "looping"
           \/ UNCHANGED <<pc, launcher>>
    <3>1. /\ boot = "recover" /\ orphans' = {} /\ mutex.by # "boot"
          /\ UNCHANGED <<queueVars, workVars, instance>>
      BY <1>6 DEF BootLaunches, ActorsSafe, BootHoldsMutex
    <3>2. CASE pc = "idle" /\ LoopStarts("boot")
      <4>1. \/ pc' = "idle" /\ boot' = "done"
            \/ pc' = "fetch" /\ boot' = "looping"
        BY <3>2, Zenon DEF LoopStarts, LoopReturns
      <4> QED BY <3>1, <4>1
    <3>3. CASE boot' = "done" /\ UNCHANGED <<pc, launcher>>
      BY <3>1, <3>3
    <3>4. \/ pc = "idle" /\ LoopStarts("boot")
          \/ boot' = "done" /\ UNCHANGED <<pc, launcher>>
      BY <1>6, Zenon DEF BootLaunches
    <3> QED BY <3>2, <3>3, <3>4
  <2>2. RowsSafe'
    BY <2>1, RowsUnchanged DEF workVars
  <2>3. BootOwnsLoop' /\ BootHoldsMutex' /\ SettledIsTerminal'
    BY <2>1 DEF ActorsSafe, BootOwnsLoop, BootHoldsMutex, SettledIsTerminal, queueVars
  <2>4. OrphansStayRunning' /\ LoopAvoidsOrphans' /\ AttachSafe'
    BY <2>1 DEF ActorsSafe, OrphansStayRunning, LoopAvoidsOrphans, AttachSafe, queueVars, rowVars,
                workVars
  <2> QED BY <2>2, <2>3, <2>4 DEF ActorsSafe
<1> QED BY <1>1, <1>2, <1>3, <1>4, <1>5, <1>6 DEF BootStep

\* A job that is pending is neither an orphan nor in the loop's hands as a
\* claimed job, so a client may settle it.
LEMMA ClientSettles ==
  ASSUME TypeOK, TypeOK', RowsSafe, ActorsSafe, NEW j \in JobId, NEW rest,
         status[j] = "pending", mutex.stage \in {"free", "bulk"},
         Settle(j, "cancelled", "client", rest),
         UNCHANGED <<ctlVars, workVars, lifeVars>>
  PROVE  RowsSafe' /\ ActorsSafe'
<1>1. "cancelled" \in Terminal /\ ~(Recovering /\ j \in orphans)
  BY DEF Terminal, ActorsSafe, OrphansStayRunning, BootHoldsMutex
<1>2. pc = "attach" => j # current
  BY DEF ActorsSafe, AttachSafe
<1>3. ActorsSafe'
  BY <1>1, <1>2, ActorsSettle
<1>4. RowsSafe'
  BY RowsStay DEF Settle, workVars, TypeOK, QueueTypeOK, Active
<1> QED BY <1>3, <1>4

LEMMA QueueStepSafe ==
  ASSUME TypeOK, TypeOK', RecoverySafe, QueueStep PROVE RecoverySafe'
<1> RowsSafe /\ ActorsSafe
  BY SafeParts
<1> SUFFICES RowsSafe' /\ ActorsSafe'
  BY SafeParts
<1>1. CASE AnnounceCompletion
  <2>1. RowsSafe'
    BY <1>1, RowsStay DEF AnnounceCompletion, Announce, rowVars
  <2> QED BY <1>1, <2>1, ActorsAnnounce
<1>2. CASE ClientDeletes
  <2>1. /\ Steady /\ UNCHANGED <<pc, current, runs, orphans, instance>>
        /\ mutex.by # "boot" /\ DeleteRow
    BY <1>2, Control DEF ClientDeletes, ctlVars, workVars, lifeVars
  <2>2. RowsSafe'
    BY <2>1, Deletion, RowsStay DEF Terminal, Active
  <2> QED BY <2>1, <2>2, ActorsDelete
<1>3. CASE BulkCancelsPending
  <2> PICK j \in mutex.todo : /\ status[j] = "pending"
                              /\ Settle(j, "cancelled", "client", mutex.todo \ {j})
    BY <1>3 DEF BulkCancelsPending
  <2>1. j \in JobId
    BY DEF TypeOK, QueueTypeOK
  <2> QED BY <1>3, <2>1, ClientSettles DEF BulkCancelsPending
<1>4. CASE BulkMarksRunning
  <2> PICK j \in mutex.todo : /\ status[j] = "running"
                              /\ MarkCancelled(j, mutex.todo \ {j}) /\ NotifyCancellation(j)
    BY <1>4 DEF BulkMarksRunning
  <2>1. /\ UNCHANGED <<status, columns, retryCount, owner, lastId, current, runs, orphans,
                       instance, pc>>
        /\ Steady
    BY <1>4, Control DEF BulkMarksRunning, MarkCancelled, NotifyCancellation, lifeVars, ctlVars
  <2>2. RowsSafe'
    BY <2>1, RowsStay
  <2>3. mutex'.stage \notin {"settled", "notified"} /\ mutex.by # "boot" /\ mutex'.by # "boot"
    <3>1. mutex.stage = "bulk" /\ mutex.by # "boot"
      BY <1>4 DEF BulkMarksRunning, ActorsSafe, BootHoldsMutex
    <3>2. mutex' = Free \/ mutex' = [mutex EXCEPT !.todo = mutex.todo \ {j}]
      BY DEF MarkCancelled
    <3> QED BY <3>1, <3>2 DEF Free, TypeOK, QueueTypeOK
  <2> QED BY <2>1, <2>2, <2>3, ActorsOther
<1> QED BY <1>1, <1>2, <1>3, <1>4 DEF QueueStep

LEMMA StopAndTimerSafe ==
  ASSUME TypeOK, TypeOK', RecoverySafe, StopStep \/ TimerTick PROVE RecoverySafe'
<1> RowsSafe /\ ActorsSafe
  BY SafeParts
<1>1. UNCHANGED <<queueVars, runs, orphans, instance>>
  BY DEF StopStep, StopFinishes, StopTimesOut, StopEnds, TimerTick, workVars, lifeVars
<1>2. Steady /\ (Onward \/ UNCHANGED <<pc, current, runs>>)
  <2>1. CASE StopStep
    BY <2>1, Control DEF StopStep, StopFinishes, StopTimesOut, StopEnds, ctlVars
  <2>2. CASE TimerTick
    <3>1. CASE pc = "idle" /\ LoopStarts("timer")
      <4>1. pc' \in {"idle", "fetch"}
        BY <3>1, Zenon DEF LoopStarts, LoopReturns
      <4> QED BY <3>1, <4>1, Control, WorkingIs DEF Onward
    <3>2. CASE UNCHANGED <<pc, launcher, boot>>
      BY <2>2, <3>2 DEF TimerTick, workVars, Steady, ActorsSafe, BootOwnsLoop
    <3>3. \/ pc = "idle" /\ LoopStarts("timer")
          \/ UNCHANGED <<pc, launcher, boot>>
      BY <2>2, Zenon DEF TimerTick
    <3> QED BY <3>1, <3>2, <3>3
  <2> QED BY <2>1, <2>2
<1> QED BY <1>1, <1>2, ActorsQuiet, RowsUnchanged, SafeParts

LEMMA ClientStepSafe ==
  ASSUME TypeOK, TypeOK', RecoverySafe, ClientStep PROVE RecoverySafe'
<1> RowsSafe /\ ActorsSafe
  BY SafeParts
<1> SUFFICES RowsSafe' /\ ActorsSafe'
  BY SafeParts
<1>1. CASE EnqueueJob
  <2> PICK t \in NewJobs : Enqueue(t)
    BY <1>1 DEF EnqueueJob
  <2>1. /\ Wakeup /\ UNCHANGED <<current, runs, orphans, instance, owner, retryCount, mutex>>
        /\ status' = [status EXCEPT ![lastId + 1] = "pending"]
    BY <1>1 DEF EnqueueJob, Enqueue, workVars, lifeVars
  <2>2. \A j \in JobId : j = lastId + 1 => status[j] = "unused"
    BY DEF RowsSafe, TypeOK, QueueTypeOK
  <2>3. \A j \in JobId : status[j] # "unused" => status'[j] = status[j]
    BY <2>1, <2>2 DEF TypeOK, QueueTypeOK
  <2>4. \A j \in JobId : status[j] = "running" <=> status'[j] = "running"
    BY <2>1, <2>2, <2>3 DEF TypeOK, QueueTypeOK
  <2>5. Steady /\ (pc' \in Working => pc \in Working /\ pc' = pc)
    BY <2>1, Control, WorkingIs DEF Wakeup, LoopStarts, LoopReturns, ctlVars
  <2>6. RowsSafe'
    BY <2>1, RowsCreate
  <2> QED BY <2>1, <2>3, <2>4, <2>5, <2>6, ActorsOther DEF Terminal
<1>2. CASE CancelPending
  <2> PICK j \in JobId : status[j] = "pending" /\ Settle(j, "cancelled", "client", {})
    BY <1>2 DEF CancelPending
  <2> QED BY <1>2, ClientSettles DEF CancelPending, Free
<1>3. CASE CancelRunning
  <2> PICK j \in JobId : MarkCancelled(j, {}) /\ NotifyCancellation(j)
    BY <1>3 DEF CancelRunning
  <2>1. /\ UNCHANGED <<status, columns, retryCount, owner, lastId, current, runs, orphans,
                       instance, pc>>
        /\ Steady /\ mutex = Free /\ mutex' = Free
    BY <1>3, Control DEF CancelRunning, MarkCancelled, NotifyCancellation, lifeVars, ctlVars
  <2>2. RowsSafe'
    BY <2>1, RowsStay
  <2> QED BY <2>1, <2>2, ActorsOther
<1>4. CASE BulkCancelStarts
  <2> PICK t \in NewJobs : StartBulkCancel(t.ref)
    BY <1>4 DEF BulkCancelStarts
  <2>1. /\ UNCHANGED <<status, columns, retryCount, owner, lastId, current, runs, orphans,
                       instance, pc>>
        /\ Steady
        /\ mutex'.stage = "bulk" /\ mutex.by # "boot" /\ mutex'.by # "boot"
    BY <1>4, Control DEF BulkCancelStarts, StartBulkCancel, Free, rowVars, ctlVars, workVars, lifeVars
  <2>2. RowsSafe'
    BY <2>1, RowsStay
  <2> QED BY <2>1, <2>2, ActorsOther
<1>5. CASE StopBegins
  <2>1. UNCHANGED <<queueVars, runs, orphans, instance, pc, current, launcher, boot>>
    BY <1>5 DEF StopBegins, workVars
  <2>2. Steady
    BY <2>1 DEF Steady, ActorsSafe, BootOwnsLoop
  <2> QED BY <2>1, <2>2, ActorsQuiet, RowsUnchanged
<1> QED BY <1>1, <1>2, <1>3, <1>4, <1>5 DEF ClientStep

LEMMA FaultStepSafe ==
  ASSUME TypeOK, TypeOK', LoopHoldsMutex, RecoverySafe, FaultStep PROVE RecoverySafe'
<1> RowsSafe /\ ActorsSafe
  BY SafeParts
<1> SUFFICES RowsSafe' /\ ActorsSafe'
  BY SafeParts
<1> USE WorkingIs DEF Recovering
<1>1. CASE Restart
  <2>1. /\ UNCHANGED <<status, columns, retryCount, owner, lastId, runs>>
        /\ pc' = "idle" /\ boot' = "orphans" /\ mutex' = Free
    BY <1>1 DEF Restart, rowVars
  <2>2. RowsSafe'
    BY <2>1, RowsStay
  <2>3. ActorsSafe'
    BY <2>1 DEF ActorsSafe, BootOwnsLoop, BootHoldsMutex, OrphansStayRunning, LoopAvoidsOrphans,
                SettledIsTerminal, AttachSafe, Free
  <2> QED BY <2>2, <2>3
<1>2. CASE LoopDbError
  <2>1. pc # "idle" /\ Raise /\ UNCHANGED <<queueVars, instance, orphans>>
    BY <1>2 DEF LoopDbError, Settling
  <2> QED BY <2>1, RaiseSafe, SafeParts
<1>3. CASE DeleteFails
  <2>1. UNCHANGED <<status, columns, retryCount, owner, lastId, instance, orphans>> /\ mutex' = Free
    BY <1>3 DEF DeleteFails, rowVars
  <2>2. CASE mutex.by = "loop" /\ Raise
    <3>1. pc # "idle"
      BY <2>2 DEF LoopHoldsMutex, Settling
    <3>2. Steady
      BY <2>2, <3>1, Control, Zenon DEF Raise
    <3>3. /\ UNCHANGED runs
          /\ pc' \in Working => pc \in Working /\ current' = current /\ pc' \in {pc, "fail"}
      BY <2>2, <3>1 DEF Raise, LoopDies, ProcessJobEnds, GoTo, workVars
    <3>4. RowsSafe'
      BY <2>1, <3>3, RowsStay
    <3> QED BY <2>1, <2>2, <3>2, <3>3, <3>4, ActorsOther DEF Free
  <2>3. CASE /\ mutex.by = "boot" /\ boot' = "failed"
             /\ UNCHANGED <<pc, launcher, wakeup, failures, timer, workVars>>
    <3>1. RowsSafe'
      BY <2>1, <2>3, RowsStay DEF workVars
    <3>2. boot = "failing"
      BY <2>3 DEF ActorsSafe, BootHoldsMutex
    <3>3. BootOwnsLoop' /\ BootHoldsMutex' /\ OrphansStayRunning' /\ SettledIsTerminal'
      BY <2>1, <2>3, <3>2 DEF ActorsSafe, BootOwnsLoop, BootHoldsMutex, OrphansStayRunning,
                              SettledIsTerminal, Free
    <3>4. LoopAvoidsOrphans' /\ AttachSafe'
      BY <2>1, <2>3 DEF ActorsSafe, LoopAvoidsOrphans, AttachSafe, workVars
    <3> QED BY <3>1, <3>3, <3>4 DEF ActorsSafe
  <2>4. CASE mutex.by # "boot" /\ UNCHANGED <<ctlVars, workVars>>
    <3>1. RowsSafe'
      BY <2>1, <2>4, RowsStay DEF workVars
    <3>2. Steady
      BY <2>4, Control
    <3> QED BY <2>1, <2>4, <3>1, <3>2, ActorsOther DEF Free, ctlVars, workVars
  <2> QED BY <1>3, <2>2, <2>3, <2>4, Zenon DEF DeleteFails
<1>4. CASE BootDbError
  <2>1. /\ UNCHANGED <<pc, launcher, current, runs, queueVars, instance>>
        /\ orphans' \subseteq orphans
        /\ \/ boot \in {"orphans", "failing"} /\ mutex.by # "boot" /\ boot' = "failed"
           \/ UNCHANGED boot
    BY <1>4 DEF BootDbError, workVars
  <2>2. RowsSafe'
    BY <2>1, RowsUnchanged
  <2>3. BootOwnsLoop' /\ BootHoldsMutex' /\ SettledIsTerminal'
    BY <2>1 DEF ActorsSafe, BootOwnsLoop, BootHoldsMutex, SettledIsTerminal, queueVars
  <2>4. OrphansStayRunning' /\ LoopAvoidsOrphans' /\ AttachSafe'
    BY <2>1 DEF ActorsSafe, OrphansStayRunning, LoopAvoidsOrphans, AttachSafe, queueVars, rowVars
  <2> QED BY <2>2, <2>3, <2>4 DEF ActorsSafe
<1> QED BY <1>1, <1>2, <1>3, <1>4 DEF FaultStep

-----------------------------------------------------------------------------
(* The theorems *)

IInv == TypeOK /\ LoopHoldsMutex /\ RecoverySafe

LEMMA RecoveryInit == Init => LoopHoldsMutex /\ RecoverySafe
<1> SUFFICES ASSUME Init PROVE LoopHoldsMutex /\ RecoverySafe
  OBVIOUS
<1>1. LoopHoldsMutex /\ SettledIsTerminal /\ BootHoldsMutex
  BY DEF Init, QueueInit, Free, LoopHoldsMutex, SettledIsTerminal, BootHoldsMutex
<1>2. BootOwnsLoop /\ OrphansStayRunning /\ LoopAvoidsOrphans
  BY DEF Init, BootOwnsLoop, Recovering, OrphansStayRunning, LoopAvoidsOrphans, Working, Settling
<1>3. SequentialExclusive /\ StartsCounted
  BY DEF Init, QueueInit, SequentialExclusive, Active, StartsCounted
<1>4. HandlerStartsBounded
  <2> SUFFICES ASSUME NEW j \in JobId
               PROVE runs[j] <= retryCount[j] + 1 /\ retryCount[j] <= columns[j].maxRetries
    BY DEF HandlerStartsBounded
  <2>1. (CHOOSE t \in NewJobs : TRUE) \in NewJobs
    BY Constants DEF ConstantFacts
  <2>2. columns[j].maxRetries \in Nat /\ runs[j] = 0 /\ retryCount[j] = 0
    BY <2>1, Constants DEF Init, QueueInit, ConstantFacts
  <2> QED BY <2>2
<1> QED BY <1>1, <1>2, <1>3, <1>4 DEF RecoverySafe

LEMMA RecoveryStep ==
  ASSUME IInv, [Next]_vars PROVE IInv'
<1> USE DEF IInv
<1>1. TypeOK' /\ LoopHoldsMutex'
  BY TypeStep, LoopHoldsMutexStep
<1>2. CASE UNCHANGED vars
  <2> RowsSafe /\ ActorsSafe
    BY SafeParts
  <2>1. UNCHANGED <<queueVars, pc, current, runs, orphans, instance, boot, launcher>>
    BY <1>2 DEF vars, ctlVars, workVars, lifeVars
  <2>2. Steady
    BY <2>1 DEF Steady, ActorsSafe, BootOwnsLoop
  <2> QED BY <1>1, <2>1, <2>2, RowsUnchanged, ActorsQuiet, SafeParts
<1> QED
  BY <1>1, <1>2, LoopStepSafe, BootStepSafe, QueueStepSafe, StopAndTimerSafe, ClientStepSafe,
     FaultStepSafe DEF Next

\* Recovery of orphans is safe in every reachable state: nobody but the process
\* that recovers an orphan moves it, and each part of RecoverySafe holds.
THEOREM RecoveryIsSafe == Spec => []RecoverySafe
<1>1. Init => IInv
  <2>1. Init => TypeOK
    BY TypeInit
  <2> QED BY <2>1, RecoveryInit DEF IInv
<1>2. IInv /\ [Next]_vars => IInv'
  BY RecoveryStep
<1>3. IInv => RecoverySafe
  BY DEF IInv
<1> QED BY <1>1, <1>2, <1>3, PTL DEF Spec

\* Two active sequential jobs never share a reference (enqueue, resetOrphanedJob).
THEOREM SequentialJobsExclusive == Spec => []SequentialExclusive
<1>1. RecoverySafe => SequentialExclusive
  BY DEF RecoverySafe
<1> QED BY <1>1, RecoveryIsSafe, PTL

\* A handler is started at most retryCount + 1 <= maxRetries + 1 times, over all
\* crashes and restarts (claimJob, resetOrphanedJob).
THEOREM HandlerStartsAreBounded == Spec => []HandlerStartsBounded
<1>1. RecoverySafe => HandlerStartsBounded
  BY DEF RecoverySafe
<1> QED BY <1>1, RecoveryIsSafe, PTL

-----------------------------------------------------------------------------
(***************************************************************************)
(* What the loop of JobProcessorService knows of the row it works on, that *)
(* no wake-up and no cancellation is lost, and that queue and processor    *)
(* implement JobLifecycle.                                                 *)
(***************************************************************************)

\* What processJob() read stays true until it acts on it: a job on its way to
\* the claim is not running and, while it is pending, not marked; a claimed job
\* keeps running until its handler ends; nobody but the loop has rows of this
\* process.
ClaimInv ==
  /\ \A j \in JobId : owner[j] <= instance
  /\ pc \in Working => status[current] # "unused"
  /\ pc \in {"precheck", "claim"} =>
       status[current] # "running" /\ (status[current] = "pending" => ~cancelRequested[current])
  /\ pc \in {"attach", "handler"} => status[current] = "running"
  /\ mutex.by = "loop" => mutex.job = current
  /\ RunningIsCurrent

\* A handler is subscribed from the claim on, if nothing is awaited in between.
TokenInv ==
  /\ pc # "attach"
  /\ (pc = "handler" /\ stop # "stopped") => attached
  /\ CancellationReachesHandler

\* What was enqueued after the read that found nothing has set wakeupRequested.
WakeupInv ==
  /\ (pc = "drained" /\ stop = "no" /\ ~wakeup) => \A j \in Eligible : retryCount[j] > 0
  /\ NoLostWakeup

\* Only jobs that have ended are announced, and only announced ones are deleted.
NotifiedInv ==
  /\ \A j \in notified : status[j] \in Terminal \cup {"deleted"}
  /\ mutex.stage = "notified" => mutex.job \in notified

\* The loop never comes back to a job that has ended, unless a DELETE has failed.
EndedInv ==
  dbErrors = 0 =>
    /\ (pc \in Working /\ status[current] \in Terminal) =>
         mutex.stage \in {"settled", "notified"} /\ mutex.job = current
    /\ mutex.stage = "settled" => mutex.job \notin notified

-----------------------------------------------------------------------------
(* Steps of others than the loop.  They start no job, disown at most rows of *)
(* dead processes, mark running jobs only and keep away from a claimed row.  *)

LoopKeeps == UNCHANGED current /\ (pc' = pc \/ (pc \notin Working /\ pc' \notin Working))

RowsGently ==
  /\ \A j \in JobId :
       /\ owner'[j] \in {owner[j], 0}
       /\ status'[j] = "running" => status[j] = "running" /\ owner'[j] = owner[j]
       /\ status'[j] = "unused" => status[j] = "unused"
       /\ status'[j] = "pending" =>
            \/ status[j] \in {"unused", "running"}
            \/ status[j] = "pending" /\ cancelRequested'[j] = cancelRequested[j]
  /\ pc \in {"attach", "handler"} => status'[current] = "running"
  /\ mutex'.by = "loop" => mutex.by = "loop" /\ mutex'.job = mutex.job

Gently == LoopKeeps /\ RowsGently /\ UNCHANGED instance /\ (dbErrors' = 0 => dbErrors = 0)

LEMMA GentleSteps == ASSUME TypeOK, ClaimInv, Gently PROVE ClaimInv'
<1> USE WorkingIs DEF ClaimInv, Gently, RowsGently
<1>1. \A j \in JobId : owner'[j] <= instance'
  BY DEF TypeOK, QueueTypeOK
<1>2. pc' \in Working => pc' = pc /\ current' = current /\ current \in JobId
  BY DEF LoopKeeps, TypeOK
<1>3. pc' \in Working => status'[current'] # "unused"
  BY <1>2
<1>4. pc' \in {"precheck", "claim"} =>
        status'[current'] # "running" /\ (status'[current'] = "pending" => ~cancelRequested'[current'])
  BY <1>2
<1>5. pc' \in {"attach", "handler"} => status'[current'] = "running"
  BY <1>2
<1>6. mutex'.by = "loop" => mutex'.job = current'
  BY DEF LoopKeeps
<1>7. RunningIsCurrent'
  BY DEF RunningIsCurrent, LoopKeeps
<1> QED BY <1>1, <1>3, <1>4, <1>5, <1>6, <1>7

\* no row, and not the mutex
LEMMA GentleIdle ==
  ASSUME TypeOK, ClaimInv, LoopKeeps, UNCHANGED <<queueVars, instance>>, dbErrors' = 0 => dbErrors = 0
  PROVE  ClaimInv'
<1>1. RowsGently
  BY DEF RowsGently, queueVars, rowVars, ClaimInv
<1> QED BY <1>1, GentleSteps DEF Gently

\* the terminal UPDATE on a row that the loop has not claimed
LEMMA GentleSettle ==
  ASSUME TypeOK, ClaimInv, LoopKeeps, UNCHANGED <<instance, dbErrors>>,
         NEW j \in JobId, NEW outcome \in Terminal, NEW caller \in {"client", "boot"}, NEW rest,
         Settle(j, outcome, caller, rest), pc \in {"attach", "handler"} => j # current
  PROVE  ClaimInv'
<1>1. /\ status' = [status EXCEPT ![j] = outcome] /\ owner' = owner /\ mutex'.by = caller
      /\ cancelRequested' = [cancelRequested EXCEPT ![j] = @ \/ outcome = "cancelled"]
  BY DEF Settle
<1>2. outcome \notin {"running", "unused", "pending"}
  BY DEF Terminal
<1>3. RowsGently
  BY <1>1, <1>2, WorkingIs DEF RowsGently, ClaimInv, TypeOK, QueueTypeOK
<1> QED BY <1>3, GentleSteps DEF Gently

\* a client marks a running job
LEMMA GentleMark ==
  ASSUME TypeOK, ClaimInv, LoopKeeps, UNCHANGED <<instance, dbErrors>>,
         NEW j \in JobId, NEW rest, status[j] = "running", MarkCancelled(j, rest)
  PROVE  ClaimInv'
<1>1. /\ UNCHANGED <<status, owner>> /\ cancelRequested' = [cancelRequested EXCEPT ![j] = TRUE]
      /\ mutex' = Free \/ mutex' = [mutex EXCEPT !.todo = rest]
  BY DEF MarkCancelled
<1>2. mutex'.by = "loop" => mutex.by = "loop" /\ mutex'.job = mutex.job
  BY <1>1 DEF Free, TypeOK, QueueTypeOK
<1>3. RowsGently
  BY <1>1, <1>2 DEF RowsGently, ClaimInv, TypeOK, QueueTypeOK
<1> QED BY <1>3, GentleSteps DEF Gently

\* the DELETE by a client or by the recovery
LEMMA GentleDelete ==
  ASSUME TypeOK, ActorsSafe, ClaimInv, LoopKeeps, UNCHANGED <<instance, dbErrors>>, DeleteRow
  PROVE  ClaimInv'
<1>1. UNCHANGED <<owner, cancelRequested>> /\ mutex'.by # "loop"
  BY DEF DeleteRow, AfterDelete, Free, rowVars
<1>2. RowsGently
  BY <1>1, Deletion, WorkingIs DEF RowsGently, ClaimInv, TypeOK
<1> QED BY <1>2, GentleSteps DEF Gently

LEMMA WakeupKeeps == Wakeup /\ UNCHANGED current => LoopKeeps
<1> SUFFICES ASSUME Wakeup, UNCHANGED current PROVE LoopKeeps
  OBVIOUS
<1>1. \/ UNCHANGED pc
      \/ pc = "idle" /\ pc' \in {"idle", "fetch"}
  BY Zenon DEF Wakeup, LoopStarts, LoopReturns, ctlVars
<1> QED BY <1>1, WorkingIs DEF LoopKeeps

LEMMA OthersClaim ==
  ASSUME TypeOK, RowsSafe, ActorsSafe, ClaimInv, BootStep \/ QueueStep \/ StopStep \/ TimerTick \/ ClientStep
  PROVE  ClaimInv'
<1>0. orphans \subseteq JobId /\ \A j \in First(orphans) : j \in orphans
  BY DEF TypeOK, First
<1>1. CASE BootFindsOrphans \/ BootGivesUp
  BY <1>1, GentleIdle DEF BootFindsOrphans, BootGivesUp, LoopKeeps, workVars, lifeVars
<1>2. CASE BootResets
  <2> PICK j \in First(orphans) : ResetRow(j)
    BY <1>2 DEF BootResets
  <2>1. /\ boot = "recover" /\ mutex.by # "boot" /\ LoopKeeps /\ UNCHANGED <<instance, dbErrors>>
    BY <1>2 DEF BootResets, Free, LoopKeeps, ctlVars, workVars
  <2>2. j \in JobId /\ j \in orphans /\ status[j] = "running"
    BY <1>0, <2>1 DEF ActorsSafe, OrphansStayRunning, Recovering
  <2>3. pc \in Working => current # j
    BY <2>1, <2>2 DEF ActorsSafe, LoopAvoidsOrphans, Recovering
  <2>4. /\ status' = [status EXCEPT ![j] = "pending"] /\ owner' = [owner EXCEPT ![j] = 0]
        /\ UNCHANGED <<cancelRequested, mutex>>
    BY DEF ResetRow
  <2>5. RowsGently
    BY <2>2, <2>3, <2>4, WorkingIs DEF RowsGently, ClaimInv, TypeOK, QueueTypeOK
  <2> QED BY <2>1, <2>5, GentleSteps DEF Gently
<1>3. CASE BootSettles
  <2> PICK j \in First(orphans) : Settle(j, "failed", "boot", {})
    BY <1>3 DEF BootSettles
  <2>1. /\ boot = "failing" /\ mutex.by # "boot" /\ LoopKeeps /\ UNCHANGED <<instance, dbErrors>>
    BY <1>3 DEF BootSettles, Free, LoopKeeps, ctlVars, workVars, lifeVars
  <2>2. j \in JobId /\ (pc \in {"attach", "handler"} => j # current)
    BY <1>0, <2>1, WorkingIs DEF ActorsSafe, LoopAvoidsOrphans, Recovering
  <2> QED BY <2>1, <2>2, GentleSettle DEF Terminal
<1>4. CASE BootDeletes \/ ClientDeletes
  BY <1>4, GentleDelete DEF BootDeletes, ClientDeletes, LoopKeeps, ctlVars, workVars, lifeVars
<1>5. CASE BootLaunches
  <2>1. pc' = pc \/ (pc = "idle" /\ pc' \in {"idle", "fetch"})
    BY <1>5, Zenon DEF BootLaunches, LoopStarts, LoopReturns
  <2>2. LoopKeeps /\ UNCHANGED <<queueVars, instance, dbErrors>>
    BY <1>5, <2>1, WorkingIs DEF BootLaunches, LoopKeeps, workVars
  <2> QED BY <2>2, GentleIdle
<1>6. CASE AnnounceCompletion
  <2>1. LoopKeeps /\ UNCHANGED <<status, owner, cancelRequested, instance, dbErrors>>
    BY <1>6, WakeupKeeps DEF AnnounceCompletion, Announce, rowVars, lifeVars
  <2>2. mutex'.by = mutex.by /\ mutex'.job = mutex.job
    BY <1>6 DEF AnnounceCompletion, Announce, TypeOK, QueueTypeOK
  <2>3. RowsGently
    BY <2>1, <2>2 DEF RowsGently, ClaimInv
  <2> QED BY <2>1, <2>3, GentleSteps DEF Gently
<1>7. CASE CancelPending \/ BulkCancelsPending
  <2> PICK j \in JobId : status[j] = "pending" /\ \E rest : Settle(j, "cancelled", "client", rest)
    BY <1>7 DEF CancelPending, BulkCancelsPending, TypeOK, QueueTypeOK
  <2> PICK rest : Settle(j, "cancelled", "client", rest)
    OBVIOUS
  <2>1. LoopKeeps /\ UNCHANGED <<instance, dbErrors>>
    BY <1>7 DEF CancelPending, BulkCancelsPending, LoopKeeps, ctlVars, workVars, lifeVars
  <2>2. pc \in {"attach", "handler"} => j # current
    BY DEF ClaimInv
  <2> QED BY <2>1, <2>2, GentleSettle DEF Terminal
<1>8. CASE CancelRunning \/ BulkMarksRunning
  <2> PICK j \in JobId : status[j] = "running" /\ \E rest : MarkCancelled(j, rest)
    BY <1>8 DEF CancelRunning, BulkMarksRunning, TypeOK, QueueTypeOK
  <2> PICK rest : MarkCancelled(j, rest)
    OBVIOUS
  <2>1. LoopKeeps /\ UNCHANGED <<instance, dbErrors>>
    BY <1>8 DEF CancelRunning, BulkMarksRunning, NotifyCancellation, LoopKeeps, ctlVars, lifeVars
  <2> QED BY <2>1, GentleMark
<1>9. CASE StopStep \/ StopBegins
  BY <1>9, GentleIdle DEF StopStep, StopFinishes, StopTimesOut, StopEnds, StopBegins, LoopKeeps, ctlVars, workVars
<1>10. CASE TimerTick
  <2>1. pc' = pc \/ (pc = "idle" /\ pc' \in {"idle", "fetch"})
    BY <1>10, Zenon DEF TimerTick, LoopStarts, LoopReturns
  <2>2. LoopKeeps /\ UNCHANGED <<queueVars, instance, dbErrors>>
    BY <1>10, <2>1, WorkingIs DEF TimerTick, LoopKeeps, workVars, lifeVars
  <2> QED BY <2>2, GentleIdle
<1>11. CASE EnqueueJob
  <2> PICK t \in NewJobs : Enqueue(t)
    BY <1>11 DEF EnqueueJob
  <2>1. LoopKeeps /\ UNCHANGED <<instance, dbErrors, owner, cancelRequested, mutex>>
    BY <1>11, WakeupKeeps DEF EnqueueJob, Enqueue, workVars, lifeVars
  <2>2. status' = [status EXCEPT ![lastId + 1] = "pending"] /\ (lastId + 1 \in JobId => status[lastId + 1] = "unused")
    BY DEF Enqueue, RowsSafe, TypeOK, QueueTypeOK
  <2>3. RowsGently
    BY <2>1, <2>2, WorkingIs DEF RowsGently, ClaimInv, TypeOK, QueueTypeOK
  <2> QED BY <2>1, <2>3, GentleSteps DEF Gently
<1>12. CASE BulkCancelStarts
  <2> PICK t \in NewJobs : StartBulkCancel(t.ref)
    BY <1>12 DEF BulkCancelStarts
  <2>1. LoopKeeps /\ UNCHANGED <<instance, dbErrors, status, owner, cancelRequested>> /\ mutex'.by = "client"
    BY <1>12 DEF BulkCancelStarts, StartBulkCancel, LoopKeeps, ctlVars, workVars, lifeVars, rowVars
  <2>2. RowsGently
    BY <2>1 DEF RowsGently, ClaimInv
  <2> QED BY <2>1, <2>2, GentleSteps DEF Gently
<1> QED BY <1>1, <1>2, <1>3, <1>4, <1>5, <1>6, <1>7, <1>8, <1>9, <1>10, <1>11, <1>12
        DEF BootStep, QueueStep, ClientStep
-----------------------------------------------------------------------------
(* Steps of the loop *)

\* It goes on with its job and writes nothing.
LEMMA LoopGoes ==
  ASSUME TypeOK, ClaimInv, pc \in Working, pc' \in Working, UNCHANGED <<queueVars, instance, current>>,
         dbErrors' = 0 => dbErrors = 0,
         pc' \in {"precheck", "claim"} => pc \in {"precheck", "claim"},
         pc' \in {"attach", "handler"} => pc \in {"attach", "handler"}
  PROVE  ClaimInv'
<1>1. UNCHANGED <<status, owner, cancelRequested, mutex>>
  BY DEF queueVars, rowVars
<1>2. RunningIsCurrent'
  BY <1>1 DEF ClaimInv, RunningIsCurrent
<1> QED BY <1>1, <1>2 DEF ClaimInv

\* It has no job any more, and none of its rows is left running.
LEMMA LoopLeaves ==
  ASSUME TypeOK, ClaimInv, pc' \notin Working, UNCHANGED <<instance, owner>>, mutex'.by # "loop",
         \A j \in JobId : status'[j] = "running" => status[j] = "running",
         dbErrors' = 0 => /\ dbErrors = 0
                          /\ pc \in Working => ~(status'[current] = "running" /\ owner[current] = instance)
  PROVE  ClaimInv'
<1>1. ASSUME NEW j \in JobId, dbErrors' = 0, status'[j] = "running", owner'[j] = instance' PROVE FALSE
  <2>1. current = j /\ pc \in Working
    BY <1>1 DEF ClaimInv, RunningIsCurrent
  <2> QED BY <1>1, <2>1
<1>2. RunningIsCurrent'
  BY <1>1 DEF RunningIsCurrent
<1> QED BY <1>2, WorkingIs DEF ClaimInv

LEMMA RaiseClaim ==
  ASSUME TypeOK, ClaimInv, Raise, UNCHANGED instance, UNCHANGED <<status, owner, cancelRequested>>,
         mutex'.by # "loop",
         dbErrors' = 0 => dbErrors = 0 /\ (pc \in Working => status[current] # "running")
  PROVE  ClaimInv'
<1>1. CASE LoopDies /\ ProcessJobEnds
  BY <1>1, LoopLeaves, WorkingIs DEF LoopDies
<1>2. CASE pc \in {"precheck", "claim", "complete", "cancel"} /\ GoTo("fail") /\ UNCHANGED workVars
  <2>1. pc \in Working /\ pc' = "fail" /\ current' = current
    BY <1>2, WorkingIs DEF GoTo, workVars
  <2>2. RunningIsCurrent'
    BY <2>1, WorkingIs DEF ClaimInv, RunningIsCurrent
  <2> QED BY <2>1, <2>2 DEF ClaimInv
<1> QED BY <1>1, <1>2, Zenon DEF Raise

LEMMA LoopClaim ==
  ASSUME TypeOK, LoopHoldsMutex, RowsSafe, ActorsSafe, ClaimInv, LoopStep
  PROVE  ClaimInv'
<1> USE WorkingIs
<1>1. CASE LoopStops \/ FetchNothing \/ Drained
  <2>1. /\ pc \notin Working /\ pc' \notin Working
        /\ UNCHANGED <<queueVars, current, instance, dbErrors>>
    BY <1>1 DEF LoopStops, FetchNothing, Drained, LoopReturns, GoTo, workVars, lifeVars
  <2> QED BY <2>1, GentleIdle DEF LoopKeeps
<1>2. CASE FetchJob
  <2> PICK j \in First(Eligible) :
        /\ current' = j
        /\ GoTo(IF columns[j].type \in HandledTypes THEN "precheck" ELSE "fail")
    BY <1>2 DEF FetchJob
  <2>1. j \in JobId /\ status[j] = "pending" /\ ~cancelRequested[j]
    BY DEF First, Eligible
  <2>2. /\ pc = "fetch" /\ pc' \in {"precheck", "fail"} /\ mutex.by # "loop"
        /\ UNCHANGED <<status, owner, cancelRequested, mutex, instance, dbErrors>>
    BY <1>2 DEF FetchJob, GoTo, LoopHoldsMutex, Settling, queueVars, rowVars, lifeVars
  <2>3. RunningIsCurrent'
    BY <2>2 DEF ClaimInv, RunningIsCurrent
  <2> QED BY <2>1, <2>2, <2>3 DEF ClaimInv
<1>3. CASE Precheck \/ HandlerReturns \/ HandlerAborts \/ HandlerFails
  <2>1. /\ pc \in Working /\ pc' \in Working /\ UNCHANGED <<queueVars, instance, current, dbErrors>>
        /\ pc' \in {"precheck", "claim"} => pc \in {"precheck", "claim"}
        /\ pc' \notin {"attach", "handler"}
    BY <1>3 DEF Precheck, HandlerReturns, HandlerAborts, HandlerFails, GoTo, workVars, lifeVars
  <2> QED BY <2>1, LoopGoes
<1>4. CASE Claim
  <2>1. /\ current \in JobId /\ pc' \in {"attach", "handler"} /\ UNCHANGED <<current, instance, dbErrors, cancelRequested>>
        /\ mutex.by # "loop" /\ mutex' = mutex
        /\ status' = [status EXCEPT ![current] = "running"] /\ owner' = [owner EXCEPT ![current] = instance]
    BY <1>4 DEF Claim, ClaimRow, Free, TypeOK, GoTo, HandlerStarts, workVars, lifeVars
  <2>2. instance \in Nat /\ pc = "claim"
    BY <1>4 DEF Claim, TypeOK
  <2>3. /\ status'[current] = "running" /\ owner'[current] = instance
        /\ \A j \in JobId : j # current => status'[j] = status[j] /\ owner'[j] = owner[j]
    BY <2>1 DEF TypeOK, QueueTypeOK
  <2>4. \A j \in JobId : owner'[j] <= instance'
    BY <2>1, <2>2, <2>3 DEF ClaimInv, TypeOK, QueueTypeOK
  <2>5. RunningIsCurrent'
    BY <2>1, <2>3 DEF ClaimInv, RunningIsCurrent
  <2> QED BY <2>1, <2>3, <2>4, <2>5 DEF ClaimInv
<1>5. CASE Attach
  <2>1. pc = "attach" /\ pc' = "handler" /\ UNCHANGED <<queueVars, instance, current, dbErrors>>
    BY <1>5 DEF Attach, GoTo, HandlerStarts, lifeVars
  <2> QED BY <2>1, LoopGoes
<1>6. CASE ClaimFindsNoRow \/ LoopFindsNoRow
  <2>1. /\ Raise /\ UNCHANGED <<instance, dbErrors, status, owner, cancelRequested, mutex>> /\ mutex.by # "loop"
        /\ status[current] # "running"
    BY <1>6 DEF ClaimFindsNoRow, LoopFindsNoRow, queueVars, rowVars, lifeVars, Free, RowExists, Active
  <2> QED BY <2>1, RaiseClaim
<1>7. CASE ClaimLost
  <2>1. /\ pc = "claim" /\ pc' = "fetch" /\ UNCHANGED <<instance, dbErrors, status, owner, mutex>> /\ mutex.by # "loop"
    BY <1>7 DEF ClaimLost, GoTo, Free, queueVars, rowVars, lifeVars
  <2>2. status[current] # "running"
    BY <2>1 DEF ClaimInv
  <2> QED BY <2>1, <2>2, LoopLeaves
<1>8. CASE LoopSettles
  <2>1. /\ current \in JobId /\ pc \in Settling /\ Outcome \in Terminal /\ UNCHANGED <<pc, current, instance, dbErrors, owner>>
        /\ status' = [status EXCEPT ![current] = Outcome] /\ mutex'.by = "loop" /\ mutex'.job = current
    BY <1>8 DEF LoopSettles, Settle, Outcome, Terminal, Settling, TypeOK, ctlVars, workVars, lifeVars
  <2>2. Outcome # "running" /\ Outcome # "unused"
    BY <2>1 DEF Terminal
  <2>3. RunningIsCurrent'
    BY <2>1, <2>2 DEF ClaimInv, RunningIsCurrent, TypeOK, QueueTypeOK
  <2> QED BY <2>1, <2>2, <2>3 DEF ClaimInv, Settling, TypeOK, QueueTypeOK
<1>9. CASE LoopDeletes
  <2>1. /\ DeleteRow /\ mutex.by = "loop" /\ mutex.job = current /\ pc' = "fetch" /\ UNCHANGED <<instance, dbErrors>>
    BY <1>9 DEF LoopDeletes, GoTo, lifeVars, ClaimInv
  <2>2. mutex'.by # "loop"
    BY <2>1 DEF DeleteRow, AfterDelete, Free
  <2> QED BY <2>1, <2>2, Deletion, LoopLeaves
<1> QED BY <1>1, <1>2, <1>3, <1>4, <1>5, <1>6, <1>7, <1>8, <1>9 DEF LoopStep

-----------------------------------------------------------------------------
(* Faults *)

LEMMA ErrorsCount == TypeOK /\ DbError => dbErrors' # 0
  BY Constants DEF DbError, TypeOK, ConstantFacts

LEMMA FaultClaim ==
  ASSUME TypeOK, LoopHoldsMutex, ActorsSafe, ClaimInv, FaultStep
  PROVE  ClaimInv'
<1>1. CASE Restart
  <2>1. /\ UNCHANGED <<status, owner>> /\ instance' = instance + 1 /\ mutex' = Free /\ pc' = "idle"
    BY <1>1 DEF Restart, rowVars
  <2>2. \A j \in JobId : owner[j] <= instance /\ owner[j] \in Nat /\ instance \in Nat
    BY DEF ClaimInv, TypeOK, QueueTypeOK
  <2>3. RunningIsCurrent'
    BY <2>1, <2>2 DEF RunningIsCurrent
  <2> QED BY <2>1, <2>2, <2>3, WorkingIs DEF ClaimInv, Free
<1>2. CASE LoopDbError
  <2>1. /\ Raise /\ UNCHANGED <<instance, status, owner, cancelRequested, mutex>> /\ mutex.by # "loop" /\ dbErrors' # 0
    BY <1>2, ErrorsCount DEF LoopDbError, queueVars, rowVars
  <2> QED BY <2>1, RaiseClaim
<1>3. CASE DeleteFails
  <2>1. /\ UNCHANGED <<instance, status, owner, cancelRequested>> /\ mutex' = Free /\ dbErrors' # 0
        /\ Raise \/ UNCHANGED <<pc, current>>
    BY <1>3, ErrorsCount DEF DeleteFails, rowVars, ctlVars, workVars
  <2>2. CASE UNCHANGED <<pc, current>>
    <3>1. RunningIsCurrent'
      BY <2>1 DEF RunningIsCurrent
    <3> QED BY <2>1, <2>2, <3>1 DEF ClaimInv, Free
  <2>3. CASE Raise
    BY <2>1, <2>3, RaiseClaim DEF Free
  <2> QED BY <2>1, <2>2, <2>3
<1>4. CASE BootDbError
  <2>1. LoopKeeps /\ UNCHANGED <<queueVars, instance>> /\ dbErrors' # 0
    BY <1>4, ErrorsCount DEF BootDbError, LoopKeeps, workVars
  <2> QED BY <2>1, GentleIdle
<1> QED BY <1>1, <1>2, <1>3, <1>4 DEF FaultStep

LEMMA ClaimInit == Init => ClaimInv
<1> SUFFICES ASSUME Init PROVE ClaimInv
  OBVIOUS
<1>1. \A j \in JobId : owner[j] = 0 /\ status[j] = "unused"
  BY DEF Init, QueueInit
<1>2. pc = "idle" /\ mutex.by = "nobody" /\ instance = 1
  BY DEF Init, QueueInit, Free
<1> QED BY <1>1, <1>2, WorkingIs DEF ClaimInv, RunningIsCurrent

LEMMA ClaimStep == ASSUME IInv, ClaimInv, [Next]_vars PROVE ClaimInv'
<1>1. TypeOK /\ LoopHoldsMutex /\ RowsSafe /\ ActorsSafe
  BY SafeParts DEF IInv
<1>2. CASE UNCHANGED vars
  <2>1. LoopKeeps /\ UNCHANGED <<queueVars, instance, dbErrors>>
    BY <1>2 DEF vars, ctlVars, workVars, lifeVars, LoopKeeps
  <2> QED BY <1>1, <2>1, GentleIdle
<1> QED BY <1>1, <1>2, OthersClaim, LoopClaim, FaultClaim DEF Next

LEMMA IInvariant == Spec => []IInv
<1>1. Init => IInv
  BY TypeInit, RecoveryInit DEF IInv
<1>2. IInv /\ [Next]_vars => IInv'
  BY RecoveryStep
<1> QED BY <1>1, <1>2, PTL DEF Spec

LEMMA ClaimInvariant == Spec => []ClaimInv
<1>1. IInv /\ ClaimInv /\ [Next]_vars => ClaimInv'
  BY ClaimStep
<1> QED BY <1>1, ClaimInit, IInvariant, PTL DEF Spec

\* No row that this process has claimed is left running without its loop, over every
\* error path of processJob() (as long as no database call fails).
THEOREM NoRowIsAbandoned == Spec => []RunningIsCurrent
<1>1. ClaimInv => RunningIsCurrent
  BY DEF ClaimInv
<1> QED BY <1>1, ClaimInvariant, PTL
-----------------------------------------------------------------------------
(* What a step does to the rows *)

\* Nothing happens to a job; the mutex may be taken for cancelJobs() or released.
QuietRows ==
  /\ UNCHANGED <<status, columns, retryCount, notified>>
  /\ \A j \in JobId : cancelRequested[j] => cancelRequested'[j]
  /\ mutex'.stage \in {"settled", "notified"} => mutex'.stage = mutex.stage /\ mutex'.job = mutex.job

RowsStep ==
  \/ QuietRows
  \/ \E t \in NewJobs : Enqueue(t)
  \/ \E j \in JobId : status[j] = "pending" /\ pc = "claim" /\ j = current /\ ClaimRow(j, instance)
  \/ \E j \in JobId, outcome \in Terminal : \E caller, rest :
       /\ RowExists(j) /\ (status[j] \in Active \/ (pc \in Working /\ j = current))
       /\ mutex.stage \in {"free", "bulk"} /\ Settle(j, outcome, caller, rest)
  \/ Announce
  \/ DeleteRow
  \/ \E j \in JobId : status[j] = "running" /\ retryCount[j] < columns[j].maxRetries /\ ResetRow(j)

LEMMA QuietIfUnchanged == UNCHANGED queueVars => QuietRows
  BY DEF queueVars, rowVars, QuietRows

LEMMA QuietMark ==
  ASSUME TypeOK, NEW j \in JobId, NEW rest, mutex.stage \in {"free", "bulk"}, MarkCancelled(j, rest)
  PROVE  QuietRows
<1>1. mutex' = Free \/ mutex' = [mutex EXCEPT !.todo = rest]
  BY DEF MarkCancelled
<1>2. mutex'.stage \notin {"settled", "notified"}
  BY <1>1 DEF Free, TypeOK, QueueTypeOK
<1> QED BY <1>2 DEF MarkCancelled, QuietRows, TypeOK, QueueTypeOK

LEMMA RowSteps == ASSUME IInv, [Next]_vars PROVE RowsStep
<1>0. TypeOK /\ RowsSafe /\ ActorsSafe
  BY SafeParts DEF IInv
<1>1. CASE UNCHANGED queueVars
  BY <1>1, QuietIfUnchanged DEF RowsStep
<1>2. CASE Claim
  BY <1>0, <1>2 DEF Claim, RowsStep, TypeOK
<1>3. CASE LoopSettles
  <2>1. /\ current \in JobId /\ Outcome \in Terminal /\ RowExists(current) /\ mutex.stage = "free"
        /\ Settle(current, Outcome, "loop", {}) /\ pc \in Working
    BY <1>0, <1>3, WorkingIs DEF LoopSettles, Outcome, Terminal, Settling, TypeOK, Free
  <2> QED BY <2>1 DEF RowsStep
<1>4. CASE LoopDeletes \/ ClientDeletes \/ BootDeletes
  BY <1>4 DEF LoopDeletes, ClientDeletes, BootDeletes, RowsStep
<1>5. CASE BootResets \/ BootSettles
  <2>1. \A j \in First(orphans) : j \in JobId /\ status[j] = "running"
    BY <1>0, <1>5 DEF BootResets, BootSettles, First, Free, TypeOK, ActorsSafe, OrphansStayRunning, Recovering
  <2> QED BY <1>5, <2>1 DEF BootResets, BootSettles, RowsStep, RowExists, Active, Terminal, Free
<1>6. CASE AnnounceCompletion
  BY <1>6 DEF AnnounceCompletion, RowsStep
<1>7. CASE CancelPending \/ BulkCancelsPending
  <2> PICK j \in JobId : status[j] = "pending" /\ \E rest : Settle(j, "cancelled", "client", rest)
    BY <1>0, <1>7 DEF CancelPending, BulkCancelsPending, TypeOK, QueueTypeOK
  <2> PICK rest : Settle(j, "cancelled", "client", rest)
    OBVIOUS
  <2>1. RowExists(j) /\ status[j] \in Active /\ "cancelled" \in Terminal /\ mutex.stage \in {"free", "bulk"}
    BY <1>7 DEF RowExists, Active, Terminal, CancelPending, BulkCancelsPending, Free
  <2> QED BY <2>1 DEF RowsStep
<1>8. CASE CancelRunning \/ BulkMarksRunning
  <2> PICK j \in JobId : \E rest : MarkCancelled(j, rest)
    BY <1>0, <1>8 DEF CancelRunning, BulkMarksRunning, TypeOK, QueueTypeOK
  <2> PICK rest : MarkCancelled(j, rest)
    OBVIOUS
  <2>1. mutex.stage \in {"free", "bulk"}
    BY <1>8 DEF CancelRunning, BulkMarksRunning, Free
  <2> QED BY <1>0, <2>1, QuietMark DEF RowsStep
<1>9. CASE EnqueueJob
  BY <1>9 DEF EnqueueJob, RowsStep
<1>10. CASE BulkCancelStarts
  BY <1>10 DEF BulkCancelStarts, StartBulkCancel, rowVars, QuietRows, RowsStep
<1>11. CASE Restart \/ DeleteFails
  BY <1>11 DEF Restart, DeleteFails, Free, rowVars, QuietRows, RowsStep
<1>12. CASE UNCHANGED vars
  BY <1>1, <1>12 DEF vars
<1>13. CASE LoopStep /\ ~Claim /\ ~LoopSettles /\ ~LoopDeletes
  BY <1>1, <1>13 DEF LoopStep, LoopStops, FetchJob, FetchNothing, Drained, Precheck, Attach, ClaimFindsNoRow,
                    ClaimLost, HandlerReturns, HandlerAborts, HandlerFails, LoopFindsNoRow
<1>14. CASE BootFindsOrphans \/ BootGivesUp \/ BootLaunches \/ StopStep \/ TimerTick \/ StopBegins
  BY <1>1, <1>14 DEF BootFindsOrphans, BootGivesUp, BootLaunches, StopStep, StopFinishes, StopTimesOut, StopEnds,
                    TimerTick, StopBegins
<1>15. CASE LoopDbError \/ BootDbError
  BY <1>1, <1>15 DEF LoopDbError, BootDbError
<1> QED BY <1>2, <1>3, <1>4, <1>5, <1>6, <1>7, <1>8, <1>9, <1>10, <1>11, <1>12, <1>13, <1>14, <1>15
        DEF Next, BootStep, QueueStep, ClientStep, FaultStep

-----------------------------------------------------------------------------
(* The refinement of JobLifecycle *)

LEMMA NotifiedInit == Init => NotifiedInv
  BY DEF Init, QueueInit, Free, NotifiedInv

LEMMA NotifiedStep == ASSUME IInv, NotifiedInv, [Next]_vars PROVE NotifiedInv'
<1>0. /\ TypeOK /\ RowsSafe /\ ActorsSafe /\ RowsStep
      /\ notified \subseteq JobId /\ \A j \in notified : status[j] \notin Active \cup {"unused"}
  BY SafeParts, RowSteps DEF IInv, NotifiedInv, TypeOK, QueueTypeOK, Terminal, Active
<1>1. CASE QuietRows
  BY <1>1 DEF QuietRows, NotifiedInv
<1>2. ASSUME NEW t \in NewJobs, Enqueue(t) PROVE NotifiedInv'
  BY <1>0, <1>2 DEF Enqueue, NotifiedInv, TypeOK, QueueTypeOK, RowsSafe
<1>3. ASSUME NEW j \in JobId, status[j] = "pending", ClaimRow(j, instance) PROVE NotifiedInv'
  BY <1>0, <1>3 DEF ClaimRow, NotifiedInv, TypeOK, QueueTypeOK, Active
<1>4. ASSUME NEW j \in JobId, NEW outcome \in Terminal, NEW caller, NEW rest, Settle(j, outcome, caller, rest)
      PROVE  NotifiedInv'
  BY <1>0, <1>4 DEF Settle, NotifiedInv, TypeOK, QueueTypeOK
<1>5. CASE Announce
  <2>1. mutex.job \in JobId /\ status[mutex.job] \in Terminal
    BY <1>0, <1>5 DEF Announce, TypeOK, QueueTypeOK, ActorsSafe, SettledIsTerminal
  <2>2. mutex'.job = mutex.job /\ status' = status /\ notified' = notified \cup {mutex.job}
    BY <1>0, <1>5 DEF Announce, rowVars, TypeOK, QueueTypeOK
  <2> QED BY <2>1, <2>2 DEF NotifiedInv
<1>6. CASE DeleteRow
  <2>1. mutex'.stage # "notified" /\ notified' = notified
    BY <1>6 DEF DeleteRow, AfterDelete, Free
  <2> QED BY <1>0, <1>6, <2>1, Deletion DEF NotifiedInv
<1>7. ASSUME NEW j \in JobId, status[j] = "running", ResetRow(j) PROVE NotifiedInv'
  BY <1>0, <1>7 DEF ResetRow, NotifiedInv, TypeOK, QueueTypeOK, Active
<1> QED BY <1>0, <1>1, <1>2, <1>3, <1>4, <1>5, <1>6, <1>7 DEF RowsStep

LEMMA NotifiedInvariant == Spec => []NotifiedInv
<1>1. IInv /\ NotifiedInv /\ [Next]_vars => NotifiedInv'
  BY NotifiedStep
<1> QED BY <1>1, NotifiedInit, IInvariant, PTL DEF Spec

Phases == [j \in JobId |-> Phase(j)]

\* One row changes its phase, and the others do not.
LEMMA PhaseMoves ==
  ASSUME NEW j \in JobId, NEW from, NEW to, Phase(j) \in from, Phase(j)' = to,
         \A i \in JobId : i # j => Phase(i)' = Phase(i)
  PROVE  Lifecycle!Move(j, from, to)
<1>1. Phases[j] \in from
  BY DEF Phases
<1>2. Phases' = [Phases EXCEPT ![j] = to]
  BY DEF Phases
<1> QED BY <1>1, <1>2 DEF Lifecycle!Move, Phases

LEMMA PhaseSame ==
  ASSUME NEW j, status'[j] = status[j], (j \in notified') <=> (j \in notified)
  PROVE  Phase(j)' = Phase(j)
  BY DEF Phase

LEMMA PhaseOf ==
  ASSUME NEW j
  PROVE  /\ status[j] = "unused" <=> Phase(j) = "unused"
         /\ status[j] = "pending" <=> Phase(j) = "waiting"
         /\ status[j] = "running" <=> Phase(j) = "running"
         /\ status[j] = "deleted" <=> Phase(j) = "gone"
         /\ status[j] \in Terminal => Phase(j) = IF j \in notified THEN "announced" ELSE "ended"
  BY DEF Phase, Terminal

LEMMA PhaseOfNext ==
  ASSUME NEW j
  PROVE  /\ status'[j] = "unused" <=> Phase(j)' = "unused"
         /\ status'[j] = "pending" <=> Phase(j)' = "waiting"
         /\ status'[j] = "running" <=> Phase(j)' = "running"
         /\ status'[j] = "deleted" <=> Phase(j)' = "gone"
         /\ status'[j] \in Terminal => Phase(j)' = IF j \in notified' THEN "announced" ELSE "ended"
  BY DEF Phase, Terminal

\* Steps that change no phase stutter.
LEMMA Stutters ==
  ASSUME \A j \in JobId : Phase(j)' = Phase(j), UNCHANGED <<columns, retryCount>>
  PROVE  UNCHANGED Lifecycle!lifecycle
<1>1. Phases' = Phases
  BY DEF Phases
<1> QED BY <1>1 DEF Lifecycle!lifecycle, Phases

LEMMA LifecycleInit == Init => Lifecycle!Init
<1> SUFFICES ASSUME Init PROVE Lifecycle!Init
  OBVIOUS
<1>1. Phases = [j \in JobId |-> "unused"]
  BY DEF Init, QueueInit, Phases, Phase
<1>2. (CHOOSE t \in NewJobs : TRUE) \in NewJobs
  BY Constants DEF ConstantFacts
<1>3. columns \in [JobId -> NewJobs] /\ retryCount = [j \in JobId |-> 0]
  BY <1>2 DEF Init, QueueInit
<1> QED BY <1>1, <1>3 DEF Lifecycle!Init, Phases

LEMMA LifecycleStep ==
  ASSUME IInv, NotifiedInv, [Next]_vars
  PROVE  [Lifecycle!Next]_(Lifecycle!lifecycle)
<1>0. /\ TypeOK /\ RowsSafe /\ ActorsSafe /\ RowsStep
      /\ notified \subseteq JobId /\ \A j \in notified : status[j] \notin Active \cup {"unused"}
  BY SafeParts, RowSteps DEF IInv, NotifiedInv, TypeOK, QueueTypeOK, Terminal, Active
<1>1. CASE QuietRows
  BY <1>1, PhaseSame, Stutters DEF QuietRows
<1>2. ASSUME NEW t \in NewJobs, Enqueue(t) PROVE Lifecycle!Next
  <2>0. lastId + 1 \in JobId
    BY <1>0, <1>2, Constants DEF Enqueue, TypeOK, QueueTypeOK, JobId, ConstantFacts
  <2> PICK n \in JobId : n = lastId + 1
    BY <2>0
  <2>1. /\ n \in JobId /\ status[n] = "unused" /\ status' = [status EXCEPT ![n] = "pending"]
        /\ columns' = [columns EXCEPT ![n] = t] /\ UNCHANGED <<retryCount, notified>> /\ ~Duplicate(t)
    BY <1>0, <1>2 DEF Enqueue, RowsSafe, TypeOK, QueueTypeOK, JobId
  <2>2. status'[n] = "pending" /\ \A i \in JobId : i # n => status'[i] = status[i]
    BY <1>0, <2>1 DEF TypeOK, QueueTypeOK
  <2>3. Phase(n) = "unused" /\ Phase(n)' = "waiting"
    BY <2>1, <2>2, PhaseOf, PhaseOfNext
  <2>4. \A i \in JobId : i # n => Phase(i)' = Phase(i)
    BY <2>1, <2>2, PhaseSame
  <2>5. Lifecycle!Move(n, {"unused"}, "waiting")
    BY <2>1, <2>3, <2>4, PhaseMoves
  <2>6. \A i \in JobId : Lifecycle!IsActive(i) => ~Lifecycle!Rivals(columns[i], t)
    <3>1. ASSUME NEW i \in JobId, Lifecycle!IsActive(i) PROVE status[i] \in Active
      <4>1. Phase(i) \in {"waiting", "running"}
        BY <3>1 DEF Lifecycle!IsActive
      <4> QED BY <4>1, PhaseOf DEF Active
    <3> QED BY <2>1, <3>1 DEF Lifecycle!Rivals, Duplicate
  <2> QED BY <2>1, <2>5, <2>6 DEF Lifecycle!Next, Lifecycle!Create
<1>3. ASSUME NEW j \in JobId, status[j] = "pending", ClaimRow(j, instance) PROVE Lifecycle!Next
  <2>1. /\ status'[j] = "running" /\ \A i \in JobId : i # j => status'[i] = status[i]
        /\ UNCHANGED <<columns, retryCount, notified>>
    BY <1>0, <1>3 DEF ClaimRow, TypeOK, QueueTypeOK
  <2>2. Phase(j) \in {"waiting"} /\ Phase(j)' = "running"
    BY <1>3, <2>1, PhaseOf, PhaseOfNext
  <2>3. Lifecycle!Move(j, {"waiting"}, "running")
    BY <2>1, <2>2, PhaseSame, PhaseMoves
  <2> QED BY <2>1, <2>3 DEF Lifecycle!Next, Lifecycle!Start
<1>4. ASSUME NEW j \in JobId, NEW outcome \in Terminal, NEW caller, NEW rest,
             RowExists(j), Settle(j, outcome, caller, rest)
      PROVE  [Lifecycle!Next]_(Lifecycle!lifecycle)
  <2>1. /\ status'[j] = outcome /\ \A i \in JobId : i # j => status'[i] = status[i]
        /\ UNCHANGED <<columns, retryCount, notified>>
    BY <1>0, <1>4 DEF Settle, TypeOK, QueueTypeOK
  <2>2. CASE status[j] \in Active
    <3>1. Phase(j) \in {"waiting", "running"} /\ Phase(j)' = "ended"
      BY <1>0, <2>1, <2>2, PhaseOf, PhaseOfNext DEF Active
    <3>2. Lifecycle!Move(j, {"waiting", "running"}, "ended")
      BY <2>1, <3>1, PhaseSame, PhaseMoves
    <3> QED BY <2>1, <3>2 DEF Lifecycle!Next, Lifecycle!End
  <2>3. CASE status[j] \in Terminal
    <3>1. Phase(j)' = Phase(j)
      BY <2>1, <2>3, PhaseOf, PhaseOfNext
    <3> QED BY <2>1, <3>1, PhaseSame, Stutters
  <2> QED BY <1>4, <2>2, <2>3 DEF RowExists
<1>5. CASE Announce
  <2>0. mutex.job \in JobId
    BY <1>0, <1>5 DEF Announce, TypeOK, QueueTypeOK
  <2> PICK j \in JobId : j = mutex.job
    BY <2>0
  <2>1. /\ j \in JobId /\ status[j] \in Terminal /\ UNCHANGED <<status, columns, retryCount>>
        /\ notified' = notified \cup {j}
    BY <1>0, <1>5 DEF Announce, rowVars, TypeOK, QueueTypeOK, ActorsSafe, SettledIsTerminal
  <2>2. Phase(j)' = "announced" /\ \A i \in JobId : i # j => Phase(i)' = Phase(i)
    BY <2>1, PhaseOfNext, PhaseSame
  <2>3. CASE j \in notified
    <3>1. Phase(j) = "announced"
      BY <2>1, <2>3, PhaseOf
    <3> QED BY <2>1, <2>2, <3>1, Stutters
  <2>4. CASE j \notin notified
    <3>1. Phase(j) \in {"ended"}
      BY <2>1, <2>4, PhaseOf
    <3>2. Lifecycle!Move(j, {"ended"}, "announced")
      BY <2>1, <2>2, <3>1, PhaseMoves
    <3> QED BY <2>1, <3>2 DEF Lifecycle!Next, Lifecycle!Announce
  <2> QED BY <2>3, <2>4
<1>6. CASE DeleteRow
  <2> PICK j \in JobId : j = mutex.job
    BY <1>0, <1>6, Deletion
  <2>1. /\ j \in JobId /\ status[j] \in Terminal /\ j \in notified /\ status'[j] = "deleted"
        /\ \A i \in JobId : i # j => status'[i] = status[i]
        /\ UNCHANGED <<columns, retryCount, notified>>
    BY <1>0, <1>6, Deletion DEF DeleteRow, NotifiedInv
  <2>2. Phase(j) \in {"announced"} /\ Phase(j)' = "gone"
    BY <2>1, PhaseOf, PhaseOfNext
  <2>3. Lifecycle!Move(j, {"announced"}, "gone")
    BY <2>1, <2>2, PhaseSame, PhaseMoves
  <2> QED BY <2>1, <2>3 DEF Lifecycle!Next, Lifecycle!Remove
<1>7. ASSUME NEW j \in JobId, status[j] = "running", retryCount[j] < columns[j].maxRetries, ResetRow(j)
      PROVE  Lifecycle!Next
  <2>1. /\ status'[j] = "pending" /\ \A i \in JobId : i # j => status'[i] = status[i]
        /\ UNCHANGED <<columns, notified>> /\ retryCount' = [retryCount EXCEPT ![j] = @ + 1]
    BY <1>0, <1>7 DEF ResetRow, TypeOK, QueueTypeOK
  <2>2. Phase(j) \in {"running"} /\ Phase(j)' = "waiting"
    BY <1>7, <2>1, PhaseOf, PhaseOfNext
  <2>3. Lifecycle!Move(j, {"running"}, "waiting")
    BY <2>1, <2>2, PhaseSame, PhaseMoves
  <2> QED BY <1>7, <2>1, <2>3 DEF Lifecycle!Next, Lifecycle!Recover
<1> QED BY <1>0, <1>1, <1>2, <1>3, <1>4, <1>5, <1>6, <1>7 DEF RowsStep

\* Queue, processor, clients, crashes and failing database calls show every job the lifecycle of
\* JobLifecycle.  (A DELETE that fails leaves an announced row behind; that it is announced again
\* when the loop comes back to it is a stutter here, and excluded by AnnouncedOnce.)
THEOREM LifecycleImplemented == Spec => ImplementsLifecycle
<1>1. IInv /\ NotifiedInv /\ [Next]_vars => [Lifecycle!Next]_(Lifecycle!lifecycle)
  BY LifecycleStep
<1> QED BY <1>1, LifecycleInit, IInvariant, NotifiedInvariant, PTL DEF Spec, ImplementsLifecycle, Lifecycle!Spec

-----------------------------------------------------------------------------
(* Announced once *)

\* Only a fetch gives the loop a job; only death and failure end an operation half-way.
WorkKeeps ==
  dbErrors' = 0 =>
    /\ dbErrors = 0
    /\ pc' \in Working => \/ pc \in Working /\ current' = current
                          \/ current' \in JobId /\ status'[current'] = "pending"
    /\ (QuietRows /\ mutex.stage \in {"settled", "notified"} /\ pc' \in Working) => UNCHANGED mutex

LEMMA WorkSteps == ASSUME IInv, [Next]_vars PROVE WorkKeeps
<1> USE WorkingIs DEF WorkKeeps
<1>0. TypeOK /\ (mutex = Free => mutex.stage = "free")
  BY DEF IInv, Free
<1>1. ASSUME UNCHANGED <<current, dbErrors, mutex>>, pc' \in Working => pc \in Working PROVE WorkKeeps
  BY <1>1
<1>2. CASE FetchJob
  BY <1>0, <1>2 DEF FetchJob, First, Eligible, queueVars, lifeVars
<1>3. CASE LoopStep /\ ~FetchJob
  <2>1. /\ pc' \in Working => pc \in Working /\ current' = current
        /\ UNCHANGED dbErrors
    BY <1>3 DEF LoopStep, LoopStops, LoopReturns, FetchNothing, Drained, Precheck, Claim, Attach, ClaimFindsNoRow,
         ClaimLost, HandlerReturns, HandlerAborts, HandlerFails, LoopSettles, LoopFindsNoRow, LoopDeletes,
         HandlerStarts, GoTo, Raise, LoopDies, ctlVars, workVars, lifeVars
  <2>2. mutex.stage \in {"settled", "notified"} => UNCHANGED mutex \/ pc' \notin Working
    BY <1>0, <1>3 DEF LoopStep, LoopStops, FetchNothing, Drained, Precheck, Claim, Attach, ClaimFindsNoRow,
         ClaimLost, HandlerReturns, HandlerAborts, HandlerFails, LoopSettles, LoopFindsNoRow, LoopDeletes, GoTo,
         queueVars
  <2> QED BY <2>1, <2>2
<1>4. CASE EnqueueJob \/ AnnounceCompletion
  <2>1. LoopKeeps /\ UNCHANGED dbErrors
    BY <1>4, WakeupKeeps DEF EnqueueJob, AnnounceCompletion, workVars, lifeVars
  <2>2. mutex.stage \in {"settled", "notified"} /\ QuietRows => UNCHANGED mutex
    BY <1>0, <1>4 DEF EnqueueJob, Enqueue, AnnounceCompletion, Announce, QuietRows, TypeOK, QueueTypeOK
  <2> QED BY <2>1, <2>2 DEF LoopKeeps
<1>5. CASE BootDeletes \/ ClientDeletes
  <2>1. UNCHANGED <<pc, current, dbErrors>>
    BY <1>5 DEF BootDeletes, ClientDeletes, ctlVars, workVars, lifeVars
  <2>2. ~QuietRows
    <3>1. DeleteRow /\ ActorsSafe
      BY <1>5, SafeParts DEF BootDeletes, ClientDeletes, IInv
    <3>2. mutex.job \in JobId /\ status[mutex.job] \in Terminal /\ status'[mutex.job] = "deleted"
      BY <1>0, <3>1, Deletion
    <3> QED BY <3>2 DEF QuietRows, Terminal
  <2> QED BY <2>1, <2>2
<1>6. CASE CancelPending \/ BulkCancelsPending \/ CancelRunning \/ BulkMarksRunning \/ BulkCancelStarts \/ BootSettles
  <2>1. UNCHANGED <<pc, current, dbErrors>> /\ mutex.stage \notin {"settled", "notified"}
    BY <1>0, <1>6 DEF CancelPending, BulkCancelsPending, CancelRunning, BulkMarksRunning, NotifyCancellation,
         BulkCancelStarts, StartBulkCancel, BootSettles, ctlVars, workVars, lifeVars
  <2> QED BY <2>1
<1>7. CASE BootFindsOrphans \/ BootResets \/ BootGivesUp \/ StopStep \/ StopBegins \/ UNCHANGED vars
  BY <1>1, <1>7 DEF BootFindsOrphans, BootResets, ResetRow, BootGivesUp, StopStep, StopFinishes, StopTimesOut,
       StopEnds, StopBegins, vars, queueVars, ctlVars, workVars, lifeVars
<1>8. CASE BootLaunches \/ TimerTick
  <2>1. pc' = pc \/ pc' \in {"idle", "fetch"}
    BY <1>8, Zenon DEF BootLaunches, TimerTick, LoopStarts, LoopReturns
  <2> QED BY <1>1, <1>8, <2>1 DEF BootLaunches, TimerTick, queueVars, workVars, lifeVars
<1>9. CASE Restart
  BY <1>9 DEF Restart
<1>10. CASE LoopDbError \/ DeleteFails \/ BootDbError
  BY <1>0, <1>10, ErrorsCount DEF LoopDbError, DeleteFails, BootDbError
<1> QED BY <1>2, <1>3, <1>4, <1>5, <1>6, <1>7, <1>8, <1>9, <1>10
        DEF Next, BootStep, QueueStep, ClientStep, FaultStep

LEMMA EndedInit == Init => EndedInv
  BY WorkingIs DEF Init, QueueInit, Free, EndedInv

LEMMA EndedStep ==
  ASSUME IInv, ClaimInv, NotifiedInv, EndedInv, [Next]_vars
  PROVE  EndedInv'
<1> SUFFICES ASSUME dbErrors' = 0
             PROVE  /\ (pc' \in Working /\ status'[current'] \in Terminal) =>
                         mutex'.stage \in {"settled", "notified"} /\ mutex'.job = current'
                    /\ mutex'.stage = "settled" => mutex'.job \notin notified'
  BY DEF EndedInv
<1> DEFINE Old == pc \in Working /\ status[current] \in Terminal
           New == pc' \in Working /\ status'[current'] \in Terminal
<1>0. /\ TypeOK /\ RowsSafe /\ ActorsSafe /\ RowsStep
      /\ notified \subseteq JobId /\ \A j \in notified : status[j] \notin Active \cup {"unused"}
  BY SafeParts, RowSteps DEF IInv, NotifiedInv, TypeOK, QueueTypeOK, Terminal, Active
<1>1. /\ New => pc \in Working /\ current' = current /\ current \in JobId
      /\ Old => mutex.stage \in {"settled", "notified"} /\ mutex.job = current
      /\ mutex.stage = "settled" => mutex.job \notin notified
      /\ (QuietRows /\ mutex.stage \in {"settled", "notified"} /\ pc' \in Working) => UNCHANGED mutex
  BY <1>0, WorkSteps DEF WorkKeeps, EndedInv, Terminal, TypeOK
<1>2. CASE QuietRows
  <2>1. New => Old /\ UNCHANGED mutex
    BY <1>1, <1>2 DEF QuietRows
  <2>2. mutex'.stage = "settled" => mutex.stage = "settled" /\ mutex'.job = mutex.job
    BY <1>2 DEF QuietRows
  <2> QED BY <1>1, <1>2, <2>1, <2>2 DEF QuietRows
<1>3. ASSUME \E t \in NewJobs : Enqueue(t)
      PROVE  ~New /\ mutex'.stage # "settled"
  <2>1. mutex.stage = "free" /\ mutex' = mutex /\ status' = [status EXCEPT ![lastId + 1] = "pending"]
    BY <1>3 DEF Enqueue, Free
  <2>2. New => Old
    BY <1>0, <1>1, <2>1 DEF TypeOK, QueueTypeOK, Terminal
  <2> QED BY <1>1, <2>1, <2>2
<1>4. ASSUME NEW j \in JobId, status[j] = "pending", ClaimRow(j, instance)
      PROVE  (New => Old) /\ UNCHANGED <<mutex, notified>>
  BY <1>0, <1>1, <1>4 DEF ClaimRow, TypeOK, QueueTypeOK, Terminal
<1>5. ASSUME NEW j \in JobId, NEW outcome \in Terminal, NEW caller, NEW rest,
             status[j] \in Active \/ (pc \in Working /\ j = current), RowExists(j),
             mutex.stage \in {"free", "bulk"}, Settle(j, outcome, caller, rest)
      PROVE  /\ New => mutex'.stage = "settled" /\ mutex'.job = current'
             /\ mutex'.job \notin notified'
  <2>1. mutex'.stage = "settled" /\ mutex'.job = j /\ notified' = notified /\ ~Old
    BY <1>1, <1>5 DEF Settle
  <2>2. \A i \in JobId : i # j => status'[i] = status[i]
    BY <1>0, <1>5 DEF Settle, TypeOK, QueueTypeOK
  <2>3. status[j] \in Active
    BY <1>5, <2>1 DEF RowExists
  <2> QED BY <1>0, <1>1, <2>1, <2>2, <2>3
<1>6. CASE Announce
  <2>1. /\ mutex.stage = "settled" /\ mutex'.stage = "notified" /\ mutex'.job = mutex.job /\ status' = status
    BY <1>0, <1>6 DEF Announce, rowVars, TypeOK, QueueTypeOK
  <2> QED BY <1>1, <2>1
<1>7. CASE DeleteRow
  <2>1. mutex'.stage \notin {"settled", "notified"} /\ status'[mutex.job] = "deleted"
        /\ \A i \in JobId : i # mutex.job => status'[i] = status[i]
    BY <1>0, <1>7, Deletion
  <2>2. ~New
    BY <1>1, <2>1 DEF Terminal
  <2> QED BY <2>1, <2>2
<1>8. ASSUME NEW j \in JobId, status[j] = "running", ResetRow(j)
      PROVE  (New => Old) /\ UNCHANGED <<mutex, notified>>
  BY <1>0, <1>1, <1>8 DEF ResetRow, TypeOK, QueueTypeOK, Terminal
<1> QED BY <1>0, <1>1, <1>2, <1>3, <1>4, <1>5, <1>6, <1>7, <1>8 DEF RowsStep

\* A job is announced once, over all processes.
AnnouncedOnce ==
  [][(mutex.stage = "settled" /\ mutex'.stage = "notified") => mutex.job \notin notified]_vars

\* No subscriber hears twice of the same job and JOB_COMPLETED is published once, if no database
\* call fails: the loop does not come back to a job that a client has cancelled, and recovery
\* does not touch one that a dead process has ended (notifyCompletionAndDelete).
THEOREM JobsAreAnnouncedOnce ==
  ASSUME MaxDbErrors = 0
  PROVE  Spec => AnnouncedOnce
<1>1. IInv /\ ClaimInv /\ NotifiedInv /\ EndedInv /\ [Next]_vars => EndedInv'
  BY EndedStep
<1>2. IInv /\ EndedInv /\ [Next]_vars =>
        [(mutex.stage = "settled" /\ mutex'.stage = "notified") => mutex.job \notin notified]_vars
  BY DEF EndedInv, IInv, TypeOK
<1> QED BY <1>1, <1>2, EndedInit, IInvariant, ClaimInvariant, NotifiedInvariant, PTL DEF Spec, AnnouncedOnce

-----------------------------------------------------------------------------
(* Cancellation *)

LEMMA ClaimsUnmarked ==
  ASSUME IInv, ClaimInv, [Next]_vars, NEW j \in JobId, cancelRequested[j], status'[j] = "running"
  PROVE  status[j] = "running"
<1>0. TypeOK /\ RowsStep /\ ActorsSafe
  BY RowSteps, SafeParts DEF IInv
<1>1. CASE QuietRows
  BY <1>1 DEF QuietRows
<1>2. ASSUME NEW t \in NewJobs, Enqueue(t) PROVE status[j] = "running"
  BY <1>0, <1>2 DEF Enqueue, TypeOK, QueueTypeOK
<1>3. ASSUME NEW i \in JobId, status[i] = "pending", pc = "claim", i = current, ClaimRow(i, instance)
      PROVE  status[j] = "running"
  <2>1. i # j
    BY <1>3 DEF ClaimInv
  <2> QED BY <1>0, <1>3, <2>1 DEF ClaimRow, TypeOK, QueueTypeOK
<1>4. ASSUME NEW i \in JobId, NEW outcome \in Terminal, NEW caller, NEW rest, Settle(i, outcome, caller, rest)
      PROVE  status[j] = "running"
  BY <1>0, <1>4 DEF Settle, Terminal, TypeOK, QueueTypeOK
<1>5. CASE Announce
  BY <1>5 DEF Announce
<1>6. CASE DeleteRow
  BY <1>0, <1>6, Deletion
<1>7. ASSUME NEW i \in JobId, status[i] = "running", ResetRow(i) PROVE status[j] = "running"
  BY <1>0, <1>7 DEF ResetRow, TypeOK, QueueTypeOK
<1> QED BY <1>0, <1>1, <1>2, <1>3, <1>4, <1>5, <1>6, <1>7 DEF RowsStep

\* A job marked for cancellation is never claimed, neither between its selection and its claim nor after
\* a recovery that leaves cancelledAt as it was, by any process.
THEOREM MarkedJobsStayUnclaimed == Spec => CancelledNeverClaimed
<1>1. IInv /\ ClaimInv /\ [Next]_vars =>
        [\A j \in JobId : (cancelRequested[j] /\ status'[j] = "running") => status[j] = "running"]_vars
  BY ClaimsUnmarked
<1> QED BY <1>1, IInvariant, ClaimInvariant, PTL DEF Spec, CancelledNeverClaimed

\* A handler that runs goes on with what its token knows, and new marks reach the token.
TokenKeeps ==
  /\ pc' # "attach"
  /\ (pc' = "handler" /\ stop' # "stopped") =>
       /\ pc = "handler" /\ current' = current /\ stop # "stopped"
       /\ attached => attached'
       /\ token => token'
       /\ (attached /\ cancelRequested'[current]) => cancelRequested[current] \/ token'

LEMMA TokenKept == TokenInv /\ TokenKeeps => TokenInv'
  BY DEF TokenInv, TokenKeeps, CancellationReachesHandler

LEMMA TokenStep ==
  ASSUME ~PayloadEncryption, IInv, ClaimInv, TokenInv, [Next]_vars
  PROVE  TokenInv'
<1> USE WorkingIs
<1>0. /\ TypeOK /\ RowsSafe /\ ActorsSafe /\ LoopHoldsMutex /\ pc # "attach"
      /\ pc = "handler" => current \in JobId /\ status[current] = "running"
  BY SafeParts DEF IInv, TokenInv, ClaimInv, TypeOK
<1>1. ASSUME UNCHANGED <<token, attached, current, cancelRequested>>,
             stop' = stop \/ (stop' \in {"waiting", "stopped"} /\ stop # "stopped") \/ stop' = "stopped",
             pc' = pc \/ pc' \notin {"attach", "handler"}
      PROVE  TokenInv'
  BY <1>0, <1>1, TokenKept DEF TokenKeeps
<1>2. ASSUME pc' \notin {"attach", "handler"} PROVE TokenInv'
  BY <1>2, TokenKept DEF TokenKeeps
<1>3. CASE Claim
  <2>1. /\ pc' = "handler" /\ attached' = TRUE /\ current' = current /\ cancelRequested' = cancelRequested
        /\ ~cancelRequested[current]
    BY <1>3 DEF Claim, GoTo, HandlerStarts, ClaimRow, ClaimInv
  <2> QED BY <2>1 DEF TokenInv, CancellationReachesHandler
<1>4. CASE LoopStep /\ ~Claim
  <2>1. pc' \notin {"attach", "handler"}
    BY <1>0, <1>4 DEF LoopStep, LoopStops, LoopReturns, FetchJob, FetchNothing, Drained, Precheck, Attach,
         ClaimFindsNoRow, ClaimLost, HandlerReturns, HandlerAborts, HandlerFails, LoopSettles, LoopFindsNoRow,
         LoopDeletes, GoTo, Raise, LoopDies, Settling, ctlVars
  <2> QED BY <1>2, <2>1
<1>5. CASE BootSettles \/ CancelPending \/ BulkCancelsPending
  <2> PICK j \in JobId : /\ \E outcome, caller, rest : Settle(j, outcome, caller, rest)
                         /\ pc = "handler" => j # current
    <3>1. CASE BootSettles
      <4> PICK j \in First(orphans) : Settle(j, "failed", "boot", {})
        BY <3>1 DEF BootSettles
      <4>1. j \in JobId /\ (pc = "handler" => j # current)
        BY <1>0, <3>1 DEF BootSettles, First, TypeOK, ActorsSafe, LoopAvoidsOrphans, Recovering
      <4> QED BY <4>1
    <3>2. CASE CancelPending \/ BulkCancelsPending
      BY <1>0, <3>2 DEF CancelPending, BulkCancelsPending, TypeOK, QueueTypeOK
    <3> QED BY <1>5, <3>1, <3>2
  <2> PICK outcome, caller, rest : Settle(j, outcome, caller, rest)
    OBVIOUS
  <2>1. /\ UNCHANGED <<pc, token, attached, current, stop>>
        /\ pc = "handler" => cancelRequested'[current] = cancelRequested[current]
    BY <1>0, <1>5 DEF BootSettles, CancelPending, BulkCancelsPending, Settle, ctlVars, workVars, lifeVars,
         TypeOK, QueueTypeOK
  <2> QED BY <1>0, <2>1, TokenKept DEF TokenKeeps
<1>6. CASE CancelRunning \/ BulkMarksRunning
  <2> PICK j \in JobId : (\E rest : MarkCancelled(j, rest)) /\ NotifyCancellation(j)
    BY <1>0, <1>6 DEF CancelRunning, BulkMarksRunning, TypeOK, QueueTypeOK
  <2> PICK rest : MarkCancelled(j, rest)
    OBVIOUS
  <2>1. /\ UNCHANGED <<pc, attached, current, stop>> /\ token' = (token \/ (attached /\ current = j))
        /\ pc = "handler" /\ j # current => cancelRequested'[current] = cancelRequested[current]
    BY <1>0, <1>6 DEF CancelRunning, BulkMarksRunning, MarkCancelled, NotifyCancellation, ctlVars, lifeVars,
         TypeOK, QueueTypeOK
  <2>2. TokenKeeps
    BY <1>0, <2>1 DEF TokenKeeps
  <2> QED BY <2>2, TokenKept DEF TokenInv
<1>7. CASE AnnounceCompletion
  <2>1. /\ UNCHANGED <<token, current, cancelRequested, stop>> /\ attached' = (attached /\ mutex.job # current)
        /\ LoopKeeps /\ mutex.stage = "settled"
    BY <1>7, WakeupKeeps DEF AnnounceCompletion, Announce, rowVars, lifeVars
  <2>2. pc = "handler" => mutex.job # current
    BY <1>0, <2>1 DEF ActorsSafe, SettledIsTerminal, Terminal
  <2>3. pc' = pc \/ pc' \notin Working
    BY <2>1 DEF LoopKeeps
  <2> QED BY <1>0, <2>1, <2>2, <2>3, TokenKept DEF TokenKeeps
<1>8. CASE EnqueueJob
  <2>1. /\ UNCHANGED <<token, attached, current, cancelRequested, stop>> /\ LoopKeeps
    BY <1>8, WakeupKeeps DEF EnqueueJob, Enqueue, workVars, lifeVars
  <2> QED BY <1>1, <2>1 DEF LoopKeeps
<1>9. CASE BootFindsOrphans \/ BootResets \/ BootGivesUp \/ BootDeletes \/ ClientDeletes \/ BulkCancelStarts \/ BootDbError
            \/ UNCHANGED vars
  BY <1>1, <1>9 DEF BootFindsOrphans, BootResets, ResetRow, BootGivesUp, BootDeletes, ClientDeletes, DeleteRow,
       BulkCancelStarts, StartBulkCancel, BootDbError, vars, queueVars, rowVars, ctlVars, workVars, lifeVars
<1>10. CASE BootLaunches \/ TimerTick
  <2>1. pc' = pc \/ pc' \in {"idle", "fetch"}
    BY <1>10, Zenon DEF BootLaunches, TimerTick, LoopStarts, LoopReturns
  <2> QED BY <1>1, <1>10, <2>1 DEF BootLaunches, TimerTick, queueVars, rowVars, workVars, lifeVars
<1>11. CASE StopBegins
  BY <1>1, <1>11 DEF StopBegins, queueVars, rowVars, workVars
<1>12. CASE StopStep
  <2>1. stop' = "stopped" /\ pc' = pc
    BY <1>12 DEF StopStep, StopFinishes, StopTimesOut, StopEnds, ctlVars
  <2> QED BY <1>0, <2>1, TokenKept DEF TokenKeeps
<1>13. CASE Restart
  BY <1>2, <1>13 DEF Restart
<1>14. CASE LoopDbError
  BY <1>2, <1>14 DEF LoopDbError, Raise, GoTo, LoopDies
<1>15. CASE DeleteFails
  <2>1. CASE Raise
    BY <1>2, <2>1 DEF Raise, GoTo, LoopDies
  <2>2. CASE ~Raise
    BY <1>1, <1>15, <2>2 DEF DeleteFails, rowVars, ctlVars, workVars
  <2> QED BY <2>1, <2>2
<1> QED BY <1>3, <1>4, <1>5, <1>6, <1>7, <1>8, <1>9, <1>10, <1>11, <1>12, <1>13, <1>14, <1>15
        DEF Next, BootStep, QueueStep, ClientStep, FaultStep

\* While a handler runs, a cancellation accepted since its claim is on its token, provided that
\* claimJob() awaits nothing after its UPDATE (a payload to decrypt), before the token subscribes.
THEOREM CancellationsReachHandlers ==
  ASSUME ~PayloadEncryption
  PROVE  Spec => []CancellationReachesHandler
<1>1. Init => TokenInv
  BY DEF Init, TokenInv, CancellationReachesHandler
<1>2. IInv /\ ClaimInv /\ TokenInv /\ [Next]_vars => TokenInv'
  BY TokenStep
<1>3. TokenInv => CancellationReachesHandler
  BY DEF TokenInv
<1> QED BY <1>1, <1>2, <1>3, IInvariant, ClaimInvariant, PTL DEF Spec

-----------------------------------------------------------------------------
(* Wake-ups *)

\* every job to be served is one that recovery has reset
OnlyResets == \A j \in Eligible : retryCount[j] > 0

LEMMA ResetsRemain ==
  ASSUME IInv, [Next]_vars, ~EnqueueJob, OnlyResets
  PROVE  OnlyResets'
<1>0. /\ TypeOK /\ RowsStep /\ ActorsSafe
      /\ \A j \in JobId : retryCount[j] \in Nat
      /\ \A j \in JobId : status[j] = "pending" /\ ~cancelRequested[j] => retryCount[j] > 0
  BY RowSteps, SafeParts DEF IInv, TypeOK, QueueTypeOK, OnlyResets, Eligible
<1> USE DEF OnlyResets, Eligible
<1>1. CASE QuietRows
  BY <1>0, <1>1 DEF QuietRows
<1>2. ~\E t \in NewJobs : Enqueue(t)
  <2> SUFFICES ASSUME NEW t \in NewJobs, Enqueue(t) PROVE FALSE
    OBVIOUS
  <2>1. mutex = Free /\ lastId' = lastId + 1 /\ lastId \in Nat
    BY <1>0 DEF Enqueue, TypeOK, QueueTypeOK
  <2>2. ~UNCHANGED lastId
    BY <2>1
  <2> QED BY <2>2
          DEF Next, LoopStep, LoopStops, FetchJob, FetchNothing, Drained, Precheck, Claim, ClaimRow, Attach,
              ClaimFindsNoRow, ClaimLost, HandlerReturns, HandlerAborts, HandlerFails, LoopSettles, Settle,
              LoopFindsNoRow, LoopDeletes, DeleteRow, BootStep, BootFindsOrphans, BootResets, ResetRow, BootGivesUp,
              BootSettles, BootDeletes, BootLaunches, QueueStep, AnnounceCompletion, Announce, ClientDeletes,
              BulkCancelsPending, BulkMarksRunning, MarkCancelled, StopStep, StopFinishes, StopTimesOut, StopEnds,
              TimerTick, ClientStep, CancelPending, CancelRunning, BulkCancelStarts, StartBulkCancel, StopBegins,
              FaultStep, Restart, LoopDbError, DeleteFails, BootDbError, vars, queueVars, rowVars
<1>3. ASSUME NEW j \in JobId, ClaimRow(j, instance) PROVE OnlyResets'
  BY <1>0, <1>3 DEF ClaimRow, TypeOK, QueueTypeOK
<1>4. ASSUME NEW j \in JobId, NEW outcome \in Terminal, NEW caller, NEW rest, Settle(j, outcome, caller, rest)
      PROVE  OnlyResets'
  BY <1>0, <1>4 DEF Settle, Terminal, TypeOK, QueueTypeOK
<1>5. CASE Announce
  BY <1>0, <1>5 DEF Announce, rowVars
<1>6. CASE DeleteRow
  BY <1>0, <1>6 DEF DeleteRow, rowVars, TypeOK, QueueTypeOK
<1>7. ASSUME NEW j \in JobId, ResetRow(j) PROVE OnlyResets'
  BY <1>0, <1>7 DEF ResetRow, TypeOK, QueueTypeOK
<1> QED BY <1>0, <1>1, <1>2, <1>3, <1>4, <1>5, <1>6, <1>7 DEF RowsStep

Resting    == pc = "idle" /\ boot = "done" /\ stop = "no" /\ failures = 0
AboutToEnd == pc = "drained" /\ stop = "no" /\ ~wakeup

LEMMA WakeupParts ==
  /\ WakeupInv <=> (Resting \/ AboutToEnd => OnlyResets)
  /\ WakeupInv' <=> (Resting' \/ AboutToEnd' => OnlyResets')
  BY DEF WakeupInv, NoLostWakeup, Resting, AboutToEnd, OnlyResets

\* The loop rests only after it was about to end.
LEMMA RestSteps ==
  ASSUME TypeOK, [Next]_vars, ~EnqueueJob, ~FetchNothing, Resting' \/ AboutToEnd'
  PROVE  Resting \/ AboutToEnd
<1> USE DEF Resting, AboutToEnd
<1>0. failures \in 0..MaxConsecutiveFailures /\ MaxConsecutiveFailures \in Nat \ {0}
  BY Constants DEF TypeOK, ConstantFacts
<1>1. ASSUME LoopDies PROVE FALSE
  <2>1. pc' = "idle" /\ (launcher = "boot" => boot' = "failed")
        /\ (launcher # "boot" => failures' = IF failures = MaxConsecutiveFailures THEN failures ELSE failures + 1)
    BY <1>1 DEF LoopDies
  <2> QED BY <1>0, <2>1
<1>2. ASSUME NEW who, LoopStarts(who), UNCHANGED stop PROVE FALSE
  <2>1. pc' = "fetch" \/ (pc' = "idle" /\ stop = "waiting")
    BY <1>2, Zenon DEF LoopStarts, LoopReturns, stopRequested
  <2> QED BY <1>2, <2>1
<1>3. CASE LoopStops \/ Drained
  <2>1. CASE LoopStops
    BY <2>1 DEF LoopStops, LoopReturns, lifeVars, stopRequested
  <2>2. CASE Drained
    <3>1. pc = "drained" /\ stop' = stop /\ (pc' = "fetch" \/ ~wakeup \/ stopRequested)
      BY <2>2, Zenon DEF Drained, lifeVars
    <3> QED BY <3>1 DEF stopRequested
  <2> QED BY <1>3, <2>1, <2>2
<1>4. CASE LoopStep /\ ~LoopStops /\ ~Drained
  <2>1. CASE Raise
    BY <1>1, <2>1 DEF Raise, GoTo
  <2>2. CASE ~Raise
    BY <1>4, <2>2
       DEF LoopStep, FetchJob, Precheck, Claim, Attach, ClaimFindsNoRow, ClaimLost, HandlerReturns, HandlerAborts,
           HandlerFails, LoopSettles, LoopFindsNoRow, LoopDeletes, GoTo, Settling, ctlVars
  <2> QED BY <2>1, <2>2
<1>5. CASE AnnounceCompletion
  <2>1. stop' = stop
    BY <1>5 DEF AnnounceCompletion, lifeVars
  <2>2. \/ UNCHANGED ctlVars
        \/ LoopStarts("wakeup")
        \/ wakeup' = TRUE /\ pc' = pc /\ pc # "idle"
    BY <1>5, Zenon DEF AnnounceCompletion, Wakeup
  <2> QED BY <1>2, <2>1, <2>2 DEF ctlVars
<1>6. CASE BootLaunches
  <2>1. stop' = stop /\ (LoopStarts("boot") \/ (pc # "idle" /\ UNCHANGED <<pc, wakeup>>))
    BY <1>6, Zenon DEF BootLaunches
  <2> QED BY <1>2, <2>1
<1>7. CASE TimerTick
  <2>1. stop' = stop /\ (LoopStarts("timer") \/ (pc # "idle" /\ UNCHANGED <<pc, wakeup>>))
    BY <1>7, Zenon DEF TimerTick, lifeVars
  <2> QED BY <1>2, <2>1
<1>8. CASE BootFindsOrphans \/ BootResets \/ BootGivesUp \/ BootSettles \/ BootDeletes
  BY <1>8 DEF BootFindsOrphans, BootResets, BootGivesUp, BootSettles, BootDeletes, ctlVars, lifeVars
<1>9. CASE ClientDeletes \/ BulkCancelsPending \/ BulkMarksRunning \/ CancelPending \/ CancelRunning \/ BulkCancelStarts
  BY <1>9 DEF ClientDeletes, BulkCancelsPending, BulkMarksRunning, CancelPending, CancelRunning, BulkCancelStarts,
              ctlVars, lifeVars
<1>10. CASE StopStep \/ StopBegins
  BY <1>10 DEF StopStep, StopFinishes, StopTimesOut, StopEnds, StopBegins, ctlVars
<1>11. CASE Restart
  BY <1>11 DEF Restart
<1>12. CASE LoopDbError
  BY <1>1, <1>12 DEF LoopDbError, Raise, GoTo
<1>13. CASE DeleteFails
  <2>1. CASE Raise
    BY <1>1, <2>1 DEF Raise, GoTo
  <2>2. CASE ~Raise
    BY <1>13, <2>2 DEF DeleteFails, ctlVars
  <2> QED BY <2>1, <2>2
<1>14. CASE BootDbError
  BY <1>14 DEF BootDbError
<1>15. CASE UNCHANGED vars
  BY <1>15 DEF vars, ctlVars, lifeVars
<1> QED BY <1>3, <1>4, <1>5, <1>6, <1>7, <1>8, <1>9, <1>10, <1>11, <1>12, <1>13, <1>14, <1>15
        DEF Next, BootStep, QueueStep, ClientStep, FaultStep

LEMMA WakeupStep == ASSUME IInv, WakeupInv, [Next]_vars PROVE WakeupInv'
<1>0. TypeOK
  BY DEF IInv
<1>1. CASE EnqueueJob
  <2>1. stop' = stop /\ Wakeup
    BY <1>1 DEF EnqueueJob, lifeVars
  <2>2. ~Resting' /\ ~AboutToEnd'
    <3>1. stop = "no" => pc' = "fetch" \/ (pc' = pc /\ pc # "idle" /\ wakeup' = TRUE)
      BY <2>1, Zenon DEF Wakeup, LoopStarts, stopRequested, Subscribed
    <3> QED BY <2>1, <3>1 DEF Resting, AboutToEnd
  <2> QED BY <2>2, WakeupParts
<1>2. CASE FetchNothing
  <2>1. Eligible = {} /\ UNCHANGED <<status, cancelRequested>>
    BY <1>2 DEF FetchNothing, queueVars, rowVars
  <2>2. Eligible' = {}
    BY <2>1 DEF Eligible
  <2> QED BY <2>2, WakeupParts DEF OnlyResets
<1>3. CASE ~EnqueueJob /\ ~FetchNothing
  BY <1>0, <1>3, RestSteps, ResetsRemain, WakeupParts
<1> QED BY <1>1, <1>2, <1>3

\* requestWakeup() may come at any await of processLoop(): an idle, started processor whose last run
\* did not fail leaves no job that was enqueued, over any number of jobs, processes and errors.
THEOREM WakeupsAreNotLost == Spec => []NoLostWakeup
<1>1. Init => WakeupInv
  BY DEF Init, WakeupInv, NoLostWakeup
<1>2. IInv /\ WakeupInv /\ [Next]_vars => WakeupInv'
  BY WakeupStep
<1>3. WakeupInv => NoLostWakeup
  BY DEF WakeupInv
<1> QED BY <1>1, <1>2, <1>3, IInvariant, PTL DEF Spec
=============================================================================
