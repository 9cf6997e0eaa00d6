------------------------ MODULE DatabaseSupervision ------------------------
(***************************************************************************)
(* SurrealSupervisor, SurrealHealthMonitor and SurrealProcessManager over  *)
(* the SurrealDB processes that they start.  Every process listens on the  *)
(* one configured port, so that a process that was given up can still      *)
(* answer for the one that replaced it.                                    *)
(*                                                                         *)
(* start() and stop(), which main.ts calls once each, run on one track and *)
(* restart(), which the cooldown timer calls, on another; both use the     *)
(* process manager, whose calls may overlap.                               *)
(*                                                                         *)
(* Timing: the cooldown (5 s) is shorter than the failureThreshold checks  *)
(* (5 s apart) that the status needs to become unhealthy once more.        *)
(***************************************************************************)
EXTENDS Naturals, FiniteSets, FiniteSetsExt

CONSTANTS
  Children,           \* bound: processes that are spawned, numbered
  MaxRestartAttempts,
  FailureThreshold

ASSUME SupervisionAssumption ==
  Children \subseteq Nat \ {0} /\ MaxRestartAttempts \in Nat /\ FailureThreshold \in Nat \ {0}

NoChild == 0
Tracks  == {"main", "restart"}

VARIABLES
  child,      \* the operating system's processes; "exited": the exit handler has not run
  handle,     \* processManager.process
  isStopping, \* processManager.isStopping
  track,      \* where start()/stop() and restart() are, and the process that stop() awaits
  monitor,    \* the health monitor
  supervisor  \* the supervisor, with its subscription and its cooldown timer

supervisionVars == <<child, handle, isStopping, track, monitor, supervisor>>

Idling == [step |-> "idle", awaits |-> NoChild]

SupervisionTypeOK ==
  /\ child \in [Children -> {"none", "booting", "serving", "hung", "exited", "dead"}]
  /\ handle \in Children \cup {NoChild} /\ isStopping \in BOOLEAN
  /\ track \in [Tracks -> [step : {"idle", "kill", "spawn", "ready", "verify", "close"},
                           awaits : Children \cup {NoChild}]]
  /\ monitor \in [on : BOOLEAN, status : {"stopped", "healthy", "degraded", "unhealthy"},
                  failures : 0..FailureThreshold, isChecking : BOOLEAN]
  /\ supervisor \in [isRunning : BOOLEAN, subscribed : BOOLEAN, cooldown : BOOLEAN,
                     attempts : 0..MaxRestartAttempts]

SupervisionInit ==
  /\ child = [c \in Children |-> "none"] /\ handle = NoChild /\ isStopping = FALSE
  /\ track = [t \in Tracks |-> IF t = "main" THEN [Idling EXCEPT !.step = "spawn"] ELSE Idling]
  /\ monitor = [on |-> FALSE, status |-> "stopped", failures |-> 0, isChecking |-> FALSE]
  /\ supervisor = [isRunning |-> FALSE, subscribed |-> FALSE, cooldown |-> FALSE, attempts |-> 0]

Answers       == \E c \in Children : child[c] = "serving"
PortTaken     == \E c \in Children : child[c] \in {"serving", "hung"}
isRestarting  == track["restart"].step # "idle"
At(t, step)   == [track EXCEPT ![t] = [step |-> step, awaits |-> NoChild]]
Gone(c)       == c = NoChild \/ child[c] = "dead"

-----------------------------------------------------------------------------
(* The processes *)

\* a process that finds the port taken exits
Boots(c) ==
  /\ child[c] = "booting"
  /\ child' = [child EXCEPT ![c] = IF PortTaken THEN "exited" ELSE "serving"]
  /\ UNCHANGED <<handle, isStopping, track, monitor, supervisor>>

Hangs(c) ==
  /\ child[c] \in {"serving", "hung"}
  /\ child' = [child EXCEPT ![c] = IF @ = "hung" THEN "serving" ELSE "hung"]
  /\ UNCHANGED <<handle, isStopping, track, monitor, supervisor>>

Exits(c) ==
  /\ child[c] \in {"booting", "serving", "hung"}
  /\ child' = [child EXCEPT ![c] = "exited"]
  /\ UNCHANGED <<handle, isStopping, track, monitor, supervisor>>

\* mutant of ExitHandled: during a restart an exit is taken for a part of it
ExitIgnoredInRestart(c) ==
  /\ child[c] = "exited" /\ child' = [child EXCEPT ![c] = "dead"]
  /\ handle' = IF isStopping \/ isRestarting THEN handle ELSE NoChild
  /\ UNCHANGED <<isStopping, track, monitor, supervisor>>

\* monitorProcess(): the handler clears the handle, whosever it is now
ExitHandled(c) ==
  /\ child[c] = "exited" /\ child' = [child EXCEPT ![c] = "dead"]
  /\ handle' = IF isStopping THEN handle ELSE NoChild
  /\ UNCHANGED <<isStopping, track, monitor, supervisor>>

-----------------------------------------------------------------------------
(* The process manager, on either track *)

\* stop(): SIGTERM, or nothing to stop
StopsProcess(t, next) ==
  /\ track' = IF handle = NoChild THEN At(t, next)
              ELSE [track EXCEPT ![t] = [step |-> "kill", awaits |-> handle]]
  /\ isStopping' = (handle # NoChild \/ isStopping)

\* the process has exited or, after ten seconds, whatever the handle refers to is killed
StopEnded(t) ==
  /\ track[t].step = "kill"
  /\ \/ Gone(track[t].awaits) /\ UNCHANGED child
     \/ /\ child[track[t].awaits] = "hung"
        /\ child' = IF Gone(handle) THEN child ELSE [child EXCEPT ![handle] = "exited"]
  /\ handle' = NoChild /\ isStopping' = FALSE
  /\ track' = At(t, IF t = "restart" THEN "spawn" ELSE "idle")
  /\ supervisor' = IF t = "restart" THEN supervisor ELSE [supervisor EXCEPT !.isRunning = FALSE]
  /\ UNCHANGED monitor

Spawns(t) ==
  /\ track[t].step = "spawn"
  /\ IF handle # NoChild THEN track' = At(t, "verify") /\ UNCHANGED <<child, handle>>
     ELSE \E c \in Children :
            /\ child[c] = "none" /\ \A d \in Children : d < c => child[d] # "none"
            /\ child' = [child EXCEPT ![c] = "booting"] /\ handle' = c
            /\ track' = At(t, "ready")
  /\ UNCHANGED <<isStopping, monitor, supervisor>>

IsReady(t) ==
  /\ track[t].step = "ready" /\ Answers
  /\ track' = At(t, "verify")
  /\ UNCHANGED <<child, handle, isStopping, monitor, supervisor>>

\* the process exited or 30 s have passed: the handle is dropped, no process is killed
NotReady(t) ==
  /\ track[t].step = "ready" /\ ~Answers
  /\ handle' = NoChild /\ track' = At(t, "idle")
  /\ UNCHANGED <<child, isStopping, monitor, supervisor>>

-----------------------------------------------------------------------------
(* The health monitor *)

\* handleHealthChange(): does this event schedule a restart?
CallsForRestart(status) ==
  /\ status = "unhealthy" /\ monitor.status # "unhealthy" /\ supervisor.subscribed
  /\ supervisor.attempts < MaxRestartAttempts /\ ~isRestarting

StatusAfter(failures) ==
  IF failures = 0 THEN "healthy" ELSE IF failures >= FailureThreshold THEN "unhealthy" ELSE "degraded"

CheckBegins ==
  /\ monitor.on /\ ~monitor.isChecking
  /\ monitor' = IF handle # NoChild THEN [monitor EXCEPT !.isChecking = TRUE]
                ELSE [monitor EXCEPT !.failures = Min({FailureThreshold, @ + 1}), !.status = "stopped"]
  /\ UNCHANGED <<child, handle, isStopping, track, supervisor>>

CheckEnds ==
  /\ monitor.isChecking
  /\ LET failures == IF Answers THEN 0 ELSE Min({FailureThreshold, monitor.failures + 1})
         status   == StatusAfter(failures)
     IN /\ CallsForRestart(status) => ~supervisor.cooldown
        /\ monitor' = [monitor EXCEPT !.isChecking = FALSE, !.failures = failures, !.status = status]
        /\ supervisor' = [supervisor EXCEPT !.cooldown = @ \/ CallsForRestart(status)]
  /\ UNCHANGED <<child, handle, isStopping, track>>

-----------------------------------------------------------------------------
(* The supervisor *)

Attempted(s) == [s EXCEPT !.attempts = @ + 1]

CooldownFires ==
  /\ supervisor.cooldown
  /\ LET restarts == monitor.status = "unhealthy" /\ ~isRestarting
         s == [supervisor EXCEPT !.cooldown = FALSE]
     IN IF restarts THEN StopsProcess("restart", "spawn") /\ supervisor' = Attempted(s)
        ELSE supervisor' = s /\ UNCHANGED <<track, isStopping>>
  /\ UNCHANGED <<child, handle, monitor>>

\* the health check at the end of restart(), and resetFailures()
Restarted ==
  /\ track["restart"].step = "verify" /\ track' = At("restart", "idle")
  /\ monitor' = IF Answers THEN [monitor EXCEPT !.failures = 0,
                                   !.status = IF handle # NoChild THEN "healthy" ELSE @]
                ELSE monitor
  /\ UNCHANGED <<child, handle, isStopping, supervisor>>

Started ==
  /\ track["main"].step = "verify"
  /\ IF Answers
     THEN /\ track' = At("main", "idle") /\ UNCHANGED isStopping
          /\ monitor' = [monitor EXCEPT !.on = TRUE,
                           !.status = IF handle # NoChild THEN "healthy" ELSE "stopped"]
          /\ supervisor' = [supervisor EXCEPT !.isRunning = TRUE, !.subscribed = TRUE]
     ELSE StopsProcess("main", "idle") /\ UNCHANGED <<monitor, supervisor>>
  /\ UNCHANGED <<child, handle>>

StopBegins ==
  /\ supervisor.isRunning /\ track["main"].step = "idle"
  /\ track' = At("main", "close")
  /\ supervisor' = [supervisor EXCEPT !.subscribed = FALSE]
  /\ monitor' = [monitor EXCEPT !.on = FALSE, !.status = "stopped"]
  /\ UNCHANGED <<child, handle, isStopping>>

\* the pool is closed; the process manager is asked only now
StopContinues ==
  /\ track["main"].step = "close" /\ StopsProcess("main", "idle")
  /\ supervisor' = [supervisor EXCEPT !.isRunning = (handle # NoChild)]
  /\ UNCHANGED <<child, handle, monitor>>

TrackStep(t) == StopEnded(t) \/ Spawns(t) \/ IsReady(t) \/ NotReady(t)

SupervisionNext ==
  \/ \E t \in Tracks : TrackStep(t)
  \/ CheckBegins \/ CheckEnds \/ CooldownFires \/ Restarted \/ Started \/ StopBegins \/ StopContinues
  \/ \E c \in Children : Boots(c) \/ Hangs(c) \/ Exits(c) \/ ExitHandled(c)

\* timers fire, and what the process manager, the monitor and the supervisor await comes
SupervisionFairness ==
  /\ WF_supervisionVars(CheckBegins) /\ WF_supervisionVars(CheckEnds)
  /\ WF_supervisionVars(CooldownFires) /\ WF_supervisionVars(Restarted)
  /\ WF_supervisionVars(Started) /\ WF_supervisionVars(StopContinues)
  /\ \A t \in Tracks : WF_supervisionVars(TrackStep(t))
  /\ \A c \in Children : WF_supervisionVars(Boots(c)) /\ WF_supervisionVars(ExitHandled(c))

SupervisionSpec == SupervisionInit /\ [][SupervisionNext]_supervisionVars /\ SupervisionFairness

-----------------------------------------------------------------------------
\* isRunning of the process manager is never left TRUE for a process whose exit has been
\* handled, however stop() and restart() overlap: only a stop() that will drop the handle
\* may still hold it (otherwise the monitor would poll a dead process as a running one).
DeadProcessNoticed == Gone(handle) => handle = NoChild \/ isStopping

\* "Handle automatic restart on failure" (surreal_supervisor.ts): a database process that
\* is gone is restarted while attempts are left, or the supervisor is stopped.
FailureIsAnswered ==
  (supervisor.subscribed /\ handle = NoChild /\ supervisor.attempts < MaxRestartAttempts)
    ~> (isRestarting \/ handle # NoChild \/ ~supervisor.subscribed)
=============================================================================
