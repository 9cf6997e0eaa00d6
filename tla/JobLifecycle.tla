---------------------------- MODULE JobLifecycle ----------------------------
(***************************************************************************)
(* What the job queue promises to those who enqueue jobs and subscribe to  *)
(* their completion, without the mutex, the event loop and the processes:  *)
(*                                                                         *)
(*   unused -> waiting -> running -> ended -> announced -> gone            *)
(*                                                                         *)
(* A waiting job may end unstarted, a running one may go back to waiting   *)
(* maxRetries times.  A job that has ended never becomes active again, is  *)
(* announced at most once and is deleted only after that.                  *)
(***************************************************************************)
EXTENDS Integers

CONSTANTS Jobs, Kinds, NoRef

VARIABLES phase, kind, recoveries

lifecycle == <<phase, kind, recoveries>>

IsActive(j) == phase[j] \in {"waiting", "running"}

Rivals(t, u) ==
  t.mode = "sequential" /\ u.mode = "sequential" /\ t.ref = u.ref /\ t.ref # NoRef

Init ==
  /\ phase = [j \in Jobs |-> "unused"]
  /\ kind \in [Jobs -> Kinds]
  /\ recoveries = [j \in Jobs |-> 0]

Move(j, from, to) == phase[j] \in from /\ phase' = [phase EXCEPT ![j] = to]

Create(j, t) ==
  /\ \A i \in Jobs : IsActive(i) => ~Rivals(kind[i], t)
  /\ Move(j, {"unused"}, "waiting")
  /\ kind' = [kind EXCEPT ![j] = t]
  /\ UNCHANGED recoveries

Start(j)    == Move(j, {"waiting"}, "running") /\ UNCHANGED <<kind, recoveries>>
End(j)      == Move(j, {"waiting", "running"}, "ended") /\ UNCHANGED <<kind, recoveries>>
Announce(j) == Move(j, {"ended"}, "announced") /\ UNCHANGED <<kind, recoveries>>
Remove(j)   == Move(j, {"announced"}, "gone") /\ UNCHANGED <<kind, recoveries>>

Recover(j) ==
  /\ recoveries[j] < kind[j].maxRetries
  /\ Move(j, {"running"}, "waiting")
  /\ recoveries' = [recoveries EXCEPT ![j] = @ + 1]
  /\ UNCHANGED kind

Next ==
  \E j \in Jobs :
    \/ \E t \in Kinds : Create(j, t)
    \/ Start(j) \/ End(j) \/ Announce(j) \/ Remove(j) \/ Recover(j)

Spec == Init /\ [][Next]_lifecycle
=============================================================================
