---------------------------- MODULE MCScheduling ----------------------------
(* Instances of Scheduling for TLC.  A behaviour has one schedule and one   *)
(* kind of disturbance, so that the state spaces of the scenarios add up.   *)
EXTENDS Scheduling

CONSTANT Prompt  \* bound: does the service subscribe to a job it has just created or found
                 \* before the job can end?

\* the schedules are a code source's sync, the key rotation, and the trimming of the logs
TypeOf == [s \in Schedules |-> IF s = "rotation" THEN "dynamic" ELSE "sequential_interval"]
RefOf  == [s \in Schedules |-> IF s = "sync" THEN "source" ELSE "none"]

VARIABLE scenario

\* nobody triggers the rotation by hand
Scenarios ==
  [only : {"sync"}, by : {"crash", "stop", "foreign", "pause", "end", "manual"}]
    \cup [only : {"trimming"}, by : {"crash"}]
    \cup [only : {"rotation"}, by : {"crash", "update"}]

MCInit == Init /\ scenario \in {sc \in Scenarios : sc.only \in Schedules}

OpsOf(by) == CASE by = "pause" -> {"none", "pause", "resume"}
               [] by = "end" -> {"none", "cancel", "delete"}
               [] by = "update" -> {"none", "update"}
               [] OTHER -> {"none"}

\* An id is reused before anything else happens: Forgets commutes with every step.
Within ==
  /\ \A j \in JobIds : Forgotten(j) => \E i \in JobIds : Forgotten(i) /\ phase'[i] = "unused"
  /\ \A s \in Schedules \ {scenario.only} : row'[s] = Absent
  /\ scenario.by \notin {"crash", "pause"} => instance' = 1
  /\ scenario.by = "pause" /\ instance' = 2 =>
       client'.op # "pause" /\ (instance = 1 => row[scenario.only].status = "paused")
  /\ scenario.by \notin {"stop", "foreign"} =>
       Cardinality({c \in Callers : arm'[c] # "idle"}) <= 1
  /\ scenario.by # "stop" => stop' = "no"
  /\ client'.op \in OpsOf(scenario.by)
  /\ scenario.by # "foreign" => \A j \in JobIds : phase'[j] # "unused" => kind'[j].schedule # Foreign
  /\ scenario.by # "manual" => trig'["manual"] = NoTrig
  /\ Prompt => /\ \A j \in JobIds : Owed(j) => notice'.job # j
               /\ svc' = "subscribe" => notice'.job # todo'[found']

MCNext == Next /\ Within /\ UNCHANGED scenario
MCSpec == MCInit /\ [][MCNext]_<<vars, scenario>>
MCFairSpec == MCSpec /\ Fairness
=============================================================================
