------------------------------ MODULE MCServices ------------------------------
(* Instances for TLC of the services that share the process, but not their   *)
(* state.  A behaviour is one of a single service, with one kind of          *)
(* disturbance; the other services stay as they start, so that the state     *)
(* spaces add up.                                                            *)
EXTENDS Services

\* the minutes of an hour and of a day, and the order of the settings of a request
ShortDays     == <<1, 2, 4>>
SettingsOrder == <<"trimming", "aggregation">>

VARIABLE scenario

Scenarios ==
  [of : {"pool", "database", "startup"}, by : {"itself"}]
    \cup [of : {"sources"}, by : {"successor", "change"}]
    \cup [of : {"routes"}, by : {"definitions", "files"}]
    \cup [of : {"logs"}, by : {"deletions", "pages"}]
    \cup [of : {"metrics"}, by : {"executions", "break"}]
    \cup [of : {"keys"}, by : {"deletion", "lookup"}]
    \cup [of : {"settings"}, by : {"rival", "crash"}]

\* a second source of the same name, or new settings, a pause and a failing mark of one;
\* writes of functionDef, or of the file after the first of these; a shutdown, or pages;
\* executions that expire, or a run that breaks off; groups that are deleted, or lookups;
\* two saves at a time, or a crash in one
Within ==
  CASE scenario.by = "successor"   -> resync' = {} /\ unmarked' = {} /\ kept' \subseteq {1}
                                     /\ \A i \in Sources : row'[i].settings = 1 /\ schedule'[i] # "paused"
    [] scenario.by = "change"      -> row'[1] = row[1]
    [] scenario.by = "definitions" -> fileWrites' = 0
    [] scenario.by = "files"       -> writes'.committed <= 1
    [] scenario.by = "deletions"   -> pager' = pager /\ \A e \in 1..Len(captured') : captured'[e] < 2 * MaxEntries
    [] scenario.by = "pages"       -> Len(captured') <= 3 /\ logService' = "open"
    [] scenario.by = "executions"  -> breaks' = 0
    [] scenario.by = "break"       -> executions' <= 1 /\ minute' < MaxTime
    [] scenario.by = "deletion"    -> lookup' = NoLookup
    [] scenario.by = "lookup"      -> groupDeletions' \cup lateSecrets' = {}
                                     /\ (lookup' # NoLookup => keyRequest' = None)
    [] scenario.by = "rival"       -> settingsPhase = "up" => settingsPhase' = "up"
    [] scenario.by = "crash"       -> \E r \in Savers : \A other \in Savers \ {r} : save'[other] = NoSave
    [] OTHER -> TRUE

MCInit == ServicesInit /\ scenario \in Scenarios

MCNext == StepOf(scenario.of) /\ Within /\ UNCHANGED scenario
=============================================================================
