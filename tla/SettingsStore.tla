---------------------------- MODULE SettingsStore ----------------------------
(***************************************************************************)
(* SettingsService and the two ways to write it: PUT /api/settings, which  *)
(* also changes the schedules of the settings that are intervals, and the  *)
(* page, which does not.  At start missing settings get their defaults,    *)
(* the intervals are read once, and the schedules, which are transient,    *)
(* are registered from what was read.                                      *)
(*                                                                         *)
(* The settings are those with a schedule of their own.  The interval of   *)
(* the key rotation, whose schedule is persistent, is left out.            *)
(***************************************************************************)
EXTENDS Naturals, Sequences

CONSTANTS
  SettingNames,  \* a sequence: the order in which a request writes them
  Intervals,
  DefaultInterval,
  Savers         \* bound: requests at the same time

ASSUME SettingsAssumption ==
  /\ SettingNames \in Seq(STRING) \ {<<>>} /\ "none" \notin Savers
  /\ DefaultInterval \in Intervals /\ 0 \notin Intervals

VARIABLES
  setting,       \* the table, 0 for a row that is missing
  interval,      \* of the schedule that belongs to the setting, 0 before it is registered
  config,        \* what the process read when it started
  settingsPhase,
  settingsMutex, \* writeMutex of SettingsService
  save,          \* by request
  apart          \* settings that the schedules are not known to follow

settingVars == <<setting, interval, config, settingsPhase, settingsMutex, save, apart>>

Named  == {SettingNames[n] : n \in DOMAIN SettingNames}
NoSave == [step |-> "none", values |-> [name \in Named |-> 0], at |-> 1, alone |-> TRUE]
Held(r) == settingsMutex = r
Under(r) == SettingNames[save[r].at]

SettingsTypeOK ==
  /\ {setting, interval, config} \subseteq [Named -> Intervals \cup {0}]
  /\ settingsPhase \in {"down", "bootstrapped", "configured", "up"}
  /\ settingsMutex \in Savers \cup {"none"} /\ apart \subseteq Named
  /\ save \in [Savers -> [step : {"none", "waits", "writes", "updates", "compares", "sets"},
                          values : [Named -> Intervals \cup {0}], at : DOMAIN SettingNames,
                          alone : BOOLEAN]]

SettingsInit ==
  /\ setting = [name \in Named |-> 0] /\ interval = setting /\ config = setting
  /\ settingsPhase = "down" /\ settingsMutex = "none" /\ apart = {}
  /\ save = [r \in Savers |-> NoSave]

-----------------------------------------------------------------------------
(* Start, before the servers listen *)

\* INSERT IGNORE, for every setting
BootstrapGlobalSettings ==
  /\ settingsPhase = "down" /\ settingsPhase' = "bootstrapped"
  /\ setting' = [name \in Named |-> IF setting[name] = 0 THEN DefaultInterval ELSE setting[name]]
  /\ UNCHANGED <<interval, config, settingsMutex, save, apart>>

ReadsConfig ==
  /\ settingsPhase = "bootstrapped" /\ settingsPhase' = "configured" /\ config' = setting
  /\ UNCHANGED <<setting, interval, settingsMutex, save, apart>>

\* mutant of RegistersSchedules: a schedule that is there is kept
KeepsSchedules ==
  /\ settingsPhase = "configured" /\ settingsPhase' = "up" /\ apart' = {}
  /\ interval' = [name \in Named |-> IF interval[name] = 0 THEN config[name] ELSE interval[name]]
  /\ UNCHANGED <<setting, config, settingsMutex, save>>

\* start() has deleted the schedules of the last process
RegistersSchedules ==
  /\ settingsPhase = "configured" /\ settingsPhase' = "up" /\ apart' = {}
  /\ interval' = config
  /\ UNCHANGED <<setting, config, settingsMutex, save>>

SettingsCrash ==
  /\ settingsPhase # "down" /\ settingsPhase' = "down"
  /\ settingsMutex' = "none" /\ save' = [r \in Savers |-> NoSave]
  /\ UNCHANGED <<setting, interval, config, apart>>

-----------------------------------------------------------------------------
(* Saves *)

Alone(r) == \A other \in Savers \ {r} : save[other] = NoSave

Saves(r, step, values) ==
  /\ settingsPhase = "up" /\ save[r] = NoSave
  /\ save' = [other \in Savers |->
       IF other = r THEN [step |-> step, values |-> values, at |-> 1, alone |-> Alone(r)]
       ELSE IF save[other] = NoSave THEN NoSave ELSE [save[other] EXCEPT !.alone = FALSE]]
  /\ apart' = IF Alone(r) THEN apart ELSE Named
  /\ UNCHANGED <<setting, interval, config, settingsPhase, settingsMutex>>

\* one request after the other setting, then the next step
Advances(r, step, over) ==
  LET next == [save[r] EXCEPT !.at = @ + 1, !.step = step]
  IN save' = [save EXCEPT ![r] = IF save[r].at < Len(SettingNames) THEN next ELSE over]

PutsSettings(r, values) == (\E name \in Named : values[name] # 0) /\ Saves(r, "waits", values)
SavesPage(r, values)    == (\A name \in Named : values[name] # 0) /\ Saves(r, "compares", values)

BatchBegins(r) ==
  /\ save[r].step = "waits" /\ settingsMutex = "none" /\ settingsMutex' = r
  /\ save' = [save EXCEPT ![r].step = "writes"]
  /\ UNCHANGED <<setting, interval, config, settingsPhase, apart>>

\* setGlobalSettingsBatch(): UPSERT by UPSERT, of the settings that the request names
WritesSetting(r) ==
  /\ save[r].step = "writes" /\ Held(r)
  /\ setting' = [setting EXCEPT ![Under(r)] = IF save[r].values[Under(r)] = 0 THEN @ ELSE save[r].values[Under(r)]]
  /\ Advances(r, "writes", [save[r] EXCEPT !.step = "updates", !.at = 1])
  /\ settingsMutex' = IF save'[r].step = "updates" THEN "none" ELSE settingsMutex
  /\ UNCHANGED <<interval, config, settingsPhase, apart>>

\* what the batch has written stays, and no schedule is changed
BatchFails(r) ==
  /\ save[r].step = "writes" /\ Held(r) /\ settingsMutex' = "none"
  /\ save' = [save EXCEPT ![r] = NoSave] /\ apart' = apart \cup {name \in Named : save[r].values[name] # 0}
  /\ UNCHANGED <<setting, interval, config, settingsPhase>>

\* updateSchedulesForSettings(), which ignores the errors of updateSchedule()
UpdatesSchedule(r) ==
  LET new == save[r].values[Under(r)]
  IN /\ save[r].step = "updates" /\ Advances(r, "updates", NoSave)
     /\ \/ /\ interval' = [interval EXCEPT ![Under(r)] = IF new = 0 THEN @ ELSE new]
           /\ apart' = IF new # 0 /\ save[r].alone THEN apart \ {Under(r)} ELSE apart
        \/ UNCHANGED interval /\ apart' = apart \cup {Under(r)}
     /\ UNCHANGED <<setting, config, settingsPhase, settingsMutex>>

\* the page writes the settings that differ from what it has just read
ComparesSetting(r) ==
  /\ save[r].step = "compares"
  /\ IF save[r].values[Under(r)] = setting[Under(r)] THEN Advances(r, "compares", NoSave)
     ELSE save' = [save EXCEPT ![r].step = "sets"]
  /\ UNCHANGED <<setting, interval, config, settingsPhase, settingsMutex, apart>>

SetsSetting(r) ==
  /\ save[r].step = "sets" /\ settingsMutex = "none"
  /\ setting' = [setting EXCEPT ![Under(r)] = save[r].values[Under(r)]]
  /\ apart' = apart \cup {Under(r)} /\ Advances(r, "compares", NoSave)
  /\ UNCHANGED <<interval, config, settingsPhase, settingsMutex>>

PageFails(r) ==
  /\ save[r].step \in {"compares", "sets"} /\ save' = [save EXCEPT ![r] = NoSave]
  /\ UNCHANGED <<setting, interval, config, settingsPhase, settingsMutex, apart>>

SettingsNext ==
  \/ BootstrapGlobalSettings \/ ReadsConfig \/ RegistersSchedules \/ SettingsCrash
  \/ \E r \in Savers :
       \/ \E values \in [Named -> Intervals \cup {0}] : PutsSettings(r, values) \/ SavesPage(r, values)
       \/ BatchBegins(r) \/ WritesSetting(r) \/ BatchFails(r) \/ UpdatesSchedule(r)
       \/ ComparesSetting(r) \/ SetsSetting(r) \/ PageFails(r)

SettingsSpec == SettingsInit /\ [][SettingsNext]_settingVars

-----------------------------------------------------------------------------
\* A schedule runs at the interval that the settings show: from every start, whatever saves
\* a crash cut short, until the page changes the setting, a batch or the change of a
\* schedule fails, or two requests save at the same time; and again after a PUT of the
\* setting that nothing disturbs.
IntervalsFollow ==
  settingsPhase = "up" /\ (\A r \in Savers : save[r] = NoSave) =>
    \A name \in Named \ apart : interval[name] = setting[name]
=============================================================================
