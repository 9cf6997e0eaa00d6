------------------------------- MODULE Services -------------------------------
(***************************************************************************)
(* The services of one process side by side: main.ts builds each of them   *)
(* with its own state, and what they share is the database, of which each  *)
(* module here has its own tables.  A step of the process is a step of one *)
(* of them while the others stay where they are.                           *)
(***************************************************************************)
EXTENDS ConnectionPool, DatabaseSupervision, Startup, CodeSources, FunctionRoutes,
        ConsoleLogs, MetricsAggregation, KeysAndSecrets, SettingsStore

ServiceNames ==
  {"pool", "database", "startup", "sources", "routes", "logs", "metrics", "keys", "settings"}

servicesVars ==
  <<poolVars, supervisionVars, startupVars, sourceVars, routesVars, logVars, metricsVars,
    keysVars, settingVars>>

ServicesInit ==
  /\ PoolInit /\ SupervisionInit /\ StartupInit /\ SourceInit /\ RoutesInit
  /\ LogsInit /\ MetricsInit /\ KeysInit /\ SettingsInit

\* all services but this one wait
Only(name) ==
  /\ name # "pool" => UNCHANGED poolVars
  /\ name # "database" => UNCHANGED supervisionVars
  /\ name # "startup" => UNCHANGED startupVars
  /\ name # "sources" => UNCHANGED sourceVars
  /\ name # "routes" => UNCHANGED routesVars
  /\ name # "logs" => UNCHANGED logVars
  /\ name # "metrics" => UNCHANGED metricsVars
  /\ name # "keys" => UNCHANGED keysVars
  /\ name # "settings" => UNCHANGED settingVars

StepOf(name) ==
  \/ name = "pool" /\ PoolNext /\ Only("pool")
  \/ name = "database" /\ SupervisionNext /\ Only("database")
  \/ name = "startup" /\ StartupNext /\ Only("startup")
  \/ name = "sources" /\ SourceNext /\ Only("sources")
  \/ name = "routes" /\ RoutesNext /\ Only("routes")
  \/ name = "logs" /\ LogsNext /\ Only("logs")
  \/ name = "metrics" /\ MetricsNext /\ Only("metrics")
  \/ name = "keys" /\ KeysNext /\ Only("keys")
  \/ name = "settings" /\ SettingsNext /\ Only("settings")

ServicesNext == \E name \in ServiceNames : StepOf(name)

ServicesSpec == ServicesInit /\ [][ServicesNext]_servicesVars

\* Every variable of every service keeps its type.
ServicesTypeOK ==
  /\ PoolTypeOK /\ SupervisionTypeOK /\ StartupTypeOK /\ SourceTypeOK /\ RoutesTypeOK
  /\ LogsTypeOK /\ MetricsTypeOK /\ KeysTypeOK /\ SettingsTypeOK
=============================================================================
