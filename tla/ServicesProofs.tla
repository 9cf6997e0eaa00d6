---------------------------- MODULE ServicesProofs ----------------------------
(***************************************************************************)
(* What the proofs of the single services show holds of the process they   *)
(* run in: whatever order the scheduler of the runtime interleaves their   *)
(* steps in, each of them goes through a behaviour of its own.             *)
(***************************************************************************)
EXTENDS Services, DatabaseProofs, FunctionsProofs, ConfigurationProofs, ExecutionRecordsProofs

\* A step of the process is a step of a service or leaves it alone.
LEMMA StepsProject ==
  ASSUME [ServicesNext]_servicesVars
  PROVE  /\ [PoolNext]_poolVars /\ [SupervisionNext]_supervisionVars /\ [StartupNext]_startupVars
         /\ [SourceNext]_sourceVars /\ [RoutesNext]_routesVars /\ [LogsNext]_logVars
         /\ [MetricsNext]_metricsVars /\ [KeysNext]_keysVars /\ [SettingsNext]_settingVars
<1>1. CASE UNCHANGED servicesVars
  BY <1>1 DEF servicesVars
<1>2. ASSUME NEW name \in ServiceNames, StepOf(name)
      PROVE  /\ [PoolNext]_poolVars /\ [SupervisionNext]_supervisionVars /\ [StartupNext]_startupVars
             /\ [SourceNext]_sourceVars /\ [RoutesNext]_routesVars /\ [LogsNext]_logVars
             /\ [MetricsNext]_metricsVars /\ [KeysNext]_keysVars /\ [SettingsNext]_settingVars
  BY <1>2 DEF StepOf, Only
<1> QED BY <1>1, <1>2 DEF ServicesNext

\* What the services promise: the inductive invariants of their proofs.
AllServicesInv ==
  /\ PoolInv /\ SupervisionInv /\ StartupInv /\ SourceInv
  /\ RoutesTypeOK /\ RouterInv /\ RequestsInv /\ LoadsInv
  /\ LogsInv /\ MetricsInv /\ KeysAndSecretsInv /\ SettingsInv

LEMMA ServicesInvInit == ServicesInit => AllServicesInv
  BY PoolInvInit, SupervisionInitInv, StartupInitInv, SourceInitInv, TypeInit, RouterInit, LoadsInit,
     LogsInitInv, MetricsBegins, KeysInitInv, SettingsInitInv
     DEF ServicesInit, AllServicesInv

LEMMA ServicesInvStep == AllServicesInv /\ [ServicesNext]_servicesVars => AllServicesInv'
  BY StepsProject, PoolInvStep, SupervisionStepInv, StartupStepInv, SourceStepInv, TypeStep, RouterStep,
     LoadsStep, LogsStepInv, MetricsGoOn, KeysStepInv, SettingsStepInv
     DEF AllServicesInv

LEMMA ServicesInvariant == ServicesSpec => []AllServicesInv
  BY ServicesInvInit, ServicesInvStep, PTL DEF ServicesSpec

\* Every variable of every service keeps its type when they all run in one process.
THEOREM ServicesTypeCorrect == ServicesSpec => []ServicesTypeOK
<1>1. AllServicesInv => ServicesTypeOK
  BY PoolTypes DEF AllServicesInv, SupervisionInv, StartupInv, SourceInv, LogsInv, MetricsInv,
     KeysAndSecretsInv, SettingsInv, ServicesTypeOK
<1> QED BY <1>1, ServicesInvariant, PTL

\* What the single services promise of their state (the invariants of the run over them).
Promises ==
  /\ IdleCloseSparesUsers /\ UnusedConnectionHasCloser /\ DeadProcessNoticed /\ MigrationsOnceInOrder
  /\ GateHasJob /\ SyncedMeansWhole /\ ScheduleHasSource /\ RequestSeesWrites /\ HandlerIsCurrent
  /\ LogsKept /\ BufferedIsScheduled /\ PagesAreWhole /\ ExecutionsCounted /\ ChartCountsOnce
  /\ SpecificSecretWins /\ KeysHaveGroups /\ OrphansCameLate /\ IntervalsFollow

\* The process goes through a behaviour of each service, so that everything that was proved of
\* one of them by itself holds of the whole process, however their steps are interleaved.
THEOREM ServicesKeepPromises == ServicesSpec => []Promises
<1>1. ServicesInit => /\ PoolInit /\ StartupInit /\ SourceInit /\ RoutesInit /\ LogsInit
                      /\ MetricsInit /\ KeysInit /\ SettingsInit
  BY DEF ServicesInit
<1>2. [ServicesNext]_servicesVars =>
        /\ [PoolNext]_poolVars /\ [StartupNext]_startupVars /\ [SourceNext]_sourceVars
        /\ [RoutesNext]_routesVars /\ [LogsNext]_logVars /\ [MetricsNext]_metricsVars
        /\ [KeysNext]_keysVars /\ [SettingsNext]_settingVars
  BY StepsProject
<1>3. ServicesSpec => []DeadProcessNoticed
  <2>1. AllServicesInv => DeadProcessNoticed
    BY DEF AllServicesInv, SupervisionInv
  <2> QED BY <2>1, ServicesInvariant, PTL
<1>4. ServicesSpec => [](IdleCloseSparesUsers /\ UnusedConnectionHasCloser /\ MigrationsOnceInOrder)
  BY <1>1, <1>2, IdleCloseIsSafe, UnusedConnectionsAreClosed, MigrationsRunOnceInOrder, PTL
     DEF ServicesSpec, PoolSpec, StartupSpec
<1>5. ServicesSpec => [](GateHasJob /\ SyncedMeansWhole /\ ScheduleHasSource /\ RequestSeesWrites /\ HandlerIsCurrent)
  BY <1>1, <1>2, GatesHaveJobs, SyncedSourcesAreWhole, SchedulesHaveSources, RoutesAreCurrent,
     HandlersAreCurrent, PTL DEF ServicesSpec, SourceSpec, RoutesSpec
<1>6. ServicesSpec => [](LogsKept /\ BufferedIsScheduled /\ PagesAreWhole /\ ExecutionsCounted /\ ChartCountsOnce)
  BY <1>1, <1>2, EntriesAreKept, BufferedEntriesAreScheduled, PagesShowEverything, ExecutionsAreCounted,
     ChartsCountOnce, PTL DEF ServicesSpec, LogsSpec, MetricsSpec
<1>7. ServicesSpec => [](SpecificSecretWins /\ KeysHaveGroups /\ OrphansCameLate /\ IntervalsFollow)
  BY <1>1, <1>2, LookupsAreSpecific, KeysKeepTheirGroups, OnlyLateSecretsAreOrphans,
     IntervalsFollowSettings, PTL DEF ServicesSpec, KeysSpec, SettingsSpec
<1> QED BY <1>3, <1>4, <1>5, <1>6, <1>7, PTL DEF Promises
=============================================================================
