---------------------- MODULE ServiceControllerProofs ----------------------
(***************************************************************************)
(* Theorems about ServiceController, for every value of its constants.     *)
(***************************************************************************)
EXTENDS ServiceController, FiniteSetTheorems, TLAPS

-----------------------------------------------------------------------------
(* The inductive invariant *)

\* A copy that counts as the latest one is.
CopiesInv ==
    /\ serviceFresh => serviceCache = service
    /\ moduleFresh => moduleCache = module
    /\ w.stage \in {"module", "phase"} /\ w.fresh => w.inst = service

\* Whoever says that the Module is Completed is right that it once was, and
\* only then are extras managed.
CompletedInv ==
    /\ module # NoModule /\ module.phase = "Completed" => completed
    /\ moduleCache # NoModule /\ moduleCache.phase = "Completed" => completed
    /\ w.stage = "phase" /\ w.found = "Completed" => completed
    /\ w.stage = "extras" => completed /\ App = "kubernetes-cluster"

\* The variables of the worker at each stage.
LEMMA WorkerType ==
    ASSUME w \in {Idle} \cup Busy
    PROVE  /\ w = Idle <=> w.stage = "idle"
           /\ w.stage \in {"module", "phase"} =>
                 w.inst \in Service /\ w.fresh \in BOOLEAN
           /\ w.stage = "phase" => w.found \in Phases
           /\ w.stage = "extras" =>
                 w.spec \in ServiceSpecs /\ w.next \in Nat \ {0}
BY DEF Busy, Idle

LEMMA TypeInit == Init => TypeOK
<1> SUFFICES ASSUME Init PROVE TypeOK
  OBVIOUS
<1>1. ServiceType
  BY DEF Init, ServiceType, Service, Phases
<1>2. ModuleType
  BY DEF Init, ModuleType
<1>3. ExtraType
  BY DEF Init, ExtraType
<1>4. changes = 0 /\ faults = 0
  BY DEF Init
<1>5. /\ changes \in 0 .. MaxChanges
      /\ faults \in 0 .. MaxFaults
  BY <1>4, ServiceAssumption
<1> QED
  BY <1>1, <1>2, <1>3, <1>5 DEF Init, TypeOK

\* The extra that is managed has a manifest.
LEMMA ManifestType ==
    ASSUME w \in Busy, Managing, Extra.name \in ExtraNames
    PROVE  manifest(Extra) \in Manifests[Extra.name]
<1>1. /\ w.spec \in ServiceSpecs
      /\ w.next \in Nat \ {0}
  BY DEF Busy, Managing
<1>2. Extra \in {w.spec.extra[j] : j \in 1 .. Len(w.spec.extra)}
  BY <1>1, ServiceAssumption DEF Extra, Managing
<1>3. Extra \in UNION {{s.extra[j] : j \in 1 .. Len(s.extra)} : s \in ServiceSpecs}
  BY <1>1, <1>2
<1> QED
  BY <1>3 DEF Manifests

-----------------------------------------------------------------------------
(* Type correctness *)

\* The worker after the phase was dealt with.
LEMMA AfterPhaseType ==
    ASSUME w \in Busy, w.stage = "phase", queued \in BOOLEAN, AfterPhase
    PROVE  w' \in {Idle} \cup Busy /\ queued' \in BOOLEAN
<1>1. w.inst.spec \in ServiceSpecs
  BY WorkerType DEF Service
<1>2. [stage |-> "extras", spec |-> w.inst.spec, next |-> 1] \in Busy
  BY <1>1 DEF Busy
<1> QED
  BY <1>2 DEF AfterPhase, ReturnRequeue

\* The counters stay in range, whatever moves them.
LEMMA FaultType ==
    ASSUME TypeOK, Fault
    PROVE  changes' \in 0 .. MaxChanges /\ faults' \in 0 .. MaxFaults
BY ServiceAssumption DEF TypeOK, Fault

LEMMA ChangeType ==
    ASSUME TypeOK, Change
    PROVE  changes' \in 0 .. MaxChanges /\ faults' \in 0 .. MaxFaults
BY ServiceAssumption DEF TypeOK, Change

\* A call that fails changes neither objects nor copies.
LEMMA TypeFailure ==
    ASSUME TypeOK, Fault \/ UNCHANGED counters, ReturnRequeue,
           UNCHANGED <<serviceVars, moduleVars, extraVars>>
    PROVE  TypeOK'
<1>1. changes' \in 0 .. MaxChanges /\ faults' \in 0 .. MaxFaults
  BY FaultType DEF TypeOK, counters
<1>2. ServiceType' /\ ModuleType' /\ ExtraType'
  BY DEF TypeOK, ServiceType, ModuleType, ExtraType, serviceVars, moduleVars,
         extraVars
<1> QED
  BY <1>1, <1>2 DEF TypeOK, ReturnRequeue

\* New caches, after a crash or a restart.
LEMMA TypeRestart ==
    ASSUME TypeOK, ReturnRequeue, Fault \/ UNCHANGED counters,
           serviceCache' = service, serviceFresh' = TRUE,
           moduleCache' = module, moduleFresh' = TRUE, extraCache' = extras,
           UNCHANGED <<service, module, completed, extras>>
    PROVE  TypeOK'
<1>1. changes' \in 0 .. MaxChanges /\ faults' \in 0 .. MaxFaults
  BY FaultType DEF TypeOK, counters
<1>2. ServiceType' /\ ModuleType' /\ ExtraType'
  BY DEF TypeOK, ServiceType, ModuleType, ExtraType
<1> QED
  BY <1>1, <1>2 DEF TypeOK, ReturnRequeue

LEMMA TypeStep == TypeOK /\ CopiesInv /\ [Next]_vars => TypeOK'
<1> SUFFICES ASSUME TypeOK, CopiesInv, [Next]_vars
             PROVE  TypeOK'
  OBVIOUS
<1> USE DEF serviceVars, moduleVars, extraVars, counters
<1>1. ASSUME FetchNothing
      PROVE  TypeOK'
  BY <1>1 DEF FetchNothing, TypeOK, ServiceType, ModuleType, ExtraType
<1>2. ASSUME Fetch
      PROVE  TypeOK'
  <2>1. w' \in Busy
    BY <1>2 DEF Fetch, TypeOK, ServiceType, Busy
  <2> QED
    BY <1>2, <2>1 DEF Fetch, TypeOK, ServiceType, ModuleType, ExtraType
<1>3. ASSUME CreateModule
      PROVE  TypeOK'
  <2>1. NewModule(w.inst.spec) \in Module
    BY <1>3, WorkerType DEF CreateModule, NewModule, Module, Service, TypeOK, Phases
  <2>2. ModuleType'
    BY <1>3, <2>1 DEF CreateModule, TypeOK, ModuleType
  <2> QED
    BY <1>3, <2>2 DEF CreateModule, TypeOK, ServiceType, ExtraType
<1>4. ASSUME UpdateModule
      PROVE  TypeOK'
  <2>1. module \in Module /\ moduleCache \in Module
    BY <1>4 DEF UpdateModule, Outdated, CopiesInv, TypeOK, ModuleType
  <2>2. w.inst.spec \in ServiceSpecs
    BY <1>4, WorkerType DEF UpdateModule, Outdated, TypeOK, Service
  <2>3. module' \in Module
    BY <1>4, <2>1, <2>2 DEF UpdateModule, Module
  <2>4. ModuleType'
    BY <1>4, <2>3 DEF UpdateModule, TypeOK, ModuleType
  <2>5. w' \in {Idle} \cup Busy /\ queued' \in BOOLEAN
    <3>1. CASE serviceCache = NoService
      BY <1>4, <3>1 DEF UpdateModule, ReturnRequeue
    <3>2. CASE serviceCache # NoService
      <4>1. moduleCache.phase \in Phases
        BY <2>1 DEF Module
      <4>2. w' \in Busy
        BY <1>4, <3>2, <4>1 DEF UpdateModule, TypeOK, ServiceType, Busy
      <4> QED
        BY <1>4, <3>2, <4>2 DEF UpdateModule, TypeOK
    <3> QED
      BY <3>1, <3>2
  <2> QED
    BY <1>4, <2>4, <2>5 DEF UpdateModule, TypeOK, ServiceType, ExtraType
<1>5. ASSUME ModuleUpToDate
      PROVE  TypeOK'
  <2>1. w' \in Busy
    BY <1>5, WorkerType DEF ModuleUpToDate, TypeOK, ModuleType, Module, Busy
  <2> QED
    BY <1>5, <2>1 DEF ModuleUpToDate, TypeOK, ServiceType, ModuleType, ExtraType
<1>6. ASSUME PhaseUpToDate
      PROVE  TypeOK'
  <2>1. w' \in {Idle} \cup Busy /\ queued' \in BOOLEAN
    BY <1>6, AfterPhaseType, WorkerType DEF PhaseUpToDate, TypeOK, Idle
  <2> QED
    BY <1>6, <2>1 DEF PhaseUpToDate, TypeOK, ServiceType, ModuleType, ExtraType
<1>7. ASSUME WritePhase
      PROVE  TypeOK'
  <2>1. service \in Service /\ w.found \in Phases
    BY <1>7, WorkerType DEF WritePhase, CopiesInv, TypeOK
  <2>2. service' \in Service
    BY <1>7, <2>1 DEF WritePhase, Service
  <2>3. w' \in {Idle} \cup Busy /\ queued' \in BOOLEAN
    BY <1>7, AfterPhaseType, WorkerType DEF WritePhase, TypeOK, Idle
  <2> QED
    BY <1>7, <2>2, <2>3 DEF WritePhase, TypeOK, ServiceType, ModuleType, ExtraType
<1>8. ASSUME CreateModuleFails \/ UpdateModuleFails \/ WritePhaseFails
      PROVE  TypeOK'
  BY <1>8, TypeFailure DEF CreateModuleFails, UpdateModuleFails, WritePhaseFails,
                           Refused
<1>9. ASSUME WriteExtraFails
      PROVE  TypeOK'
  BY <1>9, TypeFailure DEF WriteExtraFails, Refused
<1>10. ASSUME ExtrasDone
      PROVE  TypeOK'
  BY <1>10, TypeFailure DEF ExtrasDone
<1>11. ASSUME DeleteExtra \/ CreateExtra \/ UpdateExtra
      PROVE  TypeOK'
  <2>1. w \in Busy /\ Managing /\ Extra.name \in ExtraNames
    BY <1>11 DEF DeleteExtra, CreateExtra, UpdateExtra, Deploying, Managing,
                 TypeOK, Idle
  <2>2. PICK value \in Manifests[Extra.name] \cup {NoExtra} : SetExtra(value)
    BY <1>11, <2>1, ManifestType DEF DeleteExtra, CreateExtra, UpdateExtra
  <2>3. ExtraType'
    <3>1. extras' = [extras EXCEPT ![Extra.name] = value]
      BY <2>2 DEF SetExtra
    <3> QED
      BY <2>1, <2>2, <3>1 DEF SetExtra, TypeOK, ExtraType
  <2>4. w' \in Busy
    BY <2>1, <2>2 DEF SetExtra, NextExtra, Managing, Busy
  <2> QED
    BY <2>2, <2>3, <2>4 DEF SetExtra, NextExtra, TypeOK, ServiceType, ModuleType
<1>12. ASSUME ExtraUpToDate
      PROVE  TypeOK'
  <2>1. w' \in Busy
    BY <1>12 DEF ExtraUpToDate, Deploying, Managing, NextExtra, TypeOK, Busy, Idle
  <2> QED
    BY <1>12, <2>1 DEF ExtraUpToDate, NextExtra, TypeOK, ServiceType, ModuleType,
                       ExtraType
<1>13. ASSUME Panic \/ Restart
      PROVE  TypeOK'
  BY <1>13, TypeRestart DEF Panic, Restart
<1>14. ASSUME SyncService \/ SyncModule \/ SyncExtras
      PROVE  TypeOK'
  BY <1>14 DEF SyncService, SyncModule, SyncExtras, TypeOK, ServiceType,
               ModuleType, ExtraType
<1>15. ASSUME UserEdits \/ UserDeletes
      PROVE  TypeOK'
  <2>1. PICK s \in Service \cup {NoService} : ServiceChanges(s)
    <3>1. CASE UserDeletes
      BY <3>1 DEF UserDeletes
    <3>2. CASE UserEdits
      <4>1. service \in Service
        BY <3>2 DEF UserEdits, TypeOK, ServiceType
      <4>2. \A spec \in ServiceSpecs : [service EXCEPT !.spec = spec] \in Service
        BY <4>1 DEF Service
      <4> QED
        BY <3>2, <4>2 DEF UserEdits
    <3> QED
      BY <1>15, <3>1, <3>2
  <2>2. changes' \in 0 .. MaxChanges /\ faults' \in 0 .. MaxFaults
    BY <2>1, ChangeType DEF ServiceChanges
  <2>3. w' \in {Idle} \cup Busy
    <3>1. CASE w.stage \in {"module", "phase"}
      <4>1. w' = [w EXCEPT !.fresh = FALSE]
        BY <2>1, <3>1 DEF ServiceChanges
      <4> QED
        BY <3>1, <4>1 DEF TypeOK, Busy, Idle
    <3>2. CASE w.stage \notin {"module", "phase"}
      BY <2>1, <3>2 DEF ServiceChanges, TypeOK
    <3> QED
      BY <3>1, <3>2
  <2> QED
    BY <2>1, <2>2, <2>3 DEF ServiceChanges, TypeOK, ServiceType, ModuleType,
                            ExtraType
<1>16. ASSUME GarbageCollect
      PROVE  TypeOK'
  BY <1>16 DEF GarbageCollect, TypeOK, ServiceType, ModuleType, ExtraType
<1>17. ASSUME ModulePhase
      PROVE  TypeOK'
  <2>1. module \in Module
    BY <1>17 DEF ModulePhase, TypeOK, ModuleType
  <2>2. module' \in Module
    BY <1>17, <2>1 DEF ModulePhase, Module
  <2>3. completed' \in BOOLEAN
    BY <1>17 DEF ModulePhase, TypeOK, ModuleType
  <2> QED
    BY <1>17, <2>2, <2>3, ChangeType DEF ModulePhase, TypeOK, ServiceType,
                                         ModuleType, ExtraType
<1>18. ASSUME UNCHANGED vars
      PROVE  TypeOK'
  BY <1>18 DEF vars, TypeOK, ServiceType, ModuleType, ExtraType
<1> QED
  BY <1>1, <1>2, <1>3, <1>4, <1>5, <1>6, <1>7, <1>8, <1>9, <1>10, <1>11, <1>12,
     <1>13, <1>14, <1>15, <1>16, <1>17, <1>18 DEF Next, Reconcile

-----------------------------------------------------------------------------
(* The copies *)

\* Dealing with one extra leaves the worker among the extras.
LEMMA ExtraSteps ==
    ASSUME TypeOK, DeleteExtra \/ CreateExtra \/ UpdateExtra \/ ExtraUpToDate
    PROVE  w.stage = "extras" /\ w'.stage = "extras"
<1>1. w \in Busy /\ w.stage = "extras"
  BY DEF DeleteExtra, CreateExtra, UpdateExtra, ExtraUpToDate, Deploying, Managing,
         TypeOK, Idle
<1>2. w' = [w EXCEPT !.next = @ + 1]
  BY DEF DeleteExtra, CreateExtra, UpdateExtra, ExtraUpToDate, SetExtra, NextExtra
<1> QED
  BY <1>1, <1>2 DEF Busy

LEMMA CopiesInit == Init => CopiesInv
<1> SUFFICES ASSUME Init PROVE CopiesInv
  OBVIOUS
<1>1. w.stage = "idle"
  BY DEF Init, Idle
<1> QED
  BY <1>1 DEF Init, CopiesInv

LEMMA CopiesStep == TypeOK /\ CopiesInv /\ [Next]_vars => CopiesInv'
<1> SUFFICES ASSUME TypeOK, CopiesInv, [Next]_vars
             PROVE  CopiesInv'
  OBVIOUS
<1> USE DEF serviceVars, moduleVars, extraVars, counters
<1>1. Idle.stage = "idle"
  BY DEF Idle
<1>2. ASSUME FetchNothing \/ Fetch
      PROVE  CopiesInv'
  BY <1>1, <1>2 DEF FetchNothing, Fetch, CopiesInv
<1>3. ASSUME CreateModule \/ CreateModuleFails \/ UpdateModuleFails
      PROVE  CopiesInv'
  BY <1>1, <1>3 DEF CreateModule, CreateModuleFails, UpdateModuleFails,
                    ReturnRequeue, CopiesInv
<1>4. ASSUME UpdateModule
      PROVE  CopiesInv'
  <2>1. moduleFresh' => moduleCache' = module'
    BY <1>4 DEF UpdateModule, CopiesInv
  <2>2. w'.stage \in {"module", "phase"} /\ w'.fresh => w'.inst = service'
    <3>1. CASE serviceCache = NoService
      BY <1>1, <1>4, <3>1 DEF UpdateModule, ReturnRequeue
    <3>2. CASE serviceCache # NoService
      BY <1>4, <3>2 DEF UpdateModule, CopiesInv
    <3> QED
      BY <3>1, <3>2
  <2> QED
    BY <1>4, <2>1, <2>2 DEF UpdateModule, CopiesInv
<1>5. ASSUME ModuleUpToDate
      PROVE  CopiesInv'
  BY <1>5 DEF ModuleUpToDate, CopiesInv
<1>6. ASSUME PhaseUpToDate \/ WritePhase \/ WritePhaseFails
      PROVE  CopiesInv'
  <2>1. w'.stage \in {"idle", "extras"}
    BY <1>1, <1>6 DEF PhaseUpToDate, WritePhase, WritePhaseFails, AfterPhase,
                      ReturnRequeue
  <2> QED
    BY <1>6, <2>1 DEF PhaseUpToDate, WritePhase, WritePhaseFails, CopiesInv
<1>7. ASSUME ExtrasDone \/ WriteExtraFails
      PROVE  CopiesInv'
  BY <1>1, <1>7 DEF ExtrasDone, WriteExtraFails, ReturnRequeue, CopiesInv
<1>8. ASSUME DeleteExtra \/ CreateExtra \/ UpdateExtra \/ ExtraUpToDate
      PROVE  CopiesInv'
  <2>1. w'.stage = "extras"
    BY <1>8, ExtraSteps
  <2> QED
    BY <1>8, <2>1 DEF DeleteExtra, CreateExtra, UpdateExtra, ExtraUpToDate,
                      SetExtra, CopiesInv
<1>9. ASSUME Panic \/ Restart
      PROVE  CopiesInv'
  BY <1>1, <1>9 DEF Panic, Restart, ReturnRequeue, CopiesInv
<1>10. ASSUME SyncService \/ SyncModule \/ SyncExtras
       PROVE  CopiesInv'
  BY <1>10 DEF SyncService, SyncModule, SyncExtras, CopiesInv
<1>11. ASSUME UserEdits \/ UserDeletes
       PROVE  CopiesInv'
  <2>1. PICK s : ServiceChanges(s)
    BY <1>11 DEF UserEdits, UserDeletes
  <2>2. ~(w'.stage \in {"module", "phase"} /\ w'.fresh)
    <3>1. CASE w.stage \in {"module", "phase"}
      <4>1. w' = [w EXCEPT !.fresh = FALSE]
        BY <2>1, <3>1 DEF ServiceChanges
      <4> QED
        BY <3>1, <4>1 DEF TypeOK, Busy, Idle
    <3>2. CASE w.stage \notin {"module", "phase"}
      BY <2>1, <3>2 DEF ServiceChanges
    <3> QED
      BY <3>1, <3>2
  <2> QED
    BY <2>1, <2>2 DEF ServiceChanges, CopiesInv
<1>12. ASSUME GarbageCollect \/ ModulePhase
       PROVE  CopiesInv'
  <2>1. moduleFresh' = FALSE
    BY <1>12 DEF GarbageCollect, ModulePhase
  <2>2. UNCHANGED <<service, serviceCache, serviceFresh, w>>
    BY <1>12 DEF GarbageCollect, ModulePhase
  <2> QED
    BY <2>1, <2>2 DEF CopiesInv
<1>13. ASSUME UNCHANGED vars
       PROVE  CopiesInv'
  <2>1. UNCHANGED <<service, serviceCache, serviceFresh, w>>
    BY <1>13 DEF vars
  <2>2. UNCHANGED <<module, moduleCache, moduleFresh>>
    BY <1>13 DEF vars
  <2> QED
    BY <2>1, <2>2 DEF CopiesInv
<1> QED
  BY <1>2, <1>3, <1>4, <1>5, <1>6, <1>7, <1>8, <1>9, <1>10, <1>11, <1>12, <1>13
  DEF Next, Reconcile

\* Every object, copy and variable of the worker has its type, whatever
\* the users, the Module controller, the API and the process do.
THEOREM ServiceTypeCorrect == Spec => []TypeOK
<1>1. Init => TypeOK /\ CopiesInv
  BY TypeInit, CopiesInit
<1>2. TypeOK /\ CopiesInv /\ [Next]_vars => TypeOK' /\ CopiesInv'
  BY TypeStep, CopiesStep
<1> QED
  BY <1>1, <1>2, PTL DEF Spec

-----------------------------------------------------------------------------
(* The controller does not go to sleep on work left *)

LEMMA AwakeInit == Init => AlwaysAwake
BY DEF Init, AlwaysAwake

LEMMA AwakeStep ==
    TypeOK /\ CopiesInv /\ AlwaysAwake /\ [Next]_vars => AlwaysAwake'
<1> SUFFICES ASSUME TypeOK, CopiesInv, AlwaysAwake, [Next]_vars,
                    w' = Idle, ~queued', serviceFresh', moduleFresh'
             PROVE  service' = NoService
  BY DEF AlwaysAwake
<1> USE DEF serviceVars, moduleVars, extraVars, counters
<1>1. Idle.stage = "idle"
  BY DEF Idle
<1>2. ~ReturnRequeue
  BY DEF ReturnRequeue
<1>3. CASE FetchNothing
  BY <1>3 DEF FetchNothing, CopiesInv
<1>4. CASE PhaseUpToDate \/ WritePhase
  BY <1>1, <1>2, <1>4 DEF PhaseUpToDate, WritePhase, AfterPhase
<1>5. CASE Fetch \/ UpdateModule \/ ModuleUpToDate
  <2>1. CASE Fetch
    BY <1>1, <2>1 DEF Fetch
  <2>2. CASE UpdateModule
    <3>1. w'.stage = "phase"
      BY <1>2, <2>2 DEF UpdateModule
    <3> QED
      BY <1>1, <3>1
  <2>3. CASE ModuleUpToDate
    BY <1>1, <2>3 DEF ModuleUpToDate
  <2> QED
    BY <1>5, <2>1, <2>2, <2>3
<1>6. CASE DeleteExtra \/ CreateExtra \/ UpdateExtra \/ ExtraUpToDate
  BY <1>1, <1>6, ExtraSteps
<1>7. CASE UserEdits \/ UserDeletes \/ CreateModule \/ GarbageCollect \/ ModulePhase
  BY <1>7 DEF UserEdits, UserDeletes, ServiceChanges, CreateModule, GarbageCollect,
              ModulePhase
<1>8. CASE SyncService \/ SyncModule
  BY <1>8 DEF SyncService, SyncModule
<1>9. CASE SyncExtras \/ UNCHANGED vars
  <2>1. UNCHANGED <<w, queued, service, serviceFresh, moduleFresh>>
    BY <1>9 DEF SyncExtras, vars
  <2> QED
    BY <2>1 DEF AlwaysAwake
<1> QED
  BY <1>2, <1>3, <1>4, <1>5, <1>6, <1>7, <1>8, <1>9
  DEF Next, Reconcile, CreateModuleFails, UpdateModuleFails, WritePhaseFails,
      ExtrasDone, WriteExtraFails, Panic, Restart

\* When the controller is idle with nothing queued and no event to come, there
\* is no Service: the copies are right whenever no event is due, so a call that
\* finds nothing to do is not mistaken, and every other one asks for a further
\* call or causes an event.
THEOREM ServiceAlwaysAwake == Spec => []AlwaysAwake
<1>1. Init => TypeOK /\ CopiesInv /\ AlwaysAwake
  BY TypeInit, CopiesInit, AwakeInit
<1>2. TypeOK /\ CopiesInv /\ AlwaysAwake /\ [Next]_vars
        => TypeOK' /\ CopiesInv' /\ AlwaysAwake'
  BY TypeStep, CopiesStep, AwakeStep
<1> QED
  BY <1>1, <1>2, PTL DEF Spec

-----------------------------------------------------------------------------
(* Extras and the cluster they are for *)

LEMMA CompletedInit == Init => CompletedInv /\ ExtrasNeedCluster
<1> SUFFICES ASSUME Init PROVE CompletedInv /\ ExtrasNeedCluster
  OBVIOUS
<1>1. w.stage = "idle"
  BY DEF Init, Idle
<1>2. \A n \in ExtraNames : extras[n] = NoExtra
  BY DEF Init
<1> QED
  BY <1>1, <1>2 DEF Init, CompletedInv, ExtrasNeedCluster

LEMMA CompletedStep ==
    TypeOK /\ CopiesInv /\ CompletedInv /\ ExtrasNeedCluster /\ [Next]_vars
      => CompletedInv' /\ ExtrasNeedCluster'
<1> SUFFICES ASSUME TypeOK, CopiesInv, CompletedInv, ExtrasNeedCluster, [Next]_vars
             PROVE  CompletedInv' /\ ExtrasNeedCluster'
  OBVIOUS
<1> USE DEF serviceVars, moduleVars, extraVars, counters
<1>1. Idle.stage = "idle"
  BY DEF Idle
<1>2. CASE FetchNothing \/ Fetch \/ CreateModuleFails \/ UpdateModuleFails
             \/ WritePhaseFails \/ ExtrasDone \/ WriteExtraFails
  <2>1. \/ w' = Idle
        \/ w' = w
        \/ w'.stage = "module"
    BY <1>2 DEF FetchNothing, Fetch, CreateModuleFails, UpdateModuleFails,
                WritePhaseFails, ExtrasDone, WriteExtraFails, ReturnRequeue
  <2>2. UNCHANGED <<module, moduleCache, completed, extras>>
    BY <1>2 DEF FetchNothing, Fetch, CreateModuleFails, UpdateModuleFails,
                WritePhaseFails, ExtrasDone, WriteExtraFails
  <2> QED
    BY <1>1, <2>1, <2>2 DEF CompletedInv, ExtrasNeedCluster
<1>3. CASE CreateModule
  <2>1. w' = Idle /\ module'.phase = "" /\ UNCHANGED <<moduleCache, completed, extras>>
    BY <1>3 DEF CreateModule, NewModule
  <2> QED
    BY <1>1, <2>1 DEF CompletedInv, ExtrasNeedCluster
<1>4. CASE UpdateModule \/ ModuleUpToDate
  <2>1. moduleCache # NoModule
    BY <1>4 DEF UpdateModule, Outdated, ModuleUpToDate
  <2>2. \/ w' = Idle
        \/ w'.stage = "phase" /\ w'.found = moduleCache.phase
    BY <1>4 DEF UpdateModule, ReturnRequeue, ModuleUpToDate
  <2>3. module' # NoModule /\ module'.phase = "Completed" => completed
    <3>1. CASE ModuleUpToDate
      BY <3>1 DEF ModuleUpToDate, CompletedInv
    <3>2. CASE UpdateModule
      <4>1. module \in Module /\ module = moduleCache
        BY <2>1, <3>2 DEF UpdateModule, CopiesInv, TypeOK, ModuleType
      <4>2. module'.phase = module.phase
        BY <3>2, <4>1 DEF UpdateModule, Module
      <4> QED
        BY <2>1, <4>1, <4>2 DEF CompletedInv
    <3> QED
      BY <1>4, <3>1, <3>2
  <2>4. UNCHANGED <<moduleCache, completed, extras>>
    BY <1>4 DEF UpdateModule, ModuleUpToDate
  <2> QED
    BY <1>1, <2>1, <2>2, <2>3, <2>4 DEF CompletedInv, ExtrasNeedCluster
<1>5. CASE PhaseUpToDate \/ WritePhase
  <2>1. UNCHANGED <<module, moduleCache, completed, extras>> /\ w.stage = "phase"
    BY <1>5 DEF PhaseUpToDate, WritePhase
  <2>2. \/ w' = Idle
        \/ /\ w'.stage = "extras"
           /\ w.found = "Completed" /\ App = "kubernetes-cluster"
    BY <1>5 DEF PhaseUpToDate, WritePhase, AfterPhase, ReturnRequeue
  <2> QED
    BY <1>1, <2>1, <2>2 DEF CompletedInv, ExtrasNeedCluster
<1>6. CASE DeleteExtra \/ CreateExtra \/ UpdateExtra \/ ExtraUpToDate
  <2>1. w.stage = "extras" /\ w'.stage = "extras"
    BY <1>6, ExtraSteps
  <2>2. UNCHANGED <<module, moduleCache, completed>>
    BY <1>6 DEF DeleteExtra, CreateExtra, UpdateExtra, ExtraUpToDate, SetExtra
  <2> QED
    BY <2>1, <2>2 DEF CompletedInv, ExtrasNeedCluster
<1>7. CASE Panic \/ Restart \/ SyncModule
  <2>1. /\ w' = Idle \/ w' = w
        /\ moduleCache' = module
        /\ UNCHANGED <<module, completed, extras>>
    BY <1>7 DEF Panic, Restart, SyncModule, ReturnRequeue
  <2> QED
    BY <1>1, <2>1 DEF CompletedInv, ExtrasNeedCluster
<1>8. CASE SyncService \/ SyncExtras \/ UNCHANGED vars
  <2>1. UNCHANGED <<w, module, moduleCache, completed, extras>>
    BY <1>8 DEF SyncService, SyncExtras, vars
  <2> QED
    BY <2>1 DEF CompletedInv, ExtrasNeedCluster
<1>9. CASE UserEdits \/ UserDeletes
  <2>1. PICK s : ServiceChanges(s)
    BY <1>9 DEF UserEdits, UserDeletes
  <2>2. /\ w'.stage = w.stage
        /\ w.stage = "phase" => w'.found = w.found
    <3>1. CASE w.stage \in {"module", "phase"}
      <4>1. w' = [w EXCEPT !.fresh = FALSE]
        BY <2>1, <3>1 DEF ServiceChanges
      <4> QED
        BY <3>1, <4>1 DEF TypeOK, Busy, Idle
    <3>2. CASE w.stage \notin {"module", "phase"}
      BY <2>1, <3>2 DEF ServiceChanges
    <3> QED
      BY <3>1, <3>2
  <2>3. UNCHANGED <<module, moduleCache, completed, extras>>
    BY <2>1 DEF ServiceChanges
  <2> QED
    BY <2>2, <2>3 DEF CompletedInv, ExtrasNeedCluster
<1>10. CASE GarbageCollect
  <2>1. module' = NoModule /\ UNCHANGED <<w, moduleCache, completed, extras>>
    BY <1>10 DEF GarbageCollect
  <2> QED
    BY <2>1 DEF CompletedInv, ExtrasNeedCluster
<1>11. CASE ModulePhase
  <2>1. /\ completed => completed'
        /\ module'.phase = "Completed" => completed'
        /\ UNCHANGED <<w, moduleCache, extras>>
    <3>1. module \in Module
      BY <1>11 DEF ModulePhase, TypeOK, ModuleType
    <3> QED
      BY <1>11, <3>1 DEF ModulePhase, Module
  <2> QED
    BY <2>1 DEF CompletedInv, ExtrasNeedCluster
<1> QED
  BY <1>2, <1>3, <1>4, <1>5, <1>6, <1>7, <1>8, <1>9, <1>10, <1>11
  DEF Next, Reconcile

\* An extra exists only if the cluster was Completed at some time.  The phase the
\* decision rests on is the one of a cached Module, of a Module that was
\* overwritten, or of one that was read several steps ago: each was true once.
THEOREM ExtrasOnlyOnCluster == Spec => []ExtrasNeedCluster
<1>1. Init => TypeOK /\ CopiesInv /\ CompletedInv /\ ExtrasNeedCluster
  BY TypeInit, CopiesInit, CompletedInit
<1>2. TypeOK /\ CopiesInv /\ CompletedInv /\ ExtrasNeedCluster /\ [Next]_vars
        => TypeOK' /\ CopiesInv' /\ CompletedInv' /\ ExtrasNeedCluster'
  BY TypeStep, CopiesStep, CompletedStep
<1> QED
  BY <1>1, <1>2, PTL DEF Spec

-----------------------------------------------------------------------------
(* When the comparison of the variables can be trusted *)

Names(vs) == {vs[i].name : i \in 1 .. Len(vs)}
Variables(vs) == {vs[i] : i \in 1 .. Len(vs)}
NamedOnce(vs) ==
    \A i, j \in 1 .. Len(vs) : vs[i].name = vs[j].name => i = j

\* A list that names no variable twice is as long as it has variables.
LEMMA LengthOfVariables ==
    ASSUME NEW S, NEW vs \in Seq(S), NamedOnce(vs)
    PROVE  IsFiniteSet(Variables(vs)) /\ Cardinality(Variables(vs)) = Len(vs)
<1> DEFINE at == [i \in 1 .. Len(vs) |-> vs[i]]
<1>1. at \in Bijection(1 .. Len(vs), Variables(vs))
  <2>1. /\ at \in [1 .. Len(vs) -> Variables(vs)]
        /\ \A v \in Variables(vs) : \E i \in 1 .. Len(vs) : at[i] = v
    BY DEF Variables
  <2>2. \A i, j \in 1 .. Len(vs) : at[i] = at[j] => i = j
    BY DEF NamedOnce
  <2>3. DOMAIN at = 1 .. Len(vs)
    OBVIOUS
  <2> HIDE DEF at
  <2> QED
    BY <2>1, <2>2, <2>3 DEF Surjection, Bijection, Injection, IsInjective
<1>2. Len(vs) \in Nat
  OBVIOUS
<1>3. IsFiniteSet(1 .. Len(vs)) /\ Cardinality(1 .. Len(vs)) = Len(vs)
  BY <1>2, FS_Interval
<1> HIDE DEF at
<1>4. ExistsBijection(1 .. Len(vs), Variables(vs))
  BY <1>1 DEF ExistsBijection
<1> QED
  BY <1>3, <1>4, FS_Bijection

\* EqualEnvVars looks at the values of common names and at the lengths only.
\* It tells exactly whether two lists hold the same variables if each names a
\* variable once and both name the same ones: a Service that keeps the names of
\* its variables is always compared rightly with its Module.
THEOREM EqualEnvVarsExact ==
    ASSUME NEW N, NEW V,
           NEW old \in Seq([name : N, value : V]),
           NEW new \in Seq([name : N, value : V]),
           NamedOnce(old), NamedOnce(new), Names(old) = Names(new)
    PROVE  EqualEnvVars(old, new) <=> Variables(old) = Variables(new)
<1>0. /\ \A i \in 1 .. Len(old) : old[i] \in [name : N, value : V]
      /\ \A i \in 1 .. Len(new) : new[i] \in [name : N, value : V]
  <2>1. ASSUME NEW S, NEW vs \in Seq(S)
        PROVE  \A i \in 1 .. Len(vs) : vs[i] \in S
    OBVIOUS
  <2> QED
    BY <2>1
<1>1. ASSUME EqualEnvVars(old, new)
      PROVE  Variables(old) = Variables(new)
  <2>1. ASSUME NEW i \in 1 .. Len(old), NEW j \in 1 .. Len(new),
               old[i].name = new[j].name
        PROVE  old[i] = new[j]
    <3>1. old[i].value = new[j].value
      BY <1>1, <2>1 DEF EqualEnvVars
    <3>2. /\ old[i] = [name |-> old[i].name, value |-> old[i].value]
          /\ new[j] = [name |-> new[j].name, value |-> new[j].value]
      BY <1>0
    <3> QED
      BY <2>1, <3>1, <3>2
  <2>2. \A i \in 1 .. Len(old) : \E j \in 1 .. Len(new) : new[j].name = old[i].name
    BY DEF Names
  <2>3. \A j \in 1 .. Len(new) : \E i \in 1 .. Len(old) : old[i].name = new[j].name
    BY DEF Names
  <2>4. \A i \in 1 .. Len(old) : \E j \in 1 .. Len(new) : new[j] = old[i]
    BY <2>1, <2>2
  <2>5. \A j \in 1 .. Len(new) : \E i \in 1 .. Len(old) : old[i] = new[j]
    BY <2>1, <2>3
  <2>6. ASSUME NEW v \in Variables(old) PROVE v \in Variables(new)
    <3>1. PICK i \in 1 .. Len(old) : v = old[i]
      BY <2>6 DEF Variables
    <3>2. PICK j \in 1 .. Len(new) : new[j] = old[i]
      BY <2>4
    <3> QED
      BY <3>1, <3>2 DEF Variables
  <2>7. ASSUME NEW v \in Variables(new) PROVE v \in Variables(old)
    <3>1. PICK j \in 1 .. Len(new) : v = new[j]
      BY <2>7 DEF Variables
    <3>2. PICK i \in 1 .. Len(old) : old[i] = new[j]
      BY <2>5
    <3> QED
      BY <3>1, <3>2 DEF Variables
  <2> QED
    BY <2>6, <2>7
<1>2. ASSUME Variables(old) = Variables(new)
      PROVE  EqualEnvVars(old, new)
  <2>1. Len(old) = Len(new)
    BY <1>2, LengthOfVariables
  <2>2. ASSUME NEW i \in 1 .. Len(old), NEW j \in 1 .. Len(new),
               old[i].name = new[j].name
        PROVE  old[i].value = new[j].value
    <3>1. PICK k \in 1 .. Len(old) : old[k] = new[j]
      BY <1>2 DEF Variables
    <3>2. k = i
      BY <2>2, <3>1 DEF NamedOnce
    <3> QED
      BY <3>1, <3>2
  <2> QED
    BY <2>1, <2>2 DEF EqualEnvVars
<1> QED
  BY <1>1, <1>2
=============================================================================
