-------------------------- MODULE ServiceController --------------------------
(***************************************************************************)
(* pkg/controller/service: the reconciler of one Service.  It writes the   *)
(* Module that the Service asks for, copies the Module's phase back, and   *)
(* once a kubernetes-cluster is Completed keeps its extras (Monitoring,    *)
(* Backup and Logging resources) in step with Spec.Extra.                  *)
(*                                                                         *)
(* The conventions are those of ModuleController: reads come from informer *)
(* caches, serviceFresh, moduleFresh and w.fresh say that a copy is the    *)
(* latest one, queued that Reconcile will be called again.  An extra is    *)
(* only written here, so its cached copy is the latest iff it is equal.    *)
(***************************************************************************)
EXTENDS Integers, Sequences

CONSTANTS
    ServiceSpecs,  \* the specs users write
    App,           \* the label "app" of the Service
    Upper,         \* strings.ToUpper, on the names of environment variables
    NilMap,        \* Spec.Extra[i].Parameters left out
    MaxChanges,    \* bound on the changes by users and the Module controller
    MaxFaults,     \* bound on failed API calls and restarts
    NoService, NoModule, NoExtra   \* the object does not exist

ASSUME ServiceAssumption ==
    /\ \A spec \in ServiceSpecs : Len(spec.extra) \in Nat
    /\ MaxChanges \in Nat
    /\ MaxFaults \in Nat

ExtraNames == {"monitoring", "backup", "logging"}
Phases == {"", "Pending", "Running", "Completed", "Failed"}

VARIABLES
    service, serviceCache, serviceFresh,  \* the Service and its cached copy
    module, moduleCache, moduleFresh,     \* its Module and its cached copy
    extras, extraCache,                   \* its extras and their cached copies
    queued,                               \* Reconcile will be called (again)
    w,                                    \* the worker: stage and variables
    completed,       \* history: the Module has been Completed once
    changes, faults    \* counters bounding the environment

serviceVars == <<service, serviceCache, serviceFresh>>
moduleVars == <<module, moduleCache, moduleFresh, completed>>
extraVars == <<extras, extraCache>>
counters == <<changes, faults>>
vars == <<serviceVars, moduleVars, extraVars, queued, w, counters>>

Idle == [stage |-> "idle"]

-----------------------------------------------------------------------------
(* Operators of the reconciler *)

Var(name, value) == [name |-> name, value |-> value]

\* The variables of the Service with upper-case names, the two every Module
\* gets and those of the application.
tfEnvVars(env) ==
    [i \in 1 .. Len(env) |-> Var(Upper[env[i].name], env[i].value)]
        \o <<Var("PROVIDER", "openstack"), Var("NAME", "service")>>

customClusterName(env) ==
    \E i \in 1 .. Len(env) : env[i].name = "CLUSTER_NAME" /\ env[i].value # ""

specificEnvVars(env) ==
    CASE App = "kubernetes-cluster" ->
            <<Var("MASTER", "true"), Var("NODE", "false"), Var("ETCD", "true")>>
            \o (IF customClusterName(env) THEN <<>>
                ELSE <<Var("CLUSTER_NAME", "service")>>)
      [] App = "kubernetes-nodepool" ->
            <<Var("MASTER", "false"), Var("NODE", "true"), Var("ETCD", "false")>>
      [] OTHER -> <<>>

\* The Module Spec that a Service Spec asks for; Spec.Image is made from the
\* application and the version.
desired ==
    [spec \in ServiceSpecs |->
       [replicas |-> spec.replicas, image |-> spec.version, flavor |-> spec.flavor,
        env |-> tfEnvVars(spec.env) \o specificEnvVars(tfEnvVars(spec.env))]]

\* Mutant: lists of different lengths may be equal.
EqualEnvVarsAnyLength(old, new) ==
    \A i \in 1 .. Len(old), j \in 1 .. Len(new) :
      old[i].name = new[j].name => old[i].value = new[j].value

\* EqualEnvVars: as many variables, and none has two values.
EqualEnvVars(old, new) ==
    /\ Len(old) = Len(new)
    /\ \A i \in 1 .. Len(old), j \in 1 .. Len(new) :
         old[i].name = new[j].name => old[i].value = new[j].value

IsModuleDifferent(actual, new) ==
    ~ /\ actual.flavor = new.flavor
      /\ actual.image = new.image
      /\ actual.replicas = new.replicas
      /\ EqualEnvVars(actual.env, new.env)

\* The manifest of an extra.  The one of Logging carries the cluster's name
\* among its parameters; writing it into a nil map panics.
manifest(extra) == [version |-> extra.version,
                    parameters |-> IF extra.name = "logging"
                                   THEN <<"clusterName", extra.parameters>>
                                   ELSE extra.parameters]

ReturnRequeue == /\ w' = Idle
                 /\ queued' = TRUE

Fault == /\ faults < MaxFaults
         /\ faults' = faults + 1
         /\ UNCHANGED changes

\* A write fails for the given reason, or because the API fails.
Refused(reason) == \/ reason /\ UNCHANGED counters
                   \/ Fault

-----------------------------------------------------------------------------

Init ==
    /\ service \in [spec : ServiceSpecs, phase : {""}]
    /\ serviceCache = service
    /\ serviceFresh = TRUE
    /\ module = NoModule
    /\ moduleCache = NoModule
    /\ moduleFresh = TRUE
    /\ extras = [n \in ExtraNames |-> NoExtra]
    /\ extraCache = extras
    /\ queued = TRUE
    /\ w = Idle
    /\ completed = FALSE
    /\ changes = 0
    /\ faults = 0

(* The steps of Reconcile *)

FetchNothing ==
    /\ w = Idle /\ queued
    /\ serviceCache = NoService
    /\ queued' \in BOOLEAN   \* another timer may be pending
    /\ UNCHANGED <<serviceVars, moduleVars, extraVars, w, counters>>

Fetch ==
    /\ w = Idle /\ queued
    /\ serviceCache # NoService
    /\ queued' \in BOOLEAN   \* another timer may be pending
    /\ w' = [stage |-> "module", inst |-> serviceCache, fresh |-> serviceFresh]
    /\ UNCHANGED <<serviceVars, moduleVars, extraVars, counters>>

\* Mutant: the variables are passed on as they are.
NewModuleRawEnv(spec) == [spec |-> [desired[spec] EXCEPT !.env = spec.env],
                          phase |-> ""]

NewModule(spec) == [spec |-> desired[spec], phase |-> ""]

\* After a creation Reconcile returns without asking for another call: the
\* watch on the Module brings it back.
CreateModule ==
    /\ w.stage = "module"
    /\ moduleCache = NoModule
    /\ module = NoModule
    /\ module' = NewModule(w.inst.spec)
    /\ moduleFresh' = FALSE
    /\ w' = Idle
    /\ UNCHANGED <<serviceVars, moduleCache, completed, extraVars, queued, counters>>

CreateModuleFails ==
    /\ w.stage = "module"
    /\ moduleCache = NoModule
    /\ Refused(module # NoModule)
    /\ ReturnRequeue
    /\ UNCHANGED <<serviceVars, moduleVars, extraVars>>

Outdated == /\ w.stage = "module"
            /\ moduleCache # NoModule
            /\ IsModuleDifferent(moduleCache.spec, desired[w.inst.spec])

\* The Module is written and the Service read again; found has the phase of
\* the Module that was just overwritten.
UpdateModule ==
    /\ Outdated
    /\ moduleFresh
    /\ module' = [module EXCEPT !.spec = desired[w.inst.spec]]
    /\ moduleFresh' = (module' = module)
    /\ IF serviceCache = NoService
       THEN ReturnRequeue
       ELSE /\ w' = [stage |-> "phase", inst |-> serviceCache,
                     fresh |-> serviceFresh, found |-> moduleCache.phase]
            /\ UNCHANGED queued
    /\ UNCHANGED <<serviceVars, moduleCache, completed, extraVars, counters>>

UpdateModuleFails ==
    /\ Outdated
    /\ Refused(~moduleFresh)
    /\ ReturnRequeue
    /\ UNCHANGED <<serviceVars, moduleVars, extraVars>>

ModuleUpToDate ==
    /\ w.stage = "module"
    /\ moduleCache # NoModule
    /\ ~IsModuleDifferent(moduleCache.spec, desired[w.inst.spec])
    /\ w' = [stage |-> "phase", inst |-> w.inst, fresh |-> w.fresh,
             found |-> moduleCache.phase]
    /\ UNCHANGED <<serviceVars, moduleVars, extraVars, queued, counters>>

\* Mutants: the phase is not looked at; no timer is set.
AfterPhaseAny ==
    IF App = "kubernetes-cluster"
    THEN /\ w' = [stage |-> "extras", spec |-> w.inst.spec, next |-> 1]
         /\ UNCHANGED queued
    ELSE ReturnRequeue
AfterPhaseNoTimer ==
    IF w.found = "Completed" /\ App = "kubernetes-cluster"
    THEN /\ w' = [stage |-> "extras", spec |-> w.inst.spec, next |-> 1]
         /\ UNCHANGED queued
    ELSE w' = Idle /\ UNCHANGED queued

\* The extras are managed only for a Completed cluster; otherwise Reconcile
\* asks to be called again in 15s or 30s.
AfterPhase ==
    IF w.found = "Completed" /\ App = "kubernetes-cluster"
    THEN /\ w' = [stage |-> "extras", spec |-> w.inst.spec, next |-> 1]
         /\ UNCHANGED queued
    ELSE ReturnRequeue

\* Mutant: the phase is copied only once.
PhaseUpToDateOnce ==
    /\ w.stage = "phase"
    /\ w.inst.phase # "" \/ w.inst.phase = w.found
    /\ AfterPhase
    /\ UNCHANGED <<serviceVars, moduleVars, extraVars, counters>>

PhaseUpToDate ==
    /\ w.stage = "phase"
    /\ w.inst.phase = w.found
    /\ AfterPhase
    /\ UNCHANGED <<serviceVars, moduleVars, extraVars, counters>>

WritePhase ==
    /\ w.stage = "phase"
    /\ w.inst.phase # w.found
    /\ w.fresh
    /\ service' = [service EXCEPT !.phase = w.found]
    /\ serviceFresh' = FALSE
    /\ AfterPhase
    /\ UNCHANGED <<serviceCache, moduleVars, extraVars, counters>>

WritePhaseFails ==
    /\ w.stage = "phase"
    /\ w.inst.phase # w.found
    /\ Refused(~w.fresh)
    /\ ReturnRequeue
    /\ UNCHANGED <<serviceVars, moduleVars, extraVars>>

(* ManageExtras: one extra after the other, an error ends the call *)

Managing == w.stage = "extras" /\ w.next <= Len(w.spec.extra)
Extra == w.spec.extra[w.next]
Nil == Extra.name = "logging" /\ Extra.parameters = NilMap

NextExtra == w' = [w EXCEPT !.next = @ + 1] /\ UNCHANGED queued

SetExtra(value) ==
    /\ extras' = [extras EXCEPT ![Extra.name] = value]
    /\ NextExtra
    /\ UNCHANGED <<serviceVars, moduleVars, extraCache, counters>>

\* Managing a known extra whose manifest can be built, with some replicas.
Deploying == /\ Managing
             /\ Extra.name \in ExtraNames
             /\ ~Nil
             /\ w.spec.replicas # 0

ExtrasDone ==
    /\ w.stage = "extras"
    /\ Managing => Extra.name \notin ExtraNames   \* an error: unknown extra
    /\ ReturnRequeue
    /\ UNCHANGED <<serviceVars, moduleVars, extraVars, counters>>

\* Without replicas the extra is deleted; one that does not exist is fine.
DeleteExtra ==
    /\ Managing
    /\ Extra.name \in ExtraNames
    /\ ~Nil
    /\ w.spec.replicas = 0
    /\ SetExtra(NoExtra)

CreateExtra ==
    /\ Deploying
    /\ extraCache[Extra.name] = NoExtra
    /\ extras[Extra.name] = NoExtra
    /\ SetExtra(manifest(Extra))

UpdateExtra ==
    /\ Deploying
    /\ extraCache[Extra.name] \notin {NoExtra, manifest(Extra)}
    /\ extraCache[Extra.name] = extras[Extra.name]
    /\ SetExtra(manifest(Extra))

\* Mutant: an extra that exists is never updated.
ExtraUpToDateIfPresent ==
    /\ Deploying
    /\ extraCache[Extra.name] # NoExtra
    /\ NextExtra
    /\ UNCHANGED <<serviceVars, moduleVars, extraVars, counters>>

ExtraUpToDate ==
    /\ Deploying
    /\ extraCache[Extra.name] = manifest(Extra)
    /\ NextExtra
    /\ UNCHANGED <<serviceVars, moduleVars, extraVars, counters>>

\* The extra exists already, was changed or is gone, or the API fails.
WriteExtraFails ==
    /\ Managing
    /\ Extra.name \in ExtraNames
    /\ ~Nil
    /\ \/ /\ w.spec.replicas = 0
          /\ Fault
       \/ /\ Deploying
          /\ extraCache[Extra.name] # manifest(Extra)
          /\ Refused(extraCache[Extra.name] # extras[Extra.name])
    /\ ReturnRequeue
    /\ UNCHANGED <<serviceVars, moduleVars, extraVars>>

\* manageLoggingExtra writes into a nil map: the process dies and is started
\* again, with new caches.
Panic ==
    /\ Managing
    /\ Nil
    /\ ReturnRequeue
    /\ serviceCache' = service /\ serviceFresh' = TRUE
    /\ moduleCache' = module /\ moduleFresh' = TRUE
    /\ extraCache' = extras
    /\ UNCHANGED <<service, module, completed, extras, counters>>

Reconcile ==
    \/ FetchNothing \/ Fetch
    \/ CreateModule \/ CreateModuleFails
    \/ UpdateModule \/ UpdateModuleFails \/ ModuleUpToDate
    \/ PhaseUpToDate \/ WritePhase \/ WritePhaseFails
    \/ ExtrasDone \/ DeleteExtra \/ CreateExtra \/ UpdateExtra
    \/ ExtraUpToDate \/ WriteExtraFails \/ Panic

-----------------------------------------------------------------------------
(* The informer caches and the operator process *)

SyncService ==
    /\ ~serviceFresh
    /\ serviceCache' = service /\ serviceFresh' = TRUE
    /\ queued' = TRUE
    /\ UNCHANGED <<service, moduleVars, extraVars, w, counters>>

\* The Service is enqueued as the owner of the Module.
SyncModule ==
    /\ ~moduleFresh
    /\ moduleCache' = module /\ moduleFresh' = TRUE
    /\ queued' = TRUE
    /\ UNCHANGED <<serviceVars, module, completed, extraVars, w, counters>>

\* The Service controller does not watch the extras.
SyncExtras ==
    /\ extraCache # extras
    /\ extraCache' = extras
    /\ UNCHANGED <<serviceVars, moduleVars, extras, queued, w, counters>>

Restart ==
    /\ Fault
    /\ ReturnRequeue
    /\ serviceCache' = service /\ serviceFresh' = TRUE
    /\ moduleCache' = module /\ moduleFresh' = TRUE
    /\ extraCache' = extras
    /\ UNCHANGED <<service, module, completed, extras>>

-----------------------------------------------------------------------------
(* The environment *)

Change == /\ changes < MaxChanges
          /\ changes' = changes + 1
          /\ UNCHANGED faults

ServiceChanges(s) ==
    /\ Change
    /\ service' = s
    /\ serviceFresh' = FALSE
    /\ w' = IF w.stage \in {"module", "phase"} THEN [w EXCEPT !.fresh = FALSE] ELSE w
    /\ UNCHANGED <<serviceCache, moduleVars, extraVars, queued>>

UserEdits ==
    /\ service # NoService
    /\ \E s \in ServiceSpecs \ {service.spec} :
         ServiceChanges([service EXCEPT !.spec = s])

UserDeletes ==
    /\ service # NoService
    /\ ServiceChanges(NoService)

\* Mutant: without an owner reference nothing is collected.
CollectNothing == FALSE

\* Kubernetes deletes the Module of a Service that is gone: the Service is
\* its owner.  The extras have no owner.
GarbageCollect ==
    /\ service = NoService
    /\ module # NoModule
    /\ module' = NoModule
    /\ moduleFresh' = FALSE
    /\ UNCHANGED <<serviceVars, moduleCache, completed, extraVars, queued, w, counters>>

\* The Module controller publishes a phase, or other counts with the same one:
\* either way the cached copy of the Module is old.
ModulePhase ==
    /\ Change
    /\ module # NoModule
    /\ \E p \in Phases \ {""} :
         /\ module' = [module EXCEPT !.phase = p]
         /\ completed' = (completed \/ p = "Completed")
    /\ moduleFresh' = FALSE
    /\ UNCHANGED <<serviceVars, moduleCache, extraVars, queued, w>>

Next ==
    \/ Reconcile
    \/ SyncService \/ SyncModule \/ SyncExtras \/ Restart
    \/ UserEdits \/ UserDeletes \/ GarbageCollect \/ ModulePhase

Spec == Init /\ [][Next]_vars

-----------------------------------------------------------------------------
(* Properties *)

Service == [spec : ServiceSpecs, phase : Phases]
Module == [spec : {desired[s] : s \in ServiceSpecs}, phase : Phases]

\* The extras of each name that the specs ask for.
Manifests ==
    [n \in ExtraNames |->
       {manifest(e) : e \in {x \in UNION {{s.extra[i] : i \in 1 .. Len(s.extra)} :
                                          s \in ServiceSpecs} : x.name = n}}]

Busy ==
    [stage : {"module"}, inst : Service, fresh : BOOLEAN]
    \cup [stage : {"phase"}, inst : Service, fresh : BOOLEAN, found : Phases]
    \cup [stage : {"extras"}, spec : ServiceSpecs, next : Nat \ {0}]

ServiceType == /\ {service, serviceCache} \subseteq Service \cup {NoService}
               /\ serviceFresh \in BOOLEAN

ModuleType == /\ {module, moduleCache} \subseteq Module \cup {NoModule}
              /\ moduleFresh \in BOOLEAN
              /\ completed \in BOOLEAN

ExtraType == /\ DOMAIN extras = ExtraNames
             /\ DOMAIN extraCache = ExtraNames
             /\ \A n \in ExtraNames :
                  {extras[n], extraCache[n]} \subseteq Manifests[n] \cup {NoExtra}

TypeOK ==
    /\ ServiceType /\ ModuleType /\ ExtraType
    /\ w \in {Idle} \cup Busy
    /\ queued \in BOOLEAN
    /\ changes \in 0 .. MaxChanges /\ faults \in 0 .. MaxFaults

\* No extra is deployed to a cluster that was never up: an extra exists only
\* if the Module was Completed at some time, and only on a cluster.
ExtrasNeedCluster ==
    (\E n \in ExtraNames : extras[n] # NoExtra)
        => completed /\ App = "kubernetes-cluster"

\* The controller never goes to sleep on work left: when it is idle, nothing
\* is queued and no event is under way, there is no Service any more.  The
\* only returns without a timer are those for a Service that is gone and for
\* a Module just created, whose event is still to come.
AlwaysAwake ==
    (w = Idle /\ ~queued /\ serviceFresh /\ moduleFresh) => service = NoService

-----------------------------------------------------------------------------
(* Liveness *)

\* The worker, the watches and Kubernetes' garbage collector keep going.
LiveSpec ==
    /\ Spec
    /\ WF_vars(Reconcile)
    /\ WF_vars(SyncService) /\ WF_vars(SyncModule) /\ WF_vars(SyncExtras)
    /\ WF_vars(GarbageCollect)

\* service_controller.go:255, "Update the found object and write the result
\* back if there are any changes": the changes are finite, so from some time
\* on the Module has the spec that the Service asks for.
ModuleFollows ==
    <>[](service # NoService =>
           module # NoModule /\ module.spec = desired[service.spec])

\* The phase the Module ends up with becomes the phase of the Service.
PhaseFollows ==
    <>[](service # NoService /\ module # NoModule => service.phase = module.phase)

\* No Module survives its Service, even one created while the Service went.
NoOrphanModule == <>[](service = NoService => module = NoModule)

\* ManageExtras gets through with the extras: it knows them all, and none
\* lacks the parameters it needs.
Manageable(s) ==
    \A i \in 1 .. Len(s.extra) : /\ s.extra[i].name \in ExtraNames
                                  /\ s.extra[i].parameters # NilMap

\* A cluster that ends up Completed gets the extras its spec lists or, without
\* replicas, has none of them left, whatever the spec was while it was managed.
ExtrasFollow ==
    <>[]((/\ service # NoService /\ Manageable(service.spec)
          /\ module # NoModule /\ module.phase = "Completed")
         => \A i \in 1 .. Len(service.spec.extra) :
              LET extra == service.spec.extra[i]
              IN  extras[extra.name] = IF service.spec.replicas = 0 THEN NoExtra
                                       ELSE manifest(extra))

=============================================================================
