--------------------------- MODULE ExtraController ---------------------------
(***************************************************************************)
(* pkg/controller/monitoring, backup and logging: three copies of one      *)
(* reconciler, which keeps an Application as a Monitoring, Backup or       *)
(* Logging resource (an extra) asks.  Composed here with the controller of *)
(* that Application: both run in one process and read the same informer    *)
(* cache, but this one has no predicate on its watch, so that every event  *)
(* of the Application wakes it.  Its own calls have no timer at all.       *)
(***************************************************************************)
EXTENDS ApplicationController

CONSTANTS
    ExtraSpecs,    \* the specs of the extra
    AppName,       \* "automium-monitoring", "automium-backup", ...
    NoExtra        \* the extra does not exist

\* The Spec of the Application an extra asks for.
deploy(e) == [name |-> AppName, version |-> e.version, parameters |-> e.parameters]

ASSUME ExtraAssumption ==
    /\ \A e \in ExtraSpecs : deploy(e) \in Specs
    /\ NoExtra \notin ExtraSpecs

VARIABLES
    extra, extraCache,   \* the extra in the API server and its cached copy
    extraQueued,         \* Reconcile will be called (again)
    ew                   \* the worker: its stage and local variables

extraVars == <<extra, extraCache, extraQueued>>
allVars == <<vars, extraVars, ew>>

-----------------------------------------------------------------------------
(* The steps of Reconcile *)

ExtraReturn(again) == /\ ew' = Idle
                      /\ extraQueued' = (extraQueued \/ again)

ExtraFetchNothing ==
    /\ ew = Idle
    /\ extraQueued
    /\ extraCache = NoExtra
    /\ extraQueued' = FALSE
    /\ UNCHANGED <<vars, extra, extraCache, ew>>

\* Mutant: the name of the Application is not set.
ExtraFetchNameless ==
    /\ ew = Idle
    /\ extraQueued
    /\ extraCache # NoExtra
    /\ extraQueued' = FALSE
    /\ ew' = [stage |-> "write", spec |-> extraCache, found |-> cache,
              fresh |-> events = <<>>]
    /\ UNCHANGED <<vars, extra, extraCache>>

\* The extra and its Application are read from the cache; SetControllerReference
\* names the extra as the owner.
ExtraFetch ==
    /\ ew = Idle
    /\ extraQueued
    /\ extraCache # NoExtra
    /\ extraQueued' = FALSE
    /\ ew' = [stage |-> "write", spec |-> deploy(extraCache), found |-> cache,
              fresh |-> events = <<>>]
    /\ UNCHANGED <<vars, extra, extraCache>>

Writing == ew.stage = "write"

CreateApplication ==
    /\ Writing
    /\ ew.found = NoApp
    /\ app = NoApp
    /\ OthersWriteApp([spec |-> ew.spec, phase |-> ""])
    /\ ExtraReturn(FALSE)
    /\ UNCHANGED <<queued, rancherVars, history, counters, extra, extraCache>>

UpdateApplication ==
    /\ Writing
    /\ ew.found # NoApp
    /\ ew.found.spec # ew.spec
    /\ ew.fresh
    /\ OthersWriteApp([app EXCEPT !.spec = ew.spec])
    /\ ExtraReturn(FALSE)
    /\ UNCHANGED <<queued, rancherVars, history, counters, extra, extraCache>>

\* The Application exists already, was changed meanwhile, or the API fails.
WriteApplicationFails ==
    /\ Writing
    /\ \/ ew.found = NoApp /\ app # NoApp /\ UNCHANGED counters
       \/ ew.found # NoApp /\ ew.found.spec # ew.spec /\ ~ew.fresh /\ UNCHANGED counters
       \/ (ew.found # NoApp => ew.found.spec # ew.spec) /\ Fault
    /\ ExtraReturn(TRUE)
    /\ UNCHANGED <<appVars, queued, w, rancherVars, history, extra, extraCache>>

ApplicationUpToDate ==
    /\ Writing
    /\ ew.found # NoApp
    /\ ew.found.spec = ew.spec
    /\ ExtraReturn(FALSE)
    /\ UNCHANGED <<vars, extra, extraCache>>

ExtraReconcile ==
    \/ ExtraFetchNothing \/ ExtraFetch \/ CreateApplication
    \/ UpdateApplication \/ WriteApplicationFails \/ ApplicationUpToDate

-----------------------------------------------------------------------------
(* The environment of the extra *)

ChangeExtra(e) ==
    /\ edits < MaxEdits
    /\ edits' = edits + 1
    /\ extra # NoExtra
    /\ extra' = e
    /\ UNCHANGED <<appVars, queued, w, rancherVars, history, faults, extraCache,
                   extraQueued, ew>>

\* The Service controller writes another spec, or deletes the extra.
EditExtra == \E e \in ExtraSpecs \ {extra} : ChangeExtra(e)
DeleteExtra == ChangeExtra(NoExtra)

SyncExtra ==
    /\ extraCache # extra
    /\ extraCache' = extra
    /\ extraQueued' = TRUE
    /\ UNCHANGED <<vars, extra, ew>>

\* Kubernetes deletes the Application, whose owner is the extra.
GarbageCollect ==
    /\ extra = NoExtra
    /\ app # NoApp
    /\ OthersWriteApp(NoApp)
    /\ ew' = IF ew = Idle THEN ew ELSE [ew EXCEPT !.fresh = FALSE]
    /\ UNCHANGED <<queued, rancherVars, history, counters, extraVars>>

-----------------------------------------------------------------------------
(* Both controllers together *)

\* A step of the Application controller: its status write makes the copy that
\* the other worker holds an old one.
ApplicationStep(A) ==
    /\ A
    /\ ew' = IF ew = Idle \/ app' = app THEN ew ELSE [ew EXCEPT !.fresh = FALSE]
    /\ UNCHANGED extraVars

\* Mutant: the Applications of the extra are not watched.
DeliverToOwnerUnwatched ==
    /\ Deliver \/ Relist
    /\ UNCHANGED <<extraVars, ew>>

\* The watch on the Applications owned by the extra has no predicate.
DeliverToBoth == /\ Deliver \/ Relist
                 /\ extraQueued' = TRUE
                 /\ UNCHANGED <<extra, extraCache, ew>>

RestartBoth == /\ Restart
               /\ ew' = Idle
               /\ extraQueued' = TRUE
               /\ extraCache' = extra
               /\ UNCHANGED extra

ExtraTypeOK ==
    /\ TypeOK
    /\ extra \in ExtraSpecs \cup {NoExtra}
    /\ extraCache \in ExtraSpecs \cup {NoExtra}
    /\ extraQueued \in BOOLEAN
    /\ ew \in {Idle} \cup
              [stage : {"write"}, spec : Specs, found : Application \cup {NoApp},
               fresh : BOOLEAN]

\* The Service controller has just created the extra.
ExtraInit ==
    /\ InitWith(NoApp)
    /\ extra \in ExtraSpecs
    /\ extraCache = extra
    /\ extraQueued = TRUE
    /\ ew = Idle

ExtraNext ==
    \/ ExtraReconcile
    \/ ApplicationStep(Reconcile) \/ ApplicationStep(Rancher)
    \/ DeliverToBoth \/ RestartBoth
    \/ EditExtra \/ DeleteExtra \/ SyncExtra \/ GarbageCollect

ExtraSpec == ExtraInit /\ [][ExtraNext]_allVars
-----------------------------------------------------------------------------
(* Properties *)

\* No return of Reconcile has a timer, yet the controller never rests on a
\* wrong Application: when nothing will call it again and its cached copy of
\* the extra is the latest, the Application in the API server is the one the
\* extra asks for, whatever conflicts, old reads and restarts came between.
ExtraSettled ==
    /\ ew = Idle /\ ~extraQueued /\ events = <<>>
    /\ extraCache = extra /\ extra # NoExtra
    => app # NoApp /\ app.spec = deploy(extra)

\* The workers, the watches and the garbage collector keep going.
ExtraLiveSpec ==
    /\ ExtraSpec
    /\ WF_allVars(ApplicationStep(Reconcile)) /\ WF_allVars(ExtraReconcile)
    /\ WF_allVars(DeliverToBoth) /\ WF_allVars(SyncExtra)
    /\ WF_allVars(GarbageCollect)

\* An extra that keeps its spec gets an Application with that spec for good,
\* although no call of its controller has a timer, and a deleted one keeps none.
\* The premise is that the cluster does not come and go for ever: each change
\* of the phase may be the conflict that makes an update fail.
ApplicationFollows ==
    /\ \A e \in ExtraSpecs :
         <>[](extra = e) /\ (<>[]reachable \/ <>[]~reachable)
            => <>[](app # NoApp /\ app.spec = deploy(e))
    /\ <>[](extra = NoExtra) => <>[](app = NoApp)

\* Once Rancher can be reached for good, it ends up with the spec of the
\* Application, even if a request that was given up has put an older one in its
\* place meanwhile, unless the Application controller sleeps for good.
RolledOut ==
    <>[](reachable /\ app # NoApp) /\ []<>~Asleep
        => <>[](app # NoApp /\ installed = app.spec)
=============================================================================
