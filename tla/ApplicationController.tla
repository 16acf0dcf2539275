----------------------- MODULE ApplicationController -----------------------
(***************************************************************************)
(* pkg/controller/application: the reconciler of one Application.  It      *)
(* installs or upgrades an application of the Automium catalog through     *)
(* Rancher and publishes a phase.                                          *)
(*                                                                         *)
(* Any error of Rancher leads to the phase Failed and to a return without  *)
(* a timer.  The watch's predicate drops every event in which the status   *)
(* changed, so here it matters which versions of the Application the       *)
(* informer sees one after the other: events holds those it has not        *)
(* delivered yet, the last one being the Application in the API server.    *)
(* The answer of a request to Rancher may be lost or time out, and the     *)
(* request still take effect later: such requests are in late.             *)
(*                                                                         *)
(* The writers of the Application are in ExtraController, which composes   *)
(* these actions with its own.                                             *)
(***************************************************************************)
EXTENDS Integers, Sequences

CONSTANTS
    Specs,         \* Specs of the Application; name and cluster do not change
    NoApp,         \* the Application does not exist
    NotInstalled,  \* Rancher has no application of that name in the project
    MaxEdits,      \* bound on the changes of Spec
    MaxFaults      \* bound on failed calls to the API or to Rancher, on restarts
                   \* and on broken watches

Phases == {"", "Deploying", "Upgrading", "Deployed", "Failed"}
Application == [spec : Specs, phase : Phases]

\* A request to install (new) or to upgrade.
Request == [new : BOOLEAN, spec : Specs]

\* The version and the parameters make the difference between two Specs.
ASSUME ApplicationAssumption ==
    /\ NoApp \notin Application
    /\ \A s, t \in Specs :
         s.version = t.version /\ s.parameters = t.parameters => s = t
    /\ MaxEdits \in Nat
    /\ MaxFaults \in Nat

VARIABLES
    app,         \* the Application in the API server
    cache,       \* the informer's copy of it
    events,      \* the versions the informer has yet to deliver
    queued,      \* Reconcile will be called (again)
    w,           \* the worker: its stage and local variables
    installed,   \* the spec of the application in Rancher
    late,        \* requests that failed here and may still reach Rancher
    reachable,   \* Rancher has the cluster, active, and its project
    failed,      \* history: the spec of the last call if it failed, else NoApp
    arrived,     \* history: a late request has taken effect
    merged,      \* history: a relist merged a change of Spec into one of the status
    edits, faults  \* counters bounding the environment

appVars == <<app, cache, events>>
rancherVars == <<installed, late, reachable, arrived>>
history == <<failed, merged>>
counters == <<edits, faults>>
vars == <<appVars, queued, w, rancherVars, history, counters>>

\* inst is the variable instance of Reconcile, new the argument
\* newInstallation of deployApplication.
Idle == [stage |-> "idle"]
Stages == {"cluster", "apps", "announce", "deploy", "deployed", "failed"}
Busy == [stage : Stages, inst : Application, fresh : BOOLEAN, new : BOOLEAN]

TypeOK ==
    /\ app \in Application \cup {NoApp}
    /\ cache \in Application \cup {NoApp}
    /\ events \in Seq(Application \cup {NoApp})
    /\ queued \in BOOLEAN
    /\ w \in {Idle} \cup Busy
    /\ installed \in Specs \cup {NotInstalled}
    /\ late \subseteq Request
    /\ reachable \in BOOLEAN /\ arrived \in BOOLEAN
    /\ failed \in Specs \cup {NoApp}
    /\ merged \in BOOLEAN
    /\ edits \in 0 .. MaxEdits /\ faults \in 0 .. MaxFaults

\* Nothing happened yet, apart from the Application.
InitWith(a) ==
    /\ app = a
    /\ cache = a
    /\ events = <<>>
    /\ queued = (a # NoApp)
    /\ w = Idle
    /\ installed = NotInstalled
    /\ late = {}
    /\ reachable \in BOOLEAN
    /\ failed = NoApp
    /\ arrived = FALSE /\ merged = FALSE
    /\ edits = 0 /\ faults = 0

-----------------------------------------------------------------------------
(* Operators of the reconciler *)

\* Mutant: the answers are not compared.
UpToDateVersionOnly(spec) == installed.version = spec.version

\* Version and answers are those of the Spec; the default answers are the
\* same for every Spec of one name and cluster.
UpToDate(spec) == /\ installed.version = spec.version
                  /\ installed.parameters = spec.parameters

ReturnRequeue == /\ w' = Idle
                 /\ queued' = TRUE

\* Result{} without a timer.
ReturnDone == /\ w' = Idle
              /\ UNCHANGED queued

Fault == /\ faults < MaxFaults
         /\ faults' = faults + 1
         /\ UNCHANGED edits

\* A write to the API server; one that changes nothing makes no event.
WriteApp(a) ==
    /\ app' = a
    /\ events' = IF a = app THEN events ELSE Append(events, a)
    /\ UNCHANGED cache

Continue(stage) == /\ w' = [w EXCEPT !.stage = stage]
                   /\ UNCHANGED queued

\* updateStatus with its outcomes: the phase is the same, it is written, or the
\* write is refused.  No caller looks at the result.
StatusSkipped(phase) ==
    /\ w.inst.phase = phase
    /\ UNCHANGED <<appVars, counters>>

StatusWritten(phase) ==
    /\ w.inst.phase # phase
    /\ w.fresh
    /\ WriteApp([app EXCEPT !.phase = phase])
    /\ UNCHANGED counters

StatusRefused(phase) ==
    /\ w.inst.phase # phase
    /\ \/ ~w.fresh /\ UNCHANGED counters
       \/ Fault
    /\ UNCHANGED appVars

updateStatus(phase) ==
    /\ StatusSkipped(phase) \/ StatusWritten(phase) \/ StatusRefused(phase)
    /\ UNCHANGED <<rancherVars, merged>>

-----------------------------------------------------------------------------
(* The steps of Reconcile *)

FetchNothing ==
    /\ w = Idle
    /\ queued
    /\ cache = NoApp
    /\ queued' \in BOOLEAN   \* another timer may be pending
    /\ UNCHANGED <<appVars, w, rancherVars, history, counters>>

Fetch ==
    /\ w = Idle
    /\ queued
    /\ cache # NoApp
    /\ queued' \in BOOLEAN   \* another timer may be pending
    /\ failed' = NoApp
    /\ w' = [stage |-> "cluster", inst |-> cache, fresh |-> events = <<>>,
             new |-> FALSE]
    /\ UNCHANGED <<appVars, rancherVars, merged, counters>>

\* Rancher knows the cluster, which is active, and then the project.
FindCluster ==
    /\ w.stage = "cluster"
    /\ reachable
    /\ Continue("apps")
    /\ UNCHANGED <<appVars, rancherVars, history, counters>>

\* No such cluster or project, or a request fails or gives no JSON.
LookupFails ==
    /\ \/ w.stage = "cluster" /\ ~reachable /\ UNCHANGED counters
       \/ w.stage \in {"cluster", "apps"} /\ Fault
    /\ Continue("failed")
    /\ UNCHANGED <<appVars, rancherVars, history>>

\* Rancher has no such application, or it answers the list of applications with
\* an error: the status code is not looked at, an error reads as an empty list.
FindNothing ==
    /\ w.stage = "apps"
    /\ \/ installed = NotInstalled /\ UNCHANGED counters
       \/ Fault
    /\ w' = [w EXCEPT !.stage = "announce", !.new = TRUE]
    /\ UNCHANGED <<appVars, queued, rancherVars, history>>

FindOutdated ==
    /\ w.stage = "apps"
    /\ installed # NotInstalled
    /\ ~UpToDate(w.inst.spec)
    /\ Continue("announce")
    /\ UNCHANGED <<appVars, rancherVars, history, counters>>

FindCurrent ==
    /\ w.stage = "apps"
    /\ installed # NotInstalled
    /\ UpToDate(w.inst.spec)
    /\ Continue("deployed")
    /\ UNCHANGED <<appVars, rancherVars, history, counters>>

Announce ==
    /\ w.stage = "announce"
    /\ LET phase == IF w.new THEN "Deploying" ELSE "Upgrading"
       IN  /\ updateStatus(phase)
           /\ w' = [w EXCEPT !.stage = "deploy", !.inst.phase = phase]
    /\ UNCHANGED <<queued, failed>>

\* deployApplication: Rancher accepts the request.
Deploy ==
    /\ w.stage = "deploy"
    /\ w.new => installed = NotInstalled
    /\ installed' = w.inst.spec
    /\ Continue("deployed")
    /\ UNCHANGED <<appVars, late, reachable, arrived, history, counters>>

\* Rancher refuses to install what it has already, or a request fails: the
\* namespace is not moved, an error comes back, or no answer within 10s, in
\* which case the request may take effect later.
DeployFails ==
    /\ w.stage = "deploy"
    /\ \/ /\ w.new /\ installed # NotInstalled
          /\ UNCHANGED <<late, counters>>
       \/ /\ Fault
          /\ late' \in {late, late \cup {[new |-> w.new, spec |-> w.inst.spec]}}
    /\ Continue("failed")
    /\ UNCHANGED <<appVars, installed, reachable, arrived, history>>

\* Reconcile asks to be called again in five minutes.
MarkDeployed ==
    /\ w.stage = "deployed"
    /\ updateStatus("Deployed")
    /\ ReturnRequeue
    /\ UNCHANGED failed

MarkFailed ==
    /\ w.stage = "failed"
    /\ updateStatus("Failed")
    /\ failed' = w.inst.spec
    /\ ReturnDone

Reconcile ==
    \/ FetchNothing \/ Fetch
    \/ FindCluster \/ LookupFails \/ FindNothing \/ FindOutdated \/ FindCurrent
    \/ Announce \/ Deploy \/ DeployFails \/ MarkDeployed \/ MarkFailed

-----------------------------------------------------------------------------
(* The watch and the operator process *)

\* Mutant: every update is dropped.
PassesNoUpdate(old, new) == old = NoApp \/ new = NoApp

\* UpdateFunc of the predicate; creations and deletions pass.  It compares the
\* error text too, which one write changes only together with the phase.
Passes(old, new) ==
    \/ old = NoApp
    \/ new = NoApp
    \/ old.phase = new.phase

Deliver ==
    /\ events # <<>>
    /\ cache' = Head(events)
    /\ events' = Tail(events)
    /\ queued' = (queued \/ Passes(cache, Head(events)))
    /\ UNCHANGED <<app, w, rancherVars, history, counters>>

\* One of the events to come passes the predicate.
WouldWake ==
    \E i \in 1 .. Len(events) :
        Passes(IF i = 1 THEN cache ELSE events[i - 1], events[i])

\* Between two Failed versions it was not Failed: the error texts may differ.
FailedAgain ==
    /\ cache # NoApp /\ cache.phase = "Failed"
    /\ app # NoApp /\ app.phase = "Failed"
    /\ \E i \in 1 .. Len(events) : events[i] # NoApp /\ events[i].phase # "Failed"

\* The watch breaks and the informer lists again: it sees only the last of
\* several versions, and the predicate may drop what it would have let pass.
Relist ==
    /\ Len(events) > 1
    /\ Fault
    /\ cache' = app
    /\ events' = <<>>
    /\ \E seen \in {Passes(cache, app)} \cup (IF FailedAgain THEN {FALSE} ELSE {}) :
         /\ queued' = (queued \/ seen)
         /\ merged' = (merged \/ (WouldWake /\ ~seen))
    /\ UNCHANGED <<app, w, rancherVars, failed>>

Restart ==
    /\ Fault
    /\ ReturnRequeue
    /\ cache' = app
    /\ events' = <<>>
    /\ UNCHANGED <<app, rancherVars, history>>

-----------------------------------------------------------------------------
(* The environment *)

\* Another writer changes the Application: the worker's copy is old.
OthersWriteApp(a) ==
    /\ WriteApp(a)
    /\ w' = IF w = Idle \/ a = app THEN w ELSE [w EXCEPT !.fresh = FALSE]

\* A request that was given up takes effect after all.
LateArrives ==
    /\ \E r \in late :
         /\ late' = late \ {r}
         /\ r.new => installed = NotInstalled
         /\ installed' = r.spec
    /\ arrived' = TRUE
    /\ UNCHANGED <<appVars, queued, w, reachable, history, counters>>

\* The cluster becomes active in Rancher, or is no longer.
ClusterChanges ==
    /\ reachable' = ~reachable
    /\ UNCHANGED <<appVars, queued, w, installed, late, arrived, history, counters>>

Rancher == LateArrives \/ ClusterChanges

-----------------------------------------------------------------------------
(* Properties *)

\* No call of Reconcile is under way, due or caused by an event to come.
Asleep == w = Idle /\ ~queued /\ events = <<>>

\* The predicate drops status updates only: when nothing will wake the
\* controller any more, its last call failed, and it was a call for the spec
\* that is in the API server, whatever conflicts and crashes came between,
\* unless a relist showed a spec change and a status change as one.
SleepsOnlyOnFailure ==
    Asleep /\ app # NoApp => failed = app.spec \/ merged

\* A phase turns Deployed only when Rancher has accepted exactly the spec in
\* the API server, unless a request that was given up took effect late: an old
\* copy of the Application never makes a new spec look deployed.
DeployedIsEarned ==
    [][ (/\ app # NoApp /\ app.phase # "Deployed"
         /\ app' # NoApp /\ app'.phase = "Deployed")
        => \/ installed = app'.spec
           \/ arrived ]_vars
=============================================================================
