----------------------- MODULE ExtraControllerProofs -----------------------
(***************************************************************************)
(* Theorems about ExtraController and the ApplicationController in it, for *)
(* every value of the constants.                                           *)
(***************************************************************************)
EXTENDS ExtraController, SequenceTheorems, TLAPS

-----------------------------------------------------------------------------
(* The inductive invariant *)

\* The last event to come is the Application in the API server.
EventsInv ==
    IF events = <<>> THEN cache = app ELSE events[Len(events)] = app

\* The copy of a worker that counts as the latest one is.
WorkersInv ==
    /\ w.stage # "idle" /\ w.fresh => app # NoApp /\ app.spec = w.inst.spec
    /\ ew.stage # "idle" /\ ew.fresh => ew.found = app

\* A worker about to publish Deployed is right, unless a late request came.
DeployedInv ==
    w.stage = "deployed" => arrived \/ installed = w.inst.spec

ExtraInv == ExtraTypeOK /\ EventsInv /\ WorkersInv

LEMMA WriteAppType ==
    ASSUME app \in Application \cup {NoApp}, cache \in Application \cup {NoApp},
           events \in Seq(Application \cup {NoApp}), EventsInv,
           NEW a \in Application \cup {NoApp}, WriteApp(a)
    PROVE  /\ app' = a /\ cache' = cache
           /\ events' \in Seq(Application \cup {NoApp})
           /\ EventsInv'
<1>1. CASE a = app
  BY <1>1 DEF WriteApp, EventsInv
<1>2. CASE a # app
  <2>1. events' = Append(events, a)
    BY <1>2 DEF WriteApp
  <2>2. /\ events' \in Seq(Application \cup {NoApp})
        /\ Len(events') = Len(events) + 1
        /\ events'[Len(events')] = a
        /\ events' # <<>>
    BY <2>1, AppendProperties
  <2> QED
    BY <2>2 DEF WriteApp, EventsInv
<1> QED
  BY <1>1, <1>2

LEMMA DeliverType ==
    ASSUME app \in Application \cup {NoApp}, cache \in Application \cup {NoApp},
           events \in Seq(Application \cup {NoApp}), EventsInv, Deliver
    PROVE  /\ cache' \in Application \cup {NoApp}
           /\ events' \in Seq(Application \cup {NoApp})
           /\ EventsInv'
<1>1. /\ events # <<>>
      /\ cache' = Head(events)
      /\ events' = Tail(events)
      /\ app' = app
  BY DEF Deliver
<1>2. events[Len(events)] = app
  BY <1>1 DEF EventsInv
<1>3. /\ Head(events) = events[1] /\ Head(events) \in Application \cup {NoApp}
      /\ events' \in Seq(Application \cup {NoApp})
      /\ Len(events') = Len(events) - 1
      /\ Len(events) \in Nat \ {0}
      /\ \A i \in 1 .. Len(events') : events'[i] = events[i + 1]
  BY <1>1, HeadTailProperties, EmptySeq
<1>4. CASE Len(events) = 1
  BY <1>1, <1>2, <1>3, <1>4, EmptySeq DEF EventsInv
<1>5. CASE Len(events) > 1
  <2>1. events' # <<>>
    BY <1>3, <1>5
  <2>2. events'[Len(events')] = app
    BY <1>2, <1>3, <1>5
  <2> QED
    BY <1>1, <1>3, <2>1, <2>2 DEF EventsInv
<1> QED
  BY <1>3, <1>4, <1>5

-----------------------------------------------------------------------------
(* Types and copies *)

LEMMA WorkerType ==
    ASSUME w \in {Idle} \cup Busy
    PROVE  /\ w = Idle <=> w.stage = "idle"
           /\ w # Idle => w \in Busy /\ w.inst \in Application
BY DEF Busy, Idle, Stages

LEMMA FaultType ==
    ASSUME TypeOK, Fault \/ UNCHANGED counters
    PROVE  edits' \in 0 .. MaxEdits /\ faults' \in 0 .. MaxFaults
BY ApplicationAssumption DEF TypeOK, Fault, counters

LEMMA ExtraInit0 == ExtraInit => ExtraInv
<1> SUFFICES ASSUME ExtraInit PROVE ExtraInv
  OBVIOUS
<1>1. edits \in 0 .. MaxEdits /\ faults \in 0 .. MaxFaults
  <2>1. edits = 0 /\ faults = 0
    BY DEF ExtraInit, InitWith
  <2> QED
    BY <2>1, ApplicationAssumption
<1>2. events \in Seq(Application \cup {NoApp})
  BY EmptySeq DEF ExtraInit, InitWith
<1>3. w.stage = "idle" /\ ew.stage = "idle"
  BY DEF ExtraInit, InitWith, Idle
<1> QED
  BY <1>1, <1>2, <1>3 DEF ExtraInit, InitWith, ExtraInv, ExtraTypeOK, TypeOK,
                          EventsInv, WorkersInv

\* A status write, whatever becomes of it.
LEMMA StatusType ==
    ASSUME TypeOK, EventsInv, WorkersInv, w \in Busy, w.stage # "idle",
           NEW phase \in Phases, updateStatus(phase)
    PROVE  /\ app' \in Application \cup {NoApp}
           /\ cache' \in Application \cup {NoApp}
           /\ events' \in Seq(Application \cup {NoApp})
           /\ EventsInv'
           /\ edits' \in 0 .. MaxEdits /\ faults' \in 0 .. MaxFaults
           /\ \/ app' = app
              \/ /\ app \in Application /\ app.spec = w.inst.spec
                 /\ app' = [app EXCEPT !.phase = phase]
<1>1. CASE StatusSkipped(phase) \/ StatusRefused(phase)
  <2>1. UNCHANGED appVars /\ (Fault \/ UNCHANGED counters)
    BY <1>1 DEF StatusSkipped, StatusRefused
  <2> QED
    BY <2>1, FaultType DEF appVars, TypeOK, EventsInv
<1>2. CASE StatusWritten(phase)
  <2>1. /\ app \in Application /\ app.spec = w.inst.spec
        /\ WriteApp([app EXCEPT !.phase = phase])
        /\ UNCHANGED counters
    BY <1>2 DEF StatusWritten, WorkersInv, TypeOK
  <2>2. [app EXCEPT !.phase = phase] \in Application
    BY <2>1 DEF Application
  <2>3. /\ app' = [app EXCEPT !.phase = phase] /\ cache' = cache
        /\ events' \in Seq(Application \cup {NoApp})
        /\ EventsInv'
    BY <2>1, <2>2, WriteAppType DEF TypeOK
  <2> QED
    BY <2>1, <2>2, <2>3 DEF TypeOK, counters
<1> QED
  BY <1>1, <1>2 DEF updateStatus

\* What a step of the Application controller does to the copies.
AppKept ==
    /\ TypeOK'
    /\ EventsInv'
    /\ w'.stage # "idle" /\ w'.fresh => app' # NoApp /\ app'.spec = w'.inst.spec

LEMMA ReconcileType ==
    ASSUME TypeOK, EventsInv, WorkersInv, Reconcile
    PROVE  AppKept
<1> USE DEF appVars, rancherVars, history, counters
<1>1. Idle.stage = "idle"
  BY DEF Idle
<1>2. CASE FetchNothing
  BY <1>2 DEF FetchNothing, TypeOK, EventsInv, WorkersInv, AppKept
<1>3. CASE Fetch
  <2>1. cache \in Application
    BY <1>3 DEF Fetch, TypeOK
  <2>2. w' \in Busy /\ w'.inst = cache /\ w'.fresh = (events = <<>>)
    BY <1>3, <2>1 DEF Fetch, Busy, Stages
  <2>3. w'.fresh => app # NoApp /\ app.spec = w'.inst.spec
    BY <1>3, <2>1, <2>2 DEF Fetch, EventsInv
  <2> QED
    BY <1>3, <2>2, <2>3 DEF Fetch, TypeOK, EventsInv, AppKept
<1>4. CASE FindCluster \/ FindNothing \/ FindOutdated \/ FindCurrent \/ LookupFails \/ Deploy \/ DeployFails
  <2>1. /\ w.stage # "idle" /\ w \in Busy
        /\ \E stage \in Stages, new \in BOOLEAN :
              w' = [w EXCEPT !.stage = stage, !.new = new]
    <3>1. w.stage # "idle" /\ w \in Busy
      BY <1>4, WorkerType DEF FindCluster, FindNothing, FindOutdated, FindCurrent,
                              LookupFails, Deploy, DeployFails, TypeOK
    <3>2. w = [w EXCEPT !.new = w.new] /\ w.new \in BOOLEAN
      BY <3>1 DEF Busy
    <3>3. \A stage \in Stages :
            [w EXCEPT !.stage = stage] = [w EXCEPT !.stage = stage, !.new = w.new]
      BY <3>1 DEF Busy
    <3> QED
      BY <1>4, <3>1, <3>2, <3>3 DEF FindCluster, FindNothing, FindOutdated,
              FindCurrent, LookupFails, Deploy, DeployFails, Continue, Stages
  <2>2. w' \in Busy /\ w'.inst = w.inst /\ w'.fresh = w.fresh
    BY <2>1 DEF Busy
  <2>3. UNCHANGED <<appVars, reachable, arrived, failed, merged>> /\ queued' = queued
    BY <1>4 DEF FindCluster, FindNothing, FindOutdated, FindCurrent, LookupFails,
                Deploy, DeployFails, Continue
  <2>4. edits' \in 0 .. MaxEdits /\ faults' \in 0 .. MaxFaults
    <3>1. Fault \/ UNCHANGED counters
      BY <1>4 DEF FindCluster, FindNothing, FindOutdated, FindCurrent, LookupFails,
                  Deploy, DeployFails
    <3> QED
      BY <3>1, FaultType
  <2>5. installed' \in Specs \cup {NotInstalled} /\ late' \subseteq Request
    <3>1. w.inst.spec \in Specs /\ w.new \in BOOLEAN
      BY <2>1 DEF Busy, Application
    <3>2. [new |-> w.new, spec |-> w.inst.spec] \in Request
      BY <3>1 DEF Request
    <3> QED
      BY <1>4, <3>1, <3>2 DEF FindCluster, FindNothing, FindOutdated, FindCurrent,
                              LookupFails, Deploy, DeployFails, TypeOK
  <2>6. TypeOK'
    BY <2>2, <2>3, <2>4, <2>5 DEF TypeOK
  <2> QED
    BY <2>1, <2>2, <2>3, <2>6 DEF EventsInv, WorkersInv, AppKept
<1>5. CASE Announce
  <2> DEFINE phase == IF w.new THEN "Deploying" ELSE "Upgrading"
  <2>1. w.stage # "idle" /\ w \in Busy /\ phase \in Phases /\ updateStatus(phase)
    BY <1>5, WorkerType DEF Announce, TypeOK, Phases
  <2>2. /\ app' \in Application \cup {NoApp} /\ cache' \in Application \cup {NoApp}
        /\ events' \in Seq(Application \cup {NoApp})
        /\ EventsInv'
        /\ edits' \in 0 .. MaxEdits /\ faults' \in 0 .. MaxFaults
        /\ \/ app' = app
           \/ /\ app \in Application /\ app.spec = w.inst.spec
              /\ app' = [app EXCEPT !.phase = phase]
    BY <2>1, StatusType
  <2>3. w' \in Busy /\ w'.inst.spec = w.inst.spec /\ w'.fresh = w.fresh
    <3> HIDE DEF phase
    <3>1. w' = [w EXCEPT !.stage = "deploy", !.inst.phase = phase]
      BY <1>5 DEF Announce, phase
    <3> QED
      BY <2>1, <3>1 DEF Busy, Application, Stages
  <2>4. w'.fresh => app' # NoApp /\ app'.spec = w'.inst.spec
    BY <2>1, <2>2, <2>3, ApplicationAssumption DEF WorkersInv, Application
  <2>5. UNCHANGED <<rancherVars, history, queued>>
    BY <1>5 DEF Announce, updateStatus
  <2> HIDE DEF phase
  <2> QED
    BY <2>2, <2>3, <2>4, <2>5 DEF TypeOK, AppKept
<1>6. CASE MarkDeployed \/ MarkFailed
  <2>1. PICK phase \in {"Deployed", "Failed"} : updateStatus(phase)
    BY <1>6 DEF MarkDeployed, MarkFailed
  <2>2. w.stage # "idle" /\ w \in Busy /\ phase \in Phases
    BY <1>6, WorkerType DEF MarkDeployed, MarkFailed, TypeOK, Phases
  <2>3. /\ app' \in Application \cup {NoApp} /\ cache' \in Application \cup {NoApp}
        /\ events' \in Seq(Application \cup {NoApp})
        /\ EventsInv'
        /\ edits' \in 0 .. MaxEdits /\ faults' \in 0 .. MaxFaults
    BY <2>1, <2>2, StatusType
  <2>4. w' = Idle /\ queued' \in BOOLEAN /\ UNCHANGED <<rancherVars, merged>>
    BY <1>6 DEF MarkDeployed, MarkFailed, ReturnRequeue, ReturnDone, updateStatus,
                TypeOK
  <2>5. failed' \in Specs \cup {NoApp}
    BY <1>6, <2>2 DEF MarkDeployed, MarkFailed, TypeOK, Busy, Application
  <2> QED
    BY <1>1, <2>3, <2>4, <2>5 DEF TypeOK, AppKept
<1> QED
  BY <1>2, <1>3, <1>4, <1>5, <1>6 DEF Reconcile

-----------------------------------------------------------------------------
(* Both controllers *)

\* What a step of either controller keeps of the extra's worker.
ExtraType ==
    /\ extra \in ExtraSpecs \cup {NoExtra}
    /\ extraCache \in ExtraSpecs \cup {NoExtra}
    /\ extraQueued \in BOOLEAN
    /\ ew \in {Idle} \cup
              [stage : {"write"}, spec : Specs, found : Application \cup {NoApp},
               fresh : BOOLEAN]

LEMMA ExtraTypeSplit == ExtraTypeOK <=> TypeOK /\ ExtraType
BY DEF ExtraTypeOK, ExtraType

LEMMA ExtraWorkerType ==
    ASSUME ExtraType
    PROVE  /\ ew = Idle <=> ew.stage = "idle"
           /\ ew # Idle => /\ ew \in [stage : {"write"}, spec : Specs,
                                     found : Application \cup {NoApp},
                                     fresh : BOOLEAN]
                           /\ ~[ew EXCEPT !.fresh = FALSE].fresh
                           /\ [ew EXCEPT !.fresh = FALSE] \in
                                 [stage : {"write"}, spec : Specs,
                                  found : Application \cup {NoApp}, fresh : BOOLEAN]
<1>1. ew = Idle \/ ew \in [stage : {"write"}, spec : Specs,
                           found : Application \cup {NoApp}, fresh : BOOLEAN]
  BY DEF ExtraType
<1>2. CASE ew = Idle
  BY <1>2 DEF Idle
<1>3. CASE ew \in [stage : {"write"}, spec : Specs,
                  found : Application \cup {NoApp}, fresh : BOOLEAN]
  <2>1. ew.stage = "write"
    BY <1>3
  <2>2. ew # Idle
    BY <2>1 DEF Idle
  <2> QED
    BY <1>3, <2>1, <2>2
<1> QED
  BY <1>1, <1>2, <1>3

\* Another writer's change of the Application.
LEMMA OthersWriteType ==
    ASSUME TypeOK, EventsInv, WorkersInv, NEW a \in Application \cup {NoApp},
           OthersWriteApp(a), UNCHANGED <<queued, rancherVars, history, counters>>
    PROVE  /\ AppKept
           /\ app' = a
           /\ w'.stage = w.stage
           /\ w.stage # "idle" => w'.inst = w.inst
<1>1. /\ app' = a /\ cache' = cache
      /\ events' \in Seq(Application \cup {NoApp})
      /\ EventsInv'
  BY WriteAppType DEF OthersWriteApp, TypeOK
<1>2. w \in {Idle} \cup Busy
  BY DEF TypeOK
<1>3. CASE w = Idle \/ a = app
  <2>1. w' = w
    BY <1>3 DEF OthersWriteApp
  <2> QED
    BY <1>1, <1>2, <1>3, <2>1, WorkerType
       DEF AppKept, TypeOK, WorkersInv, rancherVars, history, counters
<1>4. CASE w # Idle /\ a # app
  <2>1. w' = [w EXCEPT !.fresh = FALSE] /\ w \in Busy
    BY <1>2, <1>4 DEF OthersWriteApp
  <2>2. w' \in Busy /\ ~w'.fresh /\ w'.stage = w.stage /\ w'.inst = w.inst
    BY <2>1 DEF Busy
  <2> QED
    BY <1>1, <2>2 DEF AppKept, TypeOK, rancherVars, history, counters
<1> QED
  BY <1>3, <1>4

LEMMA ExtraStep == ExtraInv /\ [ExtraNext]_allVars => ExtraInv'
<1> SUFFICES ASSUME ExtraInv, [ExtraNext]_allVars PROVE ExtraInv'
  OBVIOUS
<1>1. TypeOK /\ ExtraType /\ EventsInv /\ WorkersInv
  BY ExtraTypeSplit DEF ExtraInv
<1>2. SUFFICES AppKept /\ ExtraType' /\ (ew'.stage # "idle" /\ ew'.fresh => ew'.found = app')
  BY DEF AppKept, ExtraInv, ExtraTypeOK, ExtraType, WorkersInv
<1>3. Idle.stage = "idle"
  BY DEF Idle
<1>4. UNCHANGED <<appVars, w>> => (EventsInv' /\ (w'.stage # "idle" /\ w'.fresh =>
                                   app' # NoApp /\ app'.spec = w'.inst.spec))
  BY <1>1 DEF EventsInv, WorkersInv, appVars
<1>5. CASE ApplicationStep(Reconcile)
  <2>1. Reconcile /\ UNCHANGED extraVars
        /\ ew' = IF ew = Idle \/ app' = app THEN ew ELSE [ew EXCEPT !.fresh = FALSE]
    BY <1>5 DEF ApplicationStep
  <2>2. AppKept
    BY <1>1, <2>1, ReconcileType
  <2> QED
    BY <1>1, <2>1, <2>2, ExtraWorkerType DEF ExtraType, extraVars, WorkersInv
<1>6. CASE ApplicationStep(Rancher)
  <2>1. UNCHANGED <<appVars, queued, w, history, counters>>
    BY <1>6 DEF ApplicationStep, Rancher, LateArrives, ClusterChanges
  <2>2. UNCHANGED <<extraVars, ew>>
    BY <1>6, <2>1 DEF ApplicationStep, appVars
  <2>3. /\ installed' \in Specs \cup {NotInstalled} /\ late' \subseteq Request
        /\ reachable' \in BOOLEAN /\ arrived' \in BOOLEAN
    BY <1>1, <1>6 DEF ApplicationStep, Rancher, LateArrives, ClusterChanges, TypeOK,
                      Request
  <2> QED
    BY <1>1, <1>4, <2>1, <2>2, <2>3
       DEF AppKept, TypeOK, ExtraType, WorkersInv, appVars, extraVars, history, counters
<1>7. CASE DeliverToBoth
  <2>1. /\ UNCHANGED <<app, w, rancherVars, failed, extra, extraCache, ew>>
        /\ queued' \in BOOLEAN /\ merged' \in BOOLEAN /\ extraQueued' \in BOOLEAN
        /\ Fault \/ UNCHANGED counters
    BY <1>1, <1>7 DEF DeliverToBoth, Deliver, Relist, TypeOK, history
  <2>2. /\ cache' \in Application \cup {NoApp}
        /\ events' \in Seq(Application \cup {NoApp})
        /\ EventsInv'
    <3>1. CASE Deliver
      BY <1>1, <3>1, DeliverType DEF TypeOK
    <3>2. CASE Relist
      BY <1>1, <3>2, EmptySeq DEF Relist, TypeOK, EventsInv
    <3> QED
      BY <1>7, <3>1, <3>2 DEF DeliverToBoth
  <2>3. edits' \in 0 .. MaxEdits /\ faults' \in 0 .. MaxFaults
    BY <1>1, <2>1, FaultType
  <2> QED
    BY <1>1, <2>1, <2>2, <2>3 DEF AppKept, TypeOK, ExtraType, WorkersInv, rancherVars
<1>8. CASE RestartBoth
  <2>1. Restart /\ ew' = Idle /\ extraQueued' = TRUE /\ extraCache' = extra /\ extra' = extra
    BY <1>8 DEF RestartBoth
  <2>2. edits' \in 0 .. MaxEdits /\ faults' \in 0 .. MaxFaults
    BY <1>1, <2>1, FaultType DEF Restart
  <2>3. events' \in Seq(Application \cup {NoApp})
    BY <2>1, EmptySeq DEF Restart
  <2> QED
    BY <1>1, <1>3, <2>1, <2>2, <2>3
       DEF Restart, ReturnRequeue, AppKept, TypeOK, EventsInv, ExtraType, rancherVars,
           history
<1>9. CASE ExtraFetchNothing \/ ApplicationUpToDate \/ SyncExtra
  <2>1. UNCHANGED vars /\ extraQueued' \in BOOLEAN /\ ew' \in {ew, Idle}
        /\ extra' = extra /\ extraCache' \in {extraCache, extra}
    BY <1>1, <1>9 DEF ExtraFetchNothing, ApplicationUpToDate, SyncExtra, ExtraReturn,
                      ExtraType
  <2> QED
    BY <1>1, <1>3, <1>4, <2>1 DEF AppKept, TypeOK, ExtraType, WorkersInv, vars, appVars,
                                  rancherVars, history, counters
<1>10. CASE ExtraFetch
  <2>1. /\ UNCHANGED <<vars, extra, extraCache>> /\ extraQueued' = FALSE
        /\ ew' = [stage |-> "write", spec |-> deploy(extraCache), found |-> cache,
                  fresh |-> events = <<>>]
        /\ extraCache \in ExtraSpecs
    BY <1>1, <1>10 DEF ExtraFetch, ExtraType
  <2>2. deploy(extraCache) \in Specs /\ cache \in Application \cup {NoApp}
    BY <1>1, <2>1, ExtraAssumption DEF TypeOK
  <2>3. ew'.fresh => ew'.found = app'
    BY <1>1, <2>1 DEF EventsInv, vars, appVars
  <2>4. TypeOK'
    BY <1>1, <2>1 DEF TypeOK, vars, appVars, rancherVars, history, counters
  <2>5. AppKept
    BY <1>4, <2>1, <2>4 DEF AppKept, vars
  <2>6. ExtraType'
    BY <1>1, <2>1, <2>2 DEF ExtraType
  <2> QED
    BY <2>3, <2>5, <2>6
<1>11. CASE CreateApplication \/ UpdateApplication
  <2>1. /\ ew' = Idle /\ extraQueued' \in BOOLEAN
        /\ UNCHANGED <<queued, rancherVars, history, counters, extra, extraCache>>
    BY <1>1, <1>11 DEF CreateApplication, UpdateApplication, ExtraReturn, ExtraType
  <2>2. ew \in [stage : {"write"}, spec : Specs, found : Application \cup {NoApp},
                fresh : BOOLEAN]
    BY <1>1, <1>3, <1>11 DEF CreateApplication, UpdateApplication, Writing, ExtraType
  <2>3. \E a \in Application : OthersWriteApp(a)
    <3>1. CASE CreateApplication
      <4>1. [spec |-> ew.spec, phase |-> ""] \in Application
        BY <2>2 DEF Application, Phases
      <4> QED
        BY <3>1, <4>1 DEF CreateApplication
    <3>2. CASE UpdateApplication
      <4>1. app \in Application
        BY <1>1, <1>3, <3>2, <2>2 DEF UpdateApplication, WorkersInv, TypeOK
      <4>2. [app EXCEPT !.spec = ew.spec] \in Application
        BY <2>2, <4>1 DEF Application
      <4> QED
        BY <3>2, <4>2 DEF UpdateApplication
    <3> QED
      BY <1>11, <3>1, <3>2
  <2>4. AppKept
    BY <1>1, <2>1, <2>3, OthersWriteType
  <2> QED
    BY <1>1, <1>3, <2>1, <2>4 DEF ExtraType
<1>12. CASE WriteApplicationFails
  <2>1. /\ UNCHANGED <<appVars, queued, w, rancherVars, history, extra, extraCache>>
        /\ ew' = Idle /\ extraQueued' \in BOOLEAN
        /\ Fault \/ UNCHANGED counters
    BY <1>1, <1>12 DEF WriteApplicationFails, ExtraReturn, ExtraType
  <2>2. edits' \in 0 .. MaxEdits /\ faults' \in 0 .. MaxFaults
    BY <1>1, <2>1, FaultType
  <2> QED
    BY <1>1, <1>3, <1>4, <2>1, <2>2 DEF AppKept, TypeOK, ExtraType, appVars, rancherVars,
                                        history
<1>13. CASE EditExtra \/ DeleteExtra
  <2>1. PICK e \in ExtraSpecs \cup {NoExtra} : ChangeExtra(e)
    BY <1>13 DEF EditExtra, DeleteExtra
  <2>2. edits' \in 0 .. MaxEdits
    BY <1>1, <2>1, ApplicationAssumption DEF ChangeExtra, TypeOK
  <2> QED
    BY <1>1, <1>4, <2>1, <2>2
       DEF ChangeExtra, AppKept, TypeOK, ExtraType, WorkersInv, appVars, rancherVars,
           history
<1>14. CASE GarbageCollect
  <2>1. /\ OthersWriteApp(NoApp) /\ app # NoApp
        /\ ew' = IF ew = Idle THEN ew ELSE [ew EXCEPT !.fresh = FALSE]
        /\ UNCHANGED <<queued, rancherVars, history, counters, extraVars>>
    BY <1>14 DEF GarbageCollect
  <2>2. AppKept
    BY <1>1, <2>1, OthersWriteType
  <2> QED
    BY <1>1, <1>3, <2>1, <2>2, ExtraWorkerType DEF ExtraType, extraVars
<1>15. CASE UNCHANGED allVars
  BY <1>1, <1>4, <1>15 DEF AppKept, TypeOK, ExtraType, WorkersInv, allVars, extraVars, vars,
                     appVars, rancherVars, history, counters
<1> QED
  BY <1>5, <1>6, <1>7, <1>8, <1>9, <1>10, <1>11, <1>12, <1>13, <1>14, <1>15
     DEF ExtraNext, ExtraReconcile

\* The state of both controllers, the informer and Rancher has its type.
THEOREM ExtraTypeCorrect == ExtraSpec => []ExtraTypeOK
<1>1. ExtraInv => ExtraTypeOK
  BY DEF ExtraInv
<1> QED
  BY <1>1, ExtraInit0, ExtraStep, PTL DEF ExtraSpec

-----------------------------------------------------------------------------
(* Deployed is earned *)

LEMMA UpToDateIsSame ==
    ASSUME TypeOK, installed # NotInstalled, NEW spec \in Specs, UpToDate(spec)
    PROVE  installed = spec
BY ApplicationAssumption DEF TypeOK, UpToDate

LEMMA DeployedReconcile ==
    ASSUME TypeOK, EventsInv, WorkersInv, DeployedInv, Reconcile
    PROVE  DeployedInv'
<1> USE DEF rancherVars
<1>1. w \in {Idle} \cup Busy /\ Idle.stage = "idle"
  BY DEF TypeOK, Idle
<1>2. CASE FetchNothing
  BY <1>1, <1>2 DEF FetchNothing, DeployedInv
<1>3. CASE Fetch \/ FindCluster \/ LookupFails \/ FindNothing \/ FindOutdated
           \/ Announce \/ DeployFails \/ MarkDeployed \/ MarkFailed
  <2>1. CASE Fetch \/ MarkDeployed \/ MarkFailed
    BY <1>1, <2>1 DEF Fetch, MarkDeployed, MarkFailed, ReturnRequeue, ReturnDone, DeployedInv
  <2>2. CASE FindCluster \/ LookupFails \/ FindNothing \/ FindOutdated \/ Announce
             \/ DeployFails
    <3>1. w.stage # "idle" /\ w \in Busy
      BY <1>1, <2>2 DEF FindCluster, LookupFails, FindNothing, FindOutdated, Announce,
                        DeployFails
    <3>2. w'.stage \in {"apps", "failed", "announce", "deploy"}
      BY <2>2, <3>1 DEF FindCluster, LookupFails, FindNothing, FindOutdated, Announce,
                        DeployFails, Continue, Busy
    <3> QED
      BY <3>2 DEF DeployedInv
  <2> QED
    BY <1>3, <2>1, <2>2
<1>4. CASE FindCurrent
  <2>1. w \in Busy /\ w.inst.spec \in Specs
    BY <1>1, <1>4 DEF FindCurrent, Busy, Application
  <2>2. installed = w.inst.spec
    BY <1>4, <2>1, UpToDateIsSame DEF FindCurrent
  <2>3. w'.inst = w.inst /\ installed' = installed
    BY <1>4, <2>1 DEF FindCurrent, Continue, Busy
  <2> QED
    BY <2>2, <2>3 DEF DeployedInv
<1>5. CASE Deploy
  <2>1. w \in Busy
    BY <1>1, <1>5 DEF Deploy
  <2>2. w'.inst = w.inst /\ installed' = w.inst.spec
    BY <1>5, <2>1 DEF Deploy, Continue, Busy
  <2> QED
    BY <2>2 DEF DeployedInv
<1> QED
  BY <1>2, <1>3, <1>4, <1>5 DEF Reconcile

LEMMA DeployedOthers ==
    ASSUME TypeOK, EventsInv, WorkersInv, DeployedInv, NEW a \in Application \cup {NoApp},
           OthersWriteApp(a), UNCHANGED <<queued, rancherVars, history, counters>>
    PROVE  DeployedInv' /\ app' = a
<1>1. app' = a /\ w'.stage = w.stage /\ (w.stage # "idle" => w'.inst = w.inst)
  BY OthersWriteType
<1> QED
  BY <1>1 DEF DeployedInv, rancherVars

Earned ==
    (/\ app # NoApp /\ app.phase # "Deployed"
     /\ app' # NoApp /\ app'.phase = "Deployed")
    => installed = app'.spec \/ arrived

LEMMA EarnedReconcile ==
    ASSUME TypeOK, EventsInv, WorkersInv, DeployedInv, Reconcile
    PROVE  Earned
<1> USE DEF appVars
<1>1. CASE app' = app
  BY <1>1 DEF Earned
<1>2. CASE app' # app
  <2>1. Announce \/ MarkDeployed \/ MarkFailed
    BY <1>2 DEF Reconcile, FetchNothing, Fetch, FindCluster, LookupFails, FindNothing,
                FindOutdated, FindCurrent, Deploy, DeployFails
  <2>2. w.stage # "idle" /\ w \in Busy
    BY <2>1, WorkerType DEF Announce, MarkDeployed, MarkFailed, TypeOK
  <2>3. PICK phase \in {"Deploying", "Upgrading", "Deployed", "Failed"} :
          /\ updateStatus(phase)
          /\ phase = "Deployed" => w.stage = "deployed"
    BY <2>1 DEF Announce, MarkDeployed, MarkFailed
  <2>4. /\ app \in Application /\ app.spec = w.inst.spec
        /\ app' = [app EXCEPT !.phase = phase]
    BY <1>2, <2>2, <2>3, StatusType DEF Phases
  <2>5. app'.phase = phase /\ app'.spec = app.spec
    BY <2>4 DEF Application
  <2> QED
    BY <2>3, <2>4, <2>5 DEF Earned, DeployedInv
<1> QED
  BY <1>1, <1>2

LEMMA DeployedStep ==
    ExtraInv /\ DeployedInv /\ [ExtraNext]_allVars => DeployedInv' /\ Earned
<1> SUFFICES ASSUME ExtraInv, DeployedInv, [ExtraNext]_allVars
             PROVE  DeployedInv' /\ Earned
  OBVIOUS
<1>1. TypeOK /\ ExtraType /\ EventsInv /\ WorkersInv
  BY ExtraTypeSplit DEF ExtraInv
<1>2. CASE UNCHANGED <<app, w, rancherVars>>
  BY <1>2 DEF DeployedInv, Earned, rancherVars
<1>3. CASE ApplicationStep(Reconcile)
  BY <1>1, <1>3, DeployedReconcile, EarnedReconcile DEF ApplicationStep
<1>4. CASE ApplicationStep(Rancher)
  BY <1>4 DEF ApplicationStep, Rancher, LateArrives, ClusterChanges, appVars, DeployedInv,
              Earned
<1>5. CASE RestartBoth
  <2>1. w' = Idle /\ app' = app
    BY <1>5 DEF RestartBoth, Restart, ReturnRequeue
  <2> QED
    BY <2>1 DEF DeployedInv, Earned, Idle
<1>6. CASE CreateApplication \/ UpdateApplication \/ GarbageCollect
  <2>1. UNCHANGED <<queued, rancherVars, history, counters>>
    BY <1>6 DEF CreateApplication, UpdateApplication, GarbageCollect, extraVars
  <2>2. PICK a \in Application \cup {NoApp} :
          /\ OthersWriteApp(a)
          /\ app = NoApp \/ a = NoApp \/ (app \in Application /\ a.phase = app.phase)
    <3>1. CASE GarbageCollect
      BY <3>1 DEF GarbageCollect
    <3>2. CASE CreateApplication \/ UpdateApplication
      <4>1. ew \in [stage : {"write"}, spec : Specs,
                    found : Application \cup {NoApp}, fresh : BOOLEAN]
        BY <1>1, <3>2, ExtraWorkerType DEF CreateApplication, UpdateApplication, Writing,
                                           Idle
      <4>2. CASE CreateApplication
        <5>1. [spec |-> ew.spec, phase |-> ""] \in Application
          BY <4>1 DEF Application, Phases
        <5> QED
          BY <4>2, <5>1 DEF CreateApplication
      <4>3. CASE UpdateApplication
        <5>1. ew.stage # "idle" /\ app \in Application
          BY <1>1, <4>1, <4>3 DEF UpdateApplication, WorkersInv, TypeOK
        <5>2. /\ [app EXCEPT !.spec = ew.spec] \in Application
              /\ [app EXCEPT !.spec = ew.spec].phase = app.phase
          BY <4>1, <5>1 DEF Application
        <5> QED
          BY <4>3, <5>1, <5>2 DEF UpdateApplication
      <4> QED
        BY <3>2, <4>2, <4>3
    <3> QED
      BY <1>6, <3>1, <3>2
  <2>3. DeployedInv' /\ app' = a
    BY <1>1, <2>1, <2>2, DeployedOthers
  <2> QED
    BY <2>2, <2>3 DEF Earned
<1>7. CASE ExtraFetchNothing \/ ExtraFetch \/ WriteApplicationFails \/ ApplicationUpToDate
           \/ DeliverToBoth \/ EditExtra \/ DeleteExtra \/ SyncExtra \/ UNCHANGED allVars
  <2>1. UNCHANGED <<app, w, rancherVars>>
    BY <1>7 DEF ExtraFetchNothing, ExtraFetch, WriteApplicationFails, ApplicationUpToDate,
                DeliverToBoth, Deliver, Relist, EditExtra, DeleteExtra, ChangeExtra,
                SyncExtra, allVars, vars, appVars
  <2> QED
    BY <1>2, <2>1
<1> QED
  BY <1>3, <1>4, <1>5, <1>6, <1>7 DEF ExtraNext, ExtraReconcile

\* A phase turns Deployed only when Rancher has exactly the spec of the
\* Application, whatever copies the workers read, unless a request that was
\* given up took effect late.
THEOREM DeployedEarned == ExtraSpec => DeployedIsEarned
<1>1. ExtraInit => DeployedInv
  BY DEF ExtraInit, InitWith, Idle, DeployedInv
<1>2. Earned => [ (/\ app # NoApp /\ app.phase # "Deployed"
                   /\ app' # NoApp /\ app'.phase = "Deployed")
                  => \/ installed = app'.spec
                     \/ arrived ]_vars
  BY DEF Earned
<1> QED
  BY <1>1, <1>2, ExtraInit0, ExtraStep, DeployedStep, PTL DEF ExtraSpec, DeployedIsEarned

-----------------------------------------------------------------------------
(* The controller sleeps only on a failure *)

\* The versions of the Application from the cached one to the latest.
Version(i) == IF i = 0 THEN cache ELSE events[i]
Wakes(i) == Passes(Version(i - 1), Version(i))

SameSpec(a, b) == a = b \/ (a # NoApp /\ b # NoApp /\ a.spec = b.spec)

\* A version that no event to come improves on has the spec of the latest.
DroppedInv ==
    \A i \in 0 .. Len(events) :
      (\A j \in (i + 1) .. Len(events) : ~Wakes(j)) => SameSpec(Version(i), app)

\* If nothing wakes the controller any more, its call works on the spec in the
\* API server, or the last call worked on it and failed.
SleepInv ==
    (~queued /\ ~WouldWake /\ app # NoApp /\ ~merged)
      => IF w = Idle THEN failed = app.spec ELSE w.inst.spec = app.spec

LEMMA WouldWakeAt ==
    /\ WouldWake <=> \E i \in 1 .. Len(events) : Wakes(i)
    /\ WouldWake' <=> \E i \in 1 .. Len(events') : Wakes(i)'
<1>1. ASSUME NEW c, NEW e, NEW i \in 1 .. Len(e)
      PROVE  Passes(IF i = 1 THEN c ELSE e[i - 1], e[i]) <=>
             Passes(IF i - 1 = 0 THEN c ELSE e[i - 1], IF i = 0 THEN c ELSE e[i])
  <2>1. i # 0 /\ (i - 1 = 0 <=> i = 1)
    OBVIOUS
  <2> QED
    BY <2>1
<1> QED
  BY <1>1 DEF WouldWake, Wakes, Version

\* A write of the Application: a status write keeps the spec, any other write
\* makes an event that passes the predicate.
LEMMA WriteWakes ==
    ASSUME app \in Application \cup {NoApp}, cache \in Application \cup {NoApp},
           events \in Seq(Application \cup {NoApp}), EventsInv, DroppedInv,
           NEW a \in Application \cup {NoApp}, WriteApp(a),
           SameSpec(app, a) \/ Passes(app, a)
    PROVE  /\ DroppedInv'
           /\ WouldWake => WouldWake'
           /\ a # app /\ Passes(app, a) => WouldWake'
<1>1. CASE a = app
  BY <1>1 DEF WriteApp, DroppedInv, WouldWake, Version, Wakes
<1>2. CASE a # app
  <2> PICK n \in Nat : n = Len(events)
    OBVIOUS
  <2>1. app' = a /\ cache' = cache /\ events' = Append(events, a)
    BY <1>2 DEF WriteApp
  <2>2. Len(events') = n + 1 /\ events'[n + 1] = a
        /\ \A i \in 1 .. n : events'[i] = events[i]
    BY <2>1, AppendProperties
  <2>3. Version(n) = app
    BY <2>1, EmptySeq DEF EventsInv, Version
  <2>4. /\ \A i \in 0 .. n : Version(i)' = Version(i)
        /\ Version(n + 1)' = a
    BY <2>1, <2>2 DEF Version
  <2>5. \A i \in 1 .. n : Wakes(i)' <=> Wakes(i)
    <3>1. ASSUME NEW i \in 1 .. n PROVE i \in 0 .. n /\ i - 1 \in 0 .. n
      BY <2>1
    <3> QED
      BY <2>4, <3>1 DEF Wakes
  <2>6. Wakes(n + 1)' <=> Passes(app, a)
    <3>1. n + 1 - 1 = n /\ n \in 0 .. n
      BY <2>1
    <3> QED
      BY <2>3, <2>4, <3>1 DEF Wakes
  <2>7. WouldWake => WouldWake'
    BY <2>1, <2>2, <2>5, WouldWakeAt
  <2>8. Passes(app, a) => WouldWake'
    BY <2>1, <2>2, <2>6, WouldWakeAt
  <2>9. ASSUME NEW i \in 0 .. Len(events'),
               \A j \in (i + 1) .. Len(events') : ~Wakes(j)'
        PROVE  SameSpec(Version(i)', app')
    <3>1. CASE i = n + 1
      BY <2>1, <2>4, <3>1 DEF SameSpec
    <3>2. CASE i \in 0 .. n
      <4>1. ~Wakes(n + 1)' /\ \A j \in (i + 1) .. n : ~Wakes(j)
        BY <2>1, <2>2, <2>5, <2>9, <3>2
      <4>2. SameSpec(app, a) /\ SameSpec(Version(i), app)
        BY <2>6, <3>2, <4>1 DEF DroppedInv
      <4>3. Version(i)' = Version(i)
        BY <2>4, <3>2
      <4> QED
        BY <2>1, <4>2, <4>3 DEF SameSpec
    <3> QED
      BY <2>1, <2>2, <3>1, <3>2
  <2>10. DroppedInv'
    BY <2>9 DEF DroppedInv, SameSpec
  <2> QED
    BY <2>7, <2>8, <2>10
<1> QED
  BY <1>1, <1>2

\* An event less to come.
LEMMA DeliverWakes ==
    ASSUME app \in Application \cup {NoApp}, cache \in Application \cup {NoApp},
           events \in Seq(Application \cup {NoApp}), EventsInv, DroppedInv, Deliver
    PROVE  /\ DroppedInv'
           /\ WouldWake => WouldWake' \/ Passes(cache, Head(events))
<1> PICK n \in Nat : n = Len(events)
  OBVIOUS
<1>1. events # <<>> /\ cache' = Head(events) /\ events' = Tail(events) /\ app' = app
  BY DEF Deliver
<1>2. /\ n > 0 /\ Head(events) = events[1] /\ Len(events') = n - 1
      /\ \A i \in 1 .. (n - 1) : events'[i] = events[i + 1]
  BY <1>1, HeadTailProperties, EmptySeq
<1>3. \A i \in 0 .. (n - 1) : Version(i)' = Version(i + 1)
  BY <1>1, <1>2 DEF Version
<1>4. \A i \in 1 .. (n - 1) : Wakes(i)' <=> Wakes(i + 1)
  <2>1. ASSUME NEW i \in 1 .. (n - 1)
        PROVE  i \in 0 .. (n - 1) /\ i - 1 \in 0 .. (n - 1) /\ i - 1 + 1 = i /\ i + 1 - 1 = i
    OBVIOUS
  <2> QED
    BY <1>3, <2>1 DEF Wakes
<1>5. ASSUME NEW i \in 0 .. (n - 1), \A j \in (i + 1) .. (n - 1) : ~Wakes(j)'
      PROVE  SameSpec(Version(i)', app')
  <2>1. ASSUME NEW j \in (i + 2) .. n PROVE ~Wakes(j)
    <3>1. j - 1 \in (i + 1) .. (n - 1) /\ j - 1 \in 1 .. (n - 1) /\ j - 1 + 1 = j
      OBVIOUS
    <3>2. ~Wakes(j - 1)' /\ (Wakes(j - 1)' <=> Wakes(j))
      BY <1>4, <1>5, <3>1
    <3> QED
      BY <3>2
  <2>2. i + 1 \in 0 .. n /\ i + 1 + 1 = i + 2
    OBVIOUS
  <2>3. SameSpec(Version(i + 1), app)
    BY <2>1, <2>2 DEF DroppedInv
  <2> QED
    BY <1>1, <1>3, <2>3 DEF SameSpec
<1>6. DroppedInv'
  BY <1>2, <1>5 DEF DroppedInv, SameSpec
<1>7. ASSUME WouldWake PROVE WouldWake' \/ Passes(cache, Head(events))
  <2>1. PICK j \in 1 .. n : Wakes(j)
    BY <1>7, WouldWakeAt
  <2>2. CASE j = 1
    BY <1>2, <2>1, <2>2 DEF Wakes, Version
  <2>3. CASE j # 1
    <3>1. PICK i \in 1 .. (n - 1) : i + 1 = j
      <4>1. j - 1 \in 1 .. (n - 1) /\ j - 1 + 1 = j
        BY <2>3
      <4> QED
        BY <4>1
    <3> QED
      BY <1>2, <1>4, <2>1, <3>1, WouldWakeAt
  <2> QED
    BY <2>2, <2>3
<1> QED
  BY <1>6, <1>7

\* Nothing to come: the cached version is the latest.
LEMMA NothingWakes ==
    ASSUME DroppedInv, events \in Seq(Application \cup {NoApp}), ~WouldWake
    PROVE  SameSpec(cache, app)
<1>1. 0 \in 0 .. Len(events) /\ 0 + 1 = 1
  OBVIOUS
<1>2. \A j \in (0 + 1) .. Len(events) : ~Wakes(j)
  BY <1>1, WouldWakeAt
<1>3. SameSpec(Version(0), app)
  BY <1>1, <1>2 DEF DroppedInv
<1> QED
  BY <1>3 DEF Version

LEMMA EmptyDropped == events' = <<>> /\ cache' = app' => DroppedInv' /\ ~WouldWake'
<1> SUFFICES ASSUME events' = <<>>, cache' = app' PROVE DroppedInv' /\ ~WouldWake'
  OBVIOUS
<1>1. Len(events') = 0
  OBVIOUS
<1>2. \A i \in 0 .. Len(events') : i = 0
  BY <1>1
<1> QED
  BY <1>1, <1>2 DEF DroppedInv, WouldWake, Version, SameSpec

\* The status writes of Reconcile.
LEMMA StatusWakes ==
    ASSUME TypeOK, EventsInv, WorkersInv, DroppedInv, w \in Busy, w.stage # "idle",
           NEW phase \in Phases, updateStatus(phase)
    PROVE  /\ DroppedInv'
           /\ WouldWake => WouldWake'
           /\ app' = NoApp <=> app = NoApp
           /\ app # NoApp => app'.spec = app.spec
           /\ merged' = merged
<1>1. CASE StatusSkipped(phase) \/ StatusRefused(phase)
  <2>1. UNCHANGED appVars
    BY <1>1 DEF StatusSkipped, StatusRefused
  <2> QED
    BY <2>1 DEF updateStatus, appVars, DroppedInv, WouldWake, Wakes, Version
<1>2. CASE StatusWritten(phase)
  <2>1. app \in Application /\ WriteApp([app EXCEPT !.phase = phase])
    BY <1>2 DEF StatusWritten, WorkersInv, TypeOK
  <2>2. /\ [app EXCEPT !.phase = phase] \in Application
        /\ [app EXCEPT !.phase = phase].spec = app.spec
    BY <2>1 DEF Application
  <2>3. SameSpec(app, [app EXCEPT !.phase = phase])
    BY <2>1, <2>2, ApplicationAssumption DEF SameSpec
  <2>4. DroppedInv' /\ (WouldWake => WouldWake')
    BY <2>1, <2>2, <2>3, WriteWakes DEF TypeOK
  <2>5. app' = [app EXCEPT !.phase = phase]
    BY <2>1 DEF WriteApp
  <2> QED
    BY <2>1, <2>2, <2>4, <2>5, ApplicationAssumption DEF updateStatus
<1> QED
  BY <1>1, <1>2 DEF updateStatus

LEMMA SleepReconcile ==
    ASSUME TypeOK, EventsInv, WorkersInv, DroppedInv, SleepInv, Reconcile
    PROVE  DroppedInv' /\ SleepInv'
<1>1. w \in {Idle} \cup Busy /\ Idle.stage = "idle"
  BY DEF TypeOK, Idle
<1>2. UNCHANGED appVars => DroppedInv' /\ (WouldWake' <=> WouldWake)
  BY DEF appVars, DroppedInv, WouldWake, Wakes, Version
<1>3. CASE FetchNothing
  <2>1. UNCHANGED appVars /\ cache = NoApp
    BY <1>3 DEF FetchNothing
  <2>2. ~WouldWake => app = NoApp
    BY <2>1, NothingWakes DEF SameSpec, TypeOK
  <2> QED
    BY <1>2, <2>1, <2>2 DEF SleepInv, appVars
<1>4. CASE Fetch
  <2>1. UNCHANGED appVars /\ w'.inst = cache /\ w' # Idle /\ cache # NoApp
    <3>1. UNCHANGED appVars /\ w'.inst = cache /\ w'.stage = "cluster" /\ cache # NoApp
      BY <1>4 DEF Fetch
    <3> QED
      BY <1>1, <3>1
  <2>2. ~WouldWake /\ app # NoApp => cache.spec = app.spec
    BY NothingWakes DEF SameSpec, TypeOK
  <2> QED
    BY <1>2, <2>1, <2>2 DEF SleepInv, appVars
<1>5. CASE FindCluster \/ LookupFails \/ FindNothing \/ FindOutdated \/ FindCurrent
           \/ Deploy \/ DeployFails
  <2>1. w.stage # "idle" /\ w \in Busy
    BY <1>1, <1>5 DEF FindCluster, LookupFails, FindNothing, FindOutdated, FindCurrent,
                      Deploy, DeployFails
  <2>2. w'.inst = w.inst /\ w'.stage # "idle"
    BY <1>5, <2>1 DEF FindCluster, LookupFails, FindNothing, FindOutdated, FindCurrent,
                      Deploy, DeployFails, Continue, Busy
  <2>3. UNCHANGED <<appVars, queued, merged>>
    BY <1>5 DEF FindCluster, LookupFails, FindNothing, FindOutdated, FindCurrent, Deploy,
                DeployFails, Continue, history
  <2> QED
    BY <1>1, <1>2, <2>1, <2>2, <2>3 DEF SleepInv, appVars
<1>6. CASE Announce \/ MarkDeployed \/ MarkFailed
  <2>1. PICK phase \in Phases : updateStatus(phase)
    BY <1>6 DEF Announce, MarkDeployed, MarkFailed, Phases
  <2>2. w.stage # "idle" /\ w # Idle /\ w \in Busy
    BY <1>1, <1>6 DEF Announce, MarkDeployed, MarkFailed
  <2>3. /\ DroppedInv'
        /\ WouldWake => WouldWake'
        /\ app' = NoApp <=> app = NoApp
        /\ app # NoApp => app'.spec = app.spec
        /\ merged' = merged
    BY <2>1, <2>2, StatusWakes
  <2>4. CASE Announce
    <3> DEFINE announced == IF w.new THEN "Deploying" ELSE "Upgrading"
    <3>1. w' = [w EXCEPT !.stage = "deploy", !.inst.phase = announced] /\ queued' = queued
      BY <2>4 DEF Announce
    <3> HIDE DEF announced
    <3>2. w'.stage # "idle" /\ w'.inst.spec = w.inst.spec
      BY <2>2, <3>1 DEF Busy, Application
    <3> QED
      BY <1>1, <2>2, <2>3, <3>1, <3>2 DEF SleepInv
  <2>5. CASE MarkDeployed
    BY <2>3, <2>5 DEF MarkDeployed, ReturnRequeue, SleepInv
  <2>6. CASE MarkFailed
    BY <2>2, <2>3, <2>6 DEF MarkFailed, ReturnDone, SleepInv
  <2> QED
    BY <1>6, <2>3, <2>4, <2>5, <2>6
<1> QED
  BY <1>3, <1>4, <1>5, <1>6 DEF Reconcile

LEMMA SleepOthers ==
    ASSUME TypeOK, EventsInv, WorkersInv, DroppedInv, SleepInv,
           NEW a \in Application \cup {NoApp}, Passes(app, a),
           OthersWriteApp(a), UNCHANGED <<queued, rancherVars, history, counters>>
    PROVE  DroppedInv' /\ SleepInv'
<1>1. /\ DroppedInv'
      /\ a # app => WouldWake'
  BY WriteWakes DEF OthersWriteApp, TypeOK
<1>2. CASE a # app
  BY <1>1, <1>2 DEF SleepInv
<1>3. CASE a = app
  <2>1. UNCHANGED <<appVars, queued, w, history>>
    BY <1>3 DEF OthersWriteApp, WriteApp, appVars
  <2> QED
    BY <1>1, <2>1 DEF SleepInv, WouldWake, appVars, history
<1> QED
  BY <1>2, <1>3

LEMMA SleepStep ==
    ExtraInv /\ DroppedInv /\ SleepInv /\ [ExtraNext]_allVars => DroppedInv' /\ SleepInv'
<1> SUFFICES ASSUME ExtraInv, DroppedInv, SleepInv, [ExtraNext]_allVars
             PROVE  DroppedInv' /\ SleepInv'
  OBVIOUS
<1>1. TypeOK /\ ExtraType /\ EventsInv /\ WorkersInv
  BY ExtraTypeSplit DEF ExtraInv
<1>2. CASE UNCHANGED <<appVars, queued, w, history>>
  BY <1>2 DEF DroppedInv, SleepInv, WouldWake, Wakes, Version, appVars, history
<1>3. CASE ApplicationStep(Reconcile)
  BY <1>1, <1>3, SleepReconcile DEF ApplicationStep
<1>4. CASE Deliver /\ DeliverToBoth
  <2>1. DroppedInv' /\ (WouldWake => WouldWake' \/ Passes(cache, Head(events)))
    BY <1>1, <1>4, DeliverWakes DEF TypeOK
  <2>2. /\ queued' = (queued \/ Passes(cache, Head(events)))
        /\ UNCHANGED <<app, w, history>>
    BY <1>4 DEF Deliver
  <2> QED
    BY <2>1, <2>2 DEF SleepInv, history
<1>5. CASE Relist /\ DeliverToBoth
  <2>1. PICK seen \in BOOLEAN :
          /\ queued' = (queued \/ seen)
          /\ merged' = (merged \/ (WouldWake /\ ~seen))
    BY <1>5 DEF Relist, Passes
  <2>2. events' = <<>> /\ cache' = app /\ UNCHANGED <<app, w, failed>>
    BY <1>5 DEF Relist
  <2>3. DroppedInv'
    BY <2>2, EmptyDropped
  <2> QED
    BY <2>1, <2>2, <2>3 DEF SleepInv
<1>6. CASE RestartBoth
  <2>1. events' = <<>> /\ cache' = app' /\ queued' = TRUE
    BY <1>6 DEF RestartBoth, Restart, ReturnRequeue
  <2> QED
    BY <2>1, EmptyDropped DEF SleepInv
<1>7. CASE CreateApplication \/ UpdateApplication \/ GarbageCollect
  <2>1. UNCHANGED <<queued, rancherVars, history, counters>>
    BY <1>7 DEF CreateApplication, UpdateApplication, GarbageCollect, extraVars
  <2>2. \E a \in Application \cup {NoApp} : OthersWriteApp(a) /\ Passes(app, a)
    <3>1. CASE GarbageCollect
      BY <3>1 DEF GarbageCollect, Passes
    <3>2. CASE CreateApplication \/ UpdateApplication
      <4>1. ew \in [stage : {"write"}, spec : Specs,
                    found : Application \cup {NoApp}, fresh : BOOLEAN]
        BY <1>1, <3>2, ExtraWorkerType DEF CreateApplication, UpdateApplication, Writing,
                                           Idle
      <4>2. CASE CreateApplication
        <5>1. [spec |-> ew.spec, phase |-> ""] \in Application
          BY <4>1 DEF Application, Phases
        <5> QED
          BY <4>2, <5>1 DEF CreateApplication, Passes
      <4>3. CASE UpdateApplication
        <5>1. ew.stage # "idle" /\ app \in Application
          BY <1>1, <4>1, <4>3 DEF UpdateApplication, WorkersInv, TypeOK
        <5>2. /\ [app EXCEPT !.spec = ew.spec] \in Application
              /\ [app EXCEPT !.spec = ew.spec].phase = app.phase
          BY <4>1, <5>1 DEF Application
        <5> QED
          BY <4>3, <5>2 DEF UpdateApplication, Passes
      <4> QED
        BY <3>2, <4>2, <4>3
    <3> QED
      BY <1>7, <3>1, <3>2
  <2> QED
    BY <1>1, <2>1, <2>2, SleepOthers
<1>8. CASE ApplicationStep(Rancher)
  BY <1>2, <1>8 DEF ApplicationStep, Rancher, LateArrives, ClusterChanges
<1>9. CASE ExtraFetchNothing \/ ExtraFetch \/ WriteApplicationFails \/ ApplicationUpToDate
           \/ EditExtra \/ DeleteExtra \/ SyncExtra \/ UNCHANGED allVars
  <2>1. UNCHANGED <<appVars, queued, w, history>>
    BY <1>9 DEF ExtraFetchNothing, ExtraFetch, WriteApplicationFails, ApplicationUpToDate,
                EditExtra, DeleteExtra, ChangeExtra, SyncExtra, allVars, vars
  <2> QED
    BY <1>2, <2>1
<1> QED
  BY <1>3, <1>4, <1>5, <1>6, <1>7, <1>8, <1>9 DEF ExtraNext, ExtraReconcile, DeliverToBoth

\* The predicate that drops status updates never leaves the Application
\* controller asleep on an outdated or unfinished installation: it sleeps only
\* after a call for the spec in the API server failed, unless a relist merged
\* events.
THEOREM SleepsOnlyOnFailureAlways == ExtraSpec => []SleepsOnlyOnFailure
<1>1. ExtraInit => DroppedInv /\ SleepInv
  <2> SUFFICES ASSUME ExtraInit PROVE DroppedInv /\ SleepInv
    OBVIOUS
  <2>1. app = NoApp /\ cache = NoApp /\ events = <<>>
    BY DEF ExtraInit, InitWith
  <2>2. \A i \in 0 .. Len(events) : i = 0
    BY <2>1
  <2> QED
    BY <2>1, <2>2 DEF DroppedInv, SleepInv, SameSpec, Version
<1>2. ExtraInv /\ SleepInv => SleepsOnlyOnFailure
  <2> SUFFICES ASSUME SleepInv, Asleep, app # NoApp, ~merged PROVE failed = app.spec
    BY DEF SleepsOnlyOnFailure
  <2>1. w = Idle /\ ~queued /\ Len(events) = 0
    BY DEF Asleep
  <2>2. ~WouldWake
    BY <2>1 DEF WouldWake
  <2> QED
    BY <2>1, <2>2 DEF SleepInv
<1> QED
  BY <1>1, <1>2, ExtraInit0, ExtraStep, SleepStep, PTL DEF ExtraSpec

-----------------------------------------------------------------------------
(* The extra's controller never rests on a wrong Application *)

\* Nothing will call the extra's controller again, or is about to.
Rest == ~extraQueued /\ events = <<>>

SettledInv ==
    /\ Writing /\ Rest => ew.found = app
    /\ Writing /\ ~extraQueued => extraCache # NoExtra /\ ew.spec = deploy(extraCache)
    /\ ew = Idle /\ Rest /\ extraCache # NoExtra
         => app # NoApp /\ app.spec = deploy(extraCache)

\* Every change of the Application is an event to come.
LEMMA WriteIsEvent ==
    ASSUME TypeOK, NEW a \in Application \cup {NoApp}, WriteApp(a)
    PROVE  UNCHANGED <<app, events>> \/ events' # <<>>
<1>1. CASE a = app
  BY <1>1 DEF WriteApp
<1>2. CASE a # app
  <2>1. events' = Append(events, a)
    BY <1>2 DEF WriteApp
  <2> QED
    BY <2>1, AppendProperties DEF TypeOK
<1> QED
  BY <1>1, <1>2

LEMMA ReconcileIsEvent ==
    ASSUME TypeOK, WorkersInv, Reconcile
    PROVE  UNCHANGED <<app, events>> \/ events' # <<>>
<1>1. CASE UNCHANGED appVars
  BY <1>1 DEF appVars
<1>2. ASSUME NEW phase \in Phases, updateStatus(phase), w.stage # "idle"
      PROVE  UNCHANGED <<app, events>> \/ events' # <<>>
  <2>1. CASE StatusSkipped(phase) \/ StatusRefused(phase)
    BY <2>1 DEF StatusSkipped, StatusRefused, appVars
  <2>2. CASE StatusWritten(phase)
    <3>1. app \in Application /\ WriteApp([app EXCEPT !.phase = phase])
      BY <1>2, <2>2 DEF StatusWritten, WorkersInv, TypeOK
    <3>2. [app EXCEPT !.phase = phase] \in Application
      BY <1>2, <3>1 DEF Application
    <3> QED
      BY <3>1, <3>2, WriteIsEvent
  <2> QED
    BY <1>2, <2>1, <2>2 DEF updateStatus
<1>3. CASE Announce \/ MarkDeployed \/ MarkFailed
  <2>1. (\E phase \in Phases : updateStatus(phase)) /\ w.stage # "idle"
    BY <1>3 DEF Announce, MarkDeployed, MarkFailed, Phases
  <2> QED
    BY <1>2, <2>1
<1>4. CASE FetchNothing \/ Fetch \/ FindCluster \/ LookupFails \/ FindNothing
           \/ FindOutdated \/ FindCurrent \/ Deploy \/ DeployFails
  BY <1>1, <1>4 DEF FetchNothing, Fetch, FindCluster, LookupFails, FindNothing,
                    FindOutdated, FindCurrent, Deploy, DeployFails
<1> QED
  BY <1>3, <1>4 DEF Reconcile

LEMMA SettledStep == ExtraInv /\ SettledInv /\ [ExtraNext]_allVars => SettledInv'
<1> SUFFICES ASSUME ExtraInv, SettledInv, [ExtraNext]_allVars
             PROVE  SettledInv'
  OBVIOUS
<1>1. TypeOK /\ ExtraType /\ EventsInv /\ WorkersInv
  BY ExtraTypeSplit DEF ExtraInv
<1>2. ~Writing <=> ew = Idle
  BY <1>1, ExtraWorkerType DEF Writing, ExtraType, Idle
<1>3. ew' = Idle => ~Writing'
  BY DEF Writing, Idle
<1>4. CASE /\ UNCHANGED <<app, events>> \/ events' # <<>>
           /\ ew' = ew \/ (ew # Idle /\ ew' = [ew EXCEPT !.fresh = FALSE])
           /\ UNCHANGED <<extraCache, extraQueued>>
  <2>1. CASE ew' = ew
    BY <1>4, <2>1 DEF SettledInv, Rest, Writing
  <2>2. CASE ew # Idle /\ ew' = [ew EXCEPT !.fresh = FALSE]
    <3>1. ew'.stage = ew.stage /\ ew'.found = ew.found /\ ew'.spec = ew.spec /\ ew' # Idle
      BY <1>1, <2>2, ExtraWorkerType DEF Idle
    <3> QED
      BY <1>4, <3>1 DEF SettledInv, Rest, Writing
  <2> QED
    BY <1>4, <2>1, <2>2
<1>5. CASE ApplicationStep(Reconcile)
  BY <1>1, <1>4, <1>5, ReconcileIsEvent DEF ApplicationStep, extraVars
<1>6. CASE ApplicationStep(Rancher) \/ EditExtra \/ DeleteExtra \/ UNCHANGED allVars
  <2>1. UNCHANGED <<app, events, extraCache, extraQueued, ew>>
    BY <1>6 DEF ApplicationStep, Rancher, LateArrives, ClusterChanges, EditExtra,
                DeleteExtra, ChangeExtra, appVars, extraVars, allVars, vars
  <2> QED
    BY <1>4, <2>1
<1>7. CASE GarbageCollect
  <2>1. WriteApp(NoApp) /\ UNCHANGED extraVars
        /\ ew' = IF ew = Idle THEN ew ELSE [ew EXCEPT !.fresh = FALSE]
    BY <1>7 DEF GarbageCollect, OthersWriteApp
  <2> QED
    BY <1>1, <1>4, <2>1, WriteIsEvent DEF extraVars
<1>8. CASE DeliverToBoth \/ RestartBoth \/ SyncExtra \/ WriteApplicationFails
  <2>1. extraQueued' = TRUE
    BY <1>8 DEF DeliverToBoth, RestartBoth, SyncExtra, WriteApplicationFails, ExtraReturn
  <2>2. CASE SyncExtra
    BY <2>1, <2>2 DEF SettledInv, Rest
  <2> QED
    BY <2>1 DEF SettledInv, Rest
<1>9. CASE ExtraFetchNothing
  BY <1>2, <1>3, <1>9 DEF ExtraFetchNothing, SettledInv
<1>10. CASE ExtraFetch
  <2>1. /\ ew'.stage = "write" /\ ew'.spec = deploy(extraCache) /\ ew'.found = cache
        /\ extraCache # NoExtra
        /\ UNCHANGED <<app, events, cache, extraCache>>
    BY <1>10 DEF ExtraFetch, vars, appVars
  <2> QED
    BY <1>1, <1>2, <2>1 DEF SettledInv, EventsInv, Rest, Idle, deploy
<1>11. CASE CreateApplication \/ UpdateApplication
  <2>1. Writing /\ ew' = Idle /\ UNCHANGED <<extraCache, extraQueued>>
    BY <1>1, <1>11 DEF CreateApplication, UpdateApplication, ExtraReturn, ExtraType
  <2>2. PICK a \in Application \cup {NoApp} : WriteApp(a) /\ a # NoApp /\ a.spec = ew.spec
    <3>1. ew \in [stage : {"write"}, spec : Specs, found : Application \cup {NoApp},
                  fresh : BOOLEAN]
      BY <1>1, <1>2, <2>1, ExtraWorkerType
    <3>2. CASE CreateApplication
      <4> DEFINE a == [spec |-> ew.spec, phase |-> ""]
      <4>1. a \in Application /\ a.spec = ew.spec
        BY <3>1 DEF Application, Phases
      <4>2. WriteApp(a)
        BY <3>2 DEF CreateApplication, OthersWriteApp
      <4> QED
        BY <4>1, <4>2, ApplicationAssumption
    <3>3. CASE UpdateApplication
      <4> DEFINE a == [app EXCEPT !.spec = ew.spec]
      <4>1. app \in Application
        BY <1>1, <3>1, <3>3 DEF UpdateApplication, WorkersInv, TypeOK
      <4>2. a \in Application /\ a.spec = ew.spec
        BY <3>1, <4>1 DEF Application
      <4>3. WriteApp(a)
        BY <3>3 DEF UpdateApplication, OthersWriteApp
      <4> QED
        BY <4>2, <4>3, ApplicationAssumption
    <3> QED
      BY <1>11, <3>2, <3>3
  <2>3. app' # NoApp /\ app'.spec = ew.spec
    BY <2>2 DEF WriteApp
  <2> QED
    BY <1>3, <2>1, <2>3 DEF SettledInv, Rest
<1>12. CASE ApplicationUpToDate
  <2>1. /\ Writing /\ ew' = Idle /\ ew.found # NoApp /\ ew.found.spec = ew.spec
        /\ UNCHANGED <<app, events, extraCache, extraQueued>>
    BY <1>1, <1>12 DEF ApplicationUpToDate, ExtraReturn, ExtraType, vars, appVars
  <2> QED
    BY <1>3, <2>1 DEF SettledInv, Rest
<1> QED
  BY <1>5, <1>6, <1>7, <1>8, <1>9, <1>10, <1>11, <1>12 DEF ExtraNext, ExtraReconcile

\* Although no return of the extra's controller has a timer, it never comes to
\* rest on an Application other than the one its extra asks for.
THEOREM ExtraSettledAlways == ExtraSpec => []ExtraSettled
<1>1. ExtraInit => SettledInv
  BY DEF ExtraInit, SettledInv, Rest, Writing, Idle
<1>2. SettledInv => ExtraSettled
  BY DEF SettledInv, ExtraSettled, Rest
<1> QED
  BY <1>1, <1>2, ExtraInit0, ExtraStep, SettledStep, PTL DEF ExtraSpec
=============================================================================
