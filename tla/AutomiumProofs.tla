--------------------------- MODULE AutomiumProofs ---------------------------
(***************************************************************************)
(* Theorems about Automium, for every value of its constants: it is a      *)
(* ModuleController with one of the environments that module allows, and   *)
(* what a Completed Module says of the machines is true.                   *)
(***************************************************************************)
EXTENDS Automium, ModuleControllerProofs

\* Every step of the system is one of ModuleController, or none of its own.
LEMMA SystemStep ==
    [SystemNext]_systemVars => [Next]_vars
BY DEF SystemNext, systemVars, ControllerStep, Provision, StrayProvision, Next,
       Environment, JobController, PodEnds, ReportMachine, DeleteDue

\* What holds of a ModuleController in any environment holds in the system:
\* SettledAlways, CompletedEarned and ModuleControllerImplementsLife.
THEOREM SystemImplementsModuleController == SystemSpec => Spec
<1>1. SystemInit => Init
  BY DEF SystemInit
<1> QED
  BY <1>1, SystemStep, PTL DEF SystemSpec, Spec

-----------------------------------------------------------------------------
(* Jobs and their pods *)

\* A Job, its pod and the action of the worker agree.
PodInv ==
    /\ pod # "none" => job # NoJob
    /\ job # NoJob => lastRun = job
    /\ job # NoJob /\ job.state = "Complete" => pod # "running"
    /\ lastRun # NoJob =>
         (lastRun.command = "./remove" <=> lastRun.env.QUANTITY = 0)
    /\ w # Idle => (w.action = "Destroy" <=> w.inst.spec.replicas = 0)

LEMMA PodInit == Init => PodInv
BY DEF Init, PodInv

\* A step that leaves the Job and its pod alone.
LEMMA PodStays ==
    ASSUME PodInv, UNCHANGED <<pod, job, lastRun>>,
           w' = Idle \/ UNCHANGED w
    PROVE  PodInv'
BY DEF PodInv

\* The worker goes on with the same copy and action.
LEMMA WorkerGoesOn ==
    ASSUME PodInv, w # Idle, UNCHANGED <<pod, job, lastRun>>,
           w'.action = w.action, w'.inst = w.inst
    PROVE  PodInv'
BY DEF PodInv

LEMMA ActionFits ==
    ASSUME NEW spec, NEW a \in chooseModuleAction(spec)
    PROVE  a = "Destroy" <=> spec.replicas = 0
BY DEF chooseModuleAction

LEMMA PodStep == TypeOK /\ PodInv /\ [Next]_vars => PodInv'
<1> SUFFICES ASSUME TypeOK, PodInv, [Next]_vars
             PROVE  PodInv'
  OBVIOUS
<1> USE DEF apiVars, nodeVars, nodeCopies, cacheVars, podVars, counters
<1>1. CASE Fetch
  <2>1. PICK a \in chooseModuleAction(moduleCache.spec) :
          w' = [stage |-> "getJob", inst |-> moduleCache, fresh |-> moduleFresh,
                action |-> a, found |-> NoJob, todo |-> {}, latest |-> {}]
    BY <1>1 DEF Fetch
  <2>2. a = "Destroy" <=> moduleCache.spec.replicas = 0
    BY ActionFits
  <2> QED
    BY <1>1, <2>1, <2>2 DEF Fetch, PodInv
<1>2. CASE CreateJob
  <2>1. w # Idle
    BY <1>2 DEF CreateJob, Idle
  <2>2. w \in Busy
    BY <2>1 DEF TypeOK
  <2>3. w.action \in Actions
    BY <2>2 DEF Busy
  <2>4. jobCommand(w.action) = "./remove" <=> w.inst.spec.replicas = 0
    BY <2>1, <2>3 DEF PodInv, jobCommand, Actions
  <2>5. /\ job'.env.QUANTITY = w.inst.spec.replicas
        /\ job'.command = jobCommand(w.action)
        /\ job'.state = "Created"
        /\ lastRun' = job'
        /\ pod' = "none"
        /\ w' = Idle
    BY <1>2 DEF CreateJob, batchEnvVars, ReturnRequeue
  <2> QED
    BY <2>4, <2>5 DEF PodInv
<1>3. CASE CreateJobFails \/ JobStillRunning \/ DeleteJobFails \/ MarkPending
             \/ CreateNodeFails \/ JobStatusUnknown \/ PublishStatus
  BY <1>3, PodStays DEF CreateJobFails, JobStillRunning, DeleteJobFails, MarkPending,
                CreateNodeFails, JobStatusUnknown, PublishStatus, ReturnRequeue,
                ReturnDone
<1>4. CASE \/ JobOutdated \/ JobUpToDate
          \/ MissingNodes \/ CreateNode \/ ExtraNodes \/ MarkNode \/ EnoughNodes
  <2>1. w.stage # "idle" /\ UNCHANGED <<pod, job, lastRun>>
    BY <1>4 DEF JobOutdated, JobUpToDate, MissingNodes, CreateNode, ExtraNodes,
                MarkNode, EnoughNodes
  <2>2. w # Idle /\ w \in Busy
    BY <2>1 DEF TypeOK, Idle
  <2>3. w'.action = w.action /\ w'.inst = w.inst
    <3>1. CASE JobOutdated
      BY <2>2, <3>1 DEF JobOutdated, Busy
    <3>2. CASE JobUpToDate
      BY <2>2, <3>2 DEF JobUpToDate, Busy
    <3>3. CASE MissingNodes
      BY <2>2, <3>3 DEF MissingNodes, Busy
    <3>4. CASE EnoughNodes
      BY <2>2, <3>4 DEF EnoughNodes, Busy
    <3>5. CASE CreateNode
      <4>1. PICK i \in w.todo : NodeDone(i)
        BY <3>5 DEF CreateNode
      <4> QED
        BY <2>2, <3>5, <4>1, NodeDoneType DEF CreateNode
    <3>6. CASE MarkNode
      <4>1. PICK i \in w.todo : NodeDone(i)
        BY <3>6 DEF MarkNode
      <4> QED
        BY <2>2, <3>6, <4>1, NodeDoneType DEF MarkNode
    <3>7. CASE ExtraNodes
      <4>1. PICK next, todo, latest :
              w' = [w EXCEPT !.stage = next, !.todo = todo, !.latest = latest]
        BY <3>7 DEF ExtraNodes
      <4> QED
        BY <2>2, <4>1 DEF Busy
    <3> QED
      BY <1>4, <3>1, <3>2, <3>3, <3>4, <3>5, <3>6, <3>7
  <2> QED
    BY <2>1, <2>2, <2>3, WorkerGoesOn
<1>5. CASE CleanupPods
  <2>1. w # Idle
    BY <1>5 DEF CleanupPods, Idle
  <2>2. w \in Busy
    BY <2>1 DEF TypeOK
  <2>3. w'.action = w.action /\ w'.inst = w.inst
    BY <1>5, <2>2 DEF CleanupPods, Busy
  <2>4. pod' \in {pod, "none"} /\ UNCHANGED <<job, lastRun>>
    BY <1>5 DEF CleanupPods
  <2> QED
    BY <2>1, <2>3, <2>4 DEF PodInv
<1>6. CASE DeleteJob
  <2>1. w # Idle
    BY <1>6 DEF DeleteJob, Idle
  <2>2. w \in Busy
    BY <2>1 DEF TypeOK
  <2>3. w'.action = w.action /\ w'.inst = w.inst
    BY <1>6, <2>2 DEF DeleteJob, Busy
  <2>4. pod' = "none" /\ job' = NoJob /\ UNCHANGED lastRun
    BY <1>6 DEF DeleteJob
  <2> QED
    BY <2>1, <2>3, <2>4 DEF PodInv
<1>7. CASE SyncModule \/ SyncJob \/ SyncNodes \/ Restart
  BY <1>7, PodStays DEF SyncModule, SyncJob, SyncNodes, Restart, ReturnRequeue
<1>8. CASE UpdateSpec
  <2>1. UNCHANGED <<pod, job, lastRun>>
    BY <1>8 DEF UpdateSpec
  <2>2. CASE w = Idle
    BY <1>8, <2>1, <2>2, PodStays DEF UpdateSpec
  <2>3. CASE w # Idle
    <3>1. w \in Busy /\ w' = [w EXCEPT !.fresh = FALSE]
      BY <1>8, <2>3 DEF UpdateSpec, TypeOK
    <3>2. w'.action = w.action /\ w'.inst = w.inst
      BY <3>1 DEF Busy
    <3> QED
      BY <2>1, <2>3, <3>2, WorkerGoesOn
  <2> QED
    BY <2>2, <2>3
<1>9. CASE StartPod
  BY <1>9 DEF StartPod, PodInv
<1>10. CASE PodExits
  BY <1>10 DEF PodExits, PodInv
<1>11. CASE PublishActive \/ PublishEnd \/ PublishRetry
  <2>1. PICK state \in JobStates :
          JobStatusChanges(state) /\ (state = "Complete" => pod # "running")
    BY <1>11 DEF PublishActive, PublishEnd, PublishRetry, JobStates
  <2>2. job \in Job /\ job' = [job EXCEPT !.state = state]
    BY <2>1 DEF JobStatusChanges, TypeOK
  <2>3. /\ job'.env = job.env /\ job'.command = job.command /\ job'.state = state
        /\ lastRun' = job' /\ UNCHANGED w
    BY <2>1, <2>2 DEF JobStatusChanges, Job
  <2>4. job' # NoJob
    <3>1. job' \in Job
      BY <2>2 DEF Job
    <3> QED
      BY <3>1, ModuleAssumption
  <2>5. job # NoJob /\ pod' \in {pod, "none"}
    BY <1>11, <2>1 DEF PublishActive, PublishEnd, PublishRetry, JobStatusChanges
  <2> QED
    BY <2>1, <2>3, <2>4, <2>5 DEF PodInv
<1>12. CASE StrayExits
  BY <1>12, PodStays DEF StrayExits
<1>14. CASE NodeReport \/ NodeDeleted \/ NodeRecreated
  <2>1. PICK i, n : NodeWritten(i, n)
    BY <1>14 DEF NodeReport, NodeDeleted, NodeRecreated
  <2>2. UNCHANGED <<pod, job, lastRun>>
    BY <2>1 DEF NodeWritten
  <2>3. CASE w = Idle
    BY <2>1, <2>2, <2>3, PodStays DEF NodeWritten
  <2>4. CASE w # Idle
    <3>1. w \in Busy /\ w' = [w EXCEPT !.latest = w.latest \ {i}]
      BY <2>1, <2>4 DEF NodeWritten, TypeOK
    <3>2. w'.action = w.action /\ w'.inst = w.inst
      BY <3>1 DEF Busy
    <3> QED
      BY <2>2, <2>4, <3>2, WorkerGoesOn
  <2> QED
    BY <2>3, <2>4
<1>13. CASE UNCHANGED vars
  BY <1>13, PodStays DEF vars
<1> QED
  BY <1>1, <1>2, <1>3, <1>4, <1>5, <1>6, <1>7, <1>8, <1>9, <1>10, <1>11, <1>12,
     <1>13, <1>14 DEF Next, Reconcile, Environment, JobController

-----------------------------------------------------------------------------
(* The machines *)

\* As long as no pod has outlived its Job, the machines are those that a pod or a
\* Job that succeeded had to make; this survives the deletion of the Job.
MachinesInv ==
    /\ strays => overlapped
    /\ ~overlapped =>
         /\ pod = "succeeded" => machines = Wanted(job.env, job.command)
         /\ lastRun # NoJob /\ lastRun.state = "Complete"
              => machines = Wanted(lastRun.env, lastRun.command)

LEMMA MachinesInit == SystemInit => MachinesInv
BY DEF SystemInit, Init, MachinesInv

\* The Job controller publishes a state of the Job.
LEMMA StatusOfJob ==
    ASSUME TypeOK, NEW state, JobStatusChanges(state)
    PROVE  /\ job'.env = job.env /\ job'.command = job.command
           /\ job'.state = state /\ lastRun' = job' /\ job # NoJob
<1>1. job \in Job /\ job' = [job EXCEPT !.state = state]
  BY DEF JobStatusChanges, TypeOK
<1> QED
  BY <1>1 DEF JobStatusChanges, Job

LEMMA MachinesStep ==
    TypeOK /\ PodInv /\ MachinesInv /\ [SystemNext]_systemVars => MachinesInv'
<1> SUFFICES ASSUME TypeOK, PodInv, MachinesInv, [SystemNext]_systemVars
             PROVE  MachinesInv'
  OBVIOUS
<1> USE DEF apiVars, nodeVars, nodeCopies, cacheVars, podVars, counters
<1>1. CASE StrayProvision
  BY <1>1 DEF StrayProvision, vars, MachinesInv
<1>2. CASE Provision
  <2>1. lastRun = job /\ job # NoJob /\ job.state # "Complete" /\ pod = "running"
    BY <1>2 DEF Provision, PodInv
  <2>2. UNCHANGED <<strays, overlapped, pod, job, lastRun>>
    BY <1>2 DEF Provision, vars
  <2> QED
    BY <2>1, <2>2 DEF MachinesInv
<1>3. CASE UNCHANGED systemVars
  <2>1. UNCHANGED <<strays, overlapped, pod, job, lastRun, machines>>
    BY <1>3 DEF systemVars, vars
  <2> QED
    BY <2>1 DEF MachinesInv
<1>4. ASSUME ControllerStep, overlapped' = (overlapped \/ strays'), UNCHANGED machines
      PROVE  MachinesInv'
  <2> DEFINE Right == /\ pod' = "succeeded" => machines = Wanted(job'.env, job'.command)
                      /\ lastRun' # NoJob /\ lastRun'.state = "Complete"
                           => machines = Wanted(lastRun'.env, lastRun'.command)
  <2> SUFFICES ASSUME ~overlapped
               PROVE  Right
    BY <1>4 DEF MachinesInv
  <2>1. ASSUME pod' \in {pod, "none", "running"}, UNCHANGED <<job, lastRun>>
        PROVE  Right
    BY <2>1 DEF MachinesInv
  <2>2. CASE CreateJob
    BY <2>2 DEF CreateJob
  <2>3. CASE DeleteJob
    BY <2>3 DEF DeleteJob, MachinesInv
  <2>4. CASE PodEnds
    BY <2>4 DEF PodEnds, PodExits, MachinesInv
  <2>5. CASE PublishActive \/ PublishRetry
    <3>1. PICK state \in {"Active", "Backoff"} : JobStatusChanges(state)
      BY <2>5 DEF PublishActive, PublishRetry
    <3>2. pod' # "succeeded"
      BY <2>5 DEF PublishActive, PublishRetry
    <3> QED
      BY <3>1, <3>2, StatusOfJob
  <2>6. CASE PublishEnd
    <3>1. CASE pod = "succeeded"
      <4>1. JobStatusChanges("Complete") /\ machines = Wanted(job.env, job.command)
        BY <2>6, <3>1 DEF PublishEnd, MachinesInv
      <4> QED
        BY <4>1, StatusOfJob
    <3>2. CASE pod # "succeeded"
      <4>1. JobStatusChanges("Failed") /\ pod' # "succeeded"
        BY <2>6, <3>2 DEF PublishEnd
      <4> QED
        BY <4>1, StatusOfJob
    <3> QED
      BY <3>1, <3>2
  <2>7. ControllerStep =>
          \/ CreateJob \/ DeleteJob \/ PodEnds
          \/ PublishActive \/ PublishRetry \/ PublishEnd
          \/ pod' \in {pod, "none", "running"} /\ UNCHANGED <<job, lastRun>>
    BY DEF ControllerStep, Reconcile, SyncModule, SyncJob, SyncNodes, Restart,
           Fetch, CreateJobFails, JobStillRunning, JobOutdated, JobUpToDate,
           CleanupPods, DeleteJobFails, MarkPending, MissingNodes, CreateNode,
           CreateNodeFails, ExtraNodes, MarkNode, EnoughNodes, JobStatusUnknown,
           PublishStatus, UpdateSpec, StartPod, StrayExits, ReportMachine,
           DeleteDue, NodeReport, NodeDeleted, NodeWritten
  <2> QED
    BY <1>4, <2>1, <2>2, <2>3, <2>4, <2>5, <2>6, <2>7
<1> QED
  BY <1>1, <1>2, <1>3, <1>4 DEF SystemNext

\* A Module turns Completed only over the machines its spec asks for, unless a pod
\* has outlived its Job: the Job that ran last had that spec and succeeded
\* (CompletedEarned), its pod made those machines, and none worked since.
THEOREM CompletedModuleIsTrue == SystemSpec => CompletedIsTrue
<1> DEFINE Becomes == /\ module.status.phase # "Completed"
                      /\ module'.status.phase = "Completed"
           Earned == /\ lastRun # NoJob
                     /\ lastRun.env = batchEnvVars(module'.spec)
                     /\ lastRun.state = "Complete"
           IsTrue == AsWanted(module'.spec) \/ overlapped
<1>1. SystemSpec => Spec
  BY SystemImplementsModuleController
<1>2. Spec => []TypeOK /\ []PodInv
  <2>1. TypeOK /\ PodInv /\ [Next]_vars => PodInv'
    BY PodStep
  <2> QED
    BY <2>1, PodInit, TypeCorrect, PTL DEF Spec
<1>3. SystemSpec => []MachinesInv
  <2>1. TypeOK /\ PodInv /\ MachinesInv /\ [SystemNext]_systemVars => MachinesInv'
    BY MachinesStep
  <2> QED
    BY <1>1, <1>2, <2>1, MachinesInit, PTL DEF SystemSpec
<1>4. ASSUME PodInv, MachinesInv, Earned
      PROVE  IsTrue
  <2>1. Wanted(lastRun.env, lastRun.command) = Wanted(lastRun.env, "./deploy")
    BY <1>4 DEF PodInv, Wanted, NodeIds
  <2> QED
    BY <1>4, <2>1 DEF MachinesInv, AsWanted
<1>5. ASSUME PodInv, MachinesInv, [Becomes => Earned]_vars
      PROVE  [Becomes => IsTrue]_systemVars
  <2>1. CASE Becomes => Earned
    BY <1>4, <1>5, <2>1
  <2>2. CASE UNCHANGED vars
    BY <2>2 DEF vars, apiVars
  <2> QED
    BY <1>5, <2>1, <2>2
<1>6. Spec => [][Becomes => Earned]_vars
  BY CompletedEarned DEF CompletedIsEarned
<1> QED
  BY <1>1, <1>2, <1>3, <1>5, <1>6, PTL DEF CompletedIsTrue

\* The state of the whole system has its type.
THEOREM SystemTypeCorrect == SystemSpec => []SystemTypeOK
<1> DEFINE MachinesType == machines \in [NodeIds -> NodeStatus] /\ overlapped \in BOOLEAN
<1>1. Spec => []TypeOK /\ []PodInv
  <2>1. TypeOK /\ PodInv /\ [Next]_vars => PodInv'
    BY PodStep
  <2> QED
    BY <2>1, PodInit, TypeCorrect, PTL DEF Spec
<1>2. SystemInit => MachinesType
  BY DEF SystemInit, NoMachine, ZeroStatus, NodeStatus, Gone, None
<1>3. ASSUME TypeOK, PodInv, MachinesType, [SystemNext]_systemVars
      PROVE  MachinesType'
  <2>1. CASE Provision
    <3>1. job \in Job
      BY <1>3, <2>1 DEF Provision, TypeOK, PodInv
    <3>2. \A i \in NodeIds : Wanted(job.env, job.command)[i] \in NodeStatus
      BY <3>1 DEF Wanted, Job, JobEnv, NodeStatus, NoMachine, ZeroStatus, Machine, Gone, None
    <3> QED
      BY <1>3, <2>1, <3>2 DEF Provision
  <2>2. CASE StrayProvision
    BY <1>3, <2>2, ModuleAssumption DEF StrayProvision
  <2>3. CASE UNCHANGED machines /\ overlapped' = (overlapped \/ strays')
    BY <1>3, <2>3
  <2> QED
    BY <1>3, <2>1, <2>2, <2>3 DEF SystemNext, systemVars
<1>4. SystemTypeOK <=> TypeOK /\ MachinesType
  BY DEF SystemTypeOK
<1> HIDE DEF MachinesType
<1> QED
  BY <1>1, <1>2, <1>3, <1>4, SystemImplementsModuleController, PTL DEF SystemSpec
=============================================================================
