-------------------------- MODULE ModuleController --------------------------
(***************************************************************************)
(* pkg/controller/module: the reconciler of one Module.  It keeps a Job    *)
(* (the provisioner) and the Node resources in step with the Module's spec *)
(* and publishes a status.                                                 *)
(*                                                                         *)
(* The reconciler reads from informer caches and writes to the API server. *)
(* One worker handles the Module at a time (MaxConcurrentReconciles is 1); *)
(* queued says that the Module is in the work queue or has a timer         *)
(* pending, so that Reconcile will be called again.  An object changed in  *)
(* the API makes the cached copy old; when the cache catches up, the watch *)
(* enqueues the Module, unless it is a Node, which is not watched.  Writing *)
(* a copy that is not the latest one fails with a conflict: moduleFresh    *)
(* and w.fresh say that the cache's and the worker's copies of the Module  *)
(* are the latest, nodesFresh and w.latest of which Nodes they are.        *)
(***************************************************************************)
EXTENDS NodeUtils, Sequences

CONSTANTS
    Envs,          \* values of Spec.Env
    Replicas,      \* values of Spec.Replicas
    MaxReplicas,   \* bound on them
    NameNumbers,   \* the numbers in the hostnames of the service before
                   \* the final one: <<2, 1>> for "web2-v1-0"
    Reports,       \* node statuses the Node controller may publish
    MaxEdits,      \* bound on the changes of Spec by the Service controller
    MaxFaults,     \* bound on failed API calls and restarts
    NoJob          \* the Job does not exist

NodeIds == 0 .. (MaxReplicas - 1)

ModuleSpec == [replicas : Replicas, image : Images,
               flavor : Flavors, env : Envs]

Phases == {None, "Pending", "Running", "Completed", "Failed"}

ModuleStatus == [phase : Phases, replicas : 0 .. MaxReplicas,
                 currentReplicas : 0 .. MaxReplicas,
                 updatedReplicas : 0 .. MaxReplicas]

Module == [spec : ModuleSpec, status : ModuleStatus]

Actions == {"Deploy", "Upgrade", "Destroy"}

Commands == {"./deploy", "./upgrade", "./remove"}

\* What StartTime, Active and Conditions of a JobStatus say together:
\* Created (no StartTime), Active, Backoff (started, no active pod, no
\* condition: between a failed pod and its retry), Complete and Failed.
JobStates == {"Created", "Active", "Backoff", "Complete", "Failed"}

JobEnv == [env : Envs, FLAVOR : Flavors, QUANTITY : Replicas,
           IMAGE : Images]

Job == [env : JobEnv, command : Commands, state : JobStates]

BackoffLimit == 1

ASSUME ModuleAssumption ==
    /\ MaxReplicas \in Nat
    /\ Replicas \subseteq 0 .. MaxReplicas
    /\ Reports \subseteq NodeStatus
    /\ MaxEdits \in Nat
    /\ MaxFaults \in Nat
    /\ NoJob \notin Job

ASSUME NamesAssumption == NameNumbers \in Seq(Nat)

VARIABLES
    module,        \* the Module in the API server
    moduleCache,   \* the informer's copy of it
    moduleFresh,   \* moduleCache is the latest version
    job,           \* the Job in the API server
    jobCache,      \* the informer's copy of it
    pod,           \* the pod of the current Job
    failures,      \* failed pods of the current Job
    strays,        \* a pod of a deleted Job is still running
    nodes,         \* the Node resources of the service
    nodesCache,    \* the informer's copies of them
    nodesFresh,    \* the Nodes of which it has the latest version
    doomed,        \* those whose name a marked Node without machine has had
    queued,        \* Reconcile will be called (again)
    w,             \* the worker: its stage and local variables
    lastRun,       \* history: the last Job created, deleted or not
    edits, faults  \* counters bounding the environment

nodeVars == <<nodes, doomed>>
apiVars == <<module, job, lastRun, nodeVars>>
nodeCopies == <<nodesCache, nodesFresh>>
cacheVars == <<moduleCache, moduleFresh, jobCache, nodeCopies>>
podVars == <<pod, failures, strays>>
counters == <<edits, faults>>
vars == <<apiVars, cacheVars, podVars, queued, w, counters>>

\* inst, action and found are the variables of Reconcile with these names;
\* found matters only once the Job is known to be the right one.  todo holds
\* the Nodes that the loops of manageNodesForModule have still to create or to
\* mark, latest those of them whose listed copy is the latest version.
Idle == [stage |-> "idle"]
Busy ==
    [stage : {"getJob", "cleanup", "deleteJob", "pending"}, inst : Module,
     fresh : BOOLEAN, action : Actions, found : {NoJob},
     todo : {{}}, latest : {{}}]
    \cup
    [stage : {"nodes", "create", "mark", "status"}, inst : Module,
     fresh : BOOLEAN, action : Actions, found : Job,
     todo : SUBSET NodeIds, latest : SUBSET NodeIds]

TypeOK ==
    /\ module \in Module
    /\ moduleCache \in Module
    /\ moduleFresh \in BOOLEAN
    /\ job \in Job \cup {NoJob}
    /\ jobCache \in Job \cup {NoJob}
    /\ lastRun \in Job \cup {NoJob}
    /\ pod \in {"none", "running", "succeeded", "failed"}
    /\ failures \in 0 .. BackoffLimit
    /\ strays \in BOOLEAN
    /\ nodes \in [NodeIds -> Node \cup {NoNode}]
    /\ nodesCache \in [NodeIds -> Node \cup {NoNode}]
    /\ nodesFresh \subseteq NodeIds
    /\ doomed \subseteq NodeIds
    /\ queued \in BOOLEAN
    /\ w \in {Idle} \cup Busy
    /\ edits \in 0 .. MaxEdits
    /\ faults \in 0 .. MaxFaults

\* The Service controller has just created the Module.
Init ==
    /\ module \in [spec : ModuleSpec,
                   status : {[phase |-> None, replicas |-> 0,
                              currentReplicas |-> 0, updatedReplicas |-> 0]}]
    /\ moduleCache = module
    /\ moduleFresh = TRUE
    /\ job = NoJob
    /\ jobCache = NoJob
    /\ lastRun = NoJob
    /\ pod = "none"
    /\ failures = 0
    /\ strays = FALSE
    /\ nodes = [i \in NodeIds |-> NoNode]
    /\ nodesCache = nodes
    /\ nodesFresh = NodeIds
    /\ doomed = {}
    /\ queued = TRUE
    /\ w = Idle
    /\ edits = 0
    /\ faults = 0

-----------------------------------------------------------------------------
(* Operators of the reconciler *)

\* Spec.Env followed by the three variables the controller adds.
batchEnvVars(spec) == [env |-> spec.env, FLAVOR |-> spec.flavor,
                       QUANTITY |-> spec.replicas, IMAGE |-> spec.image]

jobCommand(action) ==
    [Deploy |-> "./deploy", Upgrade |-> "./upgrade",
     Destroy |-> "./remove"][action]

\* The actions chooseModuleAction may return from the Nodes in the cache;
\* NodesAreConsistent may meet the healthy ones in any order.
chooseModuleAction(spec) ==
    IF spec.replicas = 0 THEN {"Destroy"}
    ELSE IF \/ GetNodesCount(nodesCache) = 0
            \/ spec.replicas < GetNodesCount(nodesCache) THEN {"Deploy"}
    ELSE {IF \/ ~r[1]
             \/ /\ r[2] # -1
                /\ \/ ~EqNodeFlavor(nodesCache[r[2]], spec.flavor)
                   \/ ~EqNodeImage(nodesCache[r[2]], spec.image)
          THEN "Upgrade" ELSE "Deploy" : r \in NodesAreConsistent(nodesCache)}

\* None stands for the error return.
retrieveJobStatus(j) ==
    [Created |-> "Pending", Active |-> "Running", Complete |-> "Completed",
     Failed |-> "Failed", Backoff |-> None][j.state]

Updated(spec) ==
    {i \in Healthy(nodesCache) : /\ EqNodeImage(nodesCache[i], spec.image)
                            /\ EqNodeFlavor(nodesCache[i], spec.flavor)}

\* Mutants: an updated node counts twice; the branches are swapped.
currentReplicasTwice(spec, action) ==
    Cardinality(Healthy(nodesCache)) + Cardinality(Updated(spec))
updatedReplicasSwapped(spec) == Cardinality(Healthy(nodesCache) \ Updated(spec))

\* The two results of getUpdatedNodes.
currentReplicas(spec, action) ==
    Cardinality(IF action = "Deploy" THEN Healthy(nodesCache)
                ELSE Healthy(nodesCache) \ Updated(spec))
updatedReplicas(spec) == Cardinality(Updated(spec))

\* Mutant: the environments are not compared.
JobDiffersCommandOnly(found) == found.command # jobCommand(w.action)

\* The Job found must be replaced by the one the Module asks for.
JobDiffers(found) ==
    \/ found.env # batchEnvVars(w.inst.spec)
    \/ found.command # jobCommand(w.action)

-----------------------------------------------------------------------------
(* Ends of a Reconcile call *)

\* An error, Requeue or RequeueAfter: Reconcile will be called again.
ReturnRequeue == /\ w' = Idle
                 /\ queued' = TRUE

\* Result{}: called again only if an event arrived meanwhile.
ReturnDone == /\ w' = Idle
              /\ UNCHANGED queued

Fault == /\ faults < MaxFaults
         /\ faults' = faults + 1

\* The Module changes in the API: cached copies are old from now on.
ModuleChanges(m) ==
    /\ module' = m
    /\ moduleFresh' = FALSE

-----------------------------------------------------------------------------
(* The steps of Reconcile *)

\* Take the Module from the queue, read it from the cache, choose the action.
Fetch ==
    /\ w = Idle
    /\ queued
    /\ queued' \in BOOLEAN   \* another timer may be pending
    /\ \E a \in chooseModuleAction(moduleCache.spec) :
         w' = [stage |-> "getJob", inst |-> moduleCache, fresh |-> moduleFresh,
               action |-> a, found |-> NoJob, todo |-> {}, latest |-> {}]
    /\ UNCHANGED <<apiVars, cacheVars, podVars, counters>>

\* The cache holds no Job: create it.  Nothing was found, so the containers
\* of found are empty and Reconcile asks to be called again in 5s.
CreateJob ==
    /\ w.stage = "getJob"
    /\ jobCache = NoJob
    /\ job = NoJob
    /\ job' = [env |-> batchEnvVars(w.inst.spec),
               command |-> jobCommand(w.action), state |-> "Created"]
    /\ lastRun' = job'
    /\ pod' = "none"
    /\ failures' = 0
    /\ ReturnRequeue
    /\ UNCHANGED <<module, nodeVars, cacheVars, strays, counters>>

\* The Job exists although the cache does not show it yet, or the API fails.
CreateJobFails ==
    /\ w.stage = "getJob"
    /\ jobCache = NoJob
    /\ \/ job # NoJob /\ UNCHANGED faults
       \/ Fault
    /\ ReturnRequeue
    /\ UNCHANGED <<apiVars, cacheVars, podVars, edits>>

\* Mutant: a Job that is not complete is waited for.
JobStillRunningUnlessComplete ==
    /\ w.stage = "getJob"
    /\ jobCache # NoJob
    /\ JobDiffers(jobCache)
    /\ jobCache.state # "Complete"
    /\ ReturnRequeue
    /\ UNCHANGED <<apiVars, cacheVars, podVars, counters>>

\* A Job to be replaced is still running: wait.
JobStillRunning ==
    /\ w.stage = "getJob"
    /\ jobCache # NoJob
    /\ JobDiffers(jobCache)
    /\ jobCache.state = "Active"
    /\ ReturnRequeue
    /\ UNCHANGED <<apiVars, cacheVars, podVars, counters>>

\* A Job to be replaced that is not running: it goes, its pods first.
JobOutdated ==
    /\ w.stage = "getJob"
    /\ jobCache # NoJob
    /\ JobDiffers(jobCache)
    /\ jobCache.state # "Active"
    /\ w' = [w EXCEPT !.stage = "cleanup"]
    /\ UNCHANGED <<apiVars, cacheVars, podVars, queued, counters>>

\* The Job is the one the Module asks for.
JobUpToDate ==
    /\ w.stage = "getJob"
    /\ jobCache # NoJob
    /\ ~JobDiffers(jobCache)
    /\ w' = [w EXCEPT !.stage = "nodes", !.found = jobCache]
    /\ UNCHANGED <<apiVars, cacheVars, podVars, queued, counters>>

\* Delete the pods found in the (possibly old) pod list.  A pod may be
\* missing from the list and a failed deletion is only logged, so each pod
\* may survive.
CleanupPods ==
    /\ w.stage = "cleanup"
    /\ pod' \in {pod, "none"}
    /\ strays' \in {strays, FALSE}
    /\ w' = [w EXCEPT !.stage = "deleteJob"]
    /\ UNCHANGED <<apiVars, cacheVars, failures, queued, counters>>

\* Delete the Job by name.  Its pods are orphaned, a running one goes on.
DeleteJob ==
    /\ w.stage = "deleteJob"
    /\ job # NoJob
    /\ job' = NoJob
    /\ strays' = (strays \/ pod = "running")
    /\ pod' = "none"
    /\ failures' = 0
    /\ w' = [w EXCEPT !.stage = "pending"]
    /\ UNCHANGED <<module, lastRun, nodeVars, cacheVars, queued, counters>>

DeleteJobFails ==
    /\ w.stage = "deleteJob"
    /\ \/ job = NoJob /\ UNCHANGED faults
       \/ Fault
    /\ ReturnRequeue
    /\ UNCHANGED <<apiVars, cacheVars, podVars, edits>>

\* The status updateModuleStatus computes from the nodes it lists.
NextStatus(phase) ==
    [phase |-> phase, replicas |-> w.inst.spec.replicas,
     currentReplicas |-> currentReplicas(w.inst.spec, w.action),
     updatedReplicas |-> updatedReplicas(w.inst.spec)]

\* updateModuleStatus with its three outcomes: nothing to write, written, or
\* refused (conflict, or a failing API).
StatusUnchanged(phase) ==
    /\ w.inst.status = NextStatus(phase)
    /\ UNCHANGED <<module, moduleFresh, faults>>

StatusWritten(phase) ==
    /\ w.inst.status # NextStatus(phase)
    /\ w.fresh
    /\ ModuleChanges([module EXCEPT !.status = NextStatus(phase)])
    /\ UNCHANGED faults

StatusRefused(phase) ==
    /\ w.inst.status # NextStatus(phase)
    /\ \/ ~w.fresh /\ UNCHANGED faults
       \/ Fault
    /\ UNCHANGED <<module, moduleFresh>>

\* After a Job was deleted the phase is Pending; Reconcile asks to be called
\* again whether or not the status could be written.
MarkPending ==
    /\ w.stage = "pending"
    /\ \/ StatusUnchanged("Pending")
       \/ StatusWritten("Pending")
       \/ StatusRefused("Pending")
    /\ ReturnRequeue
    /\ UNCHANGED <<job, lastRun, nodeVars, moduleCache, jobCache, nodeCopies, podVars,
                   edits>>

\* A marked Node that was found to have no machine: the Node controller is
\* going to delete it.
Due(node) == node # NoNode /\ node.marked /\ node.status.id = Gone

\* A write of Node i, here or by the Node controller: copies of it are old.
NodeBecomes(i, n) ==
    /\ nodes' = [nodes EXCEPT ![i] = n]
    /\ doomed' = IF Due(n) THEN doomed \cup {i} ELSE doomed
    /\ nodesFresh' = nodesFresh \ {i}
    /\ UNCHANGED nodesCache

\* What manageNodesForModule finds in the cache decides what it does.
TooFewNodes == Cardinality(Listed(nodesCache)) < w.inst.spec.replicas
TooManyNodes == Cardinality(Listed(nodesCache)) > w.inst.spec.replicas

\* Too few: create all those numbered below Spec.Replicas.
MissingNodes ==
    /\ w.stage = "nodes"
    /\ TooFewNodes
    /\ w' = [w EXCEPT !.stage = "create", !.todo = 0 .. (w.inst.spec.replicas - 1)]
    /\ UNCHANGED <<apiVars, cacheVars, podVars, queued, counters>>

\* The loops go on with the next Node, or end.
NodeDone(i) ==
    w' = [w EXCEPT !.stage = IF w.todo = {i} THEN "status" ELSE @,
                   !.todo = @ \ {i}, !.latest = @ \ {i}]

\* One Create per Node.  That it exists already is no error.
CreateNode ==
    /\ w.stage = "create"
    /\ \E i \in w.todo :
         /\ \A j \in w.todo : i <= j
         /\ \/ nodes[i] = NoNode /\ NodeBecomes(i, NewNode)
            \/ nodes[i] # NoNode /\ UNCHANGED <<nodeVars, nodeCopies>>
         /\ NodeDone(i)
    /\ UNCHANGED <<module, job, lastRun, moduleCache, moduleFresh, jobCache, podVars,
                   queued, counters>>

\* A creation fails, those after it are not tried: again in 5s.
CreateNodeFails ==
    /\ w.stage = "create"
    /\ Fault
    /\ ReturnRequeue
    /\ UNCHANGED <<apiVars, cacheVars, podVars, edits>>

\* The key SortNodesByNumber reads from a hostname, which ends in the number
\* of the Node: the first number in it.
FirstNumber == [i \in NodeIds |-> Head(NameNumbers \o <<i>>)]

\* Too many: of those sorted last, mark the ones not yet marked in the list.
ExtraNodes ==
    /\ w.stage = "nodes"
    /\ TooManyNodes
    /\ \E arrToDelete \in Tails(nodesCache, w.inst.spec.replicas, FirstNumber) :
         LET unmarked == {i \in arrToDelete : ~nodesCache[i].marked}
         IN  w' = [w EXCEPT !.stage = IF unmarked = {} THEN "status" ELSE "mark",
                            !.todo = unmarked,
                            !.latest = unmarked \cap nodesFresh]
    /\ UNCHANGED <<apiVars, cacheVars, podVars, queued, counters>>

\* Mutant: the extra node is deleted at once.
MarkNodeDeletes ==
    /\ w.stage = "mark"
    /\ \E i \in w.latest : NodeBecomes(i, NoNode) /\ NodeDone(i)
    /\ UNCHANGED <<module, job, lastRun, moduleCache, moduleFresh, jobCache, podVars,
                   queued, counters>>

\* One Update per Node, of the copy in the list.  Its result is dropped: a
\* Node that has changed since stays as it is, and so may any other.
MarkNode ==
    /\ w.stage = "mark"
    /\ \E i \in w.todo :
         /\ \A j \in w.todo : FirstNumber[i] <= FirstNumber[j]
         /\ \/ /\ i \in w.latest /\ nodes[i] # NoNode
               /\ NodeBecomes(i, [nodes[i] EXCEPT !.marked = TRUE])
               /\ UNCHANGED faults
            \/ /\ \/ i \notin w.latest /\ UNCHANGED faults
                  \/ Fault
               /\ UNCHANGED <<nodeVars, nodeCopies>>
         /\ NodeDone(i)
    /\ UNCHANGED <<module, job, lastRun, moduleCache, moduleFresh, jobCache, podVars,
                   queued, edits>>

EnoughNodes ==
    /\ w.stage = "nodes"
    /\ ~TooFewNodes
    /\ ~TooManyNodes
    /\ w' = [w EXCEPT !.stage = "status"]
    /\ UNCHANGED <<apiVars, cacheVars, podVars, queued, counters>>

\* Mutant: a completed Job is always reported.
ReportedPhaseUnchecked == retrieveJobStatus(w.found)

\* The phase to publish.  A completed Job counts as Pending as long as the
\* replica counts of the status read at the start differ.
ReportedPhase ==
    IF /\ w.inst.status.updatedReplicas # w.inst.status.replicas
       /\ retrieveJobStatus(w.found) = "Completed"
    THEN "Pending"
    ELSE retrieveJobStatus(w.found)

\* A started Job without active pods and conditions has no phase: an error.
JobStatusUnknown ==
    /\ w.stage = "status"
    /\ retrieveJobStatus(w.found) = None
    /\ ReturnRequeue
    /\ UNCHANGED <<apiVars, cacheVars, podVars, counters>>

PublishStatus ==
    /\ w.stage = "status"
    /\ retrieveJobStatus(w.found) # None
    /\ \/ /\ \/ StatusUnchanged(ReportedPhase)
             \/ StatusWritten(ReportedPhase)
          /\ IF ReportedPhase \in {"Pending", "Running"}
             THEN ReturnRequeue ELSE ReturnDone
       \/ StatusRefused(ReportedPhase) /\ ReturnRequeue
    /\ UNCHANGED <<job, lastRun, nodeVars, moduleCache, jobCache, nodeCopies, podVars,
                   edits>>

Reconcile ==
    \/ Fetch
    \/ CreateJob \/ CreateJobFails
    \/ JobStillRunning \/ JobOutdated \/ JobUpToDate
    \/ CleanupPods \/ DeleteJob \/ DeleteJobFails \/ MarkPending
    \/ MissingNodes \/ CreateNode \/ CreateNodeFails
    \/ ExtraNodes \/ MarkNode \/ EnoughNodes
    \/ JobStatusUnknown \/ PublishStatus

-----------------------------------------------------------------------------
(* The informer caches and the operator process *)

\* Mutant: changes of the Module are not watched.
SyncModuleUnwatched ==
    /\ ~moduleFresh
    /\ moduleCache' = module
    /\ moduleFresh' = TRUE
    /\ UNCHANGED <<apiVars, jobCache, nodeCopies, podVars, queued, w, counters>>

SyncModule ==
    /\ ~moduleFresh
    /\ moduleCache' = module
    /\ moduleFresh' = TRUE
    /\ queued' = TRUE
    /\ UNCHANGED <<apiVars, jobCache, nodeCopies, podVars, w, counters>>

SyncJob ==
    /\ jobCache # job
    /\ jobCache' = job
    /\ queued' = TRUE
    /\ UNCHANGED <<apiVars, moduleCache, moduleFresh, nodeCopies, podVars, w, counters>>

\* The Nodes are not watched: the Module is not enqueued.
SyncNodes ==
    /\ nodesFresh # NodeIds
    /\ nodesCache' = nodes
    /\ nodesFresh' = NodeIds
    /\ UNCHANGED <<apiVars, moduleCache, moduleFresh, jobCache, podVars, queued, w,
                   counters>>

\* The manager restarts: the call in progress is lost, the caches are filled
\* again and every Module found in them is enqueued.
Restart ==
    /\ Fault
    /\ ReturnRequeue
    /\ moduleCache' = module
    /\ moduleFresh' = TRUE
    /\ jobCache' = job
    /\ nodesCache' = nodes
    /\ nodesFresh' = NodeIds
    /\ UNCHANGED <<apiVars, podVars, edits>>

-----------------------------------------------------------------------------
(* The environment *)

\* The Service controller writes another Spec.
UpdateSpec ==
    /\ edits < MaxEdits
    /\ edits' = edits + 1
    /\ \E s \in ModuleSpec \ {module.spec} :
         ModuleChanges([module EXCEPT !.spec = s])
    /\ w' = IF w = Idle THEN w ELSE [w EXCEPT !.fresh = FALSE]
    /\ UNCHANGED <<job, lastRun, nodeVars, moduleCache, jobCache, nodeCopies, podVars,
                   queued, faults>>

\* Kubernetes' Job controller starts a pod and publishes the Job's status.
StartPod ==
    /\ job # NoJob
    /\ job.state \in {"Created", "Active", "Backoff"}
    /\ pod = "none"
    /\ pod' = "running"
    /\ UNCHANGED <<apiVars, cacheVars, failures, strays, queued, w, counters>>

PodExits ==
    /\ pod = "running"
    /\ pod' \in {"succeeded", "failed"}
    /\ UNCHANGED <<apiVars, cacheVars, failures, strays, queued, w, counters>>

StrayExits ==
    /\ strays
    /\ strays' = FALSE
    /\ UNCHANGED <<apiVars, cacheVars, pod, failures, queued, w, counters>>

JobStatusChanges(state) ==
    /\ job # NoJob
    /\ job' = [job EXCEPT !.state = state]
    /\ lastRun' = job'
    /\ UNCHANGED <<module, nodeVars, cacheVars, strays, queued, w, counters>>

PublishActive ==
    /\ pod = "running"
    /\ job.state \in {"Created", "Backoff"}
    /\ JobStatusChanges("Active")
    /\ UNCHANGED <<pod, failures>>

PublishEnd ==
    /\ job # NoJob
    /\ job.state \in {"Created", "Active", "Backoff"}
    /\ \/ pod = "succeeded" /\ JobStatusChanges("Complete")
       \/ pod = "failed" /\ failures = BackoffLimit /\ JobStatusChanges("Failed")
    /\ UNCHANGED <<pod, failures>>

PublishRetry ==
    /\ job # NoJob
    /\ job.state \in {"Created", "Active", "Backoff"}
    /\ pod = "failed"
    /\ failures < BackoffLimit
    /\ failures' = failures + 1
    /\ pod' = "none"
    /\ JobStatusChanges("Backoff")

JobController ==
    StartPod \/ PodExits \/ StrayExits
             \/ PublishActive \/ PublishEnd \/ PublishRetry

\* The Node controller writes Node i.  What it does to a Node here is what
\* NodeLife lets it do.
NodeWritten(i, n) ==
    /\ NodeBecomes(i, n)
    /\ w' = IF w = Idle THEN w ELSE [w EXCEPT !.latest = @ \ {i}]
    /\ UNCHANGED <<module, job, lastRun, moduleCache, moduleFresh, jobCache, podVars,
                   queued, counters>>

\* It publishes what Consul says about a Node, if that is news.
NodeReport ==
    \E i \in Listed(nodes), s \in Reports :
        /\ ~Due(nodes[i])
        /\ s # nodes[i].status
        /\ NodeWritten(i, [nodes[i] EXCEPT !.status = s])

\* It deletes a marked Node whose machine is gone.  The deletion may come late
\* and hit a Node created again under the name.
NodeDeleted ==
    \E i \in Listed(nodes) \cap doomed : NodeWritten(i, NoNode)

\* It creates a Node again from an old copy, which may have a mark.
NodeRecreated ==
    \E i \in doomed \ Listed(nodes), marked \in BOOLEAN :
        NodeWritten(i, [NewNode EXCEPT !.marked = marked])

Environment ==
    UpdateSpec \/ JobController \/ NodeReport \/ NodeDeleted \/ NodeRecreated

Next == Reconcile \/ SyncModule \/ SyncJob \/ SyncNodes \/ Restart \/ Environment

Spec == Init /\ [][Next]_vars
-----------------------------------------------------------------------------
(* Properties *)

\* Nothing will happen any more unless the environment moves: the worker is
\* idle, nothing is queued, and the caches have delivered every event.
Quiescent == w = Idle /\ ~queued /\ moduleFresh /\ jobCache = job

\* The controller never goes to sleep too early.  When it is quiescent, the
\* Job ran with the Module's current spec and has ended, the phase is the
\* Job's outcome, the desired replicas are published, and a Completed
\* Module has all its replicas updated: no spec change, Job event or status
\* correction is ever missed, whatever the order of cache updates, conflicts
\* and restarts.  (Reconcile's Result{} at the end of module_controller.go is
\* returned only then.)
Settled ==
    Quiescent =>
        /\ job # NoJob
        /\ job.env = batchEnvVars(module.spec)
        /\ job.state \in {"Complete", "Failed"}
        /\ module.status.phase =
              IF job.state = "Complete" THEN "Completed" ELSE "Failed"
        /\ module.status.replicas = module.spec.replicas
        /\ module.status.phase = "Completed" =>
              module.status.updatedReplicas = module.status.replicas

\* A Module becomes Completed only when the provisioner that was started
\* last ran with exactly the spec now in the API and succeeded: neither an
\* old cached Job nor an old copy of the Module makes it look completed.
CompletedIsEarned ==
    [][ (/\ module.status.phase # "Completed"
         /\ module'.status.phase = "Completed")
        => /\ lastRun # NoJob
           /\ lastRun.env = batchEnvVars(module'.spec)
           /\ lastRun.state = "Complete" ]_vars

\* utils/node.go:13, "in ascending order based on final number of node name":
\* a scale down marks the Nodes with the highest numbers.  No call marks one of
\* those numbered below the Spec.Replicas it works for, which are the ones the
\* provisioner keeps, however old the list and whatever the Node controller
\* deletes, creates or reports between the list and each of the Updates.
MarksHighest ==
    [][ \A i \in Listed(nodes) :
          (/\ ~nodes[i].marked
           /\ nodes'[i] # NoNode
           /\ nodes'[i].marked)
          => i >= w.inst.spec.replicas ]_vars

\* The life of the Node with number i, as the Node controller sees it too.
Life(i) == INSTANCE NodeLife WITH node <- nodes[i], doomed <- (i \in doomed)

\* Whatever is created, marked and skipped here, no Node leads another life than
\* the one the Node controller implements: in particular a scale up creates
\* only Nodes that do not exist and takes no mark back.
ImplementsLife ==
    /\ \A i \in NodeIds : Life(i)!Init
    /\ [][ \A i \in NodeIds :
             \/ Life(i)!Next
             \/ UNCHANGED <<nodes[i], i \in doomed>> ]_nodeVars

-----------------------------------------------------------------------------
(* What comments in the code say and the code does not do *)

\* module_controller.go:234, "Let's be sure there is no job running for the
\* module": two provisioners never run at the same time.
OneProvisioner == ~(strays /\ pod = "running")

\* module_controller.go:477, "Delete extra nodes": once the controller is
\* quiescent, no more nodes than Spec.Replicas are left unmarked.
ExtraNodesMarked ==
    Quiescent =>
        Cardinality({i \in Listed(nodes) : ~nodes[i].marked})
            <= module.spec.replicas

-----------------------------------------------------------------------------
(* Liveness *)

\* The worker, the watches and the Job controller keep going; pods end.
Fairness ==
    /\ WF_vars(Reconcile)
    /\ WF_vars(SyncModule)
    /\ WF_vars(SyncJob)
    /\ WF_vars(SyncNodes)
    /\ WF_vars(StartPod)
    /\ WF_vars(PodExits)
    /\ WF_vars(PublishActive)
    /\ WF_vars(PublishEnd)
    /\ WF_vars(PublishRetry)

LiveSpec == Spec /\ Fairness

\* Whatever happened before, a Job with the Module's current spec comes to
\* exist, again and again: the wait for a running Job, the conflicts and the
\* caches that lag never block the controller for good.
JobCatchesUp ==
    []<>(job # NoJob /\ job.env = batchEnvVars(module.spec))

\* module_controller.go:297 demands that a Completed Module has all replicas
\* updated, but looks at the counts of the previous status.  A Module that is
\* Completed with replicas missing does not stay so: the status write triggers
\* the reconcile that takes it back.
CompletedHasReplicas ==
    module.status.phase = "Completed" =>
        module.status.updatedReplicas = module.status.replicas
FalseCompletedCorrected == ~CompletedHasReplicas ~> CompletedHasReplicas

\* If from some time on the nodes are exactly the replicas the spec wants,
\* healthy and updated, the Module ends up Completed, or Failed, for good.
AllUpdated == /\ Listed(nodes) = 0 .. (module.spec.replicas - 1)
              /\ Listed(nodes) = Updated(module.spec)
Converges == <>[]AllUpdated => <>[](module.status.phase \in {"Completed", "Failed"})
=============================================================================
