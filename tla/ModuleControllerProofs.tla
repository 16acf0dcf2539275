----------------------- MODULE ModuleControllerProofs -----------------------
(***************************************************************************)
(* Theorems about ModuleController, for every value of its constants.      *)
(***************************************************************************)
EXTENDS ModuleController, FiniteSetTheorems, TLAPS

-----------------------------------------------------------------------------
(* Counting nodes *)

\* A set of nodes has at most MaxReplicas members.
LEMMA NodeCount ==
    ASSUME NEW S \in SUBSET NodeIds
    PROVE  /\ IsFiniteSet(S)
           /\ Cardinality(S) \in 0 .. MaxReplicas
<1>1. /\ IsFiniteSet(NodeIds)
      /\ Cardinality(NodeIds) = MaxReplicas
  BY ModuleAssumption, FS_Interval DEF NodeIds
<1>2. /\ IsFiniteSet(S)
      /\ Cardinality(S) <= MaxReplicas
  BY <1>1, FS_Subset
<1>3. Cardinality(S) \in Nat
  BY <1>2, FS_CardinalityType
<1> QED
  BY <1>2, <1>3, ModuleAssumption

\* The replica counts computed by getUpdatedNodes are in range.
LEMMA ReplicaCounts ==
    ASSUME TypeOK, NEW s, NEW a
    PROVE  /\ currentReplicas(s, a) \in 0 .. MaxReplicas
           /\ updatedReplicas(s) \in 0 .. MaxReplicas
<1>1. Healthy(nodesCache) \subseteq NodeIds
  BY DEF TypeOK, Healthy, Listed
<1>2. Updated(s) \subseteq NodeIds
  BY <1>1 DEF Updated
<1> QED
  BY <1>1, <1>2, NodeCount DEF currentReplicas, updatedReplicas

\* The status to be written is a status, whatever the phase.
LEMMA NextStatusType ==
    ASSUME TypeOK, w \in Busy, NEW phase \in Phases
    PROVE  NextStatus(phase) \in ModuleStatus
<1>1. w.inst.spec.replicas \in 0 .. MaxReplicas
  BY ModuleAssumption DEF Busy, Module, ModuleSpec
<1> QED
  BY <1>1, ReplicaCounts DEF NextStatus, ModuleStatus

LEMMA ReportedPhaseType ==
    ASSUME w \in Busy, w.found \in Job
    PROVE  /\ ReportedPhase \in Phases
           /\ retrieveJobStatus(w.found) \in Phases
<1>1. w.found.state \in JobStates
  BY DEF Job
<1>2. retrieveJobStatus(w.found) \in
        {"Pending", "Running", "Completed", "Failed", None}
  <2>1. CASE w.found.state = "Created"
    BY <2>1 DEF retrieveJobStatus
  <2>2. CASE w.found.state = "Active"
    BY <2>2 DEF retrieveJobStatus
  <2>3. CASE w.found.state = "Complete"
    BY <2>3 DEF retrieveJobStatus
  <2>4. CASE w.found.state = "Failed"
    BY <2>4 DEF retrieveJobStatus
  <2>5. CASE w.found.state = "Backoff"
    BY <2>5 DEF retrieveJobStatus
  <2> QED
    BY <1>1, <2>1, <2>2, <2>3, <2>4, <2>5 DEF JobStates
<1> QED
  BY <1>2 DEF ReportedPhase, Phases

LEMMA ActionType ==
    ASSUME NEW s
    PROVE  chooseModuleAction(s) \subseteq Actions
BY DEF chooseModuleAction, Actions
-----------------------------------------------------------------------------
(* Type correctness *)

\* What the copies of the Nodes are worth: the fresh ones are the Nodes
\* themselves, and an Update that will not be refused finds its Node.
CopiesInv ==
    /\ \A i \in nodesFresh : nodesCache[i] = nodes[i]
    /\ w.stage = "mark" => \A i \in w.latest : i \in Listed(nodes)

TypeInv == TypeOK /\ CopiesInv

LEMMA TypeInit == Init => TypeInv
<1> SUFFICES ASSUME Init PROVE TypeInv
  OBVIOUS
<1>1. /\ module \in Module
      /\ moduleCache \in Module
  <2>1. module.status \in ModuleStatus
    BY ModuleAssumption DEF Init, ModuleStatus, Phases
  <2> QED
    BY <2>1 DEF Init, Module
<1>2. /\ 0 \in 0 .. MaxEdits
      /\ 0 \in 0 .. MaxFaults
      /\ 0 \in 0 .. BackoffLimit
  BY ModuleAssumption DEF BackoffLimit
<1>3. TypeOK
  BY <1>1, <1>2 DEF Init, TypeOK
<1> QED
  BY <1>3 DEF Init, TypeInv, CopiesInv, Idle

\* The Job that CreateJob creates.
LEMMA NewJobType ==
    ASSUME w \in Busy
    PROVE  [env |-> batchEnvVars(w.inst.spec),
            command |-> jobCommand(w.action), state |-> "Created"] \in Job
<1>1. jobCommand(w.action) \in Commands
  BY DEF Busy, Actions, jobCommand, Commands
<1>2. batchEnvVars(w.inst.spec) \in JobEnv
  BY DEF Busy, Module, ModuleSpec, batchEnvVars, JobEnv
<1> QED
  BY <1>1, <1>2 DEF Job, JobStates

\* The three outcomes of updateModuleStatus keep the Module well-formed.
LEMMA StatusType ==
    ASSUME TypeOK, w \in Busy, NEW phase \in Phases,
           StatusUnchanged(phase) \/ StatusWritten(phase) \/ StatusRefused(phase)
    PROVE  /\ module' \in Module
           /\ moduleFresh' \in BOOLEAN
           /\ faults' \in 0 .. MaxFaults
<1>1. CASE StatusUnchanged(phase)
  BY <1>1 DEF StatusUnchanged, TypeOK
<1>2. CASE StatusWritten(phase)
  <2>1. NextStatus(phase) \in ModuleStatus
    BY NextStatusType
  <2> QED
    BY <1>2, <2>1 DEF StatusWritten, ModuleChanges, TypeOK, Module
<1>3. CASE StatusRefused(phase)
  BY <1>3, ModuleAssumption DEF StatusRefused, Fault, TypeOK
<1> QED
  BY <1>1, <1>2, <1>3
\* While Reconcile runs, w is one of the busy records.
LEMMA BusyW ==
    ASSUME TypeOK, w # Idle
    PROVE  w \in Busy
BY DEF TypeOK

\* A write of a well-formed Node.
LEMMA NodeBecomesType ==
    ASSUME TypeOK, NEW i \in NodeIds, NEW n \in Node \cup {NoNode},
           NodeBecomes(i, n)
    PROVE  /\ nodes' \in [NodeIds -> Node \cup {NoNode}]
           /\ nodesCache' \in [NodeIds -> Node \cup {NoNode}]
           /\ nodesFresh' \subseteq NodeIds
           /\ doomed' \subseteq NodeIds
           /\ nodes'[i] = n
           /\ \A j \in NodeIds \ {i} : nodes'[j] = nodes[j]
<1>1. nodes' = [nodes EXCEPT ![i] = n]
  BY DEF NodeBecomes
<1>2. /\ nodes' \in [NodeIds -> Node \cup {NoNode}]
      /\ nodes'[i] = n
      /\ \A j \in NodeIds \ {i} : nodes'[j] = nodes[j]
  BY <1>1 DEF TypeOK
<1>3. /\ nodesCache' \in [NodeIds -> Node \cup {NoNode}]
      /\ nodesFresh' \subseteq NodeIds
      /\ doomed' \subseteq NodeIds
  BY DEF NodeBecomes, TypeOK
<1> QED
  BY <1>2, <1>3

\* After it, the copies of the others are still what they were.
LEMMA NodeBecomesCopies ==
    ASSUME TypeInv, NEW i \in NodeIds, NEW n \in Node \cup {NoNode},
           NodeBecomes(i, n)
    PROVE  /\ \A j \in nodesFresh' : nodesCache'[j] = nodes'[j]
           /\ \A j \in Listed(nodes) \ {i} : j \in Listed(nodes')
<1>1. \A j \in NodeIds \ {i} : nodes'[j] = nodes[j]
  BY NodeBecomesType DEF TypeInv
<1>2. nodesFresh' = nodesFresh \ {i} /\ nodesCache' = nodesCache
  BY DEF NodeBecomes
<1>3. nodes' \in [NodeIds -> Node \cup {NoNode}]
  BY NodeBecomesType DEF TypeInv
<1> QED
  BY <1>1, <1>2, <1>3 DEF TypeInv, TypeOK, CopiesInv, Listed

\* The number of replicas a call works for.
LEMMA WantedReplicas ==
    ASSUME w \in Busy
    PROVE  w.inst.spec.replicas \in 0 .. MaxReplicas
<1>1. w.inst.spec.replicas \in Replicas
  BY DEF Busy, Module, ModuleSpec
<1> QED
  BY <1>1, ModuleAssumption

\* The record of a loop that goes on with the next Node or ends.
LEMMA NodeDoneType ==
    ASSUME w \in Busy, w.stage \in {"create", "mark"}, NEW i, NodeDone(i)
    PROVE  /\ w' \in Busy
           /\ w'.stage \in {w.stage, "status"}
           /\ w'.inst = w.inst /\ w'.action = w.action
           /\ w'.found = w.found /\ w'.fresh = w.fresh
           /\ w'.latest = w.latest \ {i}
           /\ w'.todo = w.todo \ {i}
<1> DEFINE next == IF w.todo = {i} THEN "status" ELSE w.stage
<1>1. w' = [w EXCEPT !.stage = next, !.todo = w.todo \ {i},
                     !.latest = w.latest \ {i}]
  BY DEF NodeDone
<1>2. next \in {w.stage, "status"}
  OBVIOUS
<1> HIDE DEF next
<1> QED
  BY <1>1, <1>2 DEF Busy

LEMMA TypeReconcile == TypeInv /\ Reconcile => TypeOK'
<1> SUFFICES ASSUME TypeInv, Reconcile PROVE TypeOK'
  OBVIOUS
<1> USE DEF apiVars, nodeVars, nodeCopies, cacheVars, podVars, counters
<1> USE DEF TypeInv
<1>0. Idle \in {Idle} \cup Busy
  OBVIOUS
<1>1. CASE Fetch
  <2>1. PICK a \in chooseModuleAction(moduleCache.spec) :
          w' = [stage |-> "getJob", inst |-> moduleCache,
                fresh |-> moduleFresh, action |-> a, found |-> NoJob,
                todo |-> {}, latest |-> {}]
    BY <1>1 DEF Fetch
  <2>2. w' \in Busy
    BY <2>1, ActionType DEF TypeOK, Busy
  <2> QED
    BY <1>1, <2>2 DEF Fetch, TypeOK
<1>2. CASE CreateJob
  <2>1. w \in Busy
    BY <1>2, BusyW DEF CreateJob, Idle
  <2>2. job' \in Job
    BY <1>2, <2>1, NewJobType DEF CreateJob
  <2> QED
    BY <1>2, <2>2 DEF CreateJob, ReturnRequeue, TypeOK, BackoffLimit
<1>3. CASE CreateJobFails
  BY <1>3, ModuleAssumption DEF CreateJobFails, Fault, ReturnRequeue, TypeOK
<1>4. CASE JobStillRunning
  BY <1>4 DEF JobStillRunning, ReturnRequeue, TypeOK
<1>5. CASE JobOutdated
  <2>1. w \in Busy
    BY <1>5, BusyW DEF JobOutdated, Idle
  <2>2. w' \in Busy
    BY <1>5, <2>1 DEF JobOutdated, Busy
  <2> QED
    BY <1>5, <2>2 DEF JobOutdated, TypeOK
<1>6. CASE JobUpToDate
  <2>1. w \in Busy
    BY <1>6, BusyW DEF JobUpToDate, Idle
  <2>2. jobCache \in Job
    BY <1>6 DEF JobUpToDate, TypeOK
  <2>3. w' \in Busy
    BY <1>6, <2>1, <2>2 DEF JobUpToDate, Busy
  <2> QED
    BY <1>6, <2>3 DEF JobUpToDate, TypeOK
<1>7. CASE CleanupPods
  <2>1. w \in Busy
    BY <1>7, BusyW DEF CleanupPods, Idle
  <2>2. w' \in Busy
    BY <1>7, <2>1 DEF CleanupPods, Busy
  <2> QED
    BY <1>7, <2>2 DEF CleanupPods, TypeOK
<1>8. CASE DeleteJob
  <2>1. w \in Busy
    BY <1>8, BusyW DEF DeleteJob, Idle
  <2>2. w' \in Busy
    BY <1>8, <2>1 DEF DeleteJob, Busy
  <2> QED
    BY <1>8, <2>2 DEF DeleteJob, TypeOK, BackoffLimit
<1>9. CASE DeleteJobFails
  BY <1>9, ModuleAssumption DEF DeleteJobFails, Fault, ReturnRequeue, TypeOK
<1>10. CASE MarkPending
  <2>1. w \in Busy
    BY <1>10, BusyW DEF MarkPending, Idle
  <2>2. /\ module' \in Module
        /\ moduleFresh' \in BOOLEAN
        /\ faults' \in 0 .. MaxFaults
    BY <1>10, <2>1, StatusType DEF MarkPending, Phases
  <2> QED
    BY <1>10, <2>2 DEF MarkPending, ReturnRequeue, TypeOK
<1>11. CASE MissingNodes
  <2>1. w \in Busy /\ w.stage = "nodes"
    BY <1>11, BusyW DEF MissingNodes, Idle
  <2>2. 0 .. (w.inst.spec.replicas - 1) \subseteq NodeIds
    BY <2>1, WantedReplicas, ModuleAssumption DEF NodeIds
  <2>3. w' = [w EXCEPT !.stage = "create", !.todo = 0 .. (w.inst.spec.replicas - 1)]
    BY <1>11 DEF MissingNodes
  <2>4. w' \in Busy
    BY <2>1, <2>2, <2>3 DEF Busy
  <2> QED
    BY <1>11, <2>4 DEF MissingNodes, TypeOK
<1>12. CASE CreateNode
  <2>1. w \in Busy /\ w.stage = "create"
    BY <1>12, BusyW DEF CreateNode, Idle
  <2>2. PICK i \in w.todo :
          /\ \/ NodeBecomes(i, NewNode)
             \/ UNCHANGED <<nodeVars, nodeCopies>>
          /\ NodeDone(i)
    BY <1>12 DEF CreateNode
  <2>3. w' \in Busy
    BY <2>1, <2>2, NodeDoneType
  <2>4. i \in NodeIds /\ NewNode \in Node \cup {NoNode}
    BY <2>1 DEF Busy, NewNode, Node, ZeroStatus, NodeStatus
  <2>5. /\ nodes' \in [NodeIds -> Node \cup {NoNode}]
        /\ nodesCache' \in [NodeIds -> Node \cup {NoNode}]
        /\ nodesFresh' \subseteq NodeIds
        /\ doomed' \subseteq NodeIds
    <3>1. CASE NodeBecomes(i, NewNode)
      BY <2>4, <3>1, NodeBecomesType
    <3>2. CASE UNCHANGED <<nodeVars, nodeCopies>>
      BY <3>2 DEF TypeOK
    <3> QED
      BY <2>2, <3>1, <3>2
  <2> QED
    BY <1>12, <2>3, <2>5 DEF CreateNode, TypeOK
<1>13. CASE CreateNodeFails
  BY <1>13, ModuleAssumption DEF CreateNodeFails, Fault, ReturnRequeue, TypeOK
<1>14. CASE ExtraNodes
  <2>1. w \in Busy /\ w.stage = "nodes"
    BY <1>14, BusyW DEF ExtraNodes, Idle
  <2>2. PICK T \in Tails(nodesCache, w.inst.spec.replicas, FirstNumber) :
          LET unmarked == {i \in T : ~nodesCache[i].marked}
          IN  w' = [w EXCEPT !.stage = IF unmarked = {} THEN "status" ELSE "mark",
                             !.todo = unmarked,
                             !.latest = unmarked \cap nodesFresh]
    BY <1>14 DEF ExtraNodes
  <2> DEFINE unmarked == {i \in T : ~nodesCache[i].marked}
             next == IF unmarked = {} THEN "status" ELSE "mark"
  <2>3. unmarked \subseteq NodeIds
    BY DEF Tails, Listed, TypeOK
  <2>4. w' = [w EXCEPT !.stage = next, !.todo = unmarked,
                       !.latest = unmarked \cap nodesFresh]
    BY <2>2
  <2>5. next \in {"mark", "status"}
    OBVIOUS
  <2> HIDE DEF unmarked, next
  <2>6. w' \in Busy
    BY <2>1, <2>3, <2>4, <2>5 DEF Busy
  <2> QED
    BY <1>14, <2>6 DEF ExtraNodes, TypeOK
<1>18. CASE MarkNode
  <2>1. w \in Busy /\ w.stage = "mark"
    BY <1>18, BusyW DEF MarkNode, Idle
  <2>2. PICK i \in w.todo :
          /\ \/ /\ i \in w.latest
                /\ NodeBecomes(i, [nodes[i] EXCEPT !.marked = TRUE])
                /\ UNCHANGED faults
             \/ /\ UNCHANGED faults \/ Fault
                /\ UNCHANGED <<nodeVars, nodeCopies>>
          /\ NodeDone(i)
    BY <1>18 DEF MarkNode
  <2>3. w' \in Busy
    BY <2>1, <2>2, NodeDoneType
  <2>4. i \in NodeIds
    BY <2>1 DEF Busy
  <2>5. faults' \in 0 .. MaxFaults
    BY <2>2, ModuleAssumption DEF Fault, TypeOK
  <2>6. /\ nodes' \in [NodeIds -> Node \cup {NoNode}]
        /\ nodesCache' \in [NodeIds -> Node \cup {NoNode}]
        /\ nodesFresh' \subseteq NodeIds
        /\ doomed' \subseteq NodeIds
    <3>1. CASE i \in w.latest /\ NodeBecomes(i, [nodes[i] EXCEPT !.marked = TRUE])
      <4>1. nodes[i] \in Node
        BY <2>1, <2>4, <3>1 DEF CopiesInv, Listed, TypeOK
      <4>2. [nodes[i] EXCEPT !.marked = TRUE] \in Node \cup {NoNode}
        BY <4>1 DEF Node
      <4> QED
        BY <2>4, <3>1, <4>2, NodeBecomesType
    <3>2. CASE UNCHANGED <<nodeVars, nodeCopies>>
      BY <3>2 DEF TypeOK
    <3> QED
      BY <2>2, <3>1, <3>2
  <2> QED
    BY <1>18, <2>3, <2>5, <2>6 DEF MarkNode, TypeOK
<1>15. CASE EnoughNodes
  <2>1. w \in Busy
    BY <1>15, BusyW DEF EnoughNodes, Idle
  <2>2. w' \in Busy
    BY <1>15, <2>1 DEF EnoughNodes, Busy
  <2> QED
    BY <1>15, <2>2 DEF EnoughNodes, TypeOK
<1>16. CASE JobStatusUnknown
  BY <1>16 DEF JobStatusUnknown, ReturnRequeue, TypeOK
<1>17. CASE PublishStatus
  <2>1. w \in Busy
    BY <1>17, BusyW DEF PublishStatus, Idle
  <2>2. w.found \in Job
    BY <1>17, <2>1 DEF PublishStatus, Busy
  <2>3. ReportedPhase \in Phases
    BY <2>1, <2>2, ReportedPhaseType
  <2>4. /\ module' \in Module
        /\ moduleFresh' \in BOOLEAN
        /\ faults' \in 0 .. MaxFaults
    BY <1>17, <2>1, <2>3, StatusType DEF PublishStatus
  <2>5. w' = Idle /\ queued' \in BOOLEAN
    BY <1>17 DEF PublishStatus, ReturnRequeue, ReturnDone, TypeOK
  <2> QED
    BY <1>17, <2>4, <2>5 DEF PublishStatus, TypeOK
<1> QED
  BY <1>1, <1>2, <1>3, <1>4, <1>5, <1>6, <1>7, <1>8, <1>9, <1>10, <1>11,
     <1>12, <1>13, <1>14, <1>15, <1>16, <1>17, <1>18 DEF Reconcile

LEMMA TypeEnvironment ==
    TypeOK /\ (SyncModule \/ SyncJob \/ SyncNodes \/ Restart \/ Environment) => TypeOK'
<1> SUFFICES ASSUME TypeOK,
                    SyncModule \/ SyncJob \/ SyncNodes \/ Restart \/ Environment
             PROVE  TypeOK'
  OBVIOUS
<1> USE DEF apiVars, nodeVars, nodeCopies, cacheVars, podVars, counters
<1>1. CASE SyncModule
  BY <1>1 DEF SyncModule, TypeOK
<1>2. CASE SyncJob
  BY <1>2 DEF SyncJob, TypeOK
<1>3. CASE Restart
  BY <1>3, ModuleAssumption DEF Restart, Fault, ReturnRequeue, TypeOK
<1>4. CASE UpdateSpec
  <2>1. PICK s \in ModuleSpec : module' = [module EXCEPT !.spec = s]
    BY <1>4 DEF UpdateSpec, ModuleChanges
  <2>2. module' \in Module
    BY <2>1 DEF TypeOK, Module
  <2>3. w' \in {Idle} \cup Busy
    BY <1>4 DEF UpdateSpec, TypeOK, Busy
  <2>4. edits' \in 0 .. MaxEdits
    BY <1>4, ModuleAssumption DEF UpdateSpec, TypeOK
  <2> QED
    BY <1>4, <2>2, <2>3, <2>4 DEF UpdateSpec, ModuleChanges, TypeOK
<1>5. ASSUME NEW state \in JobStates, JobStatusChanges(state)
      PROVE  job' \in Job
  BY <1>5 DEF JobStatusChanges, TypeOK, Job
<1>6. CASE JobController
  <2>1. CASE StartPod
    BY <1>6, <2>1 DEF StartPod, TypeOK
  <2>2. CASE PodExits
    BY <1>6, <2>2 DEF PodExits, TypeOK
  <2>3. CASE StrayExits
    BY <1>6, <2>3 DEF StrayExits, TypeOK
  <2>4. CASE PublishActive
    <3>1. job' \in Job
      BY <1>5, <2>4 DEF PublishActive, JobStates
    <3> QED
      BY <2>4, <3>1 DEF PublishActive, JobStatusChanges, TypeOK
  <2>5. CASE PublishEnd
    <3>1. job' \in Job
      BY <1>5, <2>5 DEF PublishEnd, JobStates
    <3> QED
      BY <2>5, <3>1 DEF PublishEnd, JobStatusChanges, TypeOK
  <2>6. CASE PublishRetry
    <3>1. job' \in Job
      BY <1>5, <2>6 DEF PublishRetry, JobStates
    <3> QED
      BY <2>6, <3>1
         DEF PublishRetry, JobStatusChanges, TypeOK, BackoffLimit
  <2> QED
    BY <1>6, <2>1, <2>2, <2>3, <2>4, <2>5, <2>6 DEF JobController
<1>10. CASE SyncNodes
  BY <1>10 DEF SyncNodes, TypeOK
<1>11. ASSUME NEW i \in NodeIds, NEW n \in Node \cup {NoNode}, NodeWritten(i, n)
       PROVE  TypeOK'
  <2>1. /\ nodes' \in [NodeIds -> Node \cup {NoNode}]
        /\ nodesCache' \in [NodeIds -> Node \cup {NoNode}]
        /\ nodesFresh' \subseteq NodeIds
        /\ doomed' \subseteq NodeIds
    BY <1>11, NodeBecomesType DEF NodeWritten
  <2>2. w' \in {Idle} \cup Busy
    <3>1. CASE w = Idle
      BY <1>11, <3>1 DEF NodeWritten
    <3>2. CASE w # Idle
      <4>1. w \in Busy /\ w' = [w EXCEPT !.latest = w.latest \ {i}]
        BY <1>11, <3>2, BusyW DEF NodeWritten
      <4> QED
        BY <4>1 DEF Busy
    <3> QED
      BY <3>1, <3>2
  <2> QED
    BY <1>11, <2>1, <2>2 DEF NodeWritten, TypeOK
<1>7. CASE NodeReport
  <2>1. PICK i \in Listed(nodes), s \in Reports :
          NodeWritten(i, [nodes[i] EXCEPT !.status = s])
    BY <1>7 DEF NodeReport
  <2>2. i \in NodeIds /\ nodes[i] \in Node
    BY <2>1 DEF Listed, TypeOK
  <2>3. [nodes[i] EXCEPT !.status = s] \in Node
    BY <2>1, <2>2, ModuleAssumption DEF Node
  <2> QED
    BY <1>11, <2>1, <2>2, <2>3
<1>8. CASE NodeDeleted
  <2>1. PICK i \in Listed(nodes) : NodeWritten(i, NoNode)
    BY <1>8 DEF NodeDeleted
  <2>2. i \in NodeIds
    BY <2>1 DEF Listed, TypeOK
  <2> QED
    BY <1>11, <2>1, <2>2
<1>9. CASE NodeRecreated
  <2>1. PICK i \in NodeIds, marked \in BOOLEAN :
          NodeWritten(i, [NewNode EXCEPT !.marked = marked])
    BY <1>9 DEF NodeRecreated, TypeOK
  <2>2. [NewNode EXCEPT !.marked = marked] \in Node
    BY DEF NewNode, Node, ZeroStatus, NodeStatus
  <2> QED
    BY <1>11, <2>1, <2>2
<1> QED
  BY <1>1, <1>2, <1>3, <1>4, <1>6, <1>10, <1>7, <1>8, <1>9 DEF Environment

\* The steps that leave the Nodes and their copies alone.
LEMMA CopiesKept ==
    ASSUME TypeInv, UNCHANGED <<nodes, nodesCache, nodesFresh>>,
           w'.stage = "mark" => w.stage = "mark" /\ w'.latest \subseteq w.latest
    PROVE  CopiesInv'
BY DEF TypeInv, CopiesInv, Listed

LEMMA CopiesReconcile == TypeInv /\ Reconcile => CopiesInv'
<1> SUFFICES ASSUME TypeInv, Reconcile PROVE CopiesInv'
  OBVIOUS
<1> USE DEF apiVars, nodeVars, nodeCopies, cacheVars
<1>1. CASE \/ CreateJob \/ CreateJobFails \/ JobStillRunning \/ DeleteJobFails
          \/ CreateNodeFails \/ JobStatusUnknown \/ MarkPending \/ PublishStatus
  <2>1. w'.stage = "idle"
    BY <1>1 DEF CreateJob, CreateJobFails, JobStillRunning, DeleteJobFails,
                CreateNodeFails, JobStatusUnknown, MarkPending, PublishStatus,
                ReturnRequeue, ReturnDone, Idle
  <2>2. UNCHANGED <<nodes, nodesCache, nodesFresh>>
    BY <1>1 DEF CreateJob, CreateJobFails, JobStillRunning, DeleteJobFails,
                CreateNodeFails, JobStatusUnknown, MarkPending, PublishStatus
  <2> QED
    BY <2>1, <2>2, CopiesKept
<1>2. CASE Fetch
  <2>1. w'.stage = "getJob" /\ UNCHANGED <<nodes, nodesCache, nodesFresh>>
    BY <1>2 DEF Fetch
  <2> QED
    BY <2>1, CopiesKept
<1>3. CASE \/ JobOutdated \/ JobUpToDate \/ CleanupPods \/ DeleteJob
          \/ MissingNodes \/ EnoughNodes
  <2>1. w.stage # "idle"
    BY <1>3 DEF JobOutdated, JobUpToDate, CleanupPods, DeleteJob, MissingNodes,
                EnoughNodes
  <2>2. w \in Busy
    BY <2>1, BusyW DEF TypeInv, Idle
  <2>3. w'.stage # "mark"
    <3>1. CASE JobOutdated
      BY <2>2, <3>1 DEF JobOutdated, Busy
    <3>2. CASE JobUpToDate
      BY <2>2, <3>2 DEF JobUpToDate, Busy
    <3>3. CASE CleanupPods
      BY <2>2, <3>3 DEF CleanupPods, Busy
    <3>4. CASE DeleteJob
      BY <2>2, <3>4 DEF DeleteJob, Busy
    <3>5. CASE MissingNodes
      BY <2>2, <3>5 DEF MissingNodes, Busy
    <3>6. CASE EnoughNodes
      BY <2>2, <3>6 DEF EnoughNodes, Busy
    <3> QED
      BY <1>3, <3>1, <3>2, <3>3, <3>4, <3>5, <3>6
  <2>4. UNCHANGED <<nodes, nodesCache, nodesFresh>>
    BY <1>3 DEF JobOutdated, JobUpToDate, CleanupPods, DeleteJob, MissingNodes,
                EnoughNodes
  <2> QED
    BY <2>3, <2>4, CopiesKept
<1>4. CASE ExtraNodes
  <2>1. w \in Busy
    BY <1>4, BusyW DEF ExtraNodes, Idle, TypeInv
  <2>2. PICK T \in Tails(nodesCache, w.inst.spec.replicas, FirstNumber) :
          w'.latest = {i \in T : ~nodesCache[i].marked} \cap nodesFresh
    BY <1>4, <2>1 DEF ExtraNodes, Busy
  <2>3. UNCHANGED <<nodes, nodesCache, nodesFresh>>
    BY <1>4 DEF ExtraNodes
  <2>4. T \subseteq Listed(nodesCache)
    BY DEF Tails
  <2>5. \A i \in w'.latest : i \in Listed(nodes')
    BY <2>2, <2>3, <2>4 DEF TypeInv, TypeOK, CopiesInv, Listed
  <2> QED
    BY <2>3, <2>5 DEF TypeInv, CopiesInv
<1>5. CASE CreateNode
  <2>1. w \in Busy /\ w.stage = "create"
    BY <1>5, BusyW DEF CreateNode, Idle, TypeInv
  <2>2. PICK i \in w.todo :
          /\ \/ NodeBecomes(i, NewNode)
             \/ UNCHANGED <<nodeVars, nodeCopies>>
          /\ NodeDone(i)
    BY <1>5 DEF CreateNode
  <2>3. w'.stage # "mark"
    BY <2>1, <2>2, NodeDoneType
  <2>4. i \in NodeIds /\ NewNode \in Node \cup {NoNode}
    BY <2>1 DEF Busy, NewNode, Node, ZeroStatus, NodeStatus
  <2>5. CASE NodeBecomes(i, NewNode)
    BY <2>3, <2>4, <2>5, NodeBecomesCopies DEF CopiesInv
  <2>6. CASE UNCHANGED <<nodeVars, nodeCopies>>
    BY <2>3, <2>6, CopiesKept
  <2> QED
    BY <2>2, <2>5, <2>6
<1>6. CASE MarkNode
  <2>1. w \in Busy /\ w.stage = "mark"
    BY <1>6, BusyW DEF MarkNode, Idle, TypeInv
  <2>2. PICK i \in w.todo :
          /\ \/ /\ i \in w.latest
                /\ NodeBecomes(i, [nodes[i] EXCEPT !.marked = TRUE])
             \/ UNCHANGED <<nodeVars, nodeCopies>>
          /\ NodeDone(i)
    BY <1>6 DEF MarkNode
  <2>3. w'.latest = w.latest \ {i}
    BY <2>1, <2>2, NodeDoneType
  <2>4. i \in NodeIds
    BY <2>1 DEF Busy
  <2>5. CASE /\ i \in w.latest
             /\ NodeBecomes(i, [nodes[i] EXCEPT !.marked = TRUE])
    <3>1. nodes[i] \in Node
      BY <2>1, <2>4, <2>5 DEF TypeInv, CopiesInv, Listed, TypeOK
    <3>2. [nodes[i] EXCEPT !.marked = TRUE] \in Node \cup {NoNode}
      BY <3>1 DEF Node
    <3>3. /\ \A j \in nodesFresh' : nodesCache'[j] = nodes'[j]
          /\ \A j \in Listed(nodes) \ {i} : j \in Listed(nodes')
      BY <2>4, <2>5, <3>2, NodeBecomesCopies
    <3>4. \A j \in w'.latest : j \in Listed(nodes) \ {i}
      BY <2>1, <2>3 DEF TypeInv, CopiesInv
    <3> QED
      BY <3>3, <3>4 DEF CopiesInv
  <2>6. CASE UNCHANGED <<nodeVars, nodeCopies>>
    BY <2>1, <2>3, <2>6, CopiesKept
  <2> QED
    BY <2>2, <2>5, <2>6
<1> QED
  BY <1>1, <1>2, <1>3, <1>4, <1>5, <1>6 DEF Reconcile

LEMMA CopiesEnvironment ==
    /\ TypeInv
    /\ SyncModule \/ SyncJob \/ SyncNodes \/ Restart \/ Environment
    => CopiesInv'
<1> SUFFICES ASSUME TypeInv,
                    SyncModule \/ SyncJob \/ SyncNodes \/ Restart \/ Environment
             PROVE  CopiesInv'
  OBVIOUS
<1> USE DEF apiVars, nodeVars, nodeCopies, cacheVars
<1>1. CASE SyncModule \/ SyncJob \/ JobController
  <2>1. UNCHANGED <<nodes, nodesCache, nodesFresh, w>>
    BY <1>1 DEF SyncModule, SyncJob, JobController, StartPod, PodExits,
                StrayExits, PublishActive, PublishEnd, PublishRetry,
                JobStatusChanges
  <2> QED
    BY <2>1, CopiesKept
<1>2. CASE SyncNodes
  BY <1>2 DEF SyncNodes, TypeInv, CopiesInv, Listed
<1>3. CASE Restart
  <2>1. w'.stage = "idle"
    BY <1>3 DEF Restart, ReturnRequeue, Idle
  <2> QED
    BY <1>3, <2>1 DEF Restart, TypeInv, CopiesInv, Listed
<1>4. CASE UpdateSpec
  <2>1. UNCHANGED <<nodes, nodesCache, nodesFresh>>
    BY <1>4 DEF UpdateSpec
  <2>2. CASE w = Idle
    BY <1>4, <2>1, <2>2, CopiesKept DEF UpdateSpec
  <2>3. CASE w # Idle
    <3>1. w \in Busy /\ w' = [w EXCEPT !.fresh = FALSE]
      BY <1>4, <2>3, BusyW DEF UpdateSpec, TypeInv
    <3>2. w'.stage = w.stage /\ w'.latest = w.latest
      BY <3>1 DEF Busy
    <3> QED
      BY <2>1, <3>2, CopiesKept
  <2> QED
    BY <2>2, <2>3
<1>5. ASSUME NEW i \in NodeIds, NEW n \in Node \cup {NoNode}, NodeWritten(i, n)
      PROVE  CopiesInv'
  <2>1. /\ \A j \in nodesFresh' : nodesCache'[j] = nodes'[j]
        /\ \A j \in Listed(nodes) \ {i} : j \in Listed(nodes')
    BY <1>5, NodeBecomesCopies DEF NodeWritten
  <2>2. w'.stage = "mark" => /\ w.stage = "mark"
                             /\ w'.latest = w.latest \ {i}
    <3>1. CASE w = Idle
      BY <1>5, <3>1 DEF NodeWritten, Idle
    <3>2. CASE w # Idle
      <4>1. w \in Busy /\ w' = [w EXCEPT !.latest = w.latest \ {i}]
        BY <1>5, <3>2, BusyW DEF NodeWritten, TypeInv
      <4> QED
        BY <4>1 DEF Busy
    <3> QED
      BY <3>1, <3>2
  <2> QED
    BY <2>1, <2>2 DEF TypeInv, CopiesInv
<1>6. CASE NodeReport
  <2>1. PICK i \in Listed(nodes), s \in Reports :
          NodeWritten(i, [nodes[i] EXCEPT !.status = s])
    BY <1>6 DEF NodeReport
  <2>2. i \in NodeIds /\ nodes[i] \in Node
    BY <2>1 DEF Listed, TypeInv, TypeOK
  <2>3. [nodes[i] EXCEPT !.status = s] \in Node
    BY <2>1, <2>2, ModuleAssumption DEF Node
  <2> QED
    BY <1>5, <2>1, <2>2, <2>3
<1>7. CASE NodeDeleted
  <2>1. PICK i \in Listed(nodes) : NodeWritten(i, NoNode)
    BY <1>7 DEF NodeDeleted
  <2>2. i \in NodeIds
    BY <2>1 DEF Listed, TypeInv, TypeOK
  <2> QED
    BY <1>5, <2>1, <2>2
<1>8. CASE NodeRecreated
  <2>1. PICK i \in NodeIds, marked \in BOOLEAN :
          NodeWritten(i, [NewNode EXCEPT !.marked = marked])
    BY <1>8 DEF NodeRecreated, TypeInv, TypeOK
  <2>2. [NewNode EXCEPT !.marked = marked] \in Node
    BY DEF NewNode, Node, ZeroStatus, NodeStatus
  <2> QED
    BY <1>5, <2>1, <2>2
<1> QED
  BY <1>1, <1>2, <1>3, <1>4, <1>6, <1>7, <1>8 DEF Environment

LEMMA TypeInductive == Spec => []TypeInv
<1>1. TypeInv /\ UNCHANGED vars => TypeInv'
  BY DEF vars, apiVars, nodeVars, nodeCopies, cacheVars, podVars, counters,
         TypeInv, TypeOK, CopiesInv, Listed
<1>2. TypeInv /\ [Next]_vars => TypeInv'
  BY <1>1, TypeReconcile, TypeEnvironment, CopiesReconcile, CopiesEnvironment
     DEF Next, TypeInv
<1> QED
  BY TypeInit, <1>2, PTL DEF Spec

\* Every variable keeps to its type: whatever the API refuses, whenever the
\* manager restarts and whatever the environment does.
THEOREM TypeCorrect == Spec => []TypeOK
<1>1. TypeInv => TypeOK
  BY DEF TypeInv
<1> QED
  BY <1>1, TypeInductive, PTL
-----------------------------------------------------------------------------
(* The controller never sleeps too early *)

\* Settled is not inductive: it says nothing of a worker at work, nor of a
\* cache that has not seen the last events.  The strengthening says what the
\* worker's copies are worth at each stage, and, when the Module is not
\* queued, relates the Module's status to the cached Job, which only a watch
\* event that enqueues the Module can change.

\* The cached copy of the Module is the latest one when it is said to be.
CacheInv == moduleFresh => moduleCache = module

\* A copy the worker may write is the latest one; unless an event came in,
\* the worker's copies are those of the caches.
WorkerInv ==
    w # Idle =>
        /\ w.fresh => w.inst = module
        /\ (~queued /\ moduleFresh) => w.fresh
        /\ w.stage \in {"nodes", "create", "mark", "status"} =>
              /\ w.found.env = batchEnvVars(w.inst.spec)
              /\ ~queued => w.found = jobCache

\* The Module is asleep: only a watch event will bring the worker back.
Asleep == w = Idle /\ ~queued /\ moduleFresh

AsleepInv ==
    Asleep =>
        /\ jobCache # NoJob
        /\ jobCache.env = batchEnvVars(module.spec)
        /\ jobCache.state \in {"Complete", "Failed"}
        /\ module.status.phase =
              IF jobCache.state = "Complete" THEN "Completed" ELSE "Failed"
        /\ module.status.replicas = module.spec.replicas
        /\ module.status.phase = "Completed" =>
              module.status.updatedReplicas = module.status.replicas

SettledInv == TypeInv /\ CacheInv /\ WorkerInv /\ AsleepInv

\* The steps of manageNodesForModule keep the variables of the call.
LEMMA NodeStage ==
    ASSUME w \in Busy,
           MissingNodes \/ CreateNode \/ ExtraNodes \/ MarkNode \/ EnoughNodes
    PROVE  /\ w'.stage \in {"create", "mark", "status"}
           /\ w'.inst = w.inst
           /\ w'.found = w.found
           /\ w'.fresh = w.fresh
<1>1. CASE MissingNodes
  BY <1>1 DEF MissingNodes, Busy
<1>2. CASE CreateNode
  BY <1>2, NodeDoneType DEF CreateNode
<1>3. CASE ExtraNodes
  <2>1. \E next \in {"mark", "status"} : \E todo, latest :
          w' = [w EXCEPT !.stage = next, !.todo = todo, !.latest = latest]
    BY <1>3 DEF ExtraNodes
  <2> QED
    BY <2>1 DEF Busy
<1>4. CASE MarkNode
  BY <1>4, NodeDoneType DEF MarkNode
<1>5. CASE EnoughNodes
  BY <1>5 DEF EnoughNodes, Busy
<1> QED
  BY <1>1, <1>2, <1>3, <1>4, <1>5

\* A write of the Node controller leaves the call where it is.
LEMMA NodeWrittenStage ==
    ASSUME TypeOK, NEW i, NEW n, NodeWritten(i, n)
    PROVE  /\ w' = Idle <=> w = Idle
           /\ w = Idle => w' = w
           /\ w # Idle => /\ w'.stage = w.stage /\ w'.inst = w.inst
                          /\ w'.found = w.found /\ w'.fresh = w.fresh
<1>1. CASE w = Idle
  BY <1>1 DEF NodeWritten
<1>2. CASE w # Idle
  <2>1. w \in Busy /\ w' = [w EXCEPT !.latest = w.latest \ {i}]
    BY <1>2, BusyW DEF NodeWritten
  <2>2. /\ w'.stage = w.stage /\ w'.inst = w.inst
        /\ w'.found = w.found /\ w'.fresh = w.fresh
        /\ w.stage # "idle"
    BY <2>1 DEF Busy
  <2>3. w' # Idle
    BY <2>2 DEF Idle
  <2> QED
    BY <1>2, <2>2, <2>3
<1> QED
  BY <1>1, <1>2

LEMMA SettledInit == Init => SettledInv
<1> SUFFICES ASSUME Init PROVE SettledInv
  OBVIOUS
<1>1. TypeInv
  BY TypeInit
<1> QED
  BY <1>1 DEF Init, SettledInv, CacheInv, WorkerInv, AsleepInv, Asleep

\* A step that leaves the Module queued and the worker idle.
LEMMA Requeued ==
    ASSUME SettledInv, ReturnRequeue, TypeInv', CacheInv'
    PROVE  SettledInv'
BY DEF SettledInv, ReturnRequeue, WorkerInv, AsleepInv, Asleep

\* What the outcomes of updateModuleStatus do to the cached copy.
LEMMA StatusCache ==
    ASSUME CacheInv, UNCHANGED moduleCache, NEW phase,
           StatusUnchanged(phase) \/ StatusWritten(phase) \/ StatusRefused(phase)
    PROVE  CacheInv'
BY DEF CacheInv, StatusUnchanged, StatusWritten, StatusRefused, ModuleChanges

\* Reconcile returns Result{} with a status it did not write: the status is
\* final and is the outcome of the cached Job.
LEMMA PublishDone ==
    ASSUME SettledInv, PublishStatus, ReturnDone,
           StatusUnchanged(ReportedPhase),
           ReportedPhase \notin {"Pending", "Running"}
    PROVE  AsleepInv'
<1> SUFFICES ASSUME Asleep' PROVE AsleepInv'
  BY DEF AsleepInv
<1>1. /\ ~queued /\ moduleFresh
      /\ UNCHANGED <<module, jobCache>>
  BY DEF Asleep, ReturnDone, StatusUnchanged, PublishStatus
<1>2. /\ w # Idle
      /\ w \in Busy
      /\ w.found \in Job
      /\ w.stage = "status"
  <2>1. w.stage = "status" /\ w # Idle
    BY DEF PublishStatus, Idle
  <2>2. w \in Busy
    BY <2>1, BusyW DEF SettledInv, TypeInv
  <2>3. w.found \in Job
    BY <2>1, <2>2 DEF Busy
  <2> QED
    BY <2>1, <2>2, <2>3
<1>3. /\ w.inst = module
      /\ w.found = jobCache
      /\ w.found.env = batchEnvVars(module.spec)
  BY <1>1, <1>2 DEF SettledInv, WorkerInv
<1>4. /\ module.status.phase = ReportedPhase
      /\ module.status.replicas = module.spec.replicas
  BY <1>3 DEF StatusUnchanged, NextStatus
<1>5. w.found.state \in JobStates
  BY <1>2 DEF Job
<1>6. /\ ReportedPhase = retrieveJobStatus(w.found)
      /\ ReportedPhase = "Completed" =>
            w.inst.status.updatedReplicas = w.inst.status.replicas
  BY DEF ReportedPhase
<1>7. ReportedPhase # None
  BY <1>6 DEF PublishStatus
<1>8. \/ w.found.state = "Complete" /\ ReportedPhase = "Completed"
      \/ w.found.state = "Failed" /\ ReportedPhase = "Failed"
  <2>1. CASE w.found.state = "Created"
    BY <1>6, <2>1 DEF retrieveJobStatus
  <2>2. CASE w.found.state = "Active"
    BY <1>6, <2>2 DEF retrieveJobStatus
  <2>3. CASE w.found.state = "Complete"
    BY <1>6, <2>3 DEF retrieveJobStatus
  <2>4. CASE w.found.state = "Failed"
    BY <1>6, <2>4 DEF retrieveJobStatus
  <2>5. CASE w.found.state = "Backoff"
    BY <1>6, <1>7, <2>5 DEF retrieveJobStatus
  <2> QED
    BY <1>5, <2>1, <2>2, <2>3, <2>4, <2>5 DEF JobStates
<1>9. jobCache # NoJob
  BY <1>2, <1>3, ModuleAssumption
<1> QED
  BY <1>1, <1>3, <1>4, <1>6, <1>8, <1>9 DEF AsleepInv

LEMMA SettledReconcile == SettledInv /\ Reconcile => SettledInv'
<1> SUFFICES ASSUME SettledInv, Reconcile PROVE SettledInv'
  OBVIOUS
<1> USE DEF apiVars, nodeVars, nodeCopies, cacheVars, podVars, counters
<1>0. TypeInv'
  BY TypeReconcile, CopiesReconcile DEF SettledInv, TypeInv
<1>1. CASE Fetch
  <2>1. PICK a :
          w' = [stage |-> "getJob", inst |-> moduleCache,
                fresh |-> moduleFresh, action |-> a, found |-> NoJob,
                todo |-> {}, latest |-> {}]
    BY <1>1 DEF Fetch
  <2> QED
    BY <1>0, <1>1, <2>1
       DEF Fetch, SettledInv, CacheInv, WorkerInv, AsleepInv, Asleep, Idle
<1>2. CASE CreateJob \/ CreateJobFails \/ JobStillRunning \/ DeleteJobFails
           \/ CreateNodeFails \/ JobStatusUnknown
  <2>1. ReturnRequeue
    BY <1>2 DEF CreateJob, CreateJobFails, JobStillRunning, DeleteJobFails,
                CreateNodeFails, JobStatusUnknown
  <2>2. UNCHANGED <<module, moduleCache, moduleFresh>>
    BY <1>2 DEF CreateJob, CreateJobFails, JobStillRunning, DeleteJobFails,
                CreateNodeFails, JobStatusUnknown
  <2>3. CacheInv'
    BY <2>2 DEF SettledInv, CacheInv
  <2> QED
    BY <1>0, <2>1, <2>3, Requeued
<1>3. CASE JobUpToDate
  <2>1. /\ w # Idle
        /\ w' = [w EXCEPT !.stage = "nodes", !.found = jobCache]
        /\ jobCache.env = batchEnvVars(w.inst.spec)
    BY <1>3 DEF JobUpToDate, JobDiffers, Idle
  <2>2. w \in Busy
    BY <2>1, BusyW DEF SettledInv, TypeInv
  <2>3. /\ w'.stage = "nodes"
        /\ w'.found = jobCache
        /\ w'.inst = w.inst
        /\ w'.fresh = w.fresh
    BY <2>1, <2>2 DEF Busy
  <2>4. w' # Idle
    BY <2>3 DEF Idle
  <2> QED
    BY <1>0, <1>3, <2>1, <2>3, <2>4
       DEF JobUpToDate, SettledInv, CacheInv, WorkerInv, AsleepInv, Asleep
<1>4. CASE JobOutdated \/ CleanupPods \/ DeleteJob
  <2>1. /\ w # Idle
        /\ \E stage \in {"cleanup", "deleteJob", "pending"} :
              w' = [w EXCEPT !.stage = stage]
        /\ UNCHANGED <<module, moduleCache, moduleFresh, jobCache, queued>>
    <3>1. CASE JobOutdated
      BY <3>1 DEF JobOutdated, Idle
    <3>2. CASE CleanupPods
      BY <3>2 DEF CleanupPods, Idle
    <3>3. CASE DeleteJob
      BY <3>3 DEF DeleteJob, Idle
    <3> QED
      BY <1>4, <3>1, <3>2, <3>3
  <2>2. w \in Busy
    BY <2>1, BusyW DEF SettledInv, TypeInv
  <2>3. /\ w'.stage \in {"cleanup", "deleteJob", "pending"}
        /\ w'.inst = w.inst
        /\ w'.fresh = w.fresh
    BY <2>1, <2>2 DEF Busy
  <2>4. w' # Idle
    BY <2>3 DEF Idle
  <2> QED
    BY <1>0, <2>1, <2>3, <2>4
       DEF SettledInv, CacheInv, WorkerInv, AsleepInv, Asleep
<1>5. CASE MarkPending
  <2>1. ReturnRequeue /\ UNCHANGED moduleCache
    BY <1>5 DEF MarkPending
  <2>2. CacheInv'
    BY <1>5, <2>1, StatusCache DEF MarkPending, SettledInv
  <2> QED
    BY <1>0, <2>1, <2>2, Requeued
<1>6. CASE MissingNodes \/ CreateNode \/ ExtraNodes \/ MarkNode \/ EnoughNodes
  <2>1. /\ w.stage \in {"nodes", "create", "mark"}
        /\ UNCHANGED <<module, moduleCache, moduleFresh, jobCache, queued>>
    BY <1>6 DEF MissingNodes, CreateNode, ExtraNodes, MarkNode, EnoughNodes
  <2>2. w \in Busy /\ w # Idle
    BY <2>1, BusyW DEF SettledInv, TypeInv, Idle
  <2>3. /\ w'.stage \in {"create", "mark", "status"}
        /\ w'.inst = w.inst
        /\ w'.found = w.found
        /\ w'.fresh = w.fresh
    BY <1>6, <2>2, NodeStage
  <2>4. w' # Idle
    BY <2>3 DEF Idle
  <2> QED
    BY <1>0, <2>1, <2>2, <2>3, <2>4
       DEF SettledInv, CacheInv, WorkerInv, AsleepInv, Asleep
<1>7. CASE PublishStatus
  <2>1. CacheInv'
    BY <1>7, StatusCache DEF PublishStatus, SettledInv
  <2>2. CASE ReturnRequeue
    BY <1>0, <2>1, <2>2, Requeued
  <2>3. CASE ~ReturnRequeue
    <3>1. /\ ReturnDone
          /\ ReportedPhase \notin {"Pending", "Running"}
          /\ \/ StatusUnchanged(ReportedPhase)
             \/ StatusWritten(ReportedPhase)
      BY <1>7, <2>3 DEF PublishStatus
    <3>2. WorkerInv'
      BY <3>1 DEF WorkerInv, ReturnDone
    <3>3. CASE StatusUnchanged(ReportedPhase)
      BY <1>0, <1>7, <2>1, <3>1, <3>2, <3>3, PublishDone DEF SettledInv
    <3>4. CASE StatusWritten(ReportedPhase)
      BY <1>0, <2>1, <3>2, <3>4
         DEF SettledInv, AsleepInv, Asleep, StatusWritten, ModuleChanges
    <3> QED
      BY <3>1, <3>3, <3>4
  <2> QED
    BY <2>2, <2>3
<1> QED
  BY <1>1, <1>2, <1>3, <1>4, <1>5, <1>6, <1>7 DEF Reconcile

LEMMA SettledEnvironment ==
    SettledInv /\ (SyncModule \/ SyncJob \/ SyncNodes \/ Restart \/ Environment) => SettledInv'
<1> SUFFICES ASSUME SettledInv,
                    SyncModule \/ SyncJob \/ SyncNodes \/ Restart \/ Environment
             PROVE  SettledInv'
  OBVIOUS
<1> USE DEF apiVars, nodeVars, nodeCopies, cacheVars, podVars, counters
<1>0. TypeInv'
  BY TypeEnvironment, CopiesEnvironment DEF SettledInv, TypeInv
<1>1. CASE SyncModule
  BY <1>0, <1>1 DEF SyncModule, SettledInv, CacheInv, WorkerInv, AsleepInv, Asleep
<1>2. CASE SyncJob
  BY <1>0, <1>2 DEF SyncJob, SettledInv, CacheInv, WorkerInv, AsleepInv, Asleep
<1>3. CASE Restart
  BY <1>0, <1>3, Requeued DEF Restart, CacheInv
<1>4. CASE UpdateSpec
  <2>1. ~moduleFresh'
    BY <1>4 DEF UpdateSpec, ModuleChanges
  <2>2. CASE w = Idle
    BY <1>0, <1>4, <2>1, <2>2
       DEF UpdateSpec, SettledInv, CacheInv, WorkerInv, AsleepInv, Asleep
  <2>3. CASE w # Idle
    <3>1. w \in Busy
      BY <2>3, BusyW DEF SettledInv, TypeInv
    <3>2. w' = [w EXCEPT !.fresh = FALSE]
      BY <1>4, <2>3 DEF UpdateSpec
    <3>3. /\ w'.stage = w.stage
          /\ w'.inst = w.inst
          /\ w'.found = w.found
          /\ w'.fresh = FALSE
      BY <3>1, <3>2 DEF Busy
    <3> QED
      BY <1>0, <1>4, <2>1, <2>3, <3>3
         DEF UpdateSpec, SettledInv, CacheInv, WorkerInv, AsleepInv, Asleep
  <2> QED
    BY <2>2, <2>3
<1>5. CASE JobController \/ SyncNodes
  <2>1. UNCHANGED <<module, moduleCache, moduleFresh, jobCache, queued, w>>
    BY <1>5 DEF JobController, StartPod, PodExits, StrayExits, PublishActive,
                PublishEnd, PublishRetry, JobStatusChanges, SyncNodes
  <2> QED
    BY <1>0, <2>1 DEF SettledInv, CacheInv, WorkerInv, AsleepInv, Asleep
<1>6. CASE NodeReport \/ NodeDeleted \/ NodeRecreated
  <2>1. PICK i, n : NodeWritten(i, n)
    BY <1>6 DEF NodeReport, NodeDeleted, NodeRecreated
  <2>2. UNCHANGED <<module, moduleCache, moduleFresh, jobCache, queued>>
    BY <2>1 DEF NodeWritten
  <2>3. /\ w' = Idle <=> w = Idle
        /\ w # Idle => /\ w'.stage = w.stage /\ w'.inst = w.inst
                       /\ w'.found = w.found /\ w'.fresh = w.fresh
    BY <2>1, NodeWrittenStage DEF SettledInv, TypeInv
  <2> QED
    BY <1>0, <2>2, <2>3 DEF SettledInv, CacheInv, WorkerInv, AsleepInv, Asleep
<1> QED
  BY <1>1, <1>2, <1>3, <1>4, <1>5, <1>6 DEF Environment

LEMMA SettledInductive == Spec => []SettledInv
<1>1. SettledInv /\ UNCHANGED vars => SettledInv'
  BY DEF vars, apiVars, nodeVars, nodeCopies, cacheVars, podVars, counters,
         SettledInv, TypeInv, TypeOK, CopiesInv, Listed, CacheInv, WorkerInv,
         AsleepInv, Asleep
<1>2. SettledInv /\ [Next]_vars => SettledInv'
  BY <1>1, SettledReconcile, SettledEnvironment DEF Next
<1> QED
  BY SettledInit, <1>2, PTL DEF Spec

\* A quiescent controller has nothing left to do for the Module: no change of
\* the spec, no Job event and no wrong status is ever lost.
THEOREM SettledAlways == Spec => []Settled
<1>1. SettledInv => Settled
  BY DEF SettledInv, AsleepInv, Asleep, Settled, Quiescent
<1> QED
  BY <1>1, SettledInductive, PTL
-----------------------------------------------------------------------------
(* A Completed phase is earned *)

\* j shows the last Job created, maybe at an earlier moment of its life.
SameRun(j) == /\ lastRun # NoJob
              /\ j.env = lastRun.env
              /\ j.state = "Complete" => lastRun.state = "Complete"

\* The Job in the API is the last one created; the cached Job and the one
\* the worker found are earlier views of it.  This holds because a Job is
\* created only when the cache shows none.
HistoryInv ==
    /\ job # NoJob => lastRun = job
    /\ jobCache # NoJob => SameRun(jobCache)
    /\ w.stage \in {"nodes", "create", "mark", "status"} => SameRun(w.found)

LEMMA HistoryInit == Init => HistoryInv
BY DEF Init, HistoryInv, Idle

LEMMA HistoryReconcile ==
    SettledInv /\ HistoryInv /\ Reconcile => HistoryInv'
<1> SUFFICES ASSUME SettledInv, HistoryInv, Reconcile PROVE HistoryInv'
  OBVIOUS
<1> USE DEF apiVars, nodeVars, nodeCopies, cacheVars, podVars, counters
<1>1. CASE Fetch
  <2>1. w'.stage = "getJob"
    BY <1>1 DEF Fetch
  <2> QED
    BY <1>1, <2>1 DEF Fetch, HistoryInv, SameRun
<1>2. CASE CreateJob
  <2>1. w'.stage = "idle"
    BY <1>2 DEF CreateJob, ReturnRequeue, Idle
  <2> QED
    BY <1>2, <2>1 DEF CreateJob, HistoryInv, SameRun
<1>3. CASE CreateJobFails \/ JobStillRunning \/ DeleteJobFails
           \/ CreateNodeFails \/ JobStatusUnknown \/ MarkPending \/ PublishStatus
  <2>1. w'.stage = "idle"
    BY <1>3 DEF CreateJobFails, JobStillRunning, DeleteJobFails,
                CreateNodeFails, JobStatusUnknown, MarkPending, PublishStatus,
                ReturnRequeue, ReturnDone, Idle
  <2>2. UNCHANGED <<job, jobCache, lastRun>>
    BY <1>3 DEF CreateJobFails, JobStillRunning, DeleteJobFails,
                CreateNodeFails, JobStatusUnknown, MarkPending, PublishStatus
  <2> QED
    BY <2>1, <2>2 DEF HistoryInv, SameRun
<1>4. CASE JobUpToDate
  <2>1. w # Idle
    BY <1>4 DEF JobUpToDate, Idle
  <2>2. w \in Busy
    BY <2>1, BusyW DEF SettledInv, TypeInv
  <2>3. w'.found = jobCache /\ jobCache # NoJob
    BY <1>4, <2>2 DEF JobUpToDate, Busy
  <2> QED
    BY <1>4, <2>3 DEF JobUpToDate, HistoryInv, SameRun
<1>5. CASE JobOutdated \/ CleanupPods \/ DeleteJob
  <2>1. /\ w # Idle
        /\ \E stage \in {"cleanup", "deleteJob", "pending"} :
              w' = [w EXCEPT !.stage = stage]
        /\ UNCHANGED <<jobCache, lastRun>>
        /\ job' \in {job, NoJob}
    <3>1. CASE JobOutdated
      BY <3>1 DEF JobOutdated, Idle
    <3>2. CASE CleanupPods
      BY <3>2 DEF CleanupPods, Idle
    <3>3. CASE DeleteJob
      BY <3>3 DEF DeleteJob, Idle
    <3> QED
      BY <1>5, <3>1, <3>2, <3>3
  <2>2. w \in Busy
    BY <2>1, BusyW DEF SettledInv, TypeInv
  <2>3. w'.stage \in {"cleanup", "deleteJob", "pending"}
    BY <2>1, <2>2 DEF Busy
  <2> QED
    BY <2>1, <2>3 DEF HistoryInv, SameRun
<1>6. CASE MissingNodes \/ CreateNode \/ ExtraNodes \/ MarkNode \/ EnoughNodes
  <2>1. /\ w.stage \in {"nodes", "create", "mark"}
        /\ UNCHANGED <<job, jobCache, lastRun>>
    BY <1>6 DEF MissingNodes, CreateNode, ExtraNodes, MarkNode, EnoughNodes
  <2>2. w \in Busy /\ w # Idle
    BY <2>1, BusyW DEF SettledInv, TypeInv, Idle
  <2>3. w'.found = w.found
    BY <1>6, <2>2, NodeStage
  <2> QED
    BY <2>1, <2>3 DEF HistoryInv, SameRun
<1> QED
  BY <1>1, <1>2, <1>3, <1>4, <1>5, <1>6 DEF Reconcile

LEMMA HistoryEnvironment ==
    /\ SettledInv /\ HistoryInv
    /\ SyncModule \/ SyncJob \/ SyncNodes \/ Restart \/ Environment
    => HistoryInv'
<1> SUFFICES ASSUME SettledInv, HistoryInv,
                    SyncModule \/ SyncJob \/ SyncNodes \/ Restart \/ Environment
             PROVE  HistoryInv'
  OBVIOUS
<1> USE DEF apiVars, nodeVars, nodeCopies, cacheVars, podVars, counters
<1>1. CASE SyncModule
  BY <1>1 DEF SyncModule, HistoryInv, SameRun
<1>2. CASE SyncJob
  BY <1>2 DEF SyncJob, HistoryInv, SameRun
<1>3. CASE Restart
  <2>1. w'.stage = "idle"
    BY <1>3 DEF Restart, ReturnRequeue, Idle
  <2> QED
    BY <1>3, <2>1 DEF Restart, HistoryInv, SameRun
<1>4. CASE UpdateSpec
  <2>1. w'.stage = w.stage /\ (w # Idle => w'.found = w.found)
    <3>1. CASE w = Idle
      BY <1>4, <3>1 DEF UpdateSpec
    <3>2. CASE w # Idle
      <4>1. w \in Busy /\ w' = [w EXCEPT !.fresh = FALSE]
        BY <1>4, <3>2, BusyW DEF UpdateSpec, SettledInv, TypeInv
      <4> QED
        BY <4>1 DEF Busy
    <3> QED
      BY <3>1, <3>2
  <2>2. w.stage \in {"nodes", "create", "mark", "status"} => w # Idle
    BY DEF Idle
  <2> QED
    BY <1>4, <2>1, <2>2 DEF UpdateSpec, HistoryInv, SameRun
<1>5. ASSUME NEW state \in JobStates, JobStatusChanges(state),
             job.state \in {"Created", "Active", "Backoff"}
      PROVE  HistoryInv'
  <2>1. /\ job # NoJob
        /\ lastRun = job
        /\ job' = [job EXCEPT !.state = state]
        /\ lastRun' = job'
        /\ UNCHANGED <<jobCache, w>>
    BY <1>5 DEF JobStatusChanges, HistoryInv
  <2>2. job \in Job /\ job' \in Job
    BY <2>1 DEF SettledInv, TypeInv, TypeOK, Job
  <2>3. lastRun'.env = lastRun.env /\ lastRun' # NoJob
    BY <2>1, <2>2, ModuleAssumption DEF Job
  <2>4. lastRun.state # "Complete"
    BY <1>5, <2>1
  <2>5. jobCache # NoJob => SameRun(jobCache)'
    BY <2>1, <2>3, <2>4 DEF HistoryInv, SameRun
  <2>6. w.stage \in {"nodes", "create", "mark", "status"} => SameRun(w.found)'
    BY <2>1, <2>3, <2>4 DEF HistoryInv, SameRun
  <2> QED
    BY <2>1, <2>5, <2>6 DEF HistoryInv
<1>6. CASE PublishActive
  BY <1>5, <1>6 DEF PublishActive, JobStates
<1>7. CASE PublishEnd
  BY <1>5, <1>7 DEF PublishEnd, JobStates
<1>8. CASE PublishRetry
  BY <1>5, <1>8 DEF PublishRetry, JobStates
<1>9. CASE StartPod \/ PodExits \/ StrayExits \/ SyncNodes
  <2>1. UNCHANGED <<job, jobCache, lastRun, w>>
    BY <1>9 DEF StartPod, PodExits, StrayExits, SyncNodes
  <2> QED
    BY <2>1 DEF HistoryInv, SameRun
<1>10. CASE NodeReport \/ NodeDeleted \/ NodeRecreated
  <2>1. PICK i, n : NodeWritten(i, n)
    BY <1>10 DEF NodeReport, NodeDeleted, NodeRecreated
  <2>2. UNCHANGED <<job, jobCache, lastRun>>
    BY <2>1 DEF NodeWritten
  <2>3. w' = w \/ (w'.stage = w.stage /\ w'.found = w.found)
    BY <2>1, NodeWrittenStage DEF SettledInv, TypeInv
  <2> QED
    BY <2>2, <2>3 DEF HistoryInv, SameRun
<1> QED
  BY <1>1, <1>2, <1>3, <1>4, <1>6, <1>7, <1>8, <1>9, <1>10
     DEF Environment, JobController

LEMMA HistoryInductive == Spec => []HistoryInv
<1>1. HistoryInv /\ UNCHANGED vars => HistoryInv'
  BY DEF vars, apiVars, nodeVars, nodeCopies, cacheVars, HistoryInv, SameRun
<1>2. SettledInv /\ HistoryInv /\ [Next]_vars => HistoryInv'
  BY <1>1, HistoryReconcile, HistoryEnvironment DEF Next
<1> QED
  BY HistoryInit, SettledInductive, <1>2, PTL DEF Spec

\* A Module becomes Completed only after the provisioner started last ran
\* with exactly the spec then in the API, and succeeded.
THEOREM CompletedEarned == Spec => CompletedIsEarned
<1> DEFINE Becomes == /\ module.status.phase # "Completed"
                      /\ module'.status.phase = "Completed"
           Earned == /\ lastRun # NoJob
                     /\ lastRun.env = batchEnvVars(module'.spec)
                     /\ lastRun.state = "Complete"
<1>1. ASSUME SettledInv, HistoryInv, Next, Becomes
      PROVE  Earned
  <2> USE DEF apiVars, nodeVars, cacheVars, podVars, counters
  <2>1. CASE PublishStatus
    <3>1. StatusWritten(ReportedPhase)
      BY <1>1, <2>1 DEF PublishStatus, StatusUnchanged, StatusRefused
    <3>2. w.stage = "status" /\ w # Idle
      BY <2>1 DEF PublishStatus, Idle
    <3>3. w \in Busy
      BY <1>1, <3>2, BusyW DEF SettledInv, TypeInv
    <3>4. w.found \in Job /\ module \in Module
      BY <1>1, <3>2, <3>3 DEF Busy, SettledInv, TypeInv, TypeOK
    <3>5. /\ w.inst = module
          /\ w.found.env = batchEnvVars(w.inst.spec)
      BY <1>1, <3>1, <3>2 DEF SettledInv, WorkerInv, StatusWritten
    <3>6. /\ module'.spec = module.spec
          /\ module'.status.phase = ReportedPhase
      BY <3>1, <3>4 DEF StatusWritten, ModuleChanges, NextStatus, Module
    <3>7. retrieveJobStatus(w.found) = "Completed"
      BY <1>1, <3>6 DEF ReportedPhase
    <3>8. w.found.state \in JobStates
      BY <3>4 DEF Job
    <3>9. w.found.state = "Complete"
      <4>1. CASE w.found.state = "Created"
        BY <3>7, <4>1 DEF retrieveJobStatus
      <4>2. CASE w.found.state = "Active"
        BY <3>7, <4>2 DEF retrieveJobStatus
      <4>3. CASE w.found.state = "Failed"
        BY <3>7, <4>3 DEF retrieveJobStatus
      <4>4. CASE w.found.state = "Backoff"
        BY <3>7, <4>4 DEF retrieveJobStatus, None
      <4> QED
        BY <3>8, <4>1, <4>2, <4>3, <4>4 DEF JobStates
    <3> QED
      BY <1>1, <3>2, <3>5, <3>6, <3>9 DEF HistoryInv, SameRun
  <2>2. CASE MarkPending
    <3>1. w.stage = "pending" /\ module \in Module
      BY <1>1, <2>2 DEF MarkPending, SettledInv, TypeInv, TypeOK
    <3>2. module'.status.phase = "Pending" \/ module' = module
      BY <2>2, <3>1 DEF MarkPending, StatusUnchanged, StatusWritten,
           StatusRefused, ModuleChanges, NextStatus, Module
    <3> QED
      BY <1>1, <3>2
  <2>3. CASE UpdateSpec
    <3>1. module \in Module
      BY <1>1 DEF SettledInv, TypeInv, TypeOK
    <3>2. module'.status = module.status
      BY <2>3, <3>1 DEF UpdateSpec, ModuleChanges, Module
    <3> QED
      BY <1>1, <3>2
  <2>4. CASE UNCHANGED module
    BY <1>1, <2>4
  <2>5. Next => PublishStatus \/ MarkPending \/ UpdateSpec \/ UNCHANGED module
    BY DEF Next, Reconcile, Environment, JobController, SyncModule, SyncJob,
         SyncNodes, Restart, Fetch, CreateJob, CreateJobFails, JobStillRunning,
         JobOutdated, JobUpToDate, CleanupPods, DeleteJob, DeleteJobFails,
         MissingNodes, CreateNode, CreateNodeFails, ExtraNodes, MarkNode,
         EnoughNodes, JobStatusUnknown, StartPod, PodExits, StrayExits,
         PublishActive, PublishEnd, PublishRetry, JobStatusChanges, NodeReport,
         NodeDeleted, NodeRecreated, NodeWritten
  <2> QED
    BY <1>1, <2>1, <2>2, <2>3, <2>4, <2>5
<1>2. ASSUME SettledInv, HistoryInv, [Next]_vars
      PROVE  [Becomes => Earned]_vars
  BY <1>1, <1>2
<1> QED
  BY <1>2, SettledInductive, HistoryInductive, PTL DEF Spec, CompletedIsEarned
-----------------------------------------------------------------------------
(* Scaling down marks the highest nodes *)

\* A member of a tail is above the n nodes that stay, if the number read from
\* a hostname is the number of the node.
LEMMA TailMember ==
    ASSUME NEW list, Listed(list) \subseteq NodeIds,
           \A i \in NodeIds : FirstNumber[i] = i,
           NEW n \in Nat,
           NEW T \in Tails(list, n, FirstNumber), NEW i \in T
    PROVE  i >= n
<1> DEFINE Kept == Listed(list) \ T
<1>1. /\ Listed(list) \in SUBSET NodeIds
      /\ T \in SUBSET NodeIds
      /\ T \subseteq Listed(list)
      /\ i \in NodeIds /\ i \in Nat
  BY ModuleAssumption DEF Tails, NodeIds
<1>2. /\ IsFiniteSet(Listed(list)) /\ Cardinality(Listed(list)) \in Nat
      /\ Cardinality(T) \in Nat
  BY <1>1, NodeCount, ModuleAssumption
<1>3. Cardinality(T) = Cardinality(Listed(list)) - n
  BY DEF Tails
<1>4. Cardinality(Kept) = n
  <2>1. Listed(list) \cap T = T
    BY <1>1
  <2>2. Cardinality(Kept)
          = Cardinality(Listed(list)) - Cardinality(Listed(list) \cap T)
    BY <1>2, FS_Difference
  <2>3. Cardinality(Kept) = Cardinality(Listed(list)) - Cardinality(T)
    BY <2>1, <2>2
  <2> HIDE DEF Kept
  <2> QED
    BY <1>2, <1>3, <2>3
<1>5. Kept \subseteq 0 .. (i - 1)
  <2> SUFFICES ASSUME NEW k \in Kept PROVE k \in 0 .. (i - 1)
    OBVIOUS
  <2>1. k # i /\ k \in NodeIds /\ i \in NodeIds
    BY <1>1
  <2>2. FirstNumber[k] <= FirstNumber[i]
    BY DEF Tails
  <2> QED
    BY <2>1, <2>2, ModuleAssumption DEF NodeIds
<1>6. /\ IsFiniteSet(0 .. (i - 1))
      /\ Cardinality(0 .. (i - 1)) = i
  BY <1>1, FS_Interval
<1>7. Cardinality(Kept) <= i
  <2> HIDE DEF Kept
  <2> QED
    BY <1>5, <1>6, FS_Subset
<1> QED
  BY <1>1, <1>4, <1>7

\* The actions that write Nodes.
LEMMA NodeWriters ==
    Next => \/ CreateNode \/ MarkNode
            \/ NodeReport \/ NodeDeleted \/ NodeRecreated
            \/ UNCHANGED nodeVars
BY DEF Next, Reconcile, Environment, JobController, SyncModule, SyncJob,
       SyncNodes, Restart, Fetch, CreateJob, CreateJobFails, JobStillRunning,
       JobOutdated, JobUpToDate, CleanupPods, DeleteJob, DeleteJobFails,
       MarkPending, MissingNodes, CreateNodeFails, ExtraNodes, EnoughNodes,
       JobStatusUnknown, PublishStatus, UpdateSpec, StartPod, PodExits,
       StrayExits, PublishActive, PublishEnd, PublishRetry, JobStatusChanges,
       apiVars

\* What a call has still to mark is above the replicas it works for.
HighInv == w.stage = "mark" => \A i \in w.todo : i >= w.inst.spec.replicas

LEMMA HighStep ==
    ASSUME TypeInv, HighInv, [Next]_vars, \A i \in NodeIds : FirstNumber[i] = i
    PROVE  HighInv'
<1>1. CASE ExtraNodes
  <2>1. w \in Busy
    BY <1>1, BusyW DEF ExtraNodes, Idle, TypeInv
  <2>2. PICK T \in Tails(nodesCache, w.inst.spec.replicas, FirstNumber) :
          /\ w'.todo = {i \in T : ~nodesCache[i].marked}
          /\ w'.inst = w.inst
    BY <1>1, <2>1 DEF ExtraNodes, Busy
  <2>3. Listed(nodesCache) \subseteq NodeIds
    BY DEF TypeInv, TypeOK, Listed
  <2>4. w.inst.spec.replicas \in Nat
    BY <2>1, WantedReplicas, ModuleAssumption
  <2>5. \A i \in T : i >= w.inst.spec.replicas
    BY <2>3, <2>4, TailMember
  <2> QED
    BY <2>2, <2>5 DEF HighInv
<1>2. CASE MarkNode
  <2>1. w \in Busy /\ w.stage = "mark"
    BY <1>2, BusyW DEF MarkNode, Idle, TypeInv
  <2>2. w'.inst = w.inst /\ w'.todo \subseteq w.todo
    BY <1>2, <2>1, NodeDoneType DEF MarkNode
  <2> QED
    BY <2>1, <2>2 DEF HighInv
<1>3. CASE MissingNodes \/ CreateNode \/ EnoughNodes
  <2>1. w \in Busy /\ w.stage \in {"nodes", "create"}
    BY <1>3, BusyW DEF MissingNodes, CreateNode, EnoughNodes, Idle, TypeInv
  <2>2. w'.stage # "mark"
    <3>1. CASE MissingNodes
      BY <2>1, <3>1 DEF MissingNodes, Busy
    <3>2. CASE CreateNode
      BY <2>1, <3>2, NodeDoneType DEF CreateNode
    <3>3. CASE EnoughNodes
      BY <2>1, <3>3 DEF EnoughNodes, Busy
    <3> QED
      BY <1>3, <3>1, <3>2, <3>3
  <2> QED
    BY <2>2 DEF HighInv
<1>4. CASE JobOutdated \/ JobUpToDate \/ CleanupPods \/ DeleteJob
  <2>0. w.stage # "idle"
    BY <1>4 DEF JobOutdated, JobUpToDate, CleanupPods, DeleteJob
  <2>1. w \in Busy
    BY <2>0, BusyW DEF Idle, TypeInv
  <2>2. w'.stage # "mark"
    <3>1. CASE JobOutdated
      BY <2>1, <3>1 DEF JobOutdated, Busy
    <3>2. CASE JobUpToDate
      BY <2>1, <3>2 DEF JobUpToDate, Busy
    <3>3. CASE CleanupPods
      BY <2>1, <3>3 DEF CleanupPods, Busy
    <3>4. CASE DeleteJob
      BY <2>1, <3>4 DEF DeleteJob, Busy
    <3> QED
      BY <1>4, <3>1, <3>2, <3>3, <3>4
  <2> QED
    BY <2>2 DEF HighInv
<1>5. CASE Fetch
  <2>1. w'.stage = "getJob"
    BY <1>5 DEF Fetch
  <2> QED
    BY <2>1 DEF HighInv
<1>6. CASE \/ CreateJob \/ CreateJobFails \/ JobStillRunning \/ DeleteJobFails
          \/ CreateNodeFails \/ JobStatusUnknown \/ MarkPending \/ PublishStatus
          \/ Restart
  <2>1. w'.stage = "idle"
    BY <1>6 DEF CreateJob, CreateJobFails, JobStillRunning, DeleteJobFails,
                CreateNodeFails, JobStatusUnknown, MarkPending, PublishStatus,
                Restart, ReturnRequeue, ReturnDone, Idle
  <2> QED
    BY <2>1 DEF HighInv
<1>7. CASE UpdateSpec \/ NodeReport \/ NodeDeleted \/ NodeRecreated
  <2>1. \/ w' = w
        \/ w # Idle /\ w' = [w EXCEPT !.fresh = FALSE]
        \/ w # Idle /\ \E i : w' = [w EXCEPT !.latest = w.latest \ {i}]
    BY <1>7 DEF UpdateSpec, NodeReport, NodeDeleted, NodeRecreated, NodeWritten
  <2>2. \/ w' = w
        \/ w'.stage = w.stage /\ w'.todo = w.todo /\ w'.inst = w.inst
    BY <2>1, BusyW DEF Busy, TypeInv
  <2> QED
    BY <2>2 DEF HighInv
<1>8. CASE SyncModule \/ SyncJob \/ SyncNodes \/ JobController \/ UNCHANGED vars
  <2>1. w' = w
    BY <1>8 DEF SyncModule, SyncJob, SyncNodes, JobController, StartPod, PodExits,
                StrayExits, PublishActive, PublishEnd, PublishRetry,
                JobStatusChanges, vars
  <2> QED
    BY <2>1 DEF HighInv
<1> QED
  BY <1>1, <1>2, <1>3, <1>4, <1>5, <1>6, <1>7, <1>8
     DEF Next, Reconcile, Environment

\* If the name of the service holds no digit, the first number of a hostname is
\* its last, and a scale down marks none of the nodes it is to keep: however
\* old the list of Nodes is, and whatever happens between it and each Update.
THEOREM MarksHighestWithoutDigits ==
    ASSUME NameNumbers = << >>
    PROVE  Spec => MarksHighest
<1> DEFINE Marked(i) == /\ ~nodes[i].marked
                        /\ nodes'[i] # NoNode
                        /\ nodes'[i].marked
           High(i) == i >= w.inst.spec.replicas
<1>0. \A i \in NodeIds : FirstNumber[i] = i
  BY DEF FirstNumber
<1>1. ASSUME TypeInv, HighInv, Next, NEW i \in Listed(nodes), Marked(i)
      PROVE  High(i)
  <2>1. i \in NodeIds /\ nodes[i] \in Node
    BY <1>1 DEF Listed, TypeInv, TypeOK
  <2>2. nodes' # nodes
    BY <1>1
  <2>3. CASE CreateNode
    <3>1. PICK k \in w.todo : nodes[k] = NoNode /\ NodeBecomes(k, NewNode)
      BY <2>2, <2>3 DEF CreateNode, nodeVars
    <3>2. nodes'[i] = nodes[i]
      BY <1>1, <2>1, <3>1 DEF NodeBecomes, Listed, TypeInv, TypeOK
    <3> QED
      BY <1>1, <3>2
  <2>4. CASE MarkNode
    <3>1. PICK k \in w.todo :
            NodeBecomes(k, [nodes[k] EXCEPT !.marked = TRUE])
      BY <2>2, <2>4 DEF MarkNode, nodeVars
    <3>2. i = k
      BY <1>1, <2>1, <3>1 DEF NodeBecomes, TypeInv, TypeOK
    <3> QED
      BY <1>1, <2>4, <3>1, <3>2 DEF MarkNode, HighInv
  <2>5. CASE NodeReport
    <3>1. PICK k \in Listed(nodes), s \in Reports :
            NodeBecomes(k, [nodes[k] EXCEPT !.status = s])
      BY <2>5 DEF NodeReport, NodeWritten
    <3>2. nodes[k] \in Node
      BY <1>1, <3>1 DEF Listed, TypeInv, TypeOK
    <3>3. nodes'[i].marked = nodes[i].marked
      BY <1>1, <2>1, <3>1, <3>2 DEF NodeBecomes, Node, TypeInv, TypeOK
    <3> QED
      BY <1>1, <3>3
  <2>6. CASE NodeDeleted
    <3>1. nodes'[i] \in {nodes[i], NoNode}
      BY <1>1, <2>1, <2>6 DEF NodeDeleted, NodeWritten, NodeBecomes, TypeInv, TypeOK
    <3> QED
      BY <1>1, <3>1
  <2>7. CASE NodeRecreated
    <3>1. PICK k \in doomed \ Listed(nodes) : \E n : NodeBecomes(k, n)
      BY <2>7 DEF NodeRecreated, NodeWritten
    <3>2. nodes'[i] = nodes[i]
      BY <1>1, <2>1, <3>1 DEF NodeBecomes, TypeInv, TypeOK
    <3> QED
      BY <1>1, <3>2
  <2> QED
    BY <1>1, <2>2, <2>3, <2>4, <2>5, <2>6, <2>7, NodeWriters DEF nodeVars
<1>2. ASSUME TypeInv, HighInv, [Next]_vars
      PROVE  [\A i \in Listed(nodes) : Marked(i) => High(i)]_vars
  BY <1>1, <1>2
<1>3. Init => HighInv
  BY DEF Init, HighInv, Idle
<1>4. TypeInv /\ HighInv /\ [Next]_vars => HighInv'
  BY <1>0, HighStep
<1> QED
  BY <1>2, <1>3, <1>4, TypeInductive, PTL DEF Spec, MarksHighest

\* utils/node.go:13 speaks of the final number.  Once the name of the service
\* holds a digit all hostnames begin with the same number, and any of the Nodes
\* may be the ones that go, those the provisioner keeps included.
THEOREM DigitsLeaveOrderOpen ==
    ASSUME NameNumbers # << >>, Listed(nodesCache) \subseteq NodeIds, NEW n \in Nat,
           NEW T \in SUBSET Listed(nodesCache),
           Cardinality(T) = Cardinality(Listed(nodesCache)) - n
    PROVE  T \in Tails(nodesCache, n, FirstNumber)
<1>1. \A i \in NodeIds : FirstNumber[i] = Head(NameNumbers)
  BY NamesAssumption DEF FirstNumber
<1>2. Head(NameNumbers) \in Nat
  BY NamesAssumption
<1> QED
  BY <1>1, <1>2 DEF Tails

-----------------------------------------------------------------------------
(* Each Node leads the life that NodeLife describes *)

\* What a write of a Node means for that Node.
LEMMA WriteBecomes ==
    ASSUME TypeOK, NEW i \in NodeIds, NEW n, NodeBecomes(i, n)
    PROVE  Life(i)!Becomes(n)
BY DEF TypeOK, NodeBecomes, Life!Becomes, Life!Due, Due

\* It leaves the others and their history as they are.
LEMMA OthersStay ==
    ASSUME TypeOK, NEW k \in NodeIds, NEW n, NodeBecomes(k, n),
           NEW i \in NodeIds \ {k}
    PROVE  UNCHANGED <<nodes[i], i \in doomed>>
<1>1. nodes'[i] = nodes[i]
  BY DEF TypeOK, NodeBecomes
<1>2. i \in doomed' <=> i \in doomed
  BY DEF NodeBecomes
<1> QED
  BY <1>1, <1>2

\* Every step of a Node here is one of its life.
LEMMA LifeStep ==
    ASSUME TypeInv, Next, NEW i \in NodeIds
    PROVE  Life(i)!Next \/ UNCHANGED <<nodes[i], i \in doomed>>
<1> DEFINE Stays == UNCHANGED <<nodes[i], i \in doomed>>
<1>0. /\ nodes \in [NodeIds -> Node \cup {NoNode}] /\ doomed \subseteq NodeIds
      /\ TypeOK
  BY DEF TypeInv, TypeOK
<1>1. CASE CreateNode
  <2>1. w \in Busy
    BY <1>0, <1>1, BusyW DEF CreateNode, Idle
  <2>2. PICK k \in w.todo : \/ nodes[k] = NoNode /\ NodeBecomes(k, NewNode)
                           \/ UNCHANGED nodeVars
    BY <1>1 DEF CreateNode
  <2>3. k \in NodeIds
    BY <2>1 DEF Busy
  <2>4. CASE nodes[k] = NoNode /\ NodeBecomes(k, NewNode) /\ k = i
    <3>1. Life(i)!Becomes([marked |-> FALSE, status |-> ZeroStatus])
      BY <1>0, <2>4, WriteBecomes DEF NewNode
    <3> QED
      BY <2>4, <3>1 DEF Life!Next, Life!Appear
  <2>5. CASE nodes[k] = NoNode /\ NodeBecomes(k, NewNode) /\ k # i
    BY <1>0, <2>3, <2>5, OthersStay
  <2>6. CASE UNCHANGED nodeVars
    BY <2>6 DEF nodeVars
  <2> QED
    BY <2>2, <2>4, <2>5, <2>6
<1>2. CASE MarkNode
  <2>1. w \in Busy /\ w.stage = "mark"
    BY <1>0, <1>2, BusyW DEF MarkNode, Idle
  <2>2. PICK k \in w.todo :
          \/ /\ k \in w.latest
             /\ NodeBecomes(k, [nodes[k] EXCEPT !.marked = TRUE])
          \/ UNCHANGED nodeVars
    BY <1>2 DEF MarkNode
  <2>3. k \in NodeIds
    BY <2>1 DEF Busy
  <2> DEFINE Writes == /\ k \in w.latest
                       /\ NodeBecomes(k, [nodes[k] EXCEPT !.marked = TRUE])
  <2>4. CASE Writes /\ k = i
    <3>1. nodes[i] # NoNode
      BY <2>1, <2>4 DEF TypeInv, CopiesInv, Listed
    <3>2. Life(i)!Becomes([nodes[i] EXCEPT !.marked = TRUE])
      BY <1>0, <2>4, WriteBecomes
    <3> QED
      BY <3>1, <3>2 DEF Life!Next, Life!Mark
  <2>5. CASE Writes /\ k # i
    BY <1>0, <2>3, <2>5, OthersStay
  <2>6. CASE UNCHANGED nodeVars
    BY <2>6 DEF nodeVars
  <2> QED
    BY <2>2, <2>4, <2>5, <2>6
<1>3. CASE NodeReport
  <2>1. PICK k \in Listed(nodes), s \in Reports :
          /\ ~Due(nodes[k])
          /\ NodeBecomes(k, [nodes[k] EXCEPT !.status = s])
    BY <1>3 DEF NodeReport, NodeWritten
  <2>2. k \in NodeIds /\ nodes[k] # NoNode /\ s \in NodeStatus
    BY <1>0, <2>1, ModuleAssumption DEF Listed
  <2>3. CASE k = i
    <3>1. Life(i)!Becomes([nodes[i] EXCEPT !.status = s])
      BY <1>0, <2>1, <2>3, WriteBecomes
    <3> QED
      BY <2>1, <2>2, <2>3, <3>1 DEF Life!Next, Life!Report, Life!Due, Due
  <2>4. CASE k # i
    BY <1>0, <2>1, <2>2, <2>4, OthersStay
  <2> QED
    BY <2>3, <2>4
<1>4. CASE NodeDeleted
  <2>1. PICK k \in Listed(nodes) \cap doomed : NodeBecomes(k, NoNode)
    BY <1>4 DEF NodeDeleted, NodeWritten
  <2>2. CASE k = i
    <3>1. Life(i)!Becomes(NoNode)
      BY <1>0, <2>1, <2>2, WriteBecomes
    <3> QED
      BY <2>1, <2>2, <3>1 DEF Life!Next, Life!Delete, Listed
  <2>3. CASE k # i
    BY <1>0, <2>1, <2>3, OthersStay
  <2> QED
    BY <2>2, <2>3
<1>5. CASE NodeRecreated
  <2>1. PICK k \in doomed \ Listed(nodes), marked \in BOOLEAN :
          NodeBecomes(k, [NewNode EXCEPT !.marked = marked])
    BY <1>5 DEF NodeRecreated, NodeWritten
  <2>2. [NewNode EXCEPT !.marked = marked] = [marked |-> marked, status |-> ZeroStatus]
    BY DEF NewNode
  <2>3. k \in NodeIds
    BY <1>0, <2>1
  <2>4. CASE k = i
    <3>1. Life(i)!Becomes([marked |-> marked, status |-> ZeroStatus])
      BY <1>0, <2>1, <2>2, <2>4, WriteBecomes
    <3> QED
      BY <1>0, <2>1, <2>4, <3>1 DEF Life!Next, Life!Appear, Listed
  <2>5. CASE k # i
    BY <1>0, <2>1, <2>3, <2>5, OthersStay
  <2> QED
    BY <2>4, <2>5
<1>6. CASE UNCHANGED nodeVars
  BY <1>6 DEF nodeVars
<1> QED
  BY <1>1, <1>2, <1>3, <1>4, <1>5, <1>6, NodeWriters

\* Nodes are created, marked, reported, deleted and created again only as the
\* contract with the Node controller allows.
THEOREM ModuleControllerImplementsLife == Spec => ImplementsLife
<1> DEFINE Lives == \A i \in NodeIds :
                      \/ Life(i)!Next
                      \/ UNCHANGED <<nodes[i], i \in doomed>>
<1>1. Init => \A i \in NodeIds : Life(i)!Init
  BY DEF Init, Life!Init
<1>2. TypeInv /\ [Next]_vars => [Lives]_nodeVars
  BY LifeStep DEF vars, apiVars, nodeVars
<1> QED
  BY <1>1, <1>2, TypeInductive, PTL DEF Spec, ImplementsLife
=============================================================================
