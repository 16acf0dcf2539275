--------------------------- MODULE OperatorProofs ---------------------------
(***************************************************************************)
(* What each controller's own specification assumes of the other one is    *)
(* what the other one does: in one process they implement both.            *)
(***************************************************************************)
EXTENDS Operator, NodeHistoryProofs

\* The Node is one of the Module's.
IsNode == me \in M!NodeIds

\* ModuleController and NodeController speak of the same Nodes.
LEMMA SameNode ==
    /\ M!NewNode = NewNode
    /\ M!Node = Node
    /\ M!NodeStatus = NodeStatus
    /\ \A n : M!Due(n) <=> Life!Due(n)
<1>1. M!ZeroStatus = ZeroStatus
  BY DEF M!ZeroStatus, ZeroStatus, M!None, None
<1>2. M!NodeStatus = NodeStatus
  BY DEF M!NodeStatus, NodeStatus, M!None, None, M!Gone, Gone, M!Machine, Machine,
         M!NoConsul, NoConsul
<1> QED
  BY <1>1, <1>2 DEF M!NewNode, NewNode, M!Node, Node, M!Due, Life!Due, M!Gone, Gone

LEMMA NodesAt ==
    /\ DOMAIN nodes = M!NodeIds
    /\ \A i \in M!NodeIds : nodes[i] = IF i = me THEN node ELSE others[i]
BY DEF nodes, M!NodeIds

LEMMA NodesAtPrime ==
    /\ DOMAIN nodes' = M!NodeIds
    /\ \A i \in M!NodeIds : nodes'[i] = IF i = me THEN node' ELSE others'[i]
BY DEF nodes, M!NodeIds

\* A step of the Module controller writes Nodes in two ways.
LEMMA ModuleWriters ==
    ASSUME ModuleStep
    PROVE  \/ UNCHANGED <<nodes, doomedNodes>>
           \/ OtherNode
           \/ \E i : nodes[i] = NoNode /\ M!NodeBecomes(i, M!NewNode)
           \/ \E i : /\ nodes[i] # NoNode
                     /\ M!NodeBecomes(i, [nodes[i] EXCEPT !.marked = TRUE])
<1> USE DEF M!apiVars, M!nodeVars
<1>1. CASE M!CreateNode
  BY <1>1 DEF M!CreateNode
<1>2. CASE M!MarkNode
  BY <1>2 DEF M!MarkNode
<1>3. CASE M!Fetch \/ M!CreateJob \/ M!CreateJobFails
  BY <1>3 DEF M!Fetch, M!CreateJob, M!CreateJobFails
<1>4. CASE M!JobStillRunning \/ M!JobOutdated \/ M!JobUpToDate \/ M!CleanupPods
  BY <1>4 DEF M!JobStillRunning, M!JobOutdated, M!JobUpToDate, M!CleanupPods
<1>5. CASE M!DeleteJob \/ M!DeleteJobFails \/ M!MarkPending \/ M!EnoughNodes
  BY <1>5 DEF M!DeleteJob, M!DeleteJobFails, M!MarkPending, M!EnoughNodes
<1>6. CASE M!MissingNodes \/ M!CreateNodeFails \/ M!ExtraNodes
  BY <1>6 DEF M!MissingNodes, M!CreateNodeFails, M!ExtraNodes
<1>7. CASE M!JobStatusUnknown \/ M!PublishStatus
  BY <1>7 DEF M!JobStatusUnknown, M!PublishStatus
<1>8. CASE M!SyncModule \/ M!SyncJob \/ M!SyncNodes \/ M!UpdateSpec
  BY <1>8 DEF M!SyncModule, M!SyncJob, M!SyncNodes, M!UpdateSpec
<1>9. CASE M!JobController
  BY <1>9 DEF M!JobController, M!StartPod, M!PodExits, M!StrayExits,
              M!PublishActive, M!PublishEnd, M!PublishRetry, M!JobStatusChanges
<1> QED
  BY <1>1, <1>2, <1>3, <1>4, <1>5, <1>6, <1>7, <1>8, <1>9 DEF ModuleStep, M!Reconcile

\* A write of one Node leaves the others as they are.
LEMMA WrittenNode ==
    ASSUME IsNode, NEW i, NEW n, M!NodeBecomes(i, n)
    PROVE  node' = IF i = me THEN n ELSE node
<1>1. nodes' = [nodes EXCEPT ![i] = n]
  BY DEF M!NodeBecomes
<1>2. nodes[me] = node /\ nodes'[me] = node' /\ me \in DOMAIN nodes
  BY NodesAt, NodesAtPrime DEF IsNode
<1>3. nodes'[me] = IF i = me THEN n ELSE nodes[me]
  BY <1>1, <1>2, Zenon
<1> QED
  BY <1>2, <1>3

\* What the Module controller does to the Node: it creates or marks it.
LEMMA ModuleWritesNode ==
    ASSUME IsNode, node \in Node \cup {NoNode}, ModuleStep
    PROVE  \/ node' = node
           \/ node = NoNode /\ node' = NewNode
           \/ node # NoNode /\ ~node.marked /\ node' = [node EXCEPT !.marked = TRUE]
<1>0. nodes[me] = node /\ nodes'[me] = node'
  BY NodesAt, NodesAtPrime DEF IsNode
<1>1. CASE UNCHANGED <<nodes, doomedNodes>>
  <2>1. nodes' = nodes
    BY <1>1
  <2> QED
    BY <1>0, <2>1
<1>2. CASE OtherNode
  BY <1>2 DEF OtherNode
<1>3. ASSUME NEW i, nodes[i] = NoNode, M!NodeBecomes(i, M!NewNode)
      PROVE  node' = node \/ (node = NoNode /\ node' = NewNode)
  BY <1>0, <1>3, WrittenNode, SameNode
<1>4. ASSUME NEW i, nodes[i] # NoNode,
             M!NodeBecomes(i, [nodes[i] EXCEPT !.marked = TRUE])
      PROVE  \/ node' = node
             \/ node # NoNode /\ ~node.marked /\ node' = [node EXCEPT !.marked = TRUE]
  <2>1. \/ node' = node
        \/ node # NoNode /\ node' = [node EXCEPT !.marked = TRUE]
    BY <1>0, <1>4, WrittenNode
  <2>2. node # NoNode /\ node.marked => [node EXCEPT !.marked = TRUE] = node
    BY DEF Node
  <2>3. node # NoNode => node.marked \in BOOLEAN
    BY DEF Node
  <2> QED
    BY <2>1, <2>2, <2>3
<1> QED
  BY <1>1, <1>2, <1>3, <1>4, ModuleWriters

\* Every step of the process is one that NodeController allows, or does not
\* touch what it is about.
LEMMA HistoryStep ==
    ASSUME IsNode, LifeInv, OperatorNext
    PROVE  HistoryNext \/ UNCHANGED <<vars, doomed>>
<1>0. /\ node \in Node \cup {NoNode}
      /\ doomed \in BOOLEAN
      /\ Life!Due(node) => doomed
  BY DEF LifeInv, NodeInv, TypeOK, DoomedInv
<1>1. CASE ModuleMoves
  <2>0. /\ doomed' = (doomed \/ Life!Due(node'))
        /\ ModuleStep
        /\ NodeSeesChange
        /\ UNCHANGED <<cache, consul, queued, faults>>
    BY <1>1 DEF ModuleMoves
  <2>1. CASE node' = node
    <3>1. UNCHANGED <<fresh, w, creates>>
      BY <2>0, <2>1 DEF NodeSeesChange
    <3>2. doomed' = doomed
      BY <1>0, <2>0, <2>1
    <3> QED
      BY <2>0, <2>1, <3>1, <3>2 DEF vars, cacheVars, counters
  <2>2. CASE node' # node /\ node = NoNode /\ node' = NewNode
    <3>1. NodeChanges(NewNode) /\ creates' = creates + 1 /\ creates' <= MaxCreates
      BY <2>0, <2>2 DEF NodeSeesChange
    <3>2. creates < MaxCreates
      BY <3>1, NodeAssumption DEF LifeInv, NodeInv, TypeOK
    <3>3. ModuleCreatesNode
      BY <2>0, <2>2, <3>1, <3>2 DEF ModuleCreatesNode
    <3> QED
      BY <2>0, <3>3 DEF HistoryNext, Next
  <2>3. CASE /\ node' # node /\ node # NoNode /\ ~node.marked
             /\ node' = [node EXCEPT !.marked = TRUE]
    <3>1. NodeChanges([node EXCEPT !.marked = TRUE]) /\ creates' = creates
      BY <2>0, <2>3 DEF NodeSeesChange
    <3>2. ModuleMarksNode
      BY <2>0, <2>3, <3>1 DEF ModuleMarksNode, counters
    <3> QED
      BY <2>0, <3>2 DEF HistoryNext, Next
  <2> QED
    BY <1>0, <2>0, <2>1, <2>2, <2>3, ModuleWritesNode
<1>2. CASE NodeMoves
  BY <1>2 DEF NodeMoves, HistoryNext, Next
<1>3. CASE ProcessRestarts
  <2>1. Restart /\ node' = node /\ doomed' = doomed
    BY <1>3 DEF ProcessRestarts, Restart
  <2>2. doomed' = (doomed \/ Life!Due(node'))
    BY <1>0, <2>1
  <2> QED
    BY <2>1, <2>2 DEF HistoryNext, Next
<1> QED
  BY <1>1, <1>2, <1>3 DEF OperatorNext

\* So the invariants of the Node controller hold in the process.
LEMMA OperatorLifeInv ==
    ASSUME IsNode
    PROVE  OperatorSpec => []LifeInv
<1>1. OperatorInit => LifeInv
  BY LifeInit DEF OperatorInit
<1>2. LifeInv /\ [OperatorNext]_operatorVars => LifeInv'
  BY HistoryStep, LifeInvKept DEF operatorVars
<1> QED
  BY <1>1, <1>2, PTL DEF OperatorSpec

\* The process, whatever its Module controller does, implements the Node
\* controller: the Module controller writes a Node only as ModuleCreatesNode
\* and ModuleMarksNode say.
THEOREM OperatorImplementsNodeController ==
    ASSUME IsNode
    PROVE  OperatorSpec => HistorySpec
<1>1. OperatorInit => HistoryInit
  BY DEF OperatorInit
<1>2. LifeInv /\ [OperatorNext]_operatorVars => [HistoryNext]_<<vars, doomed>>
  BY HistoryStep DEF operatorVars
<1> QED
  BY <1>1, <1>2, OperatorLifeInv, PTL DEF OperatorSpec, HistorySpec

-----------------------------------------------------------------------------
\* The history of the others is not that of me.
OthersInv == othersDoomed \subseteq Others

LEMMA DoomedAt == OthersInv => (me \in doomedNodes <=> doomed)
BY DEF doomedNodes, OthersInv, Others

LEMMA OthersStep ==
    ASSUME OthersInv, OperatorNext
    PROVE  OthersInv'
<1>1. CASE ModuleMoves
  BY <1>1 DEF ModuleMoves, OthersInv, Others
<1>2. CASE NodeMoves \/ ProcessRestarts
  <2>1. othersDoomed' = othersDoomed
    BY <1>2 DEF NodeMoves, ProcessRestarts, moduleVars, otherVars
  <2> QED
    BY <2>1 DEF OthersInv, Others
<1> QED
  BY <1>1, <1>2 DEF OperatorNext

\* What a write of the Node by the Node controller is to the Module controller.
LEMMA NodeBecomes ==
    ASSUME IsNode, NodeMoves, node' # node
    PROVE  M!NodeWritten(me, node')
<1>0. /\ UNCHANGED moduleVars
      /\ doomed' = (doomed \/ Life!Due(node'))
      /\ nodesFresh' = nodesFresh \ {me}
      /\ mw' = IF mw = M!Idle THEN mw ELSE [mw EXCEPT !.latest = @ \ {me}]
  BY DEF NodeMoves, ModuleSeesChange
<1>1. others' = others /\ othersDoomed' = othersDoomed
  BY <1>0 DEF moduleVars, otherVars
<1>2. nodes' = [nodes EXCEPT ![me] = node']
  BY <1>1 DEF nodes, IsNode, M!NodeIds
<1>3. doomedNodes' = IF M!Due(node') THEN doomedNodes \cup {me} ELSE doomedNodes
  <2>1. doomedNodes' = othersDoomed \cup {i \in {me} : doomed \/ Life!Due(node')}
    BY <1>0, <1>1 DEF doomedNodes
  <2>2. doomedNodes = othersDoomed \cup {i \in {me} : doomed}
    BY DEF doomedNodes
  <2>3. M!Due(node') <=> Life!Due(node')
    BY SameNode
  <2> QED
    BY <2>1, <2>2, <2>3
<1>4. M!NodeBecomes(me, node')
  BY <1>0, <1>2, <1>3 DEF M!NodeBecomes, moduleVars
<1> QED
  BY <1>0, <1>4 DEF M!NodeWritten, moduleVars, M!podVars, M!counters

\* A step of the Node controller, its watch or Consul is one that
\* ModuleController allows to the Node controller, or does not touch Nodes.
LEMMA NodeMovesStep ==
    ASSUME IsNode, NodeStatus \subseteq Reports, LifeInv, OthersInv, NodeMoves
    PROVE  M!Next \/ UNCHANGED M!vars
<1>0. /\ Next
      /\ doomed' = (doomed \/ Life!Due(node'))
      /\ UNCHANGED moduleVars
  BY DEF NodeMoves, Next
<1>1. node' # node => M!NodeWritten(me, node')
  BY NodeBecomes
<1>3. /\ DOMAIN nodes = M!NodeIds
      /\ me \in M!NodeIds
      /\ nodes[me] = node
      /\ M!Listed(nodes) = {i \in M!NodeIds : nodes[i] # NoNode}
      /\ me \in doomedNodes <=> doomed
  BY NodesAt, DoomedAt DEF IsNode, M!Listed, OthersInv
<1>4. doomed \in BOOLEAN /\ (Life!Due(node) => doomed)
  BY DEF LifeInv, DoomedInv
<1>5. CASE (WriteGone \/ WriteStatus) /\ StatusWritten /\ node' # node
  <2>1. /\ node \in Node
        /\ ~Life!Due(node)
        /\ w.inst.status \in Reports
        /\ node' = [node EXCEPT !.status = w.inst.status]
    BY <1>5, WriterNotDue DEF LifeInv
  <2>2. me \in M!Listed(nodes) /\ ~M!Due(nodes[me])
    BY <1>3, <2>1, SameNode, NodeUtilsAssumption
  <2>3. w.inst.status # nodes[me].status
    BY <1>3, <1>5, <2>1 DEF Node
  <2>4. M!NodeWritten(me, [nodes[me] EXCEPT !.status = w.inst.status])
    BY <1>1, <1>3, <1>5, <2>1
  <2>5. M!NodeReport
    BY <2>1, <2>2, <2>3, <2>4 DEF M!NodeReport
  <2> QED
    BY <2>5 DEF M!Next, M!Environment
<1>6. CASE DeleteNode
  <2>1. doomed /\ node # NoNode /\ node' = NoNode
    BY <1>6 DEF DeleteNode, LifeInv, DoomedInv
  <2>2. me \in M!Listed(nodes) \cap doomedNodes
    BY <1>3, <2>1
  <2>3. M!NodeDeleted
    BY <1>1, <2>1, <2>2 DEF M!NodeDeleted
  <2> QED
    BY <2>3 DEF M!Next, M!Environment
<1>7. CASE RecreateNode
  <2>1. node = NoNode /\ w # Idle
    BY <1>7 DEF RecreateNode, Idle
  <2>2. doomed /\ w.inst \in Node
    BY <2>1 DEF LifeInv, DoomedInv, NodeInv, TypeOK, Busy
  <2>3. node' = [NewNode EXCEPT !.marked = w.inst.marked] /\ w.inst.marked \in BOOLEAN
    BY <1>7, <2>2 DEF RecreateNode, Node, NewNode
  <2>4. me \in doomedNodes \ M!Listed(nodes)
    BY <1>3, <2>1, <2>2
  <2>5. M!NodeWritten(me, [M!NewNode EXCEPT !.marked = w.inst.marked])
    <3>1. node' # node
      <4>1. NewNode \in Node
        BY DEF NewNode, Node, ZeroStatus, NodeStatus
      <4>2. node' \in Node
        BY <2>3, <4>1 DEF Node
      <4> QED
        BY <2>1, <4>2, NodeUtilsAssumption
    <3> QED
      BY <1>1, <2>3, <3>1, SameNode
  <2>6. M!NodeRecreated
    BY <2>3, <2>4, <2>5 DEF M!NodeRecreated
  <2> QED
    BY <2>6 DEF M!Next, M!Environment
<1>8. CASE UNCHANGED node
  <2>1. doomed' = doomed /\ UNCHANGED <<nodesFresh, mw>>
    BY <1>0, <1>4, <1>8 DEF NodeMoves, ModuleSeesChange
  <2>2. nodes' = nodes /\ doomedNodes' = doomedNodes
    BY <1>0, <1>8, <2>1 DEF nodes, doomedNodes, moduleVars, otherVars
  <2> QED
    BY <1>0, <2>1, <2>2 DEF M!vars, M!apiVars, M!nodeVars, M!nodeCopies, M!cacheVars,
                            M!podVars, M!counters, moduleVars
<1> QED
  BY <1>5, <1>6, <1>7, <1>8, ControllerWriters DEF NodeMoves

LEMMA ModuleStepOrStutter ==
    ASSUME IsNode, NodeStatus \subseteq Reports, LifeInv, OthersInv, OperatorNext
    PROVE  M!Next \/ UNCHANGED M!vars
<1>1. CASE ModuleMoves
  BY <1>1 DEF ModuleMoves, ModuleStep, OtherNode, M!Next, M!Environment
<1>2. CASE NodeMoves
  BY <1>2, NodeMovesStep
<1>3. CASE ProcessRestarts
  BY <1>3 DEF ProcessRestarts, M!Next
<1> QED
  BY <1>1, <1>2, <1>3 DEF OperatorNext

\* The process, whatever its Node controller does to the Node, implements
\* ModuleController: a status that is written, a deletion decided on an old
\* copy and a Node created again are reports, deletions and creations that
\* ModuleController's environment may make, at a moment it may make them.
THEOREM OperatorImplementsModuleController ==
    ASSUME IsNode, NodeStatus \subseteq Reports
    PROVE  OperatorSpec => M!Spec
<1>1. OperatorInit => M!Init /\ OthersInv
  BY DEF OperatorInit, OthersInv
<1>2. LifeInv /\ OthersInv /\ [OperatorNext]_operatorVars => [M!Next]_(M!vars)
  <2>1. ASSUME UNCHANGED operatorVars
        PROVE  UNCHANGED M!vars
    BY <2>1 DEF operatorVars, vars, moduleVars, otherVars, nodes, doomedNodes, M!vars,
                M!apiVars, M!nodeVars, M!nodeCopies, M!cacheVars, M!podVars, M!counters
  <2> QED
    BY <2>1, ModuleStepOrStutter
<1>3. OthersInv /\ [OperatorNext]_operatorVars => OthersInv'
  <2>1. ASSUME OthersInv, UNCHANGED operatorVars
        PROVE  OthersInv'
    BY <2>1 DEF operatorVars, moduleVars, otherVars, OthersInv, Others
  <2> QED
    BY <2>1, OthersStep
<1> QED
  BY <1>1, <1>2, <1>3, OperatorLifeInv, PTL DEF OperatorSpec, M!Spec

\* In the process a mark is final, and a Node lives as NodeLife says, although
\* both controllers write it.
THEOREM OperatorDeletionIsFinal ==
    ASSUME IsNode
    PROVE  OperatorSpec => DeletionIsFinal
<1>1. HistorySpec => Spec
  <2>1. [HistoryNext]_<<vars, doomed>> => [Next]_vars
    BY DEF HistoryNext
  <2> QED
    BY <2>1, PTL DEF HistorySpec, HistoryInit, Spec
<1> QED
  BY <1>1, OperatorImplementsNodeController, DeletionFinal, PTL

THEOREM OperatorImplementsLife ==
    ASSUME IsNode
    PROVE  OperatorSpec => ImplementsLife
BY OperatorImplementsNodeController, NodeControllerImplementsLife, PTL
=============================================================================
