------------------------------ MODULE Operator ------------------------------
(***************************************************************************)
(* The Module controller and the Node controller in the one process that   *)
(* cmd/manager/main.go starts: ModuleController in full, and for one of    *)
(* its Nodes, me, NodeController in full, with the cached copies of both.  *)
(* The other Nodes have the Node controller as ModuleController has it.    *)
(*                                                                         *)
(* Each of the two modules has the other controller as an environment that *)
(* may do more than the code does.  Here neither has: what either does to  *)
(* the Node is what the other sees.  Both read the Nodes from one informer; *)
(* here the copies that each reads may lag by themselves, which is more.   *)
(***************************************************************************)
EXTENDS NodeHistory

CONSTANTS
    Envs, Replicas, MaxReplicas, NameNumbers, Reports,   \* of ModuleController
    MaxEdits, NoJob,
    me             \* the number of the Node

VARIABLES
    module, moduleCache, moduleFresh, job, jobCache,     \* of ModuleController
    pod, failures, strays, lastRun, edits,
    nodesCache,    \* the copies of the Nodes that the Module controller reads
    nodesFresh,    \* the Nodes of which they are the latest
    mQueued, mw,   \* its work queue and its worker
    mFaults,       \* counter bounding its failed calls
    others,        \* the other Nodes
    othersDoomed   \* those whose name a marked Node without machine has had

otherVars == <<others, othersDoomed>>
moduleVars == <<module, moduleCache, moduleFresh, job, jobCache, pod, failures,
                strays, lastRun, edits, nodesCache, mQueued, mFaults, otherVars>>
operatorVars == <<vars, doomed, moduleVars, nodesFresh, mw>>

\* All the Nodes of the Module.
nodes == [i \in 0 .. (MaxReplicas - 1) |-> IF i = me THEN node ELSE others[i]]
doomedNodes == othersDoomed \cup {i \in {me} : doomed}

M == INSTANCE ModuleController WITH
       doomed <- doomedNodes, queued <- mQueued, w <- mw, faults <- mFaults

Others == M!NodeIds \ {me}

OperatorInit ==
    /\ HistoryInit
    /\ others = [i \in Others |-> NoNode]
    /\ othersDoomed = {}
    /\ M!Init

-----------------------------------------------------------------------------
\* The Module controller, its Job and the writers of its Module; and the Node
\* controller where it handles another Node.
OtherNode == /\ M!NodeReport \/ M!NodeDeleted \/ M!NodeRecreated
             /\ UNCHANGED node

ModuleStep ==
    \/ M!Reconcile \/ M!SyncModule \/ M!SyncJob \/ M!SyncNodes
    \/ M!UpdateSpec \/ M!JobController
    \/ OtherNode

\* The Node controller finds its copies of a Node old that the Module
\* controller has written.
NodeSeesChange ==
    IF node' = node
    THEN UNCHANGED <<fresh, w, creates>>
    ELSE /\ NodeChanges(node')
         /\ creates' = IF node = NoNode THEN creates + 1 ELSE creates
         /\ creates' <= MaxCreates

\* ModuleStep says what nodes and doomedNodes become; the first conjuncts give
\* the values of node, doomed and the others that make them up.
ModuleMoves ==
    /\ node' \in Node \cup {NoNode}
    /\ doomed' = (doomed \/ Life!Due(node'))
    /\ others' \in [Others -> Node \cup {NoNode}]
    /\ othersDoomed' \in SUBSET Others
    /\ ModuleStep
    /\ NodeSeesChange
    /\ UNCHANGED <<cache, consul, queued, faults>>

\* And the Module controller, if the Node controller has written it.
ModuleSeesChange ==
    IF node' = node
    THEN UNCHANGED <<nodesFresh, mw>>
    ELSE /\ nodesFresh' = nodesFresh \ {me}
         /\ mw' = IF mw = M!Idle THEN mw ELSE [mw EXCEPT !.latest = @ \ {me}]

\* The Node controller, its watch, and Consul.
NodeMoves ==
    /\ Reconcile \/ SyncNode \/ ConsulChanges
    /\ doomed' = (doomed \/ Life!Due(node'))
    /\ ModuleSeesChange
    /\ UNCHANGED moduleVars

\* Both controllers restart, as they run in one process.
ProcessRestarts ==
    /\ Restart
    /\ UNCHANGED <<doomed, otherVars>>
    /\ M!Restart

OperatorNext == ModuleMoves \/ NodeMoves \/ ProcessRestarts

OperatorSpec == OperatorInit /\ [][OperatorNext]_operatorVars
=============================================================================
