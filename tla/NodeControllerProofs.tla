------------------------ MODULE NodeControllerProofs ------------------------
(***************************************************************************)
(* Theorems about NodeController, for every value of its constants.        *)
(***************************************************************************)
EXTENDS NodeController, TLAPS

\* TypeOK and DeletionIsFinal both rest on what the two copies are worth.  A
\* fresh cache is the Node.  A worker that may still write (its copy is
\* fresh) looks at a Node that exists, has the mark its copy has and, unless
\* it is about to be deleted, is not both marked and gone.
CopyInv ==
    /\ fresh => cache = node
    /\ (w # Idle /\ w.fresh) =>
          /\ node # NoNode
          /\ w.inst.marked = node.marked
          /\ w.stage # "delete" => ~(node.marked /\ node.status.id = Gone)

NodeInv == TypeOK /\ CopyInv

LEMMA StatusTypes ==
    /\ ZeroStatus \in NodeStatus
    /\ GoneStatus \in NodeStatus
    /\ NoConsulStatus \in NodeStatus
    /\ NewNode \in Node
<1>1. ZeroStatus \in NodeStatus
  BY DEF ZeroStatus, NodeStatus
<1>2. GoneStatus \in NodeStatus /\ NoConsulStatus \in NodeStatus
  BY DEF GoneStatus, NoConsulStatus, ZeroStatus, NodeStatus
<1>3. NewNode \in Node
  BY <1>1 DEF NewNode, Node
<1> QED
  BY <1>1, <1>2, <1>3

\* A busy worker that goes on with another status.
LEMMA ContinueType ==
    ASSUME NEW stage \in Stages, NEW status \in NodeStatus,
           w \in Busy, Continue(stage, status)
    PROVE  /\ w' \in Busy
           /\ w' # Idle
           /\ w'.stage = stage
           /\ w'.fresh = w.fresh
           /\ w'.inst.marked = w.inst.marked
           /\ queued' = queued
<1>1. w.inst \in Node
  BY DEF Busy
<1>2. w' = [stage |-> stage, fresh |-> w.fresh,
            inst |-> [w.inst EXCEPT !.status = status]]
  BY DEF Continue, Busy
<1>3. [w.inst EXCEPT !.status = status] \in Node
  BY <1>1 DEF Node
<1>4. w'.inst.marked = w.inst.marked
  BY <1>1, <1>2 DEF Node
<1>5. w.fresh \in BOOLEAN
  BY DEF Busy
<1>6. w' # Idle
  BY <1>2 DEF Idle
<1> QED
  BY <1>2, <1>3, <1>4, <1>5, <1>6 DEF Busy, Continue

\* A busy worker that goes on and touches nothing else keeps the invariant.
LEMMA ContinueInv ==
    ASSUME NodeInv, NEW stage \in Stages \ {"delete"}, NEW status \in NodeStatus,
           w \in Busy, w.stage # "delete", Continue(stage, status),
           UNCHANGED <<node, cacheVars, consul, creates>>,
           faults' \in 0 .. MaxFaults
    PROVE  NodeInv'
<1>1. /\ w' \in Busy
      /\ w'.stage = stage
      /\ w'.fresh = w.fresh
      /\ w'.inst.marked = w.inst.marked
      /\ queued' = queued
  BY ContinueType
<1>2. w # Idle
  BY DEF Busy, Idle, Stages
<1> QED
  BY <1>1, <1>2 DEF NodeInv, TypeOK, CopyInv, cacheVars

\* A return that leaves the Node and the cache alone.
LEMMA ReturnInv ==
    ASSUME NodeInv, ReturnRequeue,
           UNCHANGED <<node, cacheVars, consul, creates>>,
           faults' \in 0 .. MaxFaults
    PROVE  NodeInv'
BY DEF NodeInv, TypeOK, CopyInv, cacheVars, ReturnRequeue

\* A return after the Node was written.
LEMMA ReturnWritten ==
    ASSUME NodeInv, ReturnRequeue, node' \in Node \cup {NoNode}, ~fresh',
           fresh' \in BOOLEAN,
           UNCHANGED <<cache, consul, creates>>, faults' \in 0 .. MaxFaults
    PROVE  NodeInv'
BY DEF NodeInv, TypeOK, CopyInv, ReturnRequeue

LEMMA FaultType ==
    ASSUME TypeOK, Fault
    PROVE  faults' \in 0 .. MaxFaults
BY NodeAssumption DEF TypeOK, Fault

\* The three outcomes of UpdateNodeStatusIfNeeded, before a return.
LEMMA StatusInv ==
    ASSUME NodeInv, w \in Busy, ReturnRequeue,
           StatusUpToDate \/ StatusWritten \/ StatusRefused,
           UNCHANGED <<cache, consul, creates>>
    PROVE  NodeInv'
<1>1. TypeOK /\ w # Idle /\ w.inst \in Node
  BY DEF NodeInv, Busy, Idle, Stages
<1>2. CASE StatusUpToDate
  BY <1>1, <1>2, ReturnInv DEF StatusUpToDate, TypeOK, cacheVars
<1>3. CASE StatusWritten
  <2>1. node \in Node
    BY <1>1, <1>3 DEF StatusWritten, NodeInv, CopyInv, TypeOK
  <2>2. node' \in Node
    BY <1>1, <1>3, <2>1 DEF StatusWritten, Node
  <2> QED
    BY <1>1, <1>3, <2>2, ReturnWritten DEF StatusWritten, TypeOK
<1>4. CASE StatusRefused
  <2>1. faults' \in 0 .. MaxFaults
    BY <1>1, <1>4, FaultType DEF StatusRefused, TypeOK
  <2> QED
    BY <1>4, <2>1, ReturnInv DEF StatusRefused, cacheVars
<1> QED
  BY <1>2, <1>3, <1>4

LEMMA NodeInit == Init => NodeInv
<1> SUFFICES ASSUME Init PROVE NodeInv
  OBVIOUS
<1>1. 0 \in 0 .. MaxCreates /\ 0 \in 0 .. MaxFaults
  BY NodeAssumption
<1> QED
  BY <1>1 DEF Init, NodeInv, TypeOK, CopyInv
LEMMA NodeReconcile == NodeInv /\ Reconcile => NodeInv'
<1> SUFFICES ASSUME NodeInv, Reconcile PROVE NodeInv'
  OBVIOUS
<1>0. TypeOK
  BY DEF NodeInv
<1>a. w # Idle => w \in Busy
  BY <1>0 DEF TypeOK
<1>b. \A stage \in Stages : w.stage = stage => w # Idle /\ w \in Busy
  BY <1>a DEF Idle, Stages
<1>1. CASE FetchNothing
  BY <1>1 DEF FetchNothing, NodeInv, TypeOK, CopyInv, cacheVars, counters
<1>2. CASE Fetch
  <2> DEFINE stage == IF cache.marked /\ cache.status.id = Gone
                      THEN "delete" ELSE "query"
  <2>1. w' = [stage |-> stage, inst |-> cache, fresh |-> fresh]
    BY <1>2 DEF Fetch
  <2>2. cache \in Node /\ fresh \in BOOLEAN
    BY <1>0, <1>2 DEF Fetch, TypeOK
  <2>3. w' \in Busy
    BY <2>1, <2>2 DEF Busy, Stages
  <2>4. TypeOK'
    BY <1>0, <1>2, <2>3 DEF Fetch, TypeOK, cacheVars, counters
  <2>5. UNCHANGED <<node, cache, fresh>>
    BY <1>2 DEF Fetch, cacheVars
  <2>6. fresh => cache = node
    BY DEF NodeInv, CopyInv
  <2>7. w'.inst = cache /\ w'.fresh = fresh /\ w'.stage = stage
    BY <2>1
  <2>8. cache # NoNode
    BY <1>2 DEF Fetch
  <2>9. stage # "delete" => ~(cache.marked /\ cache.status.id = Gone)
    OBVIOUS
  <2>10. CopyInv'
    BY <2>5, <2>6, <2>7, <2>8, <2>9 DEF CopyInv
  <2> QED
    BY <2>4, <2>10 DEF NodeInv
<1>3. CASE DeleteNode
  BY <1>0, <1>3, ReturnWritten DEF DeleteNode, counters, TypeOK
<1>4. CASE DeleteNodeFails \/ ConsulFails \/ RecreateFails
  <2>1. faults' \in 0 .. MaxFaults
    BY <1>0, <1>4, FaultType DEF DeleteNodeFails, ConsulFails, RecreateFails, TypeOK
  <2> QED
    BY <1>4, <2>1, ReturnInv DEF DeleteNodeFails, ConsulFails, RecreateFails
<1>5. CASE ConsulUnavailable
  <2>1. faults' \in 0 .. MaxFaults
    BY <1>0, <1>5, FaultType DEF ConsulUnavailable, Fault
  <2>2. w \in Busy
    BY <1>5, <1>b DEF ConsulUnavailable, Stages
  <2> QED
    BY <1>5, <2>1, <2>2, StatusTypes, ContinueInv DEF ConsulUnavailable, Stages
<1>6. CASE QueryUnknown
  <2>1. w \in Busy
    BY <1>6, <1>b DEF QueryUnknown, Stages
  <2> QED
    BY <1>0, <1>6, <2>1, StatusTypes, ContinueInv
       DEF QueryUnknown, Stages, counters, TypeOK
<1>7. CASE QueryKnown
  <2>1. w \in Busy
    BY <1>7, <1>b DEF QueryKnown, Stages
  <2>2. w.inst.status \in NodeStatus /\ consul \in Host
    BY <1>0, <1>7, <2>1 DEF QueryKnown, TypeOK, Busy, Node
  <2>3. WithProperties(w.inst.status, consul) \in NodeStatus
    BY <2>2 DEF WithProperties, NodeStatus, Host
  <2> QED
    BY <1>0, <1>7, <2>1, <2>3, ContinueInv
       DEF QueryKnown, Stages, counters, TypeOK
<1>8. CASE QueryHealth
  <2>1. w \in Busy
    BY <1>8, <1>b DEF QueryHealth, Stages
  <2>2. w.inst.status \in NodeStatus
    BY <2>1 DEF Busy, Node
  <2>3. WithChecks(w.inst.status, consul) \in NodeStatus
    BY <2>2 DEF WithChecks, NodeStatus
  <2> QED
    BY <1>0, <1>8, <2>1, <2>3, ContinueInv
       DEF QueryHealth, Stages, counters, TypeOK
<1>9. CASE WriteGone
  <2>1. w \in Busy
    BY <1>9, <1>b DEF WriteGone, Stages
  <2> QED
    BY <1>9, <2>1, StatusInv DEF WriteGone
<1>10. CASE WriteStatus
  <2>1. w \in Busy
    BY <1>10, <1>b DEF WriteStatus, Stages
  <2>2. CASE ReturnRequeue
    BY <1>10, <2>1, <2>2, StatusInv DEF WriteStatus
  <2>3. CASE StatusRefused /\ Continue("create", w.inst.status)
    <3>1. w.inst.status \in NodeStatus
      BY <2>1 DEF Busy, Node
    <3>2. faults' \in 0 .. MaxFaults
      BY <1>0, <2>3, FaultType DEF StatusRefused, TypeOK
    <3>3. UNCHANGED <<node, cacheVars, consul, creates>>
      BY <1>10, <2>3 DEF WriteStatus, StatusRefused, cacheVars
    <3>4. w.stage # "delete"
      BY <1>10 DEF WriteStatus
    <3> QED
      BY <2>1, <2>3, <3>1, <3>2, <3>3, <3>4, ContinueInv DEF Stages
  <2> QED
    BY <1>10, <2>2, <2>3 DEF WriteStatus
<1>11. CASE RecreateNode
  <2>1. w.inst \in Node
    BY <1>11, <1>b DEF RecreateNode, Stages, Busy
  <2>2. node' \in Node
    BY <1>11, <2>1, StatusTypes DEF RecreateNode, Node
  <2> QED
    BY <1>0, <1>11, <2>2, ReturnWritten DEF RecreateNode, counters, TypeOK
<1> QED
  BY <1>1, <1>2, <1>3, <1>4, <1>5, <1>6, <1>7, <1>8, <1>9, <1>10, <1>11
     DEF Reconcile

LEMMA NodeEnvironment ==
    /\ NodeInv
    /\ SyncNode \/ Restart \/ ModuleCreatesNode \/ ModuleMarksNode \/ ConsulChanges
    => NodeInv'
<1> SUFFICES ASSUME NodeInv, SyncNode \/ Restart \/ ModuleCreatesNode
                               \/ ModuleMarksNode \/ ConsulChanges
             PROVE  NodeInv'
  OBVIOUS
<1> USE DEF cacheVars, counters
<1>0. TypeOK
  BY DEF NodeInv
<1>1. CASE SyncNode
  BY <1>1 DEF SyncNode, NodeInv, TypeOK, CopyInv
<1>2. CASE Restart
  BY <1>0, <1>2, FaultType DEF Restart, ReturnRequeue, NodeInv, TypeOK, CopyInv
<1>3. ASSUME NEW n \in Node, NodeChanges(n), UNCHANGED <<cache, consul, queued, faults>>,
             creates' \in 0 .. MaxCreates
      PROVE  NodeInv'
  <2>1. w' \in {Idle} \cup Busy /\ (w' # Idle => ~w'.fresh)
    <3>1. CASE w = Idle
      BY <1>3, <3>1 DEF NodeChanges
    <3>2. CASE w # Idle
      BY <1>0, <1>3, <3>2 DEF NodeChanges, TypeOK, Busy
    <3> QED
      BY <3>1, <3>2
  <2> QED
    BY <1>0, <1>3, <2>1 DEF NodeChanges, NodeInv, TypeOK, CopyInv
<1>4. CASE ModuleCreatesNode
  <2>1. creates' \in 0 .. MaxCreates
    BY <1>0, <1>4, NodeAssumption DEF ModuleCreatesNode, TypeOK
  <2> QED
    BY <1>3, <1>4, <2>1, StatusTypes DEF ModuleCreatesNode
<1>5. CASE ModuleMarksNode
  <2>1. node \in Node
    BY <1>0, <1>5 DEF ModuleMarksNode, TypeOK
  <2>2. [node EXCEPT !.marked = TRUE] \in Node
    BY <2>1 DEF Node
  <2> QED
    BY <1>0, <1>3, <1>5, <2>2 DEF ModuleMarksNode, TypeOK
<1>6. CASE ConsulChanges
  BY <1>6 DEF ConsulChanges, NodeInv, TypeOK, CopyInv
<1> QED
  BY <1>1, <1>2, <1>4, <1>5, <1>6

\* A step from a state of the invariant never revives a Node to be deleted.
LEMMA DeletionStep ==
    ASSUME NodeInv, Next, node # NoNode, node.marked, node' # NoNode
    PROVE  /\ node'.marked
           /\ node.status.id = Gone => node'.status.id = Gone
<1>1. node \in Node
  BY DEF NodeInv, TypeOK
<1>2. CASE (WriteGone \/ WriteStatus) /\ StatusWritten
  <2>1. w # Idle /\ w.fresh /\ w.stage # "delete"
    BY <1>2 DEF WriteGone, WriteStatus, StatusWritten, Idle
  <2>2. ~(node.marked /\ node.status.id = Gone)
    BY <2>1 DEF NodeInv, CopyInv
  <2>3. node'.marked = node.marked
    BY <1>1, <1>2 DEF StatusWritten, Node
  <2> QED
    BY <2>2, <2>3
<1>3. CASE UNCHANGED node
  BY <1>3
<1>4. Next => \/ (WriteGone \/ WriteStatus) /\ StatusWritten
              \/ node' = NoNode \/ UNCHANGED node
  BY DEF Next, Reconcile, FetchNothing, Fetch, DeleteNode, DeleteNodeFails,
         ConsulUnavailable, ConsulFails, QueryUnknown, QueryKnown, QueryHealth,
         WriteGone, WriteStatus, StatusUpToDate, StatusRefused, RecreateNode,
         RecreateFails, SyncNode, Restart, ModuleCreatesNode, ModuleMarksNode,
         ConsulChanges
<1> QED
  BY <1>2, <1>3, <1>4

LEMMA NodeInductive == Spec => []NodeInv
<1>1. NodeInv /\ UNCHANGED vars => NodeInv'
  BY DEF vars, cacheVars, counters, NodeInv, TypeOK, CopyInv
<1>2. NodeInv /\ [Next]_vars => NodeInv'
  BY <1>1, NodeReconcile, NodeEnvironment DEF Next
<1> QED
  BY NodeInit, <1>2, PTL DEF Spec

\* Every variable keeps to its type; in particular a status is written only
\* to a Node that exists.
THEOREM NodeTypeCorrect == Spec => []TypeOK
BY NodeInductive, PTL DEF NodeInv

\* While a marked Node exists it stays marked, and once its machine was seen
\* gone it stays so, whatever copies the writers hold.
THEOREM DeletionFinal == Spec => DeletionIsFinal
<1>1. NodeInv /\ [Next]_vars =>
        [ (node # NoNode /\ node.marked /\ node' # NoNode)
          => /\ node'.marked
             /\ node.status.id = Gone => node'.status.id = Gone ]_vars
  BY DeletionStep
<1> QED
  BY <1>1, NodeInductive, PTL DEF Spec, DeletionIsFinal
=============================================================================
