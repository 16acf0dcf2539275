------------------------- MODULE NodeHistoryProofs -------------------------
(***************************************************************************)
(* NodeController implements NodeLife, for every value of its constants.   *)
(***************************************************************************)
EXTENDS NodeHistory, NodeControllerProofs

\* What the history says of the copies: a copy that is due, and a worker about
\* to delete, stem from a doomed Node; and a Node that is gone although there is
\* a copy of it was deleted.
DoomedInv ==
    /\ doomed \in BOOLEAN
    /\ Life!Due(node) => doomed
    /\ Life!Due(cache) => doomed
    /\ w.stage = "delete" => doomed
    /\ node = NoNode /\ (cache # NoNode \/ w # Idle) => doomed

LifeInv == NodeInv /\ DoomedInv

\* The actions that write the Node.
LEMMA ControllerWriters ==
    Reconcile \/ SyncNode \/ Restart \/ ConsulChanges =>
        \/ ((WriteGone \/ WriteStatus) /\ StatusWritten)
        \/ DeleteNode \/ RecreateNode
        \/ UNCHANGED node
BY DEF Reconcile, FetchNothing, Fetch, DeleteNodeFails,
       ConsulUnavailable, ConsulFails, QueryUnknown, QueryKnown, QueryHealth,
       WriteGone, WriteStatus, StatusUpToDate, StatusRefused, RecreateFails,
       SyncNode, Restart, ConsulChanges, cacheVars

LEMMA Writers ==
    Next => \/ ((WriteGone \/ WriteStatus) /\ StatusWritten)
            \/ DeleteNode \/ RecreateNode
            \/ ModuleCreatesNode \/ ModuleMarksNode
            \/ UNCHANGED node
BY ControllerWriters DEF Next

\* A worker that writes is busy; if its write counts, the Node is not due.
LEMMA WriterNotDue ==
    ASSUME NodeInv, WriteGone \/ WriteStatus, StatusWritten
    PROVE  /\ node \in Node
           /\ ~Life!Due(node)
           /\ w.inst.status \in NodeStatus
           /\ node' = [node EXCEPT !.status = w.inst.status]
<1>1. w # Idle /\ w.fresh /\ w.stage # "delete"
  BY DEF WriteGone, WriteStatus, StatusWritten, Idle
<1>2. node # NoNode /\ ~(node.marked /\ node.status.id = Gone)
  BY <1>1 DEF NodeInv, CopyInv
<1>3. node \in Node
  BY <1>2 DEF NodeInv, TypeOK
<1>4. w.inst.status \in NodeStatus
  BY <1>1 DEF NodeInv, TypeOK, Busy, Node
<1> QED
  BY <1>2, <1>3, <1>4 DEF StatusWritten, Life!Due

\* Every write of the Node is a step of its life.
LEMMA LifeStep ==
    ASSUME LifeInv, HistoryNext
    PROVE  Life!Next \/ UNCHANGED <<node, doomed>>
<1>0. TypeOK /\ doomed \in BOOLEAN
  BY DEF LifeInv, NodeInv, DoomedInv
<1>a. doomed' = (doomed \/ Life!Due(node'))
  BY DEF HistoryNext
<1>1. CASE (WriteGone \/ WriteStatus) /\ StatusWritten
  <2>1. /\ node \in Node
        /\ ~Life!Due(node)
        /\ w.inst.status \in NodeStatus
        /\ node' = [node EXCEPT !.status = w.inst.status]
    BY <1>1, WriterNotDue DEF LifeInv
  <2>2. node # NoNode
    BY <2>1, NodeUtilsAssumption
  <2>3. Life!Report
    BY <1>a, <2>1, <2>2 DEF Life!Report, Life!Becomes
  <2> QED
    BY <2>3 DEF Life!Next
<1>2. CASE DeleteNode
  <2>1. doomed /\ node # NoNode /\ node' = NoNode
    BY <1>2 DEF DeleteNode, LifeInv, DoomedInv
  <2>2. Life!Delete
    BY <1>a, <2>1 DEF Life!Delete, Life!Becomes
  <2> QED
    BY <2>2 DEF Life!Next
<1>3. CASE RecreateNode
  <2>1. node = NoNode /\ w # Idle
    BY <1>3 DEF RecreateNode, Idle
  <2>2. doomed
    BY <2>1 DEF LifeInv, DoomedInv
  <2>3. w.inst \in Node
    BY <1>0, <2>1 DEF TypeOK, Busy
  <2>4. node' = [marked |-> w.inst.marked, status |-> ZeroStatus]
    BY <1>3, <2>3 DEF RecreateNode, Node
  <2>5. w.inst.marked \in BOOLEAN
    BY <2>3 DEF Node
  <2>6. Life!Appear
    BY <1>a, <2>1, <2>2, <2>4, <2>5 DEF Life!Appear, Life!Becomes
  <2> QED
    BY <2>6 DEF Life!Next
<1>4. CASE ModuleCreatesNode
  <2>1. node = NoNode /\ node' = [marked |-> FALSE, status |-> ZeroStatus]
    BY <1>4 DEF ModuleCreatesNode, NodeChanges, NewNode
  <2>2. Life!Appear
    BY <1>a, <2>1 DEF Life!Appear, Life!Becomes
  <2> QED
    BY <2>2 DEF Life!Next
<1>5. CASE ModuleMarksNode
  <2>1. node # NoNode /\ node' = [node EXCEPT !.marked = TRUE]
    BY <1>5 DEF ModuleMarksNode, NodeChanges
  <2>2. Life!Mark
    BY <1>a, <2>1 DEF Life!Mark, Life!Becomes
  <2> QED
    BY <2>2 DEF Life!Next
<1>6. CASE UNCHANGED node
  <2>1. Life!Due(node') => doomed
    BY <1>6 DEF LifeInv, DoomedInv
  <2> QED
    BY <1>0, <1>a, <1>6, <2>1
<1> QED
  BY <1>1, <1>2, <1>3, <1>4, <1>5, <1>6, Writers DEF HistoryNext

\* What a step does to the cache and to the worker's stage.
LEMMA CopiesStep ==
    ASSUME NodeInv, Next
    PROVE  /\ cache' = cache \/ (cache' = node' /\ node' = node)
           /\ w'.stage = "delete" => (w.stage = "delete" \/ Life!Due(cache))
           /\ w' # Idle => (w # Idle \/ cache # NoNode)
<1>0. w # Idle => w \in Busy
  BY DEF NodeInv, TypeOK
<1> USE DEF cacheVars
<1>i. Idle.stage # "delete"
  BY DEF Idle
<1>2. CASE ReturnRequeue
  <2>1. w' = Idle
    BY <1>2 DEF ReturnRequeue
  <2>2. cache' = cache \/ (cache' = node' /\ node' = node)
    BY DEF Next, Reconcile, FetchNothing, Fetch, DeleteNode, DeleteNodeFails,
         ConsulUnavailable, ConsulFails, QueryUnknown, QueryKnown, QueryHealth,
         WriteGone, WriteStatus, RecreateNode, RecreateFails, SyncNode, Restart,
         ModuleCreatesNode, ModuleMarksNode, ConsulChanges
  <2> QED
    BY <1>i, <2>1, <2>2
<1>3. CASE Fetch
  BY <1>3 DEF Fetch, Life!Due
<1>4. CASE ConsulUnavailable \/ QueryUnknown \/ QueryKnown \/ QueryHealth
           \/ (WriteStatus /\ StatusRefused /\ Continue("create", w.inst.status))
  <2>1. w # Idle /\ w.stage # "delete"
    BY <1>4 DEF ConsulUnavailable, QueryUnknown, QueryKnown, QueryHealth,
                WriteStatus, Idle
  <2>2. cache' = cache
    BY <1>4 DEF ConsulUnavailable, QueryUnknown, QueryKnown, QueryHealth, WriteStatus
  <2>3. \E stage \in Stages \ {"delete"} : w'.stage = stage
    BY <1>0, <1>4, <2>1 DEF ConsulUnavailable, QueryUnknown, QueryKnown, QueryHealth,
                Continue, Busy, Stages
  <2> QED
    BY <2>1, <2>2, <2>3
<1>5. CASE UNCHANGED w
  <2>1. cache' = cache \/ (cache' = node' /\ node' = node)
    BY DEF Next, Reconcile, FetchNothing, Fetch, DeleteNode, DeleteNodeFails,
         ConsulUnavailable, ConsulFails, QueryUnknown, QueryKnown, QueryHealth,
         WriteGone, WriteStatus, RecreateNode, RecreateFails, SyncNode, Restart,
         ModuleCreatesNode, ModuleMarksNode, ConsulChanges
  <2> QED
    BY <1>5, <2>1
<1>6. CASE w # Idle /\ w' = [w EXCEPT !.fresh = FALSE] /\ cache' = cache
  BY <1>0, <1>6 DEF Busy
<1>7. CASE Reconcile
  <2>1. CASE FetchNothing
    BY <1>5, <2>1 DEF FetchNothing
  <2>2. CASE DeleteNode \/ DeleteNodeFails \/ ConsulFails \/ WriteGone
             \/ RecreateNode \/ RecreateFails
    BY <1>2, <2>2 DEF DeleteNode, DeleteNodeFails, ConsulFails, WriteGone,
                      RecreateNode, RecreateFails
  <2>3. CASE WriteStatus
    BY <1>2, <1>4, <2>3 DEF WriteStatus
  <2> QED
    BY <1>3, <1>4, <1>7, <2>1, <2>2, <2>3 DEF Reconcile
<1>8. CASE SyncNode \/ Restart \/ ConsulChanges
  BY <1>2, <1>5, <1>8 DEF SyncNode, Restart, ConsulChanges
<1>9. CASE ModuleCreatesNode \/ ModuleMarksNode
  BY <1>5, <1>6, <1>9 DEF ModuleCreatesNode, ModuleMarksNode, NodeChanges
<1> QED
  BY <1>7, <1>8, <1>9 DEF Next

LEMMA LifeInit == HistoryInit => LifeInv
<1>1. HistoryInit => NodeInv
  BY NodeInit DEF HistoryInit
<1>2. Init => node = NoNode /\ cache = NoNode /\ w = Idle /\ w.stage = "idle"
  BY DEF Init, Idle
<1> QED
  BY <1>1, <1>2 DEF Life!Due, HistoryInit, LifeInv, DoomedInv

LEMMA LifeInvKept == LifeInv /\ [HistoryNext]_<<vars, doomed>> => LifeInv'
<1>1. ASSUME LifeInv, HistoryNext
      PROVE  LifeInv'
  <2>1. NodeInv'
    BY <1>1, NodeReconcile, NodeEnvironment DEF LifeInv, HistoryNext, Next
  <2>2. doomed' = (doomed \/ Life!Due(node'))
    BY <1>1 DEF HistoryNext
  <2>3. /\ cache' = cache \/ (cache' = node' /\ node' = node)
        /\ w'.stage = "delete" => (w.stage = "delete" \/ Life!Due(cache))
        /\ w' # Idle => (w # Idle \/ cache # NoNode)
    BY <1>1, CopiesStep DEF LifeInv, HistoryNext
  <2>4. node # NoNode /\ node' = NoNode => doomed
    <3>1. CASE (WriteGone \/ WriteStatus) /\ StatusWritten
      BY <1>1, <3>1, WriterNotDue, NodeUtilsAssumption DEF LifeInv, Node
    <3>2. CASE DeleteNode
      BY <1>1, <3>2 DEF DeleteNode, LifeInv, DoomedInv
    <3>3. CASE ModuleMarksNode
      BY <1>1, <3>3, NodeUtilsAssumption
         DEF ModuleMarksNode, NodeChanges, LifeInv, NodeInv, TypeOK, Node
    <3> QED
      BY <1>1, <3>1, <3>2, <3>3, Writers
         DEF HistoryNext, RecreateNode, ModuleCreatesNode
  <2> QED
    BY <1>1, <2>1, <2>2, <2>3, <2>4 DEF LifeInv, DoomedInv, Life!Due
<1>2. LifeInv /\ UNCHANGED <<vars, doomed>> => LifeInv'
  BY DEF LifeInv, DoomedInv, NodeInv, TypeOK, CopyInv, Life!Due, vars, cacheVars, counters
<1> QED
  BY <1>1, <1>2

LEMMA LifeInvInductive == HistorySpec => []LifeInv
BY LifeInit, LifeInvKept, PTL DEF HistorySpec

\* The Node controller, with the Module controller writing the same Node, keeps
\* to the life of a Node.
THEOREM NodeControllerImplementsLife == HistorySpec => ImplementsLife
<1>1. HistoryInit => Life!Init
  BY DEF HistoryInit, Init, Life!Init
<1>2. LifeInv /\ [HistoryNext]_<<vars, doomed>> => [Life!Next]_<<node, doomed>>
  BY LifeStep DEF vars
<1> QED
  BY <1>1, <1>2, LifeInvInductive, PTL DEF HistorySpec, ImplementsLife, Life!Spec
=============================================================================
