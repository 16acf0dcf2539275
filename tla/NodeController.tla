--------------------------- MODULE NodeController ---------------------------
(***************************************************************************)
(* pkg/controller/node: the reconciler of one Node resource.  Every 30s it *)
(* copies what Consul says about the host into the Node's status, and it   *)
(* deletes a Node that is marked for deletion and whose host is gone.      *)
(*                                                                         *)
(* The Module controller creates and marks the same Node; Consul changes   *)
(* on its own.  As in ModuleController, reads come from an informer cache, *)
(* a status write with an old copy fails with a conflict, and fresh and    *)
(* w.fresh say that the cache's and the worker's copies are the latest.    *)
(* A deletion carries no precondition: it removes whatever Node has the    *)
(* name at that moment.                                                    *)
(***************************************************************************)
EXTENDS NodeUtils

CONSTANTS
    NoMachine,     \* Consul does not know the host
    MaxCreates,    \* bound on the Nodes created by the Module controller
    MaxFaults      \* bound on failed calls to the API or Consul, and restarts

\* What Consul holds about a host: its metadata and its health checks.
Host == [image : Images \cup {None}, flavor : Flavors \cup {None},
         checks : {"none", "passing", "failing"}]

ASSUME NodeAssumption ==
    /\ NoMachine \notin Host
    /\ MaxCreates \in Nat
    /\ MaxFaults \in Nat

VARIABLES
    node,      \* the Node in the API server
    cache,     \* the informer's copy of it
    fresh,     \* cache is the latest version
    consul,    \* what Consul knows of the host
    queued,    \* Reconcile will be called (again)
    w,         \* the worker: its stage and local variables
    creates, faults  \* counters bounding the environment

cacheVars == <<cache, fresh>>
counters == <<creates, faults>>
vars == <<node, cacheVars, consul, queued, w, counters>>

\* inst is the variable instance of Reconcile, with the status it is given on
\* the way: from Consul (query, health), ready to be written (gone, write), or
\* refused (create).
Idle == [stage |-> "idle"]
Stages == {"delete", "query", "health", "gone", "write", "create"}
Busy == [stage : Stages, inst : Node, fresh : BOOLEAN]

TypeOK ==
    /\ node \in Node \cup {NoNode}
    /\ cache \in Node \cup {NoNode}
    /\ fresh \in BOOLEAN
    /\ consul \in Host \cup {NoMachine}
    /\ queued \in BOOLEAN
    /\ w \in {Idle} \cup Busy
    /\ creates \in 0 .. MaxCreates
    /\ faults \in 0 .. MaxFaults

\* The Module controller has not created the Node yet.
Init ==
    /\ node = NoNode
    /\ cache = NoNode
    /\ fresh = TRUE
    /\ consul \in Host \cup {NoMachine}
    /\ queued = FALSE
    /\ w = Idle
    /\ creates = 0
    /\ faults = 0

-----------------------------------------------------------------------------
(* Operators of the reconciler *)

\* Mutant: the ID of an unknown host is left empty.
GoneStatusEmpty == ZeroStatus

GoneStatus == [ZeroStatus EXCEPT !.id = Gone]
NoConsulStatus == [ZeroStatus EXCEPT !.id = NoConsul]

\* Mutant: image and flavor are swapped.
WithPropertiesSwapped(status, host) ==
    [status EXCEPT !.id = Machine, !.image = host.flavor, !.flavor = host.image]

\* The properties of the status from Consul's catalog; the checks are left
\* as they were.
WithProperties(status, host) ==
    [status EXCEPT !.id = Machine, !.image = host.image, !.flavor = host.flavor]

\* The checks of the status, replaced only if Consul has some; a host that
\* left Consul meanwhile has none.
WithChecks(status, host) ==
    IF host = NoMachine \/ host.checks = "none"
    THEN status
    ELSE [status EXCEPT !.passing = (host.checks = "passing")]

\* Every return of Reconcile but one asks for another call in 30s.
ReturnRequeue == /\ w' = Idle
                 /\ queued' = TRUE

Continue(stage, status) ==
    /\ w' = [w EXCEPT !.stage = stage, !.inst.status = status]
    /\ UNCHANGED queued

Fault == /\ faults < MaxFaults
         /\ faults' = faults + 1

-----------------------------------------------------------------------------
(* The steps of Reconcile *)

\* The Node does not exist any more: nothing to do.
FetchNothing ==
    /\ w = Idle
    /\ queued
    /\ cache = NoNode
    /\ queued' \in BOOLEAN   \* another timer may be pending
    /\ UNCHANGED <<node, cacheVars, consul, w, counters>>

\* Mutant: the mark is not looked at.
FetchUnmarked ==
    /\ w = Idle
    /\ queued
    /\ cache # NoNode
    /\ queued' \in BOOLEAN
    /\ w' = [stage |-> IF cache.status.id = Gone THEN "delete" ELSE "query",
             inst |-> cache, fresh |-> fresh]
    /\ UNCHANGED <<node, cacheVars, consul, counters>>

\* A marked Node without machine goes; for the others Consul is asked.
Fetch ==
    /\ w = Idle
    /\ queued
    /\ cache # NoNode
    /\ queued' \in BOOLEAN   \* another timer may be pending
    /\ w' = [stage |-> IF cache.marked /\ cache.status.id = Gone
                       THEN "delete" ELSE "query",
             inst |-> cache, fresh |-> fresh]
    /\ UNCHANGED <<node, cacheVars, consul, counters>>

DeleteNode ==
    /\ w.stage = "delete"
    /\ node # NoNode
    /\ node' = NoNode
    /\ fresh' = FALSE
    /\ ReturnRequeue
    /\ UNCHANGED <<cache, consul, counters>>

DeleteNodeFails ==
    /\ w.stage = "delete"
    /\ \/ node = NoNode /\ UNCHANGED faults
       \/ Fault
    /\ ReturnRequeue
    /\ UNCHANGED <<node, cacheVars, consul, creates>>

\* Mutants: only the IDs are compared; the version is not checked.
StatusUpToDateById ==
    /\ cache # NoNode
    /\ cache.status.id = w.inst.status.id
    /\ UNCHANGED <<node, fresh, faults>>
StatusWrittenAnyway ==
    /\ cache # NoNode
    /\ cache.status # w.inst.status
    /\ node # NoNode
    /\ node' = [node EXCEPT !.status = w.inst.status]
    /\ fresh' = FALSE
    /\ UNCHANGED faults

\* UpdateNodeStatusIfNeeded with its outcomes: the cached Node has this status
\* already, the status is written, or an error comes back (the Node is not in
\* the cache, the copy is old, the Node is gone, the API fails).
StatusUpToDate ==
    /\ cache # NoNode
    /\ cache.status = w.inst.status
    /\ UNCHANGED <<node, fresh, faults>>

StatusWritten ==
    /\ cache # NoNode
    /\ cache.status # w.inst.status
    /\ w.fresh
    /\ node' = [node EXCEPT !.status = w.inst.status]
    /\ fresh' = FALSE
    /\ UNCHANGED faults

StatusRefused ==
    /\ \/ cache = NoNode /\ UNCHANGED faults
       \/ /\ cache # NoNode
          /\ cache.status # w.inst.status
          /\ \/ ~w.fresh /\ UNCHANGED faults
             \/ Fault
    /\ UNCHANGED <<node, fresh>>

\* The Consul client cannot be made: publish an errored status.
ConsulUnavailable ==
    /\ w.stage = "query"
    /\ faults < MaxFaults
    /\ faults' = faults + 1
    /\ Continue("gone", NoConsulStatus)
    /\ UNCHANGED <<node, cacheVars, consul, creates>>

\* A call to Consul fails.
ConsulFails ==
    /\ w.stage \in {"query", "health"}
    /\ Fault
    /\ ReturnRequeue
    /\ UNCHANGED <<node, cacheVars, consul, creates>>

QueryUnknown ==
    /\ w.stage = "query"
    /\ consul = NoMachine
    /\ Continue("gone", GoneStatus)
    /\ UNCHANGED <<node, cacheVars, consul, counters>>

QueryKnown ==
    /\ w.stage = "query"
    /\ consul # NoMachine
    /\ Continue("health", WithProperties(w.inst.status, consul))
    /\ UNCHANGED <<node, cacheVars, consul, counters>>

QueryHealth ==
    /\ w.stage = "health"
    /\ Continue("write", WithChecks(w.inst.status, consul))
    /\ UNCHANGED <<node, cacheVars, consul, counters>>

\* An errored or empty status: an error only means another call in 30s.
WriteGone ==
    /\ w.stage = "gone"
    /\ StatusUpToDate \/ StatusWritten \/ StatusRefused
    /\ ReturnRequeue
    /\ UNCHANGED <<cache, consul, creates>>

\* The status of a machine: any error is taken for a missing Node.
WriteStatus ==
    /\ w.stage = "write"
    /\ \/ (StatusUpToDate \/ StatusWritten) /\ ReturnRequeue
       \/ StatusRefused /\ Continue("create", w.inst.status)
    /\ UNCHANGED <<cache, consul, creates>>

\* Create the Node again from the worker's copy.  The API server drops the
\* status of an object created with a status subresource.
RecreateNode ==
    /\ w.stage = "create"
    /\ node = NoNode
    /\ node' = [w.inst EXCEPT !.status = ZeroStatus]
    /\ fresh' = FALSE
    /\ ReturnRequeue
    /\ UNCHANGED <<cache, consul, counters>>

RecreateFails ==
    /\ w.stage = "create"
    /\ \/ node # NoNode /\ UNCHANGED faults
       \/ Fault
    /\ ReturnRequeue
    /\ UNCHANGED <<node, cacheVars, consul, creates>>

Reconcile ==
    \/ FetchNothing \/ Fetch \/ DeleteNode \/ DeleteNodeFails
    \/ ConsulUnavailable \/ ConsulFails
    \/ QueryUnknown \/ QueryKnown \/ QueryHealth
    \/ WriteGone \/ WriteStatus \/ RecreateNode \/ RecreateFails

-----------------------------------------------------------------------------
(* The informer cache and the operator process *)

SyncNode ==
    /\ ~fresh
    /\ cache' = node
    /\ fresh' = TRUE
    /\ queued' = TRUE
    /\ UNCHANGED <<node, consul, w, counters>>

Restart ==
    /\ Fault
    /\ ReturnRequeue
    /\ cache' = node
    /\ fresh' = TRUE
    /\ UNCHANGED <<node, consul, creates>>

-----------------------------------------------------------------------------
(* The environment *)

\* Another writer changes the Node: both copies are old.
NodeChanges(n) ==
    /\ node' = n
    /\ fresh' = FALSE
    /\ w' = IF w = Idle THEN w ELSE [w EXCEPT !.fresh = FALSE]

ModuleCreatesNode ==
    /\ creates < MaxCreates
    /\ creates' = creates + 1
    /\ node = NoNode
    /\ NodeChanges(NewNode)
    /\ UNCHANGED <<cache, consul, queued, faults>>

ModuleMarksNode ==
    /\ node # NoNode
    /\ ~node.marked
    /\ NodeChanges([node EXCEPT !.marked = TRUE])
    /\ UNCHANGED <<cache, consul, queued, counters>>

\* A machine registers in Consul, changes there, or leaves.
ConsulChanges ==
    /\ consul' \in (Host \cup {NoMachine}) \ {consul}
    /\ UNCHANGED <<node, cacheVars, queued, w, counters>>

Next ==
    \/ Reconcile
    \/ SyncNode \/ Restart
    \/ ModuleCreatesNode \/ ModuleMarksNode \/ ConsulChanges

Spec == Init /\ [][Next]_vars

-----------------------------------------------------------------------------
(* Properties *)

\* A mark for deletion is final: no status write of a worker with an older
\* copy, no conflict handling and no creation by the fallback takes it back
\* while the Node exists, and a marked Node once seen without a machine is
\* not revived by a machine that shows up later.
DeletionIsFinal ==
    [][ (node # NoNode /\ node.marked /\ node' # NoNode)
        => /\ node'.marked
           /\ node.status.id = Gone => node'.status.id = Gone ]_vars

-----------------------------------------------------------------------------
(* What the code says and does not do *)

\* node_controller.go:110, "node %s has no ID and deletion date set (%s) -
\* deleting": a Node that is deleted has its deletion date set.
DeletesOnlyMarked ==
    [][ (node # NoNode /\ node' = NoNode) => node.marked ]_vars

-----------------------------------------------------------------------------
(* Liveness *)

\* The worker and the watch keep going.
LiveSpec == Spec /\ WF_vars(Reconcile) /\ WF_vars(SyncNode)

\* A marked Node whose machine has left Consul for good is deleted for good.
MarkedIsDeleted ==
    <>[](consul = NoMachine /\ (node # NoNode => node.marked))
        => <>[](node = NoNode)

\* If Consul keeps saying the same of the host, the Node comes to say it too.
StatusCatchesUp ==
    /\ <>[](consul = NoMachine) => <>[](node # NoNode => node.status.id = Gone)
    /\ \A h \in Host :
         <>[](consul = h) =>
           <>[](node # NoNode => /\ node.status.id = Machine
                                 /\ node.status.image = h.image
                                 /\ node.status.flavor = h.flavor)
=============================================================================
