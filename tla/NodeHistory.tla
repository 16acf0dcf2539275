---------------------------- MODULE NodeHistory ----------------------------
(***************************************************************************)
(* NodeController with a history variable, and the refinement of NodeLife. *)
(***************************************************************************)
EXTENDS NodeController

VARIABLE doomed    \* history: a Node of this name was once marked and gone

Life == INSTANCE NodeLife

HistoryInit == Init /\ doomed = FALSE

\* A step of NodeController, and what it leaves for the history.
HistoryNext == Next /\ doomed' = (doomed \/ Life!Due(node'))

HistorySpec == HistoryInit /\ [][HistoryNext]_<<vars, doomed>>

HistoryLiveSpec ==
    /\ HistorySpec
    /\ WF_vars(Reconcile) /\ WF_vars(SyncNode)

-----------------------------------------------------------------------------
\* Every write of the Node, by either controller and whatever copies they
\* hold, is a step of the Node's life: a Node is deleted only once a Node of its
\* name was marked and without machine, a mark stays, a Node that is due is not
\* revived, and a Node that node_controller.go:231 creates again has a mark
\* only if a predecessor was to be deleted.
ImplementsLife == Life!Spec
=============================================================================
