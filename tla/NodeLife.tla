------------------------------ MODULE NodeLife ------------------------------
(***************************************************************************)
(* What may happen to the Node resource with a given name, whoever writes  *)
(* it: the contract between the Module controller, which creates and marks *)
(* Nodes, and the Node controller, which reports their status, deletes     *)
(* them and, when a status cannot be written, creates them again.          *)
(*                                                                         *)
(* NodeController implements it with the Module controller as environment, *)
(* ModuleController, for each of its Nodes, with the Node controller as    *)
(* environment: what each assumes of the other is what the other does.     *)
(***************************************************************************)
CONSTANTS
    NodeStatus,    \* what may be reported
    ZeroStatus,    \* nothing was reported yet
    Gone,          \* the ID of a host Consul does not know
    NoNode         \* the Node does not exist

VARIABLES
    node,      \* the Node resource
    doomed     \* a Node of this name was once marked with its machine gone

\* A Node that is to be deleted.
Due(n) == n # NoNode /\ n.marked /\ n.status.id = Gone

Init == /\ node = NoNode
        /\ doomed = FALSE

Becomes(n) == /\ node' = n
              /\ doomed' = (doomed \/ Due(n))

\* A new Node has no status.  It may have a mark from its predecessor if it is
\* created from an old copy.
Appear == /\ node = NoNode
          /\ \E marked \in BOOLEAN :
               /\ marked => doomed
               /\ Becomes([marked |-> marked, status |-> ZeroStatus])

\* A mark for deletion is never taken back.
Mark == /\ node # NoNode
        /\ Becomes([node EXCEPT !.marked = TRUE])

\* A Node that is to be deleted is not revived.
Report == /\ node # NoNode
          /\ ~Due(node)
          /\ \E status \in NodeStatus : Becomes([node EXCEPT !.status = status])

\* A Node goes only if it is marked and its machine gone, or if one of its
\* predecessors was: a deletion decided for that one may be late.
Delete == /\ node # NoNode
          /\ doomed
          /\ Becomes(NoNode)

Next == Appear \/ Mark \/ Report \/ Delete

Spec == Init /\ [][Next]_<<node, doomed>>
=============================================================================
