----------------------------- MODULE NodeUtils -----------------------------
(***************************************************************************)
(* The pure helpers of pkg/utils/node.go and pkg/utils/module.go, on which *)
(* the Module and the Service controllers base their decisions.            *)
(*                                                                         *)
(* A Node custom resource is a record [marked, status]: marked stands for  *)
(* Spec.DeletionDate # "", status for the part of NodeStatus that the      *)
(* helpers look at: the Consul ID of the machine, the image and flavor     *)
(* found in the Consul metadata ("" when absent) and whether every health  *)
(* check is "passing".  A list of Node resources is a function from node   *)
(* numbers (the i of the object name <service>-node-i) to Node records or  *)
(* NoNode; hostnames are built from i, so they are pairwise different.     *)
(***************************************************************************)
EXTENDS Integers, FiniteSets

CONSTANTS
    Images,      \* base images (Spec.Image of a Module, Consul Meta["image"])
    Flavors,     \* flavors (Spec.Flavor of a Module, Consul Meta["flavor"])
    NoNode       \* there is no Node resource with this number

None    == ""                        \* a Go string never assigned
Gone    == "non-existent-machine"    \* the ID of a host Consul does not know
Machine == "machine"                 \* the ID of a host Consul knows
NoConsul == "consul-connection-error" \* the ID when no Consul client can be made

NodeStatus == [id      : {None, Gone, Machine, NoConsul},
               image   : Images \cup {None},
               flavor  : Flavors \cup {None},
               passing : BOOLEAN]

Node == [marked : BOOLEAN, status : NodeStatus]

\* A Node created by the Module controller has a zero status: no checks, so
\* none of them fails.
ZeroStatus == [id |-> None, image |-> None, flavor |-> None, passing |-> TRUE]
NewNode == [marked |-> FALSE, status |-> ZeroStatus]

ASSUME NodeUtilsAssumption ==
    /\ None \notin Images
    /\ None \notin Flavors
    /\ NoNode \notin Node

-----------------------------------------------------------------------------
\* The Node resources that a list holds.
Listed(nodes) == {i \in DOMAIN nodes : nodes[i] # NoNode}

NodeExists(node) == node.status.id \notin {None, Gone}

EqNodeImage(node, image) == node.status.image = image

EqNodeFlavor(node, flavor) == node.status.flavor = flavor

\* Unlike NodeExists, a node whose status was never written counts.
GetNodesCount(nodes) ==
    Cardinality({i \in Listed(nodes) : nodes[i].status.id # Gone})

NodeIsHealthy(node) ==
    /\ NodeExists(node)
    /\ node.status.passing
    /\ node.status.image # None
    /\ node.status.flavor # None

Healthy(nodes) == {i \in Listed(nodes) : NodeIsHealthy(nodes[i])}

\* Mutant: the flavors are not compared.
ConsistentWithImageOnly(nodes, h) ==
    \A i \in Listed(nodes) \ {h} :
        NodeExists(nodes[i]) => EqNodeImage(nodes[h], nodes[i].status.image)

\* What NodesAreConsistent answers when h is the first healthy node of the
\* list: nodes that exist, other than h, must have the image and flavor of h.
ConsistentWith(nodes, h) ==
    \A i \in Listed(nodes) \ {h} :
        NodeExists(nodes[i]) =>
            /\ EqNodeFlavor(nodes[h], nodes[i].status.flavor)
            /\ EqNodeImage(nodes[h], nodes[i].status.image)

\* The pairs <<consistent, healthy node>> that NodesAreConsistent may return.
\* The list comes from the informer cache in no particular order, so any
\* healthy node may be met first; with none, the nodes count as consistent
\* and there is no healthy node to compare with (node number -1).
NodesAreConsistent(nodes) ==
    IF Healthy(nodes) = {}
    THEN {<<TRUE, -1>>}
    ELSE {<<ConsistentWith(nodes, h), h>> : h \in Healthy(nodes)}

\* Mutant: the list is sorted downwards.
TailsDescending(nodes, n, num) ==
    {T \in SUBSET Listed(nodes) :
        /\ Cardinality(T) = Cardinality(Listed(nodes)) - n
        /\ \A i \in Listed(nodes) \ T, j \in T : num[j] <= num[i]}

\* SortNodesByNumber orders the list by a number read from each hostname and
\* sort.Slice leaves the order of equal numbers open.  Tails(nodes, n, num) is
\* the set of all possible remainders once the first n nodes of the sorted
\* list are taken, num[i] being the number read from the hostname of node i.
Tails(nodes, n, num) ==
    {T \in SUBSET Listed(nodes) :
        /\ Cardinality(T) = Cardinality(Listed(nodes)) - n
        /\ \A i \in Listed(nodes) \ T, j \in T : num[i] <= num[j]}
=============================================================================
