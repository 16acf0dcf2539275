---------------------------- MODULE MCNodeUtils ----------------------------
(* The helpers of NodeUtils against reference definitions, over every list *)
(* of up to MaxNodes nodes.                                                *)
EXTENDS NodeUtils

CONSTANT MaxNodes

ASSUME MaxNodesAssumption == MaxNodes \in Nat

VARIABLE nodes

\* Never reported, gone, and machines with or without metadata.
Samples ==
    {NoNode, NewNode, [NewNode EXCEPT !.status.id = Gone]} \cup
    [marked : {FALSE},
     status : [id : {Machine}, image : Images \cup {None},
               flavor : Flavors \cup {None}, passing : BOOLEAN]]

Ids == 0 .. (MaxNodes - 1)

Init == nodes = [i \in Ids |-> NoNode]

Next == \E i \in Ids : \E n \in Samples \ {nodes[i]} :
          nodes' = [nodes EXCEPT ![i] = n]

Spec == Init /\ [][Next]_nodes

\* NodesAreConsistent gives the same verdict whichever healthy node the
\* unordered list shows first: the nodes are consistent if none is healthy, or
\* if all the machines share one image and one flavor.  A machine that is not
\* healthy, even one without metadata, counts (utils/node.go, loop at line 72).
ConsistencyDetermined ==
    LET existing == {i \in Listed(nodes) : NodeExists(nodes[i])}
        uniform == \A i, j \in existing :
                     /\ nodes[i].status.image = nodes[j].status.image
                     /\ nodes[i].status.flavor = nodes[j].status.flavor
    IN  {r[1] : r \in NodesAreConsistent(nodes)} = {Healthy(nodes) = {} \/ uniform}
=============================================================================
