------------------------------ MODULE MCModule ------------------------------
(* Small instances of ModuleController for TLC. *)
EXTENDS ModuleController

\* Hostnames with no number but the final one, e.g. "web-0".
NoDigits == <<>>

\* Only no machine.
GoneReports == {[ZeroStatus EXCEPT !.id = Gone]}

\* Statuses the Node controller reports: no machine, and healthy or critical
\* machines of every image and flavor.
MachineReports ==
    GoneReports \cup
    [id : {Machine}, image : Images, flavor : Flavors, passing : BOOLEAN]

\* Only no machine and healthy machines.
HealthyReports == {s \in MachineReports : s.passing}

\* Only healthy machines of one image, old or new depending on the spec.
OneImageReports ==
    LET image == CHOOSE i \in Images : TRUE
    IN  {s \in HealthyReports : s.id = Machine /\ s.image = image}

\* Bound: the pods of a Job do not fail and none outlives its Job.
SmoothJobs == pod # "failed" /\ ~strays

\* Bound: when the Nodes are listed, the list shows all of them.
ListsAreComplete == w.stage = "nodes" => Listed(nodesCache) = Listed(nodes)
=============================================================================
