------------------------------ MODULE Automium ------------------------------
(***************************************************************************)
(* The system around one Module: the Module controller, the provisioner    *)
(* its Jobs run, the machines, and the Node controller that publishes what *)
(* Consul says about them.  ModuleController leaves open what the reports  *)
(* say and when a pod succeeds; here a running pod works on the machines,  *)
(* and the reports come from the machines.                                 *)
(*                                                                         *)
(* The Node controller is the coarse one of ModuleController; a deletion   *)
(* that comes late, and the creation that follows it, are left to          *)
(* NodeController.                                                         *)
(***************************************************************************)
EXTENDS ModuleController

VARIABLES
    machines,     \* what Consul says about the machine of each Node
    overlapped    \* history: a pod has outlived its Job

systemVars == <<vars, machines, overlapped>>

NoMachine == [ZeroStatus EXCEPT !.id = Gone]

SystemTypeOK ==
    /\ TypeOK
    /\ machines \in [NodeIds -> NodeStatus]
    /\ overlapped \in BOOLEAN

SystemInit ==
    /\ Init
    /\ machines = [i \in NodeIds |-> NoMachine]
    /\ overlapped = FALSE

\* The machines a provisioner makes: the first QUANTITY ones of its Job, with
\* IMAGE and FLAVOR, or none when its command is "./remove".
Wanted(env, command) ==
    [i \in NodeIds |->
       IF command # "./remove" /\ i < env.QUANTITY
       THEN [id |-> Machine, image |-> env.IMAGE, flavor |-> env.FLAVOR,
             passing |-> TRUE]
       ELSE NoMachine]

\* The running pod brings one machine to what its Job wants.
Provision ==
    /\ pod = "running"
    /\ \E i \in NodeIds :
         /\ machines[i] # Wanted(job.env, job.command)[i]
         /\ machines' = [machines EXCEPT ![i] = Wanted(job.env, job.command)[i]]
    /\ UNCHANGED <<vars, overlapped>>

\* A pod that has outlived its Job goes on with what that Job wanted.
StrayProvision ==
    /\ strays
    /\ \E i \in NodeIds, machine \in Reports :
         machines' = [machines EXCEPT ![i] = machine]
    /\ UNCHANGED <<vars, overlapped>>

\* A pod succeeds only when every machine is as its Job wants it.  It works
\* for minutes: the informer shows the Nodes as they are before it ends.
PodEnds ==
    /\ PodExits
    /\ nodesFresh = NodeIds
    /\ pod' = "succeeded" => machines = Wanted(job.env, job.command)

\* The Node controller looks a host up in Consul and publishes what it finds.
ReportMachine ==
    /\ NodeReport
    /\ \A i \in NodeIds : nodes'[i] # nodes[i] => nodes'[i].status = machines[i]

\* It deletes a Node that is due.
DeleteDue ==
    /\ NodeDeleted
    /\ \A i \in NodeIds : nodes'[i] # nodes[i] => Due(nodes[i])

ControllerStep ==
    \/ Reconcile \/ SyncModule \/ SyncJob \/ SyncNodes \/ Restart \/ UpdateSpec
    \/ StartPod \/ PodEnds \/ StrayExits
    \/ PublishActive \/ PublishEnd \/ PublishRetry
    \/ ReportMachine \/ DeleteDue

SystemNext ==
    \/ /\ ControllerStep
       /\ overlapped' = (overlapped \/ strays')
       /\ UNCHANGED machines
    \/ Provision
    \/ StrayProvision

SystemSpec == SystemInit /\ [][SystemNext]_systemVars

\* The provisioner and the Node controller keep going too.
SystemLiveSpec ==
    /\ SystemSpec
    /\ Fairness
    /\ WF_systemVars(Provision)
    /\ WF_systemVars(ReportMachine /\ UNCHANGED <<machines, overlapped>>)
    /\ WF_systemVars(DeleteDue /\ UNCHANGED <<machines, overlapped>>)

-----------------------------------------------------------------------------
(* Properties *)

\* The machines the Module asks for, and no other.
AsWanted(spec) == machines = Wanted(batchEnvVars(spec), "./deploy")

\* When a Module turns Completed the machines are the ones its spec in the API
\* asks for, whatever earlier Jobs did or left unfinished (the comparison of
\* the Job with the Module, module_controller.go:233-262, and the phase asked of
\* it, :292-317), unless two provisioners may have worked side by side.
CompletedIsTrue ==
    [][ (/\ module.status.phase # "Completed"
         /\ module'.status.phase = "Completed")
        => AsWanted(module'.spec) \/ overlapped ]_systemVars

Delivered ==
    /\ module.status.phase = "Completed"
    /\ AsWanted(module.spec)
    /\ \A i \in 0 .. (module.spec.replicas - 1) :
         nodes[i] # NoNode /\ nodes[i].status = machines[i]

\* Once the spec stays the same the system delivers it: the Module is Completed
\* for good, the machines are the wanted ones, each has its Node, and the Node
\* says so; or the Job failed.  A scale down that is taken back while Nodes
\* are marked, machines removed or Nodes deleted is delivered too.
Delivers == <>[](overlapped \/ module.status.phase = "Failed" \/ Delivered)
=============================================================================
