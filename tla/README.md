# Automium: models, checks and proofs

Automium is a Kubernetes operator that turns *Services* (a Kubernetes cluster, a
node pool, another application on virtual machines) into machines.  One process
(`cmd/manager`) runs several controllers; each has a `Reconcile` function that is
called with the name of one object, reads that object from an informer cache,
and writes other objects.  The controllers never call each other: they interact
through the objects in the Kubernetes API server, through its watches, and
through what the provisioner Jobs do to the machines and Consul then reports.

## Inventory

| Component | State it keeps | Operations | Hard behaviour |
|---|---|---|---|
| Service controller, `pkg/controller/service` | the Module of a Service, `Status.Phase` of the Service, the extras (Monitoring, Backup, Logging) | create/update the Module, copy the phase, create/update/delete the extras | old caches, conflicts, users who edit and delete meanwhile, crash |
| Module controller, `pkg/controller/module` | one provisioner Job per Module, the Node objects, `Status` of the Module | choose the action, create/replace the Job, create/mark Nodes, publish the status | a Job that runs on its own, caches of three kinds that lag, status writes that wake the controller, returns without a timer |
| Node controller, `pkg/controller/node` | `Status` of a Node, the Node itself | copy what Consul says, delete a marked Node | Consul changes between the calls, two writers of a Node, deletion without precondition, creation as a fallback for any error |
| Helpers, `pkg/utils/{node,module}.go` | none | count, health, consistency, sorting; comparison of Modules | unordered lists, equal keys, empty fields |
| Application controller, `pkg/controller/application` | `Status` of an Application, the application in Rancher | looks the application up in Rancher, installs or upgrades it, publishes a phase | remote calls that fail between two steps or take effect after they were given up, a watch that drops updates of the status, failures that set no timer |
| Rancher HTTP client, `application_http.go` | none | one request, 10 s timeout | a timeout says nothing about what Rancher does |
| Monitoring, Backup, Logging controllers | one Application per extra | create/update the Application | no timer at all; conflicts with the Application controller's status writes |
| Slack, `pkg/slack`, `pkg/utils/service.go` | none | posts a message | none |
| Manager, `cmd/manager` | none | starts everything | a restart loses every call in progress and every timer |
| Admission policies, `opa` | none | evaluated by Gatekeeper | optional at deployment |

The flow: a user writes a **Service**; the Service controller writes a **Module**;
the Module controller creates a **Job**, whose pod builds or destroys machines,
and the **Nodes**, one per machine; the machines register in Consul; the Node
controller copies that into the Nodes' statuses; the Module controller counts
them into the Module's status, and the Service controller copies the phase to the
Service and, once a cluster is *Completed*, manages the extras.

What makes each component correct:

* Service controller: the Module ends up as the Service asks, the phase
  follows, extras exist only for a cluster that was up and end up as listed,
  nothing is left behind by a deleted Service, no Service kills the operator,
  and the controller is always woken again.
* Module controller: the last Job that ran is the one for the current spec,
  *Completed* is never published without it, the controller does not fall asleep
  on unfinished work, two provisioners do not run at once, scaling down never
  destroys a node that the spec keeps, published counts are true.
* Node controller: statuses follow Consul, a marked Node without machine goes,
  a mark is never lost, only marked Nodes without machine go.
* Helpers: verdicts do not depend on the order of a list.
* Application controller: *Deployed* is published only for what Rancher accepted,
  Rancher ends up with the spec of the Application, and the controller gives up
  only after a failure it has published or tried to publish.
* Controllers of extras: the Application ends up as the extra asks, and goes with it.
* Together: a Module that is *Completed* has the machines it asks for, a spec that
  stays is delivered, and what the Module and the Node controller do to a Node is
  what each assumes of the other.

## Modules

| Module | Models |
|---|---|
| `NodeUtils` | the pure helpers of `pkg/utils/node.go`, the records for a Node and its status |
| `MCNodeUtils` | walks through every list of up to `MaxNodes` nodes and compares `NodesAreConsistent` with a reference definition |
| `ModuleController` | the Module controller for one Module (extends `NodeUtils`) |
| `NodeController` | the Node controller for one Node (extends `NodeUtils`) |
| `NodeLife` | abstract: what may happen to the Node of a given name, whoever writes it |
| `NodeHistory` | `NodeController` with the history variable that `NodeLife` needs, and the refinement |
| `Operator` | both controllers of a Node in one process: `ModuleController`, and for one of its Nodes `NodeController`, each in full (extends `NodeHistory`, instantiates `ModuleController`) |
| `Automium` | the Module controller, the provisioner, the machines and the Node controller together (extends `ModuleController`) |
| `ServiceController` | the Service controller for one Service, with `IsModuleDifferent` and `EqualEnvVars` of `pkg/utils/module.go` |
| `ApplicationController` | the actions of the Application controller, of the watch and of Rancher for one Application |
| `ExtraController` | the controller of an extra (Monitoring, Backup and Logging are three copies of it) together with the Application controller (extends `ApplicationController`) |
| `MCModule`, `MCAutomium`, `MCService`, `MCExtra` | values of the constants and bounds for TLC |
| `NodeUtilsProofs`, `ModuleControllerProofs`, `NodeControllerProofs`, `NodeHistoryProofs`, `AutomiumProofs`, `ServiceControllerProofs`, `ExtraControllerProofs`, `OperatorProofs` | theorems |

### How code becomes actions

A controller runs one worker per kind of object (`MaxConcurrentReconciles` is 1
by default) and a work queue never hands out one key twice at a time, so a
single worker `w` per object is exact.  One call of `Reconcile` is a chain of
actions: the code between two accesses to the API server or to Consul is one
action, as a step of another process within it would change nothing it sees.  `w.stage` says where
the call is, the other fields of `w` are the local variables that are used later,
with the names they have in the code.  Every early return, error and requeue is
an action or a disjunct.

* **Caches.**  `Get` and `List` read informer caches.  `moduleCache`, `jobCache`,
  `nodesCache`, `cache`, `serviceCache`, `extraCache` are the copies; an action `Sync...`
  makes a copy the latest version and enqueues the object, as the watch's handler does.
  The Module controller does not watch Nodes, so `SyncNodes` enqueues nothing.
* **Loops over Nodes.**  `manageNodesForModule` lists the Nodes once and then makes one
  call per Node: `MissingNodes` or `ExtraNodes` is the list, `CreateNode` or `MarkNode` one
  call, and `w.todo` the Nodes still to come.  The Node controller may act between any two
  of them; `w.latest` says of which Nodes the listed copy is still the latest version, as
  the `Update` of another one is refused.
* **Optimistic locking.**  The API server refuses the write of a copy that is
  not the latest version.  `...Fresh`, `fresh` and `w.fresh` say that the copy in
  the cache, or the worker's, is the latest; a write needs it and clears
  it for the cache.  The conflict is the `...Refused`/`...Fails` alternative.
* **Queue and timers.**  `queued` is true if the key is in the work queue or a
  timer (`RequeueAfter`, back-off after an error) will put it there.  All timers
  are finite and nothing depends on their length, so one boolean is enough.  A call
  that an event triggers does not cancel a pending `RequeueAfter`: taking the key
  from the queue may leave `queued` true.
* **Faults.**  Any API or Consul call may fail and the process may restart at any
  time; a restart drops the call in progress and refills the caches.  Both
  count against `MaxFaults`.  Conflicts, *already exists* and *not found* are
  outcomes of the protocol and are not counted.  `module_live` and
  `automium` have no faults: with finitely many they would only delay.  `module_scale` has
  none for its size; its two properties are theorems for any number of them.
* **Environment.**  Each module has the other writers of its objects as actions:
  for the Module controller the Service controller (`UpdateSpec`), Kubernetes' Job
  controller with the pod it runs (`StartPod`, `PodExits`, `Publish...`), the
  Node controller (`NodeReport`, `NodeDeleted`); for the Node controller the
  Module controller and Consul; for the Service controller the users, the Module
  controller and Kubernetes' garbage collector; for the controllers of extras the
  Service controller, the garbage collector and Rancher.
* **The watch of the Application controller** has a predicate that drops every
  update in which the status changed.  So here, unlike elsewhere, it matters which
  versions the informer sees one after the other: `events` is the sequence it has yet
  to deliver, `Relist` the broken watch that shows only the last one.
* **Rancher.**  `installed` is what it has, `late` holds requests whose answer was
  lost or came too late and which may still be carried out (`LateArrives`);
  `reachable` says whether it knows the cluster and the project.

### One Node, two controllers

`NodeLife` is the contract between the two controllers that write a Node: it
appears without a status, a mark stays, a marked Node without machine is not
revived, and it goes only if it, or an earlier Node of its name, was marked and
without machine.  That last disjunction is what the code really gives, as a deletion
by name may be late.  `NodeHistory` shows that the Node controller implements it with
the Module controller as its environment; `ModuleController` shows, for each of its
Nodes, that the Module controller implements it with the Node controller as its
environment.  So the environment actions `NodeReport`, `NodeDeleted` and
`NodeRecreated` of one module are justified by the other, and the reverse.

That argument is made formal by `Operator`, where neither controller is an environment.
It has the variables of `ModuleController` and, for its Node `me`, those of
`NodeController`; the Nodes of the Module are `me`'s and `others`, so what one controller
writes the other one sees (`NodeSeesChange` makes the Node controller's copies old).  The
`others` keep the coarse Node controller of `ModuleController`; `me` is any one Node.  A
restart takes both.  `OperatorProofs` proves that this process implements
`HistorySpec` and the specification of `ModuleController` both; so each controller's theorems
hold beside the other as it is.  `Operator` has no run of its own: the product of the two
is out of TLC's reach with bounds at which a Node is deleted late and created again, and all it
is there for is those theorems.  They ask that the Module controller expects every status
(`NodeStatus \subseteq Reports`), and that `me` is a Node of the Module.

### The system

`Automium` closes `ModuleController`: pods work on `machines`, one at a time, towards
what their Job wants; a pod succeeds only when it is done; the Node controller
reports what the machines are.  The Node controller is coarse there (a report or a
deletion is one step); `NodeRecreated` and late deletions are left out, since with
them, as often as they like, nothing would ever be delivered.  A pod that outlives
its Job (`overlapped`, the behaviour of `module_overlap`) may do anything to the
machines while it runs, and both `CompletedIsTrue` and `Delivers` excuse what follows.
`Delivered` speaks of the wanted Nodes only: extra ones may be left unmarked, as
`module_extra` shows.

### Abstractions

* A Node's status is what decisions look at: Consul ID (never written, gone,
  a machine, no Consul), image, flavor, and whether all checks pass.  Addresses,
  outputs of checks and dates are left out; `marked` is `DeletionDate # ""`.
* A Node is known by its number i (`<service>-node-<i>`).  Its hostname is a prefix made
  of the names of the cluster and the service, or of the application, and then `-<i>`
  (`module_controller.go:437-455`).  `NameNumbers` are the numbers in the prefix, and
  `FirstNumber[i]`, the key of `SortNodesByNumber`, is the first of them, or i if there
  are none.  The prefix is taken not to change: edits of `CLUSTER_NAME` are left out, and so
  are numbers that are too long for an int.
* A Job is its environment, its command and what `StartTime`, `Active` and
  `Conditions` say together.  Its pods: the current one and `strays`, whether one of
  a deleted Job still runs (deleting a Job orphans its pods).  The pods that
  `Reconcile` deletes first come from an old list, and each deletion may fail.
* Intermediate versions that a cache may go through are skipped; it jumps to the
  latest one, and `nodesCache` catches up with all the Nodes at once.  Informers' periodic resync (10 hours) is ignored, since it would
  only repair what the liveness properties ask for.
* Events, log lines and Slack messages are left out.  The errors of
  `manageNodesForModule` that depend on the Module alone (no annotations, no
  `CLUSTER_NAME` for a node pool) are left out: they end in the same return as
  `CreateNodeFails`.
* In `ServiceController` an extra is its version and parameters.  Nobody else
  writes extras, so its cached copy is the latest iff it is equal.
* The Module is not deleted in `ModuleController`; its deletion with the Service
  is in `ServiceController`.
* In `ApplicationController` the answers are the parameters: the default answers
  depend on the name, the cluster and the process's environment only.  The lookups of
  cluster and project are one action, as both only read; so are the three requests of
  `deployApplication`, of which only the last changes what later steps see.  The
  error text of the status goes with the phase *Failed*; it is left out, but for the
  predicate after a relist, to which two *Failed* may differ (`FailedAgain`).
* `ExtraController` takes the three extras as one; they differ in names only.

## Runs

`CHECK_DEADLOCK FALSE` is set where the system may stop: a Module that is settled
and a Service that is deleted.  The Node controller always has a timer.

| Run | Properties | Instance, and why it is enough |
|---|---|---|
| `utils` | ConsistencyDetermined | all lists of up to 3 nodes, 2 images, 2 flavors; three nodes are one to compare with and two that may differ |
| `module_churn` | TypeOK, Settled, CompletedIsEarned | one node, `Replicas` {0,1}, 2 images, 1 edit, 1 fault; the node reports one of the images, so `./deploy`, `./upgrade` and `./remove` replace each other, and the edit may hit a call that still works for the spec before |
| `module_scale` | MarksHighest, ImplementsLife | 2 nodes, scaling between 0, 1 and 2, so that either Node or both may be extra; Nodes are deleted late and created again, also between a list and the writes that follow it; the only report is a machine that is gone, as nothing but that and the marks decides which Nodes exist; `SmoothJobs`: no pod fails or outlives its Job, which `module_churn` has |
| `module_live` | FalseCompletedCorrected, Converges, JobCatchesUp | one node, `Replicas` {0,1}, 1 edit, all caches lag, liveness; the only report is a healthy machine, so that a Node has no status, counts or is marked |
| `node` | TypeOK, DeletionIsFinal, MarkedIsDeleted, StatusCatchesUp, ImplementsLife | the Node created twice (the smallest number that gives a call with a copy of the Node before), 2 faults; hosts without flavor, which is handled as the image is |
| `service` | TypeOK, ExtrasNeedCluster, AlwaysAwake, ModuleFollows, PhaseFollows, NoOrphanModule, ExtrasFollow | 5 specs (another version, more variables, no replicas, nil parameters, an unknown extra), 3 changes (one to reach Completed, two edits or an edit and the deletion), 1 fault |
| `extras` | ExtraTypeOK, SleepsOnlyOnFailure, ExtraSettled, DeployedIsEarned, ApplicationFollows, RolledOut | 2 specs; `FewEvents`: two changes of the extra (an edit, and its taking back or the deletion), or one change and one fault (a failed or late call, a relist, a restart); the cluster comes and goes without bound |
| `automium` | SystemTypeOK, CompletedIsTrue, Delivers | one node, 2 images, 2 edits, so that a scale down can be taken back at any moment; `SmoothRollouts`: no pod fails, the first spec wants a replica, the edits one image, a call works on an old Module only after an edit, and a pod that has outlived its Job is followed until it ends or the Job is replaced, as the properties excuse the rest |

`Settled` deserves a word.  The Module controller's last return carries no timer
and Nodes are not watched, so at that point only a change of the Module or the
Job wakes it.  `Quiescent` says that nothing will wake it any more;
`Settled` says what must be true then.  `AlwaysAwake` is the counterpart for the
Service controller, which has timers everywhere but after a creation.  `ExtraSettled` is
the one for the controllers of extras, which have no timer at all.

The definitions commented *Mutant* belong to no specification: each is a version of
the definition below it with a plausible mistake in it, and is kept to show that
the property named in `PROJECT.json` finds the mistake in its run.

### Where the code does not do what it says

Each of these runs checks one property that a comment, a type or the
documentation of the repository states, and TLC shows a behaviour that breaks it.

| Run | Property | Behaviour |
|---|---|---|
| `module_overlap` | OneProvisioner | the cached Job has no active pod yet, the real one has: the Job is replaced under a running provisioner |
| `module_extra` | ExtraNodesMarked | the result of `r.Update` on an extra node is dropped: a conflict leaves it unmarked; `ListsAreComplete` keeps out the shorter way to it, a list that does not show the Node yet |
| `node_marked` | DeletesOnlyMarked | a deletion decided on an old copy hits the Node created again under the name |
| `service_rename` | ModuleFollows | a renamed variable is not seen; `service` shows the property for lists without renaming |

Other behaviour of this kind, met while modelling and not kept as runs:

* Logging without parameters, which `service_types.go:48` declares optional, makes
  `manageLoggingExtra` write into a nil map: the process dies and is started again, for
  as long as the cluster is Completed and the spec is not repaired.  The action `Panic`
  has it; `ExtrasFollow` excludes such specs (`Manageable`).
* An Application whose installation failed is not tried again: no timer is set and
  the predicate drops the update to *Failed*.  `SleepsOnlyOnFailure` says that nothing
  else puts that controller to sleep.
* A relist that shows a change of the spec and a change of the status as one update is
  dropped too; `merged` marks it, and the controller then sleeps on the older spec.
* The three controllers of extras never set a timer.  `ApplicationFollows` holds all the
  same: a lost conflict leads to a retry with back-off, and every event of the
  Application wakes them, the other controller's status writes included.
* *Deployed* means that Rancher accepted the request; the `State` it reports is read and
  not used.  An application is not removed from Rancher with its Application.

* The check of `module_controller.go:298` before *Completed* looks at the counts of
  the previous status (0 = 0 at first), so a Module may be *Completed* with replicas
  missing until the next call; `FalseCompletedCorrected` shows that it is taken back.
* `UpdatedReplicas` of a *Completed* Module stays when nodes change, as Nodes are not
  watched and nothing requeues the Module.
* `SortNodesByNumber` takes the first number of the hostname, its comment
  (`utils/node.go:13`) says the final one: with a digit in the name of the cluster, the
  service or the application all keys are equal, and scaling down may mark any of the Nodes
  (`DigitsLeaveOrderOpen`).  The instances have names without digits (`NoDigits`), and
  `MarksHighestWithoutDigits` has that as its assumption.
* `MarksHighest` does not say that lower Nodes exist: while one Node of the list is
  marked, another, lower one may have gone, and the service has less than
  `Spec.Replicas` Nodes until a later call creates them.
* A scale up whose calls all find in the cache a Node that has gone meanwhile creates
  none, and counts it as updated: the Module is *Completed* for good without that Node.
  This takes an informer that lags while a whole Job runs.  `Settled` allows it, as it speaks
  of what is published; `Automium` leaves it out (`PodEnds`: by the end of a pod the cache
  has caught up), as it would defeat `Delivers`.
* The action of a Module may change while its spec does not: Nodes that were created or first
  reported change what `chooseModuleAction` counts and compares, and a Job with another
  command replaces the one that ran.
* While a cluster is rebuilt after a change of its spec the phase is still *Completed*, and
  its extras are updated meanwhile; `ExtrasNeedCluster` asks only that it was up once.
* No caller looks at the result of `updateStatus` in the Application controller: after a
  refused write the phase stays that of an earlier attempt, *Deployed* too, until the
  next write.  `DeployedIsEarned` speaks of the change to *Deployed* only.
* An error of Rancher with a JSON body reads as an empty list of applications
  (`application_utils.go:189`): the controller announces *Deploying* and asks for an
  installation that Rancher refuses.
* The Node controller deletes on the ID of the last status and does not ask
  Consul again; the health checks it keeps when Consul has none any more stay.
* Extras have no owner reference: they outlive their Service, although
  `service_controller.go:111` says that created objects are garbage collected, and
  they outlive their entry in `Spec.Extra`.  `NoOrphanModule` holds, as the Module
  has an owner.

### Fairness

The live specifications (`LiveSpec`, `HistoryLiveSpec`, `SystemLiveSpec`,
`ExtraLiveSpec`) assume weak fairness of `Reconcile` (a work queue
hands out every key; client-go's back-off and all timers are finite), of every
`Sync...`, `SyncNodes` too, and of `DeliverToBoth` (a watch delivers in the end), and of the parts of
Kubernetes the code relies on: the Job controller's steps and the end of pods in
`ModuleController`, the garbage collector in `ServiceController` and
`ExtraController`.  `SystemLiveSpec` adds that a running pod works on, and that the
Node controller, which asks every 30 s, reports and deletes in the end; its `PodEnds` waits
for the cache of Nodes, as a pod takes minutes and an informer seconds.  Nothing is
assumed of users, of Rancher, of requests that come late or, in the modules of one
controller, of the Node's reports, of machines and of Consul: their
stability is a premise inside the property (`<>[]AllUpdated => ...`,
`<>[](consul = h) => ...`, `<>[](reachable /\ ...) => ...`).  Changes of users,
creations and faults are finite by their bounds: without a bound, edits at the pace of
the caches could make every write a conflict.

## Proofs

Checked by TLAPS for all values of the constants that satisfy the assumptions
`NodeUtilsAssumption`, `ModuleAssumption`, `NamesAssumption`, `NodeAssumption`, `ServiceAssumption`,
`ApplicationAssumption`, `ExtraAssumption` and `MaxNodesAssumption`, which give
types to the constants, keep `NoNode`, `NoJob`, `NoMachine`, `NoApp`, `NoExtra` and the
empty string apart from real values, and say that two specs of an Application with
the same version and parameters are the same (name and cluster do not change).

* `ModuleControllerProofs`
  * `TypeCorrect`: `Spec => []TypeOK`, from `TypeInv`, which adds `CopiesInv`: the copy of a
    Node that counts as the latest one is equal to it, in the cache and in the list the
    worker goes through.  One lemma per group of actions; the cardinalities in the status
    need the bound on subsets of `NodeIds`.
  * `SettledAlways`: `Spec => []Settled`.  `Settled` is not inductive: a worker
    about to take the last return must be known to look at data that will not
    change silently.  `SettledInv` adds to `TypeOK` that a cache that says it is
    fresh equals the API (`CacheInv`); that what the worker holds is current
    unless an event is queued or still to come (`WorkerInv`); and that an idle
    worker with an empty queue has published the outcome (`AsleepInv`).
  * `CompletedEarned`: `Spec => CompletedIsEarned`, from `HistoryInv`, which ties
    the Job a worker has found to the last Job that was created.
  * `MarksHighestWithoutDigits`: if `NameNumbers = <<>>` then `Spec => MarksHighest`, for any
    number of Nodes.  `HighInv` says that a worker that has still to mark Node i works for a spec
    with at most i replicas: the Nodes that `ExtraNodes` leaves alone are lower ones and as many
    as the replicas, whatever else the list lacks.
  * `DigitsLeaveOrderOpen`: with a number in the prefix every set of Nodes of the right size
    may be the tail that is marked.
  * `ModuleControllerImplementsLife`: `Spec => ImplementsLife`, the refinement of
    `NodeLife` for every Node at once, step by step.
* `NodeControllerProofs`
  * `NodeTypeCorrect`: `Spec => []TypeOK`.
  * `DeletionFinal`: `Spec => DeletionIsFinal`, from `NodeInv`: copies that
    are fresh are equal to the Node (`CopyInv`), so every write that succeeds
    carries the mark the Node has.
* `NodeHistoryProofs`
  * `NodeControllerImplementsLife`: `HistorySpec => ImplementsLife`.  Its invariant ties
    the copies in the cache and in the worker, however old, to `doomed`: one that is
    marked and without machine, or a worker about to delete, implies it.
* `AutomiumProofs`
  * `SystemImplementsModuleController`: `SystemSpec => Spec`; each step of the system is
    a step of `ModuleController` or leaves it alone, so its theorems hold of the system.
  * `CompletedModuleIsTrue`: `SystemSpec => CompletedIsTrue`.  `CompletedEarned` gives that
    the last Job had the spec and succeeded; `PodInv` and `MachinesInv` add that the
    machines are the ones of that Job from its success on, as no pod runs any more.
  * `SystemTypeCorrect`: `SystemSpec => []SystemTypeOK`.
* `ServiceControllerProofs`
  * `ServiceTypeCorrect`, `ServiceAlwaysAwake`, `ExtrasOnlyOnCluster`: the three invariants
    of the run `service`.  `AlwaysAwake` needs that a worker that returns without a
    timer after a creation leaves an event behind; `ExtrasNeedCluster` that a phase
    *Completed* in a cache or in a worker implies the history `completed`.
  * `EqualEnvVarsExact`: for lists of any length that name each variable once, and the same
    names, `EqualEnvVars` says exactly whether they hold the same variables.  So the
    renaming of `service_rename` and a name given twice are all that it misses.
* `ExtraControllerProofs`
  * `ExtraTypeCorrect`: with `EventsInv` (the last event to come is the Application in the
    API server) and `WorkersInv` (a copy that counts as the latest one is).
  * `DeployedEarned`: `DeployedInv`, that a worker about to publish *Deployed* has what
    Rancher accepted, is kept by every step but a late request's.
  * `SleepsOnlyOnFailureAlways`: for a queue of events of any length.  `DroppedInv` says that
    a version whose later events are all dropped has the latest spec, `SleepInv` that the
    worker, or the failed call before it, is then about that spec.
  * `ExtraSettledAlways`: `ExtraSpec => []ExtraSettled`.  What the controller of extras may
    sleep on is not inductive: `SettledInv` adds that a worker at work will be called again or
    holds the latest extra, and that an Application that differs from what the worker, or
    the resting controller, takes it for has an event to come.  It rests on
    `WriteIsEvent`: every write of the Application, by either controller, adds an event.
* `NodeUtilsProofs`
  * `ConsistencyOrderFree`, `ConsistencyDeterminedAlways`: for every list,
    `NodesAreConsistent` has one verdict whichever healthy node comes first, and it is
    that of the reference definition.
  * `TailExists`: for lists of any length, and whatever the numbers, `SortNodesByNumber` and the
    slice after it have an outcome (by a smallest set of Nodes to keep, `SmallestSubset`,
    instead of an induction over the list), so `ExtraNodes` never blocks.
* `OperatorProofs`
  * `OperatorImplementsNodeController`: `OperatorSpec => HistorySpec`.  `ModuleWritesNode`: with
    however many Nodes in whatever state, what a step of `ModuleController` does to the
    Node is to create it if there is none, or to mark it.
  * `OperatorImplementsModuleController`: `OperatorSpec => M!Spec`, where `M` is
    `ModuleController`.  A write of the Node controller that succeeds hits a Node that is not
    due (`WriterNotDue`), and one that deletes or creates a Node has a doomed
    predecessor (`LifeInv`), however old the copy it was decided on.  `OthersInv` says the same
    of the other Nodes.
  * `OperatorDeletionIsFinal`, `OperatorImplementsLife`: what follows for the Node.  The other way,
    `SettledAlways`, `CompletedEarned` and `MarksHighestWithoutDigits`, which hold of every behaviour of
    `ModuleController`, hold of those of the process.

Only model-checked: the liveness properties (`FalseCompletedCorrected`, `Converges`,
`JobCatchesUp`, `MarkedIsDeleted`, `StatusCatchesUp`, `ModuleFollows`, `PhaseFollows`,
`NoOrphanModule`, `ExtrasFollow`, `ApplicationFollows`, `RolledOut`, `Delivers`), as liveness under
fairness and `ENABLED` are beyond the prover.  Every invariant and action property that a
passing run checks is a theorem, `MarksHighest` under its assumption about hostnames.

## Not modelled, and why

* Slack (`pkg/slack`, `pkg/utils/service.go`): messages change no state; one is lost if the
  process dies between the status write and the call.
* The Rancher HTTP client itself: pure I/O.  Its timeout is in `DeployFails`.
* The generated parts of the API types, deployment files, and the Rego policies, which
  another program evaluates.
* Two Modules whose names extend each other (pods are deleted by name prefix), and several
  workers: each module follows one object, as the work queue does.
* The Service controller together with the Module controller.  Each is the other's
  environment action (`UpdateSpec`, `ModulePhase`), with any spec and any phase at any
  time, so what is shown holds of the composition; the product is out of TLC's reach
  with bounds at which edits, Jobs and extras still meet.
* Three consequences of configuration that no property judges: without `PLATFORM` every call
  for Monitoring ends in Failed (`application_utils.go:320`; the outcome is in `LookupFails`);
  answers that Rancher returns as null differ from an empty map, so an application without
  answers is upgraded on every call (`application_utils.go:426`); a node pool without
  `CLUSTER_NAME` is tried every five seconds and publishes no status
  (`module_controller.go:448`).
* Whether an installed application runs: its state in Rancher is read and never used, so
  Deployed says only that Rancher accepted the request (`application_controller.go:191`).
* A Node controller in full detail within `Automium`: by the theorems about `Operator` it does to a
  Node what `NodeReport`, `NodeDeleted` and `NodeRecreated` do.
