SPECIFICATION Spec
CONSTANTS
    Images = {i1}
    Flavors = {f1}
    Envs = {e1}
    MaxReplicas = 1
    Replicas = {0,1}
    NameNumbers <- NoDigits
    Reports <- HealthyReports
    MaxEdits = 1
    MaxFaults = 0
    NoJob = NoJob
    NoNode = NoNode
INVARIANTS ExtraNodesMarked
CHECK_DEADLOCK FALSE
CONSTRAINT ListsAreComplete
