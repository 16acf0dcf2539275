SPECIFICATION Spec
CONSTANTS
    Images = {i1, i2}
    Flavors = {f1}
    Envs = {e1}
    MaxReplicas = 1
    Replicas = {0,1}
    NameNumbers <- NoDigits
    Reports <- OneImageReports
    MaxEdits = 1
    MaxFaults = 1
    NoJob = NoJob
    NoNode = NoNode
INVARIANTS TypeOK Settled
PROPERTIES CompletedIsEarned
CHECK_DEADLOCK FALSE
