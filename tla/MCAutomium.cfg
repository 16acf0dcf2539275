SPECIFICATION SystemLiveSpec
CONSTANTS
    Images = {i1, i2}
    Flavors = {f1}
    Envs = {e1}
    MaxReplicas = 1
    Replicas = {0,1}
    NameNumbers <- NoDigits
    Reports <- HealthyReports
    MaxEdits = 2
    MaxFaults = 0
    NoJob = NoJob
    NoNode = NoNode
INVARIANTS SystemTypeOK
PROPERTIES CompletedIsTrue Delivers
CONSTRAINT SmoothRollouts
CHECK_DEADLOCK FALSE
