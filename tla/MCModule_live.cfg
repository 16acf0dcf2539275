SPECIFICATION LiveSpec
CONSTANTS
    Images = {i1}
    Flavors = {f1}
    Envs = {e1}
    MaxReplicas = 1
    Replicas = {0,1}
    NameNumbers <- NoDigits
    Reports <- OneImageReports
    MaxEdits = 1
    MaxFaults = 0
    NoJob = NoJob
    NoNode = NoNode
PROPERTIES FalseCompletedCorrected Converges JobCatchesUp
CHECK_DEADLOCK FALSE
