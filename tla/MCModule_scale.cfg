SPECIFICATION Spec
CONSTANTS
    Images = {i1}
    Flavors = {f1}
    Envs = {e1}
    MaxReplicas = 2
    Replicas = {0,1,2}
    NameNumbers <- NoDigits
    Reports <- GoneReports
    MaxEdits = 1
    MaxFaults = 0
    NoJob = NoJob
    NoNode = NoNode
PROPERTIES MarksHighest ImplementsLife
CHECK_DEADLOCK FALSE
CONSTRAINT SmoothJobs
