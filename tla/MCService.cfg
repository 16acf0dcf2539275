SPECIFICATION LiveSpec
CONSTANTS
    ServiceSpecs <- AllSpecs
    App = "kubernetes-cluster"
    Upper <- UpperNames
    NilMap = NilMap
    MaxChanges = 3
    MaxFaults = 1
    NoService = NoService
    NoModule = NoModule
    NoExtra = NoExtra
INVARIANTS TypeOK ExtrasNeedCluster AlwaysAwake
PROPERTIES ModuleFollows PhaseFollows NoOrphanModule ExtrasFollow
CHECK_DEADLOCK FALSE
