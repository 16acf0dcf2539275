SPECIFICATION LiveSpec
CONSTANTS
    ServiceSpecs <- RenameSpecs
    App = "kubernetes-cluster"
    Upper <- UpperNames
    NilMap = NilMap
    MaxChanges = 2
    MaxFaults = 0
    NoService = NoService
    NoModule = NoModule
    NoExtra = NoExtra
PROPERTIES ModuleFollows
CHECK_DEADLOCK FALSE
