SPECIFICATION HistoryLiveSpec
CONSTANTS
    Images = {i1}
    Flavors = {}
    NoNode = NoNode
    NoMachine = NoMachine
    MaxCreates = 2
    MaxFaults = 2
INVARIANTS TypeOK
PROPERTIES DeletionIsFinal MarkedIsDeleted StatusCatchesUp ImplementsLife
