SPECIFICATION Spec
CONSTANTS
    Images = {i1, i2}
    Flavors = {f1}
    NoNode = NoNode
    NoMachine = NoMachine
    MaxCreates = 2
    MaxFaults = 0
PROPERTIES DeletesOnlyMarked
