SPECIFICATION Spec
CONSTANTS
    Images = {i1, i2}
    Flavors = {f1, f2}
    NoNode = NoNode
    MaxNodes = 3
INVARIANTS ConsistencyDetermined
