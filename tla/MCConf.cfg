CONSTANTS
    k1 = k1
    k2 = k2
    k3 = k3
    Keys = {k1, k2, k3}
    Values = {v1, v2}
    Hash <- HashWithCollision
    MinSize = 2
    MaxLines = 4
    Null = Null
    Undefined = Undefined
SPECIFICATION Spec
INVARIANTS
    Loaded
PROPERTY
    MapSpec
CHECK_DEADLOCK FALSE
