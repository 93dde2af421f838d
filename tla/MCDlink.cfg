CONSTANTS
    Nodes = {n1, n2, n3, n4}
    Lists = {l1, l2}
    Data = {d1, d2}
    NULL = NULL
SPECIFICATION Spec
INVARIANTS
    WellLinked
    LoopComplete
PROPERTY ListSpec
SYMMETRY Symmetry
