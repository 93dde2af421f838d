CONSTANTS
    Clients = {c1, c2, c3}
    Blocks = {b1, b2, b3}
    MaxElems = 2
    NULL = NULL
SPECIFICATION Spec
INVARIANTS
    CountersAgree
    ElementsAccounted
PROPERTIES
    PoolSpec
    IdleBlocksReturned
CHECK_DEADLOCK FALSE
