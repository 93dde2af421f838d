CONSTANTS
    Clients = {c1, c2}
    Paths = {p1, p2}
    Handles = {h1, h2, h3, h4}
    HalfLife = 1
    None = None
    Foreign = Foreign
SPECIFICATION Spec
INVARIANTS
    RefcntExact
    HeldIsLive
    OneHandlePerPackage
PROPERTIES
    UnusedReleased
    ActiveSpec
