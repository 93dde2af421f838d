CONSTANTS
    Paths = {p1}
    Versions = {1, 2}
    Noise = {"hidden", "other", "noext"}
    MaxQueue = 2
    MaxNoise = 1
    Damaged = FALSE
    Readers = TRUE
    Faults = TRUE
    Absent = Absent
SPECIFICATION Spec
INVARIANTS
    Tracked
    OneRow
    TransactionHeld
PROPERTIES
    UpgradeAtomic
    ReturnsToLoop
    Settles
