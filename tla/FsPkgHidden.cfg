CONSTANTS
    Paths = {p1}
    Versions = {1}
    Noise = {"hidden"}
    MaxQueue = 1
    MaxNoise = 1
    Damaged = FALSE
    Readers = FALSE
    Faults = FALSE
    Absent = Absent
SPECIFICATION Spec
PROPERTY EventsProcessed
