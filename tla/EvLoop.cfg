CONSTANTS
    MaxPri = 2
    HashSize = 2
    Cases <- MCCases
SPECIFICATION Spec
INVARIANTS Verified StoppedSilent RightFile
CHECK_DEADLOCK FALSE
PROPERTY Delivered
