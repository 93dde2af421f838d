CONSTANTS
    MaxReq = 2
    Workers = {w1, w2, w3}
    Cases <- SmallCases
    MaxIdle = 1
SPECIFICATION Spec
INVARIANTS
    RequestsLive
    FunctionInTime
    InterruptKept
    SomeoneReads
CHECK_DEADLOCK FALSE
PROPERTIES
    Answered
    LoopReturns
