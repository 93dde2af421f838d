CONSTANTS
    MaxReq = 2
    Workers = {w1, w2, w3}
    Cases <- SmallCases
    MaxIdle = 1
SPECIFICATION Spec
INVARIANT
    ValidUntilReply
CHECK_DEADLOCK FALSE
