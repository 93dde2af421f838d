SPECIFICATION Spec
CONSTANTS
  Threads = {t1, t2, t3}
  OffsetMax = 3
  IdSpace = 7
  Names <- TwoNames
  Ops = {"getattr", "rename", "unlink", "rmdir", "create", "lock"}
  Cases <- QueuedCase
INVARIANT NoAbort
CHECK_DEADLOCK FALSE
