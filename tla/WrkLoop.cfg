SPECIFICATION Spec
CONSTANTS
  None = None
  Fds = {1, 2, 3}
  Conns = {c1, c2}
  ReqLen = 2
  RecvBuf = 2
  Modes <- AllModes
  MaxTimers = 3
INVARIANTS LoopExact  ConnectedTrue ReadsHaveData InStep NeverIdle
CHECK_DEADLOCK FALSE
