SPECIFICATION Spec
CONSTANTS
  RecvBuf = 6
  FileLen = 2
  Conns = {c1}
  Modes <- BadGets
  MaxReqs = 2
  SndBuf = 3
  MaxFaults = 0
  Patient = {}
  NoJob = NoJob
INVARIANT KeptIncomplete
CHECK_DEADLOCK FALSE
