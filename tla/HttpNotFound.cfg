SPECIFICATION Spec
CONSTANTS
  RecvBuf = 6
  FileLen = 2
  Conns = {c1}
  Modes <- MissingGets
  MaxReqs = 2
  SndBuf = 3
  MaxFaults = 0
  Patient = {}
  NoJob = NoJob
PROPERTY KeepAliveHonoured
CHECK_DEADLOCK FALSE
