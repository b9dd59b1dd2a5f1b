SPECIFICATION FairSpec
CONSTANTS
  RecvBuf = 6
  FileLen = 2
  Conns = {c1}
  Modes <- PipedGets
  MaxReqs = 2
  SndBuf = 3
  MaxFaults = 0
  Patient = {c1}
  NoJob = NoJob
PROPERTY NextAnswered
CHECK_DEADLOCK FALSE
