SPECIFICATION FairSpec
CONSTANTS
  RecvBuf = 6
  FileLen = 2
  Conns = {c1, c2}
  Modes <- Gets
  MaxReqs = 2
  SndBuf = 3
  MaxFaults = 0
  Patient = {c2}
  NoJob = NoJob
PROPERTY NonBlockingLoop
CHECK_DEADLOCK FALSE
