SPECIFICATION FairSpec
CONSTANTS
  RecvBuf = 5
  FileLen = 2
  Conns = {c1, c2}
  MaxReqs = 3
  Modes <- Mixed
  Patient = {c1, c2}
  SndBuf = 3
  MaxFaults = 1
  NoJob = NoJob
INVARIANTS TypeOK BufferBound Framed CloseHonoured EventsLive AnswersMatch
PROPERTIES ImplementsDialogue 
CHECK_DEADLOCK FALSE
