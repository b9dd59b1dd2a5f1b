SPECIFICATION Spec
CONSTANTS
  N = 2
  Conns = {c1, c2}
  QLen = 1
  MaxFaults = 1
  Ctl = Ctl
  NoConn = NoConn
PROPERTY WorkerDeathHandled
CHECK_DEADLOCK FALSE
