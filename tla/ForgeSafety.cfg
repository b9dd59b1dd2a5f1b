SPECIFICATION Spec
CONSTANTS
  N = 2
  Conns = {c1, c2, c3}
  QLen = 1
  MaxFaults = 2
  Ctl = Ctl
  NoConn = NoConn
SYMMETRY ConnSymmetry
INVARIANTS TypeOK OnePlace PollSetExact BatchFresh ChannelHasReader RoundRobin
CHECK_DEADLOCK FALSE
