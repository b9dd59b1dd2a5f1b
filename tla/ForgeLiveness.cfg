SPECIFICATION FairSpec
CONSTANTS
  N = 2
  Conns = {c1, c2}
  QLen = 1
  MaxFaults = 1
  Ctl = Ctl
  NoConn = NoConn
PROPERTIES ImplementsLifecycle ConnectionsSettle ShutdownCompletes ZombiesReaped
CHECK_DEADLOCK FALSE
