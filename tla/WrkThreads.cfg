SPECIFICATION FairSpec
CONSTANTS
  Threads = {1, 2}
  Limit = 3
  MaxRecords = 2
INVARIANTS BoundsCover 
PROPERTIES BoundsMonotone RunEnds
CHECK_DEADLOCK FALSE
