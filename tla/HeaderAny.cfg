SPECIFICATION Spec
CONSTANTS
  MaxLines = 2
  Lens = {19, 24}
  Ats = {0}
INVARIANT ConnectionHonoured
CHECK_DEADLOCK FALSE
