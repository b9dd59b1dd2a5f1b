SPECIFICATION ScanSpec
CONSTANTS
  MaxLines = 2
  Lens = {18, 19, 24}
  Ats = {0, 1, 2}
  Chars = {"a", "z", "1", "9", ":", "/", "?", "#", "@", "[", "]", "%"}
  MaxLen = 9
  MaxPart = 1
  MaxPort = 20
  MaxHeader = 29
  MaxLength = 19
  MaxCuts = 1
  MaxRun = 4
  Codes = {200}
  Minors = {"1"}
  Statuses = {200, 204, 304}
  Framings = {"close", "length", "zero", "chunked", "trailer"}
  Entity = {"close", "zero"}
  Connections = {"unsaid", "close", "keep", "list", "folded"}
  Extras = {"none", "other", "empty", "proxy"}
INVARIANTS EvenHonoured FieldsExact PortExact MethodExact NoAbort HeaderCounted
  NameThenValue LengthExact Accepted  KeptAlike
CHECK_DEADLOCK FALSE
