\* Requests, responders, "Unhandled Command" replies and who owns each box.
SPECIFICATION Spec
CONSTANTS
  Calls = {c1}
  Commands = {sum, long}
  LongCommands = {long}
  sum = sum
  long = long
  Garbage = Garbage
  None = None
  Numerals <- MCNumerals
  Boxes <- RequestBoxes
  UINT_MAX = 1
  MaxIssued = 2
  MaxRequests = 1
  MaxDepth = 3
  MaxBoxes = 3
  Env = {"malloc", "write"}
INVARIANTS
  BoxBalanced
  CrashOnlyAfterOom
PROPERTY ErrorIsFatal
CHECK_DEADLOCK FALSE
