\* Responders answer every request they are given.
SPECIFICATION Spec
CONSTANTS
  Calls = {c1, c2}
  Commands = {sum}
  LongCommands = {}
  sum = sum
  long = long
  Garbage = Garbage
  None = None
  Numerals <- MCNumerals
  Boxes <- MisuseBoxes
  UINT_MAX = 3
  MaxIssued = 3
  MaxRequests = 1
  MaxDepth = 2
  MaxBoxes = 3
  Env = {"respond_no_ask"}
INVARIANTS
  CrashOnlyAfterOom
CHECK_DEADLOCK FALSE
