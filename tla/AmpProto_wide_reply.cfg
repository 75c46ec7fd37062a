\* Every reply carries a key that amp_call can draw.
SPECIFICATION Spec
CONSTANTS
  Calls = {c1, c2}
  Commands = {sum}
  LongCommands = {}
  sum = sum
  long = long
  Garbage = Garbage
  None = None
  Numerals <- MCNumerals
  Boxes <- ValidReplyBoxes
  UINT_MAX = 3
  MaxIssued = 3
  MaxRequests = 1
  MaxDepth = 1
  MaxBoxes = 3
  Env = {}
INVARIANTS
  RepliesUnderstood
CHECK_DEADLOCK FALSE
