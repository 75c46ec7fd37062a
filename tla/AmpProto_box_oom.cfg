\* Allocations may fail, and nobody resets the protocol.
SPECIFICATION NeverResets
CONSTANTS
  Calls = {c1, c2}
  Commands = {sum}
  LongCommands = {}
  sum = sum
  long = long
  Garbage = Garbage
  None = None
  Numerals <- MCNumerals
  Boxes <- ValidReplyBoxes
  UINT_MAX = 3
  MaxIssued = 3
  MaxRequests = 1
  MaxDepth = 1
  MaxBoxes = 3
  Env = {"malloc"}
INVARIANTS
  ReadyOrError
CHECK_DEADLOCK FALSE
