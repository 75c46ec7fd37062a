\* Calls, replies, cancellations and re-entrancy, with allocation and write
\* failures; four keys are drawn from a space of two, so keys are reused.
SPECIFICATION Spec
CONSTANTS
  Calls = {c1, c2, c3}
  Commands = {sum}
  LongCommands = {}
  sum = sum
  long = long
  Garbage = Garbage
  None = None
  Numerals <- MCNumerals
  Boxes <- ReplyBoxes
  UINT_MAX = 1
  MaxIssued = 4
  MaxRequests = 0
  MaxDepth = 3
  MaxBoxes = 3
  Env = {"malloc", "write"}
SYMMETRY Symmetry
INVARIANTS
  TypeOK
  AtMostOneResult
  NoLostCall
  CallInv
  NoTraceOfRefusedCall
  CallbacksOwned
  KeptKeyNamesNobody
PROPERTIES
  KeepsPromise
CHECK_DEADLOCK FALSE
