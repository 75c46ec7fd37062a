\* User code that uses the API in ways amp.h does not forbid.
SPECIFICATION Spec
CONSTANTS
  Calls = {c1, c2}
  Commands = {sum}
  LongCommands = {}
  sum = sum
  long = long
  Garbage = Garbage
  None = None
  Numerals <- MCNumerals
  Boxes <- MisuseBoxes
  UINT_MAX = 1
  MaxIssued = 3
  MaxRequests = 1
  MaxDepth = 3
  MaxBoxes = 3
  Env = {"no_handler", "respond_no_ask", "reset_in_callback", "reentrant_consume"}
INVARIANT NoBoxFreedTwice
PROPERTY ReportedErrorStays
CHECK_DEADLOCK FALSE
