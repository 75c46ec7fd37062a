SPECIFICATION Spec
CONSTANTS
  SumClients = {s}
  BenchClients = {b}
  SumArgs <- MCSumArgs
  CountArgs <- MCCountArgs
  HostPorts <- MCHostPorts
  MaxAddresses = 2
  NI_MAXHOST = 3
  MAX_OPERANDS = 4
  LLONG_MAX = 15
  INT_MAX = 3
  ReadMax = 3
  RequestCells = 3
  AnswerCells = 2
INVARIANTS
  TypeOK
  Results
  Lockstep
PROPERTY Completes
CHECK_DEADLOCK FALSE
