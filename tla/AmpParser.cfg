\* Bytes of three values, boxes of up to 12 bytes, chunks of 1 to 3 bytes.
SPECIFICATION Spec
CONSTANTS
  R = 3
  MaxWire = 12
  MaxChunk = 3
INVARIANTS
  TypeOK
  NothingLost
  ParserConsistent
  BoxIsLastWrite
PROPERTIES
  FatalUntilReset
  ConsumeReturns
