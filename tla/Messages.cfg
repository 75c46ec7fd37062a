SPECIFICATION MessageSpec
CONSTANTS
  LLONG_MAX <- MCLLONG_MAX
  INT_MAX <- MCINT_MAX
  UINT_MAX <- MCUINT_MAX
  FRAC = 2
  DBL_BUF = 12
  Numbers <- MCNumbers
  Doubles <- MCDoubles
  DateTimes <- MCDateTimes
  Texts <- MCTexts
  AskTexts <- MCAskTexts
INVARIANTS
  MessageTypeOK
  NoOverflow
  DecodedExactly
  DoubleSyntax
  DateTimeIsValid
  RoundTrip
  OneOwner
