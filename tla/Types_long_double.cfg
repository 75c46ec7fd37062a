SPECIFICATION Spec
CONSTANTS
  LLONG_MAX <- MCLLONG_MAX
  INT_MAX <- MCINT_MAX
  UINT_MAX <- MCUINT_MAX
  FRAC = 2
  DBL_BUF = 8
  Numbers <- MCNumbers
  Doubles <- LongDoubles
  DateTimes <- MCDateTimes
  Texts <- MCTexts
INVARIANT RoundTrip
