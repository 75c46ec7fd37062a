----------------------------- MODULE TypesProofs -----------------------------
(***************************************************************************)
(* For every width of the integer types and whatever bytes are stored: the  *)
(* digit loop of buftoll does not overflow and reads the number the text    *)
(* means, an integer get succeeds exactly on the numerals of its range, a   *)
(* double get only on decimals, a DateTime that is decoded is one that      *)
(* could have been encoded, and every value comes back as it was put.       *)
(***************************************************************************)
EXTENDS Types, ChainsProofs

\* C divides towards zero
LEMMA NegDiv ==
  ASSUME NEW m \in Nat \ {0}
  PROVE  CDiv(-m, 10) = -(m \div 10)
<1>1. ~(-m >= 0) /\ -(-m) = m
  OBVIOUS
<1>2. CDiv(-m, 10) = -((-(-m)) \div 10)
  BY <1>1 DEF CDiv
<1> QED BY <1>1, <1>2

\* division of C is inverted by its remainder, and the remainder is a digit
LEMMA LimitSplit ==
  ASSUME neg \in BOOLEAN
  PROVE  /\ cutoff \in Int /\ cutlim \in 0 .. 9
         /\ ~neg => cutoff >= 0 /\ 10 * cutoff + cutlim = LLONG_MAX
         /\ neg  => cutoff <= 0 /\ 10 * cutoff - cutlim = LLONG_MIN
<1>1. LLONG_MAX \in Nat
  BY TypesAssumption
<1>2. CASE ~neg
  <2>1. cutoff = LLONG_MAX \div 10 /\ cutlim = LLONG_MAX - 10 * (LLONG_MAX \div 10)
    BY <1>1, <1>2 DEF cutoff, cutlim, limit, CDiv, CMod
  <2> QED BY <1>1, <1>2, <2>1
<1>3. CASE neg
  <2>1. LLONG_MIN = -(LLONG_MAX + 1) /\ LLONG_MAX + 1 \in Nat \ {0}
    BY <1>1 DEF LLONG_MIN
  <2>2. CDiv(LLONG_MIN, 10) = -((LLONG_MAX + 1) \div 10)
    BY <2>1, NegDiv
  <2>3. cutoff = -((LLONG_MAX + 1) \div 10)
    BY <1>3, <2>2 DEF cutoff, limit
  <2>4. cutlim = -(LLONG_MIN - 10 * (-((LLONG_MAX + 1) \div 10)))
    BY <1>3, <2>2 DEF cutlim, limit, CMod
  <2> QED BY <1>1, <1>3, <2>1, <2>3, <2>4
<1> QED BY <1>2, <1>3

\* a digit that is not too big keeps the accumulator in range
LEMMA DigitFits ==
  ASSUME neg \in BOOLEAN, NEW c \in 0 .. 9, ~TooBig(c),
         IF neg THEN acc \in LLONG_MIN .. 0 ELSE acc \in 0 .. LLONG_MAX
  PROVE  IF neg THEN acc * 10 - c \in LLONG_MIN .. 0 ELSE acc * 10 + c \in 0 .. LLONG_MAX
<1>1. LLONG_MAX \in Nat /\ LLONG_MIN \in Int
  BY TypesAssumption DEF LLONG_MIN
<1> USE LimitSplit
<1>2. CASE neg
  <2>1. acc >= cutoff /\ (acc = cutoff => c <= cutlim)
    BY <1>1, <1>2 DEF TooBig
  <2> HIDE DEF cutoff, cutlim
  <2>2. 10 * acc - c >= LLONG_MIN
    BY <1>1, <1>2, <2>1
  <2> QED BY <1>1, <1>2, <2>2
<1>3. CASE ~neg
  <2>1. acc <= cutoff /\ (acc = cutoff => c <= cutlim)
    BY <1>1, <1>3 DEF TooBig
  <2>2. 10 * acc + c <= LLONG_MAX
    BY <1>1, <1>3, <2>1
  <2> QED BY <1>1, <1>3, <2>2
<1> QED BY <1>2, <1>3

-----------------------------------------------------------------------------
(* The fields read so far, all in range, are as many as field says.         *)
FieldsRead ==
  (pc = "reading" /\ type = "datetime") =>
    /\ field \in 1 .. 9
    /\ dt \in Seq(Int) /\ Len(dt) = field - 1
    /\ \A i \in 1 .. field - 1 : InField(i, dt[i])

LoopTyped == pc = "reading" => neg \in BOOLEAN

Idle == pc \in {"empty", "stored"} => dt = <<>>

Inv == NoOverflow /\ FieldsRead /\ LoopTyped /\ Idle /\ DateTimeIsValid

LEMMA InitInv == Init => Inv
BY DEF Init, Inv, NoOverflow, FieldsRead, LoopTyped, Idle, DateTimeIsValid

\* Begin starts the accumulator at 0
LEMMA BeginInRange ==
  ASSUME NEW t, Begin(t)
  PROVE  neg' \in BOOLEAN /\ NoOverflow'
<1>1. LLONG_MAX \in Nat /\ LLONG_MIN \in Int /\ LLONG_MIN <= 0
  BY TypesAssumption DEF LLONG_MIN
<1>2. neg' \in BOOLEAN /\ acc' = 0
  BY DEF Begin
<1>3. LLONG_MAX' = LLONG_MAX /\ LLONG_MIN' = LLONG_MIN
  BY DEF LLONG_MIN
<1> QED BY <1>1, <1>2, <1>3 DEF NoOverflow

\* a step that does not end in a loop, with dt untouched
LEMMA NotReading ==
  ASSUME Inv, pc' \in {"empty", "stored", "done"}, pc' # "done" => dt' = <<>>,
         DateTimeIsValid'
  PROVE  Inv'
BY DEF Inv, NoOverflow, FieldsRead, LoopTyped, Idle

LEMMA PutInv == ASSUME Inv, Put PROVE Inv'
<1>1. ASSUME NEW t, NEW v, NEW bytes, Store(t, v, bytes) PROVE Inv'
  <2>1. pc = "empty" /\ pc' = "stored" /\ dt' = dt
    BY <1>1 DEF Store
  <2>2. dt' = <<>> /\ DateTimeIsValid'
    BY <2>1 DEF Inv, Idle, DateTimeIsValid
  <2> QED BY <2>1, <2>2, NotReading
<1>2. ASSUME NEW v \in DateTimes, PutDateTimeRefused(v) PROVE Inv'
  <2>1. pc' = "done" /\ type' = "none"
    BY <1>2 DEF PutDateTimeRefused
  <2> QED BY <2>1, NotReading DEF DateTimeIsValid
<1> QED BY <1>1, <1>2 DEF Put, PutInteger, PutBool, PutDouble, PutDateTime, PutBytes

\* a get that returns at once, of any type but DateTime, or with an error
LEMMA ReturnInv ==
  ASSUME Inv, NEW code, NEW v, Return(code, v), type' # "datetime" \/ code # "OK"
  PROVE  Inv'
<1>1. pc' = "done" /\ err' = code
  BY DEF Return
<1>2. DateTimeIsValid'
  BY <1>1 DEF DateTimeIsValid
<1> QED BY <1>1, <1>2, NotReading

\* a get that starts a loop over an integer or a double
LEMMA StartInv ==
  ASSUME Inv, NEW t, Begin(t), pc' = "reading", type' # "datetime"
  PROVE  Inv'
BY BeginInRange DEF Inv, FieldsRead, LoopTyped, Idle, DateTimeIsValid

LEMMA GetInv == ASSUME Inv, Get PROVE Inv'
<1>1. CASE GetMissing
  BY <1>1, ReturnInv DEF GetMissing
<1>2. CASE GetBytes
  BY <1>2, ReturnInv DEF GetBytes
<1>3. CASE GetBool
  <2>1. type' = "bool" /\ \E code, v : Return(code, v)
    BY <1>3 DEF GetBool
  <2> QED BY <2>1, ReturnInv
<1>4. ASSUME NEW t \in Integral, GetInteger(t) PROVE Inv'
  <2>1. t # "datetime"
    BY DEF Integral
  <2> QED BY <1>4, <2>1, StartInv DEF GetInteger
<1>5. ASSUME NEW t \in Integral, GetIntegerEmpty(t) PROVE Inv'
  <2>1. Return("AMP_DECODE_ERROR", IF t = "long long" THEN <<0>> ELSE value)
    BY <1>5 DEF GetIntegerEmpty
  <2> QED BY <2>1, ReturnInv
<1>6. CASE GetDouble
  BY <1>6, StartInv DEF GetDouble
<1>7. CASE GetDoubleEmpty
  BY <1>7, ReturnInv DEF GetDoubleEmpty
<1>8. CASE GetDoubleSpecial
  <2>1. type' = "double" /\ \E code, v : Return(code, v)
    BY <1>8 DEF GetDoubleSpecial
  <2> QED BY <2>1, ReturnInv
<1>9. CASE GetDateTime
  <2>1. /\ pc = "stored" /\ pc' = "reading" /\ field' = 1 /\ dt' = dt
        /\ Begin(FieldText(1))
    BY <1>9 DEF GetDateTime
  <2>2. dt' = <<>>
    BY <2>1 DEF Inv, Idle
  <2>3. neg' \in BOOLEAN /\ NoOverflow'
    BY <2>1, BeginInRange
  <2> QED BY <2>1, <2>2, <2>3 DEF Inv, FieldsRead, LoopTyped, Idle, DateTimeIsValid
<1>10. CASE GetDateTimeWrongSize
  BY <1>10, ReturnInv DEF GetDateTimeWrongSize
<1> QED BY <1>1, <1>2, <1>3, <1>4, <1>5, <1>6, <1>7, <1>8, <1>9, <1>10 DEF Get

\* an error of buftoll ends the get
LEMMA FailsInv ==
  ASSUME Inv, NEW code, NumberFails(code), code # "OK"
  PROVE  Inv'
<1>1. pc' = "done" /\ err' = code
  BY DEF NumberFails
<1> QED BY <1>1, NotReading DEF DateTimeIsValid

LEMMA ReadDigitInv == ASSUME Inv, ReadDigit PROVE Inv'
<1> DEFINE c == Head(rest) - ZERO
<1>1. /\ pc = "reading" /\ type # "double" /\ ~TooBig(c) /\ IsDigit(Head(rest))
      /\ acc' = IF neg THEN acc * 10 - c ELSE acc * 10 + c
      /\ UNCHANGED <<pc, type, neg, field, dt>>
  BY DEF ReadDigit, Loop, Integral
<1>2. c \in 0 .. 9
  BY <1>1 DEF IsDigit, ZERO
<1>3. neg \in BOOLEAN /\ IF neg THEN acc \in LLONG_MIN .. 0 ELSE acc \in 0 .. LLONG_MAX
  BY <1>1 DEF Inv, LoopTyped, NoOverflow
<1> HIDE DEF c
<1>4. IF neg THEN acc * 10 - c \in LLONG_MIN .. 0 ELSE acc * 10 + c \in 0 .. LLONG_MAX
  BY <1>1, <1>2, <1>3, DigitFits
<1>5. NoOverflow'
  <2>1. LLONG_MAX' = LLONG_MAX /\ LLONG_MIN' = LLONG_MIN
    BY DEF LLONG_MIN
  <2> QED BY <1>1, <1>4, <2>1 DEF NoOverflow
<1> QED BY <1>1, <1>5 DEF Inv, LoopTyped, FieldsRead, Idle, DateTimeIsValid

\* the loop of the double leaves the rest alone
LEMMA DoubleInv ==
  ASSUME Inv, pc = "reading", type = "double", UNCHANGED <<pc, type, neg>>
  PROVE  Inv'
BY DEF Inv, NoOverflow, LoopTyped, FieldsRead, Idle, DateTimeIsValid

LEMMA NextFieldInv == ASSUME Inv, NextField PROVE Inv'
<1>1. /\ pc = "reading" /\ type = "datetime" /\ InField(field, acc) /\ field < 9
      /\ dt' = Append(dt, acc) /\ field' = field + 1 /\ Begin(FieldText(field + 1))
      /\ pc' = pc /\ type' = type
  BY SMTT(60) DEF NextField, Loop, FieldOK, Fields
<1>2. neg' \in BOOLEAN /\ NoOverflow'
  BY <1>1, BeginInRange
<1>3. /\ field \in 1 .. 9 /\ dt \in Seq(Int) /\ Len(dt) = field - 1
      /\ \A i \in 1 .. field - 1 : InField(i, dt[i])
  BY <1>1 DEF Inv, FieldsRead
<1>4. acc \in Int
  <2>1. neg \in BOOLEAN /\ IF neg THEN acc \in LLONG_MIN .. 0 ELSE acc \in 0 .. LLONG_MAX
    BY <1>1 DEF Inv, LoopTyped, NoOverflow
  <2>2. LLONG_MIN \in Int /\ LLONG_MAX \in Int
    BY TypesAssumption DEF LLONG_MIN
  <2> QED BY <2>1, <2>2
<1>5. /\ field' \in 1 .. 9 /\ dt' \in Seq(Int) /\ Len(dt') = field' - 1
      /\ \A i \in 1 .. field - 1 : dt'[i] = dt[i]
      /\ dt'[field] = acc
  BY <1>1, <1>3, <1>4
<1>6. \A i \in 1 .. field' - 1 : InField(i, dt'[i])
  <2>1. \A i \in 1 .. field' - 1 : i \in 1 .. field - 1 \/ i = field
    BY <1>1, <1>3
  <2> QED BY <1>1, <1>3, <1>5, <2>1
<1>7. FieldsRead'
  BY <1>5, <1>6 DEF FieldsRead, InField
<1> QED BY <1>1, <1>2, <1>7 DEF Inv, LoopTyped, Idle, DateTimeIsValid

\* the offset from UTC of a date, in minutes: less than a day either way
IsOffset(o) == o \in -1439 .. 1439

LEMMA OffsetIs == ASSUME NEW o, IsOffset(o) PROVE o \in Int /\ -1439 <= o /\ o <= 1439
BY SMTT(60) DEF IsOffset

\* what the last field makes of date fields that are in range
LEMMA ValidOffset ==
  ASSUME NEW d, NEW o, IsOffset(o), \A i \in DateFields : InField(i, d[i]),
         NEW v, v = [date |-> d, utc_offset |-> o]
  PROVE  ValidDateTime(v)
<1>1. v.date = d /\ v.utc_offset = o
  OBVIOUS
<1>2. IsOffset(v.utc_offset)
  BY <1>1
<1>3. \A i \in DateFields : InField(i, v.date[i])
  BY <1>1
<1> QED BY <1>2, <1>3, SMTT(60) DEF ValidDateTime, IsOffset

\* whether a date is valid does not depend on the state
LEMMA ValidNext == ValidDateTime(value[1])' <=> ValidDateTime(value'[1])
BY SMTT(60) DEF ValidDateTime, InField

LEMMA LastFieldInv == ASSUME Inv, LastField PROVE Inv'
<1>1. /\ pc = "reading" /\ type = "datetime" /\ InField(9, acc) /\ field = 9
  BY SMTT(60) DEF LastField, Loop, FieldOK, Fields
<1>2. /\ dt \in Seq(Int) /\ Len(dt) = 8 /\ \A i \in 1 .. 8 : InField(i, dt[i])
  BY <1>1 DEF Inv, FieldsRead
<1> DEFINE minutes == dt[8] * 60 + acc
           date    == SubSeq(dt, 1, 7)
           got(o)  == << [date |-> date, utc_offset |-> o] >>
<1>3. \A i \in DateFields : InField(i, date[i])
  <2>1. \A i \in 1 .. 7 : date[i] = dt[i]
    BY <1>2
  <2> HIDE DEF date
  <2> QED BY <1>2, <2>1 DEF DateFields
<1>5. minutes \in 0 .. 1439
  <2>1. dt[8] \in Int
    <3>1. dt \in Seq(Int) /\ 8 \in 1 .. Len(dt)
      BY <1>2
    <3> QED BY <3>1, ElementOfSequence
  <2>2. InField(8, dt[8])
    <3>1. 8 \in 1 .. 8
      OBVIOUS
    <3> QED BY <1>2, <3>1
  <2>3. 0 <= dt[8] /\ dt[8] <= 23
    BY <2>2, SMTT(60) DEF InField, Fields
  <2>4. acc \in Int
    <3>1. neg \in BOOLEAN /\ IF neg THEN acc \in LLONG_MIN .. 0 ELSE acc \in 0 .. LLONG_MAX
      BY <1>1 DEF Inv, LoopTyped, NoOverflow
    <3>2. LLONG_MIN \in Int /\ LLONG_MAX \in Int
      BY TypesAssumption DEF LLONG_MIN
    <3> QED BY <3>1, <3>2
  <2>5. 0 <= acc /\ acc <= 59
    BY <1>1, <2>4, SMTT(60) DEF InField, Fields
  <2> QED BY <2>1, <2>3, <2>4, <2>5, SMTT(60)
<1>6. \/ Return("OK", got(minutes))
      \/ Return("OK", got(-minutes))
      \/ Return("AMP_DECODE_ERROR", value)
  BY DEF LastField
<1>7. pc' = "done"
  BY <1>6 DEF Return
<1>8. IsOffset(minutes) /\ IsOffset(-minutes)
  <2> HIDE DEF minutes
  <2> QED BY <1>5, SMTT(60) DEF IsOffset
<1>9. (err' = "OK") => ValidDateTime(value'[1])
  <2>1. (err' = "OK") => (value' = got(minutes) \/ value' = got(-minutes))
    BY <1>6 DEF Return
  <2> SUFFICES ASSUME err' = "OK"
               PROVE  ValidDateTime(value'[1])
    OBVIOUS
  <2>2. ASSUME NEW o, IsOffset(o), value' = got(o)
        PROVE  ValidDateTime(value'[1])
    <3> HIDE DEF date, minutes
    <3>1. value'[1] = [date |-> date, utc_offset |-> o]
      BY <2>2, SMTT(60)
    <3> QED BY <1>3, <2>2, <3>1, ValidOffset
  <2> HIDE DEF got, minutes, date
  <2> QED BY <1>8, <2>1, <2>2
<1>10. DateTimeIsValid'
  BY <1>9, ValidNext DEF DateTimeIsValid
<1> QED BY <1>7, <1>10, NotReading

LEMMA StepInv == ASSUME Inv, Step PROVE Inv'
<1>1. CASE DigitTooBig
  BY <1>1, FailsInv DEF DigitTooBig
<1>2. CASE NotANumber
  BY <1>2, FailsInv DEF NotANumber
<1>3. CASE IntegerRead
  <2>1. type' # "datetime" /\ \E code, v : Return(code, v)
    BY <1>3 DEF IntegerRead, Loop, Integral
  <2> QED BY <2>1, ReturnInv
<1>4. CASE ReadDoubleDigit
  BY <1>4, DoubleInv DEF ReadDoubleDigit, Loop
<1>5. CASE ReadDot
  BY <1>5, DoubleInv DEF ReadDot, Loop
<1>6. CASE DoubleRefused
  BY <1>6, ReturnInv DEF DoubleRefused
<1>7. CASE DoubleRead
  <2>1. type' # "datetime" /\ \E code, v : Return(code, v)
    BY <1>7 DEF DoubleRead, Loop
  <2> QED BY <2>1, ReturnInv
<1>8. CASE FieldOutOfRange
  BY <1>8, FailsInv DEF FieldOutOfRange
<1> QED
  BY <1>1, <1>2, <1>3, <1>4, <1>5, <1>6, <1>7, <1>8, ReadDigitInv, NextFieldInv,
     LastFieldInv DEF Step

LEMMA NextInv == ASSUME Inv, [Next]_vars PROVE Inv'
<1>1. CASE FreeBox
  <2>1. pc' = "empty" /\ dt' = <<>>
    BY <1>1, SMTT(60) DEF FreeBox
  <2> QED BY <2>1, NotReading DEF DateTimeIsValid
<1>2. CASE UNCHANGED vars
  <2>1. NoOverflow' /\ LoopTyped' /\ Idle'
    BY <1>2 DEF vars, loopVars, Inv, NoOverflow, LoopTyped, Idle, LLONG_MIN
  <2>2. FieldsRead'
    BY <1>2, SMTT(60) DEF vars, loopVars, Inv, FieldsRead, InField
  <2>3. DateTimeIsValid'
    BY <1>2, ValidNext DEF vars, loopVars, Inv, DateTimeIsValid
  <2> QED BY <2>1, <2>2, <2>3 DEF Inv
<1> QED BY <1>1, <1>2, PutInv, GetInv, StepInv DEF Next

(* The accumulator never leaves the range of a long long, and a decoded     *)
(* DateTime is always valid, for every width of the integers and any bytes. *)
THEOREM TypesCorrect == Spec => [](NoOverflow /\ DateTimeIsValid)
<1>1. Inv => NoOverflow /\ DateTimeIsValid
  BY DEF Inv
<1> QED BY <1>1, InitInv, NextInv, PTL DEF Spec

(* A DateTime that a get hands to its caller has every field and its offset *)
(* in range, whatever 32 bytes the peer sent.                               *)
THEOREM DecodedDateTimesAreValid == Spec => []DateTimeIsValid
<1>1. Inv => DateTimeIsValid
  BY DEF Inv
<1> QED BY <1>1, InitInv, NextInv, PTL DEF Spec

-----------------------------------------------------------------------------
(* What the digits of a text add up to, from its start on                   *)

Partial(t) == LET f[i \in 0 .. Len(t)] == IF i = 0 THEN 0 ELSE 10 * f[i - 1] + t[i] - ZERO
              IN  f

LEMMA MagnitudeIsPartial == \A t : Magnitude(t) = Partial(t)[Len(t)]
BY DEF Magnitude, Partial

LEMMA PartialIs ==
  ASSUME NEW t \in Seq(Nat)
  PROVE  /\ Partial(t) \in [0 .. Len(t) -> Int]
         /\ Partial(t)[0] = 0
         /\ \A i \in 0 .. Len(t) - 1 : Partial(t)[i + 1] = 10 * Partial(t)[i] + t[i + 1] - ZERO
<1> DEFINE N == Len(t)
           f[i \in 0 .. N] == IF i = 0 THEN 0 ELSE 10 * f[i - 1] + t[i] - ZERO
           step == [x \in (0 .. N - 1) \X Int |-> 10 * x[2] + t[x[1] + 1] - ZERO]
<1>0. N \in Nat /\ ZERO \in Int /\ \A i \in 0 .. N - 1 : t[i + 1] \in Int
  BY DEF ZERO
<1>1. step \in [(0 .. N - 1) \X Int -> Int]
  <2>1. \A x \in (0 .. N - 1) \X Int : 10 * x[2] + t[x[1] + 1] - ZERO \in Int
    BY <1>0, SMTT(60)
  <2> QED BY <2>1
<1>2. PICK g : Iterates(g, N, Int, 0, step)
  <2>1. 0 \in Int
    OBVIOUS
  <2> HIDE DEF step, f, N
  <2> QED BY <1>0, <1>1, <2>1, RecursionExists
<1>3. g = [i \in 0 .. N |-> IF i = 0 THEN 0 ELSE 10 * g[i - 1] + t[i] - ZERO]
  <2>1. ASSUME NEW i \in 0 .. N, i # 0 PROVE g[i] = 10 * g[i - 1] + t[i] - ZERO
    <3>1. i - 1 \in 0 .. N - 1 /\ (i - 1) + 1 = i
      BY <1>0, <2>1
    <3>2. g[(i - 1) + 1] = step[<<i - 1, g[i - 1]>>]
      BY <1>2, <3>1 DEF Iterates
    <3>3. g[i - 1] \in Int
      BY <1>0, <1>2, <3>1, SMTT(60) DEF Iterates
    <3> HIDE DEF N
    <3> QED BY <3>1, <3>2, <3>3
  <2> QED BY <1>2, <2>1 DEF Iterates
<1>4. f = [i \in 0 .. N |-> IF i = 0 THEN 0 ELSE 10 * f[i - 1] + t[i] - ZERO]
  BY <1>3 DEF f
<1>5. f = Partial(t)
  BY DEF Partial
<1> HIDE DEF f, step, N
<1>6. f[0] = 0
  BY <1>0, <1>4
<1>7. ASSUME NEW i \in 0 .. N - 1 PROVE f[i + 1] = 10 * f[i] + t[i + 1] - ZERO
  <2>1. i + 1 \in 0 .. N /\ i + 1 # 0 /\ (i + 1) - 1 = i
    BY <1>0
  <2>2. f[i + 1] = 10 * f[(i + 1) - 1] + t[i + 1] - ZERO
    BY <1>4, <2>1
  <2> QED BY <2>1, <2>2
<1>8. \A i \in 0 .. N : f[i] \in Int
  <2> DEFINE T == {i \in 0 .. N : f[i] \in Int}
  <2>1. 0 \in T
    BY <1>0, <1>6
  <2>2. ASSUME NEW i \in 0 .. N - 1, i \in T PROVE i + 1 \in T
    <3>1. i + 1 \in 0 .. N /\ t[i + 1] \in Int /\ f[i] \in Int
      BY <1>0, <2>2
    <3>2. f[i + 1] = 10 * f[i] + t[i + 1] - ZERO
      BY <1>7
    <3>3. f[i + 1] \in Int
      BY <1>0, <3>1, <3>2, SMTT(60)
    <3> QED BY <3>1, <3>3
  <2> HIDE DEF T
  <2>3. \A i \in 0 .. N : i \in T
    BY <1>0, <2>1, <2>2, UpTo
  <2> QED BY <2>3 DEF T
<1>9. f \in [0 .. N -> Int]
  BY <1>4, <1>8
<1> QED BY <1>5, <1>6, <1>7, <1>9 DEF N

\* digits never make it smaller
LEMMA PartialGrows ==
  ASSUME NEW t \in Seq(Nat), Digits(t), NEW n \in 0 .. Len(t)
  PROVE  /\ Partial(t)[n] \in Nat
         /\ \A m \in n .. Len(t) : Partial(t)[m] >= Partial(t)[n]
<1> DEFINE P == Partial(t)
<1>1. /\ P \in [0 .. Len(t) -> Int] /\ P[0] = 0 /\ Len(t) \in Nat
      /\ \A i \in 0 .. Len(t) - 1 : P[i + 1] = 10 * P[i] + t[i + 1] - ZERO
  BY PartialIs
<1>2. \A i \in 0 .. Len(t) - 1 : t[i + 1] - ZERO \in 0 .. 9
  BY DEF Digits, IsDigit, ZERO
<1> HIDE DEF P
<1>3. \A i \in 0 .. Len(t) : P[i] \in Nat
  <2> DEFINE T == {i \in 0 .. Len(t) : P[i] \in Nat}
  <2>1. 0 \in T
    BY <1>1
  <2>2. ASSUME NEW i \in 0 .. Len(t) - 1, i \in T PROVE i + 1 \in T
    <3>1. i + 1 \in 0 .. Len(t) /\ P[i] \in Nat
      BY <1>1, <2>2
    <3>2. P[i + 1] = 10 * P[i] + (t[i + 1] - ZERO) /\ t[i + 1] - ZERO \in 0 .. 9
      BY <1>1, <1>2, <3>1 DEF ZERO
    <3>3. P[i + 1] \in Nat
      <4>1. \A a \in Nat, b \in 0 .. 9 : 10 * a + b \in Nat
        OBVIOUS
      <4> QED BY <3>1, <3>2, <4>1
    <3> QED BY <3>1, <3>3
  <2> HIDE DEF T
  <2>3. \A i \in 0 .. Len(t) : i \in T
    BY <1>1, <2>1, <2>2, UpTo
  <2> QED BY <2>3 DEF T
<1>4. \A m \in 0 .. Len(t) : m >= n => P[m] >= P[n]
  <2> DEFINE T == {m \in 0 .. Len(t) : m >= n => P[m] >= P[n]}
  <2>1. 0 \in T
    BY <1>1, <1>3
  <2>2. ASSUME NEW i \in 0 .. Len(t) - 1, i \in T PROVE i + 1 \in T
    <3>1. i + 1 \in 0 .. Len(t) /\ i \in 0 .. Len(t) /\ P[i] \in Nat /\ P[n] \in Nat
      BY <1>1, <1>3, <2>2
    <3>2. P[i + 1] = 10 * P[i] + (t[i + 1] - ZERO) /\ t[i + 1] - ZERO \in 0 .. 9
      BY <1>1, <1>2, <3>1 DEF ZERO
    <3>3. P[i + 1] >= P[i]
      BY <3>1, <3>2, SMTT(60)
    <3>4. CASE i + 1 = n
      BY <1>3, <3>1, <3>4
    <3>5. CASE i >= n
      BY <1>3, <2>2, <3>1, <3>3, <3>5
    <3>6. CASE i + 1 < n
      BY <3>1, <3>6
    <3> QED BY <3>1, <3>4, <3>5, <3>6
  <2> HIDE DEF T
  <2>3. \A i \in 0 .. Len(t) : i \in T
    BY <1>1, <2>1, <2>2, UpTo
  <2> QED BY <2>3 DEF T
<1> QED BY <1>1, <1>3, <1>4 DEF P

-----------------------------------------------------------------------------
(* Powers of ten, and what printf makes of a number                         *)

LEMMA PowIs ==
  /\ MAX_DIGITS \in Nat /\ MAX_DIGITS >= 1
  /\ Pow10 \in [0 .. MAX_DIGITS -> Nat \ {0}]
  /\ Pow10[0] = 1
  /\ \A i \in 0 .. MAX_DIGITS - 1 : Pow10[i + 1] = 10 * Pow10[i]
<1>0. MAX_DIGITS \in Nat /\ MAX_DIGITS >= 1
  BY DEF MAX_DIGITS
<1> DEFINE N == MAX_DIGITS
           S == Nat \ {0}
           step == [x \in (0 .. N - 1) \X S |-> 10 * x[2]]
<1>1. step \in [(0 .. N - 1) \X S -> S]
  OBVIOUS
<1>2. PICK g : Iterates(g, N, S, 1, step)
  <2>1. 1 \in S /\ N \in Nat
    BY <1>0
  <2> HIDE DEF step, S, N
  <2> QED BY <1>1, <2>1, RecursionExists
<1>3. g = [i \in 0 .. N |-> IF i = 0 THEN 1 ELSE 10 * g[i - 1]]
  <2>1. ASSUME NEW i \in 0 .. N, i # 0 PROVE g[i] = 10 * g[i - 1]
    <3>1. i - 1 \in 0 .. N - 1 /\ (i - 1) + 1 = i
      BY <1>0, <2>1
    <3>2. g[(i - 1) + 1] = step[<<i - 1, g[i - 1]>>]
      BY <1>2, <3>1 DEF Iterates
    <3>3. g[i - 1] \in S
      BY <1>0, <1>2, <3>1 DEF Iterates
    <3> HIDE DEF N, S
    <3> QED BY <3>1, <3>2, <3>3
  <2> QED BY <1>2, <2>1 DEF Iterates
<1>4. Pow10 = [i \in 0 .. N |-> IF i = 0 THEN 1 ELSE 10 * Pow10[i - 1]]
  BY <1>3 DEF Pow10
<1> HIDE DEF step, N
<1>5. Pow10[0] = 1
  BY <1>0, <1>4 DEF N
<1>6. ASSUME NEW i \in 0 .. N - 1 PROVE Pow10[i + 1] = 10 * Pow10[i]
  <2>1. i + 1 \in 0 .. N /\ i + 1 # 0 /\ (i + 1) - 1 = i
    BY <1>0 DEF N
  <2>2. Pow10[i + 1] = 10 * Pow10[(i + 1) - 1]
    BY <1>4, <2>1
  <2> QED BY <2>1, <2>2
<1>7. \A i \in 0 .. N : Pow10[i] \in S
  <2> DEFINE T == {i \in 0 .. N : Pow10[i] \in S}
  <2>1. 0 \in T
    BY <1>0, <1>5 DEF N
  <2>2. \A i \in 0 .. N - 1 : i \in T => i + 1 \in T
    BY <1>0, <1>6 DEF N
  <2> HIDE DEF T
  <2>3. \A i \in 0 .. N : i \in T
    BY <1>0, <2>1, <2>2, UpTo DEF N
  <2> QED BY <2>3 DEF T
<1>8. Pow10 \in [0 .. N -> S]
  BY <1>4, <1>7
<1> QED BY <1>0, <1>5, <1>6, <1>8 DEF N

LEMMA PowMonotone ==
  \A i, j \in 0 .. MAX_DIGITS : i <= j => Pow10[i] <= Pow10[j]
<1> TAKE i, j \in 0 .. MAX_DIGITS
<1> HAVE i <= j
<1> DEFINE T == {m \in 0 .. MAX_DIGITS : i <= m => Pow10[i] <= Pow10[m]}
<1>1. 0 \in T
  BY PowIs
<1>2. ASSUME NEW m \in 0 .. MAX_DIGITS - 1, m \in T PROVE m + 1 \in T
  <2>1. /\ m + 1 \in 0 .. MAX_DIGITS /\ Pow10[m + 1] = 10 * Pow10[m]
        /\ Pow10[m] \in Nat /\ Pow10[i] \in Nat
    BY PowIs
  <2>2. CASE i <= m
    BY <1>2, <2>1, <2>2
  <2>3. CASE i = m + 1
    BY <2>1, <2>3
  <2>4. CASE i > m + 1
    BY <2>1, <2>4
  <2> QED BY <2>1, <2>2, <2>3, <2>4
<1> HIDE DEF T
<1>3. \A m \in 0 .. MAX_DIGITS : m \in T
  BY <1>1, <1>2, PowIs, UpTo
<1> QED BY <1>3 DEF T

LEMMA NumDigitsIs ==
  ASSUME NEW n \in Nat, NEW e \in 1 .. MAX_DIGITS, n < Pow10[e]
  PROVE  /\ NumDigits(n) \in 1 .. e /\ n < Pow10[NumDigits(n)]
         /\ NumDigits(n) = 1 \/ n >= Pow10[NumDigits(n) - 1]
<1> DEFINE T == {d \in 1 .. MAX_DIGITS : n < Pow10[d]}
           Q(d) == d \in 1 .. MAX_DIGITS /\ n < Pow10[d] /\ (d = 1 \/ n >= Pow10[d - 1])
<1>1. e \in T /\ T \subseteq Nat
  OBVIOUS
<1>2. PICK x \in T : \A y \in T : x <= y
  BY <1>1, Least
<1>3. x \in 1 .. e /\ Q(x)
  <2>1. x \in 1 .. e
    BY <1>1, <1>2
  <2>2. CASE x = 1
    BY <2>2
  <2>3. CASE x # 1
    <3>1. x \in 1 .. MAX_DIGITS /\ n < Pow10[x] /\ x - 1 \in 1 .. MAX_DIGITS
      BY <1>2, <2>1, <2>3, PowIs
    <3>2. x - 1 \notin T
      <4> HIDE DEF T
      <4> QED BY <1>2, <3>1
    <3>3. Pow10[x - 1] \in Nat /\ ~(n < Pow10[x - 1])
      BY <3>1, <3>2, PowIs
    <3>4. n >= Pow10[x - 1]
      BY <3>3
    <3> QED BY <2>1, <3>1, <3>4
  <2> QED BY <2>1, <2>2, <2>3
<1>4. NumDigits(n) = CHOOSE d : Q(d)
  BY DEF NumDigits
<1>5. Q(NumDigits(n))
  BY <1>3, <1>4
<1>6. NumDigits(n) <= e
  <2> DEFINE d == NumDigits(n)
  <2>1. CASE d = 1
    BY <2>1
  <2>2. CASE d # 1
    <3>1. /\ n >= Pow10[d - 1] /\ d - 1 \in 0 .. MAX_DIGITS /\ Pow10[d - 1] \in Nat
          /\ Pow10[e] \in Nat
      BY <1>5, <2>2, PowIs, SMTT(60)
    <3>2. ~(Pow10[e] <= Pow10[d - 1])
      BY <3>1
    <3>3. ~(e <= d - 1)
      BY <3>1, <3>2, PowMonotone
    <3> QED BY <1>5, <3>3
  <2> QED BY <2>1, <2>2
<1> QED BY <1>5, <1>6

LEMMA PadIs ==
  ASSUME NEW n \in Nat, NEW w \in 0 .. MAX_DIGITS
  PROVE  Pad(n, w) \in Seq(Nat) /\ Len(Pad(n, w)) = w /\ Digits(Pad(n, w))
<1>1. ASSUME NEW i \in 1 .. w PROVE (n \div Pow10[w - i]) % 10 \in 0 .. 9
  <2>1. w - i \in 0 .. MAX_DIGITS /\ Pow10[w - i] \in Nat \ {0}
    BY PowIs
  <2>2. n \div Pow10[w - i] \in Nat
    BY <2>1
  <2> QED BY <2>2
<1> DEFINE p == Pad(n, w)
<1>2. p = [i \in 1 .. w |-> ZERO + ((n \div Pow10[w - i]) % 10)]
  BY DEF Pad
<1>3. \A i \in 1 .. w : p[i] \in ZERO .. ZERO + 9 /\ p[i] \in Nat
  BY <1>1, <1>2, SMTT(60) DEF ZERO
<1>4. p \in [1 .. w -> Nat] /\ w \in Nat
  BY <1>2, <1>3
<1>5. p \in Seq(Nat) /\ Len(p) = w
  BY <1>4, FunctionIsSeq
<1> QED BY <1>3, <1>5 DEF Digits, IsDigit

Magn(n) == IF n < 0 THEN -n ELSE n

LEMMA DecimalIs ==
  ASSUME NEW n \in Int, NEW e \in 1 .. MAX_DIGITS, Magn(n) < Pow10[e]
  PROVE  \E w \in 1 .. e :
           /\ Magn(n) \in Nat /\ Magn(n) < Pow10[w] /\ Pow10[w] \in Nat
           /\ n < 0  => Decimal(n) = <<MINUS>> \o Pad(Magn(n), w) /\ Len(Decimal(n)) = w + 1
           /\ n >= 0 => Decimal(n) = Pad(Magn(n), w) /\ Len(Decimal(n)) = w
           /\ Decimal(n) \in Seq(Nat)
<1> DEFINE m == Magn(n)
           w == NumDigits(m)
<1>1. m \in Nat
  BY DEF Magn
<1>a. m < Pow10[e]
  OBVIOUS
<1> HIDE DEF m
<1>2. w \in 1 .. e /\ m < Pow10[w] /\ w \in 0 .. MAX_DIGITS
  <2>1. w \in 1 .. e /\ m < Pow10[w]
    BY <1>1, <1>a, NumDigitsIs
  <2> HIDE DEF w
  <2> QED BY <2>1, PowIs
<1>3. Pad(m, w) \in Seq(Nat) /\ Len(Pad(m, w)) = w /\ Pow10[w] \in Nat
  BY <1>1, <1>2, PadIs, PowIs
<1>4. CASE n < 0
  <2>1. m = -n /\ Decimal(n) = <<MINUS>> \o Pad(m, w)
    BY <1>4 DEF m, Magn, Decimal
  <2> HIDE DEF w
  <2>2. <<MINUS>> \o Pad(m, w) \in Seq(Nat) /\ Len(<<MINUS>> \o Pad(m, w)) = w + 1
    BY <1>2, <1>3, ConsElements DEF MINUS
  <2>3. ~(n >= 0) /\ Magn(n) = m
    BY <1>4 DEF m
  <2> QED BY <1>1, <1>2, <1>3, <2>1, <2>2, <2>3
<1>5. CASE n >= 0
  <2>1. m = n /\ Decimal(n) = Pad(m, w)
    BY <1>5 DEF m, Magn, Decimal
  <2> HIDE DEF w
  <2> QED BY <1>1, <1>2, <1>3, <1>5, <2>1 DEF m
<1> QED BY <1>4, <1>5, SMTT(60)

\* the numbers that bufLen takes the logarithm of have digits enough
LEMMA Widths ==
  \E e \in 1 .. MAX_DIGITS : /\ 2 * (LLONG_MAX + 1) < Pow10[e]
                             /\ Pow10[e] \in Nat /\ LLONG_MAX \in Nat
<1>1. PICK d \in 1 .. MAX_DIGITS - 1 : LLONG_MAX < Pow10[d]
  BY TypesAssumption
<1>2. LLONG_MAX \in Nat /\ Pow10[d] \in Nat /\ Pow10[d + 1] = 10 * Pow10[d] /\ d + 1 \in 1 .. MAX_DIGITS
  BY PowIs, TypesAssumption, SMTT(60)
<1>3. 2 * (LLONG_MAX + 1) < 10 * Pow10[d]
  BY <1>1, <1>2
<1>4. 2 * (LLONG_MAX + 1) < Pow10[d + 1] /\ Pow10[d + 1] \in Nat
  BY <1>2, <1>3
<1> QED BY <1>2, <1>4

\* the buffer of amp_put_int and its like holds every number of the type
LEMMA NumberFits ==
  ASSUME NEW t \in Integral, NEW n \in RangeOf(t)
  PROVE  /\ n \in Int /\ Decimal(n) \in Seq(Nat)
         /\ Printed(Decimal(n), BufLen(t)) = Decimal(n)
         /\ \E e \in 1 .. MAX_DIGITS : Magn(n) < Pow10[e]
<1>1. /\ LLONG_MAX \in Nat /\ INT_MAX \in Nat /\ UINT_MAX \in Nat
      /\ INT_MAX <= LLONG_MAX /\ UINT_MAX <= LLONG_MAX
  BY TypesAssumption
<1> DEFINE M == IF t = "int" THEN 2 * (INT_MAX + 1)
                ELSE IF t = "uint" THEN UINT_MAX + 1 ELSE 2 * (LLONG_MAX + 1)
           D == NumDigits(M)
<1>2. \/ t = "int" /\ n \in -INT_MAX - 1 .. INT_MAX /\ M = 2 * (INT_MAX + 1)
      \/ t = "uint" /\ n \in 0 .. UINT_MAX /\ M = UINT_MAX + 1
      \/ t = "long long" /\ n \in -LLONG_MAX - 1 .. LLONG_MAX /\ M = 2 * (LLONG_MAX + 1)
  BY DEF RangeOf, Integral, LLONG_MIN, INT_MIN
<1>a. /\ n \in Int /\ Magn(n) \in Nat /\ Magn(n) <= M
      /\ M \in Nat /\ M <= 2 * (LLONG_MAX + 1)
  <2> HIDE DEF M, D
  <2>1. CASE n \in -INT_MAX - 1 .. INT_MAX /\ M = 2 * (INT_MAX + 1)
    BY <1>1, <2>1 DEF Magn
  <2>2. CASE n \in 0 .. UINT_MAX /\ M = UINT_MAX + 1
    BY <1>1, <2>2 DEF Magn
  <2>3. CASE n \in -LLONG_MAX - 1 .. LLONG_MAX /\ M = 2 * (LLONG_MAX + 1)
    BY <1>1, <2>3 DEF Magn
  <2> QED BY <1>2, <2>1, <2>2, <2>3
<1>3. n \in Int /\ Magn(n) \in Nat /\ Magn(n) <= M /\ (t = "uint" => n >= 0)
  <2>1. t = "uint" => n >= 0
    BY <1>1 DEF RangeOf
  <2> QED BY <1>a, <2>1
<1>4. M \in Nat /\ M <= 2 * (LLONG_MAX + 1)
  BY <1>a
<1>5. BufLen(t) = IF t = "uint" THEN D + 1 ELSE D + 2
  <2>1. \A d \in Int : d - 1 + 2 = d + 1 /\ d - 1 + 3 = d + 2
    OBVIOUS
  <2>2. PICK e \in 1 .. MAX_DIGITS : 2 * (LLONG_MAX + 1) < Pow10[e] /\ Pow10[e] \in Nat
    BY Widths
  <2> HIDE DEF M
  <2>3. M < Pow10[e]
    BY <1>1, <1>4, <2>2
  <2>4. D \in 1 .. e
    BY <1>4, <2>3, NumDigitsIs
  <2>5. BufLen(t) = IF t = "uint" THEN D - 1 + 2 ELSE D - 1 + 3
    BY DEF BufLen, Integral, M
  <2> HIDE DEF D
  <2> QED BY <2>1, <2>4, <2>5
<1> HIDE DEF M
<1>6. PICK e \in 1 .. MAX_DIGITS : 2 * (LLONG_MAX + 1) < Pow10[e] /\ Pow10[e] \in Nat
  BY Widths
<1>7. M < Pow10[e]
  BY <1>1, <1>4, <1>6
<1>8. D \in 1 .. MAX_DIGITS /\ M < Pow10[D] /\ Pow10[D] \in Nat
  BY <1>4, <1>7, NumDigitsIs, PowIs
<1> HIDE DEF D
<1>9. Magn(n) < Pow10[D]
  BY <1>3, <1>4, <1>8
<1>10. PICK w \in 1 .. D :
         /\ n < 0  => Len(Decimal(n)) = w + 1
         /\ n >= 0 => Len(Decimal(n)) = w
         /\ Decimal(n) \in Seq(Nat)
  BY <1>3, <1>8, <1>9, DecimalIs
<1>11. Len(Decimal(n)) < BufLen(t)
  BY <1>3, <1>5, <1>8, <1>10
<1>12. Printed(Decimal(n), BufLen(t)) = Decimal(n)
  <2>1. \A s \in Seq(Nat) : SubSeq(s, 1, Len(s)) = s
    OBVIOUS
  <2> QED BY <1>10, <1>11, <2>1 DEF Printed
<1> QED BY <1>3, <1>8, <1>9, <1>10, <1>12

\* reading the digits of a number gives the number back, from the left
LEMMA PadValue ==
  ASSUME NEW n \in Nat, NEW w \in 0 .. MAX_DIGITS, n < Pow10[w]
  PROVE  \A i \in 0 .. w : Partial(Pad(n, w))[i] = n \div Pow10[w - i]
<1> DEFINE P == Partial(Pad(n, w))
           T == {i \in 0 .. w : P[i] = n \div Pow10[w - i]}
<1>1. w \in Nat /\ Pow10[w] \in Nat \ {0}
  BY PowIs
<1>2. /\ P[0] = 0 /\ P \in [0 .. w -> Int]
      /\ \A i \in 0 .. w - 1 : P[i + 1] = 10 * P[i] + Pad(n, w)[i + 1] - ZERO
  BY PadIs, PartialIs
<1>3. \A i \in 1 .. w : Pad(n, w)[i] = ZERO + ((n \div Pow10[w - i]) % 10)
  BY DEF Pad
<1> HIDE DEF P
<1>4. 0 \in T
  <2>1. n \div Pow10[w] = 0 /\ w - 0 = w /\ 0 \in 0 .. w
    BY <1>1
  <2> QED BY <1>2, <2>1
<1>5. ASSUME NEW i \in 0 .. w - 1, i \in T PROVE i + 1 \in T
  <2>1. /\ i + 1 \in 0 .. w /\ i + 1 \in 1 .. w /\ w - (i + 1) \in 0 .. MAX_DIGITS - 1
        /\ w - (i + 1) \in 0 .. MAX_DIGITS /\ w - i = (w - (i + 1)) + 1
    BY <1>1, PowIs
  <2> DEFINE a == Pow10[w - (i + 1)]
             q == n \div a
  <2>2. a \in Nat \ {0} /\ Pow10[w - i] = 10 * a
    <3>1. Pow10[(w - (i + 1)) + 1] = 10 * a /\ a \in Nat \ {0}
      BY <2>1, PowIs
    <3> QED BY <2>1, <3>1
  <2>3. P[i] = n \div (10 * a)
    BY <1>5, <2>2
  <2>4. P[i + 1] = 10 * P[i] + (ZERO + (q % 10)) - ZERO
    BY <1>2, <1>3, <2>1
  <2> HIDE DEF a
  <2>5. q \in Nat /\ q \div 10 = n \div (10 * a)
    BY <2>2
  <2> HIDE DEF q
  <2>6. 10 * (q \div 10) + (q % 10) = q /\ q % 10 \in 0 .. 9 /\ q \div 10 \in Nat
    BY <2>5
  <2>7. P[i + 1] = q
    <3>1. P[i] = q \div 10
      BY <2>3, <2>5
    <3>2. \A x \in Int, y \in Int : 10 * x + (ZERO + y) - ZERO = 10 * x + y
      BY DEF ZERO
    <3>3. P[i + 1] = 10 * (q \div 10) + (q % 10)
      BY <2>4, <2>6, <3>1, <3>2
    <3> QED BY <2>6, <3>3
  <2> QED BY <2>1, <2>7 DEF q, a
<1> HIDE DEF T
<1>6. \A i \in 0 .. w : i \in T
  BY <1>1, <1>4, <1>5, UpTo
<1> QED BY <1>6 DEF T, P

LEMMA PadMeaning ==
  ASSUME NEW n \in Nat, NEW w \in 0 .. MAX_DIGITS, n < Pow10[w]
  PROVE  Magnitude(Pad(n, w)) = n
<1>1. w \in 0 .. w /\ w - w = 0
  BY PowIs
<1>2. Partial(Pad(n, w))[w] = n \div Pow10[w - w]
  BY <1>1, PadValue
<1>3. n \div 1 = n
  OBVIOUS
<1>4. Len(Pad(n, w)) = w
  BY PadIs
<1> QED BY <1>1, <1>2, <1>3, <1>4, PowIs, MagnitudeIsPartial

\* what comes out of printf's %d is a numeral that means its argument
LEMMA DecimalMeaning ==
  ASSUME NEW n \in Int, NEW e \in 1 .. MAX_DIGITS, Magn(n) < Pow10[e]
  PROVE  Decimal(n) # <<>> /\ IsNumeral(Decimal(n)) /\ Meaning(Decimal(n)) = n
<1>1. PICK w \in 1 .. e :
        /\ Magn(n) \in Nat /\ Magn(n) < Pow10[w]
        /\ n < 0  => Decimal(n) = <<MINUS>> \o Pad(Magn(n), w)
        /\ n >= 0 => Decimal(n) = Pad(Magn(n), w)
  BY DecimalIs
<1>2. w \in 0 .. MAX_DIGITS /\ w >= 1
  BY PowIs
<1>3. PICK p : p = Pad(Magn(n), w)
  OBVIOUS
<1>4. p \in Seq(Nat) /\ Len(p) = w /\ Digits(p) /\ Magnitude(p) = Magn(n) /\ p # <<>>
  <2>1. p \in Seq(Nat) /\ Len(p) = w /\ Digits(p)
    BY <1>1, <1>2, <1>3, PadIs
  <2>2. Magnitude(p) = Magn(n)
    BY <1>1, <1>2, <1>3, PadMeaning
  <2> QED BY <1>2, <2>1, <2>2
<1>5. CASE n < 0
  <2>1. Decimal(n) = <<MINUS>> \o p /\ Magn(n) = -n
    BY <1>1, <1>3, <1>5 DEF Magn
  <2>2. <<MINUS>> \o p # <<>> /\ Head(<<MINUS>> \o p) = MINUS /\ Tail(<<MINUS>> \o p) = p
    BY <1>4, SMTT(60) DEF MINUS
  <2>3. Unsigned(<<MINUS>> \o p) = p
    BY <2>2 DEF Unsigned
  <2>4. -(-n) = n
    OBVIOUS
  <2> QED BY <1>4, <2>1, <2>2, <2>3, <2>4 DEF IsNumeral, Meaning
<1>6. CASE n >= 0
  <2>1. Decimal(n) = p /\ Magn(n) = n
    BY <1>1, <1>3, <1>6 DEF Magn
  <2>2. Head(p) = p[1] /\ IsDigit(p[1])
    BY <1>2, <1>4 DEF Digits
  <2>3. Head(p) # MINUS /\ Head(p) # PLUS
    BY <2>2 DEF IsDigit, ZERO, MINUS, PLUS
  <2>4. Unsigned(p) = p
    BY <2>3 DEF Unsigned
  <2> QED BY <1>4, <2>1, <2>3, <2>4 DEF IsNumeral, Meaning
<1> QED BY <1>5, <1>6

LEMMA JoinSeq ==
  \A s, u \in Seq(Nat) : s \o u \in Seq(Nat) /\ Len(s \o u) = Len(s) + Len(u)
BY JoinElements

LEMMA OneByte == \A c \in Nat : <<c>> \in Seq(Nat) /\ Len(<<c>>) = 1
OBVIOUS

LEMMA ByteAndText ==
  \A c \in Nat, s \in Seq(Nat) : <<c>> \o s \in Seq(Nat) /\ Len(<<c>> \o s) = Len(s) + 1
BY ConsElements

Part(v)     == v.num \div Pow10[FRAC]
Fraction(v) == v.num % Pow10[FRAC]

LEMMA FiniteTextIs ==
  ASSUME NEW v \in Doubles, Finite(v)
  PROVE  /\ v.neg \in BOOLEAN /\ v.num \in Nat /\ FRAC \in 0 .. MAX_DIGITS
         /\ Part(v) \in Nat /\ Fraction(v) \in Nat /\ Fraction(v) < Pow10[FRAC]
         /\ \E e \in 1 .. MAX_DIGITS : Part(v) < Pow10[e]
         /\ FiniteText(v) = (IF v.neg THEN <<MINUS>> ELSE <<>>) \o Decimal(Part(v))
                              \o <<DOT>> \o Pad(Fraction(v), FRAC)
         /\ FiniteText(v) \in Seq(Nat)
<1>1. /\ v.neg \in BOOLEAN /\ v.num \in Nat
      /\ \E e \in 1 .. MAX_DIGITS : Part(v) < Pow10[e]
  BY ValuesAssumption DEF Finite, Part
<1>2. FRAC \in 0 .. MAX_DIGITS /\ Pow10[FRAC] \in Nat \ {0}
  BY TypesAssumption, PowIs, SMTT(60)
<1>3. Part(v) \in Nat /\ Fraction(v) \in Nat /\ Fraction(v) < Pow10[FRAC]
  BY <1>1, <1>2 DEF Part, Fraction
<1>4. Decimal(Part(v)) \in Seq(Nat)
  <2>1. Part(v) \in Int /\ Magn(Part(v)) = Part(v)
    BY <1>3 DEF Magn
  <2> QED BY <1>1, <2>1, DecimalIs
<1>5. Pad(Fraction(v), FRAC) \in Seq(Nat)
  BY <1>2, <1>3, PadIs
<1>6. <<DOT>> \in Seq(Nat) /\ (IF v.neg THEN <<MINUS>> ELSE <<>>) \in Seq(Nat)
  BY DEF DOT, MINUS
<1>7. FiniteText(v) = (IF v.neg THEN <<MINUS>> ELSE <<>>) \o Decimal(Part(v))
                        \o <<DOT>> \o Pad(Fraction(v), FRAC)
  BY DEF FiniteText, Part, Fraction
<1>8. FiniteText(v) \in Seq(Nat)
  BY <1>4, <1>5, <1>6, <1>7, JoinSeq
<1> QED BY <1>1, <1>2, <1>3, <1>7, <1>8

-----------------------------------------------------------------------------
(* Every variable has its type: what is stored is bytes, and of a DateTime   *)
(* no more than nine fields are kept.                                        *)

LEMMA ConstantTexts ==
  /\ TrueText \in Seq(Nat) /\ FalseText \in Seq(Nat) /\ NanText \in Seq(Nat) /\ InfText \in Seq(Nat)
  /\ <<MINUS>> \o InfText \in Seq(Nat)
<1>1. \A a, b, c, d, e \in Nat : /\ <<a, b, c>> \in Seq(Nat) /\ <<a, b, c, d>> \in Seq(Nat)
                                 /\ <<a, b, c, d, e>> \in Seq(Nat)
  OBVIOUS
<1>2. /\ TrueText \in Seq(Nat) /\ FalseText \in Seq(Nat) /\ NanText \in Seq(Nat)
      /\ InfText \in Seq(Nat) /\ MINUS \in Nat
  <2>1. TrueText \in Seq(Nat) /\ FalseText \in Seq(Nat)
    BY <1>1 DEF TrueText, FalseText
  <2>2. NanText \in Seq(Nat) /\ InfText \in Seq(Nat) /\ MINUS \in Nat
    BY <1>1 DEF NanText, InfText, MINUS
  <2> QED BY <2>1, <2>2
<1> QED BY <1>2, OneByte, JoinSeq

LEMMA FiniteBytesIs ==
  ASSUME NEW t \in Seq(Nat), NEW byte \in Nat
  PROVE  FiniteBytes(t, byte) \in Seq(Nat)
<1> DEFINE c(i) == IF i < DBL_BUF THEN t[i] ELSE IF i = DBL_BUF THEN 0 ELSE byte
<1>1. Len(t) \in Nat /\ \A i \in 1 .. Len(t) : c(i) \in Nat
  OBVIOUS
<1>2. FiniteBytes(t, byte) = [i \in 1 .. Len(t) |-> c(i)]
  BY DEF FiniteBytes
<1> HIDE DEF c
<1> QED BY <1>1, <1>2, FunctionIsSeq


LEMMA DateFieldIs ==
  ASSUME NEW v, ValidDateTime(v), NEW d \in [DateFields -> Int], d = v.date
  PROVE  /\ d[1] \in Nat /\ d[2] \in Nat /\ d[3] \in Nat /\ d[4] \in Nat
         /\ d[5] \in Nat /\ d[6] \in Nat /\ d[7] \in Nat
         /\ IsOffset(v.utc_offset)
<1>1. ASSUME NEW i \in 1 .. 7 PROVE d[i] \in Int /\ InField(i, d[i])
  BY <1>1, SMTT(60) DEF ValidDateTime, DateFields
<1>2. ASSUME NEW x \in Int, NEW i \in 1 .. 7, InField(i, x) PROVE x \in Nat
  <2>1. Fields[i].lo \in Nat
    BY <1>2, SMTT(60) DEF Fields
  <2> QED BY <1>2, <2>1 DEF InField
<1>3. \A i \in 1 .. 7 : d[i] \in Nat
  BY <1>1, <1>2
<1>4. IsOffset(v.utc_offset)
  <2>2. PICK o : o = v.utc_offset
    OBVIOUS
  <2>4. IsOffset(o)
    BY <2>2, SMTT(60) DEF ValidDateTime, IsOffset
  <2> QED BY <2>2, <2>4
<1> QED BY <1>3, <1>4

\* p is found in t, after the first `at' bytes
FieldAt(t, at, p) == /\ at \in Nat /\ at + Len(p) <= Len(t)
                     /\ \A i \in 1 .. Len(p) : t[at + i] = p[i]

IsText(t, n) == t \in Seq(Nat) /\ n \in Nat /\ Len(t) = n

Plus(n, m, k) == n \in Nat /\ m \in Nat /\ k = n + m

Keeps(s, t) == \A at, p : p \in Seq(Nat) /\ FieldAt(s, at, p) => FieldAt(t, at, p)

LEMMA BytesOfJoin ==
  ASSUME NEW s \in Seq(Nat), NEW u \in Seq(Nat), NEW t, t = s \o u
  PROVE  /\ t \in Seq(Nat) /\ Len(t) = Len(s) + Len(u) /\ Len(s) \in Nat /\ Len(u) \in Nat
         /\ \A i \in 1 .. Len(s) : t[i] = s[i]
         /\ \A i \in 1 .. Len(u) : t[Len(s) + i] = u[i]
OBVIOUS

LEMMA JoinText ==
  ASSUME NEW s, NEW u, NEW n, NEW m, IsText(s, n), IsText(u, m), NEW t, t = s \o u
  PROVE  /\ \E k : Plus(n, m, k) /\ IsText(t, k)
         /\ FieldAt(t, 0, s) /\ FieldAt(t, n, u)
         /\ Keeps(s, t)
<1>a. s \in Seq(Nat) /\ u \in Seq(Nat)
  BY DEF IsText
<1>0. Len(s) = n /\ Len(u) = m /\ n \in Nat /\ m \in Nat
  BY DEF IsText
<1>1. /\ t \in Seq(Nat) /\ Len(t) = Len(s) + Len(u) /\ Len(s) \in Nat /\ Len(u) \in Nat
      /\ \A i \in 1 .. Len(s) : t[i] = s[i]
      /\ \A i \in 1 .. Len(u) : t[Len(s) + i] = u[i]
  BY <1>a, BytesOfJoin
<1>2. FieldAt(t, 0, s) /\ FieldAt(t, n, u)
  <2>1. FieldAt(t, 0, s)
    BY <1>1 DEF FieldAt
  <2>2. n + Len(u) <= Len(t) /\ \A i \in 1 .. Len(u) : t[n + i] = u[i]
    BY <1>0, <1>1
  <2> QED BY <1>0, <2>1, <2>2 DEF FieldAt
<1>3. ASSUME NEW at, NEW p, p \in Seq(Nat), FieldAt(s, at, p) PROVE FieldAt(t, at, p)
  <2>1. /\ at \in Nat /\ Len(p) \in Nat /\ at + Len(p) <= Len(s)
        /\ \A i \in 1 .. Len(p) : s[at + i] = p[i]
    BY <1>3 DEF FieldAt
  <2>2. \A i \in 1 .. Len(p) : at + i \in 1 .. Len(s)
    BY <1>1, <2>1
  <2> QED BY <1>1, <2>1, <2>2 DEF FieldAt
<1>4. \E k : Plus(n, m, k) /\ IsText(t, k)
  BY <1>0, <1>1 DEF IsText, Plus
<1> QED BY <1>2, <1>3, <1>4 DEF Keeps

Extended(s, c, u) == s \o <<c>> \o u

LEMMA ExtendText ==
  ASSUME NEW s, NEW c \in Nat, NEW u, NEW n, NEW m, IsText(s, n), IsText(u, m),
         NEW t, t = Extended(s, c, u)
  PROVE  /\ FieldAt(t, 0, s) /\ Keeps(s, t)
         /\ \E a : /\ Plus(n, 1, a) /\ t[a] = c /\ FieldAt(t, a, u)
                  /\ \E k : Plus(a, m, k) /\ IsText(t, k)
<1>1. PICK x : x = s \o <<c>>
  OBVIOUS
<1>2. PICK a : Plus(n, 1, a) /\ a = n + 1 /\ a \in Nat
  BY DEF IsText, Plus
<1>3. /\ IsText(x, a) /\ x[a] = c /\ FieldAt(x, 0, s) /\ Keeps(s, x)
  <2>1. <<c>> \in Seq(Nat) /\ Len(<<c>>) = 1 /\ <<c>>[1] = c
    OBVIOUS
  <2>2. IsText(<<c>>, 1)
    BY <2>1 DEF IsText
  <2>3. PICK q : q = <<c>>
    OBVIOUS
  <2>4. FieldAt(x, 0, s) /\ Keeps(s, x) /\ \E k : Plus(n, 1, k) /\ IsText(x, k)
    BY <1>1, <2>2, <2>3, JoinText
  <2>5. x[a] = c
    BY <1>1, <1>2 DEF IsText
  <2> QED BY <1>2, <2>4, <2>5 DEF Plus
<1>4. t = x \o u
  BY <1>1 DEF Extended
<1>5. /\ \E k : Plus(a, m, k) /\ IsText(t, k)
      /\ FieldAt(t, 0, x) /\ FieldAt(t, a, u) /\ Keeps(x, t)
  BY <1>3, <1>4, JoinText
<1>6. t[a] = c
  <2>1. a \in 1 .. Len(x) /\ t[0 + a] = x[a]
    BY <1>2, <1>3, <1>5 DEF FieldAt, IsText
  <2> QED BY <1>2, <1>3, <2>1
<1>7. Keeps(s, t)
  BY <1>3, <1>5 DEF Keeps
<1>8. FieldAt(t, 0, s)
  BY <1>3, <1>5 DEF Keeps, IsText
<1> QED BY <1>2, <1>5, <1>6, <1>7, <1>8

LEMMA SmallPads ==
  \A n \in Nat : IsText(Pad(n, 2), 2) /\ IsText(Pad(n, 4), 4) /\ IsText(Pad(n, 6), 6)
<1>1. 2 \in 0 .. MAX_DIGITS /\ 4 \in 0 .. MAX_DIGITS /\ 6 \in 0 .. MAX_DIGITS
  BY DEF MAX_DIGITS
<1> QED BY <1>1, PadIs DEF IsText

Minutes(o) == IF o < 0 THEN -o ELSE o

LEMMA OffsetTextIs ==
  ASSUME NEW o, IsOffset(o)
  PROVE  /\ Minutes(o) \in Nat
         /\ Minutes(o) \div 60 \in 0 .. 23 /\ Minutes(o) % 60 \in 0 .. 59
         /\ OffsetText(o) = <<IF o >= 0 THEN PLUS ELSE MINUS>> \o Pad(Minutes(o) \div 60, 2)
                              \o <<COLON>> \o Pad(Minutes(o) % 60, 2)
         /\ IsText(OffsetText(o), 6)
<1> DEFINE m == Minutes(o)
<1>1. m \in Nat /\ m <= 1439
  BY OffsetIs, SMTT(60) DEF Minutes
<1>2. OffsetText(o) = <<IF o >= 0 THEN PLUS ELSE MINUS>> \o Pad(m \div 60, 2) \o <<COLON>> \o Pad(m % 60, 2)
  BY DEF OffsetText, Minutes
<1> HIDE DEF m
<1>3. m \div 60 \in 0 .. 23 /\ m % 60 \in 0 .. 59
  BY <1>1
<1>4. PICK h, l : h = Pad(m \div 60, 2) /\ l = Pad(m % 60, 2)
  OBVIOUS
<1>5. IsText(h, 2) /\ IsText(l, 2)
  <2>1. m \div 60 \in Nat /\ m % 60 \in Nat
    BY <1>3
  <2> QED BY <1>4, <2>1, SmallPads
<1>6. PICK s \in Nat : s = IF o >= 0 THEN PLUS ELSE MINUS
  BY DEF PLUS, MINUS
<1>7. PICK q : q = <<s>> \o h
  OBVIOUS
<1>8. IsText(q, 3)
  <2>1. IsText(<<s>>, 1)
    BY DEF IsText
  <2>2. PICK b : b = <<s>>
    OBVIOUS
  <2>3. \E k : Plus(1, 2, k) /\ IsText(q, k)
    BY <1>5, <1>7, <2>1, <2>2, JoinText
  <2> QED BY <2>3 DEF Plus
<1>9. IsText(OffsetText(o), 6)
  <2>1. COLON \in Nat
    BY DEF COLON
  <2>2. OffsetText(o) = Extended(q, COLON, l)
    BY <1>2, <1>4, <1>6, <1>7 DEF Extended
  <2>3. PICK r : r = OffsetText(o)
    OBVIOUS
  <2>4. \E a : Plus(3, 1, a) /\ \E k : Plus(a, 2, k) /\ IsText(r, k)
    BY <1>5, <1>8, <2>1, <2>2, <2>3, ExtendText
  <2> QED BY <2>3, <2>4 DEF Plus
<1> QED BY <1>1, <1>2, <1>3, <1>9 DEF m

LEMMA DateTimeTextIs ==
  ASSUME NEW v \in DateTimes, ValidDateTime(v)
  PROVE  \E p1, p2, p3, p4, p5, p6, p7, o \in Seq(Nat) :
           /\ p1 = Pad(v.date[1], 4) /\ p2 = Pad(v.date[2], 2) /\ p3 = Pad(v.date[3], 2)
           /\ p4 = Pad(v.date[4], 2) /\ p5 = Pad(v.date[5], 2) /\ p6 = Pad(v.date[6], 2)
           /\ p7 = Pad(v.date[7], 6) /\ o = OffsetText(v.utc_offset)
           /\ IsText(DateTimeText(v), 32)
           /\ FieldAt(DateTimeText(v), 0, p1) /\ FieldAt(DateTimeText(v), 5, p2)
           /\ FieldAt(DateTimeText(v), 8, p3) /\ FieldAt(DateTimeText(v), 11, p4)
           /\ FieldAt(DateTimeText(v), 14, p5) /\ FieldAt(DateTimeText(v), 17, p6)
           /\ FieldAt(DateTimeText(v), 20, p7) /\ FieldAt(DateTimeText(v), 26, o)
<1>1. /\ v.date[1] \in Nat /\ v.date[2] \in Nat /\ v.date[3] \in Nat /\ v.date[4] \in Nat
      /\ v.date[5] \in Nat /\ v.date[6] \in Nat /\ v.date[7] \in Nat
      /\ IsOffset(v.utc_offset)
  <2>1. PICK d \in [DateFields -> Int] : d = v.date
    BY ValuesAssumption
  <2>2. /\ d[1] \in Nat /\ d[2] \in Nat /\ d[3] \in Nat /\ d[4] \in Nat
        /\ d[5] \in Nat /\ d[6] \in Nat /\ d[7] \in Nat /\ IsOffset(v.utc_offset)
    BY <2>1, DateFieldIs
  <2> QED BY <2>1, <2>2
<1>a. PICK d1, d2, d3, d4, d5, d6, d7 \in Nat :
        /\ d1 = v.date[1] /\ d2 = v.date[2] /\ d3 = v.date[3] /\ d4 = v.date[4]
        /\ d5 = v.date[5] /\ d6 = v.date[6] /\ d7 = v.date[7]
  BY <1>1
<1>b. PICK off : IsOffset(off) /\ off = v.utc_offset
  BY <1>1
<1>2. PICK p1, p2, p3, p4, p5, p6, p7, o :
        /\ p1 = Pad(d1, 4) /\ p2 = Pad(d2, 2) /\ p3 = Pad(d3, 2) /\ p4 = Pad(d4, 2)
        /\ p5 = Pad(d5, 2) /\ p6 = Pad(d6, 2) /\ p7 = Pad(d7, 6) /\ o = OffsetText(off)
  OBVIOUS
<1>3. /\ IsText(p1, 4) /\ IsText(p2, 2) /\ IsText(p3, 2) /\ IsText(p4, 2)
      /\ IsText(p5, 2) /\ IsText(p6, 2) /\ IsText(p7, 6)
  BY <1>2, SmallPads
<1>4. IsText(o, 6)
  BY <1>b, <1>2, OffsetTextIs
<1>5. MINUS \in Nat /\ UPPER_T \in Nat /\ COLON \in Nat /\ DOT \in Nat
  BY DEF MINUS, UPPER_T, COLON, DOT
<1>6. PICK t2 : t2 = Extended(p1, MINUS, p2)
  OBVIOUS
<1>7. PICK t3 : t3 = Extended(t2, MINUS, p3)
  OBVIOUS
<1>8. PICK t4 : t4 = Extended(t3, UPPER_T, p4)
  OBVIOUS
<1>9. PICK t5 : t5 = Extended(t4, COLON, p5)
  OBVIOUS
<1>10. PICK t6 : t6 = Extended(t5, COLON, p6)
  OBVIOUS
<1>11. PICK t7 : t7 = Extended(t6, DOT, p7)
  OBVIOUS
<1>12. PICK t8 : t8 = t7 \o o
  BY Zenon
<1>13. DateTimeText(v) = t8
  BY <1>a, <1>b, <1>2, <1>6, <1>7, <1>8, <1>9, <1>10, <1>11, <1>12, Zenon DEF DateTimeText, Extended
<1>14. IsText(t2, 7) /\ FieldAt(t2, 0, p1) /\ Keeps(p1, t2) /\ FieldAt(t2, 5, p2)
  <2>1. /\ FieldAt(t2, 0, p1) /\ Keeps(p1, t2)
        /\ \E a : /\ Plus(4, 1, a) /\ FieldAt(t2, a, p2)
                 /\ \E n : Plus(a, 2, n) /\ IsText(t2, n)
    BY <1>3, <1>5, <1>6, ExtendText
  <2> QED BY <2>1 DEF Plus
<1>15. IsText(t3, 10) /\ FieldAt(t3, 0, t2) /\ Keeps(t2, t3) /\ FieldAt(t3, 8, p3)
  <2>1. /\ FieldAt(t3, 0, t2) /\ Keeps(t2, t3)
        /\ \E a : /\ Plus(7, 1, a) /\ FieldAt(t3, a, p3)
                 /\ \E n : Plus(a, 2, n) /\ IsText(t3, n)
    BY <1>3, <1>5, <1>7, <1>14, ExtendText
  <2> QED BY <2>1 DEF Plus
<1>16. IsText(t4, 13) /\ FieldAt(t4, 0, t3) /\ Keeps(t3, t4) /\ FieldAt(t4, 11, p4)
  <2>1. /\ FieldAt(t4, 0, t3) /\ Keeps(t3, t4)
        /\ \E a : /\ Plus(10, 1, a) /\ FieldAt(t4, a, p4)
                 /\ \E n : Plus(a, 2, n) /\ IsText(t4, n)
    BY <1>3, <1>5, <1>8, <1>15, ExtendText
  <2> QED BY <2>1 DEF Plus
<1>17. IsText(t5, 16) /\ FieldAt(t5, 0, t4) /\ Keeps(t4, t5) /\ FieldAt(t5, 14, p5)
  <2>1. /\ FieldAt(t5, 0, t4) /\ Keeps(t4, t5)
        /\ \E a : /\ Plus(13, 1, a) /\ FieldAt(t5, a, p5)
                 /\ \E n : Plus(a, 2, n) /\ IsText(t5, n)
    BY <1>3, <1>5, <1>9, <1>16, ExtendText
  <2> QED BY <2>1 DEF Plus
<1>18. IsText(t6, 19) /\ FieldAt(t6, 0, t5) /\ Keeps(t5, t6) /\ FieldAt(t6, 17, p6)
  <2>1. /\ FieldAt(t6, 0, t5) /\ Keeps(t5, t6)
        /\ \E a : /\ Plus(16, 1, a) /\ FieldAt(t6, a, p6)
                 /\ \E n : Plus(a, 2, n) /\ IsText(t6, n)
    BY <1>3, <1>5, <1>10, <1>17, ExtendText
  <2> QED BY <2>1 DEF Plus
<1>19. IsText(t7, 26) /\ FieldAt(t7, 0, t6) /\ Keeps(t6, t7) /\ FieldAt(t7, 20, p7)
  <2>1. /\ FieldAt(t7, 0, t6) /\ Keeps(t6, t7)
        /\ \E a : /\ Plus(19, 1, a) /\ FieldAt(t7, a, p7)
                 /\ \E n : Plus(a, 6, n) /\ IsText(t7, n)
    BY <1>3, <1>5, <1>11, <1>18, ExtendText
  <2> QED BY <2>1 DEF Plus
<1>20. IsText(t8, 32) /\ Keeps(t7, t8) /\ FieldAt(t8, 26, o)
  <2>1. /\ \E n : Plus(26, 6, n) /\ IsText(t8, n)
        /\ Keeps(t7, t8) /\ FieldAt(t8, 26, o)
    BY <1>3, <1>4, <1>12, <1>19, JoinText
  <2> QED BY <2>1 DEF Plus
<1>21. /\ FieldAt(t8, 0, p1) /\ FieldAt(t8, 5, p2) /\ FieldAt(t8, 8, p3) /\ FieldAt(t8, 11, p4)
       /\ FieldAt(t8, 14, p5) /\ FieldAt(t8, 17, p6) /\ FieldAt(t8, 20, p7)
  <2>1. FieldAt(t8, 0, p1) /\ FieldAt(t8, 5, p2)
    BY <1>3, <1>14, <1>15, <1>16, <1>17, <1>18, <1>19, <1>20 DEF Keeps, IsText
  <2>2. FieldAt(t8, 8, p3) /\ FieldAt(t8, 11, p4)
    BY <1>3, <1>15, <1>16, <1>17, <1>18, <1>19, <1>20 DEF Keeps, IsText
  <2>3. FieldAt(t8, 14, p5) /\ FieldAt(t8, 17, p6) /\ FieldAt(t8, 20, p7)
    BY <1>3, <1>17, <1>18, <1>19, <1>20 DEF Keeps, IsText
  <2> QED BY <2>1, <2>2, <2>3
<1> QED BY <1>a, <1>b, <1>2, <1>3, <1>4, <1>13, <1>20, <1>21 DEF IsText

LEMMA DateTimeBytes == \A v \in DateTimes : ValidDateTime(v) => DateTimeText(v) \in Seq(Nat)
BY DateTimeTextIs DEF IsText

\* what amp_put_double stores
LEMMA DoubleBytes ==
  /\ \A v \in Doubles, byte \in Nat : Finite(v) => FiniteBytes(FiniteText(v), byte) \in Seq(Nat)
  /\ \A s \in Specials : s.text \in Seq(Nat)
<1>1. ASSUME NEW v \in Doubles, NEW byte \in Nat, Finite(v)
      PROVE  FiniteBytes(FiniteText(v), byte) \in Seq(Nat)
  <2>1. PICK t \in Seq(Nat) : t = FiniteText(v)
    BY <1>1, FiniteTextIs
  <2> QED BY <2>1, FiniteBytesIs
<1>2. ASSUME NEW s \in Specials PROVE s.text \in Seq(Nat)
  <2>1. s.text = InfText \/ s.text = NanText \/ s.text = <<MINUS>> \o InfText
    BY DEF Specials
  <2> QED BY <2>1, ConstantTexts
<1> QED BY <1>1, <1>2

\* the fields lie within the 32 bytes
LEMMA FieldPlaces ==
  \A i \in 1 .. 9 : /\ Fields[i].at \in Nat /\ Fields[i].len \in Nat
                    /\ Fields[i].len >= 2 /\ Fields[i].at + Fields[i].len <= 32
<1>1. Fields[1].at = 0 /\ Fields[1].len = 4
  BY SMTT(60) DEF Fields
<1>2. Fields[2].at = 5 /\ Fields[2].len = 2
  BY SMTT(60) DEF Fields
<1>3. Fields[3].at = 8 /\ Fields[3].len = 2
  BY SMTT(60) DEF Fields
<1>4. Fields[4].at = 11 /\ Fields[4].len = 2
  BY SMTT(60) DEF Fields
<1>5. Fields[5].at = 14 /\ Fields[5].len = 2
  BY SMTT(60) DEF Fields
<1>6. Fields[6].at = 17 /\ Fields[6].len = 2
  BY SMTT(60) DEF Fields
<1>7. Fields[7].at = 20 /\ Fields[7].len = 6
  BY SMTT(60) DEF Fields
<1>8. Fields[8].at = 27 /\ Fields[8].len = 2
  BY SMTT(60) DEF Fields
<1>9. Fields[9].at = 30 /\ Fields[9].len = 2
  BY SMTT(60) DEF Fields
<1>10. ASSUME NEW i \in 1 .. 9
       PROVE  \E a, l \in Nat : Fields[i].at = a /\ Fields[i].len = l /\ l >= 2 /\ a + l <= 32
  BY <1>1, <1>2, <1>3, <1>4, <1>5, <1>6, <1>7, <1>8, <1>9
<1> QED BY <1>10

\* one of the nine fields, cut out of the 32 bytes
LEMMA FieldTextIs ==
  ASSUME text \in Seq(Nat), Len(text) = 32, NEW i \in 1 .. 9
  PROVE  /\ FieldText(i) \in Seq(Nat) /\ FieldText(i) # <<>>
         /\ Len(FieldText(i)) = Fields[i].len
         /\ \A k \in 1 .. Fields[i].len : FieldText(i)[k] = text[Fields[i].at + k]
<1> DEFINE a == Fields[i].at
           l == Fields[i].len
<1>1. a \in Nat /\ l \in Nat /\ l >= 2 /\ a + l <= 32
  BY FieldPlaces
<1> HIDE DEF a, l
<1>2. FieldText(i) = SubSeq(text, a + 1, a + l)
  BY DEF FieldText, a, l
<1>3. PICK m, n : m = a + 1 /\ n = a + l /\ m \in Nat /\ n \in Nat /\ 1 <= m /\ m <= n /\ n <= Len(text)
  BY <1>1
<1>4. /\ SubSeq(text, m, n) \in Seq(Nat) /\ Len(SubSeq(text, m, n)) = n - m + 1
      /\ \A k \in 1 .. n - m + 1 : SubSeq(text, m, n)[k] = text[m + k - 1]
  <2>1. m \in Int /\ n \in Int /\ \A k \in m .. n : k \in 1 .. Len(text)
    BY <1>3
  <2>a. \A k \in m .. n : text[k] \in Nat
    BY <2>1, ElementOfSequence
  <2>2. /\ SubSeq(text, m, n) \in Seq(Nat)
        /\ Len(SubSeq(text, m, n)) = IF m <= n THEN n - m + 1 ELSE 0
        /\ \A k \in 1 .. n - m + 1 : SubSeq(text, m, n)[k] = text[m + k - 1]
    BY <2>1, <2>a, SubSeqProperties
  <2> QED BY <1>3, <2>2
<1>5. n - m + 1 = l /\ \A k \in 1 .. l : m + k - 1 = a + k
  BY <1>1, <1>3
<1>6. PICK f : f = SubSeq(text, m, n)
  OBVIOUS
<1>7. f \in Seq(Nat) /\ Len(f) = l /\ \A k \in 1 .. l : f[k] = text[a + k]
  BY <1>4, <1>5, <1>6
<1>8. f # <<>>
  BY <1>1, <1>7
<1>9. f = FieldText(i)
  BY <1>2, <1>3, <1>6
<1> QED BY <1>7, <1>8, <1>9 DEF l, a

\* a loop has something to read, and a DateTime its 32 bytes
Loading == pc = "reading" => text # <<>> /\ (type = "datetime" => Len(text) = 32)

Typed == TypeOK /\ Loading

LEMMA InitTyped == Init => Typed
<1>1. <<>> \in Seq(Nat) /\ <<>> \in Seq(Int) /\ Len(<<>>) <= 9
  OBVIOUS
<1>2. Init => pc = "empty" /\ type = "none" /\ text = <<>> /\ rest = <<>> /\ neg = FALSE /\ any = FALSE
              /\ acc = 0 /\ frac = -1 /\ field = 1 /\ dt = <<>> /\ err = "OK"
  BY DEF Init
<1>3. Init => /\ text \in Seq(Nat) /\ rest \in Seq(Nat) /\ dt \in Seq(Int) /\ Len(dt) <= 9
              /\ acc \in Int /\ frac \in Int /\ frac >= -1 /\ field \in 1 .. 9
  BY <1>1, <1>2
<1>4. Init => pc = "empty" /\ type = "none" /\ neg \in BOOLEAN /\ any \in BOOLEAN /\ err = "OK"
  BY <1>2
<1> QED BY <1>3, <1>4 DEF Typed, TypeOK, Loading

LEMMA StoreTyped ==
  ASSUME Typed, NEW t \in Integral \cup {"bytes", "bool", "double", "datetime"}, NEW v,
         NEW b \in Seq(Nat), Store(t, v, b)
  PROVE  Typed'
<1>1. /\ pc' = "stored" /\ type' = t /\ text' = b /\ err' = "OK"
      /\ UNCHANGED <<rest, neg, any, acc, frac, field, dt>>
  BY DEF Store, loopVars
<1> QED BY <1>1 DEF Typed, TypeOK, Loading

LEMMA PutTyped == ASSUME Typed, Put PROVE Typed'
<1>1. ASSUME NEW t \in Integral, NEW n \in Numbers, PutInteger(t, n) PROVE Typed'
  <2>1. n \in RangeOf(t) /\ Store(t, n, Printed(Decimal(n), BufLen(t)))
    BY <1>1 DEF PutInteger
  <2>2. PICK b \in Seq(Nat) : b = Printed(Decimal(n), BufLen(t))
    BY <2>1, NumberFits
  <2> QED BY <2>1, <2>2, StoreTyped
<1>2. ASSUME NEW b \in BOOLEAN, PutBool(b) PROVE Typed'
  <2>1. PICK t \in Seq(Nat) : t = IF b THEN TrueText ELSE FalseText
    BY ConstantTexts
  <2>2. Store("bool", b, t)
    BY <1>2, <2>1 DEF PutBool
  <2> QED BY <2>2, StoreTyped
<1>3. ASSUME NEW v \in Doubles, PutDouble(v) PROVE Typed'
  <2>1. CASE \E byte \in {0, ZERO} : Finite(v) /\ Store("double", v, FiniteBytes(FiniteText(v), byte))
    <3>1. PICK byte \in {0, ZERO} : Finite(v) /\ Store("double", v, FiniteBytes(FiniteText(v), byte))
      BY <2>1
    <3>2. byte \in Nat
      BY DEF ZERO
    <3>3. PICK b \in Seq(Nat) : b = FiniteBytes(FiniteText(v), byte)
      BY <3>1, <3>2, DoubleBytes
    <3> QED BY <3>1, <3>3, StoreTyped
  <2>2. CASE \E s \in Specials : Store("double", v, s.text)
    <3>1. PICK s \in Specials : Store("double", v, s.text)
      BY <2>2
    <3>2. PICK b \in Seq(Nat) : b = s.text
      BY DoubleBytes
    <3> QED BY <3>1, <3>2, StoreTyped
  <2> QED BY <1>3, <2>1, <2>2 DEF PutDouble
<1>4. ASSUME NEW v \in DateTimes, PutDateTime(v) PROVE Typed'
  <2>1. ValidDateTime(v) /\ Store("datetime", v, DateTimeText(v))
    BY <1>4 DEF PutDateTime
  <2>2. PICK b \in Seq(Nat) : b = DateTimeText(v)
    BY <2>1, DateTimeBytes
  <2> QED BY <2>1, <2>2, StoreTyped
<1>5. ASSUME NEW v \in DateTimes, PutDateTimeRefused(v) PROVE Typed'
  <2>1. /\ err' = "AMP_ENCODE_ERROR" /\ pc' = "done" /\ type' = "none"
        /\ UNCHANGED <<text, rest, neg, any, acc, frac, field, dt>>
    BY <1>5 DEF PutDateTimeRefused, loopVars
  <2> QED BY <2>1 DEF Typed, TypeOK, Loading
<1>6. ASSUME NEW t \in Texts, PutBytes(t) PROVE Typed'
  <2>1. t \in Seq(Nat) /\ Store("bytes", t, t)
    BY <1>6, TypesAssumption DEF PutBytes
  <2> QED BY <2>1, StoreTyped
<1> QED BY <1>1, <1>2, <1>3, <1>4, <1>5, <1>6 DEF Put

LEMMA ReturnTyped ==
  ASSUME Typed, NEW v,
         NEW code \in {"OK", "AMP_KEY_NOT_FOUND", "AMP_DECODE_ERROR", "AMP_OUT_OF_RANGE"},
         Return(code, v),
         type' \in Integral \cup {"none", "bytes", "bool", "double", "datetime"}
  PROVE  Typed'
<1>1. /\ pc' = "done" /\ err' = code
      /\ UNCHANGED <<text, rest, neg, any, acc, frac, field, dt>>
  BY DEF Return, loopVars
<1> QED BY <1>1 DEF Typed, TypeOK, Loading

\* what Begin starts with
LEMMA BeginTyped ==
  ASSUME NEW t \in Seq(Nat), t # <<>>, Begin(t)
  PROVE  /\ rest' \in Seq(Nat) /\ neg' \in BOOLEAN /\ any' = FALSE /\ acc' = 0 /\ frac' = -1
<1>1. Tail(t) \in Seq(Nat)
  BY HeadTailProperties
<1> QED BY <1>1 DEF Begin

LEMMA StartTyped ==
  ASSUME Typed, NEW t \in Seq(Nat), t # <<>>, Begin(t), pc' = "reading",
         type' \in Integral \cup {"double", "datetime"}, text' = text, err' = err,
         field' \in 1 .. 9, dt' \in Seq(Int), Len(dt') <= 9,
         text # <<>>, type' = "datetime" => Len(text) = 32
  PROVE  Typed'
<1>1. rest' \in Seq(Nat) /\ neg' \in BOOLEAN /\ any' = FALSE /\ acc' = 0 /\ frac' = -1
  BY BeginTyped
<1>2. rest' \in Seq(Nat) /\ neg' \in BOOLEAN /\ any' \in BOOLEAN
  BY <1>1
<1>3. acc' \in Int /\ frac' \in Int /\ frac' >= -1
  BY <1>1
<1>4. text' \in Seq(Nat) /\ err' \in {"OK", "AMP_KEY_NOT_FOUND", "AMP_DECODE_ERROR",
                                     "AMP_OUT_OF_RANGE", "AMP_ENCODE_ERROR"}
  BY DEF Typed, TypeOK
<1>5. /\ pc' \in {"empty", "stored", "reading", "done"}
      /\ type' \in Integral \cup {"none", "bytes", "bool", "double", "datetime"}
  OBVIOUS
<1> QED BY <1>2, <1>3, <1>4, <1>5 DEF Typed, TypeOK, Loading

LEMMA GetTyped == ASSUME Typed, Get PROVE Typed'
<1>1. CASE GetMissing
  BY <1>1, ReturnTyped DEF GetMissing
<1>2. CASE GetBytes
  BY <1>2, ReturnTyped DEF GetBytes
<1>3. CASE GetBool
  <2>1. type' = "bool"
        /\ \E v : \E code \in {"OK", "AMP_DECODE_ERROR"} : Return(code, v)
    BY <1>3 DEF GetBool
  <2> QED BY <2>1, ReturnTyped
<1>4. ASSUME NEW t \in Integral, GetInteger(t) PROVE Typed'
  <2>1. /\ text # <<>> /\ pc' = "reading" /\ type' = t /\ Begin(text)
        /\ UNCHANGED <<text, field, dt, err>>
    BY <1>4 DEF GetInteger
  <2>2. text \in Seq(Nat) /\ field \in 1 .. 9 /\ dt \in Seq(Int) /\ Len(dt) <= 9
    BY DEF Typed, TypeOK
  <2>3. t # "datetime"
    BY <1>4 DEF Integral
  <2> QED BY <2>1, <2>2, <2>3, StartTyped
<1>5. ASSUME NEW t \in Integral, GetIntegerEmpty(t) PROVE Typed'
  <2>1. PICK v : v = IF t = "long long" THEN <<0>> ELSE value
    OBVIOUS
  <2>2. type' = t /\ Return("AMP_DECODE_ERROR", v)
    BY <1>5, <2>1 DEF GetIntegerEmpty
  <2> QED BY <1>5, <2>2, ReturnTyped
<1>6. CASE GetDouble
  <2>1. /\ text # <<>> /\ pc' = "reading" /\ type' = "double" /\ Begin(text)
        /\ UNCHANGED <<text, field, dt, err>>
    BY <1>6 DEF GetDouble
  <2>2. text \in Seq(Nat) /\ field \in 1 .. 9 /\ dt \in Seq(Int) /\ Len(dt) <= 9
    BY DEF Typed, TypeOK
  <2> QED BY <2>1, <2>2, StartTyped
<1>7. CASE GetDoubleEmpty
  BY <1>7, ReturnTyped DEF GetDoubleEmpty
<1>8. CASE GetDoubleSpecial
  <2>1. type' = "double" /\ \E v : Return("OK", v)
    BY <1>8 DEF GetDoubleSpecial
  <2> QED BY <2>1, ReturnTyped
<1>9. CASE GetDateTime
  <2>1. /\ Len(text) = 32 /\ pc' = "reading" /\ type' = "datetime" /\ field' = 1 /\ Begin(FieldText(1))
        /\ UNCHANGED <<text, dt, err>>
    BY <1>9 DEF GetDateTime, AMP_DT_SIZE
  <2>2. text \in Seq(Nat) /\ dt \in Seq(Int) /\ Len(dt) <= 9
    BY DEF Typed, TypeOK
  <2>3. PICK t \in Seq(Nat) : t = FieldText(1) /\ t # <<>>
    BY <2>1, <2>2, FieldTextIs
  <2>4. text # <<>>
    <3>1. Len(<<>>) # 32
      OBVIOUS
    <3> QED BY <2>1, <3>1
  <2> QED BY <2>1, <2>2, <2>3, <2>4, StartTyped
<1>10. CASE GetDateTimeWrongSize
  BY <1>10, ReturnTyped DEF GetDateTimeWrongSize
<1> QED BY <1>1, <1>2, <1>3, <1>4, <1>5, <1>6, <1>7, <1>8, <1>9, <1>10 DEF Get

\* an error of buftoll; the field it was in takes a 0
LEMMA FailsTyped ==
  ASSUME Typed, FieldsRead, pc = "reading",
         NEW code \in {"AMP_DECODE_ERROR", "AMP_OUT_OF_RANGE"}, NumberFails(code)
  PROVE  Typed'
<1>b. PICK v : v = IF type = "long long" THEN <<0>> ELSE value
  OBVIOUS
<1>c. /\ err' = code /\ pc' = "done" /\ value' = v
      /\ dt' = IF type = "datetime" THEN Append(dt, 0) ELSE dt
      /\ UNCHANGED <<type, text, loopVars, field, put>>
  BY <1>b DEF NumberFails
<1>0. pc' = "done" /\ err' = code /\ UNCHANGED <<type, text, field>>
  BY <1>c
<1>a. UNCHANGED <<rest, neg, any, acc, frac>>
  BY <1>c DEF loopVars
<1>1. dt' = IF type = "datetime" THEN Append(dt, 0) ELSE dt
  BY <1>c
<1>2. dt' \in Seq(Int) /\ Len(dt') <= 9
  <2>1. CASE type = "datetime"
    <3>1. dt \in Seq(Int) /\ Len(dt) = field - 1 /\ field \in 1 .. 9
      BY <2>1 DEF FieldsRead
    <3>2. dt' = Append(dt, 0)
      BY <1>1, <2>1
    <3> QED BY <3>1, <3>2
  <2>2. CASE type # "datetime"
    BY <1>1, <2>2 DEF Typed, TypeOK
  <2> QED BY <2>1, <2>2
<1> QED BY <1>0, <1>a, <1>2 DEF Typed, TypeOK, Loading

\* one byte less to read
LEMMA RestTyped ==
  ASSUME Typed, rest # <<>>
  PROVE  Head(rest) \in Nat /\ Tail(rest) \in Seq(Nat) /\ Len(Tail(rest)) = Len(rest) - 1
BY HeadTailProperties DEF Typed, TypeOK

LEMMA StepTyped == ASSUME Typed, FieldsRead, Step PROVE Typed'
<1>0. pc = "reading"
  BY DEF Step, ReadDigit, DigitTooBig, NotANumber, IntegerRead, ReadDoubleDigit, ReadDot,
         DoubleRefused, DoubleRead, FieldOutOfRange, NextField, LastField, Loop
<1>1. CASE ReadDigit \/ ReadDoubleDigit
  <2>1. /\ rest # <<>> /\ rest' = Tail(rest) /\ any' = TRUE /\ frac' \in {frac, frac + 1, -1}
        /\ acc' = IF neg THEN acc * 10 - (Head(rest) - ZERO) ELSE acc * 10 + (Head(rest) - ZERO)
        /\ UNCHANGED <<pc, type, text, neg, field, dt, err>>
    BY <1>1 DEF ReadDigit, ReadDoubleDigit
  <2>2. Head(rest) \in Nat /\ Tail(rest) \in Seq(Nat)
    BY <2>1, RestTyped
  <2>3. acc' \in Int
    <3>1. acc \in Int /\ Head(rest) - ZERO \in Int /\ neg \in BOOLEAN
      BY <2>2 DEF Typed, TypeOK, ZERO
    <3>2. acc * 10 - (Head(rest) - ZERO) \in Int /\ acc * 10 + (Head(rest) - ZERO) \in Int
      BY <3>1
    <3> QED BY <2>1, <3>1, <3>2
  <2>4. frac' \in Int /\ frac' >= -1
    BY <2>1 DEF Typed, TypeOK
  <2> QED BY <2>1, <2>2, <2>3, <2>4 DEF Typed, TypeOK, Loading
<1>2. CASE ReadDot
  <2>1. /\ rest # <<>> /\ rest' = Tail(rest) /\ frac' = 0
        /\ UNCHANGED <<pc, type, text, neg, any, acc, field, dt, err>>
    BY <1>2 DEF ReadDot
  <2>2. Tail(rest) \in Seq(Nat)
    BY <2>1, RestTyped
  <2> QED BY <2>1, <2>2 DEF Typed, TypeOK, Loading
<1>3. CASE DigitTooBig \/ NotANumber \/ FieldOutOfRange
  BY <1>0, <1>3, FailsTyped DEF DigitTooBig, NotANumber, FieldOutOfRange
<1>4. CASE IntegerRead \/ DoubleRefused \/ DoubleRead \/ LastField
  <2>1. /\ type' = type
        /\ \E v : \E code \in {"OK", "AMP_DECODE_ERROR", "AMP_OUT_OF_RANGE"} : Return(code, v)
    BY <1>4 DEF IntegerRead, DoubleRefused, DoubleRead, LastField
  <2> QED BY <2>1, ReturnTyped DEF Typed, TypeOK
<1>5. CASE NextField
  <2>1. /\ type = "datetime" /\ field < 9 /\ dt' = Append(dt, acc) /\ field' = field + 1
        /\ Begin(FieldText(field + 1)) /\ UNCHANGED <<pc, type, text, err>>
    BY <1>5, SMTT(60) DEF NextField, Loop, Fields
  <2>2. text \in Seq(Nat) /\ Len(text) = 32 /\ acc \in Int /\ text # <<>>
    BY <1>0, <2>1 DEF Typed, TypeOK, Loading
  <2>3. field \in 1 .. 9 /\ dt \in Seq(Int) /\ Len(dt) = field - 1
    BY <1>0, <2>1 DEF FieldsRead
  <2>4. dt' \in Seq(Int) /\ Len(dt') <= 9 /\ field' \in 1 .. 9 /\ field + 1 \in 1 .. 9
    BY <2>1, <2>2, <2>3
  <2>5. PICK t \in Seq(Nat) : t = FieldText(field + 1) /\ t # <<>>
    BY <2>2, <2>4, FieldTextIs
  <2> QED BY <1>0, <2>1, <2>2, <2>4, <2>5, StartTyped
<1> QED BY <1>1, <1>2, <1>3, <1>4, <1>5 DEF Step

LEMMA NextTyped == ASSUME Typed, FieldsRead, [Next]_vars PROVE Typed'
<1>1. CASE FreeBox
  <2>1. /\ pc' = "empty" /\ type' = "none" /\ text' = <<>> /\ rest' = <<>>
        /\ neg' = FALSE /\ any' = FALSE /\ acc' = 0 /\ frac' = -1
        /\ field' = 1 /\ dt' = <<>> /\ err' = "OK"
    BY <1>1 DEF FreeBox
  <2>2. <<>> \in Seq(Nat) /\ <<>> \in Seq(Int) /\ Len(<<>>) <= 9
    OBVIOUS
  <2>3. /\ text' \in Seq(Nat) /\ rest' \in Seq(Nat) /\ dt' \in Seq(Int) /\ Len(dt') <= 9
        /\ acc' \in Int /\ frac' \in Int /\ frac' >= -1 /\ field' \in 1 .. 9
    BY <2>1, <2>2
  <2>4. pc' = "empty" /\ type' = "none" /\ neg' \in BOOLEAN /\ any' \in BOOLEAN /\ err' = "OK"
    BY <2>1
  <2> QED BY <2>3, <2>4 DEF Typed, TypeOK, Loading
<1>2. CASE UNCHANGED vars
  BY <1>2 DEF vars, loopVars, Typed, TypeOK, Loading
<1> QED BY <1>1, <1>2, PutTyped, GetTyped, StepTyped DEF Next

(* Every variable keeps its type, whatever bytes are stored and read.       *)
THEOREM TypesTyped == Spec => []TypeOK
<1>1. Init => Typed /\ Inv
  BY InitTyped, InitInv
<1>2. Typed /\ Inv /\ [Next]_vars => (Typed /\ Inv)'
  BY NextTyped, NextInv DEF Inv
<1>3. Typed => TypeOK
  BY DEF Typed
<1> QED BY <1>1, <1>2, <1>3, PTL DEF Spec

-----------------------------------------------------------------------------
(* Where the digit loop of buftoll is in the text it reads: r is what is     *)
(* left of u after its first n bytes, all of them digits, and a is what they *)
(* add up to.                                                                *)

LeftOf(r, u, n) ==
  /\ u \in Seq(Nat) /\ r \in Seq(Nat) /\ n \in 0 .. Len(u) /\ Len(r) = Len(u) - n
  /\ \A i \in 1 .. Len(r) : r[i] = u[n + i]

LEMMA UnsignedIs ==
  ASSUME NEW t \in Seq(Nat)
  PROVE  Unsigned(t) \in Seq(Nat)
<1>1. CASE t = <<>>
  BY <1>1 DEF Unsigned
<1>2. CASE t # <<>>
  BY <1>2, HeadTailProperties DEF Unsigned
<1> QED BY <1>1, <1>2

LEMMA LeftAll == \A u \in Seq(Nat) : LeftOf(u, u, 0)
BY DEF LeftOf

LEMMA LeftNext ==
  ASSUME NEW r, NEW u, NEW n, LeftOf(r, u, n), r # <<>>
  PROVE  /\ n + 1 \in 1 .. Len(u) /\ Head(r) = u[n + 1] /\ Head(r) \in Nat
         /\ LeftOf(Tail(r), u, n + 1)
<1>1. /\ u \in Seq(Nat) /\ r \in Seq(Nat) /\ n \in 0 .. Len(u) /\ Len(r) = Len(u) - n
      /\ \A i \in 1 .. Len(r) : r[i] = u[n + i]
  BY DEF LeftOf
<1>2. PICK s : s = Tail(r)
  OBVIOUS
<1>3. s \in Seq(Nat) /\ Len(s) = Len(r) - 1 /\ \A i \in 1 .. Len(s) : s[i] = r[i + 1]
  BY <1>1, <1>2, HeadTailProperties
<1>4. Len(r) \in Nat /\ Len(r) >= 1 /\ Len(u) \in Nat /\ Head(r) = r[1] /\ r[1] \in Nat
  BY <1>1
<1>5. n + 1 \in 1 .. Len(u) /\ r[1] = u[n + 1]
  BY <1>1, <1>4
<1>6. \A i \in 1 .. Len(s) : i + 1 \in 1 .. Len(r) /\ n + (i + 1) = (n + 1) + i
  BY <1>1, <1>3, <1>4
<1>7. \A i \in 1 .. Len(s) : s[i] = u[(n + 1) + i]
  BY <1>1, <1>3, <1>6
<1>8. n + 1 \in 0 .. Len(u) /\ Len(s) = Len(u) - (n + 1)
  BY <1>1, <1>3, <1>4, <1>5
<1>9. LeftOf(s, u, n + 1)
  BY <1>1, <1>3, <1>7, <1>8 DEF LeftOf
<1> QED BY <1>2, <1>4, <1>5, <1>9

LEMMA LeftNone ==
  ASSUME NEW u, NEW n, LeftOf(<<>>, u, n)
  PROVE  u \in Seq(Nat) /\ n = Len(u) /\ Len(u) \in Nat
BY DEF LeftOf

Reads(t, n, r, g, y, a) ==
  /\ t \in Seq(Nat) /\ t # <<>>
  /\ LeftOf(r, Unsigned(t), n)
  /\ \A i \in 1 .. n : IsDigit(Unsigned(t)[i])
  /\ g = (Head(t) = MINUS)
  /\ y = (n # 0)
  /\ a = IF Head(t) = MINUS THEN -Partial(Unsigned(t))[n] ELSE Partial(Unsigned(t))[n]

LEMMA MinusZero == \A z \in Int : z <= 0 /\ z >= 0 => -z = z
OBVIOUS

LEMMA MinusMore == \A p, q, c \in Int : q >= 10 * p + c => -q <= -(10 * p) - c
OBVIOUS

LEMMA BeginReads ==
  ASSUME NEW t \in Seq(Nat), t # <<>>, Begin(t)
  PROVE  Reads(t, 0, rest', neg', any', acc')
<1>1. rest' = Unsigned(t)
  BY DEF Begin, Unsigned
<1>2. PICK u \in Seq(Nat) : u = Unsigned(t)
  BY UnsignedIs
<1>3. Partial(u)[0] = 0
  BY PartialIs
<1>4. LeftOf(rest', u, 0)
  BY <1>1, <1>2, LeftAll
<1>5. neg' = (Head(t) = MINUS) /\ any' = FALSE /\ acc' = 0
  BY DEF Begin
<1>6. any' = (0 # 0)
  BY <1>5
<1>7. \A i \in 1 .. 0 : IsDigit(u[i])
  OBVIOUS
<1>8. acc' = IF Head(t) = MINUS THEN -Partial(u)[0] ELSE Partial(u)[0]
  <2>1. PICK z \in Int : z = Partial(u)[0] /\ z <= 0 /\ z >= 0
    BY <1>3
  <2>2. -z = z
    BY <2>1, MinusZero
  <2> QED BY <1>3, <1>5, <2>1, <2>2
<1> QED BY <1>2, <1>4, <1>5, <1>6, <1>7, <1>8 DEF Reads

\* one more digit
LEMMA DigitReads ==
  ASSUME NEW t, NEW n, NEW r, NEW g, NEW y, NEW a, Reads(t, n, r, g, y, a),
         r # <<>>, IsDigit(Head(r)), NEW c, c = Head(r) - ZERO
  PROVE  \E m : Reads(t, m, Tail(r), g, TRUE, IF g THEN a * 10 - c ELSE a * 10 + c)
<1>1. PICK u \in Seq(Nat) : u = Unsigned(t)
  BY UnsignedIs DEF Reads
<1>2. PICK m : m = n + 1
  OBVIOUS
<1>3. /\ m \in 1 .. Len(u) /\ Head(r) = u[m] /\ LeftOf(Tail(r), u, m) /\ n \in 0 .. Len(u) - 1
      /\ c = u[m] - ZERO /\ u[m] \in Nat
  <2>1. LeftOf(r, u, n)
    BY <1>1 DEF Reads
  <2>2. n + 1 \in 1 .. Len(u) /\ Head(r) = u[n + 1] /\ LeftOf(Tail(r), u, n + 1)
    BY <2>1, LeftNext
  <2>3. n \in 0 .. Len(u)
    BY <2>1 DEF LeftOf
  <2>4. u[m] \in Nat
    BY <1>2, <2>2, ElementOfSequence
  <2> QED BY <1>2, <2>2, <2>3, <2>4
<1>4. \A i \in 1 .. m : IsDigit(u[i])
  <2>1. \A i \in 1 .. n : IsDigit(u[i])
    BY <1>1 DEF Reads
  <2>2. \A i \in 1 .. m : i \in 1 .. n \/ i = m
    BY <1>2, <1>3
  <2> QED BY <1>3, <2>1, <2>2
<1>5. PICK P : P = Partial(u)
  OBVIOUS
<1>6. P[n] \in Int /\ P[m] = 10 * P[n] + u[m] - ZERO
  <2>1. /\ P \in [0 .. Len(u) -> Int]
        /\ \A i \in 0 .. Len(u) - 1 : P[i + 1] = 10 * P[i] + u[i + 1] - ZERO
    BY <1>5, PartialIs
  <2>2. n \in 0 .. Len(u)
    BY <1>3
  <2> QED BY <1>2, <1>3, <2>1, <2>2
<1>7. (IF g THEN a * 10 - c ELSE a * 10 + c) = IF Head(t) = MINUS THEN -P[m] ELSE P[m]
  <2>1. c \in Int /\ P[m] = 10 * P[n] + c /\ ZERO \in Nat
    BY <1>3, <1>6, SMTT(60) DEF ZERO
  <2>2. CASE Head(t) = MINUS
    <3>1. a = -P[n] /\ g
      BY <1>1, <1>5, <2>2 DEF Reads
    <3>2. a * 10 - c = -P[m]
      BY <1>6, <2>1, <3>1
    <3> QED BY <2>2, <3>1, <3>2
  <2>3. CASE Head(t) # MINUS
    <3>1. a = P[n] /\ ~g
      BY <1>1, <1>5, <2>3 DEF Reads
    <3>2. a * 10 + c = P[m]
      BY <1>6, <2>1, <3>1
    <3> QED BY <2>3, <3>1, <3>2
  <2> QED BY <2>2, <2>3
<1>8. TRUE = (m # 0)
  BY <1>3
<1>9. PICK b : b = IF g THEN a * 10 - c ELSE a * 10 + c
  OBVIOUS
<1>10. Reads(t, m, Tail(r), g, TRUE, b)
  BY <1>1, <1>3, <1>4, <1>5, <1>7, <1>8, <1>9 DEF Reads
<1> QED BY <1>9, <1>10

\* the loop ends with the number the text means
LEMMA ReadsAll ==
  ASSUME NEW t, NEW n, NEW g, NEW a, Reads(t, n, <<>>, g, TRUE, a)
  PROVE  IsNumeral(t) /\ Meaning(t) = a
<1>1. PICK u \in Seq(Nat) : u = Unsigned(t)
  BY UnsignedIs DEF Reads
<1>2. n = Len(u) /\ n # 0
  BY <1>1, LeftNone DEF Reads
<1>3. u # <<>> /\ Digits(u)
  BY <1>1, <1>2 DEF Reads, Digits
<1>4. Magnitude(u) = Partial(u)[n]
  BY <1>2, MagnitudeIsPartial
<1>5. a = IF Head(t) = MINUS THEN -Magnitude(u) ELSE Magnitude(u)
  BY <1>1, <1>4 DEF Reads
<1> QED BY <1>1, <1>3, <1>5 DEF IsNumeral, Meaning

\* it stops early at what is not a digit
LEMMA ReadsNoNumeral ==
  ASSUME NEW t, NEW n, NEW r, NEW g, NEW y, NEW a, Reads(t, n, r, g, y, a),
         IF r = <<>> THEN ~y ELSE ~IsDigit(Head(r))
  PROVE  ~IsNumeral(t)
<1>1. PICK u \in Seq(Nat) : u = Unsigned(t)
  BY UnsignedIs DEF Reads
<1>2. CASE r = <<>>
  <2>1. n = 0 /\ LeftOf(<<>>, u, n)
    BY <1>1, <1>2 DEF Reads
  <2>2. Len(u) = 0
    BY <2>1, LeftNone
  <2> QED BY <1>1, <2>2 DEF IsNumeral
<1>3. CASE r # <<>>
  <2>1. n + 1 \in 1 .. Len(u) /\ Head(r) = u[n + 1]
    BY <1>1, <1>3, LeftNext DEF Reads
  <2> QED BY <1>1, <1>3, <2>1 DEF IsNumeral, Digits
<1> QED BY <1>2, <1>3

\* the digits of a number that has more of them
LEMMA ReadsBelow ==
  ASSUME NEW t, NEW n, NEW r, NEW g, NEW y, NEW a, Reads(t, n, r, g, y, a),
         r # <<>>, IsDigit(Head(r)), NEW c, c = Head(r) - ZERO, IsNumeral(t)
  PROVE  /\ a \in Int /\ c \in 0 .. 9 /\ Meaning(t) \in Int
         /\ g  => a <= 0 /\ Meaning(t) <= a * 10 - c /\ Meaning(t) <= 0
         /\ ~g => a >= 0 /\ Meaning(t) >= a * 10 + c /\ Meaning(t) >= 0
<1>1. PICK u \in Seq(Nat) : u = Unsigned(t)
  BY UnsignedIs DEF Reads
<1>2. n + 1 \in 1 .. Len(u) /\ Head(r) = u[n + 1] /\ n \in 0 .. Len(u) /\ n \in 0 .. Len(u) - 1
  <2>1. LeftOf(r, u, n)
    BY <1>1 DEF Reads
  <2>2. n \in 0 .. Len(u)
    BY <2>1 DEF LeftOf
  <2>3. n + 1 \in 1 .. Len(u) /\ Head(r) = u[n + 1]
    BY <2>1, LeftNext
  <2> QED BY <2>2, <2>3
<1>3. Digits(u)
  BY <1>1 DEF IsNumeral
<1>4. PICK P : P = Partial(u)
  OBVIOUS
<1>5. PICK m : m = n + 1
  OBVIOUS
<1>6. /\ P[n] \in Nat /\ P[m] \in Nat /\ P[Len(u)] >= P[m] /\ P[Len(u)] \in Nat
      /\ P[m] = 10 * P[n] + u[m] - ZERO
  <2>1. m \in 0 .. Len(u) /\ Len(u) \in m .. Len(u) /\ Len(u) \in 0 .. Len(u)
    BY <1>2, <1>5
  <2>2. P[n] \in Nat /\ P[m] \in Nat /\ P[Len(u)] \in Nat /\ P[Len(u)] >= P[m]
    BY <1>2, <1>3, <1>4, <2>1, PartialGrows
  <2>3. P[m] = 10 * P[n] + u[m] - ZERO
    BY <1>2, <1>4, <1>5, PartialIs
  <2> QED BY <2>2, <2>3
<1>7. c \in 0 .. 9 /\ c = u[m] - ZERO /\ u[m] \in Nat
  BY <1>2, <1>5, ElementOfSequence DEF IsDigit, ZERO
<1>8. P[m] = 10 * P[n] + c
  BY <1>6, <1>7 DEF ZERO
<1>9. Magnitude(u) = P[Len(u)]
  BY <1>4, MagnitudeIsPartial
<1>10. CASE Head(t) = MINUS
  <2>1. g /\ a = -P[n] /\ Meaning(t) = -P[Len(u)]
    BY <1>1, <1>4, <1>9, <1>10 DEF Reads, Meaning
  <2>2. PICK p, q \in Nat : p = P[n] /\ q = P[Len(u)] /\ q >= 10 * p + c
    BY <1>6, <1>8
  <2>3. -p \in Int /\ -p <= 0 /\ -q \in Int /\ -q <= (-p) * 10 - c /\ -q <= 0
    <3>1. c \in Int
      BY <1>7
    <3>2. -p \in Int /\ -p <= 0 /\ -q \in Int /\ -q <= 0
      BY <2>2, SMTT(60)
    <3>3. (-p) * 10 = -(10 * p)
      BY <2>2
    <3>a. p \in Int /\ q \in Int /\ 10 * p \in Int /\ q >= 10 * p + c
      BY <2>2
    <3>4. 10 * p \in Int /\ -q <= -(10 * p) - c
      <4> HIDE <2>2
      <4> QED BY <3>1, <3>a, MinusMore
    <3> QED BY <3>2, <3>3, <3>4
  <2>4. a = -p /\ Meaning(t) = -q
    BY <2>1, <2>2
  <2> QED BY <1>7, <2>1, <2>3, <2>4
<1>11. CASE Head(t) # MINUS
  <2>1. ~g /\ a = P[n] /\ Meaning(t) = P[Len(u)]
    BY <1>1, <1>4, <1>9, <1>11 DEF Reads, Meaning
  <2>2. a \in Int /\ a >= 0 /\ P[Len(u)] >= a * 10 + c /\ P[Len(u)] >= 0
    BY <1>6, <1>7, <1>8, <2>1, SMTT(60)
  <2> QED BY <1>6, <1>7, <2>1, <2>2
<1> QED BY <1>10, <1>11

\* a digit that is refused would have taken the number past the limit
LEMMA TooBigIs ==
  ASSUME neg \in BOOLEAN, acc \in Int, NEW c \in 0 .. 9, TooBig(c), NEW m \in Int,
         neg => m <= acc * 10 - c, ~neg => m >= acc * 10 + c
  PROVE  ~(m \in LLONG_MIN .. LLONG_MAX)
<1>1. LLONG_MAX \in Int /\ LLONG_MIN \in Int
  BY TypesAssumption DEF LLONG_MIN
<1> USE LimitSplit
<1>2. CASE neg
  <2>1. acc < cutoff \/ (acc = cutoff /\ c > cutlim)
    BY <1>2 DEF TooBig
  <2> HIDE DEF cutoff, cutlim
  <2>2. acc * 10 - c < 10 * cutoff - cutlim
    BY <1>2, <2>1
  <2>3. m < LLONG_MIN
    BY <1>1, <1>2, <2>2
  <2> QED BY <1>1, <2>3
<1>3. CASE ~neg
  <2>1. acc > cutoff \/ (acc = cutoff /\ c > cutlim)
    BY <1>3 DEF TooBig
  <2>2. acc * 10 + c > 10 * cutoff + cutlim
    BY <1>3, <2>1
  <2>3. m > LLONG_MAX
    BY <1>1, <1>3, <2>2
  <2> QED BY <1>1, <2>3
<1> QED BY <1>2, <1>3

\* an int and an unsigned int are long longs
LEMMA RangesWithin ==
  ASSUME NEW t \in Integral
  PROVE  RangeOf(t) \subseteq LLONG_MIN .. LLONG_MAX
<1>1. /\ LLONG_MAX \in Nat /\ INT_MAX \in Nat /\ UINT_MAX \in Nat
      /\ INT_MAX <= LLONG_MAX /\ UINT_MAX <= LLONG_MAX
  BY TypesAssumption
<1>2. ASSUME NEW n \in RangeOf(t) PROVE n \in LLONG_MIN .. LLONG_MAX
  <2>1. \/ n \in -INT_MAX - 1 .. INT_MAX \/ n \in 0 .. UINT_MAX
        \/ n \in -LLONG_MAX - 1 .. LLONG_MAX
    BY <1>2 DEF RangeOf, Integral, LLONG_MIN, INT_MIN
  <2>2. n \in -LLONG_MAX - 1 .. LLONG_MAX
    BY <1>1, <2>1
  <2> QED BY <2>2 DEF LLONG_MIN
<1> QED BY <1>2

\* the text that buftoll reads
NumberText == IF type = "datetime" THEN FieldText(field) ELSE text

NumberScan ==
  (pc = "reading" /\ type \in Integral \cup {"datetime"}) =>
    \E n : Reads(NumberText, n, rest, neg, any, acc)

\* what an integer get makes of t
Decodes(t, ty, e, v) ==
  /\ (e = "OK") <=> (IsNumeral(t) /\ Meaning(t) \in RangeOf(ty))
  /\ e = "OK" => v = << Meaning(t) >>

Exact == NumberScan /\ DecodedExactly

LEMMA ExactIs == DecodedExactly <=> ((pc = "done" /\ type \in Integral) => Decodes(text, type, err, value))
BY DEF DecodedExactly, Decodes

LEMMA ExactIsNext ==
  DecodedExactly' <=> ((pc' = "done" /\ type' \in Integral) => Decodes(text', type', err', value'))
BY DEF DecodedExactly, Decodes

\* a step that ends neither in a loop nor with the answer of an integer get
LEMMA ExactElsewhere ==
  ASSUME pc' # "reading", pc' # "done" \/ type' \notin Integral
  PROVE  Exact'
BY ExactIsNext DEF Exact, NumberScan

LEMMA PutExact == ASSUME Put PROVE Exact'
<1>1. ASSUME NEW t, NEW v, NEW b, Store(t, v, b) PROVE Exact'
  <2>1. pc' = "stored"
    BY <1>1 DEF Store
  <2> QED BY <2>1, ExactElsewhere
<1>2. ASSUME NEW v \in DateTimes, PutDateTimeRefused(v) PROVE Exact'
  <2>1. pc' = "done" /\ type' = "none"
    BY <1>2 DEF PutDateTimeRefused
  <2>2. type' \notin Integral
    BY <2>1 DEF Integral
  <2> QED BY <2>1, <2>2, ExactElsewhere
<1> QED BY <1>1, <1>2 DEF Put, PutInteger, PutBool, PutDouble, PutDateTime, PutBytes

LEMMA OthersExact ==
  ASSUME NEW code, NEW v, Return(code, v), type' \in {"none", "bytes", "bool", "double", "datetime"}
  PROVE  Exact'
<1>1. pc' = "done"
  BY DEF Return
<1>2. type' \notin Integral
  BY DEF Integral
<1> QED BY <1>1, <1>2, ExactElsewhere

\* a loop over an integer, or over the first field of a DateTime
LEMMA StartExact ==
  ASSUME NEW t \in Seq(Nat), t # <<>>, Begin(t), pc' = "reading",
         type' \in Integral \cup {"datetime"} => NumberText' = t
  PROVE  Exact'
<1>1. Reads(t, 0, rest', neg', any', acc')
  BY BeginReads
<1>2. NumberScan'
  BY <1>1 DEF NumberScan
<1>3. DecodedExactly'
  BY ExactIsNext
<1> QED BY <1>2, <1>3 DEF Exact

LEMMA GetExact == ASSUME Typed, Get PROVE Exact'
<1>0. text \in Seq(Nat)
  BY DEF Typed, TypeOK
<1>1. CASE GetMissing
  BY <1>1, OthersExact DEF GetMissing
<1>2. CASE GetBytes
  BY <1>2, OthersExact DEF GetBytes
<1>3. CASE GetBool
  <2>1. type' = "bool" /\ \E code, v : Return(code, v)
    BY <1>3 DEF GetBool
  <2> QED BY <2>1, OthersExact
<1>4. ASSUME NEW t \in Integral, GetInteger(t) PROVE Exact'
  <2>1. /\ text # <<>> /\ pc' = "reading" /\ type' = t /\ Begin(text) /\ text' = text
    BY <1>4 DEF GetInteger
  <2>2. t # "datetime"
    BY <1>4 DEF Integral
  <2>3. NumberText' = text
    BY <2>1, <2>2 DEF NumberText
  <2> QED BY <1>0, <2>1, <2>3, StartExact
<1>5. ASSUME NEW t \in Integral, GetIntegerEmpty(t) PROVE Exact'
  <2>1. text = <<>> /\ type' = t
    BY <1>5 DEF GetIntegerEmpty
  <2>2. pc' = "done" /\ err' = "AMP_DECODE_ERROR" /\ text' = text
    BY <1>5 DEF GetIntegerEmpty, Return
  <2>3. ~IsNumeral(<<>>)
    BY DEF IsNumeral, Unsigned
  <2>4. Decodes(text', type', err', value')
    BY <2>1, <2>2, <2>3 DEF Decodes
  <2>5. DecodedExactly'
    BY <2>4, ExactIsNext
  <2> QED BY <2>2, <2>5 DEF Exact, NumberScan
<1>6. CASE GetDouble
  <2>1. text # <<>> /\ pc' = "reading" /\ type' = "double" /\ Begin(text)
    BY <1>6 DEF GetDouble
  <2>2. ~(type' \in Integral \cup {"datetime"})
    BY <2>1 DEF Integral
  <2> QED BY <1>0, <2>1, <2>2, StartExact
<1>7. CASE GetDoubleEmpty
  BY <1>7, OthersExact DEF GetDoubleEmpty
<1>8. CASE GetDoubleSpecial
  <2>1. type' = "double" /\ \E code, v : Return(code, v)
    BY <1>8 DEF GetDoubleSpecial
  <2> QED BY <2>1, OthersExact
<1>9. CASE GetDateTime
  <2>1. /\ Len(text) = 32 /\ pc' = "reading" /\ type' = "datetime" /\ field' = 1
        /\ Begin(FieldText(1)) /\ text' = text
    BY <1>9 DEF GetDateTime, AMP_DT_SIZE
  <2>2. PICK t \in Seq(Nat) : t = FieldText(1) /\ t # <<>>
    BY <1>0, <2>1, FieldTextIs
  <2>3. NumberText' = t
    BY <2>1, <2>2 DEF NumberText, FieldText
  <2> QED BY <2>1, <2>2, <2>3, StartExact
<1>10. CASE GetDateTimeWrongSize
  BY <1>10, OthersExact DEF GetDateTimeWrongSize
<1> QED BY <1>1, <1>2, <1>3, <1>4, <1>5, <1>6, <1>7, <1>8, <1>9, <1>10 DEF Get

\* a get of the type ended with code, after a number it could not accept
LEMMA RefusedExact ==
  ASSUME Exact, NEW code, NumberFails(code), code # "OK",
         type \in Integral => ~(IsNumeral(text) /\ Meaning(text) \in RangeOf(type))
  PROVE  Exact'
<1>1. pc' = "done" /\ err' = code /\ type' = type /\ text' = text
  BY DEF NumberFails
<1>2. type' \in Integral => Decodes(text', type', err', value')
  BY <1>1 DEF Decodes
<1>3. DecodedExactly'
  BY <1>2, ExactIsNext
<1> QED BY <1>1, <1>3 DEF Exact, NumberScan

LEMMA ReadDigitExact == ASSUME Typed, Exact, ReadDigit PROVE Exact'
<1>1. /\ pc = "reading" /\ type \in Integral \cup {"datetime"} /\ rest # <<>> /\ IsDigit(Head(rest))
      /\ rest' = Tail(rest) /\ any' = TRUE
      /\ UNCHANGED <<pc, type, text, neg, field>>
  BY DEF ReadDigit, Loop
<1>2. PICK c : c = Head(rest) - ZERO
  OBVIOUS
<1>3. acc' = IF neg THEN acc * 10 - c ELSE acc * 10 + c
  BY <1>2 DEF ReadDigit
<1>4. PICK n, t : t = NumberText /\ Reads(t, n, rest, neg, any, acc)
  BY <1>1 DEF Exact, NumberScan
<1>5. \E m : Reads(t, m, rest', neg', any', acc')
  BY <1>1, <1>2, <1>3, <1>4, DigitReads
<1>6. NumberText' = t
  BY <1>1, <1>4 DEF NumberText, FieldText
<1>7. NumberScan'
  BY <1>5, <1>6 DEF NumberScan
<1> QED BY <1>1, <1>7, ExactIsNext DEF Exact

LEMMA DigitTooBigExact == ASSUME Typed, Exact, DigitTooBig PROVE Exact'
<1>1. /\ pc = "reading" /\ type \in Integral \cup {"datetime"} /\ rest # <<>> /\ IsDigit(Head(rest))
      /\ TooBig(Head(rest) - ZERO) /\ NumberFails("AMP_OUT_OF_RANGE")
  BY DEF DigitTooBig, Loop
<1>2. PICK c : c = Head(rest) - ZERO
  OBVIOUS
<1>3. ASSUME type \in Integral, IsNumeral(text) PROVE Meaning(text) \notin RangeOf(type)
  <2>1. type # "datetime"
    BY <1>3 DEF Integral
  <2>2. PICK n : Reads(text, n, rest, neg, any, acc)
    BY <1>1, <2>1 DEF Exact, NumberScan, NumberText
  <2>3. /\ acc \in Int /\ c \in 0 .. 9 /\ Meaning(text) \in Int
        /\ neg  => Meaning(text) <= acc * 10 - c
        /\ ~neg => Meaning(text) >= acc * 10 + c
    BY <1>1, <1>2, <1>3, <2>2, ReadsBelow
  <2>4. PICK m \in Int : m = Meaning(text)
    BY <2>3
  <2>5. neg \in BOOLEAN /\ TooBig(c)
    BY <1>1, <1>2 DEF Typed, TypeOK
  <2>6. ~(m \in LLONG_MIN .. LLONG_MAX)
    BY <2>3, <2>4, <2>5, TooBigIs
  <2> QED BY <1>3, <2>4, <2>6, RangesWithin
<1> QED BY <1>1, <1>3, RefusedExact

LEMMA NotANumberExact == ASSUME Typed, Exact, NotANumber PROVE Exact'
<1>1. /\ pc = "reading" /\ type \in Integral \cup {"datetime"}
      /\ IF rest = <<>> THEN ~any ELSE ~IsDigit(Head(rest))
      /\ NumberFails("AMP_DECODE_ERROR")
  BY DEF NotANumber, Loop
<1>2. ASSUME type \in Integral PROVE ~IsNumeral(text)
  <2>1. type # "datetime"
    BY <1>2 DEF Integral
  <2>2. PICK n : Reads(text, n, rest, neg, any, acc)
    BY <1>1, <2>1 DEF Exact, NumberScan, NumberText
  <2> QED BY <1>1, <2>2, ReadsNoNumeral
<1> QED BY <1>1, <1>2, RefusedExact

LEMMA IntegerReadExact == ASSUME Typed, Exact, IntegerRead PROVE Exact'
<1>1. pc = "reading" /\ type \in Integral /\ rest = <<>> /\ any /\ type' = type
  BY DEF IntegerRead, Loop
<1>2. type # "datetime"
  BY <1>1 DEF Integral
<1>3. PICK n : Reads(text, n, <<>>, neg, any, acc)
  BY <1>1, <1>2 DEF Exact, NumberScan, NumberText
<1>4. any = TRUE
  BY <1>1 DEF Typed, TypeOK
<1>5. IsNumeral(text) /\ Meaning(text) = acc
  BY <1>3, <1>4, ReadsAll
<1>6. IF acc \in RangeOf(type) THEN Return("OK", <<acc>>) ELSE Return("AMP_OUT_OF_RANGE", value)
  BY DEF IntegerRead, InRange
<1>7. pc' = "done" /\ text' = text
  BY <1>6 DEF Return
<1>8. acc \in RangeOf(type) => err' = "OK" /\ value' = <<acc>>
  BY <1>6 DEF Return
<1>9. acc \notin RangeOf(type) => err' = "AMP_OUT_OF_RANGE"
  BY <1>6 DEF Return
<1>10. Decodes(text', type', err', value')
  BY <1>1, <1>5, <1>7, <1>8, <1>9 DEF Decodes
<1> QED BY <1>7, <1>10, ExactIsNext DEF Exact, NumberScan

LEMMA StepExact == ASSUME Typed, FieldsRead, Exact, Step PROVE Exact'
<1>1. CASE ReadDoubleDigit \/ ReadDot
  <2>1. type = "double" /\ type' = type /\ pc' = "reading"
    BY <1>1 DEF ReadDoubleDigit, ReadDot, Loop
  <2>2. ~(type' \in Integral \cup {"datetime"})
    BY <2>1 DEF Integral
  <2> QED BY <2>1, <2>2, ExactIsNext DEF Exact, NumberScan
<1>2. CASE DoubleRefused \/ DoubleRead \/ LastField
  <2>1. type' \in {"double", "datetime"} /\ \E code, v : Return(code, v)
    BY <1>2 DEF DoubleRefused, DoubleRead, LastField, Loop
  <2> QED BY <2>1, OthersExact
<1>3. CASE FieldOutOfRange
  <2>1. type = "datetime" /\ NumberFails("AMP_OUT_OF_RANGE")
    BY <1>3 DEF FieldOutOfRange, Loop
  <2>2. type \notin Integral
    BY <2>1 DEF Integral
  <2> QED BY <2>1, <2>2, RefusedExact
<1>4. CASE NextField
  <2>1. /\ pc = "reading" /\ type = "datetime" /\ field < 9 /\ field' = field + 1
        /\ Begin(FieldText(field + 1)) /\ UNCHANGED <<pc, type, text>>
    BY <1>4, SMTT(60) DEF NextField, Fields, Loop
  <2>2. text \in Seq(Nat) /\ Len(text) = 32
    BY <2>1 DEF Typed, TypeOK, Loading
  <2>3. field + 1 \in 1 .. 9
    BY <2>1 DEF FieldsRead
  <2>4. PICK t \in Seq(Nat) : t = FieldText(field + 1) /\ t # <<>>
    BY <2>2, <2>3, FieldTextIs
  <2>5. NumberText' = t
    BY <2>1, <2>4 DEF NumberText, FieldText
  <2> QED BY <2>1, <2>4, <2>5, StartExact
<1> QED
  BY <1>1, <1>2, <1>3, <1>4, ReadDigitExact, DigitTooBigExact, NotANumberExact,
     IntegerReadExact DEF Step

LEMMA NextExact == ASSUME Typed, FieldsRead, Exact, [Next]_vars PROVE Exact'
<1>1. CASE FreeBox
  <2>1. pc' = "empty"
    BY <1>1 DEF FreeBox
  <2> QED BY <2>1, ExactElsewhere
<1>2. CASE UNCHANGED vars
  <2>1. UNCHANGED <<pc, type, text, rest, neg, any, acc, field, err, value>>
    BY <1>2 DEF vars, loopVars
  <2>2. NumberText' = NumberText
    BY <2>1 DEF NumberText, FieldText
  <2>3. NumberScan'
    BY <2>1, <2>2 DEF Exact, NumberScan
  <2>4. DecodedExactly'
    BY <2>1, ExactIs, ExactIsNext DEF Exact
  <2> QED BY <2>3, <2>4 DEF Exact
<1> QED BY <1>1, <1>2, PutExact, GetExact, StepExact DEF Next

(* Whatever bytes are stored, an integer get succeeds exactly on a numeral  *)
(* whose value fits the type asked for, and returns that value.             *)
THEOREM IntegersAreExact == Spec => []DecodedExactly
<1>1. Init => Typed /\ Inv /\ Exact
  BY InitTyped, InitInv DEF Init, Exact, NumberScan, DecodedExactly
<1>2. Typed /\ Inv /\ Exact /\ [Next]_vars => (Typed /\ Inv /\ Exact)'
  BY NextTyped, NextInv, NextExact DEF Inv
<1>3. Exact => DecodedExactly
  BY DEF Exact
<1> QED BY <1>1, <1>2, <1>3, PTL DEF Spec

-----------------------------------------------------------------------------
(* The loop of amp_get_double: digits with at most one dot among them, and   *)
(* the accumulator as if the dot were not there.                             *)

DotPartial(t) ==
  LET f[i \in 0 .. Len(t)] ==
        IF i = 0 THEN 0 ELSE IF t[i] = DOT THEN f[i - 1] ELSE 10 * f[i - 1] + t[i] - ZERO
  IN  f

LEMMA DotPartialIs ==
  ASSUME NEW t \in Seq(Nat)
  PROVE  /\ DotPartial(t) \in [0 .. Len(t) -> Int]
         /\ DotPartial(t)[0] = 0
         /\ \A i \in 0 .. Len(t) - 1 :
              DotPartial(t)[i + 1] = IF t[i + 1] = DOT THEN DotPartial(t)[i]
                                     ELSE 10 * DotPartial(t)[i] + t[i + 1] - ZERO
<1> DEFINE N == Len(t)
           f[i \in 0 .. N] == IF i = 0 THEN 0 ELSE IF t[i] = DOT THEN f[i - 1] ELSE 10 * f[i - 1] + t[i] - ZERO
           step == [x \in (0 .. N - 1) \X Int |-> IF t[x[1] + 1] = DOT THEN x[2] ELSE 10 * x[2] + t[x[1] + 1] - ZERO]
<1>0. N \in Nat /\ ZERO \in Int /\ \A i \in 0 .. N - 1 : t[i + 1] \in Int
  BY DEF ZERO
<1>1. step \in [(0 .. N - 1) \X Int -> Int]
  <2>1. \A x \in (0 .. N - 1) \X Int : x[2] \in Int /\ 10 * x[2] + t[x[1] + 1] - ZERO \in Int
    BY <1>0, SMTT(60)
  <2> QED BY <2>1
<1>2. PICK g : Iterates(g, N, Int, 0, step)
  <2>1. 0 \in Int
    OBVIOUS
  <2> HIDE DEF step, f, N
  <2> QED BY <1>0, <1>1, <2>1, RecursionExists
<1>3. g = [i \in 0 .. N |-> IF i = 0 THEN 0 ELSE IF t[i] = DOT THEN g[i - 1] ELSE 10 * g[i - 1] + t[i] - ZERO]
  <2>1. ASSUME NEW i \in 0 .. N, i # 0 PROVE g[i] = IF t[i] = DOT THEN g[i - 1] ELSE 10 * g[i - 1] + t[i] - ZERO
    <3>1. i - 1 \in 0 .. N - 1 /\ (i - 1) + 1 = i
      BY <1>0, <2>1
    <3>2. g[(i - 1) + 1] = step[<<i - 1, g[i - 1]>>]
      BY <1>2, <3>1 DEF Iterates
    <3>3. g[i - 1] \in Int
      BY <1>0, <1>2, <3>1, SMTT(60) DEF Iterates
    <3> HIDE DEF N
    <3> QED BY <3>1, <3>2, <3>3
  <2> QED BY <1>2, <2>1 DEF Iterates
<1>4. f = [i \in 0 .. N |-> IF i = 0 THEN 0 ELSE IF t[i] = DOT THEN f[i - 1] ELSE 10 * f[i - 1] + t[i] - ZERO]
  BY <1>3 DEF f
<1>5. f = DotPartial(t)
  BY DEF DotPartial
<1> HIDE DEF f, step, N
<1>6. f[0] = 0
  BY <1>0, <1>4
<1>7. ASSUME NEW i \in 0 .. N - 1 PROVE f[i + 1] = IF t[i + 1] = DOT THEN f[i] ELSE 10 * f[i] + t[i + 1] - ZERO
  <2>1. i + 1 \in 0 .. N /\ i + 1 # 0 /\ (i + 1) - 1 = i
    BY <1>0
  <2>2. f[i + 1] = IF t[i + 1] = DOT THEN f[(i + 1) - 1] ELSE 10 * f[(i + 1) - 1] + t[i + 1] - ZERO
    BY <1>4, <2>1
  <2> QED BY <2>1, <2>2
<1>8. \A i \in 0 .. N : f[i] \in Int
  <2> DEFINE T == {i \in 0 .. N : f[i] \in Int}
  <2>1. 0 \in T
    BY <1>0, <1>6
  <2>2. ASSUME NEW i \in 0 .. N - 1, i \in T PROVE i + 1 \in T
    <3>1. i + 1 \in 0 .. N /\ t[i + 1] \in Int /\ f[i] \in Int
      BY <1>0, <2>2
    <3>2. f[i + 1] = IF t[i + 1] = DOT THEN f[i] ELSE 10 * f[i] + t[i + 1] - ZERO
      BY <1>7
    <3>3. f[i + 1] \in Int
      BY <1>0, <3>1, <3>2, SMTT(60)
    <3> QED BY <3>1, <3>3
  <2> HIDE DEF T
  <2>3. \A i \in 0 .. N : i \in T
    BY <1>0, <2>1, <2>2, UpTo
  <2> QED BY <2>3 DEF T
<1>9. f \in [0 .. N -> Int]
  BY <1>4, <1>8
<1> QED BY <1>5, <1>6, <1>7, <1>9 DEF N

\* u is digits, with a dot at d that is not the first of them
DotAt(u, d) == /\ d \in 2 .. Len(u) /\ u[d] = DOT
               /\ \A i \in 1 .. Len(u) : i # d => IsDigit(u[i])

\* what amp_get_double accepts after the sign, with k digits after the dot
DoubleForm(u, k) == \/ u # <<>> /\ Digits(u) /\ k = 0
                    \/ \E d : DotAt(u, d) /\ k = Len(u) - d

DoubleReads(t, n, r, g, y, a, fr) ==
  /\ t \in Seq(Nat) /\ t # <<>>
  /\ LeftOf(r, Unsigned(t), n)
  /\ g = (Head(t) = MINUS)
  /\ a = IF Head(t) = MINUS THEN -DotPartial(Unsigned(t))[n] ELSE DotPartial(Unsigned(t))[n]
  /\ \/ fr = -1 /\ y = (n # 0) /\ \A i \in 1 .. n : IsDigit(Unsigned(t)[i])
     \/ /\ y = TRUE
        /\ \E d \in 2 .. n : /\ fr = n - d /\ Unsigned(t)[d] = DOT
                             /\ \A i \in 1 .. n : i # d => IsDigit(Unsigned(t)[i])

LEMMA BeginDouble ==
  ASSUME NEW t \in Seq(Nat), t # <<>>, Begin(t)
  PROVE  DoubleReads(t, 0, rest', neg', any', acc', frac')
<1>1. rest' = Unsigned(t)
  BY DEF Begin, Unsigned
<1>2. PICK u \in Seq(Nat) : u = Unsigned(t)
  BY UnsignedIs
<1>3. DotPartial(u)[0] = 0
  BY DotPartialIs
<1>4. LeftOf(rest', u, 0)
  BY <1>1, <1>2, LeftAll
<1>5. neg' = (Head(t) = MINUS) /\ any' = FALSE /\ acc' = 0 /\ frac' = -1
  BY DEF Begin
<1>6. any' = (0 # 0)
  BY <1>5
<1>7. \A i \in 1 .. 0 : IsDigit(u[i])
  OBVIOUS
<1>8. acc' = IF Head(t) = MINUS THEN -DotPartial(u)[0] ELSE DotPartial(u)[0]
  <2>1. PICK z \in Int : z = DotPartial(u)[0] /\ z <= 0 /\ z >= 0
    BY <1>3
  <2>2. -z = z
    BY <2>1, MinusZero
  <2> QED BY <1>3, <1>5, <2>1, <2>2
<1> QED BY <1>2, <1>4, <1>5, <1>6, <1>7, <1>8 DEF DoubleReads

LEMMA DigitIsNoDot == \A c : IsDigit(c) => c # DOT
BY DEF IsDigit, ZERO, DOT

LEMMA DoubleDigit ==
  ASSUME NEW t, NEW n, NEW r, NEW g, NEW y, NEW a, NEW f, DoubleReads(t, n, r, g, y, a, f),
         r # <<>>, IsDigit(Head(r)), NEW c, c = Head(r) - ZERO
  PROVE  \E m : DoubleReads(t, m, Tail(r), g, TRUE, IF g THEN a * 10 - c ELSE a * 10 + c,
                            IF f = -1 THEN -1 ELSE f + 1)
<1>1. PICK u \in Seq(Nat) : u = Unsigned(t)
  BY UnsignedIs DEF DoubleReads
<1>2. PICK m : m = n + 1
  OBVIOUS
<1>3. /\ m \in 1 .. Len(u) /\ Head(r) = u[m] /\ LeftOf(Tail(r), u, m) /\ n \in 0 .. Len(u) - 1
      /\ c = u[m] - ZERO /\ u[m] \in Nat /\ n \in Nat
  <2>1. LeftOf(r, u, n)
    BY <1>1 DEF DoubleReads
  <2>2. n + 1 \in 1 .. Len(u) /\ Head(r) = u[n + 1] /\ LeftOf(Tail(r), u, n + 1)
    BY <2>1, LeftNext
  <2>3. n \in 0 .. Len(u)
    BY <2>1 DEF LeftOf
  <2>4. u[m] \in Nat
    BY <1>2, <2>2, ElementOfSequence
  <2> QED BY <1>2, <2>2, <2>3, <2>4
<1>4. IsDigit(u[m]) /\ \A i \in 1 .. m : i \in 1 .. n \/ i = m
  BY <1>2, <1>3
<1>5. PICK P : P = DotPartial(u)
  OBVIOUS
<1>6. P[n] \in Int /\ P[m] = 10 * P[n] + u[m] - ZERO
  <2>1. /\ P \in [0 .. Len(u) -> Int]
        /\ \A i \in 0 .. Len(u) - 1 :
             P[i + 1] = IF u[i + 1] = DOT THEN P[i] ELSE 10 * P[i] + u[i + 1] - ZERO
    BY <1>5, DotPartialIs
  <2>2. n \in 0 .. Len(u) /\ u[m] # DOT
    BY <1>3, <1>4, DigitIsNoDot
  <2> QED BY <1>2, <1>3, <2>1, <2>2
<1>7. (IF g THEN a * 10 - c ELSE a * 10 + c) = IF Head(t) = MINUS THEN -P[m] ELSE P[m]
  <2>1. c \in Int /\ P[m] = 10 * P[n] + c /\ ZERO \in Nat
    BY <1>3, <1>6, SMTT(60) DEF ZERO
  <2>2. CASE Head(t) = MINUS
    <3>1. a = -P[n] /\ g
      BY <1>1, <1>5, <2>2 DEF DoubleReads
    <3>2. a * 10 - c = -P[m]
      BY <1>6, <2>1, <3>1
    <3> QED BY <2>2, <3>1, <3>2
  <2>3. CASE Head(t) # MINUS
    <3>1. a = P[n] /\ ~g
      BY <1>1, <1>5, <2>3 DEF DoubleReads
    <3>2. a * 10 + c = P[m]
      BY <1>6, <2>1, <3>1
    <3> QED BY <2>3, <3>1, <3>2
  <2> QED BY <2>2, <2>3
<1>8. PICK b, h : b = (IF g THEN a * 10 - c ELSE a * 10 + c) /\ h = IF f = -1 THEN -1 ELSE f + 1
  OBVIOUS
<1>9. \/ h = -1 /\ TRUE = (m # 0) /\ \A i \in 1 .. m : IsDigit(u[i])
      \/ \E d \in 2 .. m : h = m - d /\ u[d] = DOT /\ \A i \in 1 .. m : i # d => IsDigit(u[i])
  <2>1. CASE f = -1 /\ \A i \in 1 .. n : IsDigit(u[i])
    <3>1. TRUE = (m # 0)
      BY <1>3
    <3> QED BY <1>4, <1>8, <2>1, <3>1
  <2>2. CASE \E d \in 2 .. n : f = n - d /\ u[d] = DOT /\ \A i \in 1 .. n : i # d => IsDigit(u[i])
    <3>1. PICK d \in 2 .. n : f = n - d /\ u[d] = DOT /\ \A i \in 1 .. n : i # d => IsDigit(u[i])
      BY <2>2
    <3>2. d \in 2 .. m /\ h = m - d
      BY <1>2, <1>3, <1>8, <3>1
    <3>3. \A i \in 1 .. m : i # d => IsDigit(u[i])
      BY <1>4, <3>1
    <3> QED BY <3>1, <3>2, <3>3
  <2> QED BY <1>1, <2>1, <2>2 DEF DoubleReads
<1>10. t \in Seq(Nat) /\ t # <<>> /\ g = (Head(t) = MINUS)
  BY DEF DoubleReads
<1>11. DoubleReads(t, m, Tail(r), g, TRUE, b, h)
  BY <1>1, <1>3, <1>5, <1>7, <1>8, <1>9, <1>10 DEF DoubleReads
<1> QED BY <1>8, <1>11

LEMMA DoubleDot ==
  ASSUME NEW t, NEW n, NEW r, NEW g, NEW a, DoubleReads(t, n, r, g, TRUE, a, -1),
         r # <<>>, Head(r) = DOT
  PROVE  \E m : DoubleReads(t, m, Tail(r), g, TRUE, a, 0)
<1>1. PICK u \in Seq(Nat) : u = Unsigned(t)
  BY UnsignedIs DEF DoubleReads
<1>2. PICK m : m = n + 1
  OBVIOUS
<1>3. /\ m \in 1 .. Len(u) /\ u[m] = DOT /\ LeftOf(Tail(r), u, m) /\ n \in 0 .. Len(u) - 1
      /\ n \in Nat
  <2>1. LeftOf(r, u, n)
    BY <1>1 DEF DoubleReads
  <2>2. n + 1 \in 1 .. Len(u) /\ Head(r) = u[n + 1] /\ LeftOf(Tail(r), u, n + 1)
    BY <2>1, LeftNext
  <2>3. n \in 0 .. Len(u)
    BY <2>1 DEF LeftOf
  <2> QED BY <1>2, <2>2, <2>3
<1>4. n # 0 /\ \A i \in 1 .. n : IsDigit(u[i])
  <2>1. ASSUME NEW d \in 2 .. n PROVE -1 # n - d
    BY <1>3
  <2> QED BY <1>1, <2>1 DEF DoubleReads
<1>5. \A i \in 1 .. m : i # m => IsDigit(u[i])
  BY <1>2, <1>3, <1>4
<1>6. m \in 2 .. m /\ 0 = m - m
  BY <1>2, <1>3, <1>4
<1>7. DotPartial(u)[m] = DotPartial(u)[n]
  BY <1>2, <1>3, DotPartialIs
<1>8. /\ t \in Seq(Nat) /\ t # <<>> /\ g = (Head(t) = MINUS)
      /\ a = IF Head(t) = MINUS THEN -DotPartial(u)[n] ELSE DotPartial(u)[n]
  BY <1>1 DEF DoubleReads
<1>9. \E d \in 2 .. m : 0 = m - d /\ u[d] = DOT /\ \A i \in 1 .. m : i # d => IsDigit(u[i])
  BY <1>3, <1>5, <1>6
<1>10. DoubleReads(t, m, Tail(r), g, TRUE, a, 0)
  BY <1>1, <1>3, <1>7, <1>8, <1>9 DEF DoubleReads
<1> QED BY <1>10

DoubleNum(t) == IF Head(t) = MINUS THEN -DotPartial(Unsigned(t))[Len(Unsigned(t))]
                ELSE DotPartial(Unsigned(t))[Len(Unsigned(t))]

LEMMA DoubleEnds ==
  ASSUME NEW t, NEW n, NEW g, NEW a, NEW f, DoubleReads(t, n, <<>>, g, TRUE, a, f)
  PROVE  a = DoubleNum(t) /\ DoubleForm(Unsigned(t), IF f = -1 THEN 0 ELSE f)
<1>1. PICK u \in Seq(Nat) : u = Unsigned(t)
  BY UnsignedIs DEF DoubleReads
<1>2. n = Len(u) /\ Len(u) \in Nat
  BY <1>1, LeftNone DEF DoubleReads
<1>3. a = DoubleNum(t)
  BY <1>1, <1>2 DEF DoubleReads, DoubleNum
<1>4. CASE f = -1 /\ TRUE = (n # 0) /\ \A i \in 1 .. n : IsDigit(u[i])
  <2>1. u # <<>> /\ Digits(u)
    BY <1>2, <1>4 DEF Digits
  <2> QED BY <1>1, <1>3, <1>4, <2>1 DEF DoubleForm
<1>5. CASE \E d \in 2 .. n : f = n - d /\ u[d] = DOT /\ \A i \in 1 .. n : i # d => IsDigit(u[i])
  <2>1. PICK d \in 2 .. n : f = n - d /\ u[d] = DOT /\ \A i \in 1 .. n : i # d => IsDigit(u[i])
    BY <1>5
  <2>2. DotAt(u, d) /\ f # -1 /\ f = Len(u) - d
    BY <1>2, <2>1 DEF DotAt
  <2> QED BY <1>1, <1>3, <2>2 DEF DoubleForm
<1> QED BY <1>1, <1>4, <1>5 DEF DoubleReads

LEMMA DoubleStops ==
  ASSUME NEW t, NEW n, NEW r, NEW g, NEW y, NEW a, NEW f, DoubleReads(t, n, r, g, y, a, f),
         IF r = <<>> THEN ~y ELSE ~IsDigit(Head(r)) /\ ~(Head(r) = DOT /\ f = -1 /\ y)
  PROVE  \A k : ~DoubleForm(Unsigned(t), k)
<1>1. PICK u \in Seq(Nat) : u = Unsigned(t)
  BY UnsignedIs DEF DoubleReads
<1>2. LeftOf(r, u, n)
  BY <1>1 DEF DoubleReads
<1>3. CASE r = <<>>
  <2>1. n = 0
    BY <1>3 DEF DoubleReads
  <2>2. Len(u) = 0
    BY <1>2, <1>3, <2>1, LeftNone
  <2>3. u = <<>> /\ ~\E d : DotAt(u, d)
    BY <2>2 DEF DotAt
  <2> QED BY <1>1, <2>3 DEF DoubleForm
<1>4. CASE r # <<>>
  <2>1. PICK m : m = n + 1 /\ m \in 1 .. Len(u) /\ Head(r) = u[m] /\ n \in Nat
    <3>1. n + 1 \in 1 .. Len(u) /\ Head(r) = u[n + 1]
      BY <1>2, <1>4, LeftNext
    <3>2. n \in 0 .. Len(u)
      BY <1>2 DEF LeftOf
    <3> QED BY <3>1, <3>2
  <2>2. ~IsDigit(u[m]) /\ (u[m] = DOT => f # -1 \/ ~y)
    BY <1>4, <2>1
  <2>3. ~Digits(u)
    BY <2>1, <2>2 DEF Digits
  <2>4. ASSUME NEW d, DotAt(u, d) PROVE FALSE
    <3>1. d = m /\ u[m] = DOT /\ m \in 2 .. Len(u) /\ \A i \in 1 .. Len(u) : i # m => IsDigit(u[i])
      BY <2>1, <2>2, <2>4 DEF DotAt
    <3>2. n # 0
      BY <2>1, <3>1
    <3>3. PICK e \in 2 .. n : u[e] = DOT
      BY <1>1, <2>2, <3>1, <3>2 DEF DoubleReads
    <3>4. e \in 1 .. Len(u) /\ e # m
      BY <2>1, <3>3
    <3>5. IsDigit(u[e])
      BY <3>1, <3>4
    <3> QED BY <3>3, <3>5, DigitIsNoDot
  <2> QED BY <1>1, <2>3, <2>4 DEF DoubleForm
<1> QED BY <1>3, <1>4

DoubleScan ==
  (pc = "reading" /\ type = "double") =>
    /\ \E n : DoubleReads(text, n, rest, neg, any, acc, frac)
    /\ ~IsSpecial(text)

\* what a double get makes of t
DoubleDecodes(t, e, v) ==
  \/ \E s \in Specials : s.text = t /\ e = "OK" /\ v = << [kind |-> s.kind] >>
  \/ /\ ~IsSpecial(t) /\ e = "OK"
     /\ \E k : /\ DoubleForm(Unsigned(t), k)
               /\ v = << [kind |-> "finite", num |-> DoubleNum(t), frac |-> k] >>
  \/ ~IsSpecial(t) /\ e # "OK" /\ \A k : ~DoubleForm(Unsigned(t), k)

DoubleExact == (pc = "done" /\ type = "double") => DoubleDecodes(text, err, value)

DoubleInvariant == DoubleScan /\ DoubleExact

\* a step of another get
LEMMA DoubleElsewhere ==
  ASSUME pc' \in {"empty", "stored"} \/ type' # "double"
  PROVE  DoubleInvariant'
BY DEF DoubleInvariant, DoubleScan, DoubleExact

LEMMA IntegralIsNoDouble == \A t \in Integral : t # "double" /\ t # "datetime"
BY DEF Integral

LEMMA PutDoubleInvariant == ASSUME Put PROVE DoubleInvariant'
<1>1. ASSUME NEW t, NEW v, NEW b, Store(t, v, b) PROVE DoubleInvariant'
  <2>1. pc' = "stored"
    BY <1>1 DEF Store
  <2> QED BY <2>1, DoubleElsewhere
<1>2. ASSUME NEW v \in DateTimes, PutDateTimeRefused(v) PROVE DoubleInvariant'
  <2>1. type' = "none"
    BY <1>2 DEF PutDateTimeRefused
  <2> QED BY <2>1, DoubleElsewhere
<1> QED BY <1>1, <1>2 DEF Put, PutInteger, PutBool, PutDouble, PutDateTime, PutBytes

LEMMA GetDoubleInvariant == ASSUME Typed, Get PROVE DoubleInvariant'
<1>1. CASE GetMissing
  <2>1. type' = "none"
    BY <1>1 DEF GetMissing
  <2> QED BY <2>1, DoubleElsewhere
<1>2. CASE GetBytes
  <2>1. type' = "bytes"
    BY <1>2 DEF GetBytes
  <2> QED BY <2>1, DoubleElsewhere
<1>3. CASE GetBool
  <2>1. type' = "bool"
    BY <1>3 DEF GetBool
  <2> QED BY <2>1, DoubleElsewhere
<1>4. ASSUME NEW t \in Integral, GetInteger(t) \/ GetIntegerEmpty(t) PROVE DoubleInvariant'
  <2>1. type' = t
    BY <1>4 DEF GetInteger, GetIntegerEmpty
  <2> QED BY <1>4, <2>1, DoubleElsewhere, IntegralIsNoDouble
<1>6. CASE GetDouble
  <2>1. /\ text # <<>> /\ ~IsSpecial(text) /\ pc' = "reading" /\ type' = "double" /\ Begin(text)
        /\ text' = text
    BY <1>6 DEF GetDouble
  <2>2. text \in Seq(Nat)
    BY DEF Typed, TypeOK
  <2>3. DoubleReads(text, 0, rest', neg', any', acc', frac')
    BY <2>1, <2>2, BeginDouble
  <2>4. \E n : DoubleReads(text', n, rest', neg', any', acc', frac')
    BY <2>1, <2>3
  <2>5. ~IsSpecial(text')
    BY <2>1
  <2>6. DoubleScan'
    BY <2>4, <2>5 DEF DoubleScan, IsSpecial
  <2> QED BY <2>1, <2>6 DEF DoubleInvariant, DoubleExact
<1>7. CASE GetDoubleEmpty
  <2>1. text = <<>>
    BY <1>7 DEF GetDoubleEmpty
  <2>2. pc' = "done" /\ err' = "AMP_DECODE_ERROR" /\ text' = text
    BY <1>7 DEF GetDoubleEmpty, Return
  <2>3. Unsigned(<<>>) = <<>> /\ ~\E d : DotAt(<<>>, d)
    BY DEF Unsigned, DotAt
  <2>4. \A k : ~DoubleForm(Unsigned(<<>>), k)
    BY <2>3 DEF DoubleForm
  <2>5. ~IsSpecial(<<>>)
    <3>1. InfText # <<>> /\ NanText # <<>>
      BY DEF InfText, NanText
    <3>2. <<MINUS>> \o InfText # <<>>
      <4>1. InfText \in Seq(Nat) /\ MINUS \in Nat
        BY ConstantTexts DEF MINUS
      <4>2. Len(<<MINUS>> \o InfText) = Len(InfText) + 1 /\ Len(InfText) \in Nat
        BY <4>1, ByteAndText
      <4> QED BY <4>2
    <3> QED BY <3>1, <3>2 DEF IsSpecial, Specials
  <2>6. DoubleDecodes(text', err', value')
    BY <2>1, <2>2, <2>4, <2>5 DEF DoubleDecodes
  <2>7. DoubleExact'
    BY <2>6 DEF DoubleExact, DoubleDecodes, IsSpecial
  <2> QED BY <2>2, <2>7 DEF DoubleInvariant, DoubleScan
<1>8. CASE GetDoubleSpecial
  <2>1. PICK s \in Specials : text = s.text /\ Return("OK", << [kind |-> s.kind] >>)
    BY <1>8 DEF GetDoubleSpecial
  <2>2. pc' = "done" /\ err' = "OK" /\ text' = text /\ value' = << [kind |-> s.kind] >>
    BY <2>1 DEF Return
  <2>3. DoubleDecodes(text', err', value')
    BY <2>1, <2>2 DEF DoubleDecodes
  <2>4. DoubleExact'
    BY <2>3 DEF DoubleExact
  <2> QED BY <2>2, <2>4 DEF DoubleInvariant, DoubleScan
<1>9. CASE GetDateTime \/ GetDateTimeWrongSize
  <2>1. type' = "datetime"
    BY <1>9 DEF GetDateTime, GetDateTimeWrongSize
  <2> QED BY <2>1, DoubleElsewhere
<1> QED BY <1>1, <1>2, <1>3, <1>4, <1>6, <1>7, <1>8, <1>9 DEF Get

LEMMA StepDoubleInvariant == ASSUME Typed, DoubleInvariant, Step PROVE DoubleInvariant'
<1>1. CASE ReadDoubleDigit
  <2>1. /\ pc = "reading" /\ type = "double" /\ rest # <<>> /\ IsDigit(Head(rest))
        /\ rest' = Tail(rest) /\ any' = TRUE /\ UNCHANGED <<pc, type, text, neg>>
    BY <1>1 DEF ReadDoubleDigit, Loop
  <2>2. PICK c : c = Head(rest) - ZERO
    OBVIOUS
  <2>3. /\ acc' = IF neg THEN acc * 10 - c ELSE acc * 10 + c
        /\ frac' = IF frac = -1 THEN -1 ELSE frac + 1
    BY <1>1, <2>2 DEF ReadDoubleDigit
  <2>4. (\E n : DoubleReads(text, n, rest, neg, any, acc, frac)) /\ ~IsSpecial(text)
    BY <2>1 DEF DoubleInvariant, DoubleScan
  <2>5. \E n : DoubleReads(text, n, rest', neg', any', acc', frac')
    BY <2>1, <2>2, <2>3, <2>4, DoubleDigit
  <2>6. DoubleScan'
    BY <2>1, <2>4, <2>5 DEF DoubleScan, IsSpecial
  <2> QED BY <2>1, <2>6 DEF DoubleInvariant, DoubleExact
<1>2. CASE ReadDot
  <2>1. /\ pc = "reading" /\ type = "double" /\ rest # <<>> /\ Head(rest) = DOT /\ frac = -1
        /\ any /\ rest' = Tail(rest) /\ frac' = 0 /\ UNCHANGED <<pc, type, text, neg, any, acc>>
    BY <1>2 DEF ReadDot, Loop, DotAllowed
  <2>2. any = TRUE /\ any' = TRUE
    BY <2>1 DEF Typed, TypeOK
  <2>3. (\E n : DoubleReads(text, n, rest, neg, TRUE, acc, -1)) /\ ~IsSpecial(text)
    BY <2>1, <2>2 DEF DoubleInvariant, DoubleScan
  <2>4. \E n : DoubleReads(text, n, rest', neg', any', acc', frac')
    BY <2>1, <2>2, <2>3, DoubleDot
  <2>5. DoubleScan'
    BY <2>1, <2>3, <2>4 DEF DoubleScan, IsSpecial
  <2> QED BY <2>1, <2>5 DEF DoubleInvariant, DoubleExact
<1>3. CASE DoubleRefused
  <2>1. /\ pc = "reading" /\ type = "double"
        /\ IF rest = <<>> THEN ~any ELSE ~IsDigit(Head(rest)) /\ ~(Head(rest) = DOT /\ frac = -1 /\ any)
        /\ pc' = "done" /\ err' = "AMP_DECODE_ERROR" /\ text' = text
    BY <1>3 DEF DoubleRefused, Loop, DotAllowed, Return
  <2>2. (\E n : DoubleReads(text, n, rest, neg, any, acc, frac)) /\ ~IsSpecial(text)
    BY <2>1 DEF DoubleInvariant, DoubleScan
  <2>3. \A k : ~DoubleForm(Unsigned(text), k)
    BY <2>1, <2>2, DoubleStops
  <2>4. DoubleDecodes(text', err', value')
    BY <2>1, <2>2, <2>3 DEF DoubleDecodes
  <2>5. DoubleExact'
    BY <2>4 DEF DoubleExact
  <2> QED BY <2>1, <2>5 DEF DoubleInvariant, DoubleScan
<1>4. CASE DoubleRead
  <2>1. /\ pc = "reading" /\ type = "double" /\ rest = <<>> /\ any
        /\ Return("OK", << [kind |-> "finite", num |-> acc, frac |-> IF frac = -1 THEN 0 ELSE frac] >>)
    BY <1>4 DEF DoubleRead, Loop
  <2>2. PICK k : k = IF frac = -1 THEN 0 ELSE frac
    OBVIOUS
  <2>3. /\ pc' = "done" /\ err' = "OK" /\ text' = text
        /\ value' = << [kind |-> "finite", num |-> acc, frac |-> k] >>
    BY <2>1, <2>2 DEF Return
  <2>4. any = TRUE
    BY <2>1 DEF Typed, TypeOK
  <2>5. (\E n : DoubleReads(text, n, <<>>, neg, TRUE, acc, frac)) /\ ~IsSpecial(text)
    BY <2>1, <2>4 DEF DoubleInvariant, DoubleScan
  <2>6. acc = DoubleNum(text) /\ DoubleForm(Unsigned(text), k)
    BY <2>2, <2>5, DoubleEnds
  <2>7. DoubleDecodes(text', err', value')
    BY <2>3, <2>5, <2>6 DEF DoubleDecodes
  <2>8. DoubleExact'
    BY <2>7 DEF DoubleExact
  <2> QED BY <2>3, <2>8 DEF DoubleInvariant, DoubleScan
<1>5. CASE ReadDigit \/ DigitTooBig \/ NotANumber \/ IntegerRead \/ FieldOutOfRange
           \/ NextField \/ LastField
  <2>1. type' = type /\ type \in Integral \cup {"datetime"}
    BY <1>5 DEF ReadDigit, DigitTooBig, NotANumber, IntegerRead, FieldOutOfRange,
                NextField, LastField, Loop, NumberFails
  <2> QED BY <2>1, IntegralIsNoDouble, DoubleElsewhere
<1> QED BY <1>1, <1>2, <1>3, <1>4, <1>5 DEF Step

LEMMA NextDoubleInvariant == ASSUME Typed, DoubleInvariant, [Next]_vars PROVE DoubleInvariant'
<1>1. CASE FreeBox
  <2>1. type' = "none"
    BY <1>1 DEF FreeBox
  <2> QED BY <2>1, DoubleElsewhere
<1>2. CASE UNCHANGED vars
  <2>1. UNCHANGED <<pc, type, text, rest, neg, any, acc, frac, err, value>>
    BY <1>2 DEF vars, loopVars
  <2> QED BY <2>1 DEF DoubleInvariant, DoubleScan, DoubleExact, IsSpecial
<1> QED BY <1>1, <1>2, PutDoubleInvariant, GetDoubleInvariant, StepDoubleInvariant DEF Next

\* a text with its sign still on it
LEMMA UnsignedAt ==
  ASSUME NEW t \in Seq(Nat), t # <<>>
  PROVE  \E o \in 0 .. 1 :
           /\ Len(Unsigned(t)) = Len(t) - o
           /\ \A i \in 1 .. Len(t) - o : Unsigned(t)[i] = t[i + o]
           /\ o = 1 <=> t[1] \in {PLUS, MINUS}
<1>1. Len(t) \in Nat /\ Len(t) >= 1 /\ Head(t) = t[1]
  OBVIOUS
<1>2. CASE t[1] \in {PLUS, MINUS}
  <2>1. PICK u : u = Tail(t) /\ u = Unsigned(t)
    BY <1>1, <1>2 DEF Unsigned
  <2>2. Len(u) = Len(t) - 1 /\ \A i \in 1 .. Len(u) : u[i] = t[i + 1]
    BY <2>1, HeadTailProperties
  <2>3. \A i \in 1 .. Len(t) - 1 : u[i] = t[i + 1]
    BY <2>2
  <2>4. Len(u) = Len(t) - 1 /\ (1 = 1 <=> t[1] \in {PLUS, MINUS})
    BY <1>2, <2>2
  <2>5. 1 \in 0 .. 1
    OBVIOUS
  <2> WITNESS 1 \in 0 .. 1
  <2> QED BY <2>1, <2>3, <2>4
<1>3. CASE ~(t[1] \in {PLUS, MINUS})
  <2>1. Unsigned(t) = t
    BY <1>1, <1>3 DEF Unsigned
  <2>2. Len(t) = Len(t) - 0 /\ \A i \in 1 .. Len(t) - 0 : t[i] = t[i + 0]
    BY <1>1
  <2>3. 0 # 1
    OBVIOUS
  <2>4. 0 = 1 <=> t[1] \in {PLUS, MINUS}
    BY <1>3, <2>3
  <2> WITNESS 0 \in 0 .. 1
  <2> QED BY <2>1, <2>2, <2>4
<1> QED BY <1>2, <1>3

LEMMA Slice ==
  ASSUME NEW t \in Seq(Nat), NEW m \in Nat, NEW n \in Nat, 1 <= m, n <= Len(t), m <= n + 1
  PROVE  /\ SubSeq(t, m, n) \in Seq(Nat) /\ Len(SubSeq(t, m, n)) = n - m + 1
         /\ \A i \in 1 .. n - m + 1 : SubSeq(t, m, n)[i] = t[m + i - 1]
<1>1. \A i \in m .. n : i \in 1 .. Len(t)
  OBVIOUS
<1>2. \A i \in m .. n : t[i] \in Nat
  BY <1>1, ElementOfSequence
<1>3. m \in Int /\ n \in Int
  OBVIOUS
<1>4. /\ SubSeq(t, m, n) \in Seq(Nat)
      /\ Len(SubSeq(t, m, n)) = IF m <= n THEN n - m + 1 ELSE 0
      /\ \A i \in 1 .. n - m + 1 : SubSeq(t, m, n)[i] = t[m + i - 1]
  BY ONLY <1>2, <1>3, SubSeqProperties, SMTT(60)
<1>5. (IF m <= n THEN n - m + 1 ELSE 0) = n - m + 1
  OBVIOUS
<1> QED BY <1>4, <1>5

\* the digits on either side of the dot, in the text with its sign
LEMMA FormSyntax ==
  ASSUME NEW t \in Seq(Nat), NEW k, DoubleForm(Unsigned(t), k)
  PROVE  \/ IsNumeral(t)
         \/ \E i \in 2 .. Len(t) : /\ t[i] = DOT /\ IsNumeral(SubSeq(t, 1, i - 1))
                                   /\ Digits(SubSeq(t, i + 1, Len(t)))
<1>1. PICK u \in Seq(Nat) : u = Unsigned(t)
  BY UnsignedIs
<1>2. CASE u # <<>> /\ Digits(u)
  BY <1>1, <1>2 DEF IsNumeral
<1>3. CASE \E d : DotAt(u, d)
  <2>1. PICK d : d \in 2 .. Len(u) /\ u[d] = DOT /\ \A i \in 1 .. Len(u) : i # d => IsDigit(u[i])
    BY <1>3 DEF DotAt
  <2>2. t # <<>>
    <3>1. CASE t = <<>>
      <4>1. u = <<>>
        BY <1>1, <3>1 DEF Unsigned
      <4>2. Len(<<>>) = 0
        OBVIOUS
      <4> QED BY <2>1, <4>1, <4>2
    <3> QED BY <3>1
  <2>3. PICK o \in 0 .. 1 : /\ Len(u) = Len(t) - o
                            /\ \A i \in 1 .. Len(t) - o : u[i] = t[i + o]
                            /\ o = 1 <=> t[1] \in {PLUS, MINUS}
    BY <1>1, <2>2, UnsignedAt
  <2>4. PICK i : i = d + o
    OBVIOUS
  <2>5. Len(t) \in Nat /\ Len(u) \in Nat /\ d \in Nat /\ i \in 2 .. Len(t) /\ i \in Nat
    BY <2>1, <2>3, <2>4, SMTT(60)
  <2>6. t[i] = DOT
    BY <2>1, <2>3, <2>4, <2>5, SMTT(60)
  <2>7. PICK b : b = SubSeq(t, 1, i - 1)
    OBVIOUS
  <2>8. /\ b \in Seq(Nat) /\ Len(b) = i - 1 /\ \A j \in 1 .. i - 1 : b[j] = t[j]
    <3>1. PICK n \in Nat : n = i - 1
      BY <2>5
    <3>2. 1 <= n + 1 /\ n <= Len(t) /\ n - 1 + 1 = n /\ \A j \in 1 .. n : 1 + j - 1 = j
      BY <2>5, <3>1
    <3>3. /\ SubSeq(t, 1, n) \in Seq(Nat) /\ Len(SubSeq(t, 1, n)) = n - 1 + 1
          /\ \A j \in 1 .. n - 1 + 1 : SubSeq(t, 1, n)[j] = t[1 + j - 1]
      BY <3>2, Slice
    <3> QED BY <2>7, <3>1, <3>2, <3>3
  <2>9. b # <<>> /\ b[1] = t[1]
    BY <2>5, <2>8
  <2>10. PICK w \in Seq(Nat) : w = Unsigned(b)
    BY <2>8, UnsignedIs
  <2>11. PICK q \in 0 .. 1 : /\ Len(w) = Len(b) - q
                             /\ \A j \in 1 .. Len(b) - q : w[j] = b[j + q]
                             /\ q = 1 <=> b[1] \in {PLUS, MINUS}
    BY <2>8, <2>9, <2>10, UnsignedAt
  <2>12. q = o
    BY <2>3, <2>9, <2>11
  <2>13. Len(w) = d - 1 /\ \A j \in 1 .. d - 1 : w[j] = u[j]
    <3>1. Len(w) = d - 1
      BY <2>4, <2>5, <2>8, <2>11, <2>12
    <3>2. ASSUME NEW j \in 1 .. d - 1 PROVE w[j] = u[j]
      <4>1. j \in 1 .. Len(b) - q /\ j + o \in 1 .. i - 1 /\ j \in 1 .. Len(t) - o
        BY <2>1, <2>3, <2>4, <2>5, <2>8, <2>12
      <4>2. w[j] = b[j + o] /\ b[j + o] = t[j + o] /\ u[j] = t[j + o]
        BY <2>3, <2>8, <2>11, <2>12, <4>1
      <4> QED BY <4>2
    <3> QED BY <3>1, <3>2
  <2>14. w # <<>> /\ Digits(w)
    <3>1. \A j \in 1 .. d - 1 : j \in 1 .. Len(u) /\ j # d
      BY <2>1, <2>5, SMTT(60)
    <3>2. Digits(w)
      BY <2>1, <2>13, <3>1 DEF Digits
    <3>3. d - 1 > 0
      BY <2>1
    <3> QED BY <2>13, <3>2, <3>3
  <2>15. PICK e : e = SubSeq(t, i + 1, Len(t))
    OBVIOUS
  <2>16. Digits(e)
    <3>a. PICK m \in Nat : m = i + 1
      BY <2>5
    <3>b. PICK n \in Nat : n = Len(t)
      BY <2>5
    <3>1. m = i + 1 /\ n = Len(t) /\ 1 <= m /\ n <= Len(t) /\ m <= n + 1
      BY <2>5, <3>a, <3>b
    <3>2. /\ Len(SubSeq(t, m, n)) = n - m + 1
          /\ \A j \in 1 .. n - m + 1 : SubSeq(t, m, n)[j] = t[m + j - 1]
      BY ONLY t \in Seq(Nat), m \in Nat, n \in Nat, <3>1, Slice, SMTT(60)
    <3>3. Len(e) = n - m + 1 /\ \A j \in 1 .. n - m + 1 : e[j] = t[m + j - 1]
      BY <2>15, <3>1, <3>2
    <3>4. ASSUME NEW j \in 1 .. n - m + 1 PROVE IsDigit(e[j])
      <4>1. d + j \in 1 .. Len(u) /\ d + j # d /\ d + j \in 1 .. Len(t) - o /\ (d + j) + o = m + j - 1
        BY <2>1, <2>3, <2>4, <2>5, <3>1
      <4>2. u[d + j] = t[(d + j) + o] /\ IsDigit(u[d + j])
        BY <2>1, <2>3, <4>1
      <4> QED BY <3>3, <4>1, <4>2
    <3> QED BY <3>3, <3>4 DEF Digits
  <2> QED BY <2>5, <2>6, <2>7, <2>10, <2>14, <2>15, <2>16 DEF IsNumeral
<1> QED BY <1>1, <1>2, <1>3 DEF DoubleForm

(* A double get succeeds only on a special value, or on a sign, digits and  *)
(* at most one dot with a digit before it.                                  *)
THEOREM DoublesAreDecimal == Spec => []DoubleSyntax
<1>1. Init => Typed /\ Inv /\ DoubleInvariant
  BY InitTyped, InitInv DEF Init, DoubleInvariant, DoubleScan, DoubleExact
<1>2. Typed /\ Inv /\ DoubleInvariant /\ [Next]_vars => (Typed /\ Inv /\ DoubleInvariant)'
  BY NextTyped, NextInv, NextDoubleInvariant DEF Inv
<1>3. ASSUME Typed, DoubleInvariant PROVE DoubleSyntax
  <2> SUFFICES ASSUME pc = "done", type = "double", err = "OK", ~IsSpecial(text)
               PROVE  \/ IsNumeral(text)
                      \/ \E i \in 2 .. Len(text) : /\ text[i] = DOT /\ IsNumeral(SubSeq(text, 1, i - 1))
                                                   /\ Digits(SubSeq(text, i + 1, Len(text)))
    BY DEF DoubleSyntax
  <2>1. PICK k : DoubleForm(Unsigned(text), k)
    BY <1>3 DEF DoubleInvariant, DoubleExact, DoubleDecodes, IsSpecial
  <2>2. text \in Seq(Nat)
    BY <1>3 DEF Typed, TypeOK
  <2> QED BY <2>1, <2>2, FormSyntax
<1> QED BY <1>1, <1>2, <1>3, PTL DEF Spec

-----------------------------------------------------------------------------
(* A text that put wrote is read back: of a double, the digits before and    *)
(* after the dot add up to the number they were cut from.                    *)

\* u is the w digits of p, a dot, and the FRAC digits of q
Halves(u, p, q, w) ==
  /\ u \in Seq(Nat) /\ Len(u) = w + 1 + FRAC
  /\ \A i \in 1 .. w : u[i] = Pad(p, w)[i]
  /\ u[w + 1] = DOT
  /\ \A i \in 1 .. FRAC : u[w + 1 + i] = Pad(q, FRAC)[i]

\* a number of w digits, as a function of the digits read
LEMMA DigitOfPad ==
  ASSUME NEW n \in Nat, NEW w \in 0 .. MAX_DIGITS, NEW i \in 0 .. w - 1
  PROVE  \E a, q \in Nat :
           /\ a = Pow10[w - (i + 1)] /\ q = n \div a
           /\ Pow10[w - i] = 10 * a /\ n \div Pow10[w - i] = q \div 10
           /\ Pad(n, w)[i + 1] = ZERO + (q % 10)
<1>1. w \in Nat
  BY PowIs
<1>2. /\ i + 1 \in 1 .. w /\ w - (i + 1) \in 0 .. MAX_DIGITS - 1
      /\ w - (i + 1) \in 0 .. MAX_DIGITS /\ w - i = (w - (i + 1)) + 1
  BY <1>1, PowIs
<1>3. PICK a \in Nat \ {0} : a = Pow10[w - (i + 1)]
  BY <1>2, PowIs
<1>4. Pow10[w - i] = 10 * a
  BY <1>2, <1>3, PowIs
<1>5. PICK q \in Nat : q = n \div a
  BY <1>3
<1>6. q \div 10 = n \div (10 * a)
  BY <1>3, <1>5
<1>7. Pad(n, w)[i + 1] = ZERO + (q % 10)
  BY <1>2, <1>3, <1>5 DEF Pad
<1>8. a \in Nat /\ n \div Pow10[w - i] = q \div 10
  BY <1>3, <1>4, <1>6
<1> QED BY <1>3, <1>4, <1>5, <1>7, <1>8

\* one more digit, whatever was read before it
LEMMA DigitStep ==
  \A x, q \in Nat : 10 * (x + (q \div 10)) + (ZERO + (q % 10)) - ZERO = 10 * x + q
<1>1. \A q \in Nat : 10 * (q \div 10) + (q % 10) = q /\ q % 10 \in Nat /\ q \div 10 \in Nat
  OBVIOUS
<1>2. ASSUME NEW x \in Nat, NEW d \in Nat, NEW m \in Nat
      PROVE  10 * (x + d) + (ZERO + m) - ZERO = 10 * x + (10 * d + m)
  BY DEF ZERO
<1>3. ASSUME NEW x \in Nat, NEW q \in Nat
      PROVE  10 * (x + (q \div 10)) + (ZERO + (q % 10)) - ZERO = 10 * x + q
  <2>1. PICK d \in Nat, m \in Nat : d = q \div 10 /\ m = q % 10 /\ 10 * d + m = q
    BY <1>1
  <2>2. 10 * (x + d) + (ZERO + m) - ZERO = 10 * x + (10 * d + m)
    BY <1>2, ZenonT(120)
  <2> QED BY <2>1, <2>2
<1> QED BY <1>3

LEMMA BeforeDot ==
  ASSUME NEW p \in Nat, NEW q \in Nat, NEW w \in 1 .. MAX_DIGITS, p < Pow10[w],
         NEW u, Halves(u, p, q, w)
  PROVE  DotPartial(u)[w] = p /\ DotPartial(u)[w + 1] = p
<1> DEFINE F == DotPartial(u)
           T == {i \in 0 .. w : F[i] = p \div Pow10[w - i]}
<1>1. /\ w \in Nat /\ w \in 0 .. MAX_DIGITS /\ Pow10[w] \in Nat \ {0} /\ Pow10[0] = 1
      /\ FRAC \in Nat
  BY PowIs, TypesAssumption
<1>2. /\ F[0] = 0
      /\ \A i \in 0 .. Len(u) - 1 :
           F[i + 1] = IF u[i + 1] = DOT THEN F[i] ELSE 10 * F[i] + u[i + 1] - ZERO
  BY DotPartialIs DEF Halves
<1>3. Digits(Pad(p, w)) /\ Len(Pad(p, w)) = w
  BY <1>1, PadIs
<1>4. Len(u) = w + 1 + FRAC /\ u[w + 1] = DOT /\ \A i \in 1 .. w : u[i] = Pad(p, w)[i]
  BY DEF Halves
<1> HIDE DEF F
<1>5. 0 \in T
  <2>1. p \div Pow10[w] = 0 /\ w - 0 = w /\ 0 \in 0 .. w
    BY <1>1
  <2> QED BY <1>2, <2>1
<1>6. ASSUME NEW i \in 0 .. w - 1, i \in T PROVE i + 1 \in T
  <2>1. i + 1 \in 0 .. w /\ i + 1 \in 1 .. w /\ i \in 0 .. Len(u) - 1
    BY <1>1, <1>4
  <2>2. PICK a, c \in Nat : /\ a = Pow10[w - (i + 1)] /\ c = p \div a
                            /\ p \div Pow10[w - i] = c \div 10
                            /\ Pad(p, w)[i + 1] = ZERO + (c % 10)
    <3>1. w \in 0 .. MAX_DIGITS
      BY <1>1
    <3>2. \E a, c \in Nat :
            /\ a = Pow10[w - (i + 1)] /\ c = p \div a
            /\ Pow10[w - i] = 10 * a /\ p \div Pow10[w - i] = c \div 10
            /\ Pad(p, w)[i + 1] = ZERO + (c % 10)
      BY ONLY <3>1, p \in Nat, i \in 0 .. w - 1, DigitOfPad
    <3> QED BY <3>2, Zenon
  <2>3. IsDigit(u[i + 1]) /\ u[i + 1] = ZERO + (c % 10)
    BY <1>3, <1>4, <2>1, <2>2 DEF Digits
  <2>4. F[i + 1] = 10 * F[i] + u[i + 1] - ZERO
    BY <1>2, <2>1, <2>3, DigitIsNoDot
  <2>5. F[i] = c \div 10 /\ c \div 10 \in Nat
    BY <1>6, <2>2
  <2>6. 10 * (0 + (c \div 10)) + (ZERO + (c % 10)) - ZERO = 10 * 0 + c
    BY DigitStep
  <2>7. 0 + (c \div 10) = c \div 10 /\ 10 * 0 + c = c
    BY <2>5
  <2>8. F[i + 1] = c
    BY <2>3, <2>4, <2>5, <2>6, <2>7
  <2> QED BY <2>1, <2>2, <2>8
<1> HIDE DEF T
<1>7. \A i \in 0 .. w : i \in T
  BY <1>1, <1>5, <1>6, UpTo
<1>8. w \in T
  BY <1>1, <1>7
<1>9. F[w] = p
  <2>1. F[w] = p \div Pow10[w - w] /\ w - w = 0
    BY <1>1, <1>8 DEF T
  <2>2. p \div 1 = p
    OBVIOUS
  <2> QED BY <1>1, <2>1, <2>2
<1>10. F[w + 1] = p
  <2>1. w \in 0 .. Len(u) - 1
    BY <1>1, <1>4
  <2> QED BY <1>2, <1>4, <1>9, <2>1
<1> QED BY <1>9, <1>10 DEF F

LEMMA AfterDot ==
  ASSUME NEW p \in Nat, NEW q \in Nat, q < Pow10[FRAC], NEW w \in 1 .. MAX_DIGITS, p < Pow10[w],
         NEW u, Halves(u, p, q, w)
  PROVE  DotPartial(u)[Len(u)] = p * Pow10[FRAC] + q
<1> DEFINE F == DotPartial(u)
           T == {i \in 0 .. FRAC : F[w + 1 + i] = p * Pow10[i] + (q \div Pow10[FRAC - i])}
<1>1. /\ w \in Nat /\ FRAC \in Nat /\ FRAC \in 0 .. MAX_DIGITS /\ Pow10[FRAC] \in Nat \ {0}
      /\ Pow10[0] = 1
  BY PowIs, TypesAssumption
<1>2. \A i \in 0 .. Len(u) - 1 :
        F[i + 1] = IF u[i + 1] = DOT THEN F[i] ELSE 10 * F[i] + u[i + 1] - ZERO
  BY DotPartialIs DEF Halves
<1>3. Digits(Pad(q, FRAC)) /\ Len(Pad(q, FRAC)) = FRAC
  BY <1>1, PadIs
<1>4. Len(u) = w + 1 + FRAC /\ \A i \in 1 .. FRAC : u[w + 1 + i] = Pad(q, FRAC)[i]
  BY DEF Halves
<1>5. F[w + 1] = p
  BY BeforeDot
<1> HIDE DEF F
<1>6. 0 \in T
  <2>1. q \div Pow10[FRAC] = 0 /\ FRAC - 0 = FRAC /\ 0 \in 0 .. FRAC /\ w + 1 + 0 = w + 1
    BY <1>1
  <2>2. p * 1 + 0 = p
    OBVIOUS
  <2> QED BY <1>1, <1>5, <2>1, <2>2
<1>7. ASSUME NEW i \in 0 .. FRAC - 1, i \in T PROVE i + 1 \in T
  <2>1. /\ i \in Nat /\ i + 1 \in 0 .. FRAC /\ i + 1 \in 1 .. FRAC /\ w + 1 + i \in 0 .. Len(u) - 1
        /\ (w + 1 + i) + 1 = w + 1 + (i + 1) /\ i \in 0 .. MAX_DIGITS - 1 /\ i \in 0 .. MAX_DIGITS
    BY <1>1, <1>4, PowIs, SMTT(60)
  <2>2. PICK a, c \in Nat : /\ a = Pow10[FRAC - (i + 1)] /\ c = q \div a
                            /\ q \div Pow10[FRAC - i] = c \div 10
                            /\ Pad(q, FRAC)[i + 1] = ZERO + (c % 10)
    <3>1. FRAC \in 0 .. MAX_DIGITS
      BY <1>1
    <3>2. \E a, c \in Nat :
            /\ a = Pow10[FRAC - (i + 1)] /\ c = q \div a
            /\ Pow10[FRAC - i] = 10 * a /\ q \div Pow10[FRAC - i] = c \div 10
            /\ Pad(q, FRAC)[i + 1] = ZERO + (c % 10)
      BY ONLY <3>1, q \in Nat, i \in 0 .. FRAC - 1, DigitOfPad
    <3> QED BY <3>2, Zenon
  <2>3. IsDigit(u[w + 1 + (i + 1)]) /\ u[w + 1 + (i + 1)] = ZERO + (c % 10)
    BY <1>3, <1>4, <2>1, <2>2 DEF Digits
  <2>4. F[w + 1 + (i + 1)] = 10 * F[w + 1 + i] + u[w + 1 + (i + 1)] - ZERO
    <3>1. F[(w + 1 + i) + 1] = IF u[(w + 1 + i) + 1] = DOT THEN F[w + 1 + i]
                               ELSE 10 * F[w + 1 + i] + u[(w + 1 + i) + 1] - ZERO
      BY <1>2, <2>1
    <3> QED BY <2>1, <2>3, <3>1, DigitIsNoDot
  <2>5. PICK b \in Nat : b = Pow10[i] /\ Pow10[i + 1] = 10 * b
    BY <2>1, PowIs
  <2>6. PICK x \in Nat : x = p * b
    OBVIOUS
  <2>7. p * Pow10[i + 1] = 10 * x
    BY <2>5, <2>6
  <2>8. F[w + 1 + i] = x + (c \div 10)
    BY <1>7, <2>2, <2>5, <2>6
  <2>9. 10 * (x + (c \div 10)) + (ZERO + (c % 10)) - ZERO = 10 * x + c
    BY DigitStep
  <2>10. F[w + 1 + (i + 1)] = 10 * x + c
    BY <2>3, <2>4, <2>8, <2>9
  <2> QED BY <2>1, <2>2, <2>7, <2>10
<1> HIDE DEF T
<1>8. \A i \in 0 .. FRAC : i \in T
  BY <1>1, <1>6, <1>7, UpTo
<1>9. FRAC \in T
  BY <1>1, <1>8
<1>10. F[w + 1 + FRAC] = p * Pow10[FRAC] + (q \div Pow10[FRAC - FRAC]) /\ FRAC - FRAC = 0
  BY <1>1, <1>9 DEF T
<1>11. q \div 1 = q
  OBVIOUS
<1> QED BY <1>1, <1>4, <1>10, <1>11 DEF F

LEMMA DigitIsNoSign == \A c : IsDigit(c) => c # MINUS /\ c # PLUS
BY DEF IsDigit, ZERO, MINUS, PLUS

\* what amp_put_double prints, byte by byte
LEMMA FiniteTextBytes ==
  ASSUME NEW v \in Doubles, Finite(v)
  PROVE  \E w \in 1 .. MAX_DIGITS :
           /\ Part(v) < Pow10[w]
           /\ FiniteText(v) # <<>>
           /\ Head(FiniteText(v)) = MINUS <=> v.neg
           /\ Halves(Unsigned(FiniteText(v)), Part(v), Fraction(v), w)
<1>1. /\ v.neg \in BOOLEAN /\ FRAC \in 0 .. MAX_DIGITS
      /\ Part(v) \in Nat /\ Fraction(v) \in Nat
      /\ FiniteText(v) = (IF v.neg THEN <<MINUS>> ELSE <<>>) \o Decimal(Part(v))
                           \o <<DOT>> \o Pad(Fraction(v), FRAC)
  BY FiniteTextIs
<1>2. PICK w \in 1 .. MAX_DIGITS : Part(v) < Pow10[w] /\ Decimal(Part(v)) = Pad(Part(v), w)
  <2>1. PICK e \in 1 .. MAX_DIGITS : Part(v) < Pow10[e]
    BY FiniteTextIs
  <2>2. Part(v) \in Int /\ Magn(Part(v)) = Part(v) /\ Part(v) >= 0
    BY <1>1 DEF Magn
  <2>3. PICK w \in 1 .. e : /\ Magn(Part(v)) < Pow10[w]
                            /\ Part(v) >= 0 => Decimal(Part(v)) = Pad(Magn(Part(v)), w)
    BY <2>1, <2>2, DecimalIs
  <2>4. w \in 1 .. MAX_DIGITS
    BY <2>1, <2>3, PowIs
  <2> QED BY <2>2, <2>3, <2>4
<1>3. w \in 0 .. MAX_DIGITS /\ w \in Nat /\ w >= 1 /\ FRAC \in Nat
  BY <1>1, PowIs
<1>4. PICK p \in Seq(Nat) : p = Pad(Part(v), w) /\ Len(p) = w /\ Digits(p)
  BY <1>1, <1>3, PadIs
<1>5. PICK q \in Seq(Nat) : q = Pad(Fraction(v), FRAC) /\ Len(q) = FRAC
  BY <1>1, PadIs
<1>6. PICK s \in Seq(Nat) : /\ s = (IF v.neg THEN <<MINUS>> ELSE <<>>)
                            /\ Len(s) = (IF v.neg THEN 1 ELSE 0)
                            /\ v.neg => s[1] = MINUS
  <2>1. MINUS \in Nat
    BY DEF MINUS
  <2>2. \A c \in Nat : <<c>> \in Seq(Nat) /\ Len(<<c>>) = 1 /\ <<c>>[1] = c
    OBVIOUS
  <2>3. <<MINUS>> \in Seq(Nat) /\ Len(<<MINUS>>) = 1 /\ <<MINUS>>[1] = MINUS
    BY <2>1, <2>2
  <2>4. <<>> \in Seq(Nat) /\ Len(<<>>) = 0
    OBVIOUS
  <2>5. PICK s : s = (IF v.neg THEN <<MINUS>> ELSE <<>>)
    OBVIOUS
  <2>6. s \in Seq(Nat) /\ Len(s) = (IF v.neg THEN 1 ELSE 0) /\ (v.neg => s[1] = MINUS)
    <3>1. CASE v.neg
      <4>1. s = <<MINUS>>
        BY <2>5, <3>1
      <4> QED BY <2>3, <3>1, <4>1
    <3>2. CASE ~v.neg
      <4>1. s = <<>>
        BY <2>5, <3>2
      <4>2. s \in Seq(Nat) /\ Len(s) = 0
        BY <2>4, <4>1
      <4>3. Len(s) = (IF v.neg THEN 1 ELSE 0)
        BY <3>2, <4>2
      <4> QED BY <3>2, <4>2, <4>3
    <3> QED BY <1>1, <3>1, <3>2
  <2>7. \E x \in Seq(Nat) : /\ x = s /\ Len(x) = (IF v.neg THEN 1 ELSE 0)
                            /\ v.neg => x[1] = MINUS
    BY <2>6
  <2> QED BY <2>5, <2>7
<1>7. PICK d \in Seq(Nat) : d = <<DOT>> /\ Len(d) = 1 /\ d[1] = DOT
  <2>1. DOT \in Nat
    BY DEF DOT
  <2>2. \A c \in Nat : <<c>> \in Seq(Nat) /\ Len(<<c>>) = 1 /\ <<c>>[1] = c
    OBVIOUS
  <2> QED BY <2>1, <2>2
<1>8. PICK a \in Seq(Nat) : a = s \o p
  BY JoinSeq
<1>9. PICK b \in Seq(Nat) : b = a \o d
  BY JoinSeq
<1>10. PICK t \in Seq(Nat) : t = b \o q
  BY JoinSeq
<1>11. t = FiniteText(v)
  BY <1>1, <1>2, <1>4, <1>5, <1>6, <1>7, <1>8, <1>9, <1>10
<1>12. PICK o \in Nat : o = Len(s) /\ o = (IF v.neg THEN 1 ELSE 0)
  BY <1>6
<1>13. /\ Len(a) = o + w
       /\ \A i \in 1 .. o : a[i] = s[i]
       /\ \A i \in 1 .. w : a[o + i] = p[i]
  <2>1. /\ Len(a) = Len(s) + Len(p) /\ \A i \in 1 .. Len(s) : a[i] = s[i]
        /\ \A i \in 1 .. Len(p) : a[Len(s) + i] = p[i]
    BY <1>8, BytesOfJoin
  <2>2. Len(s) = o /\ Len(p) = w
    BY <1>4, <1>12
  <2> QED BY <2>1, <2>2
<1>14. /\ Len(b) = (o + w) + 1
       /\ \A i \in 1 .. o + w : b[i] = a[i]
       /\ b[(o + w) + 1] = DOT
  <2>1. /\ Len(b) = Len(a) + Len(d) /\ \A i \in 1 .. Len(a) : b[i] = a[i]
        /\ \A i \in 1 .. Len(d) : b[Len(a) + i] = d[i]
    BY <1>9, BytesOfJoin
  <2>2. 1 \in 1 .. Len(d)
    BY <1>7
  <2> QED BY <1>7, <1>13, <2>1, <2>2
<1>15. /\ Len(t) = (o + w + 1) + FRAC
       /\ \A i \in 1 .. o + w + 1 : t[i] = b[i]
       /\ \A i \in 1 .. FRAC : t[(o + w + 1) + i] = q[i]
  <2>1. /\ Len(t) = Len(b) + Len(q) /\ \A i \in 1 .. Len(b) : t[i] = b[i]
        /\ \A i \in 1 .. Len(q) : t[Len(b) + i] = q[i]
    <3>1. b \in Seq(Nat) /\ q \in Seq(Nat) /\ t = b \o q
      BY <1>10
    <3> QED BY ONLY <3>1
  <2>2. Len(b) = o + w + 1
    BY <1>3, <1>12, <1>14
  <2> QED BY <1>5, <2>1, <2>2
<1>16. ASSUME NEW i \in 1 .. w PROVE t[o + i] = p[i]
  <2>1. o + i \in 1 .. o + w /\ o + i \in 1 .. o + w + 1
    BY <1>3, <1>12
  <2> QED BY <1>13, <1>14, <1>15, <2>1
<1>17. t # <<>> /\ (t[1] = MINUS <=> v.neg) /\ (o = 1 <=> t[1] \in {PLUS, MINUS})
  <2>1. t # <<>>
    <3>1. Len(t) >= 1
      BY <1>3, <1>12, <1>15
    <3> QED BY <3>1
  <2>2. CASE v.neg
    <3>1. o = 1 /\ 1 \in 1 .. o + w /\ 1 \in 1 .. o + w + 1 /\ 1 \in 1 .. o
      BY <1>3, <1>12, <2>2
    <3>2. t[1] = MINUS
      BY <1>6, <1>13, <1>14, <1>15, <2>2, <3>1, SMTT(60)
    <3> QED BY <2>1, <2>2, <3>1, <3>2
  <2>3. CASE ~v.neg
    <3>1. o = 0 /\ 1 \in 1 .. w /\ o + 1 = 1
      BY <1>3, <1>12, <2>3
    <3>5. t[o + 1] = p[1]
      BY <1>16, <3>1
    <3>6. 1 \in 1 .. Len(p)
      BY <1>4, <3>1
    <3>8. t[1] = p[1]
      BY <3>1, <3>5
    <3>7. IsDigit(p[1])
      BY <1>4, <3>6 DEF Digits
    <3>2. t[1] = p[1] /\ IsDigit(p[1])
      BY <3>8, <3>7
    <3>3. t[1] # MINUS /\ t[1] # PLUS
      BY <3>2, DigitIsNoSign
    <3>4. o # 1
      BY <3>1
    <3> QED BY <2>1, <2>3, <3>3, <3>4
  <2> QED BY <1>1, <2>2, <2>3
<1>18. PICK u \in Seq(Nat) : u = Unsigned(t)
  BY UnsignedIs
<1>19. Len(u) = w + 1 + FRAC /\ \A i \in 1 .. w + 1 + FRAC : u[i] = t[i + o]
  <2>1. PICK z \in 0 .. 1 : /\ Len(u) = Len(t) - z
                            /\ \A i \in 1 .. Len(t) - z : u[i] = t[i + z]
                            /\ z = 1 <=> t[1] \in {PLUS, MINUS}
    <3>1. t # <<>> /\ t \in Seq(Nat)
      BY <1>10, <1>17
    <3>2. \E z \in 0 .. 1 : /\ Len(Unsigned(t)) = Len(t) - z
                            /\ \A i \in 1 .. Len(t) - z : Unsigned(t)[i] = t[i + z]
                            /\ z = 1 <=> t[1] \in {PLUS, MINUS}
      BY ONLY <3>1, UnsignedAt
    <3> QED BY <1>18, <3>2, Zenon
  <2>2. o \in 0 .. 1
    BY <1>12
  <2>3. z = o
    BY <1>17, <2>1, <2>2, SMTT(60)
  <2>4. Len(t) - o = w + 1 + FRAC
    BY <1>3, <1>12, <1>15
  <2> QED BY <2>1, <2>3, <2>4
<1>20. \A i \in 1 .. w : u[i] = p[i]
  <2>1. ASSUME NEW i \in 1 .. w PROVE u[i] = p[i]
    <3>1. i \in 1 .. w + 1 + FRAC /\ i + o = o + i
      BY <1>3, <1>12
    <3> QED BY <1>16, <1>19, <3>1
  <2> QED BY <2>1
<1>21. u[w + 1] = DOT
  <2>1. w + 1 \in 1 .. w + 1 + FRAC /\ (w + 1) + o = (o + w) + 1 /\ (o + w) + 1 \in 1 .. o + w + 1
    BY <1>3, <1>12
  <2>2. u[w + 1] = t[(o + w) + 1] /\ t[(o + w) + 1] = b[(o + w) + 1]
    BY <1>15, <1>19, <2>1, SMTT(60)
  <2> QED BY <1>14, <2>2
<1>22. \A i \in 1 .. FRAC : u[w + 1 + i] = q[i]
  <2>1. ASSUME NEW i \in 1 .. FRAC PROVE u[w + 1 + i] = q[i]
    <3>1. w + 1 + i \in 1 .. w + 1 + FRAC /\ (w + 1 + i) + o = (o + w + 1) + i
      BY <1>3, <1>12
    <3>2. u[w + 1 + i] = t[(w + 1 + i) + o]
      BY <1>19, <3>1
    <3> QED BY <1>15, <3>1, <3>2
  <2> QED BY <2>1
<1>23. Halves(u, Part(v), Fraction(v), w)
  BY <1>4, <1>5, <1>18, <1>19, <1>20, <1>21, <1>22 DEF Halves
<1>24. Head(t) = t[1]
  BY <1>17
<1> QED BY <1>2, <1>11, <1>17, <1>18, <1>23, <1>24

\* the double that the text says: exactly one reading, the number that was put
LEMMA FiniteTextMeans ==
  ASSUME NEW v \in Doubles, Finite(v)
  PROVE  /\ DoubleForm(Unsigned(FiniteText(v)), FRAC)
         /\ \A k : DoubleForm(Unsigned(FiniteText(v)), k) => k = FRAC
         /\ DoubleNum(FiniteText(v)) = IF v.neg THEN -v.num ELSE v.num
<1>1. PICK w \in 1 .. MAX_DIGITS :
        /\ Part(v) < Pow10[w] /\ (Head(FiniteText(v)) = MINUS <=> v.neg)
        /\ Halves(Unsigned(FiniteText(v)), Part(v), Fraction(v), w)
  BY FiniteTextBytes
<1>2. PICK u : u = Unsigned(FiniteText(v))
  OBVIOUS
<1>3. /\ u \in Seq(Nat) /\ Len(u) = w + 1 + FRAC /\ u[w + 1] = DOT
      /\ \A i \in 1 .. w : u[i] = Pad(Part(v), w)[i]
      /\ \A i \in 1 .. FRAC : u[w + 1 + i] = Pad(Fraction(v), FRAC)[i]
  BY <1>1, <1>2 DEF Halves
<1>4. /\ v.neg \in BOOLEAN /\ v.num \in Nat /\ FRAC \in 0 .. MAX_DIGITS
      /\ Part(v) \in Nat /\ Fraction(v) \in Nat /\ Fraction(v) < Pow10[FRAC]
  BY FiniteTextIs
<1>5. w \in 0 .. MAX_DIGITS /\ w \in Nat /\ w >= 1 /\ FRAC \in Nat
  BY <1>4, PowIs
<1>6. /\ Digits(Pad(Part(v), w)) /\ Len(Pad(Part(v), w)) = w
      /\ Digits(Pad(Fraction(v), FRAC)) /\ Len(Pad(Fraction(v), FRAC)) = FRAC
  BY <1>4, <1>5, PadIs
<1>7. ASSUME NEW i \in 1 .. Len(u), i # w + 1 PROVE IsDigit(u[i])
  <2>1. CASE i <= w
    <3>1. i \in 1 .. w
      BY <1>5, <2>1
    <3> QED BY <1>3, <1>6, <3>1 DEF Digits
  <2>2. CASE i > w
    <3>1. PICK j \in 1 .. FRAC : i = w + 1 + j
      <4>1. i - w - 1 \in 1 .. FRAC /\ i = w + 1 + (i - w - 1)
        BY <1>3, <1>5, <1>7, <2>2
      <4> QED BY <4>1
    <3> QED BY <1>3, <1>6, <3>1 DEF Digits
  <2>3. i <= w \/ i > w
    BY <1>3, <1>5
  <2> QED BY <2>1, <2>2, <2>3
<1>8. DotAt(u, w + 1)
  <2>1. w + 1 \in 2 .. Len(u)
    BY <1>3, <1>5
  <2> QED BY <1>3, <1>7, <2>1 DEF DotAt
<1>9. DoubleForm(u, FRAC)
  <2>1. FRAC = Len(u) - (w + 1)
    BY <1>3, <1>5
  <2> QED BY <1>8, <2>1 DEF DoubleForm
<1>10. ASSUME NEW k, DoubleForm(u, k) PROVE k = FRAC
  <2>1. w + 1 \in 1 .. Len(u) /\ ~IsDigit(u[w + 1])
    BY <1>3, <1>5, DigitIsNoDot
  <2>2. ~Digits(u)
    BY <2>1 DEF Digits
  <2>3. PICK d : DotAt(u, d) /\ k = Len(u) - d
    BY <1>10, <2>2 DEF DoubleForm
  <2>4. d = w + 1
    BY <2>1, <2>3 DEF DotAt
  <2> QED BY <1>3, <1>5, <2>3, <2>4
<1>11. DotPartial(u)[Len(u)] = Part(v) * Pow10[FRAC] + Fraction(v)
  BY <1>1, <1>2, <1>4, AfterDot
<1>12. Part(v) * Pow10[FRAC] + Fraction(v) = v.num
  <2>1. PICK n \in Nat, m \in Nat \ {0} : n = v.num /\ m = Pow10[FRAC]
    BY <1>4, PowIs
  <2>2. (n \div m) * m + (n % m) = n
    OBVIOUS
  <2> QED BY <2>1, <2>2 DEF Part, Fraction
<1>13. DoubleNum(FiniteText(v)) = IF v.neg THEN -v.num ELSE v.num
  BY <1>1, <1>2, <1>11, <1>12 DEF DoubleNum
<1> QED BY <1>2, <1>9, <1>10, <1>13

-----------------------------------------------------------------------------
(* The nine numbers in the text of a DateTime.                               *)

FieldValue(v, i) == IF i = 8 THEN Minutes(v.utc_offset) \div 60
                    ELSE IF i = 9 THEN Minutes(v.utc_offset) % 60
                    ELSE v.date[i]

\* digits of a fixed width are a numeral
LEMMA PadNumeral ==
  ASSUME NEW n \in Nat, NEW w \in 1 .. MAX_DIGITS, n < Pow10[w]
  PROVE  IsNumeral(Pad(n, w)) /\ Meaning(Pad(n, w)) = n
<1>1. w \in 0 .. MAX_DIGITS /\ w >= 1
  BY PowIs
<1>2. PICK p \in Seq(Nat) : p = Pad(n, w) /\ Len(p) = w /\ Digits(p) /\ Magnitude(p) = n
  BY <1>1, PadIs, PadMeaning
<1>3. p # <<>> /\ 1 \in 1 .. Len(p)
  BY <1>1, <1>2
<1>4. Head(p) = p[1] /\ IsDigit(p[1])
  BY <1>2, <1>3 DEF Digits
<1>5. Head(p) # MINUS /\ Head(p) # PLUS
  BY <1>4, DigitIsNoSign
<1>6. Unsigned(p) = p
  BY <1>5 DEF Unsigned
<1> QED BY <1>2, <1>3, <1>5, <1>6 DEF IsNumeral, Meaning

LEMMA SmallPowers == Pow10[2] = 100 /\ Pow10[4] = 10000 /\ Pow10[6] = 1000000
<1>1. Pow10[0] = 1 /\ \A i \in 0 .. MAX_DIGITS - 1 : Pow10[i + 1] = 10 * Pow10[i]
  BY PowIs
<1>2. \A i \in 0 .. 5 : i \in 0 .. MAX_DIGITS - 1
  BY DEF MAX_DIGITS
<1>3. \A i \in 0 .. 5 : Pow10[i + 1] = 10 * Pow10[i]
  BY <1>1, <1>2
<1>4. Pow10[0 + 1] = 10 * Pow10[0] /\ Pow10[1 + 1] = 10 * Pow10[1] /\ Pow10[2 + 1] = 10 * Pow10[2]
  BY <1>3
<1>5. Pow10[3 + 1] = 10 * Pow10[3] /\ Pow10[4 + 1] = 10 * Pow10[4] /\ Pow10[5 + 1] = 10 * Pow10[5]
  BY <1>3
<1>6. Pow10[1] = 10 /\ Pow10[2] = 100 /\ Pow10[3] = 1000
  BY <1>1, <1>4, SMTT(60)
<1>7. Pow10[4] = 10000 /\ Pow10[5] = 100000 /\ Pow10[6] = 1000000
  BY <1>5, <1>6, SMTT(60)
<1> QED BY <1>6, <1>7, SMTT(60)

\* the largest number of a field has the field's width
FieldFits(i, n) ==
  n \in Nat /\ n < Pow10[Fields[i].len] /\ n <= 999999 /\ Fields[i].len \in 1 .. MAX_DIGITS

LEMMA FieldHi ==
  ASSUME NEW i \in 1 .. 9, NEW n \in Int, InField(i, n)
  PROVE  FieldFits(i, n)
<1> USE DEF FieldFits
<1>1. 2 \in 1 .. MAX_DIGITS /\ 4 \in 1 .. MAX_DIGITS /\ 6 \in 1 .. MAX_DIGITS
  BY DEF MAX_DIGITS
<1>2. CASE i = 1
  <2>1. 1 <= n /\ n <= 9999 /\ Fields[i].len = 4
    BY <1>2, SMTT(60) DEF InField, Fields
  <2> QED BY <1>1, <2>1, SmallPowers, SMTT(60)
<1>3. CASE i = 7
  <2>1. 0 <= n /\ n <= 999999 /\ Fields[i].len = 6
    BY <1>3, SMTT(60) DEF InField, Fields
  <2> QED BY <1>1, <2>1, SmallPowers, SMTT(60)
<1>4. CASE i = 2 \/ i = 3
  <2>1. 1 <= n /\ n <= 31 /\ Fields[i].len = 2
    BY <1>4, SMTT(60) DEF InField, Fields
  <2> QED BY <1>1, <2>1, SmallPowers, SMTT(60)
<1>5. CASE i = 4 \/ i = 5 \/ i = 6 \/ i = 8 \/ i = 9
  <2>1. 0 <= n /\ n <= 59 /\ Fields[i].len = 2
    BY <1>5, SMTT(60) DEF InField, Fields
  <2> QED BY <1>1, <2>1, SmallPowers, SMTT(60)
<1> QED BY <1>2, <1>3, <1>4, <1>5, SMTT(60)

LEMMA FieldValueIs ==
  ASSUME NEW v \in DateTimes, ValidDateTime(v), NEW i \in 1 .. 9
  PROVE  FieldValue(v, i) \in Int /\ InField(i, FieldValue(v, i))
<1>1. PICK d \in [DateFields -> Int] : d = v.date
  BY ValuesAssumption, SMTT(60)
<1>2. PICK o : o = v.utc_offset /\ IsOffset(o)
  <2>1. IsOffset(v.utc_offset)
    BY <1>1, DateFieldIs, SMTT(60)
  <2> QED BY <2>1
<1>3. PICK h \in 0 .. 23, m \in 0 .. 59 : h = Minutes(o) \div 60 /\ m = Minutes(o) % 60
  BY <1>2, OffsetTextIs
<1>4. CASE i = 8
  <2>1. FieldValue(v, i) = h
    BY <1>2, <1>3, <1>4 DEF FieldValue
  <2>2. h \in Int /\ InField(8, h)
    BY <1>3, SMTT(60) DEF InField, Fields
  <2> QED BY <1>4, <2>1, <2>2
<1>5. CASE i = 9
  <2>1. FieldValue(v, i) = m
    BY <1>2, <1>3, <1>5 DEF FieldValue
  <2>2. m \in Int /\ InField(9, m)
    BY <1>3, SMTT(60) DEF InField, Fields
  <2> QED BY <1>5, <2>1, <2>2
<1>6. CASE i # 8 /\ i # 9
  <2>1. i \in DateFields /\ FieldValue(v, i) = d[i]
    BY <1>1, <1>6 DEF FieldValue, DateFields
  <2>2. d[i] \in Int /\ InField(i, d[i])
    BY <1>1, <2>1, SMTT(60) DEF ValidDateTime
  <2> QED BY <2>1, <2>2
<1> QED BY <1>4, <1>5, <1>6, SMTT(60)

\* a piece of a piece
LEMMA FieldNested ==
  ASSUME NEW t, NEW r \in Seq(Nat), NEW p \in Seq(Nat), NEW a, NEW b, NEW c, Plus(a, b, c),
         FieldAt(t, a, r), FieldAt(r, b, p), t \in Seq(Nat)
  PROVE  FieldAt(t, c, p)
<1>1. /\ a \in Nat /\ b \in Nat /\ c = a + b /\ Len(p) \in Nat /\ Len(r) \in Nat /\ Len(t) \in Nat
      /\ a + Len(r) <= Len(t) /\ b + Len(p) <= Len(r)
      /\ \A i \in 1 .. Len(r) : t[a + i] = r[i]
      /\ \A i \in 1 .. Len(p) : r[b + i] = p[i]
  BY DEF Plus, FieldAt
<1>2. ASSUME NEW i \in 1 .. Len(p) PROVE t[c + i] = p[i]
  <2>1. b + i \in 1 .. Len(r) /\ a + (b + i) = c + i
    BY <1>1
  <2>2. t[a + (b + i)] = r[b + i]
    BY <1>1, <2>1
  <2> QED BY <1>1, <2>1, <2>2
<1>3. c \in Nat /\ c + Len(p) <= Len(t)
  BY <1>1
<1> QED BY <1>2, <1>3 DEF FieldAt

SignOf(o) == IF o >= 0 THEN PLUS ELSE MINUS

LEMMA OffsetPieces ==
  ASSUME NEW o, IsOffset(o), NEW r, r = OffsetText(o)
  PROVE  /\ r \in Seq(Nat) /\ Len(r) = 6 /\ r[1] = SignOf(o)
         /\ FieldAt(r, 1, Pad(Minutes(o) \div 60, 2)) /\ FieldAt(r, 4, Pad(Minutes(o) % 60, 2))
<1>1. PICK x \in Nat, y \in Nat : x = Minutes(o) \div 60 /\ y = Minutes(o) % 60
  <2>1. PICK x \in 0 .. 23, y \in 0 .. 59 : x = Minutes(o) \div 60 /\ y = Minutes(o) % 60
    BY OffsetTextIs
  <2>2. x \in Nat /\ y \in Nat
    OBVIOUS
  <2> QED BY <2>1, <2>2, SMTT(60)
<1>2. PICK h, l : h = Pad(x, 2) /\ l = Pad(y, 2)
  OBVIOUS
<1>3. IsText(h, 2) /\ IsText(l, 2)
  BY <1>2, SmallPads
<1>4. PICK s \in Nat : s = SignOf(o)
  BY DEF PLUS, MINUS, SignOf
<1>5. PICK q : q = <<s>> \o h
  OBVIOUS
<1>6. IsText(q, 3) /\ FieldAt(q, 1, h) /\ FieldAt(q, 0, <<s>>)
  <2>1. IsText(<<s>>, 1)
    BY DEF IsText
  <2>2. PICK b : b = <<s>>
    OBVIOUS
  <2>3. (\E k : Plus(1, 2, k) /\ IsText(q, k)) /\ FieldAt(q, 1, h) /\ FieldAt(q, 0, b)
    BY <1>3, <1>5, <2>1, <2>2, JoinText
  <2> QED BY <2>2, <2>3 DEF Plus
<1>7. /\ IsText(r, 6) /\ FieldAt(r, 4, l) /\ Keeps(q, r)
  <2>1. COLON \in Nat
    BY DEF COLON
  <2>2. r = Extended(q, COLON, l)
    BY <1>1, <1>2, <1>4, <1>5, OffsetTextIs DEF Extended, SignOf
  <2>4. /\ Keeps(q, r)
        /\ \E a : Plus(3, 1, a) /\ FieldAt(r, a, l) /\ \E k : Plus(a, 2, k) /\ IsText(r, k)
    BY <1>3, <1>6, <2>1, <2>2, ExtendText
  <2> QED BY <2>4 DEF Plus
<1>8. FieldAt(r, 1, h) /\ FieldAt(r, 0, <<s>>)
  <2>1. h \in Seq(Nat) /\ <<s>> \in Seq(Nat)
    BY <1>3 DEF IsText
  <2> QED BY <1>6, <1>7, <2>1 DEF Keeps
<1>9. r[1] = s
  <2>1. Len(<<s>>) = 1 /\ <<s>>[1] = s
    OBVIOUS
  <2>2. 1 \in 1 .. Len(<<s>>) /\ 0 + 1 = 1
    BY <2>1
  <2>3. r[0 + 1] = <<s>>[1]
    BY <1>8, <2>2 DEF FieldAt
  <2> QED BY <2>1, <2>2, <2>3
<1> QED BY <1>1, <1>2, <1>4, <1>7, <1>8, <1>9 DEF IsText

\* the field that the loop reads is the piece that was written there
LEMMA FieldCut ==
  ASSUME text \in Seq(Nat), Len(text) = 32, NEW i \in 1 .. 9, NEW p \in Seq(Nat),
         Len(p) = Fields[i].len, FieldAt(text, Fields[i].at, p)
  PROVE  FieldText(i) = p
<1>1. PICK f \in Seq(Nat) : /\ f = FieldText(i) /\ Len(f) = Fields[i].len
                            /\ \A k \in 1 .. Fields[i].len : f[k] = text[Fields[i].at + k]
  BY FieldTextIs
<1>2. \A k \in 1 .. Fields[i].len : p[k] = text[Fields[i].at + k]
  BY DEF FieldAt
<1>3. \A k \in 1 .. Len(f) : f[k] = p[k]
  BY <1>1, <1>2
<1>4. f = p
  <2>1. Len(f) = Len(p)
    BY <1>1
  <2> QED BY <1>3, <2>1, SeqEqual
<1> QED BY <1>1, <1>4

LEMMA FieldNumbers ==
  /\ Fields[1].at = 0 /\ Fields[1].len = 4
  /\ Fields[2].at = 5 /\ Fields[2].len = 2
  /\ Fields[3].at = 8 /\ Fields[3].len = 2
  /\ Fields[4].at = 11 /\ Fields[4].len = 2
  /\ Fields[5].at = 14 /\ Fields[5].len = 2
  /\ Fields[6].at = 17 /\ Fields[6].len = 2
  /\ Fields[7].at = 20 /\ Fields[7].len = 6
  /\ Fields[8].at = 27 /\ Fields[8].len = 2
  /\ Fields[9].at = 30 /\ Fields[9].len = 2
<1>1. Fields[1].at = 0 /\ Fields[1].len = 4
  BY SMTT(60) DEF Fields
<1>2. Fields[2].at = 5 /\ Fields[2].len = 2
  BY SMTT(60) DEF Fields
<1>3. Fields[3].at = 8 /\ Fields[3].len = 2
  BY SMTT(60) DEF Fields
<1>4. Fields[4].at = 11 /\ Fields[4].len = 2
  BY SMTT(60) DEF Fields
<1>5. Fields[5].at = 14 /\ Fields[5].len = 2
  BY SMTT(60) DEF Fields
<1>6. Fields[6].at = 17 /\ Fields[6].len = 2
  BY SMTT(60) DEF Fields
<1>7. Fields[7].at = 20 /\ Fields[7].len = 6
  BY SMTT(60) DEF Fields
<1>8. Fields[8].at = 27 /\ Fields[8].len = 2
  BY SMTT(60) DEF Fields
<1>9. Fields[9].at = 30 /\ Fields[9].len = 2
  BY SMTT(60) DEF Fields
<1> QED BY <1>1, <1>2, <1>3, <1>4, <1>5, <1>6, <1>7, <1>8, <1>9

LEMMA DateTimeField ==
  ASSUME NEW v \in DateTimes, ValidDateTime(v), text = DateTimeText(v), NEW i \in 1 .. 9
  PROVE  /\ text \in Seq(Nat) /\ Len(text) = 32
         /\ SignByte = SignOf(v.utc_offset)
         /\ IsNumeral(FieldText(i)) /\ Meaning(FieldText(i)) = FieldValue(v, i)
<1>1. PICK p1, p2, p3, p4, p5, p6, p7, o \in Seq(Nat) :
        /\ p1 = Pad(v.date[1], 4) /\ p2 = Pad(v.date[2], 2) /\ p3 = Pad(v.date[3], 2)
        /\ p4 = Pad(v.date[4], 2) /\ p5 = Pad(v.date[5], 2) /\ p6 = Pad(v.date[6], 2)
        /\ p7 = Pad(v.date[7], 6) /\ o = OffsetText(v.utc_offset)
        /\ IsText(text, 32)
        /\ FieldAt(text, 0, p1) /\ FieldAt(text, 5, p2) /\ FieldAt(text, 8, p3)
        /\ FieldAt(text, 11, p4) /\ FieldAt(text, 14, p5) /\ FieldAt(text, 17, p6)
        /\ FieldAt(text, 20, p7) /\ FieldAt(text, 26, o)
  BY DateTimeTextIs
<1>2. text \in Seq(Nat) /\ Len(text) = 32
  BY <1>1 DEF IsText
<1>3. PICK off : off = v.utc_offset /\ IsOffset(off)
  <2>1. PICK d \in [DateFields -> Int] : d = v.date
    BY ValuesAssumption
  <2>2. IsOffset(v.utc_offset)
    BY <2>1, DateFieldIs
  <2> QED BY <2>2
<1>4. PICK h, l : h = Pad(Minutes(off) \div 60, 2) /\ l = Pad(Minutes(off) % 60, 2)
  OBVIOUS
<1>5. Len(o) = 6 /\ o[1] = SignOf(off) /\ FieldAt(o, 1, h) /\ FieldAt(o, 4, l)
  BY <1>1, <1>3, <1>4, OffsetPieces
<1>6. h \in Seq(Nat) /\ l \in Seq(Nat)
  <2>1. PICK x \in 0 .. 23, y \in 0 .. 59 : x = Minutes(off) \div 60 /\ y = Minutes(off) % 60
    BY <1>3, OffsetTextIs
  <2>2. x \in Nat /\ y \in Nat
    OBVIOUS
  <2> QED BY <1>4, <2>1, <2>2, SmallPads, SMTT(60) DEF IsText
<1>7. FieldAt(text, 27, h) /\ FieldAt(text, 30, l)
  <2>1. Plus(26, 1, 27) /\ Plus(26, 4, 30)
    BY DEF Plus
  <2>2. FieldAt(text, 26, o) /\ FieldAt(o, 1, h) /\ FieldAt(o, 4, l)
    BY <1>1, <1>5
  <2>3. FieldAt(text, 27, h)
    BY <1>2, <1>6, <2>1, <2>2, FieldNested, SMTT(60)
  <2>4. FieldAt(text, 30, l)
    BY <1>2, <1>6, <2>1, <2>2, FieldNested, SMTT(60)
  <2> QED BY <2>3, <2>4
<1>8. SignByte = SignOf(v.utc_offset)
  <2>1. 1 \in 1 .. Len(o) /\ 26 + 1 = 27
    BY <1>5
  <2>2. text[26 + 1] = o[1]
    BY <1>1, <2>1 DEF FieldAt
  <2> QED BY <1>3, <1>5, <2>1, <2>2 DEF SignByte
<1>9. PICK n : n = FieldValue(v, i)
  OBVIOUS
<1>10. n \in Int /\ InField(i, n)
  BY <1>9, FieldValueIs
<1>11. PICK w \in 1 .. MAX_DIGITS : w = Fields[i].len /\ n \in Nat /\ n < Pow10[w]
  <2>1. n \in Nat /\ n < Pow10[Fields[i].len] /\ Fields[i].len \in 1 .. MAX_DIGITS
    <3>1. FieldFits(i, n)
      BY <1>10, FieldHi
    <3> QED BY <3>1 DEF FieldFits
  <2> QED BY <2>1
<1>12. PICK p \in Seq(Nat) : p = Pad(n, w) /\ Len(p) = w
  <2>1. w \in 0 .. MAX_DIGITS
    BY PowIs
  <2> QED BY <1>11, <2>1, PadIs
<1>13. FieldAt(text, Fields[i].at, p)
  <2>1. CASE i = 1
    <3>1. Fields[i].at = 0 /\ w = 4
      BY <1>11, <2>1, FieldNumbers
    <3>2. n = v.date[1]
      BY <1>9, <2>1 DEF FieldValue
    <3>3. p = p1
      BY <1>1, <1>12, <3>1, <3>2
    <3> QED BY <1>1, <3>1, <3>3
  <2>2. CASE i = 2
    <3>1. Fields[i].at = 5 /\ w = 2
      BY <1>11, <2>2, FieldNumbers
    <3>2. n = v.date[2]
      BY <1>9, <2>2 DEF FieldValue
    <3>3. p = p2
      BY <1>1, <1>12, <3>1, <3>2
    <3> QED BY <1>1, <3>1, <3>3
  <2>3. CASE i = 3
    <3>1. Fields[i].at = 8 /\ w = 2
      BY <1>11, <2>3, FieldNumbers
    <3>2. n = v.date[3]
      BY <1>9, <2>3 DEF FieldValue
    <3>3. p = p3
      BY <1>1, <1>12, <3>1, <3>2
    <3> QED BY <1>1, <3>1, <3>3
  <2>4. CASE i = 4
    <3>1. Fields[i].at = 11 /\ w = 2
      BY <1>11, <2>4, FieldNumbers
    <3>2. n = v.date[4]
      BY <1>9, <2>4 DEF FieldValue
    <3>3. p = p4
      BY <1>1, <1>12, <3>1, <3>2
    <3> QED BY <1>1, <3>1, <3>3
  <2>5. CASE i = 5
    <3>1. Fields[i].at = 14 /\ w = 2
      BY <1>11, <2>5, FieldNumbers
    <3>2. n = v.date[5]
      BY <1>9, <2>5 DEF FieldValue
    <3>3. p = p5
      BY <1>1, <1>12, <3>1, <3>2
    <3> QED BY <1>1, <3>1, <3>3
  <2>6. CASE i = 6
    <3>1. Fields[i].at = 17 /\ w = 2
      BY <1>11, <2>6, FieldNumbers
    <3>2. n = v.date[6]
      BY <1>9, <2>6 DEF FieldValue
    <3>3. p = p6
      BY <1>1, <1>12, <3>1, <3>2
    <3> QED BY <1>1, <3>1, <3>3
  <2>7. CASE i = 7
    <3>1. Fields[i].at = 20 /\ w = 6
      BY <1>11, <2>7, FieldNumbers
    <3>2. n = v.date[7]
      BY <1>9, <2>7 DEF FieldValue
    <3>3. p = p7
      BY <1>1, <1>12, <3>1, <3>2
    <3> QED BY <1>1, <3>1, <3>3
  <2>8. CASE i = 8
    <3>1. Fields[i].at = 27 /\ w = 2
      BY <1>11, <2>8, FieldNumbers
    <3>2. n = Minutes(off) \div 60
      BY <1>3, <1>9, <2>8 DEF FieldValue
    <3>3. p = h
      BY <1>4, <1>12, <3>1, <3>2
    <3> QED BY <1>7, <3>1, <3>3
  <2>9. CASE i = 9
    <3>1. Fields[i].at = 30 /\ w = 2
      BY <1>11, <2>9, FieldNumbers
    <3>2. n = Minutes(off) % 60
      BY <1>3, <1>9, <2>9 DEF FieldValue
    <3>3. p = l
      BY <1>4, <1>12, <3>1, <3>2
    <3> QED BY <1>7, <3>1, <3>3
  <2> QED BY <2>1, <2>2, <2>3, <2>4, <2>5, <2>6, <2>7, <2>8, <2>9
<1>14. FieldText(i) = p
  BY <1>2, <1>11, <1>12, <1>13, FieldCut
<1>15. IsNumeral(p) /\ Meaning(p) = n
  BY <1>11, <1>12, PadNumeral
<1> QED BY <1>2, <1>8, <1>9, <1>14, <1>15

-----------------------------------------------------------------------------
(* What is in the box while a value that was put is got: the text it was put *)
(* as, and, in the loop over a DateTime, the numbers that were put.          *)

\* no finite double is cut off by amp_put_double's buffer
DoublesFit == \A v \in Doubles : Finite(v) => Len(FiniteText(v)) < DBL_BUF

Encodes(w, t) ==
  \/ w.type \in Integral /\ w.v \in RangeOf(w.type) /\ t = Decimal(w.v)
  \/ w.type = "bool" /\ w.v \in BOOLEAN /\ t = IF w.v THEN TrueText ELSE FalseText
  \/ w.type = "double" /\ w.v \in Doubles /\ Finite(w.v) /\ t = FiniteText(w.v)
  \/ w.type = "double" /\ \E s \in Specials : s.kind = w.v.kind /\ t = s.text
  \/ w.type = "datetime" /\ w.v \in DateTimes /\ ValidDateTime(w.v) /\ t = DateTimeText(w.v)
  \/ w.type = "bytes" /\ t = w.v

PutIs == put # Nothing => \E w : put = <<w>> /\ Encodes(w, text)

PlainDecodes(ty, t, e, v) ==
  /\ ty = "bytes" => e = "OK" /\ v = <<t>>
  /\ ty = "bool" /\ t = TrueText => e = "OK" /\ v = <<TRUE>>
  /\ ty = "bool" /\ t = FalseText => e = "OK" /\ v = <<FALSE>>
PlainExact == pc = "done" => PlainDecodes(type, text, err, value)

IsDateOf(v, t) == v \in DateTimes /\ ValidDateTime(v) /\ t = DateTimeText(v)
DateScan ==
  (pc = "reading" /\ type = "datetime") =>
    \A v : IsDateOf(v, text) => \A i \in 1 .. field - 1 : dt[i] = FieldValue(v, i)
DateExact ==
  (pc = "done" /\ type = "datetime") => \A v : IsDateOf(v, text) => err = "OK" /\ value = <<v>>

Kept == PutIs /\ PlainExact /\ DateScan /\ DateExact

LEMMA PutIsNext ==
  ASSUME PutIs, text' = text, put' = put
  PROVE  PutIs'
BY DEF PutIs

\* a step that ends in no DateTime's loop and with no answer of the other types
LEMMA KeptElsewhere ==
  ASSUME PutIs',
         pc' \in {"empty", "stored"} \/ type' \in Integral \cup {"none", "double"}
           \/ (pc' = "reading" /\ type' # "datetime")
  PROVE  Kept'
<1>1. \A t \in Integral \cup {"none", "double"} : t # "bytes" /\ t # "bool" /\ t # "datetime"
  BY DEF Integral
<1>2. PlainExact'
  BY <1>1 DEF PlainExact, PlainDecodes
<1>3. DateScan' /\ DateExact'
  BY <1>1 DEF DateScan, DateExact
<1> QED BY <1>2, <1>3 DEF Kept

LEMMA TrueIsNotFalse == TrueText # FalseText
<1>1. Len(TrueText) = 4 /\ Len(FalseText) = 5
  BY DEF TrueText, FalseText
<1> QED BY <1>1

LEMMA FiniteBytesAre ==
  ASSUME NEW t \in Seq(Nat), Len(t) < DBL_BUF, NEW byte \in Nat
  PROVE  FiniteBytes(t, byte) = t
<1>1. DBL_BUF \in Nat /\ Len(t) \in Nat
  BY TypesAssumption
<1>2. \A i \in 1 .. Len(t) : (IF i < DBL_BUF THEN t[i] ELSE IF i = DBL_BUF THEN 0 ELSE byte) = t[i]
  BY <1>1
<1>3. FiniteBytes(t, byte) = [i \in 1 .. Len(t) |-> t[i]]
  BY <1>2 DEF FiniteBytes
<1> QED BY <1>3

LEMMA StoreKept ==
  ASSUME NEW t, NEW v, NEW b, Store(t, v, b), Encodes([type |-> t, v |-> v], b)
  PROVE  Kept'
<1>1. pc' = "stored" /\ put' = << [type |-> t, v |-> v] >> /\ text' = b
  BY DEF Store
<1>2. PutIs'
  BY <1>1 DEF PutIs
<1> QED BY <1>1, <1>2, KeptElsewhere

LEMMA PutKept == ASSUME DoublesFit, Kept, Put PROVE Kept'
<1>1. ASSUME NEW t \in Integral, NEW n \in Numbers, PutInteger(t, n) PROVE Kept'
  <2>1. n \in RangeOf(t) /\ Store(t, n, Printed(Decimal(n), BufLen(t)))
    BY <1>1 DEF PutInteger
  <2>2. Store(t, n, Decimal(n))
    BY <2>1, NumberFits
  <2>3. Encodes([type |-> t, v |-> n], Decimal(n))
    BY <2>1 DEF Encodes
  <2> QED BY <2>2, <2>3, StoreKept
<1>2. ASSUME NEW b \in BOOLEAN, PutBool(b) PROVE Kept'
  <2>1. PICK t : t = IF b THEN TrueText ELSE FalseText
    OBVIOUS
  <2>2. Encodes([type |-> "bool", v |-> b], t)
    BY <2>1 DEF Encodes
  <2>3. Store("bool", b, t)
    BY <1>2, <2>1 DEF PutBool
  <2> QED BY <2>2, <2>3, StoreKept
<1>3. ASSUME NEW v \in Doubles, PutDouble(v) PROVE Kept'
  <2>1. ASSUME Finite(v), NEW byte \in {0, ZERO}, Store("double", v, FiniteBytes(FiniteText(v), byte))
        PROVE  Kept'
    <3>1. FiniteText(v) \in Seq(Nat) /\ Len(FiniteText(v)) < DBL_BUF /\ byte \in Nat
      BY <2>1, FiniteTextIs DEF DoublesFit, ZERO
    <3>2. FiniteBytes(FiniteText(v), byte) = FiniteText(v)
      BY <3>1, FiniteBytesAre
    <3>3. Store("double", v, FiniteText(v))
      BY <2>1, <3>2
    <3>4. Encodes([type |-> "double", v |-> v], FiniteText(v))
      BY <2>1 DEF Encodes
    <3> QED BY <3>3, <3>4, StoreKept
  <2>2. ASSUME NEW s \in Specials, s.kind = v.kind, Store("double", v, s.text)
        PROVE  Kept'
    <3>1. Encodes([type |-> "double", v |-> v], s.text)
      BY <2>2 DEF Encodes
    <3> QED BY <2>2, <3>1, StoreKept
  <2> QED BY <1>3, <2>1, <2>2 DEF PutDouble
<1>4. ASSUME NEW v \in DateTimes, PutDateTime(v) PROVE Kept'
  <2>1. ValidDateTime(v) /\ Store("datetime", v, DateTimeText(v))
    BY <1>4 DEF PutDateTime
  <2>2. Encodes([type |-> "datetime", v |-> v], DateTimeText(v))
    BY <2>1 DEF Encodes
  <2> QED BY <2>1, <2>2, StoreKept
<1>5. ASSUME NEW v \in DateTimes, PutDateTimeRefused(v) PROVE Kept'
  <2>1. text' = text /\ put' = put /\ type' = "none"
    BY <1>5 DEF PutDateTimeRefused
  <2> QED BY <2>1, PutIsNext, KeptElsewhere DEF Kept
<1>6. ASSUME NEW t \in Texts, PutBytes(t) PROVE Kept'
  <2>1. Encodes([type |-> "bytes", v |-> t], t)
    BY DEF Encodes
  <2> QED BY <1>6, <2>1, StoreKept DEF PutBytes
<1> QED BY <1>1, <1>2, <1>3, <1>4, <1>5, <1>6 DEF Put

\* a get that answers at once
LEMMA ReturnKept ==
  ASSUME Kept, NEW code, NEW v, Return(code, v),
         PlainDecodes(type', text, code, v),
         type' # "datetime" \/ (\A d : IsDateOf(d, text) => code = "OK" /\ v = <<d>>)
  PROVE  Kept'
<1>1. pc' = "done" /\ err' = code /\ value' = v /\ text' = text /\ put' = put
  BY DEF Return
<1>2. PutIs'
  BY <1>1, PutIsNext DEF Kept
<1>3. PlainExact'
  BY <1>1 DEF PlainExact
<1>4. DateScan' /\ DateExact'
  BY <1>1 DEF DateScan, DateExact
<1> QED BY <1>2, <1>3, <1>4 DEF Kept

LEMMA GetKept == ASSUME Kept, Get PROVE Kept'
<1>0. PutIs
  BY DEF Kept
<1>1. CASE GetMissing
  <2>1. text' = text /\ put' = put /\ type' = "none"
    BY <1>1 DEF GetMissing, Return
  <2> QED BY <1>0, <2>1, PutIsNext, KeptElsewhere
<1>2. CASE GetBytes
  <2>1. type' = "bytes" /\ Return("OK", <<text>>)
    BY <1>2 DEF GetBytes
  <2>2. PlainDecodes(type', text, "OK", <<text>>)
    BY <2>1 DEF PlainDecodes
  <2>3. type' # "datetime"
    BY <2>1
  <2> QED BY <2>1, <2>2, <2>3, ReturnKept
<1>3. CASE GetBool
  <2>1. type' = "bool" /\ type' # "datetime"
    BY <1>3 DEF GetBool
  <2>2. CASE text = TrueText
    <3>1. Return("OK", <<TRUE>>)
      BY <1>3, <2>2, TrueIsNotFalse DEF GetBool
    <3>2. PlainDecodes(type', text, "OK", <<TRUE>>)
      BY <2>1, <2>2, TrueIsNotFalse DEF PlainDecodes
    <3> QED BY <2>1, <3>1, <3>2, ReturnKept
  <2>3. CASE text = FalseText
    <3>1. Return("OK", <<FALSE>>)
      BY <1>3, <2>3, TrueIsNotFalse DEF GetBool
    <3>2. PlainDecodes(type', text, "OK", <<FALSE>>)
      BY <2>1, <2>3, TrueIsNotFalse DEF PlainDecodes
    <3> QED BY <2>1, <3>1, <3>2, ReturnKept
  <2>4. CASE text # TrueText /\ text # FalseText
    <3>1. Return("AMP_DECODE_ERROR", value)
      BY <1>3, <2>4 DEF GetBool
    <3>2. PlainDecodes(type', text, "AMP_DECODE_ERROR", value)
      BY <2>1, <2>4 DEF PlainDecodes
    <3> QED BY <2>1, <3>1, <3>2, ReturnKept
  <2> QED BY <2>2, <2>3, <2>4
<1>4. ASSUME NEW t \in Integral, GetInteger(t) \/ GetIntegerEmpty(t) PROVE Kept'
  <2>1. text' = text /\ put' = put /\ type' = t
    BY <1>4 DEF GetInteger, GetIntegerEmpty, Return
  <2>2. type' \in Integral \cup {"none", "double"}
    BY <1>4, <2>1
  <2> QED BY <1>0, <2>1, <2>2, PutIsNext, KeptElsewhere
<1>5. CASE GetDouble \/ GetDoubleEmpty \/ GetDoubleSpecial
  <2>1. text' = text /\ put' = put /\ type' = "double"
    BY <1>5 DEF GetDouble, GetDoubleEmpty, GetDoubleSpecial, Return
  <2> QED BY <1>0, <2>1, PutIsNext, KeptElsewhere
<1>6. CASE GetDateTime
  <2>1. text' = text /\ put' = put /\ type' = "datetime" /\ pc' = "reading" /\ field' = 1
    BY <1>6 DEF GetDateTime
  <2>2. PutIs'
    BY <1>0, <2>1, PutIsNext
  <2>3. PlainExact' /\ DateExact'
    BY <2>1 DEF PlainExact, DateExact
  <2>4. \A i : i \notin 1 .. 1 - 1
    OBVIOUS
  <2>5. DateScan'
    BY <2>1, <2>4 DEF DateScan
  <2> QED BY <2>2, <2>3, <2>5 DEF Kept
<1>7. CASE GetDateTimeWrongSize
  <2>1. Len(text) # 32 /\ type' = "datetime" /\ Return("AMP_DECODE_ERROR", value)
    BY <1>7 DEF GetDateTimeWrongSize, AMP_DT_SIZE
  <2>2. \A d : ~IsDateOf(d, text)
    BY <2>1, DateTimeTextIs DEF IsDateOf, IsText
  <2>3. PlainDecodes(type', text, "AMP_DECODE_ERROR", value)
    BY <2>1 DEF PlainDecodes
  <2> QED BY <2>1, <2>2, <2>3, ReturnKept
<1> QED BY <1>1, <1>2, <1>3, <1>4, <1>5, <1>6, <1>7 DEF Get

\* what the loop over a DateTime is reading, and must find
LEMMA DateReads ==
  ASSUME Typed, Inv, Exact, pc = "reading", type = "datetime", NEW v, IsDateOf(v, text)
  PROVE  \E n, t, k :
           /\ n \in Int /\ field \in 1 .. 9 /\ n = FieldValue(v, field) /\ InField(field, n)
           /\ t = FieldText(field)
           /\ Reads(t, k, rest, neg, any, acc)
           /\ IsNumeral(t) /\ Meaning(t) = n
<1>1. field \in 1 .. 9
  BY DEF Inv, FieldsRead
<1>2. v \in DateTimes /\ ValidDateTime(v) /\ text = DateTimeText(v)
  BY DEF IsDateOf
<1>3. PICK t : t = FieldText(field)
  OBVIOUS
<1>4. \E k : Reads(t, k, rest, neg, any, acc)
  BY <1>3 DEF Exact, NumberScan, NumberText
<1>5. PICK n : n = FieldValue(v, field)
  OBVIOUS
<1>6. IsNumeral(t) /\ Meaning(t) = n
  BY <1>1, <1>2, <1>3, <1>5, DateTimeField
<1>7. n \in Int /\ InField(field, n)
  BY <1>1, <1>2, <1>5, FieldValueIs
<1> QED BY <1>1, <1>3, <1>4, <1>5, <1>6, <1>7

\* buftoll fails on no field of a DateTime that was put
LEMMA FailKept ==
  ASSUME Kept, NEW code, NumberFails(code), type \in Integral \cup {"datetime"},
         type = "datetime" => \A v : ~IsDateOf(v, text)
  PROVE  Kept'
<1>1. pc' = "done" /\ type' = type /\ text' = text /\ put' = put
  BY DEF NumberFails
<1>2. PutIs'
  BY <1>1, PutIsNext DEF Kept
<1>3. CASE type \in Integral
  BY <1>1, <1>2, <1>3, KeptElsewhere
<1>4. CASE type = "datetime"
  <2>1. PlainExact' /\ DateScan' /\ DateExact'
    BY <1>1, <1>4 DEF PlainExact, PlainDecodes, DateScan, DateExact
  <2> QED BY <1>2, <2>1 DEF Kept
<1> QED BY <1>3, <1>4

LEMMA DigitTooBigKept == ASSUME Typed, Inv, Exact, Kept, DigitTooBig PROVE Kept'
<1>1. /\ pc = "reading" /\ type \in Integral \cup {"datetime"} /\ rest # <<>> /\ IsDigit(Head(rest))
      /\ TooBig(Head(rest) - ZERO) /\ NumberFails("AMP_OUT_OF_RANGE")
  BY DEF DigitTooBig, Loop
<1>2. PICK c : c = Head(rest) - ZERO
  OBVIOUS
<1>3. ASSUME type = "datetime", NEW v, IsDateOf(v, text) PROVE FALSE
  <2>1. PICK n, t, k : /\ n \in Int /\ field \in 1 .. 9 /\ n = FieldValue(v, field) /\ InField(field, n)
                       /\ Reads(t, k, rest, neg, any, acc)
                       /\ IsNumeral(t) /\ Meaning(t) = n
    BY <1>1, <1>3, DateReads
  <2>2. /\ acc \in Int /\ c \in 0 .. 9
        /\ neg  => n <= acc * 10 - c
        /\ ~neg => n >= acc * 10 + c
    BY <1>1, <1>2, <2>1, ReadsBelow
  <2>3. neg \in BOOLEAN /\ TooBig(c)
    BY <1>1, <1>2 DEF Typed, TypeOK
  <2>4. ~(n \in LLONG_MIN .. LLONG_MAX)
    BY <2>1, <2>2, <2>3, TooBigIs
  <2>5. FieldFits(field, n)
    <3>1. PICK m \in Int, i \in 1 .. 9 : m = n /\ i = field /\ InField(i, m)
      BY <2>1
    <3>2. FieldFits(i, m)
      BY <3>1, FieldHi
    <3> QED BY <3>1, <3>2
  <2>6. LLONG_MIN <= n /\ n <= LLONG_MAX /\ LLONG_MIN \in Int
    <3>1. n \in Nat /\ n <= 999999
      BY <2>5 DEF FieldFits
    <3> QED BY <3>1, TypesAssumption DEF LLONG_MIN
  <2>7. n \in Int /\ LLONG_MAX \in Int
    BY <2>1, TypesAssumption
  <2>8. n \in LLONG_MIN .. LLONG_MAX
    BY <2>6, <2>7
  <2> QED BY <2>4, <2>8
<1> QED BY <1>1, <1>3, FailKept

LEMMA NotANumberKept == ASSUME Typed, Inv, Exact, Kept, NotANumber PROVE Kept'
<1>1. /\ pc = "reading" /\ type \in Integral \cup {"datetime"}
      /\ IF rest = <<>> THEN ~any ELSE ~IsDigit(Head(rest))
      /\ NumberFails("AMP_DECODE_ERROR")
  BY DEF NotANumber, Loop
<1>2. ASSUME type = "datetime", NEW v, IsDateOf(v, text) PROVE FALSE
  <2>1. PICK t, k : Reads(t, k, rest, neg, any, acc) /\ IsNumeral(t)
    BY <1>1, <1>2, DateReads
  <2> QED BY <1>1, <2>1, ReadsNoNumeral
<1> QED BY <1>1, <1>2, FailKept

\* the field just read is the one that was put
LEMMA FieldIsRead ==
  ASSUME Typed, Inv, Exact, pc = "reading", type = "datetime", rest = <<>>, any,
         NEW v, IsDateOf(v, text)
  PROVE  acc = FieldValue(v, field) /\ InField(field, acc)
<1>1. PICK n, t, k : /\ n \in Int /\ n = FieldValue(v, field) /\ InField(field, n)
                     /\ Reads(t, k, rest, neg, any, acc) /\ Meaning(t) = n
  BY DateReads
<1>2. any = TRUE
  BY DEF Typed, TypeOK
<1>3. Reads(t, k, <<>>, neg, TRUE, acc)
  BY <1>1, <1>2
<1>4. Meaning(t) = acc
  BY <1>3, ReadsAll
<1> QED BY <1>1, <1>4

LEMMA FieldOutOfRangeKept == ASSUME Typed, Inv, Exact, Kept, FieldOutOfRange PROVE Kept'
<1>1. /\ pc = "reading" /\ type = "datetime" /\ rest = <<>> /\ any /\ ~InField(field, acc)
      /\ NumberFails("AMP_OUT_OF_RANGE")
  BY DEF FieldOutOfRange, Loop, FieldOK
<1>2. \A v : ~IsDateOf(v, text)
  BY <1>1, FieldIsRead
<1> QED BY <1>1, <1>2, FailKept

LEMMA NextFieldKept == ASSUME Typed, Inv, Exact, Kept, NextField PROVE Kept'
<1>1. /\ pc = "reading" /\ type = "datetime" /\ rest = <<>> /\ any /\ field < 9
      /\ dt' = Append(dt, acc) /\ field' = field + 1
      /\ pc' = pc /\ type' = type /\ text' = text /\ put' = put
  BY SMTT(60) DEF NextField, Loop, Fields
<1>2. field \in 1 .. 9 /\ dt \in Seq(Int) /\ Len(dt) = field - 1
  BY <1>1 DEF Inv, FieldsRead
<1>3. acc \in Int
  BY DEF Typed, TypeOK
<1>4. \A i \in 1 .. field - 1 : dt'[i] = dt[i]
  BY <1>1, <1>2, <1>3
<1>5. dt'[field] = acc
  BY <1>1, <1>2, <1>3
<1>6. ASSUME NEW v, IsDateOf(v, text), NEW i \in 1 .. field' - 1 PROVE dt'[i] = FieldValue(v, i)
  <2>1. CASE i = field
    BY <1>1, <1>5, <1>6, <2>1, FieldIsRead
  <2>2. CASE i # field
    <3>1. i \in 1 .. field - 1
      BY <1>1, <1>2, <1>6, <2>2
    <3>2. dt[i] = FieldValue(v, i)
      BY <1>1, <1>6, <3>1 DEF Kept, DateScan
    <3> QED BY <1>4, <3>1, <3>2
  <2> QED BY <2>1, <2>2
<1>7. DateScan'
  BY <1>1, <1>6 DEF DateScan
<1>8. PutIs'
  BY <1>1, PutIsNext DEF Kept
<1>9. PlainExact' /\ DateExact'
  BY <1>1 DEF PlainExact, DateExact
<1> QED BY <1>7, <1>8, <1>9 DEF Kept

LEMMA MinutesOf ==
  ASSUME NEW o, IsOffset(o), NEW h, NEW m, h = Minutes(o) \div 60, m = Minutes(o) % 60
  PROVE  /\ h \in Int /\ m \in Int
         /\ SignOf(o) = PLUS  => h * 60 + m = o
         /\ SignOf(o) = MINUS => -(h * 60 + m) = o
         /\ SignOf(o) = PLUS \/ SignOf(o) = MINUS
<1>1. o \in Int
  BY OffsetIs
<1>2. PICK x \in Nat : x = Minutes(o) /\ (o < 0 => x = -o) /\ (o >= 0 => x = o)
  BY <1>1 DEF Minutes
<1>3. h \in Int /\ m \in Int /\ h * 60 + m = x
  BY <1>2
<1>4. PLUS # MINUS
  BY DEF PLUS, MINUS
<1>5. CASE o >= 0
  <2>1. SignOf(o) = PLUS
    BY <1>5 DEF SignOf
  <2> QED BY <1>2, <1>3, <1>4, <1>5, <2>1
<1>6. CASE o < 0
  <2>1. SignOf(o) = MINUS
    BY <1>1, <1>6 DEF SignOf
  <2>2. -x = o
    BY <1>1, <1>2, <1>6
  <2> QED BY <1>3, <1>4, <2>1, <2>2
<1> QED BY <1>1, <1>5, <1>6

LEMMA LastFieldKept == ASSUME Typed, Inv, Exact, Kept, LastField PROVE Kept'
<1>1. /\ pc = "reading" /\ type = "datetime" /\ rest = <<>> /\ any /\ field = 9 /\ type' = "datetime"
  BY SMTT(60) DEF LastField, Loop, Fields
<1>2. dt \in Seq(Int) /\ Len(dt) = 8
  BY <1>1 DEF Inv, FieldsRead
<1> DEFINE minutes == dt[8] * 60 + acc
           got(o)  == << [date |-> SubSeq(dt, 1, 7), utc_offset |-> o] >>
<1>3. /\ SignByte = PLUS => Return("OK", got(minutes))
      /\ SignByte = MINUS => Return("OK", got(-minutes))
      /\ \E code, v : Return(code, v)
  <2>1. PLUS # MINUS
    BY DEF PLUS, MINUS
  <2> QED BY <2>1 DEF LastField
<1>4. pc' = "done" /\ text' = text /\ put' = put
  BY <1>3 DEF Return
<1>5. ASSUME NEW v, IsDateOf(v, text) PROVE err' = "OK" /\ value' = <<v>>
  <2>1. v \in DateTimes /\ ValidDateTime(v) /\ text = DateTimeText(v)
    BY <1>5 DEF IsDateOf
  <2>2. PICK d \in [DateFields -> Int], o \in Int : v = [date |-> d, utc_offset |-> o]
    BY <2>1, ValuesAssumption
  <2>3. d = v.date /\ o = v.utc_offset
    BY <2>2
  <2>4. IsOffset(o)
    BY <2>1, <2>3, DateFieldIs
  <2>5. \A i \in 1 .. 8 : dt[i] = FieldValue(v, i)
    BY <1>1, <1>5 DEF Kept, DateScan
  <2>6. acc = FieldValue(v, 9)
    BY <1>1, <1>5, FieldIsRead
  <2>7. PICK h, m : h = Minutes(o) \div 60 /\ m = Minutes(o) % 60
    OBVIOUS
  <2>8. dt[8] = h /\ acc = m
    <3>1. dt[8] = FieldValue(v, 8)
      BY <2>5
    <3>2. FieldValue(v, 8) = h /\ FieldValue(v, 9) = m
      BY <2>3, <2>7 DEF FieldValue
    <3> QED BY <2>6, <3>1, <3>2
  <2>9. SubSeq(dt, 1, 7) = d
    <3>1. \A i \in 1 .. 7 : FieldValue(v, i) = d[i]
      BY <2>3 DEF FieldValue
    <3>2. PICK s : s = SubSeq(dt, 1, 7)
      OBVIOUS
    <3>3. s = [i \in 1 .. 7 |-> dt[i]]
      BY <1>2, <3>2
    <3>4. \A i \in 1 .. 7 : dt[i] = d[i]
      BY <2>5, <3>1
    <3>5. d = [i \in 1 .. 7 |-> d[i]]
      BY DEF DateFields
    <3> QED BY <3>2, <3>3, <3>4, <3>5
  <2>10. SignByte = SignOf(o)
    <3>1. 1 \in 1 .. 9
      OBVIOUS
    <3> QED BY <2>1, <2>3, <3>1, DateTimeField
  <2>11. got(o) = <<v>>
    BY <2>2, <2>9
  <2>12. /\ SignOf(o) = PLUS  => minutes = o
         /\ SignOf(o) = MINUS => -minutes = o
         /\ SignOf(o) = PLUS \/ SignOf(o) = MINUS
    <3>1. /\ SignOf(o) = PLUS  => h * 60 + m = o
          /\ SignOf(o) = MINUS => -(h * 60 + m) = o
          /\ SignOf(o) = PLUS \/ SignOf(o) = MINUS
      BY <2>4, <2>7, MinutesOf
    <3> QED BY <2>8, <3>1
  <2> HIDE DEF minutes, got
  <2>13. Return("OK", got(o))
    BY <1>3, <2>10, <2>12
  <2> QED BY <2>11, <2>13 DEF Return
<1>6. DateExact'
  BY <1>4, <1>5 DEF DateExact
<1>7. PutIs'
  BY <1>4, PutIsNext DEF Kept
<1>8. PlainExact' /\ DateScan'
  BY <1>1, <1>4 DEF PlainExact, PlainDecodes, DateScan
<1> QED BY <1>6, <1>7, <1>8 DEF Kept

LEMMA StepKept == ASSUME Typed, Inv, Exact, Kept, Step PROVE Kept'
<1>0. PutIs
  BY DEF Kept
<1>1. CASE ReadDigit
  <2>1. /\ pc = "reading" /\ pc' = pc /\ type' = type /\ text' = text /\ put' = put
        /\ field' = field /\ dt' = dt
    BY <1>1 DEF ReadDigit, Loop
  <2>2. PutIs'
    BY <1>0, <2>1, PutIsNext
  <2>3. DateScan'
    BY <2>1 DEF Kept, DateScan
  <2>4. PlainExact' /\ DateExact'
    BY <2>1 DEF PlainExact, DateExact
  <2> QED BY <2>2, <2>3, <2>4 DEF Kept
<1>2. CASE IntegerRead \/ ReadDoubleDigit \/ ReadDot \/ DoubleRefused \/ DoubleRead
  <2>1. type' = type /\ type \in Integral \cup {"double"} /\ text' = text /\ put' = put
    BY <1>2 DEF IntegerRead, ReadDoubleDigit, ReadDot, DoubleRefused, DoubleRead, Loop, Return
  <2>2. type' \in Integral \cup {"none", "double"}
    BY <2>1
  <2> QED BY <1>0, <2>1, <2>2, PutIsNext, KeptElsewhere
<1> QED
  BY <1>1, <1>2, DigitTooBigKept, NotANumberKept, FieldOutOfRangeKept, NextFieldKept,
     LastFieldKept DEF Step

LEMMA NextKept == ASSUME DoublesFit, Typed, Inv, Exact, Kept, [Next]_vars PROVE Kept'
<1>1. CASE FreeBox
  <2>1. pc' = "empty" /\ put' = Nothing
    BY <1>1 DEF FreeBox
  <2>2. PutIs'
    BY <2>1 DEF PutIs
  <2> QED BY <2>1, <2>2, KeptElsewhere
<1>2. CASE UNCHANGED vars
  <2>1. UNCHANGED <<pc, type, text, field, dt, err, value, put>>
    BY <1>2 DEF vars
  <2>2. PutIs'
    BY <2>1, PutIsNext DEF Kept
  <2>3. PlainExact' /\ DateScan' /\ DateExact'
    BY <2>1 DEF Kept, PlainExact, DateScan, DateExact
  <2> QED BY <2>2, <2>3 DEF Kept
<1> QED BY <1>1, <1>2, PutKept, GetKept, StepKept DEF Next

\* no number reads as a special value, and no special value as another one
LEMMA SpecialTexts ==
  /\ \A s, r \in Specials : s.text = r.text => s.kind = r.kind
  /\ \A s \in Specials : s.kind # "finite" /\ s.text \in Seq(Nat)
  /\ \A s \in Specials : ~\E d : DotAt(Unsigned(s.text), d)
<1>1. PICK it, nt, mt : it = InfText /\ nt = NanText /\ mt = <<MINUS>> \o InfText
  OBVIOUS
<1>2. /\ it \in Seq(Nat) /\ Len(it) = 3 /\ it[1] = 105 /\ it[2] = 110 /\ it[3] = 102
      /\ nt \in Seq(Nat) /\ Len(nt) = 3 /\ nt[1] = 110 /\ nt[2] = 97 /\ nt[3] = 110
  BY <1>1 DEF InfText, NanText
<1>3. /\ mt \in Seq(Nat) /\ Len(mt) = 4 /\ mt[1] = MINUS
      /\ mt[2] = 105 /\ mt[3] = 110 /\ mt[4] = 102
  <2>1. PICK m \in Seq(Nat) : m = <<MINUS>> /\ Len(m) = 1 /\ m[1] = MINUS
    <3>1. \A c \in Nat : <<c>> \in Seq(Nat) /\ Len(<<c>>) = 1 /\ <<c>>[1] = c
      OBVIOUS
    <3> QED BY <3>1 DEF MINUS
  <2>2. /\ mt \in Seq(Nat) /\ Len(mt) = Len(m) + Len(it)
        /\ \A i \in 1 .. Len(m) : mt[i] = m[i]
        /\ \A i \in 1 .. Len(it) : mt[Len(m) + i] = it[i]
    <3>1. it \in Seq(Nat) /\ m \in Seq(Nat) /\ mt = m \o it
      BY <1>1, <1>2, <2>1
    <3> QED BY ONLY <3>1, BytesOfJoin
  <2>3. \A i \in 1 .. 3 : mt[1 + i] = it[i]
    BY <1>2, <2>1, <2>2, SMTT(60)
  <2>4. mt[1 + 1] = it[1] /\ mt[1 + 2] = it[2] /\ mt[1 + 3] = it[3]
    BY <2>3
  <2> QED BY <1>2, <2>1, <2>2, <2>4
<1>4. it # nt /\ it # mt /\ nt # mt
  BY <1>2, <1>3, SMTT(60)
<1>5. \A s \in Specials : \/ s.text = it /\ s.kind = "inf"
                          \/ s.text = nt /\ s.kind = "nan"
                          \/ s.text = mt /\ s.kind = "-inf"
  BY <1>1 DEF Specials
<1>6. ASSUME NEW t \in Seq(Nat), \A i \in 2 .. Len(t) : t[i] \in {97, 102, 110, 105}, t # <<>>,
             NEW d, DotAt(Unsigned(t), d)
      PROVE  FALSE
  <2>1. PICK u : u = Unsigned(t)
    OBVIOUS
  <2>2. PICK o \in 0 .. 1 : Len(u) = Len(t) - o /\ \A i \in 1 .. Len(t) - o : u[i] = t[i + o]
    BY <1>6, <2>1, UnsignedAt, SMTT(60)
  <2>3. d \in 2 .. Len(u) /\ u[d] = DOT
    BY <1>6, <2>1 DEF DotAt
  <2>4. d + o \in 2 .. Len(t) /\ d \in 1 .. Len(t) - o
    BY <2>2, <2>3, SMTT(60)
  <2>5. t[d + o] = DOT
    BY <2>2, <2>3, <2>4
  <2> QED BY <1>6, <2>4, <2>5 DEF DOT
<1>7. ASSUME NEW d PROVE ~DotAt(Unsigned(it), d) /\ ~DotAt(Unsigned(nt), d) /\ ~DotAt(Unsigned(mt), d)
  <2>1. it # <<>> /\ \A i \in 2 .. Len(it) : it[i] \in {97, 102, 110, 105}
    BY <1>2
  <2>2. nt # <<>> /\ \A i \in 2 .. Len(nt) : nt[i] \in {97, 102, 110, 105}
    BY <1>2
  <2>3. mt # <<>> /\ \A i \in 2 .. Len(mt) : mt[i] \in {97, 102, 110, 105}
    BY <1>3, SMTT(60)
  <2> QED BY <1>2, <1>3, <1>6, <2>1, <2>2, <2>3, ZenonT(120)
<1>8. \A s, r \in Specials : s.text = r.text => s.kind = r.kind
  BY <1>4, <1>5
<1>9. \A s \in Specials : s.kind # "finite" /\ s.text \in Seq(Nat)
  BY <1>2, <1>3, <1>5, ZenonT(120)
<1>10. \A s \in Specials : ~\E d : DotAt(Unsigned(s.text), d)
  BY <1>5, <1>7
<1> QED BY <1>8, <1>9, <1>10

LEMMA FiniteIsNotSpecial == \A v \in Doubles : Finite(v) => ~IsSpecial(FiniteText(v))
<1>1. ASSUME NEW v \in Doubles, Finite(v), NEW s \in Specials, s.text = FiniteText(v) PROVE FALSE
  <2>1. PICK w \in 1 .. MAX_DIGITS : Halves(Unsigned(FiniteText(v)), Part(v), Fraction(v), w)
    BY <1>1, FiniteTextBytes
  <2>2. PICK u : u = Unsigned(s.text)
    OBVIOUS
  <2>3. Len(u) = w + 1 + FRAC /\ u[w + 1] = DOT
    BY <1>1, <2>1, <2>2 DEF Halves
  <2>4. \E k : DoubleForm(u, k)
    BY <1>1, <2>2, FiniteTextMeans
  <2>5. w \in Nat /\ w >= 1 /\ FRAC \in Nat
    BY TypesAssumption, PowIs
  <2>6. w + 1 \in 1 .. Len(u)
    BY <2>3, <2>5
  <2>7. ~Digits(u)
    BY <2>3, <2>6, DigitIsNoDot DEF Digits
  <2>8. \E d : DotAt(u, d)
    BY <2>4, <2>7 DEF DoubleForm
  <2> QED BY <2>2, <2>8, SpecialTexts
<1> QED BY <1>1 DEF IsSpecial

LEMMA DoubleComesBack ==
  ASSUME DoubleDecodes(text, err, value), NEW v,
         \/ v \in Doubles /\ Finite(v) /\ text = FiniteText(v)
         \/ \E s \in Specials : s.kind = v.kind /\ text = s.text
  PROVE  err = "OK" /\ SameDouble(v, value[1])
<1>1. CASE v \in Doubles /\ Finite(v) /\ text = FiniteText(v)
  <2>1. ~IsSpecial(text) /\ \A s \in Specials : s.text # text
    BY <1>1, FiniteIsNotSpecial DEF IsSpecial
  <2>2. DoubleForm(Unsigned(text), FRAC) /\ \A k : DoubleForm(Unsigned(text), k) => k = FRAC
    BY <1>1, FiniteTextMeans
  <2>3. PICK n : n = DoubleNum(text) /\ n = IF v.neg THEN -v.num ELSE v.num
    BY <1>1, FiniteTextMeans
  <2>4. err = "OK" /\ value = << [kind |-> "finite", num |-> n, frac |-> FRAC] >>
    BY <2>1, <2>2, <2>3 DEF DoubleDecodes
  <2>5. value[1] = [kind |-> "finite", num |-> n, frac |-> FRAC]
    BY <2>4
  <2> QED BY <1>1, <2>3, <2>4, <2>5 DEF SameDouble, Finite
<1>2. CASE \E s \in Specials : s.kind = v.kind /\ text = s.text
  <2>1. PICK s \in Specials : s.kind = v.kind /\ text = s.text
    BY <1>2
  <2>2. IsSpecial(text)
    BY <2>1 DEF IsSpecial
  <2>3. PICK r \in Specials : r.text = text /\ err = "OK" /\ value = << [kind |-> r.kind] >>
    BY <2>2 DEF DoubleDecodes
  <2>4. r.kind = v.kind /\ v.kind # "finite"
    BY <2>1, <2>3, SpecialTexts
  <2>5. value[1].kind = v.kind
    BY <2>3, <2>4
  <2> QED BY <2>3, <2>4, <2>5 DEF SameDouble, Finite
<1> QED BY <1>1, <1>2

LEMMA KeptMeans == ASSUME Typed, Exact, DoubleInvariant, Kept PROVE RoundTrip
<1> SUFFICES ASSUME pc = "done", put # Nothing, NEW w, w = put[1],
                    w.type = type \/ ({w.type, type} \subseteq Integral /\ w.v \in RangeOf(type))
             PROVE  /\ err = "OK"
                    /\ IF type = "double" THEN SameDouble(w.v, value[1]) ELSE value = << w.v >>
  BY DEF RoundTrip
<1>1. Encodes(w, text)
  <2>1. PICK x : put = <<x>> /\ Encodes(x, text)
    BY DEF Kept, PutIs
  <2> QED BY <2>1
<1>2. \A t \in Integral : t # "bytes" /\ t # "bool" /\ t # "datetime" /\ t # "double"
  BY DEF Integral
<1>3. CASE type \in Integral
  <2>1. w.type \in Integral /\ w.v \in RangeOf(w.type) /\ text = Decimal(w.v)
    BY <1>1, <1>2, <1>3 DEF Encodes
  <2>2. PICK n : n = w.v /\ n \in RangeOf(w.type)
    BY <2>1
  <2>3. n \in RangeOf(type)
    BY <2>2
  <2>4. n \in Int /\ \E e \in 1 .. MAX_DIGITS : Magn(n) < Pow10[e]
    BY <2>1, <2>2, NumberFits
  <2>5. IsNumeral(text) /\ Meaning(text) = n
    BY <2>1, <2>2, <2>4, DecimalMeaning
  <2>6. err = "OK" /\ value = << n >>
    BY <1>3, <2>3, <2>5 DEF Exact, DecodedExactly
  <2> QED BY <1>2, <1>3, <2>2, <2>6
<1>4. CASE type = "double"
  <2>1. w.type = "double"
    BY <1>2, <1>4
  <2>2. PICK v : v = w.v
    OBVIOUS
  <2>3. \/ v \in Doubles /\ Finite(v) /\ text = FiniteText(v)
        \/ \E s \in Specials : s.kind = v.kind /\ text = s.text
    BY <1>1, <1>2, <2>1, <2>2 DEF Encodes
  <2>4. DoubleDecodes(text, err, value)
    BY <1>4 DEF DoubleInvariant, DoubleExact
  <2>5. err = "OK" /\ SameDouble(v, value[1])
    BY <2>3, <2>4, DoubleComesBack
  <2> QED BY <1>4, <2>2, <2>5
<1>5. CASE type \notin Integral /\ type # "double"
  <2>1. w.type = type
    BY <1>5
  <2>2. PlainDecodes(type, text, err, value)
    BY DEF Kept, PlainExact
  <2>3. CASE type = "bool"
    <3>1. w.v \in BOOLEAN /\ text = IF w.v THEN TrueText ELSE FalseText
      BY <1>1, <1>2, <2>1, <2>3 DEF Encodes
    <3>2. CASE w.v = TRUE
      BY <2>2, <2>3, <3>1, <3>2 DEF PlainDecodes
    <3>3. CASE w.v = FALSE
      BY <2>2, <2>3, <3>1, <3>3 DEF PlainDecodes
    <3> QED BY <3>1, <3>2, <3>3
  <2>4. CASE type = "datetime"
    <3>1. IsDateOf(w.v, text)
      BY <1>1, <1>2, <2>1, <2>4 DEF Encodes, IsDateOf
    <3> QED BY <1>5, <2>4, <3>1 DEF Kept, DateExact
  <2>5. CASE type = "bytes"
    <3>1. text = w.v
      BY <1>1, <1>2, <2>1, <2>5 DEF Encodes
    <3> QED BY <1>5, <2>2, <2>5, <3>1 DEF PlainDecodes
  <2>6. type \in {"bool", "datetime", "bytes"}
    BY <1>1, <1>5, <2>1 DEF Encodes
  <2> QED BY <2>3, <2>4, <2>5, <2>6
<1> QED BY <1>3, <1>4, <1>5

(* A value comes back as it was put, got with its own type or with another  *)
(* integer type that can hold it: for every width of the types and every    *)
(* value, as long as no finite double is longer than amp_put_double's buffer *)
(* (the run Types_long_double shows what happens to one that is).           *)
THEOREM ValuesComeBack ==
  ASSUME DoublesFit
  PROVE  Spec => []RoundTrip
<1>1. Init => Typed /\ Inv /\ Exact /\ DoubleInvariant /\ Kept
  <2>1. Init => Typed /\ Inv
    BY InitTyped, InitInv
  <2>2. Init => Exact /\ DoubleInvariant
    BY DEF Init, Exact, NumberScan, DecodedExactly, DoubleInvariant, DoubleScan, DoubleExact
  <2>3. Init => Kept
    BY DEF Init, Kept, PutIs, PlainExact, DateScan, DateExact
  <2> QED BY <2>1, <2>2, <2>3
<1>2. Typed /\ Inv /\ Exact /\ DoubleInvariant /\ Kept /\ [Next]_vars
        => (Typed /\ Inv /\ Exact /\ DoubleInvariant /\ Kept)'
  <2>1. Typed /\ Inv /\ [Next]_vars => (Typed /\ Inv)'
    BY NextTyped, NextInv DEF Inv
  <2>2. Typed /\ Inv /\ Exact /\ DoubleInvariant /\ [Next]_vars => (Exact /\ DoubleInvariant)'
    BY NextExact, NextDoubleInvariant DEF Inv
  <2>3. Typed /\ Inv /\ Exact /\ Kept /\ [Next]_vars => Kept'
    BY NextKept
  <2> QED BY <2>1, <2>2, <2>3
<1>3. Typed /\ Exact /\ DoubleInvariant /\ Kept => RoundTrip
  BY KeptMeans
<1> QED BY <1>1, <1>2, <1>3, PTL DEF Spec

=============================================================================
