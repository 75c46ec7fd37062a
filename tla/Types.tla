-------------------------------- MODULE Types --------------------------------
(***************************************************************************)
(* The typed values of an AMP box (types.c) and the digit loop they are all *)
(* decoded with (buftoll.c).  One value goes through the box: an amp_put_*  *)
(* or the peer stores a text, an amp_get_* decodes it, one action per       *)
(* iteration of the loop.  Bytes are their ASCII codes.  The integer types  *)
(* are narrowed, and a finite double is a decimal with FRAC digits after    *)
(* the dot (17 in the code): binary rounding is left out.                   *)
(***************************************************************************)
EXTENDS Integers, Sequences

CONSTANTS
  LLONG_MAX, INT_MAX, UINT_MAX,  \* the largest long long, int and unsigned int
  FRAC,                          \* digits that amp_put_double prints after the dot
  DBL_BUF,                       \* size of amp_put_double's buffer
  Numbers,                       \* integers that user code puts
  Doubles,                       \* doubles that user code puts
  DateTimes,                     \* DateTimes that user code puts
  Texts                          \* texts that the peer or user code stores as bytes

LLONG_MIN == -LLONG_MAX - 1
INT_MIN   == -INT_MAX - 1

\* 10^i, for as many digits as the largest double has before its dot
MAX_DIGITS == 309
Pow10[i \in 0 .. MAX_DIGITS] == IF i = 0 THEN 1 ELSE 10 * Pow10[i - 1]

ASSUME TypesAssumption ==
  /\ LLONG_MAX \in Nat /\ LLONG_MAX >= 999999   \* every field of a DateTime fits
  /\ \E d \in 1 .. MAX_DIGITS - 1 : LLONG_MAX < Pow10[d]
  /\ INT_MAX \in 0 .. LLONG_MAX /\ UINT_MAX \in 0 .. LLONG_MAX
  /\ FRAC \in 0 .. MAX_DIGITS /\ DBL_BUF \in Nat \ {0}
  /\ Numbers \subseteq Int
  /\ Texts \subseteq Seq(Nat)

VARIABLES
  pc,      \* "empty", "stored", "reading" (a loop) or "done" (a get returned)
  type,    \* of the last put or get
  text,    \* the value stored in the box
  rest,    \* what the running loop has yet to read
  neg,     \* a minus sign was read
  any,     \* a digit was read
  acc,     \* the loop's accumulator; of a double, with its digits after the dot
  frac,    \* amp_get_double: digits read after the dot, or -1 before it
  field,   \* amp_get_datetime: the field being read
  dt,      \* amp_get_datetime: the fields read, in the order of Fields
  err,     \* what the get returned
  value,   \* what the get stored for its caller
  put      \* history: what was put, if anything

loopVars == <<rest, neg, any, acc, frac>>
vars == <<pc, type, text, loopVars, field, dt, err, value, put>>

Integral == {"int", "uint", "long long"}
RangeOf(t) == CASE t = "int"       -> INT_MIN .. INT_MAX
                [] t = "uint"      -> 0 .. UINT_MAX
                [] t = "long long" -> LLONG_MIN .. LLONG_MAX

PLUS    == 43
MINUS   == 45
DOT     == 46
ZERO    == 48
COLON   == 58
UPPER_T == 84
TrueText  == <<84, 114, 117, 101>>
FalseText == <<70, 97, 108, 115, 101>>
NanText   == <<110, 97, 110>>
InfText   == <<105, 110, 102>>
IsDigit(c) == c \in ZERO .. ZERO + 9

Nothing == <<>>      \* no value was put, or stored for the caller

TypeOK ==
  /\ pc \in {"empty", "stored", "reading", "done"}
  /\ type \in Integral \cup {"none", "bytes", "bool", "double", "datetime"}
  /\ text \in Seq(Nat) /\ rest \in Seq(Nat)
  /\ neg \in BOOLEAN /\ any \in BOOLEAN
  /\ acc \in Int
  /\ frac \in Int /\ frac >= -1
  /\ field \in 1 .. 9
  /\ dt \in Seq(Int) /\ Len(dt) <= 9
  /\ err \in {"OK", "AMP_KEY_NOT_FOUND", "AMP_DECODE_ERROR", "AMP_OUT_OF_RANGE",
              "AMP_ENCODE_ERROR"}

Init ==
  /\ pc = "empty" /\ type = "none" /\ text = <<>> /\ rest = <<>>
  /\ neg = FALSE /\ any = FALSE /\ acc = 0 /\ frac = -1
  /\ field = 1 /\ dt = <<>>
  /\ err = "OK" /\ value = Nothing /\ put = Nothing

-----------------------------------------------------------------------------
(* Encoding *)

\* number of decimal digits of n, and the last w of them (printf's %0*d)
NumDigits(n) == CHOOSE d \in 1 .. MAX_DIGITS : n < Pow10[d] /\ (d = 1 \/ n >= Pow10[d - 1])
Pad(n, w)  == [i \in 1 .. w |-> ZERO + ((n \div Pow10[w - i]) % 10)]
Decimal(n) == IF n < 0 THEN <<MINUS>> \o Pad(-n, NumDigits(-n)) ELSE Pad(n, NumDigits(n))

\* snprintf into a buffer of n bytes, its NUL included
Printed(t, n) == SubSeq(t, 1, IF Len(t) < n THEN Len(t) ELSE n - 1)

BufLen_NoSign(t) == CASE t = "int"       -> NumDigits(2 * (INT_MAX + 1)) - 1 + 2
                      [] t = "uint"      -> NumDigits(UINT_MAX + 1) - 1 + 2
                      [] t = "long long" -> NumDigits(2 * (LLONG_MAX + 1)) - 1 + 2
\* bufLen: (int)log10 of the number of values, and room for a sign and a NUL
BufLen(t) == CASE t = "int"       -> NumDigits(2 * (INT_MAX + 1)) - 1 + 3
               [] t = "uint"      -> NumDigits(UINT_MAX + 1) - 1 + 2
               [] t = "long long" -> NumDigits(2 * (LLONG_MAX + 1)) - 1 + 3

Finite(v) == v.kind = "finite"
FiniteText(v) ==
  (IF v.neg THEN <<MINUS>> ELSE <<>>)
    \o Decimal(v.num \div Pow10[FRAC]) \o <<DOT>> \o Pad(v.num % Pow10[FRAC], FRAC)

(* amp_put_double passes on what snprintf returns, the length of the whole  *)
(* text; what is stored after the end of its buffer, filled with `byte', is *)
(* whatever the stack holds there.                                          *)
FiniteBytes(t, byte) ==
  [i \in 1 .. Len(t) |-> IF i < DBL_BUF THEN t[i] ELSE IF i = DBL_BUF THEN 0 ELSE byte]

Specials == { [text |-> InfText, kind |-> "inf"], [text |-> NanText, kind |-> "nan"],
              [text |-> <<MINUS>> \o InfText, kind |-> "-inf"] }

(* The nine numbers of a DateTime: place in the 32 bytes, and range.        *)
Fields == << [at |->  0, len |-> 4, lo |-> 1, hi |-> 9999],    \* year
             [at |->  5, len |-> 2, lo |-> 1, hi |-> 12],      \* month
             [at |->  8, len |-> 2, lo |-> 1, hi |-> 31],      \* day
             [at |-> 11, len |-> 2, lo |-> 0, hi |-> 23],      \* hour
             [at |-> 14, len |-> 2, lo |-> 0, hi |-> 59],      \* min
             [at |-> 17, len |-> 2, lo |-> 0, hi |-> 59],      \* sec
             [at |-> 20, len |-> 6, lo |-> 0, hi |-> 999999],  \* msec
             [at |-> 27, len |-> 2, lo |-> 0, hi |-> 23],      \* hours of the offset
             [at |-> 30, len |-> 2, lo |-> 0, hi |-> 59] >>    \* minutes of the offset
DateFields  == 1 .. 7
AMP_DT_SIZE == 32
InField(i, n) == Fields[i].lo <= n /\ n <= Fields[i].hi

(* Doubles are finite, infinite or nan; a DateTime is its seven date fields *)
(* and utc_offset, in minutes.                                              *)
ASSUME ValuesAssumption ==
  /\ Doubles \subseteq [kind : {"finite"}, neg : BOOLEAN, num : Nat] \cup [kind : {"nan", "inf", "-inf"}]
  /\ \A v \in Doubles : Finite(v) =>
       \E d \in 1 .. MAX_DIGITS : v.num \div Pow10[FRAC] < Pow10[d]
  /\ DateTimes \subseteq [date : [DateFields -> Int], utc_offset : Int]

ValidDateTime(v) == /\ \A i \in DateFields : InField(i, v.date[i])
                    /\ v.utc_offset \in -1439 .. 1439

OffsetText(o) ==
  LET m == IF o < 0 THEN -o ELSE o
  IN  <<IF o >= 0 THEN PLUS ELSE MINUS>> \o Pad(m \div 60, 2) \o <<COLON>> \o Pad(m % 60, 2)

DateTimeText(v) ==
  LET d == v.date IN
  Pad(d[1], 4) \o <<MINUS>> \o Pad(d[2], 2) \o <<MINUS>> \o Pad(d[3], 2) \o <<UPPER_T>>
    \o Pad(d[4], 2) \o <<COLON>> \o Pad(d[5], 2) \o <<COLON>> \o Pad(d[6], 2) \o <<DOT>>
    \o Pad(d[7], 6) \o OffsetText(v.utc_offset)

Store(t, v, bytes) ==
  /\ pc = "empty" /\ pc' = "stored"
  /\ type' = t /\ put' = << [type |-> t, v |-> v] >> /\ text' = bytes /\ err' = "OK"
  /\ UNCHANGED <<loopVars, field, dt, value>>

(* amp_put_int, amp_put_uint and amp_put_long_long.                         *)
PutInteger(t, n) == n \in RangeOf(t) /\ Store(t, n, Printed(Decimal(n), BufLen(t)))

PutBool(b)   == Store("bool", b, IF b THEN TrueText ELSE FalseText)
PutDouble(v) ==
  \/ Finite(v) /\ \E byte \in {0, ZERO} : Store("double", v, FiniteBytes(FiniteText(v), byte))
  \/ \E s \in Specials : s.kind = v.kind /\ Store("double", v, s.text)

PutDateTime(v) == ValidDateTime(v) /\ Store("datetime", v, DateTimeText(v))

PutDateTimeRefused(v) ==
  /\ pc = "empty" /\ ~ValidDateTime(v)
  /\ err' = "AMP_ENCODE_ERROR" /\ pc' = "done" /\ type' = "none"
  /\ UNCHANGED <<text, loopVars, field, dt, value, put>>

(* amp_put_bytes or amp_put_cstring, or a value that came from the peer.    *)
PutBytes(t) == Store("bytes", t, t)

-----------------------------------------------------------------------------
(* buftoll *)

CDiv(a, b) == IF a >= 0 THEN a \div b ELSE -((-a) \div b)
CMod(a, b) == a - b * CDiv(a, b)

limit  == IF neg THEN LLONG_MIN ELSE LLONG_MAX
cutoff == CDiv(limit, 10)
cutlim == IF neg THEN -CMod(limit, 10) ELSE CMod(limit, 10)

TooBig_Limit9(c) == IF neg THEN acc < cutoff ELSE acc > cutoff
\* reading digit c would take acc past the limit
TooBig(c) == IF neg THEN acc < cutoff \/ (acc = cutoff /\ c > cutlim)
                    ELSE acc > cutoff \/ (acc = cutoff /\ c > cutlim)

\* the optional sign; what follows is left to the loop
Begin(t) ==
  /\ neg' = (Head(t) = MINUS)
  /\ rest' = IF Head(t) \in {PLUS, MINUS} THEN Tail(t) ELSE t
  /\ any' = FALSE /\ acc' = 0 /\ frac' = -1

Loop(types) == pc = "reading" /\ type \in types

\* buftoll reports an error, and so does its caller: amp_get_long_long has
\* stored the 0 it returns, and amp_get_datetime has put it into the field
NumberFails(code) ==
  /\ err' = code /\ pc' = "done"
  /\ value' = IF type = "long long" THEN <<0>> ELSE value
  /\ dt' = IF type = "datetime" THEN Append(dt, 0) ELSE dt
  /\ UNCHANGED <<type, text, loopVars, field, put>>

ReadDigit ==
  /\ Loop(Integral \cup {"datetime"}) /\ rest # <<>>
  /\ IsDigit(Head(rest))
  /\ LET c == Head(rest) - ZERO IN
     /\ ~TooBig(c)
     /\ acc' = IF neg THEN acc * 10 - c ELSE acc * 10 + c
  /\ any' = TRUE
  /\ rest' = Tail(rest)
  /\ UNCHANGED <<pc, type, text, neg, frac, field, dt, err, value, put>>

DigitTooBig ==
  /\ Loop(Integral \cup {"datetime"}) /\ rest # <<>>
  /\ IsDigit(Head(rest)) /\ TooBig(Head(rest) - ZERO)
  /\ NumberFails("AMP_OUT_OF_RANGE")

NotANumber ==
  /\ Loop(Integral \cup {"datetime"})
  /\ IF rest = <<>> THEN ~any ELSE ~IsDigit(Head(rest))
  /\ NumberFails("AMP_DECODE_ERROR")

-----------------------------------------------------------------------------
(* Decoding *)

Return(code, v) ==
  /\ pc' = "done" /\ err' = code /\ value' = v
  /\ UNCHANGED <<text, loopVars, field, dt, put>>

GetBytes ==
  /\ pc = "stored" /\ type' = "bytes"
  /\ Return("OK", <<text>>)

GetMissing ==
  /\ pc = "empty" /\ type' = "none"
  /\ Return("AMP_KEY_NOT_FOUND", value)

(* amp_get_int, amp_get_uint and amp_get_long_long.                         *)
GetInteger(t) ==
  /\ pc = "stored" /\ text # <<>>
  /\ pc' = "reading" /\ type' = t /\ Begin(text)
  /\ UNCHANGED <<text, field, dt, err, value, put>>

GetIntegerEmpty(t) ==
  /\ pc = "stored" /\ text = <<>> /\ type' = t
  /\ Return("AMP_DECODE_ERROR", IF t = "long long" THEN <<0>> ELSE value)

InRange_Signed(t, n) == n \in INT_MIN .. UINT_MAX
InRange(t, n) == n \in RangeOf(t)

IntegerRead ==
  /\ Loop(Integral) /\ rest = <<>> /\ any
  /\ UNCHANGED type
  /\ IF InRange(type, acc) THEN Return("OK", <<acc>>)
                           ELSE Return("AMP_OUT_OF_RANGE", value)

GetBool ==
  /\ pc = "stored" /\ type' = "bool"
  /\ CASE text = TrueText  -> Return("OK", <<TRUE>>)
       [] text = FalseText -> Return("OK", <<FALSE>>)
       [] OTHER            -> Return("AMP_DECODE_ERROR", value)

IsSpecial(t) == \E s \in Specials : s.text = t

GetDoubleEmpty ==
  /\ pc = "stored" /\ text = <<>> /\ type' = "double"
  /\ Return("AMP_DECODE_ERROR", value)

GetDoubleSpecial ==
  /\ pc = "stored" /\ type' = "double"
  /\ \E s \in Specials : text = s.text /\ Return("OK", << [kind |-> s.kind] >>)

GetDouble ==
  /\ pc = "stored" /\ text # <<>> /\ ~IsSpecial(text)
  /\ pc' = "reading" /\ type' = "double" /\ Begin(text)
  /\ UNCHANGED <<text, field, dt, err, value, put>>

\* acc takes a digit before or after the dot alike: frac says where the dot is
ReadDoubleDigit ==
  /\ Loop({"double"}) /\ rest # <<>> /\ IsDigit(Head(rest))
  /\ LET c == Head(rest) - ZERO IN acc' = IF neg THEN acc * 10 - c ELSE acc * 10 + c
  /\ frac' = IF frac = -1 THEN -1 ELSE frac + 1
  /\ any' = TRUE
  /\ rest' = Tail(rest)
  /\ UNCHANGED <<pc, type, text, neg, field, dt, err, value, put>>

DotAllowed_Twice == any
DotAllowed == frac = -1 /\ any

ReadDot ==
  /\ Loop({"double"}) /\ rest # <<>> /\ Head(rest) = DOT /\ DotAllowed
  /\ frac' = 0 /\ rest' = Tail(rest)
  /\ UNCHANGED <<pc, type, text, neg, any, acc, field, dt, err, value, put>>

DoubleRefused ==
  /\ Loop({"double"})
  /\ IF rest = <<>> THEN ~any
     ELSE ~IsDigit(Head(rest)) /\ ~(Head(rest) = DOT /\ DotAllowed)
  /\ UNCHANGED type
  /\ Return("AMP_DECODE_ERROR", value)

DoubleRead ==
  /\ Loop({"double"}) /\ rest = <<>> /\ any
  /\ UNCHANGED type
  /\ Return("OK", << [kind |-> "finite", num |-> acc, frac |-> IF frac = -1 THEN 0 ELSE frac] >>)

GetDateTimeWrongSize ==
  /\ pc = "stored" /\ Len(text) # AMP_DT_SIZE /\ type' = "datetime"
  /\ Return("AMP_DECODE_ERROR", value)

FieldText(i) == SubSeq(text, Fields[i].at + 1, Fields[i].at + Fields[i].len)

GetDateTime ==
  /\ pc = "stored" /\ Len(text) = AMP_DT_SIZE
  /\ pc' = "reading" /\ type' = "datetime" /\ field' = 1 /\ Begin(FieldText(1))
  /\ UNCHANGED <<text, dt, err, value, put>>

FieldOK_NoLowerBound == acc <= Fields[field].hi
\* buftoll_range's test
FieldOK == InField(field, acc)

FieldOutOfRange ==
  /\ Loop({"datetime"}) /\ rest = <<>> /\ any /\ ~FieldOK
  /\ NumberFails("AMP_OUT_OF_RANGE")

NextField_NotCounted ==
  /\ Loop({"datetime"}) /\ rest = <<>> /\ any /\ FieldOK
  /\ dt' = Append(dt, acc)
  /\ Begin(FieldText(field))
  /\ UNCHANGED <<pc, type, text, field, err, value, put>>
NextField ==
  /\ Loop({"datetime"}) /\ rest = <<>> /\ any /\ FieldOK
  /\ field < Len(Fields)
  /\ dt' = Append(dt, acc)
  /\ field' = field + 1
  /\ Begin(FieldText(field + 1))
  /\ UNCHANGED <<pc, type, text, err, value, put>>

\* the sign of the offset is looked at last
SignByte == text[27]
LastField ==
  /\ Loop({"datetime"}) /\ rest = <<>> /\ any /\ FieldOK
  /\ field = Len(Fields)
  /\ UNCHANGED type
  /\ LET minutes == dt[8] * 60 + acc
         got(o)  == << [date |-> SubSeq(dt, 1, 7), utc_offset |-> o] >>
     IN  CASE SignByte = PLUS  -> Return("OK", got(minutes))
           [] SignByte = MINUS -> Return("OK", got(-minutes))
           [] OTHER            -> Return("AMP_DECODE_ERROR", value)

FreeBox ==
  /\ pc \in {"stored", "done"}
  /\ pc' = "empty" /\ type' = "none" /\ text' = <<>> /\ rest' = <<>>
  /\ neg' = FALSE /\ any' = FALSE /\ acc' = 0 /\ frac' = -1
  /\ field' = 1 /\ dt' = <<>>
  /\ err' = "OK" /\ value' = Nothing /\ put' = Nothing

Put ==
  \/ \E t \in Integral, n \in Numbers : PutInteger(t, n)
  \/ \E b \in BOOLEAN : PutBool(b)
  \/ \E v \in Doubles : PutDouble(v)
  \/ \E v \in DateTimes : PutDateTime(v) \/ PutDateTimeRefused(v)
  \/ \E t \in Texts : PutBytes(t)

Get ==
  \/ GetMissing \/ GetBytes
  \/ GetBool
  \/ \E t \in Integral : GetInteger(t) \/ GetIntegerEmpty(t)
  \/ GetDouble \/ GetDoubleEmpty \/ GetDoubleSpecial
  \/ GetDateTime \/ GetDateTimeWrongSize

Step ==
  \/ ReadDigit \/ DigitTooBig \/ NotANumber \/ IntegerRead
  \/ ReadDoubleDigit \/ ReadDot \/ DoubleRefused \/ DoubleRead
  \/ FieldOutOfRange \/ NextField \/ LastField

Next == Put \/ Get \/ Step \/ FreeBox

Spec == Init /\ [][Next]_vars

-----------------------------------------------------------------------------
(* What a text means, without reading it one byte at a time                *)

Digits(t) == \A i \in 1 .. Len(t) : IsDigit(t[i])
Unsigned(t) == IF t # <<>> /\ Head(t) \in {PLUS, MINUS} THEN Tail(t) ELSE t
IsNumeral(t) == Unsigned(t) # <<>> /\ Digits(Unsigned(t))
Magnitude(t) == LET f[i \in 0 .. Len(t)] == IF i = 0 THEN 0 ELSE 10 * f[i - 1] + t[i] - ZERO
                IN  f[Len(t)]
Meaning(t) == IF Head(t) = MINUS THEN -Magnitude(Unsigned(t)) ELSE Magnitude(Unsigned(t))

(* The accumulator of buftoll never leaves the range of a long long: the   *)
(* cut-off test stops the loop before the multiplication that would        *)
(* overflow, for either sign (buftoll.c:162 and :176).                      *)
NoOverflow ==
  (pc = "reading" /\ type # "double") =>
    IF neg THEN acc \in LLONG_MIN .. 0 ELSE acc \in 0 .. LLONG_MAX

(* Whatever bytes are stored, an integer get succeeds exactly on an         *)
(* optional sign followed by digits whose value fits the type asked for,    *)
(* and then returns that value: nothing is truncated to the narrower type,  *)
(* and neither end of a range is lost (amp_get_int, amp_get_uint,           *)
(* amp_get_long_long over buftoll).                                         *)
DecodedExactly ==
  (pc = "done" /\ type \in Integral) =>
    /\ (err = "OK") <=> (IsNumeral(text) /\ Meaning(text) \in RangeOf(type))
    /\ err = "OK" => value = << Meaning(text) >>

(* A double get succeeds only on a sign, digits and at most one dot with a  *)
(* digit somewhere before it, or on a special value (amp_get_double).       *)
DoubleSyntax ==
  (pc = "done" /\ type = "double" /\ err = "OK") =>
    \/ IsSpecial(text)
    \/ IsNumeral(text)
    \/ \E i \in 2 .. Len(text) : /\ text[i] = DOT /\ IsNumeral(SubSeq(text, 1, i - 1))
                                 /\ Digits(SubSeq(text, i + 1, Len(text)))

(* A DateTime the peer sent is only handed to the caller if it is one that  *)
(* amp_put_datetime would send: every field and the offset in range, though *)
(* the bytes between the fields are not looked at (amp_get_datetime).       *)
DateTimeIsValid ==
  (pc = "done" /\ type = "datetime" /\ err = "OK") => ValidDateTime(value[1])

SameDouble(a, b) ==
  IF Finite(a) THEN /\ Finite(b) /\ b.frac = FRAC
                    /\ b.num = IF a.neg THEN -a.num ELSE a.num
               ELSE a.kind = b.kind

(* A value comes back as it was put, when it is got with the type it was    *)
(* put with, or with another integer type that can hold it: no encoding is  *)
(* cut off by its buffer or refused by its own decoder (types.c).           *)
RoundTrip ==
  (pc = "done" /\ put # Nothing) =>
    LET was == put[1] IN
    /\ was.type = type \/ ({was.type, type} \subseteq Integral /\ was.v \in RangeOf(type)) =>
         /\ err = "OK"
         /\ IF type = "double" THEN SameDouble(was.v, value[1]) ELSE value = << was.v >>
=============================================================================
