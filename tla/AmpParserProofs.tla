--------------------------- MODULE AmpParserProofs --------------------------
(* Proofs about AmpParser, for bytes of any radix and chunks of any size.   *)
EXTENDS AmpParser, ChainsProofs

(* The inductive invariant.  Neither conjunct is inductive alone: a length  *)
(* fits its field because its first byte was shifted into an empty field.   *)
IInv == TypeOK /\ ParserConsistent

LEMMA Lengths ==
  /\ R \in Nat
  /\ MAX_KEY_LENGTH \in Nat /\ MAX_KEY_LENGTH >= 1
  /\ MAX_VAL_LENGTH \in Nat
  /\ Byte = 0 .. MAX_KEY_LENGTH
BY ParserAssumption DEF MAX_KEY_LENGTH, MAX_VAL_LENGTH, Byte

(* The two bytes of a length make a number that the length fields hold.     *)
LEMMA TwoByteLength ==
  ASSUME NEW hi \in Byte, NEW lo \in Byte
  PROVE  /\ HighByte(hi) \in 0 .. MAX_VAL_LENGTH
         /\ HighByte(hi) + lo \in 0 .. MAX_VAL_LENGTH
<1>1. R \in Nat /\ R >= 2 /\ hi \in Nat /\ hi <= R - 1 /\ lo \in Nat /\ lo <= R - 1
  BY ParserAssumption DEF Byte
<1>2. R * hi <= R * (R - 1) /\ R * hi \in Nat
  BY <1>1
<1>3. R * (R - 1) = R * R - R /\ R * R \in Nat
  BY <1>1
<1> QED
  BY <1>1, <1>2, <1>3 DEF HighByte, MAX_VAL_LENGTH

(* Looking at a non-empty buffer.                                           *)
LEMMA FirstByte ==
  ASSUME buf \in Seq(Byte), buf # <<>>
  PROVE  Head(buf) \in Byte /\ 1 \in 0 .. Len(buf)
BY HeadTailProperties, LenProperties, EmptySeq

LEMMA TakenTyped ==
  ASSUME buf \in Seq(Byte), NEW n \in 0 .. Len(buf)
  PROVE  Taken(n) \in Seq(Byte) /\ Len(Taken(n)) = n /\ Rest(n) \in Seq(Byte)
<1>1. Len(buf) \in Nat /\ \A i \in 1 .. Len(buf) : buf[i] \in Byte
  BY LenProperties, ElementOfSeq
<1>2. Taken(n) \in Seq(Byte) /\ Len(Taken(n)) = n
  BY <1>1, SubSeqProperties DEF Taken
<1>3. Rest(n) \in Seq(Byte)
  BY <1>1, SubSeqProperties DEF Rest
<1> QED
  BY <1>2, <1>3

(* Consuming n bytes, for good or before an error, keeps buf and consumed   *)
(* sequences of bytes.                                                      *)
LEMMA TakeTyped ==
  ASSUME TypeOK, NEW n \in 0 .. Len(buf), Take(n)
  PROVE  buf' \in Seq(Byte) /\ consumed' \in Seq(Byte)
BY TakenTyped, ConcatProperties DEF TypeOK, Take

LEMMA FailTyped ==
  ASSUME TypeOK, NEW n \in 0 .. Len(buf), NEW code \in Errors, Fail(n, code)
  PROVE  buf' \in Seq(Byte) /\ consumed' \in Seq(Byte) /\ error' \in Errors
BY TakenTyped, ConcatProperties, EmptySeq DEF TypeOK, Fail

LEMMA NextKeyTyped ==
  ASSUME NextKey
  PROVE  /\ state' \in States
         /\ key_len' \in -1 .. MAX_KEY_LENGTH /\ key_data' \in Seq(Byte)
         /\ val_len' \in -1 .. MAX_VAL_LENGTH /\ val_data' \in Seq(Byte)
         /\ ParserConsistent'
BY Lengths, EmptySeq DEF NextKey, States, ParserConsistent

LEMMA InitIInv == Init => IInv
BY Lengths, EmptySeq DEF Init, IInv, TypeOK, ParserConsistent, States, Errors

-----------------------------------------------------------------------------
(* The inductive step, action by action. *)

LEMMA ConsumeIInv ==
  ASSUME IInv, NEW chunk \in Chunks, Consume(chunk)
  PROVE  IInv'
<1>1. chunk \in Seq(Byte)
  BY DEF Chunks
<1> QED
  BY <1>1 DEF IInv, TypeOK, ParserConsistent, Consume, parserVars, historyVars

LEMMA ResetIInv ==
  ASSUME IInv, Reset
  PROVE  IInv'
BY NextKeyTyped, EmptySeq DEF IInv, TypeOK, Reset, Errors

LEMMA KeyLenFirstIInv ==
  ASSUME IInv, KeyLenFirst
  PROVE  IInv'
<1>1. 1 \in 0 .. Len(buf)
  BY FirstByte DEF IInv, TypeOK, KeyLenFirst, Parsing
<1>2. TypeOK /\ ParserConsistent /\ state = "KEY_LEN_READ"
  BY DEF IInv, KeyLenFirst, Parsing
<1>3. UNCHANGED <<state, key_data, val_len, val_data, pairs>>
  BY DEF KeyLenFirst
<1>4. CASE Head(buf) # 0
  <2>1. Fail(1, "AMP_BAD_KEY_SIZE") /\ UNCHANGED key_len
    BY <1>4 DEF KeyLenFirst
  <2>2. buf' \in Seq(Byte) /\ consumed' \in Seq(Byte) /\ error' \in Errors
    BY <1>1, <1>2, <2>1, FailTyped DEF Errors
  <2> QED
    BY <1>2, <1>3, <2>1, <2>2 DEF IInv, TypeOK, ParserConsistent
<1>5. CASE Head(buf) = 0
  <2>1. key_len' = 0 /\ Take(1) /\ UNCHANGED error
    BY <1>5 DEF KeyLenFirst
  <2>2. buf' \in Seq(Byte) /\ consumed' \in Seq(Byte)
    BY <1>1, <1>2, <2>1, TakeTyped
  <2> QED
    BY <1>2, <1>3, <2>1, <2>2, Lengths DEF IInv, TypeOK, ParserConsistent
<1> QED
  BY <1>4, <1>5

LEMMA KeyLenSecondIInv ==
  ASSUME IInv, KeyLenSecond
  PROVE  IInv'
<1>1. 1 \in 0 .. Len(buf) /\ Head(buf) \in Byte
  BY FirstByte DEF IInv, TypeOK, KeyLenSecond, Parsing
<1>2. buf' \in Seq(Byte) /\ consumed' \in Seq(Byte)
  BY <1>1, TakeTyped DEF IInv, KeyLenSecond
<1>3. key_data = <<>> /\ val_data = <<>> /\ val_len = -1
  BY DEF IInv, ParserConsistent, KeyLenSecond, Parsing
<1>4. key_len' \in 1 .. MAX_KEY_LENGTH /\ state' = "KEY_DATA_READ"
  BY <1>1, Lengths DEF KeyLenSecond
<1>5. UNCHANGED <<key_data, val_len, val_data, error, pairs>>
  BY DEF KeyLenSecond
<1>6. TypeOK'
  BY <1>2, <1>4, <1>5, Lengths DEF IInv, TypeOK, States
<1>7. ParserConsistent'
  BY <1>3, <1>4, <1>5, Lengths, EmptySeq DEF ParserConsistent
<1> QED
  BY <1>6, <1>7 DEF IInv

(* At the end of a box only key_len is put back; IInv says the rest is.     *)
LEMMA EndOfBoxIInv ==
  ASSUME IInv, EndOfBox
  PROVE  /\ TypeOK /\ 1 \in 0 .. Len(buf)
         /\ state' = "KEY_LEN_READ" /\ key_len' \in -1 .. MAX_KEY_LENGTH
         /\ UNCHANGED <<key_data, val_len, val_data>>
         /\ ParserConsistent'
<1>1. 1 \in 0 .. Len(buf)
  BY FirstByte DEF IInv, TypeOK, EndOfBox, Parsing
<1> QED
  BY <1>1, Lengths DEF IInv, ParserConsistent, EndOfBox, Parsing

LEMMA BoxFailsIInv ==
  ASSUME IInv, BoxFails
  PROVE  IInv'
<1>1. PICK code \in {"AMP_BOX_EMPTY", "DISPATCH_ERROR"} : Fail(1, code)
  BY DEF BoxFails
<1>2. EndOfBox /\ UNCHANGED pairs
  BY DEF BoxFails
<1>3. buf' \in Seq(Byte) /\ consumed' \in Seq(Byte) /\ error' \in Errors
  BY <1>1, <1>2, EndOfBoxIInv, FailTyped DEF Errors
<1> QED
  BY <1>2, <1>3, EndOfBoxIInv DEF IInv, TypeOK, States

LEMMA BoxDispatchedIInv ==
  ASSUME IInv, BoxDispatched
  PROVE  IInv'
<1>1. EndOfBox /\ pairs' = <<>> /\ consumed' = <<>> /\ buf' = Rest(1) /\ UNCHANGED error
  BY DEF BoxDispatched
<1>2. buf' \in Seq(Byte)
  BY <1>1, EndOfBoxIInv, TakenTyped DEF TypeOK
<1> QED
  BY <1>1, <1>2, EndOfBoxIInv, EmptySeq DEF IInv, TypeOK, States

LEMMA KeyDataIInv ==
  ASSUME IInv, KeyData
  PROVE  IInv'
<1> DEFINE needed == key_len - Len(key_data)
           n      == Smaller(Len(buf), needed)
<1>1. /\ TypeOK /\ state = "KEY_DATA_READ" /\ Len(key_data) < key_len
      /\ key_len \in 1 .. MAX_KEY_LENGTH /\ val_len = -1 /\ val_data = <<>>
  BY Lengths, LenProperties
  DEF IInv, TypeOK, ParserConsistent, KeyData, Parsing
<1>2. Len(buf) \in Nat /\ Len(key_data) \in Nat
  BY <1>1, LenProperties DEF TypeOK
<1>3. n \in 0 .. Len(buf) /\ n <= needed /\ (Len(buf) >= needed => n = needed)
      /\ (Len(buf) < needed => n = Len(buf))
  BY <1>1, <1>2, Lengths DEF Smaller
<1>4. /\ key_data' = key_data \o Taken(n)
      /\ state' = IF Len(buf) < needed THEN state ELSE "VAL_LEN_READ"
      /\ Take(n)
      /\ UNCHANGED <<key_len, val_len, val_data, error, pairs>>
  BY DEF KeyData
<1>5. buf' \in Seq(Byte) /\ consumed' \in Seq(Byte)
  BY <1>1, <1>3, <1>4, TakeTyped
<1>6. key_data' \in Seq(Byte) /\ Len(key_data') = Len(key_data) + n
  BY <1>1, <1>3, <1>4, TakenTyped, ConcatProperties DEF TypeOK
<1>7. TypeOK'
  BY <1>1, <1>4, <1>5, <1>6 DEF TypeOK, States
<1>8. CASE Len(buf) < needed
  <2>1. state' = "KEY_DATA_READ" /\ Len(key_data') < key_len
    BY <1>1, <1>2, <1>3, <1>4, <1>6, <1>8, Lengths
  <2>2. Len(key_data') <= MAX_KEY_LENGTH
    BY <1>1, <1>2, <1>3, <1>6, <2>1, Lengths
  <2> QED
    BY <1>1, <1>4, <1>7, <2>1, <2>2 DEF IInv, ParserConsistent
<1>9. CASE ~(Len(buf) < needed)
  <2>1. state' = "VAL_LEN_READ" /\ Len(key_data') = key_len
    BY <1>1, <1>2, <1>3, <1>4, <1>6, <1>9, Lengths
  <2> QED
    BY <1>1, <1>4, <1>7, <2>1, Lengths, EmptySeq DEF IInv, ParserConsistent
<1> QED
  BY <1>8, <1>9

LEMMA ValLenFirstIInv ==
  ASSUME IInv, ValLenFirst
  PROVE  IInv'
<1>1. TypeOK /\ 1 \in 0 .. Len(buf) /\ Head(buf) \in Byte /\ state = "VAL_LEN_READ"
  BY FirstByte DEF IInv, TypeOK, ValLenFirst, Parsing
<1>2. buf' \in Seq(Byte) /\ consumed' \in Seq(Byte)
  BY <1>1, TakeTyped DEF ValLenFirst
<1>3. val_len' = HighByte(Head(buf)) /\ val_len' \in 0 .. MAX_VAL_LENGTH
  BY <1>1, TwoByteLength DEF ValLenFirst
<1>4. UNCHANGED <<state, key_len, key_data, val_data, error, pairs>>
  BY DEF ValLenFirst
<1> QED
  BY <1>1, <1>2, <1>3, <1>4, Lengths, SMTT(60) DEF IInv, TypeOK, ParserConsistent

LEMMA ValLenSecondIInv ==
  ASSUME IInv, ValLenSecond
  PROVE  IInv'
<1>1. /\ TypeOK /\ 1 \in 0 .. Len(buf) /\ Head(buf) \in Byte
      /\ state = "VAL_LEN_READ" /\ val_len # -1
  BY FirstByte DEF IInv, TypeOK, ValLenSecond, Parsing
<1>2. buf' \in Seq(Byte) /\ consumed' \in Seq(Byte)
  BY <1>1, TakeTyped DEF ValLenSecond
<1>3. PICK hi \in Byte : val_len = HighByte(hi)
  BY <1>1 DEF IInv, ParserConsistent
<1>4. val_len' = HighByte(hi) + Head(buf) /\ val_len' \in 0 .. MAX_VAL_LENGTH
  BY <1>1, <1>3, TwoByteLength DEF ValLenSecond
<1>5. UNCHANGED <<key_len, key_data, val_data, error, pairs>> /\ state' = "VAL_DATA_READ"
  BY DEF ValLenSecond
<1>6. TypeOK'
  BY <1>1, <1>2, <1>4, <1>5, Lengths, SMTT(60) DEF TypeOK, States
<1>7. val_data = <<>> /\ 0 < key_len /\ Len(key_data) = key_len
  BY <1>1 DEF IInv, ParserConsistent
<1>8. ParserConsistent'
  BY <1>1, <1>4, <1>5, <1>7, Lengths, EmptySeq DEF IInv, ParserConsistent
<1> QED
  BY <1>6, <1>8 DEF IInv

\* what holds while a value is read
LEMMA InValue ==
  ASSUME IInv, Parsing("VAL_DATA_READ")
  PROVE  /\ TypeOK /\ state = "VAL_DATA_READ"
         /\ 0 < key_len /\ Len(key_data) = key_len /\ Len(key_data) <= MAX_KEY_LENGTH
         /\ Len(buf) \in Nat /\ Len(val_data) \in Nat
         /\ Len(val_data) <= val_len /\ val_len \in 0 .. MAX_VAL_LENGTH
<1>1. Len(buf) \in Nat /\ Len(val_data) \in Nat
  BY LenProperties DEF IInv, TypeOK
<1> QED
  BY <1>1, Lengths DEF IInv, TypeOK, ParserConsistent, Parsing

\* fetching n more bytes of a value
LEMMA FetchValue ==
  ASSUME TypeOK, NEW n \in 0 .. Len(buf)
  PROVE  /\ val_data \o Taken(n) \in Seq(Byte)
         /\ Len(val_data \o Taken(n)) = Len(val_data) + n
<1>1. val_data \in Seq(Byte) /\ Taken(n) \in Seq(Byte) /\ Len(Taken(n)) = n
  BY TakenTyped DEF TypeOK
<1> QED
  BY <1>1, ConcatProperties

LEMMA ValDataPartIInv ==
  ASSUME IInv, ValDataPart
  PROVE  IInv'
<1> DEFINE n == Len(buf)
<1>1. Parsing("VAL_DATA_READ") /\ n < val_len - Len(val_data)
  BY DEF ValDataPart
<1>2. n \in 0 .. Len(buf)
  BY <1>1, InValue
<1>3. Taken(n) = buf
  BY <1>1, InValue, SubSeqFull DEF Taken, TypeOK
<1>4. Take(n) /\ val_data' = val_data \o Taken(n)
      /\ UNCHANGED <<state, key_len, key_data, val_len, error, pairs>>
  BY <1>3 DEF ValDataPart
<1>5. buf' \in Seq(Byte) /\ consumed' \in Seq(Byte)
  BY <1>1, <1>2, <1>4, InValue, TakeTyped
<1>6. val_data' \in Seq(Byte) /\ Len(val_data') = Len(val_data) + n
  BY <1>1, <1>2, <1>4, InValue, FetchValue
<1>7. Len(val_data') <= val_len /\ Len(val_data') <= MAX_VAL_LENGTH
  BY <1>1, <1>6, InValue, Lengths
<1>8. TypeOK'
  BY <1>1, <1>4, <1>5, <1>6, InValue DEF TypeOK
<1> QED
  BY <1>1, <1>4, <1>7, <1>8, InValue DEF IInv, ParserConsistent

LEMMA ValDataStoredIInv ==
  ASSUME IInv, ValDataStored
  PROVE  IInv'
<1>1. PICK n \in 0 .. Len(buf) :
        /\ EndOfValue(n) /\ NextKey /\ Take(n) /\ UNCHANGED error
        /\ pairs' = Append(pairs, [key |-> key_data, val |-> val_data \o Taken(n)])
  BY DEF ValDataStored
<1>2. TypeOK
  BY DEF IInv
<1>3. buf' \in Seq(Byte) /\ consumed' \in Seq(Byte)
  BY <1>1, <1>2, TakeTyped
<1>4. [key |-> key_data, val |-> val_data \o Taken(n)] \in Pair
  BY <1>1, <1>2, FetchValue DEF Pair, TypeOK
<1>5. pairs' \in Seq(Pair)
  BY <1>1, <1>2, <1>4, AppendProperties DEF TypeOK
<1> QED
  BY <1>1, <1>2, <1>3, <1>5, NextKeyTyped DEF IInv, TypeOK

LEMMA ValDataRefusedIInv ==
  ASSUME IInv, ValDataRefused
  PROVE  IInv'
<1>1. PICK n \in 0 .. Len(buf) :
        /\ EndOfValue(n) /\ val_data' = val_data \o Taken(n)
        /\ \E code \in {"AMP_BAD_KEY_SIZE", "ENOMEM"} : Fail(n, code)
        /\ UNCHANGED <<state, key_len, key_data, val_len, pairs>>
  BY DEF ValDataRefused
<1>2. Parsing("VAL_DATA_READ") /\ n = val_len - Len(val_data)
  BY <1>1 DEF EndOfValue
<1>3. buf' \in Seq(Byte) /\ consumed' \in Seq(Byte) /\ error' \in Errors
  BY <1>1, <1>2, InValue, FailTyped DEF Errors
<1>4. val_data' \in Seq(Byte) /\ Len(val_data') = Len(val_data) + n
  BY <1>1, <1>2, InValue, FetchValue
<1>5. TypeOK'
  BY <1>1, <1>2, <1>3, <1>4, InValue DEF TypeOK
<1>6. Len(val_data') = val_len
  BY <1>2, <1>4, InValue
<1> QED
  BY <1>1, <1>2, <1>5, <1>6, InValue DEF IInv, ParserConsistent

LEMMA NextIInv == IInv /\ [Next]_vars => IInv'
<1> SUFFICES ASSUME IInv, [Next]_vars PROVE IInv'
  OBVIOUS
<1>1. CASE ParseStep
  BY <1>1, KeyLenFirstIInv, KeyLenSecondIInv, BoxFailsIInv, BoxDispatchedIInv,
     KeyDataIInv, ValLenFirstIInv, ValLenSecondIInv, ValDataPartIInv,
     ValDataStoredIInv, ValDataRefusedIInv DEF ParseStep
<1>2. CASE Reset
  BY <1>2, ResetIInv
<1>3. CASE \E chunk \in Chunks : Consume(chunk)
  BY <1>3, ConsumeIInv
<1>4. CASE UNCHANGED vars
  BY <1>4 DEF vars, parserVars, historyVars, IInv, TypeOK, ParserConsistent
<1> QED
  BY <1>1, <1>2, <1>3, <1>4 DEF Next

-----------------------------------------------------------------------------

(* Every variable of the parser keeps its type: the lengths stay within 255 *)
(* and 65535 for bytes of 256 values.                                       *)
THEOREM TypeCorrect == Spec => []TypeOK
<1>1. IInv => TypeOK
  BY DEF IInv
<1> QED
  BY InitIInv, NextIInv, <1>1, PTL DEF Spec

(* The parser's variables agree in every reachable state, so that resetting *)
(* key_len alone at the end of a box is enough (amp.c:546), and no key or   *)
(* value is written past its array.                                         *)
THEOREM ParserIsConsistent == Spec => []ParserConsistent
<1>1. IInv => ParserConsistent
  BY DEF IInv
<1> QED
  BY InitIInv, NextIInv, <1>1, PTL DEF Spec

(* Once an error is set, only amp_reset_proto changes the parser.           *)
LEMMA ErrorMeansIdle ==
  ASSUME error # "OK" => buf = <<>>, [Next]_vars
  PROVE  (error # "OK" => buf = <<>>)'
BY DEF Next, vars, parserVars, historyVars, Reset, Consume, CanConsume, ParseStep,
       KeyLenFirst, KeyLenSecond, EndOfBox, BoxFails, BoxDispatched, KeyData,
       ValLenFirst, ValLenSecond, ValDataPart, EndOfValue, ValDataStored,
       ValDataRefused, Parsing, Fail

THEOREM ErrorsAreFatal == Spec => FatalUntilReset
<1> DEFINE Idle == error # "OK" => buf = <<>>
<1>1. Init => Idle
  BY DEF Init
<1>2. Idle /\ [Next]_vars => Idle'
  BY ErrorMeansIdle
<1>3. Idle /\ [Next]_vars
        => [error # "OK" => Reset \/ UNCHANGED <<error, box, parserVars>>]_vars
  BY DEF Next, vars, Consume, CanConsume, ParseStep, KeyLenFirst, KeyLenSecond,
         EndOfBox, BoxFails, BoxDispatched, KeyData, ValLenFirst, ValLenSecond,
         ValDataPart, EndOfValue, ValDataStored, ValDataRefused, Parsing
<1> QED
  BY <1>1, <1>2, <1>3, PTL DEF Spec, FatalUntilReset

-----------------------------------------------------------------------------
(* The bytes of a list of pairs *)

Wire(ps) == LET wire[i \in 0 .. Len(ps)] == IF i = 0 THEN <<>> ELSE wire[i - 1] \o EncodePair(ps[i])
            IN  wire

LEMMA EncodeIsWire == \A ps : Encode(ps) = Wire(ps)[Len(ps)]
BY DEF Encode, Wire

LEMMA LenBytesIs ==
  ASSUME NEW n \in Nat
  PROVE  LenBytes(n) \in Seq(Nat) /\ n \div R \in Nat /\ n % R \in Nat
<1>1. R \in Nat /\ R >= 2
  BY ParserAssumption
<1>2. n \div R \in Int /\ n % R \in 0 .. R - 1 /\ n = R * (n \div R) + (n % R)
  BY <1>1
<1>3. n \div R \in Nat
  <2> SUFFICES ASSUME n \div R <= -1 PROVE FALSE
    BY <1>2
  <2>1. R * (n \div R) <= R * (-1)
    BY <1>1, <1>2
  <2> QED BY <1>1, <1>2, <2>1
<1> QED BY <1>2, <1>3 DEF LenBytes

LEMMA BytesAreNumbers == \A s \in Seq(Byte) : s \in Seq(Nat)
<1> TAKE s \in Seq(Byte)
<1>1. Len(s) \in Nat /\ s \in [1 .. Len(s) -> Byte]
  OBVIOUS
<1>2. Byte \subseteq Nat
  BY ParserAssumption DEF Byte
<1>3. s \in [1 .. Len(s) -> Nat]
  BY <1>1, <1>2
<1> QED BY <1>1, <1>3, FunctionIsSeq

LEMMA PairBytes == ASSUME NEW p \in Pair PROVE EncodePair(p) \in Seq(Nat)
<1>1. p.key \in Seq(Byte) /\ p.val \in Seq(Byte)
  BY DEF Pair
<1>2. p.key \in Seq(Nat) /\ p.val \in Seq(Nat)
  BY <1>1, BytesAreNumbers
<1>3. LenBytes(Len(p.key)) \in Seq(Nat) /\ LenBytes(Len(p.val)) \in Seq(Nat)
  <2>1. ASSUME NEW n \in Nat PROVE LenBytes(n) \in Seq(Nat)
    BY LenBytesIs
  <2>2. Len(p.key) \in Nat /\ Len(p.val) \in Nat
    BY <1>2
  <2> QED BY <2>1, <2>2
<1> QED BY <1>2, <1>3, ConcatProperties DEF EncodePair

LEMMA WireIs ==
  ASSUME NEW ps \in Seq(Pair)
  PROVE  /\ Wire(ps) \in [0 .. Len(ps) -> Seq(Nat)]
         /\ Wire(ps)[0] = <<>>
         /\ \A i \in 0 .. Len(ps) - 1 : Wire(ps)[i + 1] = Wire(ps)[i] \o EncodePair(ps[i + 1])
<1> DEFINE N == Len(ps)
           f[i \in 0 .. N] == IF i = 0 THEN <<>> ELSE f[i - 1] \o EncodePair(ps[i])
           step == [x \in (0 .. N - 1) \X Seq(Nat) |-> x[2] \o EncodePair(ps[x[1] + 1])]
<1>0. N \in Nat /\ \A i \in 0 .. N - 1 : EncodePair(ps[i + 1]) \in Seq(Nat)
  BY PairBytes
<1>1. step \in [(0 .. N - 1) \X Seq(Nat) -> Seq(Nat)]
  <2>1. \A x \in (0 .. N - 1) \X Seq(Nat) : x[2] \o EncodePair(ps[x[1] + 1]) \in Seq(Nat)
    BY <1>0, ConcatProperties
  <2> QED BY <2>1
<1>2. PICK g : Iterates(g, N, Seq(Nat), <<>>, step)
  <2>1. <<>> \in Seq(Nat)
    OBVIOUS
  <2> HIDE DEF step, f, N
  <2> QED BY <1>0, <1>1, <2>1, RecursionExists
<1>3. g = [i \in 0 .. N |-> IF i = 0 THEN <<>> ELSE g[i - 1] \o EncodePair(ps[i])]
  <2>1. ASSUME NEW i \in 0 .. N, i # 0 PROVE g[i] = g[i - 1] \o EncodePair(ps[i])
    <3>1. i - 1 \in 0 .. N - 1 /\ (i - 1) + 1 = i
      BY <1>0, <2>1
    <3>2. g[(i - 1) + 1] = step[<<i - 1, g[i - 1]>>]
      BY <1>2, <3>1, Zenon DEF Iterates
    <3>3. g[i - 1] \in Seq(Nat)
      BY <1>0, <1>2, <3>1 DEF Iterates
    <3> HIDE DEF N
    <3> QED BY <3>1, <3>2, <3>3
  <2> QED BY <1>2, <2>1 DEF Iterates
<1>4. f = [i \in 0 .. N |-> IF i = 0 THEN <<>> ELSE f[i - 1] \o EncodePair(ps[i])]
  BY <1>3, Zenon DEF f
<1>5. f = Wire(ps)
  BY DEF Wire
<1> HIDE DEF f, step, N
<1>6. f[0] = <<>>
  BY <1>0, <1>4
<1>7. ASSUME NEW i \in 0 .. N - 1 PROVE f[i + 1] = f[i] \o EncodePair(ps[i + 1])
  <2>1. i + 1 \in 0 .. N /\ i + 1 # 0 /\ (i + 1) - 1 = i
    BY <1>0
  <2>2. f[i + 1] = f[(i + 1) - 1] \o EncodePair(ps[i + 1])
    BY <1>4, <2>1
  <2> QED BY <2>1, <2>2
<1>8. \A i \in 0 .. N : f[i] \in Seq(Nat)
  <2> DEFINE T == {i \in 0 .. N : f[i] \in Seq(Nat)}
  <2>1. 0 \in T
    <3>1. <<>> \in Seq(Nat) /\ 0 \in 0 .. N
      BY <1>0
    <3> QED BY <1>6, <3>1
  <2>2. ASSUME NEW i \in 0 .. N - 1, i \in T PROVE i + 1 \in T
    <3>1. i + 1 \in 0 .. N /\ EncodePair(ps[i + 1]) \in Seq(Nat) /\ f[i] \in Seq(Nat)
      BY <1>0, <2>2
    <3>2. f[i + 1] = f[i] \o EncodePair(ps[i + 1])
      BY <1>7
    <3>3. f[i + 1] \in Seq(Nat)
      BY <3>1, <3>2, ConcatProperties
    <3> QED BY <3>1, <3>3
  <2> HIDE DEF T
  <2>3. \A i \in 0 .. N : i \in T
    BY <1>0, <2>1, <2>2, UpTo
  <2> QED BY <2>3 DEF T
<1>9. f \in [0 .. N -> Seq(Nat)]
  BY <1>4, <1>8
<1> QED BY <1>5, <1>6, <1>7, <1>9 DEF N

\* one more pair is its bytes more
LEMMA EncodeAppend ==
  ASSUME NEW ps \in Seq(Pair), NEW p \in Pair
  PROVE  /\ Encode(ps) \in Seq(Nat)
         /\ Encode(Append(ps, p)) = Encode(ps) \o EncodePair(p)
<1>1. PICK qs \in Seq(Pair) : qs = Append(ps, p)
  BY AppendProperties
<1>2. /\ Len(ps) \in Nat /\ Len(qs) = Len(ps) + 1 /\ qs[Len(ps) + 1] = p
      /\ \A i \in 1 .. Len(ps) : qs[i] = ps[i]
  BY <1>1, AppendProperties
<1>3. PICK v : v = Wire(ps)
  OBVIOUS
<1>4. PICK w : w = Wire(qs)
  OBVIOUS
<1>5. /\ v \in [0 .. Len(ps) -> Seq(Nat)] /\ v[0] = <<>>
      /\ \A i \in 0 .. Len(ps) - 1 : v[i + 1] = v[i] \o EncodePair(ps[i + 1])
  BY <1>3, WireIs
<1>6. /\ w[0] = <<>>
      /\ \A i \in 0 .. Len(ps) : w[i + 1] = w[i] \o EncodePair(qs[i + 1])
  <2>1. /\ w[0] = <<>>
        /\ \A i \in 0 .. Len(qs) - 1 : w[i + 1] = w[i] \o EncodePair(qs[i + 1])
    BY <1>4, WireIs
  <2>2. Len(qs) - 1 = Len(ps)
    BY <1>2
  <2> QED BY <2>1, <2>2
<1>7. \A i \in 0 .. Len(ps) : w[i] = v[i]
  <2> DEFINE T == {i \in 0 .. Len(ps) : w[i] = v[i]}
  <2>1. 0 \in T
    BY <1>2, <1>5, <1>6
  <2>2. ASSUME NEW i \in 0 .. Len(ps) - 1, i \in T PROVE i + 1 \in T
    <3>1. i \in 0 .. Len(ps) /\ i + 1 \in 0 .. Len(ps) /\ i + 1 \in 1 .. Len(ps) /\ w[i] = v[i]
      BY <1>2, <2>2
    <3>2. qs[i + 1] = ps[i + 1]
      BY <1>2, <3>1
    <3>3. w[i + 1] = v[i + 1]
      BY <1>5, <1>6, <2>2, <3>1, <3>2
    <3> QED BY <3>1, <3>3
  <2> HIDE DEF T
  <2>3. \A i \in 0 .. Len(ps) : i \in T
    BY <1>2, <2>1, <2>2, UpTo
  <2> QED BY <2>3 DEF T
<1>8. Len(ps) \in 0 .. Len(ps) /\ w[Len(ps) + 1] = v[Len(ps)] \o EncodePair(p)
  <2>1. Len(ps) \in 0 .. Len(ps)
    BY <1>2
  <2>2. w[Len(ps) + 1] = w[Len(ps)] \o EncodePair(qs[Len(ps) + 1])
    BY <1>6, <2>1
  <2> QED BY <1>2, <1>7, <2>1, <2>2
<1>9. Encode(ps) = v[Len(ps)] /\ Encode(qs) = w[Len(ps) + 1]
  BY <1>2, <1>3, <1>4, EncodeIsWire
<1> QED BY <1>1, <1>5, <1>8, <1>9

LEMMA EncodeEmpty == Encode(<<>>) = <<>>
<1>1. <<>> \in Seq(Pair) /\ Len(<<>>) = 0
  OBVIOUS
<1> QED BY <1>1, EncodeIsWire, WireIs

-----------------------------------------------------------------------------
(* What the parser has read so far *)

LEMMA TwoByteParts ==
  ASSUME NEW hi \in Byte, NEW lo \in Byte
  PROVE  (R * hi + lo) \div R = hi /\ (R * hi + lo) % R = lo
<1> DEFINE a == R * hi + lo
<1>1. R \in Nat /\ R >= 2 /\ hi \in Nat /\ lo \in 0 .. R - 1
  BY ParserAssumption DEF Byte
<1>2. a \in Int /\ a \div R \in Int /\ a % R \in 0 .. R - 1 /\ a = R * (a \div R) + (a % R)
  BY <1>1
<1>3. PICK p \in Int, s \in 0 .. R - 1 : p = a \div R /\ s = a % R /\ a = R * p + s
  BY <1>2
<1>4. R * (hi - p) = s - lo
  BY <1>1, <1>3
<1>5. hi = p
  <2>1. CASE hi - p >= 1
    <3>1. R * (hi - p) >= R
      BY <1>1, <1>3, <2>1
    <3> QED BY <1>1, <1>3, <1>4, <3>1
  <2>2. CASE p - hi >= 1
    <3>1. R * (p - hi) >= R
      BY <1>1, <1>3, <2>2
    <3>2. R * (p - hi) = lo - s
      BY <1>1, <1>3, <1>4
    <3> QED BY <1>1, <1>3, <3>1, <3>2
  <2> QED BY <1>1, <1>3, <2>1, <2>2
<1> QED BY <1>1, <1>3, <1>4, <1>5

LEMMA OneAndOne ==
  ASSUME NEW a \in Nat, NEW b \in Nat
  PROVE  <<a>> \o <<b>> = <<a, b>> /\ <<a>> \in Seq(Nat)
<1>0. <<a>> \in Seq(Nat) /\ <<b>> \in Seq(Nat) /\ <<a, b>> \in Seq(Nat)
  OBVIOUS
<1>1. PICK s \in Seq(Nat) : s = <<a>> /\ Len(s) = 1 /\ s[1] = a
  BY <1>0
<1>2. PICK t \in Seq(Nat) : t = <<b>> /\ Len(t) = 1 /\ t[1] = b
  BY <1>0
<1>3. PICK u \in Seq(Nat) : u = <<a, b>> /\ Len(u) = 2 /\ u[1] = a /\ u[2] = b
  BY <1>0
<1>4. PICK v \in Seq(Nat) : v = s \o t
  BY ConcatProperties
<1>5. Len(v) = 2 /\ v[1] = a /\ v[2] = b
  <2>1. /\ Len(v) = Len(s) + Len(t)
        /\ \A i \in 1 .. Len(s) + Len(t) : v[i] = IF i <= Len(s) THEN s[i] ELSE t[i - Len(s)]
    BY <1>4, ConcatProperties
  <2> QED BY <1>1, <1>2, <2>1
<1>6. \A i \in 1 .. Len(v) : v[i] = u[i]
  BY <1>3, <1>5
<1>7. v = u
  BY <1>3, <1>5, <1>6, SeqEqual
<1> QED BY <1>0, <1>1, <1>2, <1>3, <1>4, <1>7

\* the lengths on the wire are put together as they were taken apart
LEMMA LengthBytes ==
  ASSUME NEW hi \in Byte, NEW lo \in Byte
  PROVE  LenBytes(HighByte(hi) + lo) = <<hi>> \o <<lo>> /\ HighByte(hi) \div R = hi
<1>1. hi \in Nat /\ lo \in Nat /\ 0 \in Byte /\ R \in Nat
  BY ParserAssumption DEF Byte
<1>2. LenBytes(R * hi + lo) = <<hi, lo>>
  BY TwoByteParts DEF LenBytes
<1>3. (R * hi + 0) \div R = hi
  BY <1>1, TwoByteParts
<1>4. R * hi + 0 = R * hi
  BY <1>1
<1> QED BY <1>1, <1>2, <1>3, <1>4, OneAndOne DEF HighByte

LEMMA KeyLengthBytes ==
  ASSUME NEW lo \in Byte
  PROVE  LenBytes(lo) = <<0>> \o <<lo>>
<1>1. 0 \in Byte /\ R \in Nat /\ lo \in Nat
  BY ParserAssumption DEF Byte
<1>2. HighByte(0) + lo = lo
  BY <1>1 DEF HighByte
<1>3. LenBytes(HighByte(0) + lo) = <<0>> \o <<lo>>
  BY <1>1, LengthBytes
<1> QED BY <1>2, <1>3

LEMMA TakenFirst ==
  ASSUME buf \in Seq(Byte), buf # <<>>
  PROVE  Taken(1) = <<Head(buf)>>
<1>1. Len(buf) \in Nat /\ 1 \in 0 .. Len(buf) /\ 1 \in 1 .. Len(buf)
  BY FirstByte, LenProperties
<1>2. PICK t \in Seq(Byte) : t = Taken(1) /\ Len(t) = 1
  BY <1>1, TakenTyped
<1>3. t[1] = buf[1]
  <2>1. \A i \in 1 .. 1 : buf[i] \in Byte
    BY <1>1, ElementOfSeq
  <2>2. SubSeq(buf, 1, 1)[1] = buf[1]
    BY <2>1, SubSeqProperties
  <2> QED BY <1>2, <2>2 DEF Taken
<1>4. buf[1] = Head(buf) /\ Head(buf) \in Byte
  BY FirstByte
<1>5. <<Head(buf)>> \in Seq(Byte)
  BY <1>4
<1>6. PICK u \in Seq(Byte) : u = <<Head(buf)>> /\ Len(u) = 1 /\ u[1] = Head(buf)
  BY <1>5
<1>7. \A i \in 1 .. 1 : t[i] = u[i]
  BY <1>3, <1>4, <1>6
<1> QED BY <1>2, <1>6, <1>7, SeqEqual

Regroups(a, b, c) == a \o b \in Seq(Nat) /\ (a \o b) \o c = a \o (b \o c)

LEMMA Regroup == \A a, b, c \in Seq(Nat) : Regroups(a, b, c)
<1> TAKE a, b, c \in Seq(Nat)
<1>1. a \o b \in Seq(Nat)
  BY ConcatProperties
<1>2. (a \o b) \o c = a \o (b \o c)
  BY ConcatAssociative, SMTT(60)
<1> QED BY <1>1, <1>2 DEF Regroups

LEMMA PairsBytes == ASSUME IInv PROVE Encode(pairs) \in Seq(Nat)
<1>1. pairs \in Seq(Pair)
  BY DEF IInv, TypeOK
<1>2. [key |-> <<>>, val |-> <<>>] \in Pair
  BY EmptySeq DEF Pair
<1> QED BY <1>1, <1>2, EncodeAppend

\* the parser's variables spell numbers
LEMMA PartialBytes == ASSUME IInv PROVE Partial \in Seq(Nat)
<1>1. key_data \in Seq(Nat) /\ val_data \in Seq(Nat) /\ state \in States
  BY BytesAreNumbers DEF IInv, TypeOK
<1>2. CASE state = "KEY_LEN_READ"
  <2>1. PartialKey \in Seq(Nat)
    BY DEF PartialKey
  <2> QED BY <1>2, <2>1 DEF Partial
<1>3. ASSUME state # "KEY_LEN_READ" PROVE LenBytes(key_len) \o key_data \in Seq(Nat)
  <2>1. key_len \in Nat
    BY <1>1, <1>3, Lengths DEF IInv, TypeOK, ParserConsistent, States
  <2> QED BY <1>1, <2>1, LenBytesIs, ConcatProperties
<1>4. CASE state = "KEY_DATA_READ"
  BY <1>3, <1>4 DEF Partial
<1>5. CASE state = "VAL_LEN_READ"
  <2> DEFINE tail == IF val_len = -1 THEN <<>> ELSE <<val_len \div R>>
  <2>1. tail \in Seq(Nat)
    <3>1. CASE val_len = -1
      BY <3>1
    <3>2. CASE val_len # -1
      <4>1. val_len \in Nat
        BY <3>2, Lengths DEF IInv, TypeOK
      <4>2. val_len \div R \in Nat
        BY <4>1, LenBytesIs
      <4> QED BY <3>2, <4>2
    <3> QED BY <3>1, <3>2
  <2>2. Partial = (LenBytes(key_len) \o key_data) \o tail
    BY <1>5 DEF Partial
  <2> HIDE DEF tail
  <2>3. LenBytes(key_len) \o key_data \in Seq(Nat)
    BY <1>3, <1>5
  <2> QED BY <2>1, <2>2, <2>3, ConcatProperties
<1>6. CASE state = "VAL_DATA_READ"
  <2>1. LenBytes(key_len) \o key_data \in Seq(Nat)
    BY <1>3, <1>6
  <2>2. val_len \in Nat
    BY <1>1, <1>6, Lengths DEF IInv, TypeOK, ParserConsistent
  <2>3. LenBytes(val_len) \in Seq(Nat)
    BY <2>2, LenBytesIs
  <2>4. (LenBytes(key_len) \o key_data) \o LenBytes(val_len) \in Seq(Nat)
    BY <2>1, <2>3, ConcatProperties
  <2> QED BY <1>1, <1>6, <2>4, ConcatProperties DEF Partial
<1> QED BY <1>1, <1>2, <1>4, <1>5, <1>6 DEF States

\* a step that spells t more, and consumes t
LEMMA Spells ==
  ASSUME IInv, NothingLost, UNCHANGED <<error, pairs>>, NEW n \in 0 .. Len(buf),
         Take(n), Partial' = Partial \o Taken(n)
  PROVE  NothingLost'
<1> SUFFICES ASSUME error' = "OK"
             PROVE  consumed' = Encode(pairs') \o Partial'
  BY DEF NothingLost
<1>1. consumed = Encode(pairs) \o Partial /\ consumed' = consumed \o Taken(n)
  BY DEF NothingLost, Take
<1>2. PICK t \in Seq(Nat) : t = Taken(n)
  <2>1. Taken(n) \in Seq(Byte)
    BY TakenTyped DEF IInv, TypeOK
  <2> QED BY <2>1, BytesAreNumbers
<1>3. PICK p \in Seq(Nat) : p = Partial
  BY PartialBytes
<1>4. PICK e \in Seq(Nat) : e = Encode(pairs)
  BY PairsBytes
<1>5. consumed' = (e \o p) \o t
  BY <1>1, <1>2, <1>3, <1>4
<1>6. consumed' = e \o (p \o t)
  <2>1. Regroups(e, p, t)
    BY Regroup
  <2> QED BY <1>5, <2>1 DEF Regroups
<1>7. Encode(pairs') = e /\ Partial' = p \o t
  BY <1>2, <1>3, <1>4
<1> QED BY <1>6, <1>7

\* nothing is spelled between two boxes
LEMMA Unspelled ==
  ASSUME state = "KEY_LEN_READ", key_len = -1
  PROVE  Partial = <<>>
BY DEF Partial, PartialKey

LEMMA UnspelledNext ==
  ASSUME state' = "KEY_LEN_READ", key_len' = -1, consumed' = <<>>, pairs' = <<>>
  PROVE  NothingLost'
<1>1. Partial' = <<>>
  BY DEF Partial, PartialKey
<1>2. Encode(pairs') = <<>>
  BY EncodeEmpty
<1>3. <<>> \o <<>> = <<>>
  BY EmptySeq, ConcatEmptySeq
<1> QED BY <1>1, <1>2, <1>3 DEF NothingLost

LEMMA InitLost == Init => NothingLost
<1> SUFFICES ASSUME Init PROVE NothingLost
  OBVIOUS
<1>1. Partial = <<>>
  BY Unspelled DEF Init
<1>2. Encode(pairs) = <<>>
  BY EncodeEmpty DEF Init
<1>3. <<>> \o <<>> = <<>>
  BY EmptySeq, ConcatEmptySeq
<1> QED BY <1>1, <1>2, <1>3 DEF NothingLost, Init

LEMMA KeyLenFirstLost ==
  ASSUME IInv, NothingLost, KeyLenFirst
  PROVE  NothingLost'
<1>1. /\ buf \in Seq(Byte) /\ buf # <<>> /\ state = "KEY_LEN_READ" /\ key_len = -1
      /\ state' = state /\ pairs' = pairs
  BY DEF IInv, TypeOK, KeyLenFirst, Parsing
<1>2. CASE Head(buf) # 0
  <2>1. error' # "OK"
    BY <1>2 DEF KeyLenFirst, Fail
  <2> QED BY <2>1 DEF NothingLost
<1>3. CASE Head(buf) = 0
  <2>1. key_len' = 0 /\ Take(1) /\ error' = error
    BY <1>3 DEF KeyLenFirst
  <2>2. Partial = <<>> /\ Partial' = <<0>>
    BY <1>1, <2>1 DEF Partial, PartialKey
  <2>3. Taken(1) = <<0>> /\ 1 \in 0 .. Len(buf)
    BY <1>1, <1>3, TakenFirst, FirstByte
  <2>4. <<0>> \in Seq(Nat)
    BY OneAndOne
  <2>5. Partial' = Partial \o Taken(1)
    BY <2>2, <2>3, <2>4, ConcatEmptySeq
  <2> QED BY <1>1, <2>1, <2>3, <2>5, Spells
<1> QED BY <1>2, <1>3

LEMMA KeyLenSecondLost ==
  ASSUME IInv, NothingLost, KeyLenSecond
  PROVE  NothingLost'
<1>1. /\ buf \in Seq(Byte) /\ buf # <<>> /\ state = "KEY_LEN_READ" /\ key_len # -1
      /\ key_len' = Head(buf) /\ state' = "KEY_DATA_READ" /\ Take(1)
      /\ UNCHANGED <<key_data, error, pairs>>
  BY DEF IInv, TypeOK, KeyLenSecond, Parsing
<1>2. key_len = 0 /\ key_data = <<>>
  BY <1>1 DEF IInv, ParserConsistent
<1>3. Head(buf) \in Byte /\ 1 \in 0 .. Len(buf) /\ Taken(1) = <<Head(buf)>>
  BY <1>1, FirstByte, TakenFirst
<1>4. Partial = <<0>>
  BY <1>1, <1>2 DEF Partial, PartialKey
<1>5. Partial' = LenBytes(Head(buf)) \o <<>>
  BY <1>1, <1>2 DEF Partial
<1>6. LenBytes(Head(buf)) = <<0>> \o <<Head(buf)>> /\ LenBytes(Head(buf)) \in Seq(Nat)
  <2>1. ASSUME NEW lo \in Byte
        PROVE  LenBytes(lo) = <<0>> \o <<lo>> /\ LenBytes(lo) \in Seq(Nat)
    <3>1. lo \in Nat
      BY ParserAssumption DEF Byte
    <3> QED BY <3>1, KeyLengthBytes, LenBytesIs
  <2> QED BY <1>3, <2>1
<1>7. Partial' = Partial \o Taken(1)
  BY <1>3, <1>4, <1>5, <1>6, ConcatEmptySeq
<1> QED BY <1>1, <1>3, <1>7, Spells

LEMMA KeyDataLost ==
  ASSUME IInv, NothingLost, KeyData
  PROVE  NothingLost'
<1> DEFINE n == Smaller(Len(buf), key_len - Len(key_data))
<1>1. /\ buf \in Seq(Byte) /\ key_data \in Seq(Byte) /\ state = "KEY_DATA_READ"
      /\ key_len \in Nat /\ Len(key_data) < key_len /\ val_len = -1
  BY Lengths, LenProperties DEF IInv, TypeOK, ParserConsistent, KeyData, Parsing
<1>2. n \in 0 .. Len(buf)
  BY <1>1, LenProperties DEF Smaller
<1>3. /\ key_data' = key_data \o Taken(n) /\ Take(n) /\ state' \in {"KEY_DATA_READ", "VAL_LEN_READ"}
      /\ UNCHANGED <<key_len, val_len, error, pairs>>
  BY <1>1 DEF KeyData
<1> HIDE DEF n
<1>4. PICK t \in Seq(Nat), k \in Seq(Nat), l \in Seq(Nat) :
        t = Taken(n) /\ k = key_data /\ l = LenBytes(key_len)
  BY <1>1, <1>2, TakenTyped, BytesAreNumbers, LenBytesIs
<1>5. Partial = l \o k
  BY <1>1, <1>4 DEF Partial
<1>6. l \o (k \o t) \in Seq(Nat) /\ (l \o (k \o t)) \o <<>> = l \o (k \o t)
  BY ConcatProperties, ConcatEmptySeq
<1>7. Partial' = l \o (k \o t)
  <2>1. CASE state' = "KEY_DATA_READ"
    BY <1>3, <1>4, <2>1 DEF Partial
  <2>2. CASE state' = "VAL_LEN_READ"
    <3>1. Partial' = LenBytes(key_len') \o key_data' \o <<>>
      BY <1>1, <1>3, <2>2 DEF Partial
    <3> QED BY <1>3, <1>4, <1>6, <3>1
  <2> QED BY <1>3, <2>1, <2>2
<1>8. Partial' = Partial \o Taken(n)
  <2>1. Partial \o Taken(n) = (l \o k) \o t
    BY <1>4, <1>5
  <2>2. (l \o k) \o t = l \o (k \o t)
    <3>1. Regroups(l, k, t)
      BY Regroup
    <3> QED BY ONLY <3>1 DEF Regroups
  <2> QED BY <1>7, <2>1, <2>2
<1> QED BY <1>2, <1>3, <1>8, Spells

\* what follows the key's length and bytes, k, in every later state of the pair
LEMMA KeySpelled ==
  ASSUME IInv, state \in {"VAL_LEN_READ", "VAL_DATA_READ"}
  PROVE  \E k \in Seq(Nat) : k = LenBytes(key_len) \o key_data
<1>1. key_data \in Seq(Nat)
  BY BytesAreNumbers DEF IInv, TypeOK
<1>2. key_len \in Nat
  BY Lengths DEF IInv, TypeOK, ParserConsistent
<1>3. LenBytes(key_len) \o key_data \in Seq(Nat)
  BY <1>1, <1>2, LenBytesIs, ConcatProperties
<1> QED BY <1>3

LEMMA ValLenFirstLost ==
  ASSUME IInv, NothingLost, ValLenFirst
  PROVE  NothingLost'
<1>1. /\ buf \in Seq(Byte) /\ buf # <<>> /\ state = "VAL_LEN_READ" /\ val_len = -1
      /\ val_len' = HighByte(Head(buf)) /\ Take(1)
      /\ UNCHANGED <<state, key_len, key_data, error, pairs>>
  BY DEF IInv, TypeOK, ValLenFirst, Parsing
<1>2. Head(buf) \in Byte /\ 1 \in 0 .. Len(buf) /\ Taken(1) = <<Head(buf)>>
  BY <1>1, FirstByte, TakenFirst
<1>3. PICK k \in Seq(Nat) : k = LenBytes(key_len) \o key_data
  BY <1>1, KeySpelled
<1>4. val_len' # -1 /\ val_len' \div R = Head(buf)
  <2>1. ASSUME NEW hi \in Byte
        PROVE  HighByte(hi) # -1 /\ HighByte(hi) \div R = hi
    <3>1. HighByte(hi) \in 0 .. MAX_VAL_LENGTH
      BY TwoByteLength
    <3>2. HighByte(hi) \div R = hi
      BY LengthBytes
    <3> QED BY <3>1, <3>2, Lengths
  <2> QED BY <1>1, <1>2, <2>1
<1>5. Partial = k
  <2>1. Partial = LenBytes(key_len) \o key_data \o <<>>
    BY <1>1 DEF Partial
  <2> QED BY <1>3, <2>1, ConcatEmptySeq
<1>6. Partial' = k \o <<Head(buf)>>
  BY <1>1, <1>3, <1>4 DEF Partial
<1>7. Partial' = Partial \o Taken(1)
  BY <1>2, <1>5, <1>6
<1> QED BY <1>1, <1>2, <1>7, Spells

LEMMA ValLenSecondLost ==
  ASSUME IInv, NothingLost, ValLenSecond
  PROVE  NothingLost'
<1>1. /\ buf \in Seq(Byte) /\ buf # <<>> /\ state = "VAL_LEN_READ" /\ val_len # -1
      /\ val_len' = val_len + Head(buf) /\ state' = "VAL_DATA_READ" /\ Take(1)
      /\ UNCHANGED <<key_len, key_data, val_data, error, pairs>>
  BY DEF IInv, TypeOK, ValLenSecond, Parsing
<1>2. PICK lo \in Byte : lo = Head(buf) /\ 1 \in 0 .. Len(buf) /\ Taken(1) = <<lo>>
  BY <1>1, FirstByte, TakenFirst
<1>3. PICK hi \in Byte : val_len = HighByte(hi)
  BY <1>1 DEF IInv, ParserConsistent
<1>4. val_data = <<>>
  BY <1>1 DEF IInv, ParserConsistent
<1>5. PICK k \in Seq(Nat) : k = LenBytes(key_len) \o key_data
  BY <1>1, KeySpelled
<1>6. PICK h \in Seq(Nat) : h = <<hi>>
  <2>1. hi \in Nat
    BY ParserAssumption DEF Byte
  <2>2. <<hi>> \in Seq(Nat)
    BY <2>1
  <2> QED BY <2>2
<1>7. PICK l \in Seq(Nat) : l = <<lo>>
  <2>1. lo \in Nat
    BY ParserAssumption DEF Byte
  <2>2. <<lo>> \in Seq(Nat)
    BY <2>1
  <2> QED BY <2>2
<1>8. LenBytes(val_len') = h \o l /\ val_len \div R = hi
  BY <1>1, <1>2, <1>3, <1>6, <1>7, LengthBytes
<1>9. Partial = k \o h
  BY <1>1, <1>5, <1>6, <1>8 DEF Partial
<1>10. Partial' = k \o (h \o l)
  <2>1. Partial' = LenBytes(key_len') \o key_data' \o LenBytes(val_len') \o val_data'
    BY <1>1 DEF Partial
  <2>2. Partial' = (k \o (h \o l)) \o <<>>
    BY <1>1, <1>4, <1>5, <1>8, <2>1
  <2>3. k \o (h \o l) \in Seq(Nat)
    BY ConcatProperties
  <2> QED BY <2>2, <2>3, ConcatEmptySeq
<1>11. Partial' = Partial \o Taken(1)
  <2>1. Partial \o Taken(1) = (k \o h) \o l
    BY <1>2, <1>7, <1>9
  <2>2. (k \o h) \o l = k \o (h \o l)
    <3>1. Regroups(k, h, l)
      BY Regroup
    <3> QED BY ONLY <3>1 DEF Regroups
  <2> QED BY <1>10, <2>1, <2>2
<1> QED BY <1>1, <1>2, <1>11, Spells

\* while a value is read: k is the key and both lengths, v the bytes so far
LEMMA ValueSpelled ==
  ASSUME IInv, state = "VAL_DATA_READ"
  PROVE  \E k \in Seq(Nat), v \in Seq(Nat) :
           /\ k = LenBytes(key_len) \o key_data \o LenBytes(val_len) /\ v = val_data
           /\ Partial = k \o v
<1>1. PICK a \in Seq(Nat) : a = LenBytes(key_len) \o key_data
  BY KeySpelled
<1>2. val_len \in Nat
  BY Lengths, LenProperties DEF IInv, TypeOK, ParserConsistent
<1>3. PICK k \in Seq(Nat) : k = a \o LenBytes(val_len)
  BY <1>2, LenBytesIs, ConcatProperties
<1>4. PICK v \in Seq(Nat) : v = val_data
  BY BytesAreNumbers DEF IInv, TypeOK
<1>5. Partial = k \o v
  BY <1>1, <1>3, <1>4 DEF Partial
<1> QED BY <1>1, <1>3, <1>4, <1>5

LEMMA ValDataPartLost ==
  ASSUME IInv, NothingLost, ValDataPart
  PROVE  NothingLost'
<1>1. /\ buf \in Seq(Byte) /\ state = "VAL_DATA_READ"
      /\ val_data' = val_data \o buf /\ Take(Len(buf))
      /\ UNCHANGED <<state, key_len, key_data, val_len, error, pairs>>
  BY DEF IInv, TypeOK, ValDataPart, Parsing
<1>2. PICK k \in Seq(Nat), v \in Seq(Nat) :
        /\ k = LenBytes(key_len) \o key_data \o LenBytes(val_len) /\ v = val_data
        /\ Partial = k \o v
  BY <1>1, ValueSpelled
<1>3. PICK t \in Seq(Nat) : t = buf /\ t = Taken(Len(buf))
  BY <1>1, BytesAreNumbers, SubSeqFull DEF Taken
<1>4. Len(buf) \in 0 .. Len(buf)
  BY <1>1, LenProperties, SMTT(60)
<1>5. Partial' = k \o (v \o t)
  BY <1>1, <1>2, <1>3, Zenon DEF Partial
<1>6. Partial' = Partial \o Taken(Len(buf))
  <2>1. Partial \o Taken(Len(buf)) = (k \o v) \o t
    BY <1>2, <1>3, Zenon
  <2>2. (k \o v) \o t = k \o (v \o t)
    <3>1. Regroups(k, v, t)
      BY Regroup
    <3> QED BY ONLY <3>1 DEF Regroups
  <2> QED BY <1>5, <2>1, <2>2, SMTT(60)
<1> QED BY <1>1, <1>4, <1>6, Spells

LEMMA ValDataStoredLost ==
  ASSUME IInv, NothingLost, ValDataStored
  PROVE  NothingLost'
<1>1. PICK n \in 0 .. Len(buf) :
        /\ EndOfValue(n) /\ NextKey /\ Take(n) /\ UNCHANGED error
        /\ pairs' = Append(pairs, [key |-> key_data, val |-> val_data \o Taken(n)])
  BY DEF ValDataStored
<1>2. Parsing("VAL_DATA_READ") /\ n = val_len - Len(val_data)
  BY <1>1 DEF EndOfValue
<1> SUFFICES ASSUME error' = "OK"
             PROVE  consumed' = Encode(pairs') \o Partial'
  BY DEF NothingLost
<1>3. PICK k \in Seq(Nat), v \in Seq(Nat) :
        /\ k = LenBytes(key_len) \o key_data \o LenBytes(val_len) /\ v = val_data
        /\ Partial = k \o v
  BY <1>2, ValueSpelled DEF Parsing
<1>4. PICK t \in Seq(Nat) : t = Taken(n)
  BY TakenTyped, BytesAreNumbers DEF IInv, TypeOK
<1>5. PICK p \in Pair : /\ p = [key |-> key_data, val |-> v \o t]
                        /\ Len(p.key) = key_len /\ Len(p.val) = val_len
  <2>0. TypeOK /\ val_len \in Nat /\ Len(val_data) \in Nat
    BY <1>2, InValue, Lengths
  <2>1. val_data \o Taken(n) \in Seq(Byte) /\ Len(val_data \o Taken(n)) = val_len
    <3>1. /\ val_data \o Taken(n) \in Seq(Byte)
          /\ Len(val_data \o Taken(n)) = Len(val_data) + n
      BY <2>0, FetchValue
    <3> QED BY <1>2, <2>0, <3>1
  <2>2. key_data \in Seq(Byte) /\ Len(key_data) = key_len
    BY <1>2, InValue DEF TypeOK
  <2>3. [key |-> key_data, val |-> val_data \o Taken(n)] \in Pair
    BY <2>1, <2>2 DEF Pair
  <2> QED BY <1>3, <1>4, <2>1, <2>2, <2>3
<1>6. EncodePair(p) = k \o (v \o t)
  BY <1>3, <1>5 DEF EncodePair
<1>7. PICK e \in Seq(Nat) : e = Encode(pairs) /\ Encode(pairs') = e \o EncodePair(p)
  <2>1. pairs \in Seq(Pair) /\ pairs' = Append(pairs, p)
    BY <1>1, <1>3, <1>4, <1>5 DEF IInv, TypeOK
  <2> QED BY <2>1, EncodeAppend
<1>8. consumed' = (e \o (k \o v)) \o t
  BY <1>1, <1>3, <1>4, <1>7 DEF NothingLost, Take
<1>9. Encode(pairs') \o Partial' = e \o (k \o (v \o t))
  <2>1. Partial' = <<>>
    BY <1>1 DEF Partial, PartialKey, NextKey
  <2>2. k \o (v \o t) \in Seq(Nat)
    BY ConcatProperties
  <2>3. e \o (k \o (v \o t)) \in Seq(Nat)
    BY <2>2, ConcatProperties
  <2> QED BY <1>6, <1>7, <2>1, <2>3, ConcatEmptySeq
<1>10. (e \o (k \o v)) \o t = e \o (k \o (v \o t))
  <2>1. k \o v \in Seq(Nat) /\ (k \o v) \o t = k \o (v \o t)
    <3>1. Regroups(k, v, t)
      BY Regroup
    <3> QED BY ONLY <3>1 DEF Regroups
  <2>2. PICK z \in Seq(Nat) : z = k \o v
    BY <2>1
  <2>3. (e \o z) \o t = e \o (z \o t)
    <3>1. Regroups(e, z, t)
      BY Regroup
    <3> QED BY ONLY <3>1 DEF Regroups
  <2>4. (e \o (k \o v)) \o t = e \o ((k \o v) \o t)
    BY <2>2, <2>3
  <2> QED BY <2>1, <2>4
<1> QED BY <1>8, <1>9, <1>10

\* an action that fails says nothing of the bytes that follow
LEMMA NothingLostStep ==
  ASSUME IInv, NothingLost, [Next]_vars
  PROVE  NothingLost'
<1>1. CASE BoxFails
  <2>1. error' # "OK"
    BY <1>1 DEF BoxFails, Fail
  <2> QED BY <2>1 DEF NothingLost
<1>2. CASE ValDataRefused
  <2>1. error' # "OK"
    BY <1>2 DEF ValDataRefused, Fail
  <2> QED BY <2>1 DEF NothingLost
<1>3. CASE BoxDispatched
  BY <1>3, UnspelledNext DEF BoxDispatched, EndOfBox, Parsing
<1>4. CASE Reset
  BY <1>4, UnspelledNext DEF Reset, NextKey
<1>5. CASE ParseStep
  BY <1>1, <1>2, <1>3, <1>5, KeyLenFirstLost, KeyLenSecondLost, KeyDataLost, ValLenFirstLost,
     ValLenSecondLost, ValDataPartLost, ValDataStoredLost DEF ParseStep
<1>6. CASE \E chunk \in Chunks : Consume(chunk)
  BY <1>6 DEF Consume, parserVars, historyVars, NothingLost, Partial, PartialKey
<1>7. CASE UNCHANGED vars
  BY <1>7 DEF vars, parserVars, historyVars, NothingLost, Partial, PartialKey
<1> QED BY <1>4, <1>5, <1>6, <1>7 DEF Next

(* However the peer's stream is cut into amp_consume_bytes calls, the pairs *)
(* stored and the parser's variables spell exactly the bytes consumed since *)
(* the box began.                                                           *)
THEOREM NothingIsLost == Spec => []NothingLost
<1>1. Init => IInv /\ NothingLost
  BY InitIInv, InitLost
<1>2. IInv /\ NothingLost /\ [Next]_vars => IInv' /\ NothingLost'
  BY NextIInv, NothingLostStep
<1> QED
  BY <1>1, <1>2, PTL DEF Spec

-----------------------------------------------------------------------------
(* The box under construction *)

LEMMA Greatest ==
  ASSUME NEW N \in Nat, NEW T, T \subseteq 1 .. N, T # {}
  PROVE  Max(T) \in T /\ \A y \in T : Max(T) >= y
<1> DEFINE U == {N - x : x \in T}
<1>1. U \subseteq Nat /\ U # {}
  <2>1. ASSUME NEW x \in T PROVE N - x \in Nat /\ N - x \in U
    OBVIOUS
  <2> QED BY <2>1
<1>2. PICK u \in U : \A y \in U : u <= y
  BY <1>1, Least
<1>3. PICK m \in T : u = N - m
  OBVIOUS
<1>4. ASSUME NEW y \in T PROVE m >= y
  <2>1. N - y \in U
    OBVIOUS
  <2>2. N - m <= N - y
    BY <1>2, <1>3, <2>1
  <2> QED BY <2>2
<1> HIDE DEF U
<1>5. \E x \in T : \A y \in T : x >= y
  BY <1>4
<1> QED BY <1>5 DEF Max

\* the places where a key is written, and the last of them
Writes(ps, k) == {i \in 1 .. Len(ps) : KeyString(ps[i].key) = k}

LEMMA LastWritesIs ==
  ASSUME NEW ps \in Seq(Pair)
  PROVE  /\ DOMAIN LastWrites(ps) = {KeyString(ps[i].key) : i \in 1 .. Len(ps)}
         /\ LastWrites(ps) = [k \in DOMAIN LastWrites(ps) |-> LastWrites(ps)[k]]
         /\ \A k \in DOMAIN LastWrites(ps) :
              /\ Writes(ps, k) # {}
              /\ LastWrites(ps)[k] = ps[Max(Writes(ps, k))].val
<1> DEFINE keys    == {KeyString(ps[i].key) : i \in DOMAIN ps}
           last(k) == SelectLastInSeq(ps, LAMBDA p : KeyString(p.key) = k)
<1>1. LastWrites(ps) = [k \in keys |-> ps[last(k)].val]
  BY DEF LastWrites
<1>2. keys = {KeyString(ps[i].key) : i \in 1 .. Len(ps)}
  BY LenProperties
<1>3. ASSUME NEW k \in keys
      PROVE  Writes(ps, k) # {} /\ last(k) = Max(Writes(ps, k))
  <2>1. Writes(ps, k) # {}
    BY <1>2, <1>3 DEF Writes
  <2>2. last(k) = IF Writes(ps, k) # {} THEN Max(Writes(ps, k)) ELSE 0
    BY DEF SelectLastInSeq, Writes
  <2> QED BY <2>1, <2>2
<1> HIDE DEF keys, last
<1> QED BY <1>1, <1>2, <1>3

(* One more write: the box of the pairs read is what _amp_put_buf stores.   *)
LEMMA LastWritesAppend ==
  ASSUME NEW ps \in Seq(Pair), NEW p \in Pair
  PROVE  LastWrites(Append(ps, p)) = Stored(LastWrites(ps), KeyString(p.key), p.val)
<1>1. PICK qs \in Seq(Pair) : qs = Append(ps, p)
  BY AppendProperties
<1>2. PICK N \in Nat : N = Len(ps)
  BY LenProperties
<1>3. Len(qs) = N + 1 /\ qs[N + 1] = p /\ \A i \in 1 .. N : qs[i] = ps[i]
  BY <1>1, <1>2, AppendProperties
<1>4. PICK key : key = KeyString(p.key)
  OBVIOUS
<1>5. PICK old : /\ old = LastWrites(ps)
                 /\ DOMAIN old = {KeyString(ps[i].key) : i \in 1 .. N}
                 /\ \A k \in DOMAIN old : /\ Writes(ps, k) # {}
                                         /\ old[k] = ps[Max(Writes(ps, k))].val
  BY <1>2, LastWritesIs, ZenonT(120)
<1>6. PICK new : /\ new = LastWrites(qs)
                 /\ new = [k \in DOMAIN new |-> new[k]]
                 /\ DOMAIN new = {KeyString(qs[i].key) : i \in 1 .. N + 1}
                 /\ \A k \in DOMAIN new : /\ Writes(qs, k) # {}
                                         /\ new[k] = qs[Max(Writes(qs, k))].val
  BY <1>3, LastWritesIs, ZenonT(120)
<1>7. DOMAIN new = DOMAIN old \cup {key}
  <2>1. ASSUME NEW k \in DOMAIN new PROVE k \in DOMAIN old \cup {key}
    <3>1. PICK i \in 1 .. N + 1 : k = KeyString(qs[i].key)
      BY <1>6
    <3>2. i \in 1 .. N \/ i = N + 1
      BY <1>2
    <3> QED BY <1>3, <1>4, <1>5, <3>1, <3>2
  <2>2. ASSUME NEW k \in DOMAIN old PROVE k \in DOMAIN new
    <3>1. PICK i \in 1 .. N : k = KeyString(ps[i].key)
      BY <1>5
    <3>2. i \in 1 .. N + 1 /\ k = KeyString(qs[i].key)
      BY <1>3, <3>1
    <3> QED BY <1>6, <3>2
  <2>3. key \in DOMAIN new
    <3>1. N + 1 \in 1 .. N + 1
      BY <1>2
    <3> QED BY <1>3, <1>4, <1>6, <3>1
  <2> QED BY <2>1, <2>2, <2>3
<1>8. new[key] = p.val
  <2>1. Writes(qs, key) \subseteq 1 .. N + 1 /\ N + 1 \in Writes(qs, key)
    BY <1>2, <1>3, <1>4 DEF Writes
  <2>2. PICK m \in 1 .. N + 1 : m = Max(Writes(qs, key)) /\ m >= N + 1
    BY <2>1, Greatest
  <2>3. m = N + 1
    BY <2>2
  <2> QED BY <1>3, <1>6, <1>7, <2>2, <2>3, ZenonT(120)
<1>9. ASSUME NEW k \in DOMAIN old, k # key PROVE new[k] = old[k]
  <2>1. Writes(qs, k) = Writes(ps, k)
    <3>1. ASSUME NEW i \in 1 .. N + 1, KeyString(qs[i].key) = k
          PROVE  i \in 1 .. N /\ KeyString(ps[i].key) = k
      <4>1. i # N + 1
        BY <1>3, <1>4, <1>9, <3>1
      <4> QED BY <1>3, <3>1, <4>1
    <3>2. ASSUME NEW i \in 1 .. N, KeyString(ps[i].key) = k
          PROVE  i \in 1 .. N + 1 /\ KeyString(qs[i].key) = k
      BY <1>3, <3>2
    <3> QED BY <1>2, <1>3, <3>1, <3>2 DEF Writes
  <2>2. Writes(ps, k) \subseteq 1 .. N /\ Writes(ps, k) # {}
    BY <1>2, <1>5, <1>9 DEF Writes
  <2>3. PICK m \in 1 .. N : m = Max(Writes(ps, k))
    BY <2>2, Greatest
  <2>4. new[k] = qs[m].val /\ old[k] = ps[m].val
    BY <1>5, <1>6, <1>7, <1>9, <2>1, <2>3
  <2> QED BY <1>3, <2>3, <2>4
<1>10. new = [k \in DOMAIN old \cup {key} |-> IF k = key THEN p.val ELSE old[k]]
  BY <1>6, <1>7, <1>8, <1>9
<1> QED BY <1>1, <1>4, <1>5, <1>6, <1>10 DEF Stored

LEMMA NoWrites == LastWrites(<<>>) = NoKeys
<1>1. PICK e \in Seq(Pair) : e = <<>> /\ Len(e) = 0
  BY EmptySeq
<1>2. DOMAIN LastWrites(e) = {}
  <2>1. DOMAIN LastWrites(e) = {KeyString(e[i].key) : i \in 1 .. Len(e)}
    BY LastWritesIs
  <2>2. 1 .. Len(e) = {}
    BY <1>1
  <2> QED BY <2>1, <2>2
<1>3. LastWrites(e) = [k \in {} |-> LastWrites(e)[k]]
  BY <1>2, LastWritesIs
<1> QED BY <1>1, <1>3 DEF NoKeys

LEMMA BoxIsLastWriteStep ==
  ASSUME IInv, BoxIsLastWrite, [Next]_vars
  PROVE  BoxIsLastWrite'
<1>1. CASE UNCHANGED <<box, pairs>>
  BY <1>1 DEF BoxIsLastWrite
<1>2. CASE box' = NoKeys /\ pairs' = <<>>
  BY <1>2, NoWrites DEF BoxIsLastWrite
<1>3. CASE ValDataStored
  <2>1. PICK n \in 0 .. Len(buf) :
          /\ EndOfValue(n)
          /\ box' = Stored(box, KeyString(key_data), val_data \o Taken(n))
          /\ pairs' = Append(pairs, [key |-> key_data, val |-> val_data \o Taken(n)])
    BY <1>3 DEF ValDataStored
  <2>2. TypeOK /\ pairs \in Seq(Pair) /\ key_data \in Seq(Byte)
    BY DEF IInv, TypeOK
  <2>3. PICK v \in Seq(Byte) : v = val_data \o Taken(n)
    BY <2>2, FetchValue
  <2>4. PICK p \in Pair : p = [key |-> key_data, val |-> v] /\ p.key = key_data /\ p.val = v
    <3>1. [key |-> key_data, val |-> v] \in Pair
      BY <2>2 DEF Pair
    <3> QED BY <3>1
  <2>5. LastWrites(Append(pairs, p)) = Stored(LastWrites(pairs), KeyString(p.key), p.val)
    BY <2>2, LastWritesAppend
  <2> QED BY <2>1, <2>3, <2>4, <2>5 DEF BoxIsLastWrite
<1>4. UNCHANGED <<box, pairs>> \/ (box' = NoKeys /\ pairs' = <<>>) \/ ValDataStored
  BY DEF Next, vars, Reset, historyVars, Consume, ParseStep, KeyLenFirst, KeyLenSecond, BoxFails,
         BoxDispatched, KeyData, ValLenFirst, ValLenSecond, ValDataPart, ValDataRefused
<1> QED BY <1>1, <1>2, <1>3, <1>4

(* The box that is dispatched is the one the peer sent: for each key, the   *)
(* last value read since the previous box ended, and nothing else.          *)
THEOREM BoxIsWhatWasRead == Spec => []BoxIsLastWrite
<1>1. Init => IInv /\ BoxIsLastWrite
  BY InitIInv, NoWrites DEF Init, BoxIsLastWrite
<1>2. IInv /\ BoxIsLastWrite /\ [Next]_vars => IInv' /\ BoxIsLastWrite'
  BY NextIInv, BoxIsLastWriteStep
<1> QED
  BY <1>1, <1>2, PTL DEF Spec
=============================================================================
