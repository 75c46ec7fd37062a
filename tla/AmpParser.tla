------------------------------ MODULE AmpParser -----------------------------
(***************************************************************************)
(* The incremental parser of amp_consume_bytes and amp_parse_box (amp.c):   *)
(* one action per iteration of the parser's loop, on chunks cut anywhere.   *)
(* A box on the wire is a list of (key, value) pairs, each with a two-byte  *)
(* length before it, ended by a key of length 0.  The radix of a byte, 256  *)
(* in the code, is a parameter, so that all lengths occur on small inputs.  *)
(* What dispatching a box does is in AmpProto; here it succeeds or not, and *)
(* the box that follows it is assumed to be allocated (see ReadyOrError     *)
(* there).                                                                  *)
(***************************************************************************)
EXTENDS Integers, Sequences, SequencesExt

CONSTANTS
  R,         \* number of values of a byte
  MaxWire,   \* bound on the bytes of one box
  MaxChunk   \* bound on the bytes given to one amp_consume_bytes

ASSUME ParserAssumption ==
  R \in Nat /\ R >= 2 /\ MaxWire \in Nat /\ MaxChunk \in Nat

Byte           == 0 .. R - 1
NUL            == 0
MAX_KEY_LENGTH == R - 1
MAX_VAL_LENGTH == R * R - 1

VARIABLES
  state,     \* proto->state
  error,     \* proto->error; "OK" is 0
  key_len,   \* proto->key_len
  key_data,  \* the key_data_fetched bytes read into proto->key_data
  val_len,   \* proto->val_len
  val_data,  \* the val_data_fetched bytes read into proto->val_data
  box,       \* proto->box: key -> value
  buf,       \* bytes the running amp_consume_bytes has yet to look at
  \* history, for the properties only
  consumed,  \* bytes consumed since the current box began
  pairs      \* the pairs read since then

parserVars  == <<state, key_len, key_data, val_len, val_data>>
historyVars == <<consumed, pairs>>
vars == <<parserVars, error, box, buf, historyVars>>

States == {"KEY_LEN_READ", "KEY_DATA_READ", "VAL_LEN_READ", "VAL_DATA_READ"}
Errors == {"OK", "ENOMEM", "AMP_BAD_KEY_SIZE", "AMP_BOX_EMPTY", "DISPATCH_ERROR"}
Pair   == [key : Seq(Byte), val : Seq(Byte)]
NoKeys == [k \in {} |-> <<>>]

TypeOK ==
  /\ state \in States
  /\ error \in Errors
  /\ key_len \in -1 .. MAX_KEY_LENGTH
  /\ val_len \in -1 .. MAX_VAL_LENGTH
  /\ key_data \in Seq(Byte)
  /\ val_data \in Seq(Byte)
  /\ buf \in Seq(Byte)
  /\ consumed \in Seq(Byte)
  /\ pairs \in Seq(Pair)

Init ==
  /\ state = "KEY_LEN_READ"
  /\ error = "OK"
  /\ key_len = -1 /\ key_data = <<>>
  /\ val_len = -1 /\ val_data = <<>>
  /\ box = NoKeys
  /\ buf = <<>>
  /\ consumed = <<>>
  /\ pairs = <<>>

-----------------------------------------------------------------------------
(* Helpers *)

Smaller(a, b) == IF a <= b THEN a ELSE b

\* the first n bytes of buf are consumed
Taken(n)  == SubSeq(buf, 1, n)
Rest(n)   == SubSeq(buf, n + 1, Len(buf))
Take(n)   == buf' = Rest(n) /\ consumed' = consumed \o Taken(n)

\* amp_consume_bytes returns an error: the rest of its buffer is dropped
Fail(n, code) == /\ error' = code
                 /\ buf' = <<>>
                 /\ consumed' = consumed \o Taken(n)

HighByte_NotShifted(b) == b
HighByte_TooFar(b) == R * R * b
\* the first of two length bytes
HighByte(b) == R * b

\* a key is stored as a C string, up to its first NUL
KeyString(k) ==
  LET i == SelectInSeq(k, LAMBDA b : b = NUL)
  IN  IF i = 0 THEN k ELSE SubSeq(k, 1, i - 1)

Stored_FirstWins(b, k, v) ==
  [x \in DOMAIN b \cup {k} |-> IF x \in DOMAIN b THEN b[x] ELSE v]
\* _amp_put_buf: a key that is there gets the new value
Stored(b, k, v) ==
  [x \in DOMAIN b \cup {k} |-> IF x = k THEN v ELSE b[x]]

Parsing(s) == buf # <<>> /\ state = s

\* the parser's variables, ready for the next key
NextKey_KeepsValue == /\ state' = "KEY_LEN_READ" /\ key_len' = -1 /\ key_data' = <<>>
                      /\ val_len' = -1 /\ UNCHANGED val_data
NextKey == /\ state' = "KEY_LEN_READ"
           /\ key_len' = -1 /\ key_data' = <<>>
           /\ val_len' = -1 /\ val_data' = <<>>

-----------------------------------------------------------------------------
(* The API *)

Chunks == UNION {[1 .. n -> Byte] : n \in 1 .. MaxChunk}

CanConsume_IgnoresError == buf = <<>>
CanConsume == buf = <<>> /\ error = "OK"

(* amp_consume_bytes is called with one more chunk.                         *)
Consume(chunk) ==
  /\ CanConsume
  /\ Len(consumed) + Len(chunk) <= MaxWire
  /\ buf' = chunk
  /\ UNCHANGED <<parserVars, error, box, historyVars>>

(* amp_reset_proto, between two chunks.                                     *)
Reset ==
  /\ buf = <<>>
  /\ NextKey
  /\ error' = "OK"
  /\ box' = NoKeys
  /\ consumed' = <<>> /\ pairs' = <<>>
  /\ UNCHANGED buf

-----------------------------------------------------------------------------
(* One iteration of the loop of amp_parse_box *)

(* First byte of a key length: it must be zero.                             *)
KeyLenFirst ==
  /\ Parsing("KEY_LEN_READ") /\ key_len = -1
  /\ IF Head(buf) # 0
     THEN Fail(1, "AMP_BAD_KEY_SIZE") /\ UNCHANGED key_len
     ELSE key_len' = 0 /\ Take(1) /\ UNCHANGED error
  /\ UNCHANGED <<state, key_data, val_len, val_data, box, pairs>>

(* Second byte of a key length, not zero.                                   *)
KeyLenSecond ==
  /\ Parsing("KEY_LEN_READ") /\ key_len # -1 /\ Head(buf) # 0
  /\ key_len' = Head(buf)
  /\ state' = "KEY_DATA_READ"
  /\ Take(1)
  /\ UNCHANGED <<key_data, val_len, val_data, error, box, pairs>>

\* amp_parse_box returns 1: only key_len is put back, the other variables are
\* trusted to be as after a value
EndOfBox ==
  /\ Parsing("KEY_LEN_READ") /\ key_len # -1 /\ Head(buf) = 0
  /\ key_len' = -1
  /\ UNCHANGED <<state, key_data, val_len, val_data>>

(* An empty box, or one whose dispatch fails, is fatal.                     *)
BoxFails ==
  /\ EndOfBox
  /\ Fail(1, IF box = NoKeys THEN "AMP_BOX_EMPTY" ELSE "DISPATCH_ERROR")
  /\ UNCHANGED <<box, pairs>>

(* Another box is dispatched, and amp_consume_bytes goes on with a new one. *)
BoxDispatched ==
  /\ EndOfBox /\ box # NoKeys
  /\ box' = NoKeys
  /\ pairs' = <<>> /\ consumed' = <<>>
  /\ buf' = Rest(1)
  /\ UNCHANGED error

(* As much of the key as is there.                                          *)
KeyData ==
  LET needed == key_len - Len(key_data)
      n      == Smaller(Len(buf), needed)
  IN
  /\ Parsing("KEY_DATA_READ")
  /\ key_data' = key_data \o Taken(n)
  /\ state' = IF Len(buf) < needed THEN state ELSE "VAL_LEN_READ"
  /\ Take(n)
  /\ UNCHANGED <<key_len, val_len, val_data, error, box, pairs>>

ValLenFirst ==
  /\ Parsing("VAL_LEN_READ") /\ val_len = -1
  /\ val_len' = HighByte(Head(buf))
  /\ Take(1)
  /\ UNCHANGED <<state, key_len, key_data, val_data, error, box, pairs>>

ValLenSecond ==
  /\ Parsing("VAL_LEN_READ") /\ val_len # -1
  /\ val_len' = val_len + Head(buf)
  /\ state' = "VAL_DATA_READ"
  /\ Take(1)
  /\ UNCHANGED <<key_len, key_data, val_data, error, box, pairs>>

(* A value that does not end in this chunk.                                 *)
ValDataPart ==
  /\ Parsing("VAL_DATA_READ") /\ Len(buf) < val_len - Len(val_data)
  /\ val_data' = val_data \o buf
  /\ Take(Len(buf))
  /\ UNCHANGED <<state, key_len, key_data, val_len, error, box, pairs>>

EndOfValue_Strict(n) ==
  Parsing("VAL_DATA_READ") /\ n = val_len - Len(val_data) /\ Len(buf) > n
\* a value that does end, at its last byte
EndOfValue(n) ==
  /\ Parsing("VAL_DATA_READ") /\ n = val_len - Len(val_data) /\ Len(buf) >= n

(* The pair is stored and the next key begins.                              *)
ValDataStored ==
  \E n \in 0 .. Len(buf) :
    /\ EndOfValue(n) /\ KeyString(key_data) # <<>>
    /\ box' = Stored(box, KeyString(key_data), val_data \o Taken(n))
    /\ pairs' = Append(pairs, [key |-> key_data, val |-> val_data \o Taken(n)])
    /\ NextKey
    /\ Take(n)
    /\ UNCHANGED error

(* amp_put_bytes refuses a key that begins with NUL, or has no memory.      *)
ValDataRefused ==
  \E n \in 0 .. Len(buf) :
    /\ EndOfValue(n)
    /\ val_data' = val_data \o Taken(n)
    /\ \/ KeyString(key_data) = <<>> /\ Fail(n, "AMP_BAD_KEY_SIZE")
       \/ KeyString(key_data) # <<>> /\ Fail(n, "ENOMEM")
    /\ UNCHANGED <<state, key_len, key_data, val_len, box, pairs>>

ParseStep ==
  \/ KeyLenFirst \/ KeyLenSecond \/ BoxFails \/ BoxDispatched
  \/ KeyData \/ ValLenFirst \/ ValLenSecond
  \/ ValDataPart \/ ValDataStored \/ ValDataRefused

Next == ParseStep \/ Reset \/ \E chunk \in Chunks : Consume(chunk)

(* amp_consume_bytes runs to its end: its loop is plain sequential code.    *)
Spec == Init /\ [][Next]_vars /\ WF_vars(ParseStep)

-----------------------------------------------------------------------------
(* Properties *)

\* lengths on the wire: high byte first
LenBytes(n) == <<n \div R, n % R>>
EncodePair(p) == LenBytes(Len(p.key)) \o p.key \o LenBytes(Len(p.val)) \o p.val
Encode(ps) ==
  LET wire[i \in 0 .. Len(ps)] == IF i = 0 THEN <<>> ELSE wire[i - 1] \o EncodePair(ps[i])
  IN  wire[Len(ps)]

\* the bytes that the parser's variables stand for, in a pair not yet stored
PartialKey == IF key_len = -1 THEN <<>> ELSE <<0>>
Partial ==
  CASE state = "KEY_LEN_READ"  -> PartialKey
    [] state = "KEY_DATA_READ" -> LenBytes(key_len) \o key_data
    [] state = "VAL_LEN_READ"  -> LenBytes(key_len) \o key_data
                                  \o (IF val_len = -1 THEN <<>> ELSE <<val_len \div R>>)
    [] state = "VAL_DATA_READ" -> LenBytes(key_len) \o key_data
                                  \o LenBytes(val_len) \o val_data

(* Wherever the stream is cut into chunks, the pairs read and the parser's  *)
(* variables together spell exactly the bytes consumed: none is lost,       *)
(* repeated or put into another pair.                                       *)
NothingLost == error = "OK" => consumed = Encode(pairs) \o Partial

(* The parser's variables agree in every state, which the code only         *)
(* "believes" at the end of a box (amp.c:546); a key or a value never grows *)
(* past its length, nor its length past the arrays key_data and val_data.   *)
ParserConsistent ==
  /\ Len(key_data) <= MAX_KEY_LENGTH /\ Len(val_data) <= MAX_VAL_LENGTH
  /\ state = "KEY_LEN_READ"  => /\ key_len \in {-1, 0} /\ key_data = <<>>
                                /\ val_len = -1 /\ val_data = <<>>
  /\ state = "KEY_DATA_READ" => /\ Len(key_data) < key_len
                                /\ val_len = -1 /\ val_data = <<>>
  /\ state = "VAL_LEN_READ"  => /\ 0 < key_len /\ Len(key_data) = key_len
                                /\ \/ val_len = -1
                                   \/ \E b \in Byte : val_len = HighByte(b)
                                /\ val_data = <<>>
  /\ state = "VAL_DATA_READ" => /\ 0 < key_len /\ Len(key_data) = key_len
                                /\ Len(val_data) <= val_len

LastWrites(ps) ==
  LET keys == {KeyString(ps[i].key) : i \in DOMAIN ps}
      last(k) == SelectLastInSeq(ps, LAMBDA p : KeyString(p.key) = k)
  IN  [k \in keys |-> ps[last(k)].val]

(* The box that will be dispatched holds, for each key, the last value read *)
(* since the previous box ended, and nothing else.                          *)
BoxIsLastWrite == box = LastWrites(pairs)

(* After an error the parser does nothing until amp_reset_proto: every call *)
(* returns AMP_PROTO_ERROR.                                                 *)
FatalUntilReset == [][error # "OK" => Reset \/ UNCHANGED <<error, box, parserVars>>]_vars

(* Every amp_consume_bytes returns: an iteration that consumes no byte (a   *)
(* value of length 0) is followed by one that does.                         *)
ConsumeReturns == buf # <<>> ~> buf = <<>>
=============================================================================
