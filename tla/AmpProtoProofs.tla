--------------------------- MODULE AmpProtoProofs ---------------------------
(* Proofs about AmpProto, for any sets of calls, commands and boxes, any    *)
(* width of unsigned int and any environment.                               *)
EXTENDS AmpLedger, SequenceTheorems, FiniteSetTheorems, TLAPS

LEMMA Widths ==
  /\ M \in Nat /\ M > 0 /\ M = UINT_MAX + 1
  /\ Keys = 0 .. M - 1
  /\ 0 \in Keys
BY ConstantsAssumption DEF M, Keys

-----------------------------------------------------------------------------
(* Remainders: keys are drawn modulo M. *)

LEMMA DivMod ==
  ASSUME NEW a \in Int
  PROVE  /\ a \div M \in Int /\ a % M \in 0 .. M - 1
         /\ a = M * (a \div M) + (a % M)
BY Widths, SMTT(60)

LEMMA ModUnique ==
  ASSUME NEW q \in Int, NEW r \in 0 .. M - 1
  PROVE  (M * q + r) % M = r
<1> DEFINE a == M * q + r
<1>1. a \in Int /\ M \in Nat /\ M > 0
  BY Widths
<1>2. PICK p \in Int, s \in 0 .. M - 1 : a = M * p + s /\ s = a % M
  <2>1. a \div M \in Int /\ a % M \in 0 .. M - 1 /\ a = M * (a \div M) + (a % M)
    BY <1>1, DivMod
  <2> QED
    BY <2>1
<1>3. M * (q - p) = s - r
  BY <1>1, <1>2
<1>4. q = p
  <2>1. CASE q - p >= 1
    <3>1. M * (q - p) >= M
      BY <1>1, <1>2, <2>1
    <3> QED
      BY <1>1, <1>2, <1>3, <3>1
  <2>2. CASE p - q >= 1
    <3>1. M * (p - q) >= M
      BY <1>1, <1>2, <2>2
    <3>2. M * (p - q) = r - s
      BY <1>1, <1>2, <1>3
    <3> QED
      BY <1>1, <1>2, <3>1, <3>2
  <2> QED
    BY <1>2, <2>1, <2>2
<1> QED
  BY <1>1, <1>2, <1>3, <1>4

(* The successor of a key is the key of the successor.                      *)
LEMMA ModSucc ==
  ASSUME NEW n \in Nat
  PROVE  ((n % M) + 1) % M = (n + 1) % M
<1>1. M \in Nat /\ M > 0
  BY Widths
<1>2. PICK q \in Int, r \in 0 .. M - 1 : n = M * q + r /\ r = n % M
  <2>1. n \div M \in Int /\ n % M \in 0 .. M - 1 /\ n = M * (n \div M) + (n % M)
    BY DivMod
  <2> QED
    BY <2>1
<1>3. CASE r + 1 < M
  <2>1. (M * q + (r + 1)) % M = r + 1 /\ (M * 0 + (r + 1)) % M = r + 1
    BY <1>1, <1>2, <1>3, ModUnique
  <2>2. n + 1 = M * q + (r + 1) /\ r + 1 = M * 0 + (r + 1)
    BY <1>1, <1>2
  <2> QED
    BY <1>2, <2>1, <2>2
<1>4. CASE r + 1 = M
  <2>1. (M * (q + 1) + 0) % M = 0 /\ (M * 1 + 0) % M = 0
    BY <1>1, <1>2, ModUnique
  <2>2. n + 1 = M * (q + 1) + 0 /\ r + 1 = M * 1 + 0
    BY <1>1, <1>2, <1>4
  <2> QED
    BY <1>2, <2>1, <2>2
<1> QED
  BY <1>1, <1>2, <1>3, <1>4

(* Two draws that give the same key are at least M draws apart.             *)
LEMMA ModGap ==
  ASSUME NEW a \in Nat, NEW b \in Nat, a < b, a % M = b % M
  PROVE  b - a >= M
<1>1. M \in Nat /\ M > 0
  BY Widths
<1>2. PICK p \in Int, q \in Int, r \in 0 .. M - 1 : a = M * p + r /\ b = M * q + r
  <2>1. /\ a \div M \in Int /\ a % M \in 0 .. M - 1 /\ a = M * (a \div M) + (a % M)
        /\ b \div M \in Int /\ b = M * (b \div M) + (b % M)
    BY DivMod
  <2> QED
    BY <2>1
<1>3. b - a = M * (q - p)
  BY <1>1, <1>2
<1>4. q - p >= 1
  <2>1. SUFFICES ASSUME p - q >= 0 PROVE FALSE
    BY <1>2
  <2>2. M * (p - q) >= 0
    BY <1>1, <1>2, <2>1
  <2>3. M * (p - q) = a - b
    BY <1>1, <1>2
  <2> QED
    BY <2>2, <2>3
<1>5. M * (q - p) >= M
  BY <1>1, <1>2, <1>4
<1> QED
  BY <1>3, <1>5

-----------------------------------------------------------------------------
(* The stack of user functions *)

LEMMA PushEffect ==
  ASSUME stack \in Seq(Frame), NEW op \in WriteOps \cup DispatchOps \cup {"cancel"},
         NEW c \in Calls \cup {None}, NEW buf \in Box, Push(op, c, buf)
  PROVE  /\ stack' \in Seq(Frame) /\ Len(stack) \in Nat
         /\ Len(stack') = Len(stack) + 1
         /\ \A i \in 1 .. Len(stack) : stack'[i] = stack[i]
         /\ stack'[Len(stack) + 1] = [op |-> op, call |-> c, buf |-> buf]
<1>1. [op |-> op, call |-> c, buf |-> buf] \in Frame
  BY DEF Frame
<1> QED
  BY <1>1, AppendProperties, LenProperties DEF Push

LEMMA PopEffect ==
  ASSUME stack \in Seq(Frame), stack # <<>>, Pop
  PROVE  /\ stack' \in Seq(Frame) /\ Len(stack) \in Nat \ {0}
         /\ Len(stack') = Len(stack) - 1
         /\ \A i \in 1 .. Len(stack') : stack'[i] = stack[i]
         /\ Top \in Frame
<1>1. Len(stack) \in Nat \ {0}
  BY EmptySeq, LenProperties
<1>2. \A i \in 1 .. Len(stack) : stack[i] \in Frame
  BY ElementOfSeq
<1>3. /\ stack' \in Seq(Frame) /\ Len(stack') = Len(stack) - 1
      /\ \A i \in 1 .. Len(stack') : stack'[i] = stack[i]
  <2> DEFINE n == Len(stack) - 1
  <2>1. n \in Nat /\ \A i \in 1 .. n : stack[i] \in Frame
    BY <1>1, <1>2
  <2>2. /\ SubSeq(stack, 1, n) \in Seq(Frame) /\ Len(SubSeq(stack, 1, n)) = n
        /\ \A i \in 1 .. n : SubSeq(stack, 1, n)[i] = stack[i]
    <3> HIDE DEF n
    <3>1. /\ SubSeq(stack, 1, n) \in Seq(Frame)
          /\ Len(SubSeq(stack, 1, n)) = IF 1 <= n THEN n - 1 + 1 ELSE 0
          /\ \A i \in 1 .. n - 1 + 1 : SubSeq(stack, 1, n)[i] = stack[1 + i - 1]
      BY <2>1, SubSeqProperties
    <3>2. n - 1 + 1 = n /\ \A i \in 1 .. n : 1 + i - 1 = i
      BY <2>1
    <3> QED
      BY <2>1, <3>1, <3>2
  <2> QED
    BY <2>1, <2>2 DEF Pop
<1>4. Top \in Frame
  BY <1>1, <1>2 DEF Top
<1> QED
  BY <1>1, <1>3, <1>4

-----------------------------------------------------------------------------
(* Type correctness *)

LEMMA BoxesTyped ==
  /\ EmptyBox \in Box
  /\ \A cmd \in Commands : [EmptyBox EXCEPT !.command = cmd] \in Box
  /\ \A cmd \in Commands, k \in Keys : CallBox(cmd, k) \in Box
  /\ \A a \in Value : AnswerBox(a) \in Box /\ ErrorBox(a) \in Box
<1>1. \A k \in Keys : k \in Value
  BY ConstantsAssumption DEF Value
<1> QED
  BY <1>1 DEF EmptyBox, Box, CallBox, AnswerBox, ErrorBox

LEMMA IncomingBox ==
  ASSUME NEW b \in Boxes
  PROVE  /\ b \in Box /\ b.command \in Commands \cup {None}
         /\ b.ask \in Asks
         /\ b.ask # None => b.ask \in Value
         /\ Refusal(b) \in Errors
         /\ IsReply(b) => ReplyKey(b) \in Keys
<1>1. b \in Box
  BY ConstantsAssumption
<1>2. Refusal(b) \in Errors
  BY DEF Refusal, Errors, GetUint, GetInt, Decode
<1>3. ASSUME IsReply(b) PROVE ReplyKey(b) \in Keys
  <2>1. IF b.answer # None THEN GetUint(b.answer) = "OK" ELSE GetInt(b.error) = "OK"
    BY <1>3 DEF IsReply, Refusal
  <2>2. (IF b.answer # None THEN b.answer ELSE b.error) \in Int
    BY <2>1, ConstantsAssumption DEF GetUint, GetInt, Decode, INT_MAX
  <2> QED
    BY <2>2, Widths, DivMod DEF ReplyKey
<1> QED
  BY <1>1, <1>2, <1>3 DEF Box, Asks

LEMMA InitTyped == Init => TypeOK
<1> SUFFICES ASSUME Init PROVE TypeOK
  OBVIOUS
<1>1. box \in BOOLEAN /\ write \in BOOLEAN /\ oom \in BOOLEAN
  BY Zenon DEF Init
<1>2. last_ask_key \in Keys /\ live_boxes \in Int /\ issued \in Nat
  BY Widths DEF Init
<1>3. stack \in Seq(Frame)
  BY EmptySeq DEF Init
<1>4. /\ outstanding_requests \in [Keys -> Calls \cup {None}]
      /\ requests \in [Asks -> Nat]
      /\ issued_at \in [Calls -> Nat]
      /\ ret \in [Calls -> {"none", "running", "OK", "failed"}]
      /\ invoked \in [Calls -> Nat]
  BY DEF Init
<1>5. /\ status \in {"alive", "freed", "crashed"} /\ error \in Errors
      /\ callbacks \subseteq Calls /\ responders \subseteq Commands
      /\ dropped \subseteq Calls
  BY DEF Init, Errors
<1> QED
  BY <1>1, <1>2, <1>3, <1>4, <1>5 DEF TypeOK

\* Boolean variables, kept away from arithmetic
BoolTyped == box \in BOOLEAN /\ write \in BOOLEAN /\ oom \in BOOLEAN
\* the other conjuncts of TypeOK
DataTyped ==
  /\ status \in {"alive", "freed", "crashed"}
  /\ error \in Errors
  /\ live_boxes \in Int
  /\ last_ask_key \in Keys
  /\ outstanding_requests \in [Keys -> Calls \cup {None}]
  /\ callbacks \subseteq Calls
  /\ responders \subseteq Commands
  /\ stack \in Seq(Frame)
  /\ requests \in [Asks -> Nat]
  /\ issued \in Nat
  /\ issued_at \in [Calls -> Nat]
  /\ ret \in [Calls -> {"none", "running", "OK", "failed"}]
  /\ invoked \in [Calls -> Nat]
  /\ dropped \subseteq Calls

LEMMA TypeSplit == TypeOK <=> BoolTyped /\ DataTyped
BY Zenon DEF TypeOK, BoolTyped, DataTyped

LEMMA NextBool ==
  ASSUME BoolTyped, [Next]_vars
  PROVE  BoolTyped'
BY ZenonT(120) DEF BoolTyped, Next, ApiStep, UserStep, ConsumeStep, ReturnStep, CallStep, Consume, vars,
  boxVars, appVars,
  SetWriteHandler, WriteThroughGarbage, RespondNoAsk, Reset, FreeProto, CallRegisters,
  CallFindsNoWriter, CallRefused, CallBacksOut, CallNoAnswer, AddResponder,
  AddResponderOom, RemoveResponder, Respond, FreeRequest, Cancel, CancelLosesResult,
  ConsumeNoBox, ConsumeOom, ConsumeRefuses, ConsumeRequest, ConsumeUnhandledNoAsk,
  ConsumeUnhandled, ConsumeUnhandledNoWriter, ConsumeUnhandledFails, ConsumeReply,
  ConsumeReplyLosesResult, ConsumeUnknownReply, HandlerReturns, CancelReturns,
  WriteReturns, CallReturns, UnhandledReturns, Crash, OutOfMemory, NewBox, GiveBoxAway

LEMMA CrashData == ASSUME DataTyped, Crash PROVE DataTyped'
BY DEF DataTyped, Crash, boxVars, callVars, keyVars, appVars

LEMMA NewBoxData == ASSUME NEW kept \in Int, NewBox(kept) PROVE live_boxes' \in Int
BY DEF NewBox

\* the box is gone from the parser, wherever it went
LEMMA GiveBoxAwayData == ASSUME DataTyped, GiveBoxAway PROVE live_boxes' \in Int
BY DEF DataTyped, GiveBoxAway

LEMMA PopCallbackData ==
  ASSUME DataTyped, NEW k \in Keys, PopCallback(k)
  PROVE  outstanding_requests' \in [Keys -> Calls \cup {None}]
BY DEF DataTyped, PopCallback

\* drawing a key and registering call c under it
LEMMA RegisterData ==
  ASSUME DataTyped, NEW c \in Calls, NextAskKey(c)
  PROVE  /\ last_ask_key' \in Keys /\ issued' \in Nat /\ issued_at' \in [Calls -> Nat]
         /\ (last_ask_key + 1) % M \in Keys
         /\ [outstanding_requests EXCEPT ![(last_ask_key + 1) % M] = c]
              \in [Keys -> Calls \cup {None}]
<1>1. (last_ask_key + 1) % M \in Keys
  <2>1. last_ask_key + 1 \in Int
    BY Widths DEF DataTyped
  <2> QED
    BY <2>1, Widths, DivMod
<1>2. last_ask_key' \in Keys
  BY <1>1 DEF NextAskKey
<1>3. issued' \in Nat /\ issued_at' \in [Calls -> Nat]
  BY DEF DataTyped, NextAskKey
<1> QED
  BY <1>1, <1>2, <1>3 DEF DataTyped

LEMMA CallData ==
  ASSUME DataTyped, NEW c \in Calls, CallStep(c)
  PROVE  DataTyped'
<1> DEFINE k == (last_ask_key + 1) % M
<1>1. ASSUME NEW cmd \in Commands, CallRegisters(c, cmd) PROVE DataTyped'
  <2>1. NextAskKey(c) /\ Push("call", c, CallBox(cmd, k))
    BY <1>1 DEF CallRegisters
  <2>2. stack' \in Seq(Frame)
    BY <2>1, RegisterData, BoxesTyped, PushEffect DEF DataTyped, WriteOps
  <2> QED
    BY <1>1, <2>1, <2>2, RegisterData
    DEF DataTyped, CallRegisters, boxVars, appVars
<1>2. CASE CallFindsNoWriter(c)
  BY <1>2, RegisterData DEF DataTyped, CallFindsNoWriter, boxVars, appVars
<1>3. CASE CallRefused(c)
  BY <1>3 DEF DataTyped, CallRefused, boxVars, callVars, keyVars, appVars
<1>4. CASE CallBacksOut(c)
  BY <1>4, RegisterData, PopCallbackData
  DEF DataTyped, CallBacksOut, BackOut, boxVars, appVars
<1> QED
  BY <1>1, <1>2, <1>3, <1>4 DEF CallStep

LEMMA CancelData ==
  ASSUME DataTyped, NEW k \in Keys, Cancel(k) \/ CancelLosesResult(k)
  PROVE  DataTyped'
<1> DEFINE c == outstanding_requests[k]
<1>1. c \in Calls /\ outstanding_requests' \in [Keys -> Calls \cup {None}]
  BY PopCallbackData DEF DataTyped, Cancel, CancelLosesResult
<1>2. CASE Cancel(k)
  <2>1. stack' \in Seq(Frame)
    BY <1>1, <1>2, PushEffect, BoxesTyped DEF DataTyped, Cancel
  <2> QED
    BY <1>1, <1>2, <2>1 DEF DataTyped, Cancel, boxVars, keyVars, appVars
<1>3. CASE CancelLosesResult(k)
  BY <1>1, <1>3
  DEF DataTyped, CancelLosesResult, FreeCallback, boxVars, keyVars, appVars
<1> QED
  BY <1>2, <1>3

LEMMA ApiData ==
  ASSUME DataTyped, ApiStep
  PROVE  DataTyped'
<1>1. CASE SetWriteHandler
  BY <1>1 DEF DataTyped, SetWriteHandler, boxVars, callVars, keyVars
<1>2. CASE WriteThroughGarbage \/ RespondNoAsk
  BY <1>2, CrashData DEF WriteThroughGarbage, RespondNoAsk
<1>3. CASE Reset
  <2>1. live_boxes' \in Int
    <3>1. PICK kept \in Int : NewBox(kept)
      BY <1>3 DEF Reset, DataTyped
    <3> QED
      BY <3>1, NewBoxData
  <2> QED
    BY <1>3, <2>1 DEF DataTyped, Reset, Errors, callVars, keyVars, appVars
<1>4. CASE FreeProto
  <2>1. live_boxes' \in Int
    BY <1>4 DEF FreeProto, DataTyped
  <2>2. [k \in Keys |-> None] \in [Keys -> Calls \cup {None}]
    OBVIOUS
  <2> QED
    BY <1>4, <2>1, <2>2 DEF DataTyped, FreeProto, keyVars
<1>5. ASSUME NEW c \in Calls, CallStep(c) PROVE DataTyped'
  BY <1>5, CallData
<1>6. ASSUME NEW cmd \in Commands,
             CallNoAnswer(cmd) \/ AddResponder(cmd) \/ AddResponderOom(cmd)
               \/ RemoveResponder(cmd)
      PROVE DataTyped'
  <2>1. CASE CallNoAnswer(cmd)
    <3>1. stack' \in Seq(Frame)
      BY <2>1, PushEffect, BoxesTyped DEF DataTyped, CallNoAnswer, WriteOps
    <3> QED
      BY <2>1, <3>1 DEF DataTyped, CallNoAnswer, boxVars, callVars, keyVars, appVars
  <2>2. CASE AddResponder(cmd) \/ RemoveResponder(cmd)
    BY <2>2 DEF DataTyped, AddResponder, RemoveResponder, boxVars, callVars, keyVars
  <2>3. CASE AddResponderOom(cmd)
    BY <2>3 DEF DataTyped, AddResponderOom, boxVars, callVars, keyVars, appVars
  <2> QED
    BY <1>6, <2>1, <2>2, <2>3
<1>7. ASSUME NEW a \in Asks, Respond(a) \/ FreeRequest(a) PROVE DataTyped'
  <2>1. CASE Respond(a)
    <3>1. a \in Value
      BY <2>1 DEF Respond, Asks
    <3>2. stack' \in Seq(Frame)
      BY <2>1, <3>1, PushEffect, BoxesTyped DEF DataTyped, Respond, WriteOps
    <3> QED
      BY <2>1, <3>2 DEF DataTyped, Respond, boxVars, callVars, keyVars, appVars
  <2>2. CASE FreeRequest(a)
    <3>1. requests' \in [Asks -> Nat]
      BY <2>2 DEF DataTyped, FreeRequest
    <3> QED
      BY <2>2, <3>1 DEF DataTyped, FreeRequest, boxVars, callVars, keyVars
  <2> QED
    BY <1>7, <2>1, <2>2
<1>8. ASSUME NEW k \in Keys, Cancel(k) \/ CancelLosesResult(k) PROVE DataTyped'
  BY <1>8, CancelData
<1> QED
  BY <1>1, <1>2, <1>3, <1>4, <1>5, <1>6, <1>7, <1>8 DEF ApiStep, UserStep

LEMMA ReplyData ==
  ASSUME DataTyped, NEW b \in Boxes,
         ConsumeReply(b) \/ ConsumeReplyLosesResult(b)
  PROVE  DataTyped'
<1> DEFINE k == ReplyKey(b)
           c == outstanding_requests[k]
<1>1. k \in Keys /\ c \in Calls
  BY IncomingBox DEF DataTyped, ConsumeReply, ConsumeReplyLosesResult
<1>2. outstanding_requests' \in [Keys -> Calls \cup {None}] /\ live_boxes' \in Int
  BY <1>1, PopCallbackData, GiveBoxAwayData DEF ConsumeReply, ConsumeReplyLosesResult
<1>3. CASE ConsumeReply(b)
  <2>1. stack' \in Seq(Frame)
    BY <1>1, <1>3, PushEffect, BoxesTyped DEF DataTyped, ConsumeReply, DispatchOps
  <2> QED
    BY <1>1, <1>2, <1>3, <2>1 DEF DataTyped, ConsumeReply, keyVars, appVars
<1>4. CASE ConsumeReplyLosesResult(b)
  BY <1>1, <1>2, <1>4
  DEF DataTyped, ConsumeReplyLosesResult, FreeCallback, keyVars, appVars, Errors
<1> QED
  BY <1>3, <1>4

LEMMA BoxData ==
  ASSUME DataTyped, NEW b \in Boxes, Consume(b)
  PROVE  DataTyped'
<1>1. CASE ConsumeRefuses(b)
  BY <1>1, IncomingBox DEF DataTyped, ConsumeRefuses, boxVars, callVars, keyVars, appVars
<1>2. CASE ConsumeRequest(b)
  <2>1. stack' \in Seq(Frame)
    BY <1>2, PushEffect, BoxesTyped DEF DataTyped, ConsumeRequest, DispatchOps
  <2>3. live_boxes' \in Int
    BY <1>2, GiveBoxAwayData DEF ConsumeRequest
  <2>2. requests' \in [Asks -> Nat]
    BY <1>2, IncomingBox DEF DataTyped, ConsumeRequest
  <2> QED
    BY <1>2, <2>1, <2>2, <2>3 DEF DataTyped, ConsumeRequest, callVars, keyVars
<1>3. CASE ConsumeUnhandledNoAsk(b) \/ ConsumeUnknownReply(b)
  <2>1. live_boxes' \in Int
    <3>1. live_boxes - 1 \in Int /\ NewBox(live_boxes - 1)
      BY <1>3 DEF DataTyped, ConsumeUnhandledNoAsk, ConsumeUnknownReply
    <3> QED
      BY <3>1, NewBoxData
  <2> QED
    BY <1>3, <2>1
    DEF DataTyped, ConsumeUnhandledNoAsk, ConsumeUnknownReply, callVars, keyVars, appVars
<1>4. CASE ConsumeUnhandled(b)
  <2>1. ErrorBox(b.ask) \in Box
    BY <1>4, IncomingBox, BoxesTyped DEF ConsumeUnhandled
  <2>2. stack' \in Seq(Frame)
    BY <1>4, <2>1, PushEffect DEF DataTyped, ConsumeUnhandled, DispatchOps
  <2> QED
    BY <1>4, <2>2 DEF DataTyped, ConsumeUnhandled, callVars, keyVars, appVars
<1>5. CASE ConsumeUnhandledNoWriter(b)
  BY <1>5, CrashData DEF ConsumeUnhandledNoWriter
<1>6. CASE ConsumeUnhandledFails(b)
  <2>1. error' \in Errors /\ live_boxes' \in Int
    BY <1>6, GiveBoxAwayData DEF ConsumeUnhandledFails, Errors
  <2> QED
    BY <1>6, <2>1 DEF DataTyped, ConsumeUnhandledFails, callVars, keyVars, appVars
<1>7. CASE ConsumeReply(b) \/ ConsumeReplyLosesResult(b)
  BY <1>7, ReplyData
<1> QED
  BY <1>1, <1>2, <1>3, <1>4, <1>5, <1>6, <1>7 DEF Consume

LEMMA ConsumeData ==
  ASSUME DataTyped, ConsumeStep
  PROVE  DataTyped'
<1>1. CASE ConsumeNoBox
  BY <1>1, CrashData DEF ConsumeNoBox
<1>2. CASE ConsumeOom
  BY <1>2 DEF DataTyped, ConsumeOom, Errors, boxVars, callVars, keyVars, appVars
<1>3. CASE \E b \in Boxes : Consume(b)
  BY <1>3, BoxData
<1> QED
  BY <1>1, <1>2, <1>3 DEF ConsumeStep

LEMMA ReturnData ==
  ASSUME DataTyped, ReturnStep
  PROVE  DataTyped'
<1>1. stack # <<>> /\ Pop
  BY DEF ReturnStep, Returning, HandlerReturns, CancelReturns, WriteReturns,
         CallReturns, UnhandledReturns
<1>2. stack' \in Seq(Frame) /\ Top \in Frame
  BY <1>1, PopEffect DEF DataTyped
<1>3. CASE HandlerReturns
  <2>1. live_boxes' \in Int
    BY <1>3, NewBoxData DEF DataTyped, HandlerReturns
  <2> QED
    BY <1>2, <1>3, <2>1
    DEF DataTyped, HandlerReturns, FreeCallback, keyVars, appVars, Errors
<1>4. CASE CancelReturns
  BY <1>2, <1>4
  DEF DataTyped, CancelReturns, FreeCallback, boxVars, keyVars, appVars
<1>5. CASE WriteReturns
  BY <1>2, <1>5 DEF DataTyped, WriteReturns, boxVars, callVars, keyVars, appVars
<1>6. ASSUME NEW r \in WriteResults, CallReturns(r) PROVE DataTyped'
  <2>1. ret' \in [Calls -> {"none", "running", "OK", "failed"}]
    BY <1>6 DEF DataTyped, CallReturns
  <2> QED
    BY <1>2, <1>6, <2>1 DEF DataTyped, CallReturns, boxVars, callVars, keyVars, appVars
<1>7. ASSUME NEW r \in WriteResults, UnhandledReturns(r) PROVE DataTyped'
  <2>1. error' \in Errors
    BY <1>7 DEF UnhandledReturns, WriteResults, Errors
  <2>2. live_boxes' \in Int
    <3>1. live_boxes - 1 \in Int
      BY DEF DataTyped
    <3> QED
      BY <1>7, <3>1, NewBoxData DEF UnhandledReturns
  <2> QED
    BY <1>2, <1>7, <2>1, <2>2 DEF DataTyped, UnhandledReturns, callVars, keyVars, appVars
<1> QED
  BY <1>3, <1>4, <1>5, <1>6, <1>7 DEF ReturnStep

LEMMA NextTyped == TypeOK /\ [Next]_vars => TypeOK'
<1> SUFFICES ASSUME TypeOK, [Next]_vars PROVE TypeOK'
  OBVIOUS
<1>1. BoolTyped /\ DataTyped
  BY TypeSplit
<1>2. BoolTyped'
  BY <1>1, NextBool
<1>3. DataTyped'
  <2>1. CASE Next
    BY <1>1, <2>1, ApiData, ConsumeData, ReturnData DEF Next
  <2>2. CASE UNCHANGED vars
    BY <1>1, <2>2 DEF DataTyped, vars, boxVars, callVars, keyVars, appVars
  <2> QED
    BY <2>1, <2>2
<1> QED
  BY <1>2, <1>3 DEF TypeOK, BoolTyped, DataTyped

(* Every variable keeps its type; in particular ask keys stay unsigned ints *)
(* and every user function the library is inside of is a known one.         *)
THEOREM TypeCorrect == Spec => []TypeOK
BY InitTyped, NextTyped, PTL DEF Spec

-----------------------------------------------------------------------------
(* The frames of some user functions *)

LEMMA EnteredTyped ==
  ASSUME DataTyped, NEW ops
  PROVE  /\ Len(stack) \in Nat /\ Entered(ops) \subseteq 1 .. Len(stack)
         /\ IsFiniteSet(Entered(ops)) /\ Cardinality(Entered(ops)) \in Nat
         /\ \A i \in 1 .. Len(stack) : stack[i] \in Frame
<1>1. Len(stack) \in Nat /\ \A i \in 1 .. Len(stack) : stack[i] \in Frame
  BY ElementOfSeq, LenProperties DEF DataTyped
<1>2. Entered(ops) \subseteq 1 .. Len(stack)
  BY DEF Entered
<1>3. IsFiniteSet(1 .. Len(stack))
  BY <1>1, FS_Interval
<1> QED
  BY <1>1, <1>2, <1>3, FS_Subset, FS_CardinalityType

LEMMA PushEntered ==
  ASSUME DataTyped, NEW ops, NEW op \in WriteOps \cup DispatchOps \cup {"cancel"},
         NEW c \in Calls \cup {None}, NEW buf \in Box, Push(op, c, buf)
  PROVE  /\ Entered(ops)' = IF op \in ops THEN Entered(ops) \cup {Len(stack) + 1}
                                          ELSE Entered(ops)
         /\ Len(stack) + 1 \notin Entered(ops)
         /\ \A i \in Entered(ops) : stack'[i] = stack[i]
         /\ stack'[Len(stack) + 1].call = c /\ stack'[Len(stack) + 1].op = op
<1>1. /\ Len(stack) \in Nat /\ Len(stack') = Len(stack) + 1
      /\ \A i \in 1 .. Len(stack) : stack'[i] = stack[i]
      /\ stack'[Len(stack) + 1] = [op |-> op, call |-> c, buf |-> buf]
  BY PushEffect DEF DataTyped
<1>2. 1 .. Len(stack') = (1 .. Len(stack)) \cup {Len(stack) + 1}
  BY <1>1
<1>3. Len(stack) + 1 \notin 1 .. Len(stack)
  BY <1>1
<1> QED
  BY <1>1, <1>2, <1>3 DEF Entered

LEMMA PopEntered ==
  ASSUME DataTyped, NEW ops, stack # <<>>, Pop
  PROVE  /\ Entered(ops)' = IF Top.op \in ops THEN Entered(ops) \ {Len(stack)}
                                              ELSE Entered(ops)
         /\ Len(stack) \in Entered(ops) <=> Top.op \in ops
         /\ \A i \in Entered(ops)' : stack'[i] = stack[i]
<1>1. /\ Len(stack) \in Nat \ {0} /\ Len(stack') = Len(stack) - 1
      /\ \A i \in 1 .. Len(stack') : stack'[i] = stack[i]
  BY PopEffect DEF DataTyped
<1>2. 1 .. Len(stack) = (1 .. Len(stack')) \cup {Len(stack)}
  BY <1>1
<1>3. Len(stack) \notin 1 .. Len(stack') /\ Len(stack) \in 1 .. Len(stack)
  BY <1>1
<1> QED
  BY <1>1, <1>2, <1>3 DEF Entered, Top

-----------------------------------------------------------------------------
(* Steps that matter to the box being parsed and to the error *)

\* user functions that run inside dispatch_box come and go unseen
SameDispatch == /\ Entered(DispatchOps)' = Entered(DispatchOps)
                /\ Entered({"unhandled"})' = Entered({"unhandled"})
Elsewhere == UNCHANGED <<error, box, live_boxes>> /\ SameDispatch

LEMMA PushSame ==
  ASSUME DataTyped, NEW op \in WriteOps \cup {"cancel"}, op \notin DispatchOps,
         NEW c \in Calls \cup {None}, NEW buf \in Box, Push(op, c, buf)
  PROVE  SameDispatch
<1>1. op # "unhandled"
  BY DEF DispatchOps
<1> QED
  BY <1>1, PushEntered DEF SameDispatch

LEMMA PopSame ==
  ASSUME DataTyped, NEW ops, Returning(ops), ops \cap DispatchOps = {}, Pop
  PROVE  SameDispatch
<1>1. Top.op \notin DispatchOps /\ Top.op # "unhandled" /\ stack # <<>>
  BY DEF Returning, DispatchOps
<1> QED
  BY <1>1, PopEntered DEF SameDispatch

LEMMA StackSame == ASSUME UNCHANGED stack PROVE SameDispatch
BY DEF SameDispatch, Entered

LEMMA ElsewhereCall ==
  ASSUME DataTyped, NEW c \in Calls, CallStep(c) PROVE Elsewhere
<1>1. ASSUME NEW cmd \in Commands, CallRegisters(c, cmd) PROVE Elsewhere
  <2>1. (last_ask_key + 1) % M \in Keys
    BY <1>1, RegisterData DEF CallRegisters
  <2>2. SameDispatch
    BY <1>1, <2>1, PushSame, BoxesTyped DEF CallRegisters, WriteOps, DispatchOps
  <2> QED
    BY <1>1, <2>2 DEF CallRegisters, Elsewhere, boxVars
<1>2. CASE CallFindsNoWriter(c) \/ CallRefused(c) \/ CallBacksOut(c)
  BY <1>2, StackSame DEF CallFindsNoWriter, CallRefused, CallBacksOut, Elsewhere, boxVars
<1> QED
  BY <1>1, <1>2 DEF CallStep

LEMMA ElsewhereApi ==
  ASSUME DataTyped, ApiStep PROVE Elsewhere \/ Reset \/ FreeProto
<1>1. CASE SetWriteHandler \/ WriteThroughGarbage \/ RespondNoAsk
  BY <1>1, StackSame
  DEF SetWriteHandler, WriteThroughGarbage, RespondNoAsk, Crash, Elsewhere, boxVars
<1>2. ASSUME NEW c \in Calls, CallStep(c) PROVE Elsewhere
  BY <1>2, ElsewhereCall
<1>3. ASSUME NEW cmd \in Commands,
             CallNoAnswer(cmd) \/ AddResponder(cmd) \/ AddResponderOom(cmd)
               \/ RemoveResponder(cmd)
      PROVE  Elsewhere
  <2>1. CASE CallNoAnswer(cmd)
    <3>1. SameDispatch
      BY <2>1, PushSame, BoxesTyped DEF CallNoAnswer, WriteOps, DispatchOps
    <3> QED
      BY <2>1, <3>1 DEF CallNoAnswer, Elsewhere, boxVars
  <2>2. CASE AddResponder(cmd) \/ AddResponderOom(cmd) \/ RemoveResponder(cmd)
    BY <2>2, StackSame DEF AddResponder, AddResponderOom, RemoveResponder, Elsewhere, boxVars
  <2> QED
    BY <1>3, <2>1, <2>2
<1>4. ASSUME NEW a \in Asks, Respond(a) \/ FreeRequest(a) PROVE Elsewhere
  <2>1. CASE Respond(a)
    <3>1. a \in Value
      BY <2>1 DEF Respond, Asks
    <3>2. SameDispatch
      BY <2>1, <3>1, PushSame, BoxesTyped DEF Respond, WriteOps, DispatchOps
    <3> QED
      BY <2>1, <3>2 DEF Respond, Elsewhere, boxVars
  <2>2. CASE FreeRequest(a)
    BY <2>2, StackSame DEF FreeRequest, Elsewhere, boxVars
  <2> QED
    BY <1>4, <2>1, <2>2
<1>5. ASSUME NEW k \in Keys, Cancel(k) \/ CancelLosesResult(k) PROVE Elsewhere
  <2>1. CASE Cancel(k)
    <3>1. outstanding_requests[k] \in Calls
      BY <2>1 DEF DataTyped, Cancel
    <3>2. SameDispatch
      BY <2>1, <3>1, PushSame, BoxesTyped DEF Cancel, DispatchOps
    <3> QED
      BY <2>1, <3>2 DEF Cancel, Elsewhere, boxVars
  <2>2. CASE CancelLosesResult(k)
    BY <2>2, StackSame DEF CancelLosesResult, Elsewhere, boxVars
  <2> QED
    BY <1>5, <2>1, <2>2
<1> QED
  BY <1>1, <1>2, <1>3, <1>4, <1>5 DEF ApiStep, UserStep

LEMMA ElsewhereReturn ==
  ASSUME DataTyped, ReturnStep
  PROVE  Elsewhere \/ HandlerReturns \/ \E r \in WriteResults : UnhandledReturns(r)
<1>1. CASE CancelReturns
  BY <1>1, PopSame DEF CancelReturns, DispatchOps, Elsewhere, boxVars
<1>2. CASE WriteReturns
  BY <1>2, PopSame DEF WriteReturns, DispatchOps, Elsewhere, boxVars
<1>3. ASSUME NEW r \in WriteResults, CallReturns(r) PROVE Elsewhere
  BY <1>3, PopSame DEF CallReturns, DispatchOps, Elsewhere, boxVars
<1> QED
  BY <1>1, <1>2, <1>3 DEF ReturnStep

\* what a step is to the box and the error
LEMMA BoxStep ==
  ASSUME DataTyped, [Next]_vars
  PROVE  \/ Elsewhere \/ Reset \/ FreeProto \/ ConsumeStep
         \/ HandlerReturns \/ \E r \in WriteResults : UnhandledReturns(r)
<1>1. CASE UNCHANGED vars
  BY <1>1, StackSame DEF vars, Elsewhere, boxVars
<1> QED
  BY <1>1, ElsewhereApi, ElsewhereReturn DEF Next

\* once freed or crashed, a protocol never comes back
LEMMA NeverRevived ==
  ASSUME [Next]_vars, status # "alive" PROVE status' = status
<1>1. ~Returning({"result", "responder"}) /\ ~Returning({"cancel"}) /\ ~Returning({"call"})
      /\ ~Returning({"no_answer", "respond"}) /\ ~Returning({"unhandled"}) /\ ~UserRuns
  BY DEF Returning, UserRuns
<1>2. ~ApiStep
  BY <1>1 DEF ApiStep, UserStep, SetWriteHandler, WriteThroughGarbage, RespondNoAsk, Reset, FreeProto,
    CallStep, CallRegisters, CallFindsNoWriter, CallRefused, CallBacksOut, CanCall,
    CallNoAnswer, AddResponder, AddResponderOom, RemoveResponder, Respond, FreeRequest,
    Cancel, CancelLosesResult
<1>3. ~ConsumeStep
  BY <1>1 DEF ConsumeStep, ConsumeNoBox, ConsumeOom, Consume, ConsumeRefuses, ConsumeRequest,
    ConsumeUnhandledNoAsk, ConsumeUnhandled, ConsumeUnhandledNoWriter, ConsumeUnhandledFails,
    ConsumeReply, ConsumeReplyLosesResult, ConsumeUnknownReply, CanDispatch, Consuming
<1>4. ~ReturnStep
  BY <1>1 DEF ReturnStep, HandlerReturns, CancelReturns, WriteReturns, CallReturns,
    UnhandledReturns
<1> QED
  BY <1>2, <1>3, <1>4 DEF Next, vars

\* what consuming one box comes to: it is refused, handed to a user function,
\* dropped, or gone with an error
Refused == error' # "OK" /\ SameDispatch /\ UNCHANGED boxVars
Enters(op) ==
  /\ \E c \in Calls \cup {None}, buf \in Box : Push(op, c, buf)
  /\ UNCHANGED <<error, oom>>
  /\ box' = FALSE
  /\ live_boxes' = IF op = "unhandled" THEN live_boxes ELSE live_boxes - 1
Dropped == NewBox(live_boxes - 1) /\ SameDispatch /\ UNCHANGED error
Gone    == error' # "OK" /\ SameDispatch /\ GiveBoxAway

LEMMA ConsumeEffect ==
  ASSUME DataTyped, ConsumeStep
  PROVE  \/ Crash /\ Consuming /\ (~box \/ "no_handler" \in Env)
         \/ /\ CanDispatch /\ status' = status
            /\ Refused \/ Dropped \/ Gone \/ \E op \in DispatchOps : Enters(op)
<1> DEFINE Goal == \/ Crash /\ Consuming /\ (~box \/ "no_handler" \in Env)
                   \/ /\ CanDispatch /\ status' = status
                      /\ Refused \/ Dropped \/ Gone \/ \E op \in DispatchOps : Enters(op)
<1>1. CASE ConsumeNoBox
  BY <1>1 DEF ConsumeNoBox
<1>2. CASE ConsumeOom
  BY <1>2, StackSame DEF ConsumeOom, Refused
<1>3. ASSUME NEW b \in Boxes, Consume(b) PROVE Goal
  <2>1. CASE ConsumeRefuses(b)
    BY <2>1, StackSame DEF ConsumeRefuses, Refused
  <2>2. CASE ConsumeRequest(b)
    <3>1. Enters("responder")
      BY <2>2, BoxesTyped DEF ConsumeRequest, Enters, GiveBoxAway
    <3> QED
      BY <2>2, <3>1 DEF ConsumeRequest, DispatchOps
  <2>3. CASE ConsumeUnhandledNoAsk(b) \/ ConsumeUnknownReply(b)
    BY <2>3, StackSame DEF ConsumeUnhandledNoAsk, ConsumeUnknownReply, Dropped
  <2>4. CASE ConsumeUnhandled(b)
    <3>1. ErrorBox(b.ask) \in Box
      BY <2>4, IncomingBox, BoxesTyped DEF ConsumeUnhandled
    <3>2. Enters("unhandled")
      BY <2>4, <3>1 DEF ConsumeUnhandled, Enters
    <3> QED
      BY <2>4, <3>2 DEF ConsumeUnhandled, DispatchOps
  <2>5. CASE ConsumeUnhandledNoWriter(b)
    BY <2>5 DEF ConsumeUnhandledNoWriter, CanDispatch
  <2>6. CASE ConsumeUnhandledFails(b)
    BY <2>6, StackSame DEF ConsumeUnhandledFails, Gone
  <2>7. CASE ConsumeReply(b)
    <3>1. ReplyKey(b) \in Keys
      BY <2>7, IncomingBox DEF ConsumeReply
    <3>2. Enters("result")
      <4>1. outstanding_requests[ReplyKey(b)] \in Calls \cup {None}
        BY <3>1 DEF DataTyped
      <4> QED
        BY <2>7, <4>1, BoxesTyped DEF ConsumeReply, Enters, GiveBoxAway
    <3> QED
      BY <2>7, <3>2 DEF ConsumeReply, DispatchOps
  <2>8. CASE ConsumeReplyLosesResult(b)
    BY <2>8, StackSame DEF ConsumeReplyLosesResult, Gone
  <2> QED
    BY <1>3, <2>1, <2>2, <2>3, <2>4, <2>5, <2>6, <2>7, <2>8 DEF Consume
<1> QED
  BY <1>1, <1>2, <1>3 DEF ConsumeStep

-----------------------------------------------------------------------------
(* One box is dispatched at a time *)

\* user functions do not feed the protocol that is calling them
Steady == "reentrant_consume" \notin Env
\* ... nor reset it while it dispatches a box
Calm == Env \cap {"reset_in_callback", "reentrant_consume"} = {}

OneDispatch == \A i, j \in Entered(DispatchOps) : i = j
NoErrorYet  == status = "alive" /\ InDispatch => error = "OK"

LEMMA EntersEffect ==
  ASSUME DataTyped, NEW op \in DispatchOps, Enters(op)
  PROVE  /\ Entered(DispatchOps)' = Entered(DispatchOps) \cup {Len(stack) + 1}
         /\ InDispatch'
         /\ Cardinality(Entered({"unhandled"}))' =
              Cardinality(Entered({"unhandled"})) + (IF op = "unhandled" THEN 1 ELSE 0)
<1>1. PICK c \in Calls \cup {None}, buf \in Box : Push(op, c, buf)
  BY DEF Enters
<1>2. Entered(DispatchOps)' = Entered(DispatchOps) \cup {Len(stack) + 1}
  BY <1>1, PushEntered
<1>3. /\ Entered({"unhandled"})' = IF op = "unhandled"
                                   THEN Entered({"unhandled"}) \cup {Len(stack) + 1}
                                   ELSE Entered({"unhandled"})
      /\ Len(stack) + 1 \notin Entered({"unhandled"})
  BY <1>1, PushEntered, ZenonT(120)
<1>4. IsFiniteSet(Entered({"unhandled"})) /\ Cardinality(Entered({"unhandled"})) \in Nat
  BY EnteredTyped
<1>5. Cardinality(Entered({"unhandled"}))' =
        Cardinality(Entered({"unhandled"})) + (IF op = "unhandled" THEN 1 ELSE 0)
  <2>1. CASE op = "unhandled"
    <3>1. Cardinality(Entered({"unhandled"}) \cup {Len(stack) + 1}) =
            Cardinality(Entered({"unhandled"})) + 1
      BY <1>3, <1>4, FS_AddElement
    <3> QED
      BY <1>3, <2>1, <3>1
  <2>2. CASE op # "unhandled"
    <3>1. Cardinality(Entered({"unhandled"}))' = Cardinality(Entered({"unhandled"}))
      BY <1>3, <2>2
    <3> QED
      BY <1>4, <2>2, <3>1
  <2> QED
    BY <2>1, <2>2
<1> QED
  BY <1>2, <1>5 DEF InDispatch

LEMMA LeavesEffect ==
  ASSUME DataTyped, NEW ops \in SUBSET DispatchOps, Returning(ops), Pop
  PROVE  /\ Entered(DispatchOps)' = Entered(DispatchOps) \ {Len(stack)}
         /\ Len(stack) \in Entered(DispatchOps) /\ InDispatch
         /\ Cardinality(Entered({"unhandled"}))' =
              Cardinality(Entered({"unhandled"})) - (IF Top.op = "unhandled" THEN 1 ELSE 0)
<1>1. stack # <<>> /\ Top.op \in DispatchOps
  BY DEF Returning
<1>2. /\ Entered(DispatchOps)' = Entered(DispatchOps) \ {Len(stack)}
      /\ Len(stack) \in Entered(DispatchOps)
  BY <1>1, PopEntered
<1>3. /\ Entered({"unhandled"})' = IF Top.op = "unhandled"
                                   THEN Entered({"unhandled"}) \ {Len(stack)}
                                   ELSE Entered({"unhandled"})
      /\ Len(stack) \in Entered({"unhandled"}) <=> Top.op = "unhandled"
  BY <1>1, PopEntered, ZenonT(120)
<1>4. IsFiniteSet(Entered({"unhandled"})) /\ Cardinality(Entered({"unhandled"})) \in Nat
  BY EnteredTyped
<1>5. Cardinality(Entered({"unhandled"}))' =
        Cardinality(Entered({"unhandled"})) - (IF Top.op = "unhandled" THEN 1 ELSE 0)
  <2>1. CASE Top.op = "unhandled"
    <3>1. Cardinality(Entered({"unhandled"}) \ {Len(stack)}) =
            Cardinality(Entered({"unhandled"})) - 1
      BY <1>3, <1>4, <2>1, FS_RemoveElement
    <3> QED
      BY <1>3, <2>1, <3>1
  <2>2. CASE Top.op # "unhandled"
    <3>1. Cardinality(Entered({"unhandled"}))' = Cardinality(Entered({"unhandled"}))
      BY <1>3, <2>2
    <3> QED
      BY <1>4, <2>2, <3>1
  <2> QED
    BY <2>1, <2>2
<1> QED
  BY <1>2, <1>5 DEF InDispatch

\* the steps back into dispatch_box
LEMMA HandlerLeaves ==
  ASSUME HandlerReturns
  PROVE  Returning({"result", "responder"}) /\ Pop /\ Top.op # "unhandled"
         /\ {"result", "responder"} \in SUBSET DispatchOps
BY DEF HandlerReturns, Returning, DispatchOps

LEMMA UnhandledLeaves ==
  ASSUME NEW r \in WriteResults, UnhandledReturns(r)
  PROVE  Returning({"unhandled"}) /\ Pop /\ Top.op = "unhandled"
         /\ {"unhandled"} \in SUBSET DispatchOps
BY DEF UnhandledReturns, Returning, DispatchOps

LEMMA LastLeaves ==
  ASSUME DataTyped, OneDispatch,
         HandlerReturns \/ \E r \in WriteResults : UnhandledReturns(r)
  PROVE  InDispatch /\ ~InDispatch' /\ OneDispatch'
<1>1. /\ Entered(DispatchOps)' = Entered(DispatchOps) \ {Len(stack)}
      /\ Len(stack) \in Entered(DispatchOps) /\ InDispatch
  <2>1. CASE HandlerReturns
    BY <2>1, HandlerLeaves, LeavesEffect
  <2>2. ASSUME NEW r \in WriteResults, UnhandledReturns(r)
        PROVE  /\ Entered(DispatchOps)' = Entered(DispatchOps) \ {Len(stack)}
               /\ Len(stack) \in Entered(DispatchOps) /\ InDispatch
    BY <2>2, UnhandledLeaves, LeavesEffect
  <2> QED
    BY <2>1, <2>2
<1>2. Entered(DispatchOps)' = {}
  BY <1>1 DEF OneDispatch
<1> QED
  BY <1>1, <1>2 DEF OneDispatch, InDispatch

\* without nesting a box is only dispatched when no other is
LEMMA EntersAlone ==
  ASSUME DataTyped, Steady, CanDispatch, NEW op \in DispatchOps, Enters(op)
  PROVE  ~InDispatch /\ InDispatch' /\ OneDispatch'
<1>1. Entered(DispatchOps) = {}
  BY DEF CanDispatch, Consuming, Steady, InDispatch
<1>2. Entered(DispatchOps)' = {Len(stack) + 1} /\ InDispatch'
  BY <1>1, EntersEffect
<1> QED
  BY <1>1, <1>2 DEF InDispatch, OneDispatch

LEMMA DispatchKept ==
  ASSUME DataTyped, Steady, OneDispatch, NoErrorYet, [Next]_vars
  PROVE  OneDispatch' /\ NoErrorYet'
<1>1. status' = "alive" => status = "alive"
  BY NeverRevived
<1>2. CASE Elsewhere
  BY <1>1, <1>2 DEF Elsewhere, SameDispatch, OneDispatch, NoErrorYet, InDispatch
<1>3. CASE Reset \/ FreeProto
  <2>1. UNCHANGED stack /\ (error' = "OK" \/ status' # "alive")
    BY <1>3 DEF Reset, FreeProto
  <2> QED
    BY <2>1, StackSame DEF SameDispatch, OneDispatch, NoErrorYet
<1>4. CASE ConsumeStep
  <2>1. CASE Crash
    BY <2>1, StackSame DEF Crash, SameDispatch, OneDispatch, NoErrorYet
  <2>2. CASE CanDispatch /\ (Refused \/ Dropped \/ Gone)
    <3>1. Entered(DispatchOps) = {}
      BY <2>2 DEF CanDispatch, Consuming, Steady, InDispatch
    <3>2. Entered(DispatchOps)' = {}
      BY <2>2, <3>1 DEF Refused, Dropped, Gone, SameDispatch
    <3> QED
      BY <3>2 DEF OneDispatch, NoErrorYet, InDispatch
  <2>3. ASSUME NEW op \in DispatchOps, CanDispatch, Enters(op)
        PROVE  OneDispatch' /\ NoErrorYet'
    <3>1. error' = "OK"
      BY <2>3 DEF Enters, CanDispatch, Consuming
    <3> QED
      BY <2>3, <3>1, EntersAlone DEF NoErrorYet
  <2> QED
    BY <1>4, <2>1, <2>2, <2>3, ConsumeEffect
<1>5. CASE HandlerReturns \/ \E r \in WriteResults : UnhandledReturns(r)
  BY <1>5, LastLeaves DEF NoErrorYet
<1> QED
  BY <1>2, <1>3, <1>4, <1>5, BoxStep

\* the inductive invariant
Dispatching == Steady /\ TypeOK /\ OneDispatch /\ NoErrorYet

LEMMA InitDispatching == Init /\ Steady => Dispatching
<1> SUFFICES ASSUME Init, Steady PROVE OneDispatch /\ NoErrorYet
  BY InitTyped DEF Dispatching
<1>1. Entered(DispatchOps) = {}
  BY DEF Init, Entered
<1> QED
  BY <1>1 DEF OneDispatch, NoErrorYet, InDispatch

LEMMA NextDispatching == Dispatching /\ [Next]_vars => Dispatching'
<1> SUFFICES ASSUME Dispatching, [Next]_vars PROVE Dispatching'
  OBVIOUS
<1>1. TypeOK' /\ DataTyped /\ Steady'
  BY NextTyped, TypeSplit DEF Dispatching, Steady
<1> QED
  BY <1>1, DispatchKept DEF Dispatching

\* outside of a dispatch only amp_reset_proto assigns an error that is set
LEMMA ErrorHeld ==
  ASSUME DataTyped, Next, error # "OK", ~Reset, status = "alive" => ~InDispatch
  PROVE  error' = error
<1>1. ~ConsumeStep \/ Crash
  BY ConsumeEffect DEF CanDispatch, Consuming
<1>2. ~HandlerReturns /\ ~\E r \in WriteResults : UnhandledReturns(r)
  BY HandlerLeaves, UnhandledLeaves, LeavesEffect DEF Returning
<1> QED
  BY <1>1, <1>2, BoxStep DEF Elsewhere, FreeProto, Crash

LEMMA ErrorKept ==
  Dispatching /\ [Next]_vars => [error # "OK" => error' = error \/ Reset]_vars
<1> SUFFICES ASSUME Dispatching, Next, error # "OK", ~Reset PROVE error' = error
  OBVIOUS
<1>1. DataTyped
  BY TypeSplit DEF Dispatching
<1>2. status = "alive" => ~InDispatch
  BY DEF Dispatching, NoErrorYet
<1> QED
  BY <1>1, <1>2, ErrorHeld

(* Whatever user functions do inside callbacks, an error that the outermost *)
(* amp_consume_bytes returned stays until amp_reset_proto: no step of the   *)
(* library but the return of a dispatch overwrites it.                      *)
THEOREM ReportedErrorsStay == Spec => ReportedErrorStays
<1>1. Init => TypeOK
  BY InitTyped
<1>2. TypeOK /\ [Next]_vars => TypeOK'
  BY NextTyped
<1>3. TypeOK /\ [Next]_vars =>
        [error # "OK" /\ ~InDispatch => error' = error \/ Reset]_vars
  <2> SUFFICES ASSUME TypeOK, Next, error # "OK", ~InDispatch, ~Reset
               PROVE  error' = error
    OBVIOUS
  <2>1. DataTyped
    BY TypeSplit
  <2> QED
    BY <2>1, ErrorHeld
<1> QED
  BY <1>1, <1>2, <1>3, PTL DEF Spec, ReportedErrorStays

(* If user functions do not feed the protocol that is calling them, only    *)
(* amp_reset_proto clears a fatal error: dispatch_box returns into          *)
(* amp_consume_bytes, which assigns the error, with the error still 0.      *)
THEOREM ErrorsStay == Steady /\ Spec => ErrorIsFatal
<1>1. Init /\ Steady => Dispatching
  BY InitDispatching
<1>2. Dispatching /\ [Next]_vars => Dispatching'
  BY NextDispatching
<1>3. Dispatching /\ [Next]_vars => [error # "OK" => error' = error \/ Reset]_vars
  BY ErrorKept
<1> QED
  BY <1>1, <1>2, <1>3, PTL DEF Spec, ErrorIsFatal

-----------------------------------------------------------------------------
(* Who owns the boxes *)

BoxGiven == status = "alive" /\ InDispatch => ~box

\* the boxes of proto->box and of "Unhandled Command" writes
BoxCount == IF box THEN 1 ELSE 0
Reported == Cardinality(Entered({"unhandled"}))

LEMMA BoxCounts ==
  /\ box => BoxCount = 1
  /\ ~box => BoxCount = 0
  /\ BoxCount \in {0, 1}
BY DEF BoxCount

LEMMA NewBoxCounts ==
  ASSUME NEW kept \in Int, NewBox(kept) PROVE live_boxes' = kept + BoxCount'
BY DEF NewBox, BoxCount

LEMMA NoneReported == ASSUME DataTyped, ~InDispatch PROVE Reported = 0
<1>1. Entered({"unhandled"}) = {}
  BY DEF InDispatch, Entered, DispatchOps
<1> QED
  BY <1>1, FS_EmptySet DEF Reported

\* the steps that leave dispatch_box leave no box behind but a new one
LEMMA ReturnBalanced ==
  ASSUME DataTyped, DataTyped', Calm, OneDispatch, BoxGiven, live_boxes = BoxCount + Reported,
         HandlerReturns \/ \E r \in WriteResults : UnhandledReturns(r)
  PROVE  live_boxes' = BoxCount' + Reported'
<1>1. InDispatch /\ ~InDispatch' /\ status = "alive" /\ ~box
  BY LastLeaves DEF HandlerReturns, UnhandledReturns, Returning, BoxGiven
<1>2. BoxCount = 0 /\ Reported' = 0
  <2>1. Entered({"unhandled"})' = {}
    BY <1>1 DEF InDispatch, Entered, DispatchOps
  <2> QED
    BY <1>1, <2>1, BoxCounts, FS_EmptySet DEF Reported
<1>3. CASE HandlerReturns
  <2>1. Reported' = Reported
    <3>1. Cardinality(Entered({"unhandled"}))' =
            Cardinality(Entered({"unhandled"})) - (IF Top.op = "unhandled" THEN 1 ELSE 0)
      BY <1>3, HandlerLeaves, LeavesEffect
    <3>2. Top.op # "unhandled" /\ Cardinality(Entered({"unhandled"})) \in Nat
      BY <1>3, HandlerLeaves, EnteredTyped
    <3> QED
      BY <3>1, <3>2 DEF Reported
  <2>2. live_boxes = 0
    BY <1>2, <2>1
  <2>3. live_boxes' = live_boxes + BoxCount'
    BY <1>3, <2>2, NewBoxCounts DEF HandlerReturns
  <2>4. BoxCount' \in {0, 1}
    BY DEF BoxCount
  <2> QED
    BY <1>2, <2>2, <2>3, <2>4
<1>4. ASSUME NEW r \in WriteResults, UnhandledReturns(r)
      PROVE  live_boxes' = BoxCount' + Reported'
  <2>1. Reported = 1
    <3>1. Cardinality(Entered({"unhandled"}))' =
            Cardinality(Entered({"unhandled"})) - (IF Top.op = "unhandled" THEN 1 ELSE 0)
      BY <1>4, UnhandledLeaves, LeavesEffect
    <3>2. Top.op = "unhandled" /\ Cardinality(Entered({"unhandled"})) \in Nat
      BY <1>4, UnhandledLeaves, EnteredTyped
    <3> QED
      BY <1>2, <3>1, <3>2 DEF Reported
  <2>2. live_boxes = 1
    BY <1>2, <2>1
  <2>3. CASE r = "OK"
    <3>1. NewBox(live_boxes - 1)
      BY <1>4, <2>3 DEF UnhandledReturns
    <3>2. live_boxes' = (live_boxes - 1) + BoxCount'
      BY <2>2, <3>1, NewBoxCounts
    <3>3. BoxCount' \in {0, 1}
      BY DEF BoxCount
    <3> QED
      BY <1>2, <2>2, <3>2, <3>3
  <2>4. CASE r # "OK"
    <3>1. live_boxes' = live_boxes - 1 /\ UNCHANGED box
      BY <1>4, <2>4 DEF UnhandledReturns
    <3>2. BoxCount' = BoxCount
      BY <3>1 DEF BoxCount
    <3> QED
      BY <1>2, <2>2, <3>1, <3>2
  <2> QED
    BY <2>3, <2>4
<1> QED
  BY <1>3, <1>4

LEMMA ConsumeBalanced ==
  ASSUME DataTyped, Calm, OneDispatch, BoxGiven, live_boxes = BoxCount + Reported,
         ConsumeStep, ~Crash
  PROVE  BoxGiven' /\ live_boxes' = BoxCount' + Reported'
<1>1. /\ CanDispatch
      /\ Refused \/ Dropped \/ Gone \/ \E op \in DispatchOps : Enters(op)
  BY ConsumeEffect
<1>2. Entered(DispatchOps) = {} /\ box /\ Steady
  BY <1>1 DEF CanDispatch, Consuming, Calm, Steady, InDispatch
<1>3. BoxCount = 1 /\ Reported = 0 /\ live_boxes = 1
  BY <1>2, BoxCounts, NoneReported DEF InDispatch
<1>4. CASE SameDispatch
  <2>1. Entered(DispatchOps)' = {} /\ Reported' = 0
    BY <1>2, <1>3, <1>4 DEF SameDispatch, Reported
  <2>2. BoxGiven'
    BY <2>1 DEF BoxGiven, InDispatch
  <2>3. CASE Refused
    <3>1. live_boxes' = live_boxes /\ BoxCount' = BoxCount
      BY <2>3 DEF Refused, boxVars, BoxCount
    <3> QED
      BY <1>3, <2>1, <2>2, <3>1
  <2>4. CASE Dropped
    <3>1. live_boxes' = (live_boxes - 1) + BoxCount'
      BY <1>3, <2>4, NewBoxCounts DEF Dropped
    <3>2. BoxCount' \in {0, 1}
      BY DEF BoxCount
    <3> QED
      BY <1>3, <2>1, <2>2, <3>1, <3>2
  <2>5. CASE Gone
    <3>1. live_boxes' = live_boxes - 1 /\ BoxCount' = 0
      BY <2>5 DEF Gone, GiveBoxAway, BoxCount
    <3> QED
      BY <1>3, <2>1, <2>2, <3>1
  <2>6. ASSUME NEW op \in DispatchOps, Enters(op) PROVE FALSE
    BY <1>1, <1>2, <2>1, <2>6, EntersAlone DEF InDispatch
  <2> QED
    BY <1>1, <2>3, <2>4, <2>5, <2>6
<1>5. ASSUME NEW op \in DispatchOps, Enters(op)
      PROVE  BoxGiven' /\ live_boxes' = BoxCount' + Reported'
  <2>1. box' = FALSE /\ live_boxes' = IF op = "unhandled" THEN live_boxes ELSE live_boxes - 1
    BY <1>5 DEF Enters
  <2>2. BoxGiven' /\ BoxCount' = 0
    BY <2>1 DEF BoxGiven, BoxCount
  <2>3. Reported' = Reported + (IF op = "unhandled" THEN 1 ELSE 0)
    BY <1>5, EntersEffect DEF Reported
  <2> QED
    BY <1>3, <2>1, <2>2, <2>3
<1> QED
  BY <1>1, <1>4, <1>5 DEF Refused, Dropped, Gone

\* proto->box is freed or replaced while no box is being dispatched
LEMMA ReplaceBalanced ==
  ASSUME DataTyped, Calm, live_boxes = BoxCount + Reported, Reset \/ FreeProto
  PROVE  BoxGiven' /\ live_boxes' = BoxCount' + Reported'
<1>1. ~InDispatch
  <2>1. CASE Reset
    BY <2>1 DEF Reset, Calm
  <2>2. CASE FreeProto
    BY <2>2 DEF FreeProto, InDispatch, Entered
  <2> QED
    BY <2>1, <2>2
<1>2. SameDispatch
  BY StackSame DEF Reset, FreeProto
<1>3. Reported = 0 /\ Reported' = 0 /\ BoxGiven'
  BY <1>1, <1>2, NoneReported DEF SameDispatch, Reported, BoxGiven, InDispatch
<1>4. live_boxes = BoxCount /\ BoxCount \in {0, 1} /\ BoxCount' \in {0, 1}
  BY <1>3, BoxCounts DEF BoxCount
<1>5. CASE Reset
  <2>1. NewBox(live_boxes - BoxCount)
    BY <1>5 DEF Reset, BoxCount
  <2>2. live_boxes' = (live_boxes - BoxCount) + BoxCount'
    BY <1>4, <2>1, NewBoxCounts
  <2> QED
    BY <1>3, <1>4, <2>2
<1>6. CASE FreeProto
  <2>1. live_boxes' = live_boxes - BoxCount /\ BoxCount' = 0
    BY <1>6 DEF FreeProto, BoxCount
  <2> QED
    BY <1>3, <1>4, <2>1
<1> QED
  BY <1>5, <1>6

LEMMA BoxesKept ==
  ASSUME DataTyped, DataTyped', Calm, OneDispatch, BoxGiven, BoxBalanced, [Next]_vars
  PROVE  BoxGiven' /\ BoxBalanced'
<1> DEFINE Balance == live_boxes = BoxCount + Reported
<1>1. BoxBalanced <=> (status # "crashed" => Balance)
  BY DEF BoxBalanced, BoxCount, Reported
<1>2. BoxBalanced' <=> (status' # "crashed" => Balance')
  BY DEF BoxBalanced, BoxCount, Reported
<1>3. /\ status' # "crashed" => status # "crashed"
      /\ status' = "alive" => status = "alive"
  BY NeverRevived
<1>4. CASE status' = "crashed"
  BY <1>2, <1>4 DEF BoxGiven
<1>5. CASE status' # "crashed"
  <2>1. Balance /\ ~Crash
    BY <1>1, <1>3, <1>5 DEF Crash
  <2>2. SUFFICES BoxGiven' /\ Balance'
    BY <1>2
  <2>3. CASE Elsewhere
    <3>1. Reported' = Reported /\ BoxCount' = BoxCount /\ live_boxes' = live_boxes
      BY <2>3 DEF Elsewhere, SameDispatch, Reported, BoxCount
    <3>2. BoxGiven'
      BY <1>3, <2>3 DEF Elsewhere, SameDispatch, BoxGiven, InDispatch
    <3> QED
      BY <2>1, <3>1, <3>2
  <2>4. CASE Reset \/ FreeProto
    BY <2>1, <2>4, ReplaceBalanced
  <2>5. CASE ConsumeStep
    BY <2>1, <2>5, ConsumeBalanced
  <2>6. CASE HandlerReturns \/ \E r \in WriteResults : UnhandledReturns(r)
    BY <2>1, <2>6, ReturnBalanced, LastLeaves DEF BoxGiven
  <2> QED
    BY <2>3, <2>4, <2>5, <2>6, BoxStep
<1> QED
  BY <1>4, <1>5

LEMMA InitBoxes == Init => BoxGiven /\ BoxBalanced
<1> SUFFICES ASSUME Init PROVE BoxGiven /\ BoxBalanced
  OBVIOUS
<1>1. /\ Entered(DispatchOps) = {} /\ Entered({"unhandled"}) = {}
      /\ box = TRUE /\ live_boxes = 1
  BY DEF Init, Entered
<1>2. Cardinality(Entered({"unhandled"})) = 0
  BY <1>1, FS_EmptySet
<1> QED
  BY <1>1, <1>2 DEF BoxGiven, BoxBalanced, InDispatch

(* If user functions neither feed nor reset the protocol that is calling    *)
(* them, every box has one owner whatever allocations and writes fail.      *)
THEOREM BoxesHaveOneOwner == Calm /\ Spec => []BoxBalanced
<1> DEFINE Boxed == Calm /\ Dispatching /\ BoxGiven /\ BoxBalanced
<1>1. Init /\ Calm => Boxed
  BY InitDispatching, InitBoxes DEF Calm, Steady
<1>2. Boxed /\ [Next]_vars => Boxed'
  <2> SUFFICES ASSUME Boxed, [Next]_vars PROVE Boxed'
    OBVIOUS
  <2>1. Dispatching' /\ Calm'
    BY NextDispatching DEF Calm
  <2>2. DataTyped /\ DataTyped'
    BY <2>1, TypeSplit DEF Dispatching, TypeOK, DataTyped
  <2> QED
    BY <2>1, <2>2, BoxesKept DEF Dispatching
<1>3. Boxed => BoxBalanced
  OBVIOUS
<1> QED
  BY <1>1, <1>2, <1>3, PTL DEF Spec

-----------------------------------------------------------------------------
(* No box is freed twice, whatever user functions do *)

\* what the library still has to free is allocated
Covered == live_boxes >= BoxCount + Reported

LEMMA ReportedTyped == ASSUME DataTyped PROVE Reported \in Nat
BY EnteredTyped DEF Reported

\* a box allocated next to `kept' ones of which n must be freed
LEMMA NewBoxCovered ==
  ASSUME NEW kept \in Int, NEW n \in Int, kept >= n, NewBox(kept), Reported' = n
  PROVE  Covered'
<1>1. CASE box' = TRUE /\ live_boxes' = kept + 1
  <2>1. BoxCount' = 1
    BY <1>1 DEF BoxCount
  <2>2. kept + 1 >= 1 + n
    OBVIOUS
  <2> QED
    BY <1>1, <2>1, <2>2 DEF Covered
<1>2. CASE box' = FALSE /\ live_boxes' = kept
  <2>1. BoxCount' = 0
    BY <1>2 DEF BoxCount
  <2>2. kept >= 0 + n
    OBVIOUS
  <2> QED
    BY <1>2, <2>1, <2>2 DEF Covered
<1> QED
  BY <1>1, <1>2 DEF NewBox

LEMMA ReplaceCovered ==
  ASSUME DataTyped, Covered, Reset \/ FreeProto PROVE Covered'
<1>1. SameDispatch
  BY StackSame DEF Reset, FreeProto
<1>2. Reported' = Reported /\ Reported \in Nat
  BY <1>1, ReportedTyped DEF SameDispatch, Reported
<1>3. live_boxes \in Int /\ BoxCount \in Int
  BY DEF DataTyped, BoxCount
<1>4. live_boxes - BoxCount \in Int /\ live_boxes - BoxCount >= Reported
  BY <1>2, <1>3 DEF Covered
<1>5. CASE Reset
  <2>1. NewBox(live_boxes - BoxCount)
    BY <1>5 DEF Reset, BoxCount
  <2> QED
    BY <1>2, <1>4, <2>1, NewBoxCovered
<1>6. CASE FreeProto
  <2>1. live_boxes' = live_boxes - BoxCount /\ BoxCount' = 0
    BY <1>6 DEF FreeProto, BoxCount
  <2>2. live_boxes' >= BoxCount' + Reported'
    BY <1>2, <1>3, <1>4, <2>1
  <2> QED
    BY <2>2 DEF Covered
<1> QED
  BY <1>5, <1>6

LEMMA ConsumeCovered ==
  ASSUME DataTyped, Covered, ConsumeStep, ~Crash PROVE Covered'
<1>1. box /\ (Refused \/ Dropped \/ Gone \/ \E op \in DispatchOps : Enters(op))
  BY ConsumeEffect DEF CanDispatch
<1>2. /\ live_boxes \in Int /\ BoxCount = 1
      /\ Reported \in Nat /\ live_boxes >= 1 + Reported
  <2>1. live_boxes \in Int /\ BoxCount = 1
    BY <1>1 DEF DataTyped, BoxCount
  <2> QED
    BY <2>1, ReportedTyped DEF Covered
<1>3. CASE Refused \/ Dropped \/ Gone
  <2>1. Reported' = Reported
    BY <1>3 DEF Refused, Dropped, Gone, SameDispatch, Reported
  <2>2. CASE Refused
    <3>1. live_boxes' = live_boxes /\ BoxCount' = BoxCount
      BY <2>2 DEF Refused, boxVars, BoxCount
    <3> QED
      BY <1>2, <2>1, <3>1 DEF Covered
  <2>3. CASE Dropped
    <3>1. NewBox(live_boxes - 1)
      BY <2>3 DEF Dropped
    <3>2. live_boxes - 1 \in Int /\ live_boxes - 1 >= Reported /\ Reported \in Int
      BY <1>2
    <3> QED
      BY <2>1, <3>1, <3>2, NewBoxCovered
  <2>4. CASE Gone
    <3>1. live_boxes' = live_boxes - 1 /\ BoxCount' = 0
      BY <2>4 DEF Gone, GiveBoxAway, BoxCount
    <3> QED
      BY <1>2, <2>1, <3>1 DEF Covered
  <2> QED
    BY <1>3, <2>2, <2>3, <2>4
<1>4. ASSUME NEW op \in DispatchOps, Enters(op) PROVE Covered'
  <2>1. BoxCount' = 0 /\ live_boxes' = IF op = "unhandled" THEN live_boxes ELSE live_boxes - 1
    BY <1>4 DEF Enters, BoxCount
  <2>2. Reported' = Reported + (IF op = "unhandled" THEN 1 ELSE 0)
    BY <1>4, EntersEffect DEF Reported
  <2> QED
    BY <1>2, <2>1, <2>2 DEF Covered
<1> QED
  BY <1>1, <1>3, <1>4

LEMMA ReturnCovered ==
  ASSUME DataTyped, Covered, HandlerReturns \/ \E r \in WriteResults : UnhandledReturns(r)
  PROVE  Covered'
<1>1. /\ live_boxes \in Int /\ BoxCount \in {0, 1}
      /\ Reported \in Nat /\ live_boxes >= BoxCount + Reported
  <2>1. live_boxes \in Int /\ BoxCount \in {0, 1}
    BY DEF DataTyped, BoxCount
  <2> QED
    BY <2>1, ReportedTyped DEF Covered
<1>2. CASE HandlerReturns
  <2>1. Reported' = Reported
    <3>1. Cardinality(Entered({"unhandled"}))' =
            Cardinality(Entered({"unhandled"})) - (IF Top.op = "unhandled" THEN 1 ELSE 0)
      BY <1>2, HandlerLeaves, LeavesEffect
    <3>2. Top.op # "unhandled" /\ Cardinality(Entered({"unhandled"})) \in Nat
      BY <1>2, HandlerLeaves, EnteredTyped
    <3> QED
      BY <3>1, <3>2 DEF Reported
  <2>2. NewBox(live_boxes)
    BY <1>2 DEF HandlerReturns
  <2>3. live_boxes >= Reported /\ Reported \in Int
    BY <1>1
  <2> QED
    BY <1>1, <2>1, <2>2, <2>3, NewBoxCovered
<1>3. ASSUME NEW r \in WriteResults, UnhandledReturns(r) PROVE Covered'
  <2>1. Reported' = Reported - 1
    <3>1. Cardinality(Entered({"unhandled"}))' =
            Cardinality(Entered({"unhandled"})) - (IF Top.op = "unhandled" THEN 1 ELSE 0)
      BY <1>3, UnhandledLeaves, LeavesEffect
    <3>2. Top.op = "unhandled"
      BY <1>3, UnhandledLeaves
    <3> QED
      BY <3>1, <3>2 DEF Reported
  <2>2. CASE r = "OK"
    <3>1. NewBox(live_boxes - 1)
      BY <1>3, <2>2 DEF UnhandledReturns
    <3>2. live_boxes - 1 \in Int /\ Reported - 1 \in Int /\ live_boxes - 1 >= Reported - 1
      BY <1>1
    <3> QED
      BY <2>1, <3>1, <3>2, NewBoxCovered
  <2>3. CASE r # "OK"
    <3>1. live_boxes' = live_boxes - 1 /\ UNCHANGED box
      BY <1>3, <2>3 DEF UnhandledReturns
    <3>2. BoxCount' = BoxCount
      BY <3>1 DEF BoxCount
    <3> QED
      BY <1>1, <2>1, <3>1, <3>2 DEF Covered
  <2> QED
    BY <2>2, <2>3
<1> QED
  BY <1>2, <1>3

LEMMA CoverKept ==
  ASSUME DataTyped, status # "crashed" => Covered, [Next]_vars, status' # "crashed"
  PROVE  Covered'
<1>1. Covered /\ ~Crash
  BY NeverRevived DEF Crash
<1>2. CASE Elsewhere
  <2>1. Reported' = Reported /\ BoxCount' = BoxCount /\ live_boxes' = live_boxes
    BY <1>2 DEF Elsewhere, SameDispatch, Reported, BoxCount
  <2> QED
    BY <1>1, <2>1 DEF Covered
<1> QED
  BY <1>1, <1>2, ReplaceCovered, ConsumeCovered, ReturnCovered, BoxStep

(* In any environment, also when user functions feed or reset the protocol  *)
(* that is calling them: what the library will free is allocated.           *)
THEOREM BoxesFreedOnce == Spec => []NoBoxFreedTwice
<1> DEFINE Owned == TypeOK /\ NoBoxFreedTwice
<1>1. NoBoxFreedTwice <=> (status # "crashed" => Covered)
  BY DEF NoBoxFreedTwice, Covered, BoxCount, Reported
<1>2. NoBoxFreedTwice' <=> (status' # "crashed" => Covered')
  BY DEF NoBoxFreedTwice, Covered, BoxCount, Reported
<1>3. Init => Owned
  <2> SUFFICES ASSUME Init PROVE Owned
    OBVIOUS
  <2>1. BoxBalanced /\ TypeOK
    BY InitBoxes, InitTyped
  <2>2. live_boxes = BoxCount + Reported
    BY <2>1 DEF Init, BoxBalanced, BoxCount, Reported
  <2>3. live_boxes \in Int
    BY DEF Init
  <2> QED
    BY <1>1, <2>1, <2>2, <2>3 DEF Covered
<1>4. Owned /\ [Next]_vars => Owned'
  <2> SUFFICES ASSUME Owned, [Next]_vars PROVE Owned'
    OBVIOUS
  <2>1. TypeOK' /\ DataTyped
    BY NextTyped, TypeSplit
  <2> QED
    BY <1>1, <1>2, <2>1, CoverKept
<1>5. Owned => NoBoxFreedTwice
  OBVIOUS
<1> HIDE DEF Owned
<1> QED
  BY <1>3, <1>4, <1>5, PTL DEF Spec

-----------------------------------------------------------------------------
(* Why the library follows NULL *)

\* a write handler is set, and no request without _ask is answered
Prepared == Env \cap {"no_handler", "respond_no_ask", "reentrant_consume"} = {}

BoxOrReason == status = "alive" => box \/ InDispatch \/ error # "OK" \/ oom

LEMMA OomStays == ASSUME [Next]_vars, oom PROVE oom'
BY Zenon DEF Next, ApiStep, UserStep, ConsumeStep, ReturnStep, CallStep, Consume, vars,
  SetWriteHandler, WriteThroughGarbage, RespondNoAsk, Reset, FreeProto, CallRegisters,
  CallFindsNoWriter, CallRefused, CallBacksOut, CallNoAnswer, AddResponder,
  AddResponderOom, RemoveResponder, Respond, FreeRequest, Cancel, CancelLosesResult,
  ConsumeNoBox, ConsumeOom, ConsumeRefuses, ConsumeRequest, ConsumeUnhandledNoAsk,
  ConsumeUnhandled, ConsumeUnhandledNoWriter, ConsumeUnhandledFails, ConsumeReply,
  ConsumeReplyLosesResult, ConsumeUnknownReply, HandlerReturns, CancelReturns,
  WriteReturns, CallReturns, UnhandledReturns, Crash, OutOfMemory, NewBox

LEMMA NewBoxOrOom == ASSUME NEW kept, NewBox(kept) PROVE box' \/ oom'
BY Zenon DEF NewBox, OutOfMemory

LEMMA ReasonKept ==
  ASSUME DataTyped, BoxOrReason, [Next]_vars
  PROVE  BoxOrReason'
<1>1. SUFFICES ASSUME status' = "alive", status = "alive",
                      box \/ InDispatch \/ error # "OK" \/ oom
               PROVE  box' \/ InDispatch' \/ error' # "OK" \/ oom'
  BY NeverRevived DEF BoxOrReason
<1>2. CASE Elsewhere
  BY <1>1, <1>2, OomStays DEF Elsewhere, SameDispatch, InDispatch
<1>3. CASE Reset \/ FreeProto
  BY <1>1, <1>3, NewBoxOrOom DEF Reset, FreeProto
<1>4. CASE ConsumeStep
  <2>1. /\ CanDispatch
        /\ Refused \/ Dropped \/ Gone \/ \E op \in DispatchOps : Enters(op)
    BY <1>1, <1>4, ConsumeEffect DEF Crash
  <2>2. CASE Dropped
    BY <2>2, NewBoxOrOom DEF Dropped
  <2>3. CASE \E op \in DispatchOps : Enters(op)
    BY <2>3, EntersEffect
  <2> QED
    BY <2>1, <2>2, <2>3 DEF Refused, Gone
<1>5. CASE HandlerReturns
  BY <1>5, NewBoxOrOom DEF HandlerReturns
<1>6. ASSUME NEW r \in WriteResults, UnhandledReturns(r)
      PROVE  box' \/ error' # "OK" \/ oom'
  BY <1>6, NewBoxOrOom DEF UnhandledReturns
<1> QED
  BY <1>2, <1>3, <1>4, <1>5, <1>6, BoxStep

\* the steps that follow a NULL pointer, or one never set
LEMMA CrashStep ==
  ASSUME DataTyped, [Next]_vars, status # "crashed", status' = "crashed"
  PROVE  \/ "no_handler" \in Env \/ "respond_no_ask" \in Env \/ oom'
         \/ Consuming /\ ~box /\ UNCHANGED oom
<1> DEFINE Goal == \/ "no_handler" \in Env \/ "respond_no_ask" \in Env \/ oom'
                   \/ Consuming /\ ~box /\ UNCHANGED oom
<1>1. CASE ApiStep
  <2>1. ASSUME NEW c \in Calls, CallStep(c) PROVE status' = status
    BY <2>1 DEF CallStep, CallRegisters, CallFindsNoWriter, CallRefused, CallBacksOut
  <2>2. ASSUME NEW cmd \in Commands,
               CallNoAnswer(cmd) \/ AddResponder(cmd) \/ AddResponderOom(cmd)
                 \/ RemoveResponder(cmd)
        PROVE  status' = status \/ oom'
    BY <2>2 DEF CallNoAnswer, AddResponder, AddResponderOom, RemoveResponder, OutOfMemory
  <2>3. ASSUME NEW a \in Asks, Respond(a) \/ FreeRequest(a) PROVE status' = status
    BY <2>3 DEF Respond, FreeRequest
  <2>4. ASSUME NEW k \in Keys, Cancel(k) \/ CancelLosesResult(k) PROVE status' = status
    BY <2>4 DEF Cancel, CancelLosesResult
  <2> QED
    BY <1>1, <2>1, <2>2, <2>3, <2>4
    DEF ApiStep, UserStep, SetWriteHandler, WriteThroughGarbage, RespondNoAsk, Reset, FreeProto
<1>2. CASE ConsumeStep
  BY <1>2, ConsumeEffect DEF Crash
<1>3. CASE ReturnStep
  BY <1>3 DEF ReturnStep, HandlerReturns, CancelReturns, WriteReturns, CallReturns,
              UnhandledReturns
<1> QED
  BY <1>1, <1>2, <1>3 DEF Next, vars

(* Once a write handler is set and user functions use the API as amp.h      *)
(* assumes they do, the library follows NULL only after an allocation has   *)
(* failed.                                                                  *)
THEOREM CrashesNeedOom == Prepared /\ Spec => []CrashOnlyAfterOom
<1> DEFINE Explained == Prepared /\ TypeOK /\ BoxOrReason /\ CrashOnlyAfterOom
<1>1. Init /\ Prepared => Explained
  BY InitTyped DEF Init, BoxOrReason, CrashOnlyAfterOom
<1>2. Explained /\ [Next]_vars => Explained'
  <2> SUFFICES ASSUME Explained, [Next]_vars PROVE Explained'
    OBVIOUS
  <2>1. TypeOK' /\ Prepared' /\ DataTyped
    BY NextTyped, TypeSplit DEF Prepared
  <2>2. BoxOrReason'
    BY <2>1, ReasonKept
  <2>3. ASSUME status' = "crashed" PROVE oom'
    <3>1. CASE status = "crashed"
      BY <3>1, OomStays DEF CrashOnlyAfterOom
    <3>2. CASE status # "crashed"
      <4>1. oom' \/ (Consuming /\ ~box /\ UNCHANGED oom)
        BY <2>1, <2>3, <3>2, CrashStep DEF Prepared
      <4>2. Consuming => status = "alive" /\ error = "OK" /\ ~InDispatch
        BY DEF Consuming, UserRuns, Prepared
      <4> QED
        BY <4>1, <4>2 DEF BoxOrReason
    <3> QED
      BY <3>1, <3>2
  <2> QED
    BY <2>1, <2>2, <2>3 DEF CrashOnlyAfterOom
<1>3. Explained => CrashOnlyAfterOom
  OBVIOUS
<1> QED
  BY <1>1, <1>2, <1>3, PTL DEF Spec

(* Whatever user functions do, the parser lacks a box between two calls of  *)
(* the library only if there is an error to say why, or an allocation has   *)
(* failed: only that, as in run box_oom, can lose the box.                  *)
THEOREM ReadyErrorOrOom == Spec => [](ReadyOrError \/ oom)
<1>1. Init => TypeOK /\ BoxOrReason
  BY InitTyped DEF Init, BoxOrReason
<1>2. TypeOK /\ BoxOrReason /\ [Next]_vars => TypeOK' /\ BoxOrReason'
  BY NextTyped, TypeSplit, ReasonKept
<1>3. BoxOrReason => ReadyOrError \/ oom
  BY DEF BoxOrReason, ReadyOrError
<1> QED
  BY <1>1, <1>2, <1>3, PTL DEF Spec

-----------------------------------------------------------------------------
(***************************************************************************)
(* Every call gets at most one result, and no call is forgotten: proofs     *)
(* about the callback table of AmpProto, the refinement of CallLedger, and  *)
(* the callback structs.  All rest on CallInv, which files every waiting    *)
(* call under the key it was given.                                         *)
(***************************************************************************)

(* What the steps do to the table and to the stack *)

\* what AtMostOneResult, NoLostCall and the table part of CallInv depend on
ledger == <<outstanding_requests, invoked, dropped, keyVars, ret>>

\* the steps that file a call or take it out of the table
Files(c)   == (\E cmd \in Commands : CallRegisters(c, cmd)) \/ CallFindsNoWriter(c)
Delivers(k) == Cancel(k) \/ \E b \in Boxes : ReplyKey(b) = k /\ ConsumeReply(b)
Loses(k) == \/ CancelLosesResult(k)
            \/ \E b \in Boxes : ReplyKey(b) = k /\ ConsumeReplyLosesResult(b)
LedgerStep ==
  \/ \E c \in Calls : Files(c) \/ CallBacksOut(c)
  \/ \E k \in Keys : Delivers(k) \/ Loses(k)
  \/ \E r \in WriteResults : CallReturns(r)
  \/ FreeProto

LEMMA QuietApi ==
  ASSUME ApiStep PROVE LedgerStep \/ UNCHANGED ledger
<1>1. CASE SetWriteHandler \/ Reset
  BY <1>1 DEF SetWriteHandler, Reset, ledger, callVars, keyVars
<1>2. CASE WriteThroughGarbage \/ RespondNoAsk
  BY <1>2 DEF WriteThroughGarbage, RespondNoAsk, Crash, ledger, callVars, keyVars
<1>3. ASSUME NEW c \in Calls, CallStep(c) PROVE LedgerStep \/ UNCHANGED ledger
  <2>1. CASE CallRefused(c)
    BY <2>1 DEF CallRefused, ledger, callVars, keyVars
  <2> QED
    BY <1>3, <2>1 DEF CallStep, LedgerStep, Files
<1>4. ASSUME NEW cmd \in Commands,
             CallNoAnswer(cmd) \/ AddResponder(cmd) \/ AddResponderOom(cmd)
               \/ RemoveResponder(cmd)
      PROVE UNCHANGED ledger
  BY <1>4 DEF CallNoAnswer, AddResponder, AddResponderOom, RemoveResponder, ledger,
              callVars, keyVars
<1>5. ASSUME NEW a \in Asks, Respond(a) \/ FreeRequest(a) PROVE UNCHANGED ledger
  BY <1>5 DEF Respond, FreeRequest, ledger, callVars, keyVars
<1>6. ASSUME NEW k \in Keys, Cancel(k) \/ CancelLosesResult(k) PROVE LedgerStep
  BY <1>6 DEF LedgerStep, Delivers, Loses
<1>7. CASE FreeProto
  BY <1>7 DEF LedgerStep
<1> QED
  BY <1>1, <1>2, <1>3, <1>4, <1>5, <1>6, <1>7 DEF ApiStep, UserStep

LEMMA QuietConsume ==
  ASSUME ConsumeStep PROVE LedgerStep \/ UNCHANGED ledger
<1>1. CASE ConsumeNoBox \/ ConsumeOom
  BY <1>1 DEF ConsumeNoBox, ConsumeOom, Crash, ledger, callVars, keyVars
<1>2. ASSUME NEW b \in Boxes, Consume(b) PROVE LedgerStep \/ UNCHANGED ledger
  <2>1. CASE ConsumeReply(b) \/ ConsumeReplyLosesResult(b)
    <3>1. ReplyKey(b) \in Keys
      BY <2>1, IncomingBox DEF ConsumeReply, ConsumeReplyLosesResult
    <3> QED
      BY <2>1, <3>1 DEF LedgerStep, Delivers, Loses
  <2>2. CASE \/ ConsumeRefuses(b) \/ ConsumeRequest(b) \/ ConsumeUnhandledNoAsk(b)
             \/ ConsumeUnhandled(b) \/ ConsumeUnhandledFails(b) \/ ConsumeUnknownReply(b)
    BY <2>2 DEF ConsumeRefuses, ConsumeRequest, ConsumeUnhandledNoAsk, ConsumeUnhandled,
                ConsumeUnhandledFails, ConsumeUnknownReply, ledger, callVars, keyVars
  <2>3. CASE ConsumeUnhandledNoWriter(b)
    BY <2>3 DEF ConsumeUnhandledNoWriter, Crash, ledger, callVars, keyVars
  <2> QED
    BY <1>2, <2>1, <2>2, <2>3 DEF Consume
<1> QED
  BY <1>1, <1>2 DEF ConsumeStep

LEMMA QuietReturn ==
  ASSUME ReturnStep PROVE LedgerStep \/ UNCHANGED ledger
<1>1. CASE HandlerReturns \/ CancelReturns \/ WriteReturns
  BY <1>1 DEF HandlerReturns, CancelReturns, WriteReturns, ledger, callVars, keyVars
<1>2. ASSUME NEW r \in WriteResults, UnhandledReturns(r) PROVE UNCHANGED ledger
  BY <1>2 DEF UnhandledReturns, ledger, callVars, keyVars
<1> QED
  BY <1>1, <1>2 DEF ReturnStep, LedgerStep

LEMMA Quiet ==
  ASSUME [Next]_vars PROVE LedgerStep \/ UNCHANGED ledger
<1>1. CASE UNCHANGED vars
  BY <1>1 DEF vars, ledger, callVars
<1> QED
  BY <1>1, QuietApi, QuietConsume, QuietReturn DEF Next

-----------------------------------------------------------------------------
(* Steps of the ledger, one lemma each *)

\* the table, and the counts that go with it
LedgerInv == TableFiled /\ KeysDrawn /\ CallsKnown

\* drawing a key for call c
LEMMA Drawn ==
  ASSUME DataTyped, KeysDrawn, NEW c \in Calls, NextAskKey(c)
  PROVE  LET k == (last_ask_key + 1) % M IN
         /\ k \in Keys /\ KeysDrawn'
         /\ issued' = issued + 1 /\ issued_at' = [issued_at EXCEPT ![c] = issued + 1]
         /\ (issued + 1) % M = k
         /\ \A d \in Calls : issued_at[d] % M = k => (issued + 1) - issued_at[d] >= M
<1> DEFINE k == (last_ask_key + 1) % M
<1>1. /\ issued \in Nat /\ \A d \in Calls : issued_at[d] \in Nat /\ issued_at[d] <= issued
      /\ issued' = issued + 1 /\ issued_at' = [issued_at EXCEPT ![c] = issued + 1]
      /\ last_ask_key' = k
  BY DEF DataTyped, KeysDrawn, NextAskKey
<1>2. k \in Keys
  BY RegisterData
<1>3. (issued + 1) % M = k
  BY <1>1, ModSucc DEF KeysDrawn
<1>4. KeysDrawn'
  <2>1. \A d \in Calls : issued_at'[d] <= issued'
    BY <1>1 DEF DataTyped
  <2>2. last_ask_key' = issued' % M
    BY <1>1, <1>3
  <2> QED
    BY <2>1, <2>2 DEF KeysDrawn
<1>5. ASSUME NEW d \in Calls, issued_at[d] % M = k
      PROVE  (issued + 1) - issued_at[d] >= M
  <2> DEFINE a == issued_at[d]
             b == issued + 1
  <2>1. a \in Nat /\ b \in Nat /\ a < b
    BY <1>1
  <2>2. a % M = b % M
    BY <1>3, <1>5
  <2> HIDE DEF a, b
  <2>3. b - a >= M
    BY <2>1, <2>2, ModGap
  <2> QED
    BY <2>3 DEF a, b
<1> QED
  BY <1>1, <1>2, <1>3, <1>4, <1>5

LEMMA FilesKeepsLedger ==
  ASSUME DataTyped, LedgerInv, AtMostOneResult, NoLostCall, NEW c \in Calls, Files(c)
  PROVE  LedgerInv' /\ AtMostOneResult' /\ NoLostCall'
<1> DEFINE k == (last_ask_key + 1) % M
<1>1. /\ NextAskKey(c) /\ ret[c] = "none" /\ status = "alive"
      /\ outstanding_requests' = [outstanding_requests EXCEPT ![k] = c]
      /\ \E r \in {"running", "failed"} : ret' = [ret EXCEPT ![c] = r]
      /\ UNCHANGED <<invoked, dropped, status>>
  BY DEF Files, CallRegisters, CallFindsNoWriter, CanCall, UserRuns
<1>2. /\ k \in Keys /\ KeysDrawn'
      /\ issued' = issued + 1 /\ issued_at' = [issued_at EXCEPT ![c] = issued + 1]
      /\ (issued + 1) % M = k
      /\ \A d \in Calls : issued_at[d] % M = k => (issued + 1) - issued_at[d] >= M
  BY <1>1, Drawn DEF LedgerInv
<1>3. invoked[c] = 0 /\ c \in DOMAIN issued_at /\ c \in DOMAIN ret
  BY <1>1 DEF LedgerInv, CallsKnown, DataTyped
<1> HIDE DEF k
<1>4. PICK r \in {"running", "failed"} : ret' = [ret EXCEPT ![c] = r]
  BY <1>1
<1>5. /\ \A d \in Calls : d # c => issued_at'[d] = issued_at[d] /\ ret'[d] = ret[d]
      /\ issued_at'[c] = issued + 1 /\ ret'[c] = r
      /\ outstanding_requests'[k] = c
      /\ \A j \in Keys : j # k => outstanding_requests'[j] = outstanding_requests[j]
      /\ \A j \in Keys : outstanding_requests[j] # None => outstanding_requests[j] \in Calls
  BY <1>1, <1>2, <1>4 DEF DataTyped
<1>6. c \notin dropped /\ \A j \in Keys : outstanding_requests[j] # c
  BY <1>1, ConstantsAssumption DEF LedgerInv, CallsKnown, TableFiled
<1>7. TableFiled'
  <2> SUFFICES ASSUME NEW j \in Keys, outstanding_requests'[j] # None
               PROVE  LET d == outstanding_requests'[j] IN
                      /\ ret'[d] # "none" /\ invoked'[d] = 0 /\ d \notin dropped'
                      /\ issued_at'[d] % M = j
    BY DEF TableFiled
  <2>1. CASE j = k
    BY <1>1, <1>2, <1>3, <1>4, <1>5, <1>6, <2>1
  <2>2. CASE j # k
    BY <1>1, <1>5, <1>6, <2>2 DEF LedgerInv, TableFiled
  <2> QED
    BY <2>1, <2>2
<1>8. CallsKnown'
  BY <1>1, <1>5 DEF LedgerInv, CallsKnown
<1>9. NoLostCall'
  <2> SUFFICES ASSUME NEW d \in Calls, ret'[d] # "none", invoked'[d] = 0, d \notin dropped'
               PROVE  \/ outstanding_requests'[issued_at'[d] % M] = d
                      \/ issued' - issued_at'[d] >= M
    BY DEF NoLostCall
  <2>1. CASE d = c
    BY <1>2, <1>5, <2>1
  <2>2. CASE d # c /\ issued_at[d] % M = k
    <3>1. (issued + 1) - issued_at[d] >= M
      BY <1>2, <2>2
    <3> QED
      BY <1>2, <1>5, <2>2, <3>1
  <2>3. CASE d # c /\ issued_at[d] % M # k
    <3>1. \/ outstanding_requests[issued_at[d] % M] = d
          \/ issued - issued_at[d] >= M
      BY <1>1, <1>5, <2>3 DEF NoLostCall
    <3>2. CASE outstanding_requests[issued_at[d] % M] = d
      <4>1. issued_at[d] % M \in Keys
        <5>1. issued_at[d] \in Int
          BY DEF DataTyped
        <5> QED
          BY <5>1, Widths, DivMod
      <4> QED
        BY <1>5, <2>3, <3>2, <4>1
    <3>3. CASE issued - issued_at[d] >= M
      <4>1. issued \in Nat /\ issued_at[d] \in Nat /\ M \in Nat
        BY Widths DEF DataTyped
      <4> QED
        BY <1>2, <1>5, <2>3, <3>3, <4>1
    <3> QED
      BY <3>1, <3>2, <3>3
  <2> QED
    BY <2>1, <2>2, <2>3
<1>10. AtMostOneResult'
  BY <1>1 DEF AtMostOneResult
<1> QED
  BY <1>2, <1>7, <1>8, <1>9, <1>10 DEF LedgerInv

\* amp_call's error path: whatever it takes out of the table was all keys old
LEMMA BackOutKeepsLedger ==
  ASSUME DataTyped, LedgerInv, AtMostOneResult, NoLostCall, NEW c \in Calls, CallBacksOut(c)
  PROVE  LedgerInv' /\ AtMostOneResult' /\ NoLostCall'
<1> DEFINE k == (last_ask_key + 1) % M
<1>1. /\ NextAskKey(c) /\ ret[c] = "none" /\ status = "alive"
      /\ outstanding_requests' = [outstanding_requests EXCEPT ![k] = None]
      /\ UNCHANGED <<invoked, dropped, ret, status>>
  BY DEF CallBacksOut, BackOut, PopCallback, CanCall, UserRuns
<1>2. /\ k \in Keys /\ KeysDrawn'
      /\ issued' = issued + 1 /\ issued_at' = [issued_at EXCEPT ![c] = issued + 1]
      /\ \A d \in Calls : issued_at[d] % M = k => (issued + 1) - issued_at[d] >= M
  BY <1>1, Drawn DEF LedgerInv
<1> HIDE DEF k
<1>3. /\ \A d \in Calls : d # c => issued_at'[d] = issued_at[d]
      /\ outstanding_requests'[k] = None
      /\ \A j \in Keys : j # k => outstanding_requests'[j] = outstanding_requests[j]
  BY <1>1, <1>2 DEF DataTyped
<1>4. TableFiled'
  <2>1. \A j \in Keys : outstanding_requests[j] # None =>
                          outstanding_requests[j] \in Calls /\ outstanding_requests[j] # c
    BY <1>1 DEF LedgerInv, TableFiled, DataTyped
  <2> QED
    BY <1>1, <1>3, <2>1 DEF LedgerInv, TableFiled
<1>5. CallsKnown' /\ AtMostOneResult'
  BY <1>1 DEF LedgerInv, CallsKnown, AtMostOneResult
<1>6. NoLostCall'
  <2> SUFFICES ASSUME NEW d \in Calls, ret'[d] # "none", invoked'[d] = 0, d \notin dropped'
               PROVE  \/ outstanding_requests'[issued_at'[d] % M] = d
                      \/ issued' - issued_at'[d] >= M
    BY DEF NoLostCall
  <2>1. /\ d # c /\ issued_at'[d] = issued_at[d] /\ issued' = issued + 1
        /\ issued \in Nat /\ issued_at[d] \in Nat /\ M \in Nat
        /\ \/ outstanding_requests[issued_at[d] % M] = d
           \/ issued - issued_at[d] >= M
    BY <1>1, <1>2, <1>3, Widths DEF NoLostCall, DataTyped
  <2>2. CASE issued - issued_at[d] >= M
    BY <2>1, <2>2
  <2>3. CASE issued_at[d] % M = k
    <3>1. (issued + 1) - issued_at[d] >= M
      BY <1>2, <2>3
    <3> QED
      BY <2>1, <3>1
  <2>4. CASE issued_at[d] % M # k /\ outstanding_requests[issued_at[d] % M] = d
    <3>1. issued_at[d] % M \in Keys
      BY <2>1, Widths, DivMod
    <3> QED
      BY <1>3, <2>1, <2>4, <3>1
  <2> QED
    BY <2>1, <2>2, <2>3, <2>4
<1> QED
  BY <1>2, <1>4, <1>5, <1>6 DEF LedgerInv

\* a call taken out of the table has its result, or is known to have lost it
LEMMA TakesKeepsLedger ==
  ASSUME DataTyped, LedgerInv, AtMostOneResult, NoLostCall, NEW k \in Keys,
         Delivers(k) \/ Loses(k)
  PROVE  LedgerInv' /\ AtMostOneResult' /\ NoLostCall'
<1> DEFINE c == outstanding_requests[k]
<1>1. /\ c # None /\ PopCallback(k)
      /\ \/ invoked' = [invoked EXCEPT ![c] = @ + 1] /\ UNCHANGED dropped
         \/ dropped' = dropped \cup {c} /\ UNCHANGED invoked
      /\ UNCHANGED <<keyVars, ret, status>>
  <2>1. CASE Delivers(k)
    BY <2>1 DEF Delivers, Cancel, ConsumeReply
  <2>2. CASE Loses(k)
    BY <2>2 DEF Loses, CancelLosesResult, ConsumeReplyLosesResult
  <2> QED
    BY <2>1, <2>2
<1>2. /\ c \in Calls
      /\ outstanding_requests' = [outstanding_requests EXCEPT ![k] = None]
      /\ ret[c] # "none" /\ invoked[c] = 0 /\ issued_at[c] % M = k
  BY <1>1 DEF DataTyped, PopCallback, LedgerInv, TableFiled
<1>3. /\ outstanding_requests'[k] = None
      /\ \A j \in Keys : j # k => outstanding_requests'[j] = outstanding_requests[j]
      /\ \A d \in Calls : d # c => /\ invoked'[d] = invoked[d]
                                   /\ d \in dropped' <=> d \in dropped
      /\ \/ invoked'[c] = 1
         \/ invoked'[c] = 0 /\ c \in dropped'
  BY <1>1, <1>2 DEF DataTyped
<1>4. UNCHANGED <<last_ask_key, issued, issued_at, ret, status>>
  BY <1>1 DEF keyVars
<1>5. TableFiled'
  <2> SUFFICES ASSUME NEW j \in Keys, outstanding_requests'[j] # None
               PROVE  LET d == outstanding_requests'[j] IN
                      /\ ret'[d] # "none" /\ invoked'[d] = 0 /\ d \notin dropped'
                      /\ issued_at'[d] % M = j
    BY DEF TableFiled
  <2>1. j # k /\ outstanding_requests'[j] = outstanding_requests[j]
    BY <1>3
  <2>2. outstanding_requests[j] # c /\ outstanding_requests[j] \in Calls
    BY <1>2, <2>1 DEF LedgerInv, TableFiled, DataTyped
  <2> QED
    BY <1>3, <1>4, <2>1, <2>2 DEF LedgerInv, TableFiled
<1>6. KeysDrawn'
  BY <1>4 DEF LedgerInv, KeysDrawn
<1>7. CallsKnown'
  BY <1>2, <1>3, <1>4 DEF LedgerInv, CallsKnown
<1>8. AtMostOneResult'
  BY <1>3 DEF AtMostOneResult
<1>9. NoLostCall'
  <2> SUFFICES ASSUME NEW d \in Calls, ret'[d] # "none", invoked'[d] = 0, d \notin dropped',
                      status = "alive"
               PROVE  \/ outstanding_requests'[issued_at'[d] % M] = d
                      \/ issued' - issued_at'[d] >= M
    BY <1>4 DEF NoLostCall
  <2>1. d # c /\ d \notin dropped /\ invoked[d] = 0 /\ ret[d] # "none"
    BY <1>3, <1>4
  <2>2. \/ outstanding_requests[issued_at[d] % M] = d
        \/ issued - issued_at[d] >= M
    BY <2>1 DEF NoLostCall
  <2>3. CASE outstanding_requests[issued_at[d] % M] = d
    <3>1. issued_at[d] \in Int
      BY DEF DataTyped
    <3>2. issued_at[d] % M \in Keys
      BY <3>1, Widths, DivMod
    <3> QED
      BY <1>2, <1>3, <1>4, <2>1, <2>3, <3>2
  <2> QED
    BY <1>4, <2>2, <2>3
<1> QED
  BY <1>5, <1>6, <1>7, <1>8, <1>9 DEF LedgerInv

\* the write handler reports to amp_call on behalf of a call already known
LEMMA CallReturnsKeepsLedger ==
  ASSUME DataTyped, LedgerInv, CallWriters, AtMostOneResult, NoLostCall,
         NEW r \in WriteResults, CallReturns(r)
  PROVE  LedgerInv' /\ AtMostOneResult' /\ NoLostCall'
<1>1. Top.call \in Calls /\ ret[Top.call] # "none"
  <2>1. Len(stack) \in 1 .. Len(stack)
    BY PopEffect DEF CallReturns, Returning, DataTyped
  <2> QED
    BY <2>1 DEF CallWriters, Entered, CallReturns, Returning, Top
<1>2. \A d \in Calls : ret'[d] = "none" <=> ret[d] = "none"
  BY <1>1 DEF CallReturns, DataTyped
<1>3. UNCHANGED <<outstanding_requests, invoked, dropped, last_ask_key, issued, issued_at,
                  status>>
  BY DEF CallReturns, callVars, keyVars
<1>4. TableFiled'
  BY <1>2, <1>3 DEF LedgerInv, TableFiled, DataTyped
<1> QED
  BY <1>2, <1>3, <1>4 DEF LedgerInv, KeysDrawn, CallsKnown, AtMostOneResult, NoLostCall

LEMMA FreeKeepsLedger ==
  ASSUME DataTyped, LedgerInv, AtMostOneResult, FreeProto
  PROVE  LedgerInv' /\ AtMostOneResult' /\ NoLostCall'
<1>1. /\ \A k \in Keys : outstanding_requests'[k] = None
      /\ status' = "freed"
      /\ UNCHANGED <<invoked, dropped, last_ask_key, issued, issued_at, ret>>
  BY DEF FreeProto, keyVars
<1> QED
  BY <1>1 DEF LedgerInv, TableFiled, KeysDrawn, CallsKnown, AtMostOneResult, NoLostCall

LEMMA LedgerKept ==
  ASSUME DataTyped, LedgerInv, CallWriters, AtMostOneResult, NoLostCall, [Next]_vars
  PROVE  LedgerInv' /\ AtMostOneResult' /\ NoLostCall'
<1>1. CASE LedgerStep
  BY <1>1, FilesKeepsLedger, BackOutKeepsLedger, TakesKeepsLedger, CallReturnsKeepsLedger,
     FreeKeepsLedger DEF LedgerStep
<1>2. CASE UNCHANGED ledger
  <2>1. UNCHANGED <<outstanding_requests, invoked, dropped, last_ask_key, issued, issued_at,
                    ret>>
    BY <1>2 DEF ledger, keyVars
  <2>2. status' = "alive" => status = "alive"
    BY NeverRevived
  <2> QED
    BY <2>1, <2>2
    DEF LedgerInv, TableFiled, KeysDrawn, CallsKnown, AtMostOneResult, NoLostCall
<1> QED
  BY <1>1, <1>2, Quiet

-----------------------------------------------------------------------------
(* The writes amp_call is waiting for *)

LEMMA AppendAny ==
  ASSUME stack \in Seq(Frame), NEW f, stack' = Append(stack, f)
  PROVE  /\ Len(stack) \in Nat /\ Len(stack') = Len(stack) + 1
         /\ \A i \in 1 .. Len(stack) : stack'[i] = stack[i]
         /\ stack'[Len(stack) + 1] = f
BY DEF Frame

\* how a step may change the stack; only amp_call pushes a "call"
LEMMA StackStep ==
  ASSUME [Next]_vars
  PROVE  \/ UNCHANGED stack
         \/ stack # <<>> /\ Pop
         \/ \E f : f.op # "call" /\ stack' = Append(stack, f)
         \/ \E c \in Calls, cmd \in Commands : CallRegisters(c, cmd)
<1> DEFINE Goal == \/ UNCHANGED stack
                   \/ stack # <<>> /\ Pop
                   \/ \E f : f.op # "call" /\ stack' = Append(stack, f)
                   \/ \E c \in Calls, cmd \in Commands : CallRegisters(c, cmd)
<1>1. ASSUME NEW op, NEW c, NEW buf, op # "call", Push(op, c, buf) PROVE Goal
  <2>1. [op |-> op, call |-> c, buf |-> buf].op # "call"
    BY <1>1
  <2> QED
    BY <1>1, <2>1 DEF Push
<1>2. CASE ReturnStep
  BY <1>2 DEF ReturnStep, HandlerReturns, CancelReturns, WriteReturns, CallReturns,
              UnhandledReturns, Returning
<1>3. CASE ConsumeStep
  <2>1. CASE ConsumeNoBox \/ ConsumeOom
    BY <2>1 DEF ConsumeNoBox, ConsumeOom, Crash
  <2>2. ASSUME NEW b \in Boxes, Consume(b) PROVE Goal
    <3>1. CASE ConsumeRequest(b)
      BY <1>1, <3>1 DEF ConsumeRequest
    <3>2. CASE ConsumeUnhandled(b)
      BY <1>1, <3>2 DEF ConsumeUnhandled
    <3>3. CASE ConsumeReply(b)
      BY <1>1, <3>3 DEF ConsumeReply
    <3> QED
      BY <2>2, <3>1, <3>2, <3>3
      DEF Consume, ConsumeRefuses, ConsumeUnhandledNoAsk, ConsumeUnhandledNoWriter, Crash,
          ConsumeUnhandledFails, ConsumeReplyLosesResult, ConsumeUnknownReply
  <2> QED
    BY <1>3, <2>1, <2>2 DEF ConsumeStep
<1>4. CASE ApiStep
  <2>1. CASE SetWriteHandler \/ WriteThroughGarbage \/ RespondNoAsk \/ Reset \/ FreeProto
    BY <2>1 DEF SetWriteHandler, WriteThroughGarbage, RespondNoAsk, Reset, FreeProto, Crash
  <2>2. ASSUME NEW c \in Calls, CallStep(c) PROVE Goal
    BY <2>2 DEF CallStep, CallFindsNoWriter, CallRefused, CallBacksOut
  <2>3. ASSUME NEW cmd \in Commands,
               CallNoAnswer(cmd) \/ AddResponder(cmd) \/ AddResponderOom(cmd)
                 \/ RemoveResponder(cmd)
        PROVE Goal
    <3>1. CASE CallNoAnswer(cmd)
      BY <1>1, <3>1 DEF CallNoAnswer
    <3> QED
      BY <2>3, <3>1 DEF AddResponder, AddResponderOom, RemoveResponder
  <2>4. ASSUME NEW a \in Asks, Respond(a) \/ FreeRequest(a) PROVE Goal
    <3>1. CASE Respond(a)
      BY <1>1, <3>1 DEF Respond
    <3> QED
      BY <2>4, <3>1 DEF FreeRequest
  <2>5. ASSUME NEW k \in Keys, Cancel(k) \/ CancelLosesResult(k) PROVE Goal
    <3>1. CASE Cancel(k)
      BY <1>1, <3>1 DEF Cancel
    <3> QED
      BY <2>5, <3>1 DEF CancelLosesResult
  <2> QED
    BY <1>4, <2>1, <2>2, <2>3, <2>4, <2>5 DEF ApiStep, UserStep
<1>5. CASE UNCHANGED vars
  BY <1>5 DEF vars
<1> QED
  BY <1>2, <1>3, <1>4, <1>5 DEF Next

\* a call amp_call has returned for, or is running for, stays such a call
LEMMA RetGrows ==
  ASSUME DataTyped, [Next]_vars, NEW c \in Calls, ret[c] # "none" PROVE ret'[c] # "none"
<1>1. CASE LedgerStep
  <2>1. ASSUME NEW d \in Calls, Files(d) \/ CallBacksOut(d) PROVE ret'[c] # "none"
    BY <2>1 DEF Files, CallRegisters, CallFindsNoWriter, CallBacksOut, DataTyped
  <2>2. ASSUME NEW k \in Keys, Delivers(k) \/ Loses(k) PROVE ret'[c] # "none"
    BY <2>2 DEF Delivers, Loses, Cancel, CancelLosesResult, ConsumeReply,
                ConsumeReplyLosesResult
  <2>3. ASSUME NEW r \in WriteResults, CallReturns(r) PROVE ret'[c] # "none"
    BY <2>3 DEF CallReturns, DataTyped
  <2> QED
    BY <1>1, <2>1, <2>2, <2>3 DEF LedgerStep, FreeProto
<1>2. CASE UNCHANGED ledger
  BY <1>2 DEF ledger
<1> QED
  BY <1>1, <1>2, Quiet

LEMMA WritersKept ==
  ASSUME DataTyped, DataTyped', CallWriters, [Next]_vars PROVE CallWriters'
<1> DEFINE Known(i) == stack[i].op = "call" => stack[i].call \in Calls
                                            /\ ret[stack[i].call] # "none"
<1>1. \A i \in 1 .. Len(stack) : Known(i)
  BY DEF CallWriters, Entered
<1>2. ASSUME NEW i \in 1 .. Len(stack), stack'[i] = stack[i] PROVE Known(i)'
  BY <1>1, <1>2, RetGrows
<1>3. SUFFICES \A i \in 1 .. Len(stack') : Known(i)'
  BY DEF CallWriters, Entered
<1>4. CASE UNCHANGED stack
  BY <1>2, <1>4
<1>5. CASE stack # <<>> /\ Pop
  <2>1. Len(stack) \in Nat /\ Len(stack') = Len(stack) - 1
        /\ \A i \in 1 .. Len(stack') : stack'[i] = stack[i]
    BY <1>5, PopEffect DEF DataTyped
  <2> QED
    BY <1>2, <2>1
<1>6. ASSUME NEW f, f.op # "call", stack' = Append(stack, f)
      PROVE  \A i \in 1 .. Len(stack') : Known(i)'
  <2>1. /\ Len(stack) \in Nat /\ Len(stack') = Len(stack) + 1
        /\ \A i \in 1 .. Len(stack) : stack'[i] = stack[i]
        /\ stack'[Len(stack) + 1] = f
    BY <1>6, AppendAny DEF DataTyped
  <2> QED
    BY <1>2, <1>6, <2>1
<1>7. ASSUME NEW c \in Calls, NEW cmd \in Commands, CallRegisters(c, cmd)
      PROVE  \A i \in 1 .. Len(stack') : Known(i)'
  <2> DEFINE f == [op |-> "call", call |-> c, buf |-> CallBox(cmd, (last_ask_key + 1) % M)]
  <2>1. stack' = Append(stack, f) /\ f.call = c
    BY <1>7 DEF CallRegisters, Push
  <2>2. ret'[c] # "none"
    BY <1>7 DEF CallRegisters, DataTyped
  <2> HIDE DEF f
  <2>3. /\ Len(stack) \in Nat /\ Len(stack') = Len(stack) + 1
        /\ \A i \in 1 .. Len(stack) : stack'[i] = stack[i]
        /\ stack'[Len(stack) + 1] = f
    BY <2>1, AppendAny DEF DataTyped
  <2> QED
    BY <1>2, <2>1, <2>2, <2>3
<1> QED
  BY <1>4, <1>5, <1>6, <1>7, StackStep

-----------------------------------------------------------------------------
(* The theorems *)

\* the inductive invariant
Ledger == TypeOK /\ CallInv /\ AtMostOneResult /\ NoLostCall

LEMMA InitLedger == Init => Ledger
<1> SUFFICES ASSUME Init PROVE Ledger
  OBVIOUS
<1>1. TypeOK
  BY InitTyped
<1>2. TableFiled /\ CallsKnown
  BY DEF Init, TableFiled, CallsKnown
<1>3. KeysDrawn
  <2>1. (M * 0 + 0) % M = 0
    BY Widths, ModUnique
  <2>2. M * 0 + 0 = 0
    BY Widths
  <2>3. last_ask_key = issued % M
    BY <2>1, <2>2 DEF Init
  <2> QED
    BY <2>3 DEF Init, KeysDrawn
<1>4. CallWriters
  BY DEF Init, CallWriters, Entered
<1>5. AtMostOneResult /\ NoLostCall
  BY DEF Init, AtMostOneResult, NoLostCall
<1> QED
  BY <1>1, <1>2, <1>3, <1>4, <1>5 DEF Ledger, CallInv

LEMMA NextLedger == Ledger /\ [Next]_vars => Ledger'
<1> SUFFICES ASSUME Ledger, [Next]_vars PROVE Ledger'
  OBVIOUS
<1>1. TypeOK' /\ DataTyped /\ DataTyped'
  <2>1. TypeOK'
    BY NextTyped DEF Ledger
  <2> QED
    BY <2>1, TypeSplit DEF Ledger, TypeOK, DataTyped
<1>2. LedgerInv' /\ AtMostOneResult' /\ NoLostCall'
  BY <1>1, LedgerKept DEF Ledger, CallInv, LedgerInv
<1>3. CallWriters'
  BY <1>1, WritersKept DEF Ledger, CallInv
<1> QED
  BY <1>1, <1>2, <1>3 DEF Ledger, CallInv, LedgerInv

(* No interleaving of replies, duplicates, cancellations and re-entrant     *)
(* calls makes the library invoke the callback of one amp_call twice.       *)
THEOREM OneResultEach == Spec => []AtMostOneResult
<1>1. Ledger => AtMostOneResult
  BY DEF Ledger
<1> QED
  BY <1>1, InitLedger, NextLedger, PTL DEF Spec

(* A call without a result can still get one: it is registered under its    *)
(* own key, unless every unsigned int was drawn as a key since.             *)
THEOREM NoCallLost == Spec => []NoLostCall
<1>1. Ledger => NoLostCall
  BY DEF Ledger
<1> QED
  BY <1>1, InitLedger, NextLedger, PTL DEF Spec

(* The callback table is an index of the calls that wait for a result.      *)
THEOREM TableIsAnIndex == Spec => []CallInv
<1>1. Ledger => CallInv
  BY DEF Ledger
<1> QED
  BY <1>1, InitLedger, NextLedger, PTL DEF Spec

-----------------------------------------------------------------------------
(* Keys that user code keeps *)

\* a call is not in the table before amp_call registers it
LEMMA NotFiled ==
  ASSUME DataTyped, LedgerInv, NEW c \in Calls, ret[c] = "none"
  PROVE  \A j \in Keys : outstanding_requests[j] # c
<1>1. c # None
  BY ConstantsAssumption
<1> QED
  BY <1>1 DEF LedgerInv, TableFiled

\* the call just filed is younger, by all keys, than those that had its key
LEMMA FilesKeepsKeys ==
  ASSUME DataTyped, LedgerInv, KeptKeyNamesNobody, NEW c \in Calls, Files(c)
  PROVE  KeptKeyNamesNobody'
<1> DEFINE k == (last_ask_key + 1) % M
<1>1. /\ NextAskKey(c) /\ ret[c] = "none"
      /\ outstanding_requests' = [outstanding_requests EXCEPT ![k] = c]
      /\ \E r \in {"running", "failed"} : ret' = [ret EXCEPT ![c] = r]
  BY DEF Files, CallRegisters, CallFindsNoWriter, CanCall
<1>2. /\ k \in Keys
      /\ issued_at' = [issued_at EXCEPT ![c] = issued + 1]
      /\ (issued + 1) % M = k
      /\ \A d \in Calls : issued_at[d] % M = k => (issued + 1) - issued_at[d] >= M
  BY <1>1, Drawn DEF LedgerInv
<1> HIDE DEF k
<1>3. \A j \in Keys : outstanding_requests[j] # c
  BY <1>1, NotFiled
<1>4. /\ \A d \in Calls : d # c => issued_at'[d] = issued_at[d] /\ ret'[d] = ret[d]
      /\ issued_at'[c] = issued + 1
      /\ outstanding_requests'[k] = c
      /\ \A j \in Keys : j # k => outstanding_requests'[j] = outstanding_requests[j]
      /\ \A j \in Keys : outstanding_requests[j] # None => outstanding_requests[j] \in Calls
  BY <1>1, <1>2 DEF DataTyped
<1> SUFFICES ASSUME NEW e \in Calls, NEW j \in Keys, ret'[e] # "none",
                    issued_at'[e] % M = j, outstanding_requests'[j] \notin {None, e}
             PROVE  issued_at'[outstanding_requests'[j]] - issued_at'[e] >= M
  BY DEF KeptKeyNamesNobody
<1>5. CASE j = k
  <2>1. outstanding_requests'[j] = c /\ e # c
    BY <1>4, <1>5
  <2>2. issued_at'[e] = issued_at[e]
    BY <1>4, <2>1
  <2>3. (issued + 1) - issued_at[e] >= M
    BY <1>2, <1>5, <2>2
  <2> QED
    BY <1>4, <2>1, <2>2, <2>3
<1>6. CASE j # k
  <2>1. e # c
    BY <1>2, <1>4, <1>6
  <2>2. /\ outstanding_requests'[j] = outstanding_requests[j]
        /\ issued_at'[e] = issued_at[e] /\ ret'[e] = ret[e]
    BY <1>4, <1>6, <2>1
  <2>3. outstanding_requests[j] \in Calls /\ outstanding_requests[j] # c
    BY <1>3, <1>4, <2>2
  <2>4. issued_at[outstanding_requests[j]] - issued_at[e] >= M
    BY <2>2 DEF KeptKeyNamesNobody
  <2>5. issued_at'[outstanding_requests[j]] = issued_at[outstanding_requests[j]]
    BY <1>4, <2>3
  <2> QED
    BY <2>2, <2>4, <2>5
<1> QED
  BY <1>5, <1>6

\* the other steps only take entries out of the table
LEMMA FewerKeepsKeys ==
  ASSUME DataTyped, KeptKeyNamesNobody,
         NEW A \in SUBSET Calls,
         \A d \in A : issued_at'[d] = issued_at[d],
         \A d \in Calls : ret'[d] # "none" => ret[d] # "none" /\ d \in A,
         \A j \in Keys : outstanding_requests'[j] # None =>
                             /\ outstanding_requests'[j] = outstanding_requests[j]
                             /\ outstanding_requests[j] \in A
  PROVE  KeptKeyNamesNobody'
<1> SUFFICES ASSUME NEW e \in Calls, NEW j \in Keys, ret'[e] # "none",
                    issued_at'[e] % M = j, outstanding_requests'[j] \notin {None, e}
             PROVE  issued_at'[outstanding_requests'[j]] - issued_at'[e] >= M
  BY DEF KeptKeyNamesNobody
<1>1. /\ ret[e] # "none" /\ issued_at'[e] = issued_at[e]
      /\ outstanding_requests'[j] = outstanding_requests[j]
      /\ issued_at'[outstanding_requests[j]] = issued_at[outstanding_requests[j]]
  OBVIOUS
<1>2. issued_at[outstanding_requests[j]] - issued_at[e] >= M
  BY <1>1 DEF KeptKeyNamesNobody
<1> QED
  BY <1>1, <1>2

LEMMA BackOutKeepsKeys ==
  ASSUME DataTyped, LedgerInv, KeptKeyNamesNobody, NEW c \in Calls, CallBacksOut(c)
  PROVE  KeptKeyNamesNobody'
<1> DEFINE A == Calls \ {c}
<1>1. /\ ret[c] = "none" /\ ret' = ret
      /\ issued_at' = [issued_at EXCEPT ![c] = issued + 1]
      /\ outstanding_requests' =
           [outstanding_requests EXCEPT ![(last_ask_key + 1) % M] = None]
  BY DEF CallBacksOut, BackOut, PopCallback, CanCall, NextAskKey
<1>2. \A j \in Keys : outstanding_requests[j] # c
  BY <1>1, NotFiled
<1>3. \A d \in A : issued_at'[d] = issued_at[d]
  BY <1>1 DEF DataTyped
<1>4. \A d \in Calls : ret'[d] # "none" => ret[d] # "none" /\ d \in A
  BY <1>1
<1>5. \A j \in Keys : outstanding_requests'[j] # None =>
                          /\ outstanding_requests'[j] = outstanding_requests[j]
                          /\ outstanding_requests[j] \in A
  BY <1>1, <1>2 DEF DataTyped
<1> HIDE DEF A
<1>6. A \in SUBSET Calls
  BY DEF A
<1> QED
  BY <1>3, <1>4, <1>5, <1>6, FewerKeepsKeys

LEMMA KeysKept ==
  ASSUME DataTyped, LedgerInv, CallWriters, KeptKeyNamesNobody, [Next]_vars
  PROVE  KeptKeyNamesNobody'
<1> DEFINE Fewer == /\ issued_at' = issued_at
                    /\ \A d \in Calls : ret'[d] # "none" => ret[d] # "none"
                    /\ \A j \in Keys : outstanding_requests'[j] # None =>
                                           outstanding_requests'[j] = outstanding_requests[j]
<1>1. ASSUME Fewer PROVE KeptKeyNamesNobody'
  <2>1. \A j \in Keys : outstanding_requests'[j] # None =>
                            /\ outstanding_requests'[j] = outstanding_requests[j]
                            /\ outstanding_requests[j] \in Calls
    BY <1>1 DEF DataTyped
  <2>2. /\ \A d \in Calls : issued_at'[d] = issued_at[d]
        /\ \A d \in Calls : ret'[d] # "none" => ret[d] # "none" /\ d \in Calls
        /\ Calls \in SUBSET Calls
    BY <1>1
  <2> QED
    BY <2>1, <2>2, FewerKeepsKeys
<1>2. ASSUME NEW k \in Keys, Delivers(k) \/ Loses(k) PROVE Fewer
  <2>1. PopCallback(k) /\ UNCHANGED <<keyVars, ret>>
    <3>1. CASE Delivers(k)
      BY <3>1 DEF Delivers, Cancel, ConsumeReply
    <3>2. CASE Loses(k)
      BY <3>2 DEF Loses, CancelLosesResult, ConsumeReplyLosesResult
    <3> QED
      BY <1>2, <3>1, <3>2
  <2>2. \A j \in Keys : outstanding_requests'[j] # None =>
                            outstanding_requests'[j] = outstanding_requests[j]
    BY <2>1 DEF PopCallback, DataTyped
  <2> QED
    BY <2>1, <2>2 DEF keyVars
<1>3. ASSUME NEW r \in WriteResults, CallReturns(r) PROVE Fewer
  <2>1. ret[Top.call] # "none"
    <3>1. Len(stack) \in 1 .. Len(stack)
      BY <1>3, PopEffect DEF CallReturns, Returning, DataTyped
    <3> QED
      BY <1>3, <3>1 DEF CallWriters, Entered, CallReturns, Returning, Top
  <2>2. \A d \in Calls : ret'[d] # "none" => ret[d] # "none"
    BY <1>3, <2>1 DEF CallReturns, DataTyped
  <2> QED
    BY <1>3, <2>2 DEF CallReturns, callVars, keyVars
<1>4. CASE FreeProto
  <2>1. Fewer
    BY <1>4 DEF FreeProto, keyVars
  <2> QED
    BY <1>1, <2>1
<1>5. CASE UNCHANGED ledger
  <2>1. Fewer
    BY <1>5 DEF ledger, keyVars
  <2> QED
    BY <1>1, <2>1
<1> HIDE DEF Fewer
<1>6. CASE LedgerStep
  BY <1>1, <1>2, <1>3, <1>4, <1>6, FilesKeepsKeys, BackOutKeepsKeys DEF LedgerStep
<1> QED
  BY <1>5, <1>6, Quiet

(* A key kept by user code after its call is over names nobody, or a call   *)
(* made all keys later: amp_cancel of it can cancel no other.               *)
THEOREM KeptKeysNameNobody == Spec => []KeptKeyNamesNobody
<1>1. Init => KeptKeyNamesNobody
  BY DEF Init, KeptKeyNamesNobody
<1>2. Ledger /\ KeptKeyNamesNobody /\ [Next]_vars => KeptKeyNamesNobody'
  <2> SUFFICES ASSUME Ledger, KeptKeyNamesNobody, [Next]_vars PROVE KeptKeyNamesNobody'
    OBVIOUS
  <2>1. DataTyped /\ LedgerInv /\ CallWriters
    BY TypeSplit DEF Ledger, CallInv, LedgerInv
  <2> QED
    BY <2>1, KeysKept
<1> QED
  BY <1>1, <1>2, InitLedger, NextLedger, PTL DEF Spec

-----------------------------------------------------------------------------
(* The engine implements CallLedger: who is displaced by the next key *)

\* a registered call has not waited for all keys
Fresh == \A k \in Keys : outstanding_requests[k] # None =>
                           issued - issued_at[outstanding_requests[k]] < M

LEMMA ModPlus ==
  ASSUME NEW a \in Nat PROVE (a + M) % M = a % M
<1>1. M \in Nat /\ M > 0
  BY Widths
<1>2. PICK q \in Int, r \in 0 .. M - 1 : a = M * q + r /\ r = a % M
  <2>1. a \div M \in Int /\ a % M \in 0 .. M - 1 /\ a = M * (a \div M) + (a % M)
    BY DivMod
  <2> QED
    BY <2>1
<1>3. (M * (q + 1) + r) % M = r
  BY <1>1, <1>2, ModUnique
<1>4. a + M = M * (q + 1) + r
  BY <1>1, <1>2
<1> QED
  BY <1>2, <1>3, <1>4

\* a registered call is under the next key just when it has waited for all keys
LEMMA NextKeyTaken ==
  ASSUME DataTyped, LedgerInv, Fresh, NEW j \in Keys, NEW d \in Calls,
         outstanding_requests[j] = d
  PROVE  j = (last_ask_key + 1) % M <=> (issued + 1) - issued_at[d] = M
<1> DEFINE a == issued_at[d]
           b == issued + 1
<1>1. /\ a \in Nat /\ b \in Nat /\ a < b /\ M \in Nat /\ M > 0
      /\ issued \in Nat /\ issued - a < M
  <2>1. issued - a < M
    BY ConstantsAssumption DEF Fresh
  <2>2. issued \in Nat /\ a \in Nat /\ a <= issued
    BY DEF DataTyped, LedgerInv, KeysDrawn
  <2> QED
    BY <2>1, <2>2, Widths
<1>2. a % M = j
  BY ConstantsAssumption DEF LedgerInv, TableFiled
<1>3. (last_ask_key + 1) % M = b % M
  BY <1>1, ModSucc DEF LedgerInv, KeysDrawn
<1>4. ASSUME b - a = M PROVE b % M = a % M
  <2>1. b = a + M
    BY <1>1, <1>4
  <2> HIDE DEF a, b
  <2>2. (a + M) % M = a % M
    BY <1>1, ModPlus
  <2> QED
    BY <2>1, <2>2
<1>5. ASSUME b % M = a % M PROVE b - a = M
  <2>1. b - a <= M
    BY <1>1
  <2> HIDE DEF a, b
  <2>2. b - a >= M
    BY <1>1, <1>5, ModGap
  <2> QED
    BY <1>1, <2>1, <2>2
<1> QED
  BY <1>2, <1>3, <1>4, <1>5

-----------------------------------------------------------------------------
(* Drawing a key *)

LEMMA DrawKeepsFresh ==
  ASSUME DataTyped, LedgerInv, Fresh, NEW c \in Calls, NextAskKey(c),
         NEW x \in {c, None}, ret[c] = "none",
         outstanding_requests' = [outstanding_requests EXCEPT ![(last_ask_key + 1) % M] = x]
  PROVE  Fresh'
<1> DEFINE k == (last_ask_key + 1) % M
<1>1. /\ k \in Keys /\ issued' = issued + 1
      /\ issued_at' = [issued_at EXCEPT ![c] = issued + 1]
      /\ issued \in Nat /\ M \in Nat /\ M > 0
  BY Drawn, Widths DEF LedgerInv, DataTyped
<1> SUFFICES ASSUME NEW j \in Keys, outstanding_requests'[j] # None
             PROVE  issued' - issued_at'[outstanding_requests'[j]] < M
  BY DEF Fresh
<1>2. CASE j = k
  <2>1. outstanding_requests'[j] = c /\ issued_at'[c] = issued'
    BY <1>1, <1>2 DEF DataTyped
  <2> QED
    BY <1>1, <2>1
<1>3. CASE j # k
  <2> DEFINE d == outstanding_requests[j]
  <2>1. outstanding_requests'[j] = d /\ d \in Calls /\ d # None
    BY <1>1, <1>3 DEF DataTyped
  <2>2. d # c
    BY <2>1 DEF LedgerInv, TableFiled
  <2>3. issued_at'[d] = issued_at[d] /\ issued_at[d] \in Nat
    BY <1>1, <2>1, <2>2 DEF DataTyped
  <2>4. issued - issued_at[d] < M
    BY <2>1 DEF Fresh
  <2>5. (issued + 1) - issued_at[d] # M
    BY <1>3, <2>1, NextKeyTaken
  <2> QED
    BY <1>1, <2>1, <2>3, <2>4, <2>5
<1> QED
  BY <1>2, <1>3

\* the promise's Draw, whether the call was made (x = c) or backed out
LEMMA DrawIsDraw ==
  ASSUME DataTyped, LedgerInv, Fresh, NEW c \in Calls, NextAskKey(c),
         NEW x \in {c, None}, ret[c] = "none",
         outstanding_requests' = [outstanding_requests EXCEPT ![(last_ask_key + 1) % M] = x],
         UNCHANGED invoked,
         \A d \in Calls : d # c => ret'[d] = ret[d],
         x = c <=> ret'[c] # "none"
  PROVE  Promise!Start(c) \/ Promise!Refuse(c)
<1> DEFINE k == (last_ask_key + 1) % M
           f == IF x = c THEN "waiting" ELSE "unused"
<1>1. /\ k \in Keys /\ issued' = issued + 1
      /\ issued_at' = [issued_at EXCEPT ![c] = issued + 1]
      /\ c # None
  BY Drawn, ConstantsAssumption DEF LedgerInv
<1>2. Fate(c) = "unused" /\ Fate(c)' = f
  <2>1. invoked[c] = 0 /\ c \notin Registered
    BY DEF LedgerInv, CallsKnown, TableFiled, Registered, DataTyped
  <2>2. x = c => c \in Registered'
    BY <1>1 DEF Registered, DataTyped
  <2> QED
    BY <2>1, <2>2 DEF Fate
<1>3. ASSUME NEW d \in Calls, d # c
      PROVE  Fate(d)' = IF Fate(d) = "waiting" /\ (issued + 1) - issued_at[d] = M
                        THEN "lost" ELSE Fate(d)
  <2>1. d # None /\ invoked'[d] = invoked[d] /\ ret'[d] = ret[d]
    BY <1>3, ConstantsAssumption
  <2>2. \A j \in Keys : j # k => outstanding_requests'[j] = outstanding_requests[j]
    BY DEF DataTyped
  <2>3. outstanding_requests'[k] # d
    BY <1>1, <1>3, <2>1 DEF DataTyped
  <2>4. CASE outstanding_requests[k] = d
    <3>1. Fate(d) = "waiting" /\ invoked[d] = 0 /\ ret[d] # "none"
      BY <1>1, <2>1, <2>4 DEF LedgerInv, TableFiled, Fate, Registered
    <3>2. \A j \in Keys : j # k => outstanding_requests[j] # d
      BY <1>1, <2>1, <2>4 DEF LedgerInv, TableFiled
    <3>3. d \notin Registered'
      BY <2>2, <2>3, <3>2 DEF Registered
    <3>4. (issued + 1) - issued_at[d] = M
      BY <1>1, <2>4, NextKeyTaken
    <3> QED
      BY <2>1, <3>1, <3>3, <3>4 DEF Fate
  <2>5. CASE outstanding_requests[k] # d
    <3>1. d \in Registered' <=> d \in Registered
      BY <1>1, <2>1, <2>2, <2>3, <2>5 DEF Registered
    <3>2. Fate(d)' = Fate(d)
      BY <2>1, <3>1 DEF Fate
    <3>3. ASSUME Fate(d) = "waiting" PROVE (issued + 1) - issued_at[d] # M
      <4>1. PICK j \in Keys : outstanding_requests[j] = d
        BY <3>3 DEF Fate, Registered
      <4> QED
        BY <2>5, <4>1, NextKeyTaken
    <3> QED
      BY <3>2, <3>3
  <2> QED
    BY <2>4, <2>5
<1>4. Promise!Draw(c, f)
  BY <1>1, <1>2, <1>3 DEF Promise!Draw, Promise!Displacing
<1> QED
  BY <1>4 DEF Promise!Start, Promise!Refuse

LEMMA CallDraws ==
  ASSUME DataTyped, LedgerInv, Fresh, NEW c \in Calls, Files(c) \/ CallBacksOut(c)
  PROVE  Fresh' /\ Promise!Next
<1>1. /\ NextAskKey(c) /\ ret[c] = "none" /\ UNCHANGED invoked
      /\ \A d \in Calls : d # c => ret'[d] = ret[d]
  BY DEF Files, CallRegisters, CallFindsNoWriter, CallBacksOut, CanCall, DataTyped
<1>2. PICK x \in {c, None} :
        /\ outstanding_requests' = [outstanding_requests EXCEPT ![(last_ask_key + 1) % M] = x]
        /\ x = c <=> ret'[c] # "none"
  <2>1. CASE Files(c)
    <3>1. /\ outstanding_requests' =
               [outstanding_requests EXCEPT ![(last_ask_key + 1) % M] = c]
          /\ ret'[c] # "none"
      BY <2>1 DEF Files, CallRegisters, CallFindsNoWriter, DataTyped
    <3> QED
      BY <3>1
  <2>2. CASE CallBacksOut(c)
    <3>1. /\ outstanding_requests' =
               [outstanding_requests EXCEPT ![(last_ask_key + 1) % M] = None]
          /\ ret'[c] = "none" /\ None # c
      BY <1>1, <2>2, ConstantsAssumption DEF CallBacksOut, BackOut, PopCallback
    <3> QED
      BY <3>1
  <2> QED
    BY <2>1, <2>2
<1>3. Fresh'
  BY <1>1, <1>2, DrawKeepsFresh
<1>4. Promise!Start(c) \/ Promise!Refuse(c)
  BY <1>1, <1>2, DrawIsDraw
<1> QED
  BY <1>3, <1>4 DEF Promise!Next

-----------------------------------------------------------------------------
(* The other steps *)

LEMMA TakeSettles ==
  ASSUME DataTyped, LedgerInv, Fresh, NEW k \in Keys, Delivers(k) \/ Loses(k)
  PROVE  Fresh' /\ Promise!Next
<1>1. PICK c \in Calls :
        /\ c = outstanding_requests[k] /\ c # None
        /\ outstanding_requests' = [outstanding_requests EXCEPT ![k] = None]
        /\ UNCHANGED <<issued, issued_at, ret>>
        /\ \/ invoked' = [invoked EXCEPT ![c] = @ + 1]
           \/ UNCHANGED invoked
  <2>1. outstanding_requests[k] # None => outstanding_requests[k] \in Calls
    BY DEF DataTyped
  <2>2. CASE Delivers(k)
    BY <2>1, <2>2 DEF Delivers, Cancel, ConsumeReply, PopCallback, keyVars
  <2>3. CASE Loses(k)
    BY <2>1, <2>3 DEF Loses, CancelLosesResult, ConsumeReplyLosesResult, PopCallback,
                      keyVars
  <2> QED
    BY <2>2, <2>3
<1>2. /\ ret[c] # "none" /\ invoked[c] = 0
      /\ \A j \in Keys : j # k => outstanding_requests[j] # c
  BY <1>1 DEF LedgerInv, TableFiled
<1>3. /\ outstanding_requests'[k] = None
      /\ \A j \in Keys : j # k => outstanding_requests'[j] = outstanding_requests[j]
  BY <1>1 DEF DataTyped
<1>4. Fresh'
  BY <1>1, <1>3 DEF Fresh
<1>5. \A d \in Calls : d # c => (d \in Registered' <=> d \in Registered)
  BY <1>1, <1>3, ConstantsAssumption DEF Registered
<1>6. \A d \in Calls : d # c => Fate(d)' = Fate(d)
  BY <1>1, <1>5 DEF Fate, DataTyped
<1>7. Fate(c) = "waiting"
  BY <1>1, <1>2 DEF Fate, Registered
<1>8. c \notin Registered'
  BY <1>1, <1>2, <1>3 DEF Registered
<1>9. Fate(c)' = "done" \/ Fate(c)' = "lost"
  <2>1. CASE invoked' = [invoked EXCEPT ![c] = @ + 1]
    BY <1>1, <1>2, <2>1 DEF Fate, DataTyped
  <2>2. CASE UNCHANGED invoked
    BY <1>1, <1>2, <1>8, <2>2 DEF Fate
  <2> QED
    BY <1>1, <2>1, <2>2
<1>10. Promise!Deliver(c) \/ Promise!Lose(c)
  BY <1>1, <1>6, <1>7, <1>9 DEF Promise!Deliver, Promise!Lose, Promise!Settle
<1> QED
  BY <1>1, <1>4, <1>10 DEF Promise!Next

LEMMA FreeCloses ==
  ASSUME DataTyped, LedgerInv, Fresh, FreeProto
  PROVE  Fresh' /\ Promise!Next
<1>1. /\ \A k \in Keys : outstanding_requests'[k] = None
      /\ UNCHANGED <<invoked, issued, issued_at, ret>>
  BY DEF FreeProto, keyVars
<1>2. Registered' = {}
  BY <1>1 DEF Registered
<1>3. \A c \in Calls : Fate(c)' = IF Fate(c) = "waiting" THEN "lost" ELSE Fate(c)
  BY <1>1, <1>2 DEF Fate
<1>4. Fresh'
  BY <1>1 DEF Fresh
<1>5. Promise!Close
  BY <1>1, <1>3 DEF Promise!Close
<1> QED
  BY <1>4, <1>5 DEF Promise!Next

LEMMA SameFates ==
  ASSUME Fresh, UNCHANGED <<outstanding_requests, invoked, issued, issued_at>>,
         \A c \in Calls : ret'[c] = "none" <=> ret[c] = "none"
  PROVE  Fresh' /\ UNCHANGED Promise!vars
<1>1. Registered' = Registered
  BY DEF Registered
<1>2. \A c \in Calls : Fate(c)' = Fate(c)
  BY <1>1 DEF Fate
<1>3. Fresh'
  BY DEF Fresh
<1> QED
  BY <1>2, <1>3 DEF Promise!vars

LEMMA StepKeepsPromise ==
  ASSUME DataTyped, LedgerInv, CallWriters, Fresh, [Next]_vars
  PROVE  Fresh' /\ [Promise!Next]_(Promise!vars)
<1>1. ASSUME NEW c \in Calls, Files(c) \/ CallBacksOut(c)
      PROVE  Fresh' /\ Promise!Next
  BY <1>1, CallDraws
<1>2. ASSUME NEW k \in Keys, Delivers(k) \/ Loses(k)
      PROVE  Fresh' /\ Promise!Next
  BY <1>2, TakeSettles
<1>3. ASSUME NEW r \in WriteResults, CallReturns(r)
      PROVE  Fresh' /\ UNCHANGED Promise!vars
  <2>1. Len(stack) \in 1 .. Len(stack)
    BY <1>3, PopEffect DEF CallReturns, Returning, DataTyped
  <2>2. Top.call \in Calls /\ ret[Top.call] # "none"
    BY <1>3, <2>1 DEF CallWriters, Entered, CallReturns, Returning, Top
  <2>3. \A c \in Calls : ret'[c] = "none" <=> ret[c] = "none"
    BY <1>3, <2>2 DEF CallReturns, DataTyped
  <2>4. UNCHANGED <<outstanding_requests, invoked, issued, issued_at>>
    BY <1>3 DEF CallReturns, callVars, keyVars
  <2> QED
    BY <2>3, <2>4, SameFates
<1>4. CASE FreeProto
  BY <1>4, FreeCloses
<1>5. CASE UNCHANGED ledger
  <2>1. UNCHANGED <<outstanding_requests, invoked, issued, issued_at, ret>>
    BY <1>5 DEF ledger, keyVars
  <2> QED
    BY <2>1, SameFates
<1> QED
  BY <1>1, <1>2, <1>3, <1>4, <1>5, Quiet DEF LedgerStep

-----------------------------------------------------------------------------
(* The theorem *)

LEMMA InitKeepsPromise == Init => Fresh /\ Promise!Init
<1> SUFFICES ASSUME Init PROVE Fresh /\ Promise!Init
  OBVIOUS
<1>1. \A k \in Keys : outstanding_requests[k] = None
  BY DEF Init
<1>2. \A c \in Calls : Fate(c) = "unused"
  BY DEF Init, Fate
<1> QED
  BY <1>1, <1>2 DEF Fresh, Init, Promise!Init

(* The engine, with its ask keys, its table and its stack of user           *)
(* functions, implements the plain promise of CallLedger.                   *)
THEOREM EngineKeepsPromise == Spec => KeepsPromise
<1>1. Init => Ledger /\ Fresh /\ Promise!Init
  BY InitLedger, InitKeepsPromise
<1>2. Ledger /\ Fresh /\ [Next]_vars => Ledger' /\ Fresh' /\ [Promise!Next]_(Promise!vars)
  <2> SUFFICES ASSUME Ledger, Fresh, [Next]_vars
               PROVE  Ledger' /\ Fresh' /\ [Promise!Next]_(Promise!vars)
    OBVIOUS
  <2>1. DataTyped
    BY TypeSplit DEF Ledger
  <2>2. LedgerInv /\ CallWriters
    BY DEF Ledger, CallInv, LedgerInv
  <2> QED
    BY <2>1, <2>2, NextLedger, StepKeepsPromise
<1> QED
  BY <1>1, <1>2, PTL DEF Spec, KeepsPromise, Promise!Spec

-----------------------------------------------------------------------------
(* The callback structs *)

CallbackOps == {"result", "cancel"}

\* The callback of a delivered call runs once, in one frame; a responder has
\* no call.
RunsOnce ==
  /\ \A i \in Entered(CallbackOps) :
       stack[i].call \in Calls /\ invoked[stack[i].call] # 0
  /\ \A i, j \in Entered(CallbackOps) : stack[i].call = stack[j].call => i = j
  /\ \A i \in Entered({"responder"}) : stack[i].call = None

\* what RunsOnce depends on besides invoked
SameCallbacks ==
  \A ops \in {CallbackOps, {"responder"}} :
    /\ Entered(ops)' = Entered(ops)
    /\ \A i \in Entered(ops) : stack'[i] = stack[i]

LEMMA RunningFrames == Running = {stack[i].call : i \in Entered(CallbackOps)}
BY DEF Running, CallbackOps

LEMMA SameRunning ==
  ASSUME SameCallbacks PROVE Running' = Running
<1>1. Entered(CallbackOps)' = Entered(CallbackOps)
  BY DEF SameCallbacks
<1>2. \A i \in Entered(CallbackOps) : stack'[i] = stack[i]
  BY DEF SameCallbacks
<1>3. Running' = {stack'[i].call : i \in Entered(CallbackOps)'}
  BY DEF Running, CallbackOps
<1> QED
  BY <1>1, <1>2, <1>3, RunningFrames

LEMMA SameRunsOnce ==
  ASSUME SameCallbacks, RunsOnce, \A c \in Calls : invoked[c] # 0 => invoked'[c] # 0
  PROVE  RunsOnce'
<1>1. /\ Entered(CallbackOps)' = Entered(CallbackOps)
      /\ Entered({"responder"})' = Entered({"responder"})
      /\ \A i \in Entered(CallbackOps) : stack'[i] = stack[i]
      /\ \A i \in Entered({"responder"}) : stack'[i] = stack[i]
  BY DEF SameCallbacks
<1> QED
  BY <1>1 DEF RunsOnce

LEMMA PushSameCallbacks ==
  ASSUME DataTyped, NEW op \in WriteOps \cup DispatchOps,
         op \notin {"result", "responder"}, NEW c \in Calls \cup {None}, NEW buf \in Box,
         Push(op, c, buf)
  PROVE  SameCallbacks
<1>1. op \notin CallbackOps /\ op \notin {"responder"}
  BY DEF CallbackOps, WriteOps, DispatchOps
<1> QED
  BY <1>1, PushEntered DEF SameCallbacks

LEMMA PopSameCallbacks ==
  ASSUME DataTyped, NEW ops, Returning(ops), Pop,
         ops \cap {"result", "cancel", "responder"} = {}
  PROVE  SameCallbacks
<1>1. stack # <<>> /\ Top.op \notin CallbackOps /\ Top.op \notin {"responder"}
  BY DEF Returning, CallbackOps
<1> QED
  BY <1>1, PopEntered DEF SameCallbacks

LEMMA StackSameCallbacks == ASSUME UNCHANGED stack PROVE SameCallbacks
BY DEF SameCallbacks, Entered

\* steps that no callback struct sees
CallbackQuiet == UNCHANGED <<callVars, issued, issued_at>> /\ SameCallbacks
\* the others
CallbackStep ==
  \/ \E c \in Calls : Files(c) \/ CallBacksOut(c)
  \/ \E k \in Keys : Delivers(k) \/ Loses(k)
  \/ FreeProto \/ HandlerReturns \/ CancelReturns
  \/ \E b \in Boxes : ConsumeRequest(b)

LEMMA CallbackApi ==
  ASSUME DataTyped, ApiStep PROVE CallbackQuiet \/ CallbackStep
<1>1. CASE SetWriteHandler \/ WriteThroughGarbage \/ RespondNoAsk \/ Reset
  BY <1>1, StackSameCallbacks
  DEF SetWriteHandler, WriteThroughGarbage, RespondNoAsk, Reset, Crash, CallbackQuiet, keyVars
<1>2. CASE FreeProto
  BY <1>2 DEF CallbackStep
<1>3. ASSUME NEW c \in Calls, CallStep(c) PROVE CallbackQuiet \/ CallbackStep
  <2>1. CASE CallRefused(c)
    BY <2>1, StackSameCallbacks DEF CallRefused, CallbackQuiet, keyVars
  <2> QED
    BY <1>3, <2>1 DEF CallStep, CallbackStep, Files
<1>4. ASSUME NEW cmd \in Commands,
             CallNoAnswer(cmd) \/ AddResponder(cmd) \/ AddResponderOom(cmd)
               \/ RemoveResponder(cmd)
      PROVE  CallbackQuiet
  <2>1. CASE CallNoAnswer(cmd)
    <3>1. SameCallbacks
      BY <2>1, PushSameCallbacks, BoxesTyped DEF CallNoAnswer, WriteOps
    <3> QED
      BY <2>1, <3>1 DEF CallNoAnswer, CallbackQuiet, keyVars
  <2>2. CASE AddResponder(cmd) \/ AddResponderOom(cmd) \/ RemoveResponder(cmd)
    BY <2>2, StackSameCallbacks
    DEF AddResponder, AddResponderOom, RemoveResponder, CallbackQuiet, keyVars
  <2> QED
    BY <1>4, <2>1, <2>2
<1>5. ASSUME NEW a \in Asks, Respond(a) \/ FreeRequest(a) PROVE CallbackQuiet
  <2>1. CASE Respond(a)
    <3>1. a \in Value
      BY <2>1 DEF Respond, Asks
    <3>2. SameCallbacks
      BY <2>1, <3>1, PushSameCallbacks, BoxesTyped DEF Respond, WriteOps
    <3> QED
      BY <2>1, <3>2 DEF Respond, CallbackQuiet, keyVars
  <2>2. CASE FreeRequest(a)
    BY <2>2, StackSameCallbacks DEF FreeRequest, CallbackQuiet, keyVars
  <2> QED
    BY <1>5, <2>1, <2>2
<1>6. ASSUME NEW k \in Keys, Cancel(k) \/ CancelLosesResult(k) PROVE CallbackStep
  BY <1>6 DEF CallbackStep, Delivers, Loses
<1> QED
  BY <1>1, <1>2, <1>3, <1>4, <1>5, <1>6 DEF ApiStep, UserStep

LEMMA CallbackConsume ==
  ASSUME DataTyped, ConsumeStep PROVE CallbackQuiet \/ CallbackStep
<1>1. CASE ConsumeNoBox \/ ConsumeOom
  BY <1>1, StackSameCallbacks DEF ConsumeNoBox, ConsumeOom, Crash, CallbackQuiet, keyVars
<1>2. ASSUME NEW b \in Boxes, Consume(b) PROVE CallbackQuiet \/ CallbackStep
  <2>1. CASE ConsumeReply(b) \/ ConsumeReplyLosesResult(b)
    <3>1. ReplyKey(b) \in Keys
      BY <2>1, IncomingBox DEF ConsumeReply, ConsumeReplyLosesResult
    <3> QED
      BY <2>1, <3>1 DEF CallbackStep, Delivers, Loses
  <2>2. CASE \/ ConsumeRefuses(b) \/ ConsumeUnhandledNoAsk(b)
             \/ ConsumeUnhandledFails(b) \/ ConsumeUnknownReply(b)
    BY <2>2, StackSameCallbacks
    DEF ConsumeRefuses, ConsumeUnhandledNoAsk, ConsumeUnhandledFails, ConsumeUnknownReply,
        CallbackQuiet, keyVars
  <2>3. CASE ConsumeUnhandledNoWriter(b)
    BY <2>3, StackSameCallbacks DEF ConsumeUnhandledNoWriter, Crash, CallbackQuiet, keyVars
  <2>4. CASE ConsumeUnhandled(b)
    <3>1. ErrorBox(b.ask) \in Box
      BY <2>4, IncomingBox, BoxesTyped DEF ConsumeUnhandled
    <3>2. SameCallbacks
      BY <2>4, <3>1, PushSameCallbacks DEF ConsumeUnhandled, DispatchOps
    <3> QED
      BY <2>4, <3>2 DEF ConsumeUnhandled, CallbackQuiet, keyVars
  <2>5. CASE ConsumeRequest(b)
    BY <2>5 DEF CallbackStep
  <2> QED
    BY <1>2, <2>1, <2>2, <2>3, <2>4, <2>5 DEF Consume
<1> QED
  BY <1>1, <1>2 DEF ConsumeStep

LEMMA CallbackReturn ==
  ASSUME DataTyped, ReturnStep PROVE CallbackQuiet \/ CallbackStep
<1>1. CASE WriteReturns
  BY <1>1, PopSameCallbacks DEF WriteReturns, CallbackQuiet, keyVars
<1>2. ASSUME NEW r \in WriteResults, CallReturns(r) PROVE CallbackQuiet
  BY <1>2, PopSameCallbacks DEF CallReturns, CallbackQuiet, keyVars
<1>3. ASSUME NEW r \in WriteResults, UnhandledReturns(r) PROVE CallbackQuiet
  BY <1>3, PopSameCallbacks DEF UnhandledReturns, CallbackQuiet, keyVars
<1> QED
  BY <1>1, <1>2, <1>3 DEF ReturnStep, CallbackStep

LEMMA CallbackSteps ==
  ASSUME DataTyped, [Next]_vars PROVE CallbackQuiet \/ CallbackStep
<1>1. CASE UNCHANGED vars
  BY <1>1, StackSameCallbacks DEF vars, CallbackQuiet, keyVars
<1> QED
  BY <1>1, CallbackApi, CallbackConsume, CallbackReturn DEF Next

\* a struct that is neither filed nor in use was displaced a full turn ago
Owned(c) == c \in Registered \cup Running \/ issued - issued_at[c] >= M
CallbacksKnown == \A c \in callbacks : ret[c] # "none"
CallbackInv == RunsOnce /\ CallbacksKnown /\ CallbacksOwned

LEMMA OwnedByAll ==
  CallbacksOwned <=>
    (status = "alive" => /\ Registered \cup Running \subseteq callbacks
                         /\ \A c \in callbacks : Owned(c))
BY DEF CallbacksOwned, Owned

\* what a change of one slot of the table does to the set of filed calls
LEMMA SlotEffect ==
  ASSUME DataTyped, TableFiled, NEW k \in Keys, NEW x \in Calls \cup {None},
         outstanding_requests' = [outstanding_requests EXCEPT ![k] = x]
  PROVE  Registered' = (Registered \ {outstanding_requests[k]}) \cup ({x} \ {None})
<1> DEFINE c == outstanding_requests[k]
<1>1. /\ outstanding_requests'[k] = x
      /\ \A j \in Keys : j # k => outstanding_requests'[j] = outstanding_requests[j]
  BY DEF DataTyped
<1>2. \A j \in Keys : c # None /\ outstanding_requests[j] = c => j = k
  BY DEF TableFiled
<1>3. ASSUME NEW d \in Registered' PROVE d \in (Registered \ {c}) \cup ({x} \ {None})
  <2>1. PICK j \in Keys : outstanding_requests'[j] = d /\ d # None
    BY <1>3 DEF Registered
  <2> QED
    BY <1>1, <1>2, <2>1 DEF Registered
<1>4. ASSUME NEW d \in (Registered \ {c}) \cup ({x} \ {None}) PROVE d \in Registered'
  <2>1. CASE d = x /\ x # None
    BY <1>1, <2>1 DEF Registered
  <2>2. CASE d \in Registered \ {c}
    <3>1. PICK j \in Keys : outstanding_requests[j] = d /\ d # None
      BY <2>2 DEF Registered
    <3>2. j # k
      BY <2>2, <3>1
    <3> QED
      BY <1>1, <3>1, <3>2 DEF Registered
  <2> QED
    BY <1>4, <2>1, <2>2
<1> QED
  BY <1>3, <1>4

\* no filed call has its callback running
LEMMA FiledNotRunning ==
  ASSUME TableFiled, RunsOnce PROVE Registered \cap Running = {}
<1> SUFFICES ASSUME NEW c \in Registered, c \in Running PROVE FALSE
  OBVIOUS
<1>1. PICK k \in Keys : outstanding_requests[k] = c /\ c # None
  BY DEF Registered
<1>2. PICK i \in Entered(CallbackOps) : c = stack[i].call
  BY RunningFrames
<1> QED
  BY <1>1, <1>2 DEF TableFiled, RunsOnce

LEMMA RunningCalls == ASSUME RunsOnce PROVE Running \subseteq Calls
BY RunningFrames DEF RunsOnce

\* a new call is filed, or refused after its key was drawn
LEMMA DrawKeepsCallbacks ==
  ASSUME DataTyped, LedgerInv, CallbackInv, NEW c \in Calls, Files(c) \/ CallBacksOut(c)
  PROVE  CallbackInv'
<1> DEFINE k == (last_ask_key + 1) % M
<1>1. /\ NextAskKey(c) /\ ret[c] = "none" /\ status = "alive" /\ UNCHANGED invoked
      /\ SameCallbacks
      /\ \A d \in Calls : ret[d] # "none" => ret'[d] # "none"
  <2>1. SameCallbacks
    <3>1. ASSUME NEW cmd \in Commands, CallRegisters(c, cmd) PROVE SameCallbacks
      <4>1. (last_ask_key + 1) % M \in Keys
        BY <3>1, RegisterData DEF CallRegisters
      <4> QED
        BY <3>1, <4>1, PushSameCallbacks, BoxesTyped DEF CallRegisters, WriteOps
    <3> QED
      BY <3>1, StackSameCallbacks DEF Files, CallFindsNoWriter, CallBacksOut
  <2> QED
    BY <2>1 DEF Files, CallRegisters, CallFindsNoWriter, CallBacksOut, CanCall, UserRuns,
                DataTyped
<1>2. PICK x \in {c, None} :
        /\ outstanding_requests' = [outstanding_requests EXCEPT ![k] = x]
        /\ callbacks' = callbacks \cup ({x} \ {None})
        /\ x = c => ret'[c] # "none"
  <2>1. c # None
    BY ConstantsAssumption
  <2>2. CASE Files(c)
    <3>1. /\ outstanding_requests' = [outstanding_requests EXCEPT ![k] = c]
          /\ callbacks' = callbacks \cup {c} /\ ret'[c] # "none"
      BY <2>2 DEF Files, CallRegisters, CallFindsNoWriter, DataTyped
    <3> QED
      BY <2>1, <3>1
  <2>3. CASE CallBacksOut(c)
    <3>1. /\ outstanding_requests' = [outstanding_requests EXCEPT ![k] = None]
          /\ callbacks' = callbacks
      BY <2>3 DEF CallBacksOut, BackOut, PopCallback
    <3> QED
      BY <2>1, <3>1
  <2> QED
    BY <2>2, <2>3
<1>3. /\ k \in Keys /\ issued' = issued + 1
      /\ issued_at' = [issued_at EXCEPT ![c] = issued + 1]
      /\ \A d \in Calls : issued_at[d] % M = k => (issued + 1) - issued_at[d] >= M
      /\ issued \in Nat /\ M \in Nat /\ \A d \in Calls : issued_at[d] \in Nat
      /\ \A d \in Calls : d # c => issued_at'[d] = issued_at[d]
  BY <1>1, Drawn, Widths DEF LedgerInv, DataTyped
<1> HIDE DEF k
<1>4. Registered' = (Registered \ {outstanding_requests[k]}) \cup ({x} \ {None})
  BY <1>2, <1>3, SlotEffect DEF LedgerInv
<1>5. Running' = Running /\ RunsOnce'
  BY <1>1, SameRunning, SameRunsOnce DEF CallbackInv
<1>6. CallbacksKnown'
  BY <1>1, <1>2 DEF CallbackInv, CallbacksKnown, DataTyped
<1>7. Registered' \cup Running' \subseteq callbacks'
  BY <1>1, <1>2, <1>4, <1>5, OwnedByAll DEF CallbackInv
<1>8. ASSUME NEW d \in callbacks' PROVE Owned(d)'
  <2>1. CASE d = x /\ x # None
    BY <1>4, <2>1 DEF Owned
  <2>2. CASE d \in callbacks
    <3>1. d \in Calls /\ d # c /\ Owned(d)
      BY <1>1, <2>2, OwnedByAll DEF CallbackInv, CallbacksKnown, DataTyped
    <3>2. CASE issued - issued_at[d] >= M
      BY <1>3, <3>1, <3>2 DEF Owned
    <3>3. CASE d \in Running
      BY <1>5, <3>3 DEF Owned
    <3>4. CASE d \in Registered /\ d # outstanding_requests[k]
      BY <1>4, <3>4 DEF Owned
    <3>5. CASE d \in Registered /\ d = outstanding_requests[k]
      <4>1. issued_at[d] % M = k
        BY <1>3, <3>5 DEF LedgerInv, TableFiled, Registered
      <4>2. (issued + 1) - issued_at[d] >= M
        BY <1>3, <3>1, <4>1
      <4> QED
        BY <1>3, <3>1, <4>2 DEF Owned
    <3> QED
      BY <3>1, <3>2, <3>3, <3>4, <3>5 DEF Owned
  <2> QED
    BY <1>2, <2>1, <2>2
<1>9. CallbacksOwned'
  BY <1>7, <1>8 DEF CallbacksOwned, Owned
<1> QED
  BY <1>5, <1>6, <1>9 DEF CallbackInv

\* the callback of c is entered
LEMMA PushRuns ==
  ASSUME DataTyped, RunsOnce, NEW c \in Calls, NEW op \in CallbackOps,
         NEW buf \in Box, Push(op, c, buf), invoked[c] = 0,
         invoked' = [invoked EXCEPT ![c] = @ + 1]
  PROVE  RunsOnce' /\ Running' = Running \cup {c}
<1> DEFINE n == Len(stack) + 1
<1>1. /\ Entered(CallbackOps)' = Entered(CallbackOps) \cup {n}
      /\ n \notin Entered(CallbackOps)
      /\ \A i \in Entered(CallbackOps) : stack'[i] = stack[i]
      /\ stack'[n].call = c
  BY PushEntered DEF CallbackOps, DispatchOps
<1>2. /\ Entered({"responder"})' = Entered({"responder"})
      /\ \A i \in Entered({"responder"}) : stack'[i] = stack[i]
  BY PushEntered DEF CallbackOps, DispatchOps
<1> HIDE DEF n
<1>3. /\ \A d \in Calls : invoked[d] # 0 => invoked'[d] # 0
      /\ invoked'[c] # 0
  BY DEF DataTyped
<1>4. \A i \in Entered(CallbackOps) : stack[i].call # c
  BY DEF RunsOnce
<1>5. Running' = {stack'[i].call : i \in Entered(CallbackOps)'}
  BY DEF Running, CallbackOps
<1>6. Running' = Running \cup {c}
  BY <1>1, <1>5, RunningFrames
<1>7. RunsOnce'
  <2>1. \A i \in Entered(CallbackOps)' :
          stack'[i].call \in Calls /\ invoked'[stack'[i].call] # 0
    BY <1>1, <1>3 DEF RunsOnce
  <2>2. \A i, j \in Entered(CallbackOps)' : stack'[i].call = stack'[j].call => i = j
    BY <1>1, <1>4 DEF RunsOnce
  <2>3. \A i \in Entered({"responder"})' : stack'[i].call = None
    BY <1>2 DEF RunsOnce
  <2> QED
    BY <2>1, <2>2, <2>3 DEF RunsOnce
<1> QED
  BY <1>6, <1>7

LEMMA TakeKeepsCallbacks ==
  ASSUME DataTyped, LedgerInv, CallbackInv, NEW k \in Keys, Delivers(k) \/ Loses(k)
  PROVE  CallbackInv'
<1> DEFINE c == outstanding_requests[k]
<1>1. /\ c # None /\ c \in Calls /\ status = "alive"
      /\ outstanding_requests' = [outstanding_requests EXCEPT ![k] = None]
      /\ UNCHANGED <<issued, issued_at, ret>>
      /\ ret[c] # "none" /\ invoked[c] = 0
  <2>1. /\ c # None /\ status = "alive" /\ PopCallback(k)
        /\ UNCHANGED <<issued, issued_at, ret>>
    BY DEF Delivers, Loses, Cancel, CancelLosesResult, ConsumeReply, ConsumeReplyLosesResult,
           CanDispatch, Consuming, UserRuns, keyVars
  <2> QED
    BY <2>1 DEF PopCallback, DataTyped, LedgerInv, TableFiled
<1>2. Registered' = Registered \ {c} /\ c \in Registered
  BY <1>1, SlotEffect DEF LedgerInv, Registered
<1>3. Registered \cap Running = {}
  BY FiledNotRunning DEF LedgerInv, CallbackInv
<1>4. CASE Delivers(k)
  <2>1. /\ invoked' = [invoked EXCEPT ![c] = @ + 1] /\ UNCHANGED callbacks
        /\ \E op \in CallbackOps : Push(op, c, EmptyBox)
    BY <1>4 DEF Delivers, Cancel, ConsumeReply, CallbackOps
  <2> HIDE DEF c
  <2>2. RunsOnce' /\ Running' = Running \cup {c}
    BY <1>1, <2>1, PushRuns, BoxesTyped DEF CallbackInv
  <2>3. Registered' \cup Running' = Registered \cup Running
    BY <1>2, <2>2
  <2>4. CallbacksOwned'
    BY <1>1, <2>1, <2>3 DEF CallbackInv, CallbacksOwned
  <2> QED
    BY <1>1, <2>1, <2>2, <2>4 DEF CallbackInv, CallbacksKnown
<1>5. CASE Loses(k)
  <2>1. UNCHANGED <<invoked, stack>> /\ callbacks' = callbacks \ {c}
    BY <1>5 DEF Loses, CancelLosesResult, ConsumeReplyLosesResult, FreeCallback
  <2> HIDE DEF c
  <2>2. RunsOnce' /\ Running' = Running
    BY <2>1, StackSameCallbacks, SameRunning, SameRunsOnce DEF CallbackInv
  <2>3. CallbacksOwned'
    <3>1. Registered' \cup Running' = (Registered \cup Running) \ {c}
      BY <1>2, <1>3, <2>2
    <3> QED
      BY <1>1, <2>1, <3>1 DEF CallbackInv, CallbacksOwned
  <2> QED
    BY <1>1, <2>1, <2>2, <2>3 DEF CallbackInv, CallbacksKnown
<1> QED
  BY <1>4, <1>5

\* a responder or a callback returns, and its struct is freed
LEMMA ReturnKeepsCallbacks ==
  ASSUME DataTyped, LedgerInv, CallbackInv, HandlerReturns \/ CancelReturns
  PROVE  CallbackInv'
<1> DEFINE n == Len(stack)
           c == Top.call
<1>1. /\ stack # <<>> /\ Pop /\ callbacks' = callbacks \ {c} /\ status = "alive"
      /\ UNCHANGED <<outstanding_requests, invoked, issued, issued_at, ret>>
      /\ Top.op \in CallbackOps \cup {"responder"}
  BY DEF HandlerReturns, CancelReturns, Returning, FreeCallback, keyVars, CallbackOps
<1>2. Registered' = Registered
  BY <1>1 DEF Registered
<1>3. \A ops : /\ Entered(ops)' = IF Top.op \in ops THEN Entered(ops) \ {n} ELSE Entered(ops)
               /\ n \in Entered(ops) <=> Top.op \in ops
               /\ \A i \in Entered(ops)' : stack'[i] = stack[i]
  BY <1>1, PopEntered
<1>4. /\ Entered(CallbackOps)' = Entered(CallbackOps) \ {n}
      /\ \A i \in Entered(CallbackOps)' : stack'[i] = stack[i]
      /\ Entered({"responder"})' = Entered({"responder"}) \ {n}
      /\ \A i \in Entered({"responder"})' : stack'[i] = stack[i]
  BY <1>3
<1>5. RunsOnce'
  BY <1>1, <1>4 DEF CallbackInv, RunsOnce
<1>6. Running' = {stack[i].call : i \in Entered(CallbackOps) \ {n}}
  <2>1. Running' = {stack'[i].call : i \in Entered(CallbackOps)'}
    BY DEF Running, CallbackOps
  <2> QED
    BY <1>4, <2>1
<1>7. CASE Top.op \in CallbackOps
  <2>1. n \in Entered(CallbackOps) /\ c = stack[n].call
    BY <1>3, <1>7 DEF Top
  <2>2. Running' = Running \ {c}
    BY <1>6, <2>1, RunningFrames DEF CallbackInv, RunsOnce
  <2>3. c \notin Registered
    BY <2>1, FiledNotRunning, RunningFrames DEF LedgerInv, CallbackInv
  <2>4. Registered' \cup Running' = (Registered \cup Running) \ {c}
    BY <1>2, <2>2, <2>3
  <2> HIDE DEF c
  <2>5. CallbacksOwned'
    BY <1>1, <2>4 DEF CallbackInv, CallbacksOwned
  <2> QED
    BY <1>1, <1>5, <2>5 DEF CallbackInv, CallbacksKnown
<1>8. CASE Top.op = "responder"
  <2>1. n \in Entered({"responder"}) /\ n \notin Entered(CallbackOps) /\ c = stack[n].call
    BY <1>3, <1>8 DEF Top, CallbackOps
  <2>2. c \notin Calls
    BY <2>1, ConstantsAssumption DEF CallbackInv, RunsOnce
  <2>3. callbacks' = callbacks
    BY <1>1, <2>2 DEF DataTyped
  <2>4. Running' = Running
    BY <1>6, <2>1, RunningFrames
  <2>5. CallbacksOwned'
    BY <1>1, <1>2, <2>3, <2>4 DEF CallbackInv, CallbacksOwned
  <2> QED
    BY <1>1, <1>5, <2>3, <2>5 DEF CallbackInv, CallbacksKnown
<1> QED
  BY <1>1, <1>7, <1>8

\* a responder is entered on behalf of no call
LEMMA RequestKeepsCallbacks ==
  ASSUME DataTyped, CallbackInv, NEW b \in Boxes, ConsumeRequest(b)
  PROVE  CallbackInv'
<1>1. /\ Push("responder", None, EmptyBox) /\ status = "alive"
      /\ UNCHANGED <<outstanding_requests, callbacks, invoked, issued, issued_at, ret>>
  BY DEF ConsumeRequest, CanDispatch, Consuming, UserRuns, callVars, keyVars
<1> DEFINE n == Len(stack) + 1
<1>2. /\ Entered(CallbackOps)' = Entered(CallbackOps)
      /\ \A i \in Entered(CallbackOps) : stack'[i] = stack[i]
  BY <1>1, PushEntered, BoxesTyped, ZenonT(120) DEF CallbackOps, DispatchOps
<1>3. /\ Entered({"responder"})' = Entered({"responder"}) \cup {n}
      /\ \A i \in Entered({"responder"}) : stack'[i] = stack[i]
      /\ stack'[n].call = None
  BY <1>1, PushEntered, BoxesTyped DEF DispatchOps
<1> HIDE DEF n
<1>4. Running' = Running
  <2>1. Running' = {stack'[i].call : i \in Entered(CallbackOps)'}
    BY DEF Running, CallbackOps
  <2> QED
    BY <1>2, <2>1, RunningFrames
<1>5. RunsOnce'
  BY <1>1, <1>2, <1>3 DEF CallbackInv, RunsOnce
<1>6. Registered' = Registered
  BY <1>1 DEF Registered
<1>7. CallbacksOwned'
  BY <1>1, <1>4, <1>6 DEF CallbackInv, CallbacksOwned
<1> QED
  BY <1>1, <1>5, <1>7 DEF CallbackInv, CallbacksKnown

LEMMA CallbacksKept ==
  ASSUME DataTyped, LedgerInv, CallbackInv, [Next]_vars PROVE CallbackInv'
<1>1. CASE CallbackQuiet
  <2>1. RunsOnce' /\ Running' = Running
    BY <1>1, SameRunning, SameRunsOnce DEF CallbackInv, CallbackQuiet, callVars
  <2>2. CallbacksKnown'
    BY <1>1, RetGrows DEF CallbackInv, CallbacksKnown, CallbackQuiet, callVars, DataTyped
  <2>3. CallbacksOwned'
    <3>1. Registered' = Registered
      BY <1>1 DEF Registered, CallbackQuiet, callVars
    <3>2. status' = "alive" => status = "alive"
      BY NeverRevived
    <3> QED
      BY <1>1, <2>1, <3>1, <3>2 DEF CallbackInv, CallbacksOwned, CallbackQuiet, callVars
  <2> QED
    BY <2>1, <2>2, <2>3 DEF CallbackInv
<1>2. CASE FreeProto
  <2>1. /\ UNCHANGED <<stack, invoked, ret>> /\ callbacks' \subseteq callbacks
        /\ status' = "freed"
    BY <1>2 DEF FreeProto
  <2>2. RunsOnce'
    BY <2>1, StackSameCallbacks, SameRunsOnce DEF CallbackInv
  <2> QED
    BY <2>1, <2>2 DEF CallbackInv, CallbacksKnown, CallbacksOwned
<1> QED
  BY <1>1, <1>2, CallbackSteps, DrawKeepsCallbacks, TakeKeepsCallbacks,
     ReturnKeepsCallbacks, RequestKeepsCallbacks DEF CallbackStep

\* the inductive invariant
Held == Ledger /\ CallbackInv

LEMMA InitHeld == Init => Held
<1> SUFFICES ASSUME Init PROVE CallbackInv
  BY InitLedger DEF Held
<1>1. /\ \A ops : Entered(ops) = {}
      /\ callbacks = {} /\ \A k \in Keys : outstanding_requests[k] = None
  BY DEF Init, Entered
<1>2. Registered = {} /\ Running = {}
  BY <1>1 DEF Registered, Running
<1> QED
  BY <1>1, <1>2 DEF CallbackInv, RunsOnce, CallbacksKnown, CallbacksOwned

LEMMA NextHeld == Held /\ [Next]_vars => Held'
<1> SUFFICES ASSUME Held, [Next]_vars PROVE Held'
  OBVIOUS
<1>1. DataTyped /\ LedgerInv
  BY TypeSplit DEF Held, Ledger, CallInv, LedgerInv
<1> QED
  BY <1>1, NextLedger, CallbacksKept DEF Held

(* A callback struct is freed when its callback has returned, never while   *)
(* the table or a running callback still points to it, and is left behind   *)
(* only by a call that came UINT_MAX + 1 keys later: whatever user          *)
(* functions do in between.                                                 *)
THEOREM CallbacksHaveOneOwner == Spec => []CallbacksOwned
<1>1. Held => CallbacksOwned
  BY DEF Held, CallbackInv
<1> QED
  BY <1>1, InitHeld, NextHeld, PTL DEF Spec

(* When amp_call fails before its write, nothing of the call remains: a     *)
(* reply that carries the key it drew finds no callback to invoke.          *)
THEOREM RefusedCallsLeaveNothing == Spec => []NoTraceOfRefusedCall
<1>1. Held => NoTraceOfRefusedCall
  <2> SUFFICES ASSUME Held, NEW c \in Calls, ret[c] = "none"
               PROVE  c \notin Registered \cup callbacks /\ invoked[c] = 0
    BY DEF NoTraceOfRefusedCall
  <2>1. invoked[c] = 0 /\ c \notin callbacks
    BY DEF Held, Ledger, CallInv, CallsKnown, CallbackInv, CallbacksKnown
  <2>2. c \notin Registered
    BY DEF Held, Ledger, CallInv, TableFiled, Registered
  <2> QED
    BY <2>1, <2>2
<1> QED
  BY <1>1, InitHeld, NextHeld, PTL DEF Spec
=============================================================================
