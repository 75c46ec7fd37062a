------------------------------ MODULE AmpProto ------------------------------
(***************************************************************************)
(* One AMP_Proto: the request/response engine of libamp (amp.c) at the      *)
(* granularity of whole boxes.  amp_consume_bytes feeds it incoming boxes,  *)
(* user code calls amp_call, amp_cancel, amp_respond, ... and the library   *)
(* calls user code back: write handlers, responders and result callbacks.   *)
(* The library is single-threaded, so "concurrency" here is re-entrancy:    *)
(* `stack' holds the user functions the library has entered and not yet     *)
(* returned from, and user code on top of the stack may call any API.       *)
(* Byte-level parsing is the subject of AmpParser.                          *)
(***************************************************************************)
EXTENDS Integers, Sequences, FiniteSets

CONSTANTS
  Calls,         \* one amp_call each: its callback and callback_arg
  Commands,      \* command names
  LongCommands,  \* names whose "Unhandled Command" text exceeds 65535 bytes
  Numerals,      \* integers that appear as decimal text in incoming boxes
  Garbage,       \* a value that is not a decimal integer
  None,          \* an absent key; an empty table slot
  Boxes,         \* the boxes the peer may send
  UINT_MAX,      \* largest unsigned int: ask keys are 0..UINT_MAX
  MaxIssued,     \* bound on the ask keys drawn
  MaxRequests,   \* bound on the requests of one _ask value held by user code
  MaxDepth,      \* bound on the nesting of user functions
  MaxBoxes,      \* bound on the boxes owned, for runs that leak them
  Env            \* what may go wrong around the library, see EnvFlags

INT_MAX  == UINT_MAX \div 2
M        == UINT_MAX + 1          \* number of ask keys
Keys     == 0 .. UINT_MAX
Value    == Numerals \cup {Garbage}
Box      == [command : Commands \cup {None},
             ask     : Value \cup {None},
             answer  : Value \cup {None},
             error   : Value \cup {None},
             other   : BOOLEAN]   \* has at least one ordinary key
EmptyBox == [command |-> None, ask |-> None, answer |-> None,
             error |-> None, other |-> FALSE]

(* malloc: allocations may fail; write: write handlers may report failure;  *)
(* respond_no_ask: responders answer every request, as amp.h:260 tells them;*)
(* no_handler: user code may skip amp_set_write_handler; the last two are   *)
(* uses of the API inside a callback that amp.h does not forbid.            *)
EnvFlags == {"malloc", "write", "no_handler", "respond_no_ask",
             "reset_in_callback", "reentrant_consume"}

ASSUME ConstantsAssumption ==
  /\ UINT_MAX \in Nat /\ UINT_MAX % 2 = 1
  /\ Numerals \subseteq Int /\ Keys \subseteq Numerals
  /\ Garbage \notin Numerals
  /\ None \notin Calls \cup Commands \cup Value
  /\ LongCommands \subseteq Commands
  /\ Boxes \subseteq Box
  /\ {MaxIssued, MaxRequests, MaxDepth, MaxBoxes} \subseteq Nat
  /\ Env \subseteq EnvFlags

VARIABLES
  status,                \* "alive", "freed" (amp_free_proto) or "crashed"
  error,                 \* proto->error; "OK" is 0
  box,                   \* proto->box is not NULL
  live_boxes,            \* boxes the library has allocated and still owns
  last_ask_key,          \* proto->last_ask_key
  outstanding_requests,  \* the callback table: ask key -> call
  callbacks,             \* calls whose _AMP_Callback struct is allocated
  responders,            \* commands in the responder table
  write,                 \* amp_set_write_handler has been called
  stack,                 \* user functions the library is inside of
  requests,              \* requests held by user code, counted per _ask value
  oom,                   \* an allocation has failed (mem.c)
  \* history, for the properties only
  issued,                \* ask keys drawn so far
  issued_at,             \* call -> value of `issued' when its key was drawn
  ret,                   \* call -> what amp_call returned for it
  invoked,               \* call -> times its callback was invoked
  dropped                \* calls whose result could not be allocated

\* proto->box and its bookkeeping; the call table; the history of calls
boxVars  == <<box, live_boxes>>
callVars == <<outstanding_requests, callbacks, invoked, dropped>>
keyVars  == <<last_ask_key, issued, issued_at>>
appVars  == <<responders, write, requests>>
vars == <<status, error, boxVars, callVars, keyVars, appVars, ret, stack, oom>>

Errors == {"OK", "ENOMEM", "WRITE_ERROR", "AMP_BOX_EMPTY", "AMP_BAD_VAL_SIZE",
           "AMP_REQ_KEY_MISSING", "AMP_DECODE_ERROR", "AMP_OUT_OF_RANGE"}
WriteOps    == {"call", "no_answer", "respond", "unhandled"}
DispatchOps == {"result", "responder", "unhandled"}
Frame == [op : WriteOps \cup DispatchOps \cup {"cancel"},
          call : Calls \cup {None},   \* whose callback is running or writing
          buf : Box]                  \* what a write handler was given
Asks  == Value \cup {None}

TypeOK ==
  /\ status \in {"alive", "freed", "crashed"}
  /\ error \in Errors
  /\ box \in BOOLEAN
  /\ live_boxes \in Int
  /\ last_ask_key \in Keys
  /\ outstanding_requests \in [Keys -> Calls \cup {None}]
  /\ callbacks \subseteq Calls
  /\ responders \subseteq Commands
  /\ write \in BOOLEAN
  /\ stack \in Seq(Frame)
  /\ requests \in [Asks -> Nat]
  /\ oom \in BOOLEAN
  /\ issued \in Nat
  /\ issued_at \in [Calls -> Nat]
  /\ ret \in [Calls -> {"none", "running", "OK", "failed"}]
  /\ invoked \in [Calls -> Nat]
  /\ dropped \subseteq Calls

(* amp_new_proto; the struct is malloc'ed, so proto->write is unset.        *)
Init ==
  /\ status = "alive"
  /\ error = "OK"
  /\ box = TRUE
  /\ live_boxes = 1
  /\ last_ask_key = 0
  /\ outstanding_requests = [k \in Keys |-> None]
  /\ callbacks = {}
  /\ responders = {}
  /\ write = FALSE
  /\ stack = <<>>
  /\ requests = [a \in Asks |-> 0]
  /\ oom = FALSE
  /\ issued = 0
  /\ issued_at = [c \in Calls |-> 0]
  /\ ret = [c \in Calls |-> "none"]
  /\ invoked = [c \in Calls |-> 0]
  /\ dropped = {}

-----------------------------------------------------------------------------
(* Helpers *)

Top == stack[Len(stack)]
Push(op, c, buf) == stack' = Append(stack, [op |-> op, call |-> c, buf |-> buf])
Pop == stack' = SubSeq(stack, 1, Len(stack) - 1)
Entered(ops) == {i \in 1 .. Len(stack) : stack[i].op \in ops}

\* inside proto->dispatch_box, hence inside amp_consume_bytes
InDispatch == Entered(DispatchOps) # {}

\* user code is on top and may call into the library
UserRuns == status = "alive" /\ Len(stack) < MaxDepth

OutOfMemory == "malloc" \in Env /\ oom' = TRUE

NewBox_Forgotten(kept) == box' = FALSE /\ live_boxes' = kept /\ UNCHANGED oom
\* proto->box = amp_new_box(), the result never tested; `kept' boxes remain
NewBox(kept) ==
  \/ box' = TRUE /\ live_boxes' = kept + 1 /\ UNCHANGED oom
  \/ OutOfMemory /\ box' = FALSE /\ live_boxes' = kept

GiveBoxAway_KeepsPointer == box' = TRUE /\ live_boxes' = live_boxes - 1
\* proto->box = NULL: the box was freed, or is now part of a request or result
GiveBoxAway == box' = FALSE /\ live_boxes' = live_boxes - 1

Registered == {outstanding_requests[k] : k \in Keys} \ {None}

PopCallback_Keeps(k) == UNCHANGED outstanding_requests
PopCallback(k) ==
  outstanding_requests' = [outstanding_requests EXCEPT ![k] = None]

FreeCallback_Leaks(c) == UNCHANGED callbacks
FreeCallback(c) == callbacks' = callbacks \ {c}

\* what _amp_do_write may use as a write handler
WriterReady == write \/ "no_handler" \in Env

CallBox(cmd, k)  == [EmptyBox EXCEPT !.command = cmd, !.ask = k]
AnswerBox(a)     == [EmptyBox EXCEPT !.answer = a]
ErrorBox(a)      == [EmptyBox EXCEPT !.error = a, !.other = TRUE]

Crash ==
  /\ status' = "crashed"
  /\ UNCHANGED <<error, boxVars, callVars, keyVars, appVars, ret, stack, oom>>

-----------------------------------------------------------------------------
(* The API, called by user code *)

SetWriteHandler ==
  /\ UserRuns
  /\ write' = TRUE
  /\ UNCHANGED <<status, error, boxVars, callVars, keyVars, responders,
                 requests, ret, stack, oom>>

NextAskKey_NoWrap(c) ==
  /\ last_ask_key' = last_ask_key + 1
  /\ issued' = issued + 1
  /\ issued_at' = [issued_at EXCEPT ![c] = issued + 1]
NextAskKey_Stuck(c) ==
  /\ issued' = issued + 1
  /\ issued_at' = [issued_at EXCEPT ![c] = issued + 1]
  /\ UNCHANGED last_ask_key
\* amp_next_ask_key, and the bookkeeping of which key call c was given
NextAskKey(c) ==
  /\ last_ask_key' = (last_ask_key + 1) % M
  /\ issued' = issued + 1
  /\ issued_at' = [issued_at EXCEPT ![c] = issued + 1]

CanCall(c) == UserRuns /\ WriterReady /\ ret[c] = "none" /\ issued < MaxIssued

(* amp_call up to its write: the key is drawn, the callback registered      *)
(* (an older one under the same key is overwritten), the box written.       *)
CallRegisters(c, cmd) ==
  LET k == (last_ask_key + 1) % M IN
  /\ CanCall(c) /\ write
  /\ NextAskKey(c)
  /\ outstanding_requests' = [outstanding_requests EXCEPT ![k] = c]
  /\ callbacks' = callbacks \cup {c}
  /\ ret' = [ret EXCEPT ![c] = "running"]
  /\ Push("call", c, CallBox(cmd, k))
  /\ UNCHANGED <<status, error, boxVars, invoked, dropped, appVars, oom>>

(* _amp_do_write finds proto->write NULL: amp_call returns 1.               *)
CallFindsNoWriter(c) ==
  LET k == (last_ask_key + 1) % M IN
  /\ CanCall(c) /\ ~write
  /\ NextAskKey(c)
  /\ outstanding_requests' = [outstanding_requests EXCEPT ![k] = c]
  /\ callbacks' = callbacks \cup {c}
  /\ ret' = [ret EXCEPT ![c] = "failed"]
  /\ UNCHANGED <<status, error, boxVars, invoked, dropped, appVars, stack, oom>>

(* amp_call fails before it draws a key.                                    *)
CallRefused(c) ==
  /\ CanCall(c)
  /\ OutOfMemory
  /\ UNCHANGED <<status, error, boxVars, callVars, keyVars, appVars, ret, stack>>

\* the error path of _amp_call: it pops whatever is registered under the key
\* just drawn, and frees the callback it allocated
BackOut_Forgets(c, k) ==
  outstanding_requests' = [outstanding_requests EXCEPT ![k] = c]
BackOut(c, k) == PopCallback(k)

(* amp_call fails after it drew a key.                                      *)
CallBacksOut(c) ==
  LET k == (last_ask_key + 1) % M IN
  /\ CanCall(c)
  /\ OutOfMemory
  /\ NextAskKey(c)
  /\ BackOut(c, k)
  /\ UNCHANGED <<status, error, boxVars, callbacks, invoked, dropped, appVars,
                 ret, stack>>

(* proto->write is uninitialised memory: if not NULL it is called.          *)
WriteThroughGarbage == UserRuns /\ ~write /\ "no_handler" \in Env /\ Crash

CallNoAnswer(cmd) ==
  /\ UserRuns /\ write
  /\ Push("no_answer", None, [EmptyBox EXCEPT !.command = cmd])
  /\ UNCHANGED <<status, error, boxVars, callVars, keyVars, appVars, ret, oom>>

(* amp_respond to a held request whose _ask value is a.                     *)
Respond(a) ==
  /\ UserRuns /\ write /\ a # None /\ requests[a] > 0
  /\ Push("respond", None, AnswerBox(a))
  /\ UNCHANGED <<status, error, boxVars, callVars, keyVars, appVars, ret, oom>>

(* request->ask_key is NULL for a request without _ask.                     *)
RespondNoAsk ==
  /\ UserRuns /\ "respond_no_ask" \in Env /\ requests[None] > 0
  /\ Crash

FreeRequest(a) ==
  /\ UserRuns /\ requests[a] > 0
  /\ requests' = [requests EXCEPT ![a] = @ - 1]
  /\ UNCHANGED <<status, error, boxVars, callVars, keyVars, responders, write,
                 ret, stack, oom>>

(* amp_cancel of a registered key (an unknown one changes nothing): the     *)
(* entry is removed, then the callback is entered.                          *)
Cancel(k) ==
  LET c == outstanding_requests[k] IN
  /\ UserRuns /\ c # None
  /\ PopCallback(k)
  /\ invoked' = [invoked EXCEPT ![c] = @ + 1]
  /\ Push("cancel", c, EmptyBox)
  /\ UNCHANGED <<status, error, boxVars, callbacks, dropped, keyVars, appVars,
                 ret, oom>>

CancelLosesResult(k) ==
  LET c == outstanding_requests[k] IN
  /\ UserRuns /\ c # None
  /\ OutOfMemory
  /\ PopCallback(k)
  /\ FreeCallback(c)
  /\ dropped' = dropped \cup {c}
  /\ UNCHANGED <<status, error, boxVars, invoked, keyVars, appVars, ret, stack>>

AddResponder(cmd) ==
  /\ UserRuns
  /\ responders' = responders \cup {cmd}
  /\ UNCHANGED <<status, error, boxVars, callVars, keyVars, write, requests,
                 ret, stack, oom>>

(* The responder struct cannot be allocated: _amp_put_responder is given    *)
(* NULL.  If only its table binding cannot, ENOMEM is ignored.              *)
AddResponderOom(cmd) ==
  /\ UserRuns
  /\ OutOfMemory
  /\ \/ status' = "crashed"
     \/ cmd \notin responders /\ UNCHANGED status
  /\ UNCHANGED <<error, boxVars, callVars, keyVars, appVars, ret, stack>>

RemoveResponder(cmd) ==
  /\ UserRuns
  /\ responders' = responders \ {cmd}
  /\ UNCHANGED <<status, error, boxVars, callVars, keyVars, write, requests,
                 ret, stack, oom>>

Reset ==
  /\ UserRuns
  /\ InDispatch => "reset_in_callback" \in Env /\ live_boxes < MaxBoxes
  /\ NewBox(live_boxes - (IF box THEN 1 ELSE 0))
  /\ error' = "OK"
  /\ UNCHANGED <<status, callVars, keyVars, appVars, ret, stack>>

(* amp_free_proto; Table_free frees the registered callbacks unnotified.    *)
FreeProto ==
  /\ status = "alive" /\ stack = <<>>
  /\ status' = "freed"
  /\ box' = FALSE
  /\ live_boxes' = live_boxes - (IF box THEN 1 ELSE 0)
  /\ callbacks' = callbacks \ Registered
  /\ outstanding_requests' = [k \in Keys |-> None]
  /\ responders' = {}
  /\ UNCHANGED <<error, invoked, dropped, keyVars, write, requests, ret,
                 stack, oom>>

-----------------------------------------------------------------------------
(* amp_consume_bytes, given the bytes of one box *)

\* amp_get_uint, amp_get_int of a value: 0 or an error code
Decode(v, lo, hi) == IF v = Garbage THEN "AMP_DECODE_ERROR"
                     ELSE IF v \in lo .. hi THEN "OK" ELSE "AMP_OUT_OF_RANGE"
GetUint(v) == Decode(v, 0, UINT_MAX)
GetInt(v)  == Decode(v, -INT_MAX - 1, INT_MAX)

\* the order in which _amp_process_full_packet looks at a box
Refusal(b) ==
  IF b = EmptyBox THEN "AMP_BOX_EMPTY"
  ELSE IF b.command # None THEN "OK"
  ELSE IF b.answer # None THEN GetUint(b.answer)
  ELSE IF b.error # None THEN GetInt(b.error)
  ELSE "AMP_REQ_KEY_MISSING"

IsReply(b)  == b.command = None /\ Refusal(b) = "OK"
\* the key looked up; the table reads an int key as an unsigned
ReplyKey(b) == (IF b.answer # None THEN b.answer ELSE b.error) % M

Consuming_IgnoresError == UserRuns /\ (InDispatch => "reentrant_consume" \in Env)
Consuming == /\ UserRuns /\ error = "OK"
             /\ InDispatch => "reentrant_consume" \in Env
CanDispatch == Consuming /\ box

(* Storing a key, or counting keys, in a NULL box.                          *)
ConsumeNoBox == Consuming /\ ~box /\ Crash

(* The box is refused, or memory runs out while it is parsed or turned into *)
(* a request, response or error object; the box stays with the parser.      *)
ConsumeRefuses(b) ==
  /\ CanDispatch /\ Refusal(b) # "OK"
  /\ error' = Refusal(b)
  /\ UNCHANGED <<status, boxVars, callVars, keyVars, appVars, ret, stack, oom>>

ConsumeOom ==
  /\ CanDispatch
  /\ OutOfMemory
  /\ error' = "ENOMEM"
  /\ UNCHANGED <<status, boxVars, callVars, keyVars, appVars, ret, stack>>

(* A request with a responder: the box now belongs to the request, and the  *)
(* request to user code.                                                    *)
ConsumeRequest(b) ==
  /\ CanDispatch /\ b.command \in responders
  /\ requests[b.ask] < MaxRequests
  /\ requests' = [requests EXCEPT ![b.ask] = @ + 1]
  /\ GiveBoxAway
  /\ Push("responder", None, EmptyBox)
  /\ UNCHANGED <<status, error, callVars, keyVars, responders, write, ret, oom>>

\* the command of b is known to nobody
NoResponder(b) == b.command # None /\ b.command \notin responders

(* Nobody to tell: the request and its box are freed.                       *)
ConsumeUnhandledNoAsk(b) ==
  /\ CanDispatch /\ NoResponder(b) /\ b.ask = None
  /\ NewBox(live_boxes - 1)
  /\ UNCHANGED <<status, error, callVars, keyVars, appVars, ret, stack>>

(* The error box is handed straight to proto->write; until that returns     *)
(* the library owns the request.                                            *)
ConsumeUnhandled(b) ==
  /\ CanDispatch /\ NoResponder(b) /\ b.ask # None
  /\ b.command \notin LongCommands /\ write
  /\ box' = FALSE
  /\ Push("unhandled", None, ErrorBox(b.ask))
  /\ UNCHANGED <<status, error, live_boxes, callVars, keyVars, appVars, ret, oom>>

ConsumeUnhandledNoWriter(b) ==
  /\ CanDispatch /\ NoResponder(b) /\ b.ask # None
  /\ b.command \notin LongCommands /\ ~write /\ "no_handler" \in Env
  /\ Crash

(* The error box cannot be built: fatal, and proto->box is gone.            *)
ConsumeUnhandledFails(b) ==
  /\ CanDispatch /\ NoResponder(b) /\ b.ask # None
  /\ \/ b.command \in LongCommands /\ error' = "AMP_BAD_VAL_SIZE" /\ UNCHANGED oom
     \/ OutOfMemory /\ error' = "ENOMEM"
  /\ GiveBoxAway
  /\ UNCHANGED <<status, callVars, keyVars, appVars, ret, stack>>

(* A reply to a registered call: the entry is removed, then the callback    *)
(* is entered.                                                              *)
ConsumeReply(b) ==
  /\ CanDispatch /\ IsReply(b)
  /\ LET k == ReplyKey(b)
         c == outstanding_requests[k]
     IN  /\ c # None
         /\ PopCallback(k)
         /\ invoked' = [invoked EXCEPT ![c] = @ + 1]
         /\ Push("result", c, EmptyBox)
  /\ GiveBoxAway
  /\ UNCHANGED <<status, error, callbacks, dropped, keyVars, appVars, ret, oom>>

ConsumeReplyLosesResult(b) ==
  /\ CanDispatch /\ IsReply(b)
  /\ OutOfMemory
  /\ LET k == ReplyKey(b)
         c == outstanding_requests[k]
     IN  /\ c # None
         /\ PopCallback(k)
         /\ FreeCallback(c)
         /\ dropped' = dropped \cup {c}
  /\ error' = "ENOMEM"
  /\ GiveBoxAway
  /\ UNCHANGED <<status, invoked, keyVars, appVars, ret, stack>>

(* A reply nobody waits for (late, duplicate, cancelled) is freed.          *)
ConsumeUnknownReply(b) ==
  /\ CanDispatch /\ IsReply(b)
  /\ outstanding_requests[ReplyKey(b)] = None
  /\ NewBox(live_boxes - 1)
  /\ UNCHANGED <<status, error, callVars, keyVars, appVars, ret, stack>>

Consume(b) ==
  \/ ConsumeRefuses(b)          \/ ConsumeRequest(b)
  \/ ConsumeUnhandledNoAsk(b)   \/ ConsumeUnhandled(b)
  \/ ConsumeUnhandledNoWriter(b)\/ ConsumeUnhandledFails(b)
  \/ ConsumeReply(b)            \/ ConsumeReplyLosesResult(b)
  \/ ConsumeUnknownReply(b)

-----------------------------------------------------------------------------
(* User functions return to the library *)

Returning(ops) == status = "alive" /\ stack # <<>> /\ Top.op \in ops

(* A responder or a result callback returns: dispatch_box returns 0 and     *)
(* amp_consume_bytes starts a new box.                                      *)
HandlerReturns ==
  /\ Returning({"result", "responder"})
  /\ Pop
  /\ FreeCallback(Top.call)
  /\ error' = "OK"
  /\ NewBox(live_boxes)
  /\ UNCHANGED <<status, outstanding_requests, invoked, dropped, keyVars,
                 appVars, ret>>

CancelReturns ==
  /\ Returning({"cancel"})
  /\ Pop
  /\ FreeCallback(Top.call)
  /\ UNCHANGED <<status, error, boxVars, outstanding_requests, invoked, dropped,
                 keyVars, appVars, ret, oom>>

WriteResults == {"OK"} \cup (IF "write" \in Env THEN {"WRITE_ERROR"} ELSE {})

(* A write handler returns into amp_call, which returns its value as is.    *)
CallReturns(r) ==
  /\ Returning({"call"})
  /\ Pop
  /\ ret' = [ret EXCEPT ![Top.call] = IF r = "OK" THEN "OK" ELSE "failed"]
  /\ UNCHANGED <<status, error, boxVars, callVars, keyVars, appVars, oom>>

(* ... or into amp_call_no_answer or amp_respond.                           *)
WriteReturns ==
  /\ Returning({"no_answer", "respond"})
  /\ Pop
  /\ UNCHANGED <<status, error, boxVars, callVars, keyVars, appVars, ret, oom>>

(* ... or into _amp_process_full_packet: the request is freed, and the      *)
(* handler's value becomes the result of the dispatch.                      *)
UnhandledReturns(r) ==
  /\ Returning({"unhandled"})
  /\ Pop
  /\ error' = r
  /\ IF r = "OK" THEN NewBox(live_boxes - 1)
                 ELSE /\ live_boxes' = live_boxes - 1
                      /\ UNCHANGED <<box, oom>>
  /\ UNCHANGED <<status, callVars, keyVars, appVars, ret>>

-----------------------------------------------------------------------------

CallStep(c) ==
  \/ \E cmd \in Commands : CallRegisters(c, cmd)
  \/ CallFindsNoWriter(c) \/ CallRefused(c) \/ CallBacksOut(c)

\* what user code calls besides amp_consume_bytes and amp_reset_proto
UserStep ==
  \/ SetWriteHandler \/ WriteThroughGarbage \/ RespondNoAsk \/ FreeProto
  \/ \E c \in Calls : CallStep(c)
  \/ \E cmd \in Commands : \/ CallNoAnswer(cmd) \/ AddResponder(cmd)
                           \/ AddResponderOom(cmd) \/ RemoveResponder(cmd)
  \/ \E a \in Asks : Respond(a) \/ FreeRequest(a)
  \/ \E k \in Keys : Cancel(k) \/ CancelLosesResult(k)

ApiStep == Reset \/ UserStep

ConsumeStep == ConsumeNoBox \/ ConsumeOom \/ \E b \in Boxes : Consume(b)

ReturnStep ==
  \/ HandlerReturns \/ CancelReturns \/ WriteReturns
  \/ \E r \in WriteResults : CallReturns(r) \/ UnhandledReturns(r)

Next == ApiStep \/ ConsumeStep \/ ReturnStep

Spec == Init /\ [][Next]_vars

-----------------------------------------------------------------------------
(* Properties *)

(* The callback given to amp_call is invoked at most once, whatever the     *)
(* interleaving of replies, duplicate replies, cancellations, re-entrant    *)
(* calls and key reuse: _amp_pop_callback removes the entry before use.     *)
AtMostOneResult == \A c \in Calls : invoked[c] <= 1

(* No amp_call is forgotten: until its result was delivered (or could not   *)
(* be allocated) the call stays registered under its own key, unless as     *)
(* many keys as there are unsigned ints were drawn since (the assumption    *)
(* stated in amp_next_ask_key).                                             *)
NoLostCall ==
  status = "alive" =>
    \A c \in Calls :
      ret[c] # "none" /\ invoked[c] = 0 /\ c \notin dropped =>
        \/ outstanding_requests[issued_at[c] % M] = c
        \/ issued - issued_at[c] >= M

(* The callback table as an index of the calls that wait: a call is filed   *)
(* under its own key, once, and only while it has had no result; keys come  *)
(* in the order of the draws; amp_call writes on behalf of a known call.    *)
TableFiled ==
  \A k \in Keys :
    LET c == outstanding_requests[k] IN
    c # None => /\ ret[c] # "none" /\ invoked[c] = 0 /\ c \notin dropped
                /\ issued_at[c] % M = k
KeysDrawn   == last_ask_key = issued % M /\ \A c \in Calls : issued_at[c] <= issued
CallsKnown  ==
  \A c \in Calls : ret[c] = "none" => invoked[c] = 0 /\ c \notin dropped
CallWriters == \A i \in Entered({"call"}) :
                 stack[i].call \in Calls /\ ret[stack[i].call] # "none"
CallInv == TableFiled /\ KeysDrawn /\ CallsKnown /\ CallWriters

(* An amp_call that failed before its write leaves nothing behind: no       *)
(* table entry, no struct, and its callback is never invoked.               *)
NoTraceOfRefusedCall ==
  \A c \in Calls :
    ret[c] = "none" => c \notin Registered \cup callbacks /\ invoked[c] = 0

(* Calls whose callback is running.                                         *)
Running == {stack[i].call : i \in Entered({"result", "cancel"})}

(* A callback struct is never used after it was freed, and is leaked only   *)
(* if its table entry was overwritten after all keys were drawn once.       *)
CallbacksOwned ==
  status = "alive" =>
    /\ Registered \cup Running \subseteq callbacks
    /\ \A c \in callbacks \ (Registered \cup Running) :
         issued - issued_at[c] >= M

(* Every box allocated for the parser is owned once: by proto->box, or by   *)
(* the request behind an "Unhandled Command" write; none is leaked or       *)
(* freed twice, on the error paths either.                                  *)
BoxBalanced ==
  status # "crashed" =>
    live_boxes = (IF box THEN 1 ELSE 0) + Cardinality(Entered({"unhandled"}))

(* NULL is only ever dereferenced after an allocation has failed.           *)
CrashOnlyAfterOom == status = "crashed" => oom

(* A fatal error stays until amp_reset_proto, also when it is set while     *)
(* user functions are being run (amp.h: AMP_PROTO_ERROR).                   *)
ErrorIsFatal == [][error # "OK" => error' = error \/ Reset]_vars

(* Whatever key a pending call was given, up to UINT_MAX, an answer and an  *)
(* error reply under that key can be read (test_amp.c:1526, 1588).          *)
RepliesUnderstood ==
  \A k \in Keys : outstanding_requests[k] # None =>
    Refusal(AnswerBox(k)) = "OK" /\ Refusal(ErrorBox(k)) = "OK"

(* Between calls into the library there is a box to parse into, or an error *)
(* to say why not.                                                          *)
ReadyOrError == status = "alive" /\ ~InDispatch => box \/ error # "OK"

(* amp.h:290: cancelling a call whose callback has been invoked does        *)
(* nothing.  A key that user code kept names another call only once as many *)
(* keys as there are unsigned ints were drawn, and then a younger one.      *)
KeptKeyNamesNobody ==
  \A c \in Calls, k \in Keys :
    LET d == outstanding_requests[k] IN
    ret[c] # "none" /\ issued_at[c] % M = k /\ d \notin {None, c} =>
      issued_at[d] - issued_at[c] >= M

(* Whatever user functions do inside callbacks, the library frees no box    *)
(* twice: what it still has to free is allocated.  (Some may be leaked, see *)
(* BoxBalanced.)                                                            *)
NoBoxFreedTwice ==
  status # "crashed" =>
    live_boxes >= (IF box THEN 1 ELSE 0) + Cardinality(Entered({"unhandled"}))

(* An error that the outermost amp_consume_bytes has returned stays until   *)
(* amp_reset_proto, whatever user functions do later; one that a nested     *)
(* amp_consume_bytes returned may be overwritten (amp.c:691).               *)
ReportedErrorStays ==
  [][error # "OK" /\ ~InDispatch => error' = error \/ Reset]_vars
=============================================================================
