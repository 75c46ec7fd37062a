------------------------------ MODULE Messages -------------------------------
(***************************************************************************)
(* What _amp_process_full_packet makes of one box (amp.c): requests,        *)
(* responses, errors and results, each allocated and filled piece by piece. *)
(* Any allocation may fail, and the test build can make the amp_get_* of    *)
(* one key fail.  A reply's ask key is decoded by the loop of Types.  Which *)
(* responder or callback the box belongs to is the subject of Dispatch.     *)
(***************************************************************************)
EXTENDS Types

CONSTANT AskTexts    \* what a peer sends as the value of _answer or _error

ASSUME MessagesAssumption == AskTexts \subseteq Texts

\* a chunk is named after the key whose value it copies
Chunks  == {"_command", "_ask", "_error_code", "_error_description"}
AmpKeys == Chunks \cup {"_answer", "_error"}
Objects == {"request", "response", "error", "result"}

VARIABLES
  at,            \* the next statement
  kind,          \* of the message: "request", "response", "error" or "cancel"
  keys,          \* of the box
  get_fail_key,  \* the key whose amp_get_* fails, if any
  heap,          \* what is allocated
  locals,        \* what only local variables of the running function point to
  parts,         \* what the fields of each object point to
  given,         \* what the library or user code holds: an object, or "none"
  box,           \* proto->box is not NULL
  error,         \* proto->error is not 0
  ret,           \* what is returned to amp_consume_bytes or amp_cancel
  amiss          \* history: something was freed twice, or allocated again and so lost

objectVars == <<heap, locals, parts, given, amiss>>
boxVars    == <<kind, keys, get_fail_key>>
msgVars    == <<at, boxVars, objectVars, box, error, ret>>

MessageTypeOK ==
  /\ TypeOK
  /\ kind \in {"none", "request", "response", "error", "cancel"}
  /\ keys \subseteq AmpKeys \cup {"other"} /\ get_fail_key \in AmpKeys \cup {"none"}
  /\ heap \subseteq Chunks \cup Objects \cup {"box", "reply", "buf", "packet"}
  /\ locals \subseteq heap
  /\ parts \in [Objects -> SUBSET (Chunks \cup Objects \cup {"box"})]
  /\ given \in Objects \cup {"none"}
  /\ box \in BOOLEAN /\ error \in BOOLEAN /\ amiss \in BOOLEAN

Fields0 == [o \in Objects |-> {}]

MessageInit ==
  /\ Init
  /\ at = "idle" /\ kind = "none" /\ keys = {} /\ get_fail_key = "none"
  /\ heap = {"box"} /\ locals = {} /\ parts = Fields0 /\ given = "none"
  /\ box = TRUE /\ error = FALSE /\ ret = "OK" /\ amiss = FALSE

-----------------------------------------------------------------------------
(* Allocating and freeing *)

Malloc(o) == /\ heap' = heap \cup {o}
             /\ amiss' = (amiss \/ o \in heap)

Free(S) == /\ heap' = heap \ S
           /\ amiss' = (amiss \/ ~(S \subseteq heap))

\* what amp_free_request, amp_free_response, amp_free_error and
\* amp_free_result free: the object and what its fields point to
Tree(o) == {o} \cup parts[o] \cup UNION {parts[p] : p \in parts[o] \cap Objects}

Leave(code) == at' = "returned" /\ ret' = code

ErrorLabel_KeepsChunks == {kind}
\* what the code after the label `error' frees
ErrorLabel == locals

Fail(code) ==
  /\ Free(ErrorLabel) /\ locals' = {}
  /\ Leave(code)
  /\ UNCHANGED <<boxVars, parts, given, box, error>>

FreeMessage(o, code) ==
  /\ Free(locals \cup Tree(o)) /\ locals' = {} /\ given' = "none"
  /\ Leave(code)
  /\ UNCHANGED <<boxVars, parts, box, error>>

-----------------------------------------------------------------------------
(* A box arrives, is told apart, and its message is built *)

KindOf(ks) == CASE "_command" \in ks -> "request"
                [] "_command" \notin ks /\ "_answer" \in ks -> "response"
                [] ks \cap {"_command", "_answer", "_error"} = {"_error"} -> "error"
                [] OTHER -> "none"

\* amp_consume_bytes does not refuse
Listening == at = "idle" /\ box /\ ~error /\ pc = "empty"

\* a peer sends a box; its ask key, if it is a reply, has the value t
Arrive(ks, f, t) ==
  /\ at' = "box" /\ keys' = ks /\ get_fail_key' = f /\ kind' = KindOf(ks)
  /\ IF KindOf(ks) \in {"response", "error"} THEN PutBytes(t) ELSE UNCHANGED vars
  /\ UNCHANGED <<objectVars, box, error, ret>>

NotAMessage ==
  /\ at = "box" /\ kind = "none"
  /\ Leave(IF keys = {} THEN "AMP_BOX_EMPTY" ELSE "AMP_REQ_KEY_MISSING")
  /\ UNCHANGED <<vars, boxVars, objectVars, box, error>>

FirstKey == [request |-> "_command", response |-> "_answer", error |-> "_error"]

NewMessage ==
  /\ at = "box" /\ kind # "none"
  /\ Malloc(kind) /\ locals' = {kind} /\ at' = FirstKey[kind]
  /\ UNCHANGED <<vars, boxVars, parts, given, box, error, ret>>

NewMessageOom == at = "box" /\ kind # "none" /\ Fail("ENOMEM") /\ UNCHANGED vars

\* where each chunk is copied, what comes next
After == [k \in Chunks |-> CASE k = "_command"    -> "_ask"
                             [] k = "_error_code" -> "_error_description"
                             [] OTHER             -> "built"]

CopyChunk ==
  /\ at \in Chunks /\ at \in keys /\ get_fail_key # at
  /\ Malloc(at) /\ locals' = locals \cup {at} /\ at' = After[at]
  /\ UNCHANGED <<vars, boxVars, parts, given, box, error, ret>>

CopyChunkFails ==
  /\ at \in Chunks /\ at \in keys
  /\ Fail(IF get_fail_key = at THEN "get_fail_code" ELSE "ENOMEM")
  /\ UNCHANGED vars

NoSuchKey ==
  /\ at \in Chunks /\ at \notin keys
  /\ at' = After[at]
  /\ UNCHANGED <<vars, boxVars, objectVars, box, error, ret>>

\* _answer holds an unsigned int, _error an int
DecodeKey ==
  /\ at \in {"_answer", "_error"} /\ get_fail_key # at
  /\ LET t == IF at = "_answer" THEN "uint" ELSE "int"
     IN  GetInteger(t) \/ GetIntegerEmpty(t)
  /\ at' = "decoding"
  /\ UNCHANGED <<boxVars, objectVars, box, error, ret>>

Decoding == at = "decoding" /\ Step /\ UNCHANGED msgVars

Decoded ==
  /\ at = "decoding" /\ pc = "done" /\ err = "OK"
  /\ at' = IF kind = "error" THEN "_error_code" ELSE "built"
  /\ UNCHANGED <<vars, boxVars, objectVars, box, error, ret>>

DecodeFails ==
  /\ \/ at = "decoding" /\ pc = "done" /\ err # "OK" /\ Fail(err)
     \/ at \in {"_answer", "_error"} /\ get_fail_key = at /\ Fail("get_fail_code")
  /\ UNCHANGED vars

\* requests and responses take the box, an error frees it; proto->box is NULL
Built ==
  /\ at = "built" /\ at' = "lookup"
  /\ parts' = [parts EXCEPT ![kind] =
                 (locals \ {kind}) \cup (IF kind = "error" THEN {} ELSE {"box"})]
  /\ locals' = {} /\ given' = kind
  /\ Free(IF kind = "error" THEN {"box"} ELSE {})
  /\ box' = FALSE
  /\ UNCHANGED <<vars, boxVars, error, ret>>

-----------------------------------------------------------------------------
(* It goes to user code, or to nobody *)

ResponderFound ==
  /\ at = "lookup" /\ kind = "request"
  /\ at' = "user"
  /\ UNCHANGED <<vars, boxVars, objectVars, box, error, ret>>

NoResponder ==
  /\ at = "lookup" /\ kind = "request"
  /\ IF "_ask" \in parts[kind]
       THEN at' = "reply" /\ UNCHANGED <<boxVars, objectVars, box, error, ret>>
       ELSE FreeMessage(kind, "OK")
  /\ UNCHANGED vars

(* _amp_send_unhandled_command_error: its three allocations and, in the box *)
(* and after it, the puts that may fail.  A binding belongs to its box.     *)
ReplyStages == {"reply", "_error put", "buf", "descr put", "packet", "write"}
NextStage == [s \in ReplyStages |-> CASE s = "reply"      -> "_error put"
                                      [] s = "_error put" -> "buf"
                                      [] s = "buf"        -> "descr put"
                                      [] s = "descr put"  -> "packet"
                                      [] OTHER            -> "write"]
Replying == at \in ReplyStages \ {"write"}

ReplyStep ==
  /\ Replying
  /\ at' = NextStage[at]
  /\ IF at \in {"reply", "buf", "packet"} THEN Malloc(at) /\ locals' = locals \cup {at}
                                          ELSE UNCHANGED <<heap, locals, amiss>>
  /\ UNCHANGED <<vars, boxVars, parts, given, box, error, ret>>

ReplyFails ==
  /\ Replying
  /\ \/ FreeMessage("request", "ENOMEM")
     \/ at = "descr put" /\ FreeMessage("request", "AMP_BAD_VAL_SIZE")
  /\ UNCHANGED vars

\* the packet is the write handler's, who frees it, whatever it returns
ReplyWritten ==
  /\ at = "write"
  /\ \E code \in {"OK", "write failed"} : FreeMessage("request", code)
  /\ UNCHANGED vars

UnknownKey ==
  /\ at = "lookup" /\ kind \in {"response", "error"}
  /\ FreeMessage(kind, "OK")
  /\ UNCHANGED vars

\* an _AMP_Callback was popped
CallbackFound ==
  /\ at = "lookup" /\ kind \in {"response", "error"}
  /\ at' = "result"
  /\ UNCHANGED <<vars, boxVars, objectVars, box, error, ret>>

Cancel ==
  /\ at = "idle" /\ pc = "empty"
  /\ at' = "result" /\ kind' = "cancel"
  /\ UNCHANGED <<vars, keys, get_fail_key, objectVars, box, error, ret>>

\* what r->response or r->error points to
ResultParts == IF kind = "cancel" THEN {} ELSE {kind}

NewResult ==
  /\ at = "result" /\ at' = "user"
  /\ Malloc("result")
  /\ parts' = [parts EXCEPT !["result"] = ResultParts] /\ given' = "result"
  /\ UNCHANGED <<vars, boxVars, locals, box, error, ret>>

NewResultOom ==
  /\ at = "result"
  /\ IF kind = "cancel" THEN Fail("ENOMEM") ELSE FreeMessage(kind, "ENOMEM")
  /\ UNCHANGED vars

\* a responder may free the arguments of its request early, and says so
UserFreesArgs ==
  /\ at = "user" /\ given = "request" /\ "box" \in parts["request"]
  /\ Free({"box"})
  /\ parts' = [parts EXCEPT !["request"] = @ \ {"box"}]
  /\ UNCHANGED <<vars, at, boxVars, locals, given, box, error, ret>>

\* a responder or callback frees what it got and returns
UserReturns ==
  /\ at = "user"
  /\ FreeMessage(given, "OK")
  /\ UNCHANGED vars

-----------------------------------------------------------------------------
(* Back in amp_consume_bytes or amp_cancel *)

Clear ==
  /\ at' = "idle" /\ kind' = "none" /\ keys' = {} /\ get_fail_key' = "none"
  /\ parts' = Fields0 /\ locals' = {} /\ given' = "none" /\ ret' = "OK"

Forget == IF pc = "empty" THEN UNCHANGED vars ELSE FreeBox

\* proto->box = amp_new_box(), which may be NULL
NewBox == \/ Malloc("box") /\ box' = TRUE
          \/ box' = FALSE /\ UNCHANGED <<heap, amiss>>

NextBox ==
  /\ at = "returned" /\ kind # "cancel" /\ ret = "OK"
  /\ NewBox
  /\ Clear /\ Forget
  /\ UNCHANGED error

BecomesFatal ==
  /\ at = "returned" /\ kind # "cancel" /\ ret # "OK"
  /\ error' = TRUE
  /\ Clear /\ Forget
  /\ UNCHANGED <<box, heap, amiss>>

CancelReturns ==
  /\ at = "returned" /\ kind = "cancel"
  /\ Clear
  /\ UNCHANGED <<vars, box, error, heap, amiss>>

\* what proto->box points to
ProtoOwns == IF box THEN {"box"} ELSE {}

\* amp_free_box(proto->box), and another amp_new_box that may be NULL
Reset ==
  /\ at = "idle" /\ pc = "empty"
  /\ amiss' = (amiss \/ ~(ProtoOwns \subseteq heap))
  /\ box' \in BOOLEAN
  /\ heap' = (heap \ ProtoOwns) \cup ProtoOwns'
  /\ error' = FALSE
  /\ UNCHANGED <<vars, at, boxVars, locals, parts, given, ret>>

-----------------------------------------------------------------------------
\* only reads of a key that is there can be made to fail
FailKeys(ks) == (ks \cap AmpKeys) \cup {"none"}
Boxes == (SUBSET AmpKeys) \cup {{"other"}}

Build ==
  \/ NotAMessage \/ NewMessage \/ NewMessageOom
  \/ CopyChunk \/ CopyChunkFails \/ NoSuchKey
  \/ DecodeKey \/ Decoding \/ Decoded \/ DecodeFails
  \/ Built

Hand ==
  \/ ResponderFound \/ NoResponder
  \/ ReplyStep \/ ReplyFails \/ ReplyWritten
  \/ UnknownKey \/ CallbackFound \/ NewResult \/ NewResultOom
  \/ UserFreesArgs \/ UserReturns

Resume == NextBox \/ BecomesFatal \/ CancelReturns

\* user code's own amp_put_* and amp_get_*: this is at = "idle" /\ Next
UserStep == /\ at = "idle"
            /\ (pc = "empty" /\ Put) \/ Get \/ Step \/ FreeBox

MessageNext ==
  \/ UserStep /\ UNCHANGED msgVars
  \/ Listening /\ \E ks \in Boxes : \E f \in FailKeys(ks), t \in AskTexts : Arrive(ks, f, t)
  \/ Cancel \/ Reset
  \/ Build \/ Hand \/ Resume

MessageSpec == MessageInit /\ [][MessageNext]_<<vars, msgVars>>

-----------------------------------------------------------------------------
(* Whatever fails, and wherever, everything allocated for a box has one     *)
(* owner: nothing is freed twice or overwritten; while user code runs there *)
(* is exactly what it was given and proto->box, unless it was given that;   *)
(* between messages only proto->box is left; and no box is left behind when *)
(* the next one replaces it (amp.c: the error labels, amp_free_request,     *)
(* amp_free_result, and proto->box = NULL).                                 *)
OneOwner ==
  /\ ~amiss
  /\ at = "idle" => heap = ProtoOwns
  /\ at = "user" => heap = Tree(given) \cup ProtoOwns /\ (box => "box" \notin Tree(given))
  /\ (at = "returned" /\ kind # "cancel" /\ ret = "OK") => heap = {}
=============================================================================
