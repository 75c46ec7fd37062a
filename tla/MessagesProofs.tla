--------------------------- MODULE MessagesProofs ----------------------------
(***************************************************************************)
(* Whatever a peer sends and whatever fails, everything allocated for a box *)
(* has one owner; and decoding a reply's key is one of the uses of typed    *)
(* values that Types is about.                                              *)
(***************************************************************************)
EXTENDS Messages, TypesProofs

Names == Chunks \cup Objects \cup {"box", "reply", "buf", "packet"}
Kinds == {"request", "response", "error"}

\* while a message is built, its pieces are known to local variables only
BuildsMessage ==
  (at \in Chunks \cup {"_answer", "_error", "decoding", "built"}) =>
    /\ box /\ kind \in Kinds /\ kind \in locals
    /\ locals \subseteq {kind} \cup Chunks
    /\ heap = {"box"} \cup locals

\* what has been allocated so far
Pieces ==
  /\ at = "_command" => kind = "request" /\ locals = {"request"} /\ "_command" \in keys
  /\ at = "_ask" => kind = "request" /\ locals = {"request", "_command"}
  /\ at = "_answer" => kind = "response" /\ locals = {"response"}
  /\ at = "_error" => kind = "error" /\ locals = {"error"}
  /\ at = "decoding" => kind \in {"response", "error"} /\ locals = {kind}
  /\ at = "_error_code" => kind = "error" /\ locals = {"error"}
  /\ at = "_error_description" => kind = "error" /\ locals \subseteq {"error", "_error_code"}

\* the message is built, and user code has not got it yet
HandsMessage ==
  (at \in {"lookup", "result"} \cup ReplyStages /\ kind # "cancel") =>
    /\ ~box /\ kind \in Kinds
    /\ parts[kind] \subseteq Chunks \cup {"box"}
    /\ heap = {kind} \cup parts[kind] \cup locals
    /\ at = "lookup" => given = kind

Replies ==
  /\ at \in ReplyStages => kind = "request"
  /\ at = "reply" => locals = {}
  /\ at \in {"_error put", "buf"} => locals = {"reply"}
  /\ at \in {"descr put", "packet"} => locals = {"reply", "buf"}
  /\ at = "write" => locals = {"reply", "buf", "packet"}

\* nothing is under way but what proto->box points to
Quiet ==
  /\ at \in {"idle", "returned"} => heap = ProtoOwns
  /\ at = "box" => box /\ heap = {"box"} /\ kind \in Kinds \cup {"none"} /\ kind = KindOf(keys)
  /\ (at = "returned" /\ kind # "cancel" /\ ret = "OK") => ~box
  /\ (at = "result" /\ kind = "cancel") => heap = ProtoOwns
  /\ at \in {"idle", "box", "lookup", "result", "user", "returned"} => locals = {}

UserHas ==
  at = "user" =>
    /\ given \in Objects
    /\ heap = Tree(given) \cup ProtoOwns
    /\ box => kind = "cancel" /\ "box" \notin Tree(given)
    /\ given = "request" => parts[given] \subseteq Chunks \cup {"box"}

Owned ==
  /\ ~amiss /\ box \in BOOLEAN
  /\ parts \in [Objects -> SUBSET Names]
  /\ at \in Chunks \cup ReplyStages \cup {"_answer", "_error", "decoding", "built", "idle", "box",
                                    "lookup", "result", "user", "returned"}
  /\ BuildsMessage /\ Pieces /\ HandsMessage /\ Replies /\ Quiet /\ UserHas

LEMMA OwnedIsEnough == Owned => OneOwner
  BY DEF Owned, OneOwner, Quiet, UserHas, ProtoOwns

LEMMA UnchangedOwned ==
  ASSUME Owned, UNCHANGED <<at, kind, keys, heap, locals, parts, given, amiss, box, ret>>
  PROVE  Owned'
<1>1. Tree(given)' = Tree(given) /\ ProtoOwns' = ProtoOwns
  BY DEF Tree, ProtoOwns
<1>2. BuildsMessage' /\ Pieces' /\ HandsMessage'
  BY <1>1 DEF Owned, BuildsMessage, Pieces, HandsMessage
<1>3. Replies' /\ Quiet' /\ UserHas'
  BY <1>1 DEF Owned, Replies, Quiet, UserHas
<1> QED BY <1>2, <1>3 DEF Owned

\* nothing but a message and its chunks hangs from a message
LEMMA SmallTree ==
  ASSUME NEW o \in Objects, parts[o] \subseteq Chunks \cup {"box"}
  PROVE  Tree(o) = {o} \cup parts[o]
<1>1. parts[o] \cap Objects = {}
  BY DEF Chunks, Objects
<1> QED BY <1>1 DEF Tree

LEMMA InitOwned == MessageInit => Owned
  BY DEF MessageInit, Owned, BuildsMessage, Pieces, HandsMessage, Replies, Quiet, UserHas,
         ReplyStages, Chunks, ProtoOwns, Fields0, Names, Objects, Kinds

\* the error label: what was made is freed, the box stays with proto->box
LEMMA FailOwned ==
  ASSUME Owned, NEW code, Fail(code), code # "OK",
         \/ at \in Chunks \cup {"_answer", "_error", "decoding"}
         \/ at = "box" /\ kind # "none"
         \/ at = "result" /\ kind = "cancel"
  PROVE  Owned'
<1>1. /\ at' = "returned" /\ ret' # "OK" /\ locals' = {}
      /\ heap' = heap \ locals /\ amiss' = (amiss \/ ~(locals \subseteq heap))
      /\ UNCHANGED <<kind, parts, given, box>>
  BY DEF Fail, Free, ErrorLabel, Leave, boxVars
<1>2. locals \subseteq heap /\ heap \ locals = ProtoOwns
  <2>1. CASE at \in Chunks \cup {"_answer", "_error", "decoding"}
    BY <2>1 DEF Owned, BuildsMessage, ProtoOwns, Chunks, Kinds
  <2>2. CASE at = "box"
    BY <2>2 DEF Owned, Quiet, ProtoOwns
  <2>3. CASE at = "result" /\ kind = "cancel"
    BY <2>3 DEF Owned, Quiet
  <2> QED BY <2>1, <2>2, <2>3
<1>3. heap' = ProtoOwns' /\ ~amiss'
  BY <1>1, <1>2 DEF Owned, ProtoOwns
<1> QED BY <1>1, <1>3 DEF Owned, BuildsMessage, Pieces, HandsMessage, Replies, Quiet, UserHas,
                          ReplyStages, Chunks

\* a chunk, an object or a piece of the reply that was not there before
LEMMA MallocFresh ==
  ASSUME NEW o, Malloc(o), o \notin heap, ~amiss
  PROVE  heap' = heap \cup {o} /\ ~amiss'
  BY DEF Malloc

LEMMA ArriveOwned ==
  ASSUME Owned, Listening, NEW ks \in Boxes, NEW f, NEW t, Arrive(ks, f, t)
  PROVE  Owned'
<1>1. /\ at = "idle" /\ box /\ at' = "box"
      /\ UNCHANGED <<heap, locals, parts, given, amiss, box>>
  BY DEF Listening, Arrive, objectVars
<1>2. kind' \in Kinds \cup {"none"} /\ kind' = KindOf(keys)'
  BY DEF Arrive, KindOf, Kinds
<1>3. heap = {"box"} /\ locals = {}
  BY <1>1 DEF Owned, Quiet, ProtoOwns
<1> QED BY <1>1, <1>2, <1>3 DEF Owned, BuildsMessage, Pieces, HandsMessage, Replies, Quiet, UserHas,
                                ReplyStages, Chunks

LEMMA NewMessageOwned == ASSUME Owned, NewMessage PROVE Owned'
<1>1. /\ at = "box" /\ kind # "none" /\ Malloc(kind) /\ locals' = {kind} /\ at' = FirstKey[kind]
      /\ UNCHANGED <<kind, keys, parts, given, box>>
  BY DEF NewMessage, boxVars
<1>2. kind \in Kinds /\ kind = KindOf(keys) /\ box /\ heap = {"box"} /\ ~amiss
  BY <1>1 DEF Owned, Quiet
<1>3. heap' = {"box", kind} /\ ~amiss'
  BY <1>1, <1>2, MallocFresh DEF Kinds
<1>4. \/ kind = "request" /\ at' = "_command" /\ "_command" \in keys
      \/ kind = "response" /\ at' = "_answer"
      \/ kind = "error" /\ at' = "_error"
  BY <1>1, <1>2 DEF Kinds, FirstKey, KindOf
<1> QED BY <1>1, <1>2, <1>3, <1>4 DEF Owned, BuildsMessage, Pieces, HandsMessage, Replies, Quiet, UserHas,
                                      ReplyStages, Chunks, Kinds

\* after a chunk, or without an optional one
LEMMA ChunkOwned ==
  ASSUME Owned, at \in Chunks, at' = After[at], UNCHANGED <<kind, parts, given, box>>,
         \/ UNCHANGED <<heap, locals, amiss>> /\ at # "_command"
         \/ Malloc(at) /\ locals' = locals \cup {at}
  PROVE  Owned'
<1>1. /\ box /\ kind \in Kinds /\ kind \in locals /\ locals \subseteq {kind} \cup Chunks
      /\ heap = {"box"} \cup locals /\ ~amiss
  BY DEF Owned, BuildsMessage
<1>2. at \notin heap
  BY <1>1 DEF Owned, Pieces, Chunks, Kinds
<1>3. heap' = {"box"} \cup locals' /\ ~amiss'
  BY <1>1, <1>2, MallocFresh
<1>4. /\ kind' \in locals' /\ locals' \subseteq {kind'} \cup Chunks /\ locals' \subseteq locals \cup {at}
  BY <1>1
<1>5. \/ at = "_command" /\ at' = "_ask" /\ kind = "request" /\ locals' = {"request", "_command"}
      \/ at = "_error_code" /\ at' = "_error_description" /\ kind = "error"
           /\ locals' \subseteq {"error", "_error_code"}
      \/ at' = "built"
  BY DEF Owned, Pieces, Chunks, After
<1> QED BY <1>1, <1>3, <1>4, <1>5 DEF Owned, BuildsMessage, Pieces, HandsMessage, Replies, Quiet,
                                      UserHas, ReplyStages, Chunks

LEMMA DecodingOwned ==
  ASSUME Owned, UNCHANGED <<boxVars, objectVars, box>>,
         \/ at \in {"_answer", "_error"} /\ at' = "decoding"
         \/ at = "decoding" /\ at' = IF kind = "error" THEN "_error_code" ELSE "built"
  PROVE  Owned'
<1>1. UNCHANGED <<kind, heap, locals, parts, given, amiss, box>>
  BY DEF boxVars, objectVars
<1>2. /\ box /\ kind \in {"response", "error"} /\ locals = {kind} /\ heap = {"box"} \cup locals
  BY DEF Owned, Pieces, BuildsMessage
<1>3. \/ at' = "decoding"
      \/ at' = "_error_code" /\ kind = "error"
      \/ at' = "built"
  OBVIOUS
<1>4. CASE at' = "decoding"
  <2>1. BuildsMessage' /\ Pieces'
    BY <1>1, <1>2, <1>4 DEF Kinds, BuildsMessage, Pieces
  <2>2. HandsMessage' /\ Replies' /\ Quiet' /\ UserHas'
    BY <1>4 DEF HandsMessage, Replies, Quiet, UserHas, ReplyStages
  <2> QED BY <1>1, <1>4, <2>1, <2>2 DEF Owned
<1>5. CASE at' = "_error_code" /\ kind = "error"
  BY <1>1, <1>2, <1>5 DEF Kinds, Owned, BuildsMessage, Pieces, HandsMessage, Replies, Quiet, UserHas,
                          ReplyStages, Chunks
<1>6. CASE at' = "built"
  BY <1>1, <1>2, <1>6 DEF Kinds, Owned, BuildsMessage, Pieces, HandsMessage, Replies, Quiet, UserHas,
                          ReplyStages, Chunks
<1> QED BY <1>3, <1>4, <1>5, <1>6

LEMMA BuiltOwned == ASSUME Owned, Built PROVE Owned'
<1> DEFINE fields == (locals \ {kind}) \cup (IF kind = "error" THEN {} ELSE {"box"})
<1>1. /\ at = "built" /\ at' = "lookup" /\ parts' = [parts EXCEPT ![kind] = fields]
      /\ locals' = {} /\ given' = kind /\ kind' = kind /\ box' = FALSE
      /\ Free(IF kind = "error" THEN {"box"} ELSE {})
  BY DEF Built, boxVars
<1>2. /\ kind \in Kinds /\ kind \in locals /\ locals \subseteq {kind} \cup Chunks
      /\ heap = {"box"} \cup locals /\ ~amiss /\ "box" \notin locals
  BY <1>1 DEF Owned, BuildsMessage, Chunks, Kinds
<1>3. kind \in Objects /\ parts \in [Objects -> SUBSET Names] /\ fields \in SUBSET Names
  BY <1>2 DEF Owned, Kinds, Objects, Names
<1>4. /\ parts' \in [Objects -> SUBSET Names] /\ parts'[kind] = fields
      /\ fields \subseteq Chunks \cup {"box"}
  <2>1. fields \subseteq Chunks \cup {"box"}
    BY <1>2
  <2> HIDE DEF fields
  <2> QED BY <1>1, <1>3, <2>1
<1>5. heap' = {kind} \cup fields /\ ~amiss'
  BY <1>1, <1>2 DEF Free
<1> HIDE DEF fields
<1> QED BY <1>1, <1>2, <1>4, <1>5 DEF Owned, BuildsMessage, Pieces, HandsMessage, Replies, Quiet,
                                      UserHas, ReplyStages, Chunks

-----------------------------------------------------------------------------
\* whoever frees a message frees all of it; nothing else is left but proto->box
LEMMA FreeMessageOwned ==
  ASSUME Owned, NEW o \in Objects, NEW code, FreeMessage(o, code),
         locals \cup Tree(o) \subseteq heap,
         heap \ (locals \cup Tree(o)) = ProtoOwns,
         kind # "cancel" /\ code = "OK" => ~box
  PROVE  Owned'
<1>1. /\ at' = "returned" /\ ret' = code /\ locals' = {}
      /\ heap' = ProtoOwns /\ ~amiss'
      /\ UNCHANGED <<kind, parts, box>>
  BY DEF FreeMessage, Free, Leave, boxVars, Owned
<1> QED BY <1>1 DEF Owned, BuildsMessage, Pieces, HandsMessage, Replies, Quiet, UserHas,
                    ReplyStages, Chunks, ProtoOwns

\* what is there between the building of a message and user code
LEMMA Held ==
  ASSUME Owned, at \in {"lookup", "result"} \cup ReplyStages, kind # "cancel"
  PROVE  /\ ~box /\ kind \in Kinds /\ kind \in Objects
         /\ Tree(kind) = {kind} \cup parts[kind]
         /\ parts[kind] \subseteq Chunks \cup {"box"}
         /\ heap = {kind} \cup parts[kind] \cup locals
<1>1. /\ ~box /\ kind \in Kinds /\ kind \in Objects
      /\ parts[kind] \subseteq Chunks \cup {"box"}
      /\ heap = {kind} \cup parts[kind] \cup locals
  BY DEF Owned, HandsMessage, Kinds, Objects
<1> QED BY <1>1, SmallTree

LEMMA LostOwned ==
  ASSUME Owned, at \in {"lookup", "result"} \cup ReplyStages, kind # "cancel",
         NEW code, FreeMessage(kind, code)
  PROVE  Owned'
<1>1. locals \cup Tree(kind) \subseteq heap /\ heap \ (locals \cup Tree(kind)) = ProtoOwns
  BY Held DEF ProtoOwns
<1> QED BY <1>1, Held, FreeMessageOwned

\* a request goes to its responder
LEMMA ResponderFoundOwned == ASSUME Owned, ResponderFound PROVE Owned'
<1>1. /\ at = "lookup" /\ at' = "user" /\ kind = "request"
      /\ UNCHANGED <<kind, heap, locals, parts, given, amiss, box>>
  BY DEF ResponderFound, boxVars, objectVars
<1>2. locals = {} /\ given = kind
  BY <1>1 DEF Owned, Quiet, HandsMessage
<1>3. Tree(given)' = Tree(given)
  BY <1>1 DEF Tree
<1>4. heap = Tree(given) \cup ProtoOwns
  BY <1>1, <1>2, Held DEF ProtoOwns
<1> QED BY <1>1, <1>2, <1>3, <1>4, Held DEF Owned, BuildsMessage, Pieces, HandsMessage, Replies, Quiet,
                                            UserHas, ReplyStages, Chunks, ProtoOwns

LEMMA NoResponderOwned == ASSUME Owned, NoResponder PROVE Owned'
<1>1. CASE FreeMessage(kind, "OK")
  BY <1>1, LostOwned DEF NoResponder
<1>2. CASE at' = "reply" /\ UNCHANGED <<boxVars, objectVars, box, error, ret>>
  <2>1. /\ at = "lookup" /\ kind = "request"
        /\ UNCHANGED <<kind, heap, locals, parts, given, amiss, box>>
    BY <1>2 DEF NoResponder, boxVars, objectVars
  <2>2. locals = {}
    BY <2>1 DEF Owned, Quiet
  <2> QED BY <1>2, <2>1, <2>2, Held DEF Owned, BuildsMessage, Pieces, HandsMessage, Replies, Quiet,
                                      UserHas, ReplyStages, Chunks
<1> QED BY <1>1, <1>2 DEF NoResponder

LEMMA ReplyStepOwned == ASSUME Owned, ReplyStep PROVE Owned'
<1>1. /\ Replying /\ at' = NextStage[at]
      /\ UNCHANGED <<kind, parts, given, box>>
  BY DEF ReplyStep, boxVars
<1>2. at \in ReplyStages /\ kind = "request"
  BY <1>1 DEF Replying, Owned, Replies
<1>3. /\ ~box /\ parts[kind] \subseteq Chunks \cup {"box"} /\ ~amiss
      /\ heap = {kind} \cup parts[kind] \cup locals
  BY <1>2, Held DEF Owned
<1>4. CASE at \in {"reply", "buf", "packet"}
  <2>1. Malloc(at) /\ locals' = locals \cup {at}
    BY <1>4 DEF ReplyStep
  <2>2. at \notin heap
    BY <1>2, <1>3, <1>4 DEF Owned, Replies, Chunks
  <2>3. heap' = heap \cup {at} /\ ~amiss'
    BY <1>3, <2>1, <2>2, MallocFresh
  <2>4. /\ at' \in ReplyStages
        /\ at' = "_error put" => locals' = {"reply"}
        /\ at' \in {"descr put"} => locals' = {"reply", "buf"}
        /\ at' = "write" => locals' = {"reply", "buf", "packet"}
        /\ at' \in {"_error put", "descr put", "write"}
    BY <1>1, <1>2, <1>4, <2>1 DEF NextStage, ReplyStages, Owned, Replies
  <2> QED BY <1>1, <1>2, <1>3, <2>1, <2>3, <2>4, ZenonT(120) DEF Owned, BuildsMessage, Pieces, HandsMessage, Replies,
                                       Quiet, UserHas, ReplyStages, Chunks, Kinds
<1>5. CASE at \notin {"reply", "buf", "packet"}
  <2>1. UNCHANGED <<heap, locals, amiss>>
    BY <1>5 DEF ReplyStep
  <2>2. \/ at' = "buf" /\ locals' = {"reply"}
        \/ at' = "packet" /\ locals' = {"reply", "buf"}
    BY <1>1, <1>2, <1>5, <2>1 DEF Replying, NextStage, ReplyStages, Owned, Replies
  <2> QED BY <1>1, <1>2, <1>3, <2>1, <2>2 DEF Owned, BuildsMessage, Pieces, HandsMessage, Replies,
                                       Quiet, UserHas, ReplyStages, Chunks, Kinds
<1> QED BY <1>4, <1>5

LEMMA ReplyEndsOwned ==
  ASSUME Owned, at \in ReplyStages, NEW code, FreeMessage("request", code)
  PROVE  Owned'
<1>1. kind = "request"
  BY DEF Owned, Replies
<1> QED BY <1>1, LostOwned

LEMMA CallbackFoundOwned == ASSUME Owned, CallbackFound PROVE Owned'
<1>1. /\ at = "lookup" /\ at' = "result" /\ kind \in {"response", "error"}
      /\ UNCHANGED <<kind, heap, locals, parts, given, amiss, box>>
  BY DEF CallbackFound, boxVars, objectVars
<1>2. locals = {}
  BY <1>1 DEF Owned, Quiet
<1> QED BY <1>1, <1>2, Held DEF Owned, BuildsMessage, Pieces, HandsMessage, Replies, Quiet, UserHas,
                                ReplyStages, Chunks

LEMMA CancelOwned == ASSUME Owned, Cancel PROVE Owned'
<1>1. /\ at = "idle" /\ at' = "result" /\ kind' = "cancel"
      /\ UNCHANGED <<heap, locals, parts, given, amiss, box>>
  BY DEF Cancel, objectVars
<1>2. heap = ProtoOwns /\ locals = {}
  BY <1>1 DEF Owned, Quiet
<1> QED BY <1>1, <1>2 DEF Owned, BuildsMessage, Pieces, HandsMessage, Replies, Quiet, UserHas,
                          ReplyStages, Chunks, ProtoOwns

\* a result owns its response or its error, and what hangs from that
LEMMA NewResultOwned == ASSUME Owned, NewResult PROVE Owned'
<1>1. /\ at = "result" /\ at' = "user" /\ Malloc("result") /\ given' = "result"
      /\ parts' = [parts EXCEPT !["result"] = ResultParts]
      /\ UNCHANGED <<kind, locals, box>>
  BY DEF NewResult, boxVars
<1>2. locals = {} /\ parts \in [Objects -> SUBSET Names] /\ ~amiss
  BY <1>1 DEF Owned, Quiet
<1>3. ResultParts \in SUBSET Names /\ "result" \in Objects
  <2>1. CASE kind = "cancel"
    BY <2>1 DEF ResultParts, Objects
  <2>2. CASE kind # "cancel"
    BY <1>1, <2>2, Held DEF ResultParts, Objects, Names
  <2> QED BY <2>1, <2>2
<1>4. /\ parts' \in [Objects -> SUBSET Names] /\ parts'["result"] = ResultParts
      /\ \A o \in Objects \ {"result"} : parts'[o] = parts[o]
  <2> HIDE DEF ResultParts
  <2> QED BY <1>1, <1>2, <1>3
<1>5. CASE kind = "cancel"
  <2>1. Tree("result")' = {"result"}
    BY <1>4, <1>5 DEF Tree, ResultParts
  <2>2. heap = ProtoOwns
    BY <1>1, <1>5 DEF Owned, Quiet
  <2>3. heap' = Tree(given)' \cup ProtoOwns' /\ ~amiss' /\ "box" \notin Tree(given)'
    BY <1>1, <1>2, <2>1, <2>2, MallocFresh DEF ProtoOwns, Tree
  <2> QED BY <1>1, <1>2, <1>3, <1>4, <1>5, <2>3 DEF Owned, BuildsMessage, Pieces, HandsMessage, Replies,
                                                   Quiet, UserHas, ReplyStages, Chunks
<1>6. CASE kind # "cancel"
  <2>1. /\ ~box /\ kind \in Kinds /\ kind \in Objects \ {"result"}
        /\ parts[kind] \subseteq Chunks \cup {"box"} /\ heap = {kind} \cup parts[kind]
    BY <1>1, <1>2, <1>6, Held DEF Kinds
  <2>2. Tree("result")' = {"result", kind} \cup parts[kind]
    BY <1>4, <1>6, <2>1 DEF Tree, ResultParts
  <2>3. "result" \notin heap
    BY <2>1 DEF Chunks, Kinds
  <2>4. heap' = Tree(given)' \cup ProtoOwns' /\ ~amiss' /\ ~box'
    BY <1>1, <1>2, <2>1, <2>2, <2>3, MallocFresh DEF ProtoOwns, Tree
  <2> QED BY <1>1, <1>2, <1>3, <1>4, <2>4 DEF Owned, BuildsMessage, Pieces, HandsMessage, Replies,
                                             Quiet, UserHas, ReplyStages, Chunks
<1> QED BY <1>5, <1>6

LEMMA NewResultOomOwned == ASSUME Owned, NewResultOom PROVE Owned'
<1>1. CASE kind = "cancel"
  BY <1>1, FailOwned DEF NewResultOom
<1>2. CASE kind # "cancel"
  BY <1>2, LostOwned DEF NewResultOom
<1> QED BY <1>1, <1>2

LEMMA UserFreesArgsOwned == ASSUME Owned, UserFreesArgs PROVE Owned'
<1>1. /\ at = "user" /\ given = "request" /\ "box" \in parts["request"] /\ Free({"box"})
      /\ parts' = [parts EXCEPT !["request"] = @ \ {"box"}]
      /\ UNCHANGED <<at, kind, locals, given, box>>
  BY DEF UserFreesArgs, boxVars
<1>2. /\ parts \in [Objects -> SUBSET Names] /\ "request" \in Objects /\ ~amiss
      /\ parts["request"] \subseteq Chunks \cup {"box"} /\ heap = Tree("request") \cup ProtoOwns
      /\ box => "box" \notin Tree("request")
  BY <1>1 DEF Owned, UserHas
<1>3. /\ parts' \in [Objects -> SUBSET Names] /\ parts'["request"] = parts["request"] \ {"box"}
      /\ parts'["request"] \subseteq Chunks \cup {"box"}
  <2>1. parts' = [parts EXCEPT !["request"] = parts["request"] \ {"box"}]
    BY <1>1, <1>2
  <2>2. parts["request"] \ {"box"} \in SUBSET Names
    BY <1>2
  <2> QED BY <1>2, <2>1, <2>2
<1>4. Tree("request") = {"request"} \cup parts["request"]
  BY <1>2, SmallTree
<1>5. parts'["request"] \cap Objects = {}
  BY <1>3 DEF Chunks, Objects
<1>6. Tree("request")' = {"request"} \cup (parts["request"] \ {"box"})
  BY <1>3, <1>5 DEF Tree
<1>7. ~box
  BY <1>1, <1>2, <1>4
<1>8. heap' = Tree(given)' \cup ProtoOwns' /\ ~amiss'
  BY <1>1, <1>2, <1>4, <1>6, <1>7 DEF Free, ProtoOwns, Tree
<1> QED BY <1>1, <1>2, <1>3, <1>7, <1>8 DEF Owned, BuildsMessage, Pieces, HandsMessage, Replies, Quiet,
                                            UserHas, ReplyStages, Chunks

LEMMA UserReturnsOwned == ASSUME Owned, UserReturns PROVE Owned'
<1>1. /\ at = "user" /\ FreeMessage(given, "OK") /\ locals = {} /\ given \in Objects
      /\ heap = Tree(given) \cup ProtoOwns /\ (box => kind = "cancel" /\ "box" \notin Tree(given))
  BY DEF UserReturns, Owned, Quiet, UserHas
<1>2. /\ locals \cup Tree(given) \subseteq heap
      /\ heap \ (locals \cup Tree(given)) = ProtoOwns
  BY <1>1 DEF ProtoOwns
<1> QED BY <1>1, <1>2, FreeMessageOwned

\* back in amp_consume_bytes or amp_cancel, all but proto->box is gone
LEMMA ClearOwned ==
  ASSUME Owned, Clear, heap' = ProtoOwns', ~amiss', box' \in BOOLEAN
  PROVE  Owned'
<1>1. /\ at' = "idle" /\ kind' = "none" /\ parts' = Fields0 /\ locals' = {}
  BY DEF Clear
<1>2. parts' \in [Objects -> SUBSET Names]
  BY <1>1 DEF Fields0
<1> QED BY <1>1, <1>2 DEF Owned, BuildsMessage, Pieces, HandsMessage, Replies, Quiet, UserHas,
                          ReplyStages, Chunks

LEMMA ResumeOwned == ASSUME Owned, Resume PROVE Owned'
<1>1. at = "returned" /\ heap = ProtoOwns /\ ~amiss /\ box \in BOOLEAN
  BY DEF Resume, NextBox, BecomesFatal, CancelReturns, Owned, Quiet
<1>2. CASE NextBox
  <2>1. heap = {}
    BY <1>1, <1>2 DEF NextBox, Owned, Quiet, ProtoOwns
  <2>2. heap' = ProtoOwns' /\ ~amiss' /\ box' \in BOOLEAN
    <3>1. CASE Malloc("box") /\ box' = TRUE
      <4>1. heap' = {"box"} /\ ~amiss'
        BY <1>1, <2>1, <3>1, MallocFresh
      <4> QED BY <3>1, <4>1 DEF ProtoOwns
    <3>2. CASE box' = FALSE /\ UNCHANGED <<heap, amiss>>
      BY <1>1, <2>1, <3>2 DEF ProtoOwns
    <3> QED BY <1>2, <3>1, <3>2 DEF NextBox, NewBox
  <2> QED BY <1>2, <2>2, ClearOwned DEF NextBox
<1>3. CASE BecomesFatal
  <2>1. heap' = ProtoOwns' /\ ~amiss' /\ box' \in BOOLEAN
    BY <1>1, <1>3 DEF BecomesFatal, ProtoOwns
  <2> QED BY <1>3, <2>1, ClearOwned DEF BecomesFatal
<1>4. CASE CancelReturns
  <2>1. heap' = ProtoOwns' /\ ~amiss' /\ box' \in BOOLEAN
    BY <1>1, <1>4 DEF CancelReturns, ProtoOwns
  <2> QED BY <1>4, <2>1, ClearOwned DEF CancelReturns
<1> QED BY <1>2, <1>3, <1>4 DEF Resume

LEMMA ResetOwned == ASSUME Owned, Reset PROVE Owned'
<1>1. /\ at = "idle" /\ box' \in BOOLEAN
      /\ amiss' = (amiss \/ ~(ProtoOwns \subseteq heap))
      /\ heap' = (heap \ ProtoOwns) \cup ProtoOwns'
      /\ UNCHANGED <<at, kind, locals, parts, given, ret>>
  BY DEF Reset, boxVars
<1>2. heap = ProtoOwns /\ ~amiss /\ locals = {}
  BY <1>1 DEF Owned, Quiet
<1>3. heap' = ProtoOwns' /\ ~amiss'
  BY <1>1, <1>2
<1> QED BY <1>1, <1>2, <1>3 DEF Owned, BuildsMessage, Pieces, HandsMessage, Replies, Quiet, UserHas,
                                ReplyStages, Chunks

LEMMA NotAMessageOwned == ASSUME Owned, NotAMessage PROVE Owned'
<1>1. /\ at = "box" /\ at' = "returned" /\ ret' # "OK"
      /\ UNCHANGED <<kind, heap, locals, parts, given, amiss, box>>
  BY DEF NotAMessage, Leave, boxVars, objectVars
<1>2. box /\ heap = ProtoOwns /\ locals = {}
  BY <1>1 DEF Owned, Quiet, ProtoOwns
<1>3. heap' = ProtoOwns'
  BY <1>1, <1>2 DEF ProtoOwns
<1> QED BY <1>1, <1>2, <1>3 DEF Owned, BuildsMessage, Pieces, HandsMessage, Replies, Quiet, UserHas,
                                ReplyStages, Chunks

-----------------------------------------------------------------------------
LEMMA BuildOwned == ASSUME Owned, Build PROVE Owned'
<1>1. CASE NotAMessage
  BY <1>1, NotAMessageOwned
<1>2. CASE NewMessage
  BY <1>2, NewMessageOwned
<1>3. CASE NewMessageOom
  BY <1>3, FailOwned DEF NewMessageOom
<1>4. CASE CopyChunk
  BY <1>4, ChunkOwned DEF CopyChunk, boxVars
<1>5. CASE CopyChunkFails
  <2>1. PICK code \in {"get_fail_code", "ENOMEM"} : Fail(code)
    BY <1>5 DEF CopyChunkFails
  <2> QED BY <1>5, <2>1, FailOwned DEF CopyChunkFails
<1>6. CASE NoSuchKey
  <2>1. at # "_command"
    BY <1>6 DEF NoSuchKey, Owned, Pieces
  <2> QED BY <1>6, <2>1, ChunkOwned DEF NoSuchKey, boxVars, objectVars
<1>7. CASE DecodeKey
  BY <1>7, DecodingOwned DEF DecodeKey
<1>8. CASE Decoding
  <2>1. UNCHANGED <<at, kind, keys, heap, locals, parts, given, amiss, box, ret>>
    BY <1>8 DEF Decoding, msgVars, boxVars, objectVars
  <2> QED BY <2>1, UnchangedOwned
<1>9. CASE Decoded
  BY <1>9, DecodingOwned DEF Decoded
<1>10. CASE DecodeFails
  <2>1. \/ at = "decoding" /\ err # "OK" /\ Fail(err)
        \/ at \in {"_answer", "_error"} /\ Fail("get_fail_code")
    BY <1>10 DEF DecodeFails
  <2> QED BY <2>1, FailOwned
<1>11. CASE Built
  BY <1>11, BuiltOwned
<1> QED BY <1>1, <1>2, <1>3, <1>4, <1>5, <1>6, <1>7, <1>8, <1>9, <1>10, <1>11 DEF Build

LEMMA HandOwned == ASSUME Owned, Hand PROVE Owned'
<1>1. CASE ResponderFound
  BY <1>1, ResponderFoundOwned
<1>2. CASE NoResponder
  BY <1>2, NoResponderOwned
<1>3. CASE ReplyStep
  BY <1>3, ReplyStepOwned
<1>4. CASE ReplyFails
  BY <1>4, ReplyEndsOwned DEF ReplyFails, Replying
<1>5. CASE ReplyWritten
  BY <1>5, ReplyEndsOwned DEF ReplyWritten, ReplyStages
<1>6. CASE UnknownKey
  BY <1>6, LostOwned DEF UnknownKey
<1>7. CASE CallbackFound
  BY <1>7, CallbackFoundOwned
<1>8. CASE NewResult
  BY <1>8, NewResultOwned
<1>9. CASE NewResultOom
  BY <1>9, NewResultOomOwned
<1>10. CASE UserFreesArgs
  BY <1>10, UserFreesArgsOwned
<1>11. CASE UserReturns
  BY <1>11, UserReturnsOwned
<1> QED BY <1>1, <1>2, <1>3, <1>4, <1>5, <1>6, <1>7, <1>8, <1>9, <1>10, <1>11 DEF Hand

LEMMA NextOwned == Owned /\ [MessageNext]_<<vars, msgVars>> => Owned'
<1> SUFFICES ASSUME Owned, [MessageNext]_<<vars, msgVars>> PROVE Owned'
  OBVIOUS
<1>1. CASE UNCHANGED msgVars
  <2>1. UNCHANGED <<at, kind, keys, heap, locals, parts, given, amiss, box, ret>>
    BY <1>1 DEF msgVars, boxVars, objectVars
  <2> QED BY <2>1, UnchangedOwned
<1>2. CASE Listening /\ \E ks \in Boxes : \E f \in FailKeys(ks), t \in AskTexts : Arrive(ks, f, t)
  BY <1>2, ArriveOwned
<1>3. CASE Cancel
  BY <1>3, CancelOwned
<1>4. CASE Reset
  BY <1>4, ResetOwned
<1>5. CASE Build
  BY <1>5, BuildOwned
<1>6. CASE Hand
  BY <1>6, HandOwned
<1>7. CASE Resume
  BY <1>7, ResumeOwned
<1> QED BY <1>1, <1>2, <1>3, <1>4, <1>5, <1>6, <1>7 DEF MessageNext

\* Nothing allocated for a box is freed twice, lost or left behind, whatever the
\* peer sends, whatever fails, and however often (the error labels of amp.c)
THEOREM MessagesHaveOneOwner == MessageSpec => []OneOwner
BY InitOwned, NextOwned, OwnedIsEnough, PTL DEF MessageSpec

-----------------------------------------------------------------------------
\* a step on a message is a step on the value of one key, or leaves it alone
LEMMA MessageStep == [MessageNext]_<<vars, msgVars>> => [Next]_vars
<1> SUFFICES ASSUME [MessageNext]_<<vars, msgVars>> PROVE [Next]_vars
  OBVIOUS
<1>1. CASE UserStep
  BY <1>1 DEF UserStep, Next
<1>2. CASE Listening /\ \E ks \in Boxes : \E f \in FailKeys(ks), t \in AskTexts : Arrive(ks, f, t)
  BY <1>2, MessagesAssumption DEF Arrive, Next, Put
<1>3. CASE Build
  BY <1>3 DEF Build, NotAMessage, NewMessage, NewMessageOom, CopyChunk, CopyChunkFails, NoSuchKey,
              DecodeKey, Decoding, Decoded, DecodeFails, Built, Next, Get, Integral
<1>4. CASE Hand
  BY <1>4 DEF Hand, ResponderFound, NoResponder, ReplyStep, ReplyFails, ReplyWritten, UnknownKey,
              CallbackFound, NewResult, NewResultOom, UserFreesArgs, UserReturns
<1>5. CASE Cancel \/ Reset \/ Resume
  BY <1>5 DEF Cancel, Reset, Resume, NextBox, BecomesFatal, CancelReturns, Forget, Next
<1> QED BY <1>1, <1>2, <1>3, <1>4, <1>5 DEF MessageNext

LEMMA MessagesUseTypes == MessageSpec => Spec
<1>1. MessageInit => Init
  BY DEF MessageInit
<1> QED BY <1>1, MessageStep, PTL DEF MessageSpec, Spec

\* The accumulator of buftoll never overflows on an ask key either, whatever a
\* peer puts there (amp.c reads it with amp_get_uint and amp_get_int)
THEOREM AskKeysDoNotOverflow == MessageSpec => [](NoOverflow /\ DateTimeIsValid)
BY MessagesUseTypes, TypesCorrect

\* Nor is an ask key ever mistaken for another: a reply is looked up under the
\* number its text means, or refused (amp_get_uint and amp_get_int in amp.c)
THEOREM AskKeysAreExact == MessageSpec => []DecodedExactly
BY MessagesUseTypes, IntegersAreExact

-----------------------------------------------------------------------------
(* The types of what a message is made of *)

Shaped ==
  /\ kind \in Kinds \cup {"none", "cancel"}
  /\ keys \subseteq AmpKeys \cup {"other"} /\ get_fail_key \in AmpKeys \cup {"none"}
  /\ heap \subseteq Names /\ locals \subseteq heap
  /\ parts \in [Objects -> SUBSET (Chunks \cup Objects \cup {"box"})]
  /\ given \in Objects \cup {"none"}
  /\ error \in BOOLEAN

LEMMA InitShaped == MessageInit => Shaped
BY DEF MessageInit, Shaped, Fields0, Names

LEMMA UnchangedShaped ==
  ASSUME Shaped, UNCHANGED <<kind, keys, get_fail_key, heap, locals, parts, given, error>>
  PROVE  Shaped'
BY DEF Shaped

LEMMA FailShaped == ASSUME Shaped, NEW code, Fail(code) PROVE Shaped'
BY DEF Shaped, Fail, Free, ErrorLabel, boxVars

LEMMA FreeMessageShaped == ASSUME Shaped, NEW o, NEW code, FreeMessage(o, code) PROVE Shaped'
BY DEF Shaped, FreeMessage, Free, boxVars

LEMMA ArriveShaped ==
  ASSUME Shaped, NEW ks \in Boxes, NEW f \in FailKeys(ks), NEW t, Arrive(ks, f, t)
  PROVE  Shaped'
<1>1. kind' \in Kinds \cup {"none"}
  BY DEF Arrive, KindOf, Kinds
<1>2. ks \subseteq AmpKeys \cup {"other"}
  BY DEF Boxes
<1>3. f \in AmpKeys \cup {"none"}
  BY DEF FailKeys
<1> QED BY <1>1, <1>2, <1>3 DEF Shaped, Arrive, objectVars

LEMMA BuildShaped == ASSUME Owned, Shaped, Build PROVE Shaped'
<1>1. CASE NotAMessage \/ NoSuchKey \/ DecodeKey \/ Decoding \/ Decoded
  BY <1>1, UnchangedShaped DEF NotAMessage, NoSuchKey, DecodeKey, Decoding, Decoded, msgVars,
                               boxVars, objectVars
<1>2. CASE NewMessage
  <2>1. kind \in Kinds
    BY <1>2 DEF NewMessage, Owned, Quiet
  <2>2. kind \in Names
    BY <2>1 DEF Kinds, Names, Objects
  <2> QED BY <1>2, <2>2 DEF NewMessage, Malloc, Shaped, boxVars
<1>3. CASE NewMessageOom \/ CopyChunkFails \/ DecodeFails
  BY <1>3, FailShaped DEF NewMessageOom, CopyChunkFails, DecodeFails
<1>4. CASE CopyChunk
  BY <1>4 DEF CopyChunk, Malloc, Shaped, boxVars, Names
<1>5. CASE Built
  <2>1. kind \in Kinds /\ locals \subseteq {kind} \cup Chunks
    BY <1>5 DEF Built, Owned, BuildsMessage
  <2>2. kind \in Objects
    BY <2>1 DEF Kinds, Objects
  <2>3. (locals \ {kind}) \cup (IF kind = "error" THEN {} ELSE {"box"})
          \in SUBSET (Chunks \cup Objects \cup {"box"})
    BY <2>1
  <2>4. parts' \in [Objects -> SUBSET (Chunks \cup Objects \cup {"box"})]
    BY <1>5, <2>2, <2>3 DEF Built, Shaped
  <2> QED BY <1>5, <2>2, <2>4 DEF Built, Free, Shaped, boxVars
<1> QED BY <1>1, <1>2, <1>3, <1>4, <1>5 DEF Build

LEMMA HandShaped == ASSUME Owned, Shaped, Hand PROVE Shaped'
<1>1. CASE ResponderFound \/ CallbackFound
  BY <1>1, UnchangedShaped DEF ResponderFound, CallbackFound, boxVars, objectVars
<1>2. CASE NoResponder \/ ReplyFails \/ ReplyWritten \/ UnknownKey \/ NewResultOom \/ UserReturns
  BY <1>2, FreeMessageShaped, FailShaped, UnchangedShaped
     DEF NoResponder, ReplyFails, ReplyWritten, UnknownKey, NewResultOom, UserReturns, boxVars,
         objectVars
<1>3. CASE ReplyStep
  BY <1>3 DEF ReplyStep, Malloc, Shaped, boxVars, Names
<1>4. CASE NewResult
  <2>1. kind = "cancel" \/ kind \in Kinds
    BY <1>4 DEF NewResult, Owned, HandsMessage
  <2>2. ResultParts \in SUBSET (Chunks \cup Objects \cup {"box"})
    BY <2>1 DEF ResultParts, Kinds, Objects
  <2>3. parts' \in [Objects -> SUBSET (Chunks \cup Objects \cup {"box"})]
    BY <1>4, <2>2 DEF NewResult, Shaped
  <2> QED BY <1>4, <2>3 DEF NewResult, Malloc, Shaped, boxVars, Names, Objects
<1>5. CASE UserFreesArgs
  <2>1. locals = {}
    BY <1>5 DEF UserFreesArgs, Owned, Quiet
  <2>2. parts' \in [Objects -> SUBSET (Chunks \cup Objects \cup {"box"})]
    BY <1>5 DEF UserFreesArgs, Shaped
  <2> QED BY <1>5, <2>1, <2>2 DEF UserFreesArgs, Free, Shaped, boxVars
<1> QED BY <1>1, <1>2, <1>3, <1>4, <1>5 DEF Hand

LEMMA NextShaped ==
  ASSUME Owned, Shaped, [MessageNext]_<<vars, msgVars>>
  PROVE  Shaped'
<1>1. CASE UNCHANGED msgVars
  BY <1>1, UnchangedShaped DEF msgVars, boxVars, objectVars
<1>2. CASE Listening /\ \E ks \in Boxes : \E f \in FailKeys(ks), t \in AskTexts : Arrive(ks, f, t)
  BY <1>2, ArriveShaped
<1>3. CASE Cancel
  BY <1>3 DEF Cancel, Shaped, objectVars
<1>4. CASE Reset
  <2>1. locals = {}
    BY <1>4 DEF Reset, Owned, Quiet
  <2>2. ProtoOwns' \subseteq Names
    BY DEF ProtoOwns, Names
  <2> QED BY <1>4, <2>1, <2>2 DEF Reset, Shaped, boxVars
<1>5. CASE Build
  BY <1>5, BuildShaped
<1>6. CASE Hand
  BY <1>6, HandShaped
<1>7. CASE Resume
  <2>1. Clear /\ error' \in BOOLEAN /\ heap' \subseteq heap \cup {"box"}
    BY <1>7 DEF Resume, NextBox, NewBox, Malloc, BecomesFatal, CancelReturns, Shaped
  <2>2. Fields0 \in [Objects -> SUBSET (Chunks \cup Objects \cup {"box"})]
    BY DEF Fields0
  <2> QED BY <2>1, <2>2 DEF Clear, Shaped, Names
<1> QED BY <1>1, <1>2, <1>3, <1>4, <1>5, <1>6, <1>7 DEF MessageNext

LEMMA AmissBoolean ==
  ASSUME amiss \in BOOLEAN, [MessageNext]_<<vars, msgVars>>
  PROVE  amiss' \in BOOLEAN
<1>1. amiss' = amiss \/ \E P : amiss' = (amiss \/ P)
  BY Zenon DEF MessageNext, Build, Hand, Resume, msgVars, objectVars, Arrive, Cancel, Reset,
    NotAMessage, NewMessage, NewMessageOom, CopyChunk, CopyChunkFails, NoSuchKey, DecodeKey, Decoding,
    Decoded, DecodeFails, Built, ResponderFound, NoResponder, ReplyStep, ReplyFails, ReplyWritten,
    UnknownKey, CallbackFound, NewResult, NewResultOom, UserFreesArgs, UserReturns, NextBox,
    BecomesFatal, CancelReturns, NewBox, Malloc, Free, Fail, FreeMessage
<1> QED BY <1>1, Zenon

\* Every variable keeps its type; what local variables point to is allocated,
\* also where an error label frees it
THEOREM MessagesTyped == MessageSpec => []MessageTypeOK
<1>1. MessageSpec => []TypeOK
  BY MessagesUseTypes, TypesTyped
<1> DEFINE Flag == amiss \in BOOLEAN
<1>2. MessageInit => Owned /\ Shaped /\ Flag
  BY InitOwned, InitShaped DEF MessageInit
<1>3. Owned /\ Shaped /\ Flag /\ [MessageNext]_<<vars, msgVars>> => Owned' /\ Shaped' /\ Flag'
  BY NextOwned, NextShaped, AmissBoolean
<1>4. Owned /\ Shaped /\ Flag /\ TypeOK => MessageTypeOK
  <2> SUFFICES ASSUME Owned, Shaped, Flag, TypeOK PROVE MessageTypeOK
    OBVIOUS
  <2>1. box \in BOOLEAN
    BY Zenon DEF Owned
  <2>2. kind \in {"none", "request", "response", "error", "cancel"}
    BY DEF Shaped, Kinds
  <2> QED BY <2>1, <2>2, Zenon DEF Shaped, MessageTypeOK, Names
<1> HIDE DEF Flag
<1> QED BY <1>1, <1>2, <1>3, <1>4, PTL DEF MessageSpec
=============================================================================
