------------------------------ MODULE Dispatch -------------------------------
(***************************************************************************)
(* The two tables of an AMP_Proto (dispatch.c over table.c): callbacks by   *)
(* ask key and responders by command.  A binding holds two pointers.  Its   *)
(* key points into memory that the table does not own: the ask_key field of *)
(* a callback, or the string that user code passed to amp_add_responder.    *)
(***************************************************************************)
EXTENDS Chains, FiniteSets

CONSTANTS
  NBuckets,     \* 127 in the code
  AskKeys,      \* values of last_ask_key; few, so that they wrap
  Callbacks,    \* addresses of struct _AMP_Callback
  Responders,   \* addresses of struct _AMP_Responder
  Strings,      \* addresses of the command strings of user code
  Text,         \* the command at each of them
  Commands,     \* the commands that requests name
  CommandHash,  \* hash_responder_key of each command
  Absent        \* NULL

Tables == {"callbacks", "responders"}

ASSUME DispatchAssumption ==
  /\ NBuckets \in Nat \ {0}
  /\ AskKeys \subseteq Nat /\ AskKeys # {} /\ Strings # {}
  /\ Text \in [Strings -> Commands] /\ CommandHash \in [Commands -> Nat]
  /\ Callbacks \cap Responders = {}
  /\ Absent \notin Callbacks \cup Responders

VARIABLES
  maps,        \* the tables allocated
  buckets,     \* of each table
  length,      \* of each table
  bindings,    \* struct binding allocated
  heap,        \* callbacks and responders allocated
  ask_key,     \* field of each callback
  command,     \* field of each responder
  fresh,       \* callbacks that amp_call has allocated and not stored
  popped,      \* callbacks taken out, not freed yet: their function may be running
  leaked,      \* history: structures that nothing refers to any more
  strings,     \* the strings alive
  registered,  \* the commands that user code believes are registered
  asked,       \* history: the last operation on a table and its arguments
  done,        \* history: whether it found or stored what it was asked for
  got          \* what it returned to the library

tableVars == <<maps, buckets, length, bindings>>
fields    == <<ask_key, command>>
ownership == <<heap, fresh, popped, leaked>>
userVars  == <<strings, registered>>
vars      == <<tableVars, fields, ownership, userVars, asked, done, got>>

EmptyTable == [i \in 0 .. NBuckets - 1 |-> <<>>]
Structs    == Callbacks \cup Responders
Binding    == [key : Callbacks \cup Strings, value : Structs]

Requests   ==
  LET keys == AskKeys \cup Commands IN
  {<<"other">>} \cup ({"create", "destroy"} \X Tables)
                \cup ({"get", "take", "delete"} \X Tables \X keys)
                \cup ({"put"} \X Tables \X keys \X Structs)

TypeOK ==
  /\ maps \subseteq Tables
  /\ buckets \in [Tables -> [0 .. NBuckets - 1 -> Seq(Binding)]]
  /\ length \in [Tables -> Nat] /\ bindings \in Nat
  /\ heap \subseteq Structs
  /\ ask_key \in [Callbacks -> AskKeys] /\ command \in [Responders -> Strings]
  /\ fresh \subseteq Callbacks /\ popped \subseteq Callbacks
  /\ leaked \subseteq heap
  /\ strings \subseteq Strings /\ registered \subseteq Commands
  /\ asked \in Requests /\ done \in BOOLEAN /\ got \in Structs \cup {Absent}

\* the fields of what is not allocated have no meaning
Init ==
  /\ maps = {} /\ buckets = [t \in Tables |-> EmptyTable]
  /\ length = [t \in Tables |-> 0] /\ bindings = 0
  /\ heap = {} /\ fresh = {} /\ popped = {} /\ leaked = {}
  /\ ask_key = [c \in Callbacks |-> CHOOSE k \in AskKeys : TRUE]
  /\ command = [r \in Responders |-> CHOOSE s \in Strings : TRUE]
  /\ strings = {} /\ registered = {}
  /\ asked = <<"other">> /\ done = TRUE /\ got = Absent

-----------------------------------------------------------------------------
(* table.c *)

Hash(t, k)   == IF t = "callbacks" THEN k ELSE CommandHash[k]
Bucket(t, k) == Hash(t, k) % NBuckets
Chain(t, k)  == buckets[t][Bucket(t, k)]

\* the key that a table reads through the pointer of a binding
KeyAt(t, p) == IF t = "callbacks" THEN ask_key[p] ELSE Text[p]
Seen(t, chain) == [i \in 1 .. Len(chain) |-> [key |-> KeyAt(t, chain[i].key), value |-> chain[i].value]]

Known(t, k)   == Has(Seen(t, Chain(t, k)), k)
Place(t, k)   == At(Seen(t, Chain(t, k)), k)
ValueOf(t, k) == Chain(t, k)[Place(t, k)].value
Find(t, k)    == IF Known(t, k) THEN ValueOf(t, k) ELSE Absent

NumBindings(t) == LET n[i \in 0 .. NBuckets] == IF i = 0 THEN 0 ELSE n[i - 1] + Len(buckets[t][i - 1])
                  IN  n[NBuckets]
ValuesIn(t) == UNION {{buckets[t][n][i].value : i \in 1 .. Len(buckets[t][n])} : n \in 0 .. NBuckets - 1}

Rechain(t, k, chain) == buckets' = [buckets EXCEPT ![t] = [@ EXCEPT ![Bucket(t, k)] = chain]]

\* a known key keeps its binding, and with it the pointer to the key
Bound(t, p, k, v) ==
  IF Known(t, k) THEN [Chain(t, k) EXCEPT ![Place(t, k)].value = v]
                 ELSE <<[key |-> p, value |-> v]>> \o Chain(t, k)

Grown_Never(known) == 0
Grown(known) == IF known THEN 0 ELSE 1

\* Table_put; a binding for a new key may fail to be allocated
TablePut(t, p, k, v) ==
  /\ Rechain(t, k, Bound(t, p, k, v))
  /\ length' = [length EXCEPT ![t] = @ + Grown(Known(t, k))]
  /\ bindings' = IF Known(t, k) THEN bindings ELSE bindings + 1
  /\ UNCHANGED maps

Shrunk_Always(known) == 1
Shrunk(known) == IF known THEN 1 ELSE 0
TableRemove_Head(t, k) ==
  /\ Rechain(t, k, IF Known(t, k) THEN Without(Chain(t, k), 1) ELSE Chain(t, k))
  /\ length' = [length EXCEPT ![t] = @ - Shrunk(Known(t, k))]
  /\ bindings' = IF Known(t, k) THEN bindings - 1 ELSE bindings
  /\ UNCHANGED maps
\* Table_remove
TableRemove(t, k) ==
  /\ Rechain(t, k, IF Known(t, k) THEN Without(Chain(t, k), Place(t, k)) ELSE Chain(t, k))
  /\ length' = [length EXCEPT ![t] = @ - Shrunk(Known(t, k))]
  /\ bindings' = IF Known(t, k) THEN bindings - 1 ELSE bindings
  /\ UNCHANGED maps

Outcome(request, ok, found) == asked' = request /\ done' = ok /\ got' = found

\* Table_new, for _amp_new_callback_map and _amp_new_responder_map
NewMap(t) ==
  /\ t \notin maps /\ maps' = maps \cup {t}
  /\ buckets' = [buckets EXCEPT ![t] = EmptyTable] /\ length' = [length EXCEPT ![t] = 0]
  /\ Outcome(<<"create", t>>, TRUE, Absent)
  /\ UNCHANGED <<bindings, ownership, fields, userVars>>

\* Table_free, for _amp_free_callback_map and _amp_free_responder_map: the
\* values are freed, and whoever registered commands knows that they are gone
FreeMap(t) ==
  /\ t \in maps /\ maps' = maps \ {t}
  /\ buckets' = [buckets EXCEPT ![t] = EmptyTable] /\ length' = [length EXCEPT ![t] = 0]
  /\ IF length[t] > 0 THEN heap' = heap \ ValuesIn(t) /\ bindings' = bindings - NumBindings(t)
                      ELSE UNCHANGED <<heap, bindings>>
  /\ registered' = IF t = "responders" THEN {} ELSE registered
  /\ Outcome(<<"destroy", t>>, TRUE, Absent)
  /\ UNCHANGED <<fields, fresh, popped, leaked, strings>>

-----------------------------------------------------------------------------
(* dispatch.c: callbacks *)

NewCallback(c) ==
  /\ c \in Callbacks \ heap
  /\ heap' = heap \cup {c} /\ fresh' = fresh \cup {c}
  /\ Outcome(<<"other">>, TRUE, Absent)
  /\ UNCHANGED <<tableVars, fields, popped, leaked, userVars>>

Displaced_Freed(t, k) == heap \ {Find(t, k)}
\* nobody frees what Table_put displaces
Displaced(t, k) == heap

PutCallback(c, k) ==
  /\ "callbacks" \in maps /\ c \in fresh
  /\ ask_key' = [ask_key EXCEPT ![c] = k]
  /\ TablePut("callbacks", c, k, c)
  /\ fresh' = fresh \ {c}
  /\ heap' = Displaced("callbacks", k)
  /\ leaked' = leaked \cup ({Find("callbacks", k)} \ {Absent})
  /\ Outcome(<<"put", "callbacks", k, c>>, TRUE, Absent)
  /\ UNCHANGED <<command, popped, userVars>>

PutCallbackOom(c, k) ==
  /\ "callbacks" \in maps /\ c \in fresh /\ ~Known("callbacks", k)
  /\ ask_key' = [ask_key EXCEPT ![c] = k]
  /\ Outcome(<<"put", "callbacks", k, c>>, FALSE, Absent)
  /\ UNCHANGED <<tableVars, command, ownership, userVars>>

PopCallback(k) ==
  /\ "callbacks" \in maps
  /\ Outcome(<<"take", "callbacks", k>>, Known("callbacks", k), Find("callbacks", k))
  /\ TableRemove("callbacks", k)
  /\ popped' = popped \cup ({got'} \ {Absent})
  /\ UNCHANGED <<fields, heap, fresh, leaked, userVars>>

\* after its function has run, or when amp_call backs out
FreeCallback(c) ==
  /\ c \in fresh \cup popped
  /\ heap' = heap \ {c} /\ fresh' = fresh \ {c} /\ popped' = popped \ {c}
  /\ Outcome(<<"other">>, TRUE, Absent)
  /\ UNCHANGED <<tableVars, fields, leaked, userVars>>

-----------------------------------------------------------------------------
(* dispatch.c: responders *)

\* the allocation of the responder succeeds
NewResponder(r, s) ==
  /\ "responders" \in maps /\ r \in Responders \ heap /\ s \in strings
  /\ command' = [command EXCEPT ![r] = s]
  /\ registered' = registered \cup {Text[s]}
  /\ UNCHANGED <<ask_key, fresh, popped, strings>>

AddResponder(r, s) ==
  /\ NewResponder(r, s) /\ Outcome(<<"put", "responders", Text[s], r>>, TRUE, Absent)
  /\ TablePut("responders", s, Text[s], r)
  /\ heap' = Displaced("responders", Text[s]) \cup {r}
  /\ leaked' = leaked \cup ({Find("responders", Text[s])} \ {Absent})

\* the result of Table_put is dropped
AddResponderUnbound(r, s) ==
  /\ NewResponder(r, s) /\ Outcome(<<"put", "responders", Text[s], r>>, FALSE, Absent)
  /\ ~Known("responders", Text[s])
  /\ heap' = heap \cup {r} /\ leaked' = leaked \cup {r}
  /\ UNCHANGED tableVars

GetResponder(w) ==
  /\ "responders" \in maps
  /\ Outcome(<<"get", "responders", w>>, Known("responders", w), Find("responders", w))
  /\ UNCHANGED <<tableVars, fields, ownership, userVars>>

RemoveResponder(s) ==
  /\ "responders" \in maps /\ s \in strings
  /\ TableRemove("responders", Text[s])
  /\ heap' = heap \ {Find("responders", Text[s])}
  /\ registered' = registered \ {Text[s]}
  /\ Outcome(<<"delete", "responders", Text[s]>>, Known("responders", Text[s]), Absent)
  /\ UNCHANGED <<fields, fresh, popped, leaked, strings>>

(* User code keeps every string it has passed for a command until it has    *)
(* removed the command or freed the AMP_Proto, the older ones of a command  *)
(* it has added twice included.                                             *)
NewString(s) ==
  /\ s \in Strings \ strings /\ strings' = strings \cup {s}
  /\ Outcome(<<"other">>, TRUE, Absent)
  /\ UNCHANGED <<tableVars, fields, ownership, registered>>

ReleaseString(s) ==
  /\ s \in strings /\ Text[s] \notin registered
  /\ strings' = strings \ {s}
  /\ Outcome(<<"other">>, TRUE, Absent)
  /\ UNCHANGED <<tableVars, fields, ownership, registered>>

-----------------------------------------------------------------------------
Next ==
  \/ \E t \in Tables : NewMap(t) \/ FreeMap(t)
  \/ \E c \in Callbacks :
       \/ NewCallback(c) \/ FreeCallback(c)
       \/ \E k \in AskKeys : PutCallback(c, k) \/ PutCallbackOom(c, k)
  \/ \E k \in AskKeys : PopCallback(k)
  \/ \E s \in Strings :
       \/ NewString(s) \/ ReleaseString(s) \/ RemoveResponder(s)
       \/ \E r \in Responders : AddResponder(r, s) \/ AddResponderUnbound(r, s)
  \/ \E w \in Commands : GetResponder(w)

Spec == Init /\ [][Next]_vars

-----------------------------------------------------------------------------
BindingsOf(t) == UNION {{buckets[t][n][i] : i \in 1 .. Len(buckets[t][n])} : n \in 0 .. NBuckets - 1}

(* Every key that a lookup reads through a binding is memory still          *)
(* allocated, and is the key of the value found with it: the callback or    *)
(* string a replaced value was stored with outlives the binding that keeps  *)
(* pointing to it (dispatch.c:56, :124, table.c:114, :119).                 *)
KeysReadable ==
  /\ \A b \in BindingsOf("callbacks")  : b.key \in heap /\ ask_key[b.key] = ask_key[b.value]
  /\ \A b \in BindingsOf("responders") : b.key \in strings /\ Text[b.key] = Text[command[b.value]]

(* A structure allocated is the value of one binding, or held by one        *)
(* caller, or leaked, and never two of these: nothing is freed twice or     *)
(* found after it was freed, and freeing a table, which looks at length     *)
(* first, leaves only what was displaced from it (table.c:153).             *)
OwnedOnce ==
  /\ \A t \in Tables : length[t] = NumBindings(t)
                         /\ length[t] = Cardinality({b.value : b \in BindingsOf(t)})
  /\ bindings = length["callbacks"] + length["responders"]
  /\ LET stored == {b.value : b \in BindingsOf("callbacks") \cup BindingsOf("responders")} IN
     /\ heap = stored \cup fresh \cup popped \cup leaked
     /\ stored \cap (fresh \cup popped \cup leaked) = {}
     /\ fresh \cap popped = {} /\ (fresh \cup popped) \cap leaked = {}

MapKeys(t) == {k \in IF t = "callbacks" THEN AskKeys ELSE Commands : Known(t, k)}
MapOf(t)   == [k \in MapKeys(t) |-> ValueOf(t, k)]

Map == INSTANCE KeyValueStore
         WITH Owners <- Tables, Keys <- AskKeys \cup Commands,
              Values <- Structs,
              exists <- maps, store <- [t \in Tables |-> MapOf(t)]

(* However keys collide and wrap, and though keys are read through          *)
(* pointers, each table behaves as a map: the ask key of a reply takes the  *)
(* callback put last under that very key, and a request gets the responder  *)
(* added last for the command it names, until that is popped or removed;    *)
(* each changes the entry of the key asked for and no other, and a put that *)
(* fails changes nothing (table.c:92, 107, 136).                            *)
IsMap == Map!Spec
=============================================================================
