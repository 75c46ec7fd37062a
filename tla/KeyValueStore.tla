---------------------------- MODULE KeyValueStore ----------------------------
(***************************************************************************)
(* What the hash tables of libamp promise: each owner that exists has a map *)
(* from keys to values, an operation touches the entry of the key it was    *)
(* asked for and no other, and one that fails changes nothing.  The request *)
(* and its outcome are part of the state.                                   *)
(***************************************************************************)
CONSTANTS Owners, Keys, Values, Absent

VARIABLES
  exists,   \* the owners that have a map
  store,    \* their maps, empty for the others
  asked,    \* the last operation and its arguments
  done,     \* whether it succeeded
  got       \* what it found, if it was a lookup

vars == <<exists, store, asked, done, got>>

Maps  == UNION {[D -> Values] : D \in SUBSET Keys}
Empty == [k \in {} |-> Absent]

Init ==
  /\ exists = {} /\ store = [o \in Owners |-> Empty]
  /\ asked = <<"other">> /\ done = TRUE /\ got = Absent

Bind(m, k, v)  == [x \in DOMAIN m \cup {k} |-> IF x = k THEN v ELSE m[x]]
Unbind(m, k)   == [x \in DOMAIN m \ {k} |-> m[x]]
Find(m, k)     == IF k \in DOMAIN m THEN m[k] ELSE Absent

Refused  == done' = FALSE /\ got' = Absent /\ UNCHANGED <<exists, store>>
Succeeds == done' = TRUE /\ got' = Absent

Create(o) ==
  /\ asked' = <<"create", o>> /\ o \notin exists
  /\ Refused \/ (Succeeds /\ exists' = exists \cup {o} /\ UNCHANGED store)

Destroy(o) ==
  /\ asked' = <<"destroy", o>> /\ o \in exists
  /\ Succeeds /\ exists' = exists \ {o} /\ store' = [store EXCEPT ![o] = Empty]

\* memory may run out, or the key or value be refused
Put(o, k, v) ==
  /\ asked' = <<"put", o, k, v>> /\ o \in exists
  /\ \/ Refused
     \/ Succeeds /\ store' = [store EXCEPT ![o] = Bind(@, k, v)] /\ UNCHANGED exists

Delete(o, k) ==
  /\ asked' = <<"delete", o, k>> /\ o \in exists
  /\ IF k \in DOMAIN store[o]
       THEN Succeeds /\ store' = [store EXCEPT ![o] = Unbind(@, k)] /\ UNCHANGED exists
       ELSE Refused

Get(o, k) ==
  /\ asked' = <<"get", o, k>> /\ o \in exists
  /\ done' = (k \in DOMAIN store[o]) /\ got' = Find(store[o], k)
  /\ UNCHANGED <<exists, store>>

\* a deletion that returns what it deletes
Take(o, k) ==
  /\ asked' = <<"take", o, k>> /\ o \in exists
  /\ done' = (k \in DOMAIN store[o]) /\ got' = Find(store[o], k)
  /\ store' = [store EXCEPT ![o] = Unbind(@, k)]
  /\ UNCHANGED exists

\* an operation on a whole map, or on none
Other ==
  /\ asked' = <<"other">> /\ done' \in BOOLEAN /\ got' = Absent
  /\ UNCHANGED <<exists, store>>

Next == Other \/ \E o \in Owners :
  \/ Create(o) \/ Destroy(o)
  \/ \E k \in Keys : \/ Delete(o, k) \/ Take(o, k) \/ Get(o, k)
                     \/ \E v \in Values : Put(o, k, v)

Spec == Init /\ [][Next]_vars
=============================================================================
