--------------------------------- MODULE Box ---------------------------------
(***************************************************************************)
(* AMP_Box (box.c): a chained hash table of key/value pairs, its comparison *)
(* and its serialization.  A byte has R values, 256 in the code, so that    *)
(* the limits on the lengths of keys and values are reached.                *)
(***************************************************************************)
EXTENDS Chains, FiniteSets

CONSTANTS
  R,         \* number of values of a byte
  NBuckets,  \* 127 in the code
  Boxes,     \* the boxes of user code
  Keys,      \* the C strings user code uses as keys
  Values,    \* the buffers it stores
  Hash,      \* hash_string of each key
  Absent     \* no value

MAX_KEY_LENGTH   == R - 1
MAX_VALUE_LENGTH == R * R - 1

ASSUME BoxAssumption ==
  /\ R \in Nat /\ R >= 2
  /\ NBuckets \in Nat \ {0}
  /\ Keys \subseteq Seq(1 .. R - 1)
  /\ Values \subseteq Seq(0 .. R - 1)
  /\ Hash \in [Keys -> Nat]
  /\ Absent \notin Values

VARIABLES
  alive,     \* boxes allocated
  buckets,   \* of each box
  length,    \* of each box: its number of keys
  keyvals,   \* struct amp_key_value allocated
  bindings,  \* struct binding allocated
  asked,     \* history: the last operation and its arguments
  got,       \* the value found, if it was _amp_get_buf
  err        \* what it returned

heap == <<keyvals, bindings>>
vars == <<alive, buckets, length, heap, asked, got, err>>

Binding    == [key : Keys, value : Values]
EmptyTable_OneTooMany == [i \in 0 .. NBuckets |-> <<>>]
EmptyTable == [i \in 0 .. NBuckets - 1 |-> <<>>]

Requests ==
  {<<"other">>} \cup ({"create", "destroy"} \X Boxes) \cup ({"delete", "get"} \X Boxes \X Keys)
                \cup ({"put"} \X Boxes \X Keys \X Values)

TypeOK ==
  /\ alive \subseteq Boxes
  /\ buckets \in [Boxes -> [0 .. NBuckets - 1 -> Seq(Binding)]]
  /\ length \in [Boxes -> Int]
  /\ keyvals \in Int /\ bindings \in Int
  /\ asked \in Requests /\ got \in Values \cup {Absent}
  /\ err \in {"OK", "ENOMEM", "AMP_BAD_KEY_SIZE", "AMP_BAD_VAL_SIZE", "AMP_KEY_NOT_FOUND",
              "AMP_BOX_EMPTY", "NOT_DELETED"}

Init ==
  /\ alive = {}
  /\ buckets = [b \in Boxes |-> EmptyTable]
  /\ length = [b \in Boxes |-> 0]
  /\ keyvals = 0 /\ bindings = 0
  /\ asked = <<"other">> /\ got = Absent /\ err = "OK"

-----------------------------------------------------------------------------
\* hash_string, for keys short enough not to overflow
HashString(k) == LET h[i \in 0 .. Len(k)] == IF i = 0 THEN 0 ELSE 16 * h[i - 1] + k[i]
                 IN  h[Len(k)]
Bucket(k)     == Hash[k] % NBuckets
Chain(b, k)   == buckets[b][Bucket(k)]
HasKey(b, k)  == Has(Chain(b, k), k)
ValueOf(b, k) == Chain(b, k)[At(Chain(b, k), k)].value

Fails(code) == err' = code /\ got' = Absent /\ UNCHANGED <<alive, buckets, length, heap>>

\* the pairs in the order of the two nested loops: by bucket, then down the chain
Pairs(b) == LET f[i \in 0 .. NBuckets] == IF i = 0 THEN <<>> ELSE f[i - 1] \o buckets[b][i - 1]
            IN  f[NBuckets]

NewBox(b) ==
  /\ b \notin alive /\ asked' = <<"create", b>>
  /\ \/ /\ alive' = alive \cup {b}
        /\ buckets' = [buckets EXCEPT ![b] = EmptyTable]
        /\ length' = [length EXCEPT ![b] = 0]
        /\ err' = "OK" /\ got' = Absent
        /\ UNCHANGED heap
     \/ Fails("ENOMEM")

FreeBox(b) ==
  /\ b \in alive /\ asked' = <<"destroy", b>>
  /\ alive' = alive \ {b}
  /\ buckets' = [buckets EXCEPT ![b] = EmptyTable]
  /\ length' = [length EXCEPT ![b] = 0]
  /\ keyvals' = keyvals - Len(Pairs(b))
  /\ bindings' = bindings - Len(Pairs(b))
  /\ err' = "OK" /\ got' = Absent

GoodKey(k)   == Len(k) \in 1 .. MAX_KEY_LENGTH
GoodValue(v) == Len(v) <= MAX_VALUE_LENGTH

PutRefused(b, k, v) ==
  /\ b \in alive /\ asked' = <<"put", b, k, v>>
  /\ \/ ~GoodKey(k) /\ Fails("AMP_BAD_KEY_SIZE")
     \/ GoodKey(k) /\ ~GoodValue(v) /\ Fails("AMP_BAD_VAL_SIZE")

(* The pair, or for a new key the binding, cannot be allocated; the pair is *)
(* freed again.                                                             *)
PutOom(b, k, v) ==
  /\ b \in alive /\ GoodKey(k) /\ GoodValue(v) /\ asked' = <<"put", b, k, v>>
  /\ Fails("ENOMEM")

\* a known key: the old pair is freed, and the new one takes its place
Account_NeverFrees(known) ==
  /\ keyvals' = keyvals + 1
  /\ bindings' = IF known THEN bindings ELSE bindings + 1
Account(known) ==
  /\ keyvals' = IF known THEN keyvals ELSE keyvals + 1
  /\ bindings' = IF known THEN bindings ELSE bindings + 1

Put(b, k, v) ==
  /\ b \in alive /\ GoodKey(k) /\ GoodValue(v) /\ asked' = <<"put", b, k, v>>
  /\ buckets' = [buckets EXCEPT ![b] = [@ EXCEPT ![Bucket(k)] = Link(Chain(b, k), k, v)]]
  /\ length' = [length EXCEPT ![b] = IF HasKey(b, k) THEN @ ELSE @ + 1]
  /\ Account(HasKey(b, k))
  /\ err' = "OK" /\ got' = Absent
  /\ UNCHANGED alive

DelKey(b, k) ==
  /\ b \in alive /\ HasKey(b, k) /\ asked' = <<"delete", b, k>>
  /\ buckets' = [buckets EXCEPT ![b] = [@ EXCEPT ![Bucket(k)] = Unlink(Chain(b, k), k)]]
  /\ length' = [length EXCEPT ![b] = @ - 1]
  /\ keyvals' = keyvals - 1 /\ bindings' = bindings - 1
  /\ err' = "OK" /\ got' = Absent
  /\ UNCHANGED alive

DelMissing(b, k) ==
  /\ b \in alive /\ ~HasKey(b, k) /\ asked' = <<"delete", b, k>>
  /\ Fails("NOT_DELETED")

(* _amp_get_buf: a missing key leaves the caller's variables as they were;  *)
(* the caller is taken to have cleared them.                                *)
Get(b, k) ==
  /\ b \in alive /\ asked' = <<"get", b, k>>
  /\ IF HasKey(b, k) THEN got' = ValueOf(b, k) /\ err' = "OK"
                     ELSE got' = Absent /\ err' = "AMP_KEY_NOT_FOUND"
  /\ UNCHANGED <<alive, buckets, length, heap>>

-----------------------------------------------------------------------------
(* Comparison and serialization *)

NumKeys(b) == length[b]

Equal_OneWay(b, c) == \A i \in 1 .. Len(Pairs(b)) :
                        LET p == Pairs(b)[i] IN HasKey(c, p.key) /\ ValueOf(c, p.key) = p.value
\* amp_boxes_equal
Equal(b, c) ==
  /\ NumKeys(b) = NumKeys(c)
  /\ \A i \in 1 .. Len(Pairs(b)) :
       LET p == Pairs(b)[i] IN HasKey(c, p.key) /\ ValueOf(c, p.key) = p.value

WireSize_OneByteLength(ps) ==
  LET f[i \in 0 .. Len(ps)] == IF i = 0 THEN 2 ELSE f[i - 1] + 3 + Len(ps[i].key) + Len(ps[i].value)
  IN  f[Len(ps)]
\* the size of the buffer, computed before it is filled
WireSize(ps) ==
  LET f[i \in 0 .. Len(ps)] == IF i = 0 THEN 2 ELSE f[i - 1] + 4 + Len(ps[i].key) + Len(ps[i].value)
  IN  f[Len(ps)]

Bytes(p) == <<0, Len(p.key)>> \o p.key \o <<Len(p.value) \div R, Len(p.value) % R>> \o p.value
Written(ps) == LET f[i \in 0 .. Len(ps)] == IF i = 0 THEN <<>> ELSE f[i - 1] \o Bytes(ps[i])
               IN  f[Len(ps)] \o <<0, 0>>

(* The buffer of WireSize bytes is the caller's; see WireIsBox for what is  *)
(* written to it.                                                           *)
Serialize(b) ==
  /\ b \in alive /\ asked' = <<"other">>
  /\ LET empty == WireSize(Pairs(b)) = 2 IN
     \/ empty /\ Fails("AMP_BOX_EMPTY")
     \/ ~empty /\ Fails("ENOMEM")
     \/ /\ ~empty /\ err' = "OK" /\ got' = Absent
        /\ UNCHANGED <<alive, buckets, length, heap>>

-----------------------------------------------------------------------------
Next == \E b \in Boxes :
  \/ NewBox(b) \/ FreeBox(b) \/ Serialize(b)
  \/ \E k \in Keys :
       \/ DelKey(b, k) \/ DelMissing(b, k) \/ Get(b, k)
       \/ \E v \in Values : PutRefused(b, k, v) \/ PutOom(b, k, v) \/ Put(b, k, v)

Spec == Init /\ [][Next]_vars

-----------------------------------------------------------------------------
(* The table is a map *)

KeysOf(b) == {k \in Keys : HasKey(b, k)}
MapOf(b)  == [k \in KeysOf(b) |-> ValueOf(b, k)]

Map == INSTANCE KeyValueStore
         WITH Owners <- Boxes, exists <- alive, store <- [b \in Boxes |-> MapOf(b)],
              done <- err = "OK"

(* However keys collide, and whatever put, delete, failed allocation or     *)
(* refused size comes before, a box behaves as a map: put and delete change *)
(* the entry of the key and box they were called for and no other, a get    *)
(* answers with the value last put under the key it was called for, or that *)
(* there is none, and a call that returns an error has changed nothing      *)
(* (box.c:160, 289, 340).                                                   *)
IsMap == Map!Spec

(* Every binding sits in the bucket its key hashes to, and a key has one.   *)
Filed ==
  \A b \in Boxes, n \in 0 .. NBuckets - 1 :
    LET chain == buckets[b][n] IN
    \A i \in 1 .. Len(chain) :
      /\ Bucket(chain[i].key) = n
      /\ \A j \in 1 .. i - 1 : chain[j].key # chain[i].key

(* amp_num_keys is the number of keys, and each key owns one binding and    *)
(* one pair: put, replacement, deletion and failed allocations free what    *)
(* they took out and nothing else (box.c:180, 291, 305).                    *)
Accounted ==
  /\ \A b \in Boxes : length[b] = Cardinality(KeysOf(b))
  /\ keyvals = bindings
  /\ bindings = Cardinality({x \in Boxes \X Keys : HasKey(x[1], x[2])})

(* amp_boxes_equal, which looks only one way after comparing the numbers of *)
(* keys, holds exactly of boxes with the same keys and values.              *)
EqualMeansSame == \A b, c \in alive : Equal(b, c) <=> MapOf(b) = MapOf(c)

\* two bytes of length at position p of the wire, what they are the length of,
\* and where that ends
LengthAt(w, p) == w[p] * R + w[p + 1]
ItemAt(w, p)   == SubSeq(w, p + 2, p + 1 + LengthAt(w, p))
After(w, p)    == p + 2 + LengthAt(w, p)

\* where each pair begins as the protocol defines them, and then the end
Starts(w) ==
  LET begin[i \in 0 .. Len(w)] ==
        IF i = 0 THEN 1
        ELSE LET p == begin[i - 1]
             IN  IF LengthAt(w, p) = 0 THEN p ELSE After(w, After(w, p))
  IN  begin

Read(w, begin) ==
  {[key |-> ItemAt(w, begin[i]), value |-> ItemAt(w, After(w, begin[i]))] :
     i \in {j \in 0 .. Len(w) : LengthAt(w, begin[j]) # 0}}

(* The buffer of amp_serialize_box is filled to its last byte and not past  *)
(* it, with bytes only; what a peer reads from it is the box, and the end   *)
(* of the box is the end of the buffer.                                     *)
WireIsBox ==
  \A b \in alive :
    LET w     == Written(Pairs(b))
        begin == Starts(w)
    IN
    /\ Len(w) = WireSize(Pairs(b))
    /\ \A i \in 1 .. Len(w) : w[i] \in 0 .. R - 1
    /\ Read(w, begin) = {[key |-> k, value |-> ValueOf(b, k)] : k \in KeysOf(b)}
    /\ After(w, begin[Len(w)]) = Len(w) + 1
=============================================================================
