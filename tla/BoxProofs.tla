----------------------------- MODULE BoxProofs ------------------------------
(***************************************************************************)
(* The chained hash table of box.c is a map, for every hash function, any   *)
(* number of buckets and any keys: no two keys are ever confused.           *)
(***************************************************************************)
EXTENDS Box, ChainsProofs

(* Every chain has its keys once, and all of them hash to its bucket; a box *)
(* that is not allocated has none.                                          *)
Shape ==
  /\ alive \subseteq Boxes
  /\ buckets \in [Boxes -> [0 .. NBuckets - 1 -> Seq(Binding)]]
  /\ \A b \in Boxes, n \in 0 .. NBuckets - 1 :
       /\ IsChain(buckets[b][n], Keys, Values)
       /\ \A i \in 1 .. Len(buckets[b][n]) : Bucket(buckets[b][n][i].key) = n
  /\ \A b \in Boxes \ alive : buckets[b] = EmptyTable

LEMMA BucketInTable == \A k \in Keys : Bucket(k) \in 0 .. NBuckets - 1
<1> TAKE k \in Keys
<1>1. Hash[k] \in Nat /\ NBuckets \in Nat /\ NBuckets > 0
  BY BoxAssumption
<1>2. ASSUME NEW h \in Nat, NEW n \in Nat, n > 0 PROVE h % n \in 0 .. n - 1
  BY <1>2
<1> QED BY <1>1, <1>2 DEF Bucket

LEMMA EmptyTableHasNothing ==
  /\ EmptyTable \in [0 .. NBuckets - 1 -> Seq(Binding)]
  /\ \A n \in 0 .. NBuckets - 1 : EmptyTable[n] = <<>>
BY DEF EmptyTable

LEMMA InitShape == Init => Shape
<1> SUFFICES ASSUME Init PROVE Shape
  OBVIOUS
<1>1. alive = {} /\ buckets = [b \in Boxes |-> EmptyTable]
  BY DEF Init
<1>2. \A b \in Boxes, n \in 0 .. NBuckets - 1 : buckets[b][n] = <<>>
  BY <1>1, EmptyTableHasNothing
<1>3. IsChain(<<>>, Keys, Values) /\ Len(<<>>) = 0
  BY EmptyChain
<1>4. buckets \in [Boxes -> [0 .. NBuckets - 1 -> Seq(Binding)]]
  BY <1>1, EmptyTableHasNothing
<1> QED BY <1>1, <1>2, <1>3, <1>4 DEF Shape

\* what Shape says of the chain that an operation on k works on
LEMMA ChainShape ==
  ASSUME Shape, NEW b \in Boxes, NEW k \in Keys
  PROVE  IsChain(Chain(b, k), Keys, Values)
BY BucketInTable DEF Shape, Chain

\* the operation replaces that chain by ch
Replaces(b, k, ch) == buckets' = [buckets EXCEPT ![b] = [@ EXCEPT ![Bucket(k)] = ch]]

LEMMA ReplacedChain ==
  ASSUME Shape, NEW b \in Boxes, NEW k \in Keys, NEW ch, Replaces(b, k, ch)
  PROVE  \A c \in Boxes, n \in 0 .. NBuckets - 1 :
           buckets'[c][n] = IF c = b /\ n = Bucket(k) THEN ch ELSE buckets[c][n]
<1>1. buckets \in [Boxes -> [0 .. NBuckets - 1 -> Seq(Binding)]]
  BY DEF Shape
<1>2. Bucket(k) \in 0 .. NBuckets - 1
  BY BucketInTable
<1> QED BY <1>1, <1>2 DEF Replaces

\* the same, seen by a search for x
LEMMA ReplacedSearch ==
  ASSUME Shape, NEW b \in Boxes, NEW k \in Keys, NEW ch, Replaces(b, k, ch)
  PROVE  \A c \in Boxes, x \in Keys :
           Chain(c, x)' = IF c = b /\ Bucket(x) = Bucket(k) THEN ch ELSE Chain(c, x)
BY ReplacedChain, BucketInTable DEF Chain, Bucket

LEMMA ReplacedShape ==
  ASSUME Shape, NEW b \in alive, NEW k \in Keys, NEW ch, Replaces(b, k, ch), alive' = alive,
         IsChain(ch, Keys, Values), \A i \in 1 .. Len(ch) : Bucket(ch[i].key) = Bucket(k)
  PROVE  Shape'
<1>1. b \in Boxes /\ alive \subseteq Boxes
  BY DEF Shape
<1>2. ch \in Seq(Binding)
  BY DEF IsChain, Binding
<1>3. Bucket(k) \in 0 .. NBuckets - 1
  BY BucketInTable
<1>4. buckets' \in [Boxes -> [0 .. NBuckets - 1 -> Seq(Binding)]]
  BY <1>2, <1>3 DEF Replaces, Shape
<1>5. \A c \in Boxes, n \in 0 .. NBuckets - 1 :
        /\ IsChain(buckets'[c][n], Keys, Values)
        /\ \A i \in 1 .. Len(buckets'[c][n]) : Bucket(buckets'[c][n][i].key) = n
  BY <1>1, ReplacedChain DEF Shape
<1>6. \A c \in Boxes \ alive : buckets'[c] = EmptyTable
  BY <1>1 DEF Replaces, Shape
<1>7. EmptyTable' = EmptyTable /\ \A x : Bucket(x)' = Bucket(x)
  BY DEF EmptyTable, Bucket
<1> QED BY <1>1, <1>4, <1>5, <1>6, <1>7 DEF Shape, Bucket, IsChain, EmptyTable, Binding

-----------------------------------------------------------------------------
(* Maps *)

Store == [b \in Boxes |-> MapOf(b)]

LEMMA MapFacts ==
  \A b : /\ DOMAIN MapOf(b) = {k \in Keys : HasKey(b, k)}
         /\ \A k \in Keys : HasKey(b, k) => MapOf(b)[k] = ValueOf(b, k)
BY DEF MapOf, KeysOf

\* an entry that searches find unchanged
SameEntry(c, x) == /\ HasKey(c, x)' <=> HasKey(c, x)
                   /\ HasKey(c, x) => ValueOf(c, x)' = ValueOf(c, x)

LEMMA SameMap ==
  ASSUME NEW c, \A x \in Keys : SameEntry(c, x)
  PROVE  MapOf(c)' = MapOf(c)
<1>1. KeysOf(c)' = KeysOf(c)
  BY DEF KeysOf, SameEntry
<1> QED BY <1>1 DEF MapOf, KeysOf, SameEntry

LEMMA SameStore ==
  ASSUME NEW b \in Boxes, NEW m, MapOf(b)' = m,
         \A c \in Boxes \ {b} : MapOf(c)' = MapOf(c)
  PROVE  Store' = [Store EXCEPT ![b] = m]
BY DEF Store

\* searches see only the chains
LEMMA SearchInChain ==
  ASSUME NEW c, NEW x, Chain(c, x)' = Chain(c, x)
  PROVE  SameEntry(c, x)
BY DEF SameEntry, HasKey, ValueOf

\* the keys of other buckets, and of other boxes
LEMMA OtherEntries ==
  ASSUME Shape, NEW b \in Boxes, NEW k \in Keys, NEW ch, Replaces(b, k, ch)
  PROVE  \A c \in Boxes, x \in Keys : c # b \/ Bucket(x) # Bucket(k) => SameEntry(c, x)
BY ReplacedSearch, SearchInChain

\* the keys of the same bucket
LEMMA ChainEntry ==
  ASSUME NEW b, NEW x, NEW ch, Chain(b, x)' = ch,
         Has(ch, x) <=> Has(Chain(b, x), x),
         Has(Chain(b, x), x) => ch[At(ch, x)].value = Chain(b, x)[At(Chain(b, x), x)].value
  PROVE  SameEntry(b, x)
BY DEF SameEntry, HasKey, ValueOf

-----------------------------------------------------------------------------
LEMMA PutStep ==
  ASSUME Shape, NEW b \in Boxes, NEW k \in Keys, NEW v \in Values, Put(b, k, v)
  PROVE  Shape' /\ Store' = [Store EXCEPT ![b] = Map!Bind(MapOf(b), k, v)]
<1> DEFINE old == Chain(b, k)
           ch  == Link(old, k, v)
<1>1. b \in alive /\ alive' = alive /\ Replaces(b, k, ch)
  BY DEF Put, Replaces
<1>2. IsChain(old, Keys, Values)
  BY ChainShape
<1>3. /\ IsChain(ch, Keys, Values) /\ Has(ch, k) /\ ch[At(ch, k)].value = v
      /\ \A x : x # k => /\ Has(ch, x) <=> Has(old, x)
                         /\ Has(old, x) => ch[At(ch, x)].value = old[At(old, x)].value
  BY <1>2, LinkChain
<1>4. \A x \in Keys : Bucket(x) = Bucket(k) => Chain(b, x) = old
  BY DEF Chain
<1> HIDE DEF ch
<1>5. Shape'
  <2>1. ASSUME NEW i \in 1 .. Len(ch) PROVE Bucket(ch[i].key) = Bucket(k)
    <3>1. CASE ch[i].key = k
      BY <3>1
    <3>2. CASE ch[i].key # k
      <4>1. Has(ch, ch[i].key)
        BY DEF Has
      <4>2. Has(old, ch[i].key)
        BY <1>3, <3>2, <4>1
      <4>3. PICK j \in 1 .. Len(old) : old[j].key = ch[i].key
        BY <4>2 DEF Has
      <4>4. Bucket(old[j].key) = Bucket(k)
        BY <4>3, BucketInTable DEF Shape, Chain
      <4> QED BY <4>3, <4>4
    <3> QED BY <3>1, <3>2
  <2> QED BY <1>1, <1>3, <2>1, ReplacedShape
<1>6. \A c \in Boxes, x \in Keys : Chain(c, x)' = IF c = b /\ Bucket(x) = Bucket(k) THEN ch ELSE Chain(c, x)
  BY <1>1, ReplacedSearch
<1>7. \A c \in Boxes, x \in Keys : c # b \/ x # k => SameEntry(c, x)
  <2> TAKE c \in Boxes, x \in Keys
  <2> HAVE c # b \/ x # k
  <2>1. CASE c # b \/ Bucket(x) # Bucket(k)
    BY <1>1, <2>1, OtherEntries
  <2>2. CASE c = b /\ Bucket(x) = Bucket(k)
    <3>1. Chain(b, x)' = ch /\ Chain(b, x) = old /\ x # k
      BY <1>4, <1>6, <2>2
    <3> QED BY <1>3, <2>2, <3>1, ChainEntry
  <2> QED BY <2>1, <2>2
<1>8. HasKey(b, k)' /\ ValueOf(b, k)' = v
  <2>1. Chain(b, k)' = ch
    BY <1>6
  <2> QED BY <1>3, <2>1 DEF HasKey, ValueOf
<1>9. MapOf(b)' = Map!Bind(MapOf(b), k, v)
  <2>1. KeysOf(b)' = KeysOf(b) \cup {k}
    BY <1>7, <1>8 DEF KeysOf, SameEntry
  <2>2. \A x \in KeysOf(b)' : ValueOf(b, x)' = IF x = k THEN v ELSE MapOf(b)[x]
    BY <1>7, <1>8, <2>1, MapFacts DEF KeysOf, SameEntry
  <2>3. MapOf(b)' = [x \in KeysOf(b)' |-> ValueOf(b, x)']
    BY DEF MapOf
  <2>4. Map!Bind(MapOf(b), k, v) = [x \in KeysOf(b) \cup {k} |-> IF x = k THEN v ELSE MapOf(b)[x]]
    BY MapFacts DEF Map!Bind, KeysOf
  <2> QED BY <2>1, <2>2, <2>3, <2>4
<1>10. \A c \in Boxes \ {b} : MapOf(c)' = MapOf(c)
  BY <1>7, SameMap
<1> QED BY <1>5, <1>9, <1>10, SameStore

LEMMA DelStep ==
  ASSUME Shape, NEW b \in Boxes, NEW k \in Keys, DelKey(b, k)
  PROVE  Shape' /\ Store' = [Store EXCEPT ![b] = Map!Unbind(MapOf(b), k)]
<1> DEFINE old == Chain(b, k)
           ch  == Unlink(old, k)
<1>1. b \in alive /\ alive' = alive /\ Replaces(b, k, ch) /\ Has(old, k)
  BY DEF DelKey, Replaces, HasKey
<1>2. IsChain(old, Keys, Values)
  BY ChainShape
<1>3. /\ IsChain(ch, Keys, Values) /\ ~Has(ch, k)
      /\ \A x : x # k => /\ Has(ch, x) <=> Has(old, x)
                         /\ Has(old, x) => ch[At(ch, x)].value = old[At(old, x)].value
  BY <1>1, <1>2, UnlinkChain
<1>4. \A x \in Keys : Bucket(x) = Bucket(k) => Chain(b, x) = old
  BY DEF Chain
<1> HIDE DEF ch
<1>5. Shape'
  <2>1. ASSUME NEW i \in 1 .. Len(ch) PROVE Bucket(ch[i].key) = Bucket(k)
    <3>1. Has(ch, ch[i].key)
      BY DEF Has
    <3>2. Has(old, ch[i].key)
      BY <1>3, <3>1
    <3>3. PICK j \in 1 .. Len(old) : old[j].key = ch[i].key
      BY <3>2 DEF Has
    <3>4. Bucket(old[j].key) = Bucket(k)
      BY <3>3, BucketInTable DEF Shape, Chain
    <3> QED BY <3>3, <3>4
  <2> QED BY <1>1, <1>3, <2>1, ReplacedShape
<1>6. \A c \in Boxes, x \in Keys : Chain(c, x)' = IF c = b /\ Bucket(x) = Bucket(k) THEN ch ELSE Chain(c, x)
  BY <1>1, ReplacedSearch
<1>7. \A c \in Boxes, x \in Keys : c # b \/ x # k => SameEntry(c, x)
  <2> TAKE c \in Boxes, x \in Keys
  <2> HAVE c # b \/ x # k
  <2>1. CASE c # b \/ Bucket(x) # Bucket(k)
    BY <1>1, <2>1, OtherEntries
  <2>2. CASE c = b /\ Bucket(x) = Bucket(k)
    <3>1. Chain(b, x)' = ch /\ Chain(b, x) = old /\ x # k
      BY <1>4, <1>6, <2>2
    <3> QED BY <1>3, <2>2, <3>1, ChainEntry
  <2> QED BY <2>1, <2>2
<1>8. ~HasKey(b, k)'
  <2>1. Chain(b, k)' = ch
    BY <1>6
  <2> QED BY <1>3, <2>1 DEF HasKey
<1>9. MapOf(b)' = Map!Unbind(MapOf(b), k)
  <2>1. KeysOf(b)' = KeysOf(b) \ {k}
    BY <1>7, <1>8 DEF KeysOf, SameEntry
  <2>2. \A x \in KeysOf(b)' : ValueOf(b, x)' = MapOf(b)[x]
    BY <1>7, <2>1, MapFacts DEF KeysOf, SameEntry
  <2>3. MapOf(b)' = [x \in KeysOf(b)' |-> ValueOf(b, x)']
    BY DEF MapOf
  <2>4. Map!Unbind(MapOf(b), k) = [x \in KeysOf(b) \ {k} |-> MapOf(b)[x]]
    BY MapFacts DEF Map!Unbind, KeysOf
  <2> QED BY <2>1, <2>2, <2>3, <2>4
<1>10. \A c \in Boxes \ {b} : MapOf(c)' = MapOf(c)
  BY <1>7, SameMap
<1> QED BY <1>5, <1>9, <1>10, SameStore

-----------------------------------------------------------------------------
(* The steps that leave the chains alone *)

LEMMA SameChains ==
  ASSUME Shape, UNCHANGED <<alive, buckets>>
  PROVE  Shape' /\ Store' = Store
<1>1. \A c, x : Chain(c, x)' = Chain(c, x)
  BY DEF Chain, Bucket
<1>2. \A c \in Boxes : MapOf(c)' = MapOf(c)
  BY <1>1, SearchInChain, SameMap
<1>3. Store' = Store
  BY <1>2 DEF Store
<1>4. Shape'
  BY ZenonT(120) DEF Shape, Bucket, IsChain, EmptyTable, Binding
<1> QED BY <1>3, <1>4

\* a box whose table is the empty one has the empty map
LEMMA NoKeys ==
  ASSUME NEW b, buckets[b] = EmptyTable
  PROVE  MapOf(b) = Map!Empty
<1>1. \A k \in Keys : ~HasKey(b, k)
  <2> TAKE k \in Keys
  <2>1. Chain(b, k) = <<>>
    BY BucketInTable, EmptyTableHasNothing DEF Chain
  <2>2. ~Has(<<>>, k)
    BY DEF Has
  <2> QED BY <2>1, <2>2 DEF HasKey
<1>2. KeysOf(b) = {}
  BY <1>1 DEF KeysOf
<1> QED BY <1>2 DEF MapOf, Map!Empty

\* a box that is created, or freed, has the empty table
LEMMA ClearStep ==
  ASSUME Shape, NEW b \in Boxes, buckets' = [buckets EXCEPT ![b] = EmptyTable],
         alive' \subseteq Boxes, alive \ {b} \subseteq alive'
  PROVE  Shape' /\ Store' = [Store EXCEPT ![b] = Map!Empty]
<1>1. buckets'[b] = EmptyTable /\ \A c \in Boxes \ {b} : buckets'[c] = buckets[c]
  BY DEF Shape
<1>2. EmptyTable' = EmptyTable /\ Map!Empty' = Map!Empty
  BY DEF EmptyTable, Map!Empty
<1>3. Shape'
  <2>1. buckets' \in [Boxes -> [0 .. NBuckets - 1 -> Seq(Binding)]]
    BY EmptyTableHasNothing DEF Shape
  <2>2. \A c \in Boxes, n \in 0 .. NBuckets - 1 :
          /\ IsChain(buckets'[c][n], Keys, Values)
          /\ \A i \in 1 .. Len(buckets'[c][n]) : Bucket(buckets'[c][n][i].key) = n
    <3> TAKE c \in Boxes, n \in 0 .. NBuckets - 1
    <3>1. CASE c = b
      <4>1. buckets'[c][n] = <<>>
        BY <1>1, <3>1, EmptyTableHasNothing
      <4>2. IsChain(<<>>, Keys, Values) /\ Len(<<>>) = 0
        BY EmptyChain
      <4> QED BY <4>1, <4>2
    <3>2. CASE c # b
      BY <1>1, <3>2 DEF Shape
    <3> QED BY <3>1, <3>2
  <2>3. \A c \in Boxes \ alive' : buckets'[c] = EmptyTable
    BY <1>1 DEF Shape
  <2> QED BY <1>2, <2>1, <2>2, <2>3 DEF Shape, Bucket, IsChain, Binding
<1>4. MapOf(b)' = Map!Empty
  <2>1. \A k \in Keys : ~HasKey(b, k)'
    <3> TAKE k \in Keys
    <3>1. Chain(b, k)' = <<>>
      BY <1>1, BucketInTable, EmptyTableHasNothing DEF Chain, Bucket
    <3>2. ~Has(<<>>, k)
      BY DEF Has
    <3> QED BY <3>1, <3>2 DEF HasKey
  <2>2. KeysOf(b)' = {}
    BY <2>1 DEF KeysOf
  <2> QED BY <2>2 DEF MapOf, Map!Empty
<1>5. \A c \in Boxes \ {b} : MapOf(c)' = MapOf(c)
  <2> TAKE c \in Boxes \ {b}
  <2>1. \A x \in Keys : Chain(c, x)' = Chain(c, x)
    BY <1>1 DEF Chain, Bucket
  <2> QED BY <2>1, SearchInChain, SameMap
<1> QED BY <1>3, <1>4, <1>5, SameStore

-----------------------------------------------------------------------------
\* a step keeps the shape, and is a step of the map
StepOfMap == Shape' /\ [Map!Next]_(Map!vars)

LEMMA FailsStep ==
  ASSUME Shape, NEW code, Fails(code), code # "OK"
  PROVE  Shape' /\ Map!Refused
<1>1. Shape' /\ Store' = Store /\ got' = Absent /\ alive' = alive
  BY SameChains DEF Fails
<1>2. (err = "OK")' = FALSE
  BY DEF Fails
<1> QED BY <1>1, <1>2 DEF Map!Refused, Store

LEMMA Granted ==
  ASSUME err' = "OK", got' = Absent
  PROVE  Map!Succeeds
<1>1. (err = "OK")' = TRUE
  OBVIOUS
<1> QED BY <1>1 DEF Map!Succeeds

LEMMA StepLemma ==
  ASSUME Shape, [Next]_vars
  PROVE  StepOfMap
<1> USE DEF StepOfMap
<1>1. CASE UNCHANGED vars
  <2>1. Shape' /\ Store' = Store /\ got' = got /\ alive' = alive /\ asked' = asked /\ err' = err
    BY <1>1, SameChains DEF vars
  <2>2. (err = "OK")' = (err = "OK")
    BY <2>1
  <2> QED BY <2>1, <2>2 DEF Map!vars, Store
<1>2. ASSUME NEW b \in Boxes, NewBox(b) PROVE StepOfMap
  <2>1. asked' = <<"create", b>> /\ b \notin alive
    BY <1>2 DEF NewBox
  <2>2. CASE Fails("ENOMEM")
    <3>1. Shape' /\ Map!Refused
      BY <2>2, FailsStep
    <3> QED BY <2>1, <3>1 DEF Map!Next, Map!Create
  <2>3. CASE ~Fails("ENOMEM")
    <3>1. /\ alive' = alive \cup {b} /\ got' = Absent /\ err' = "OK"
          /\ buckets' = [buckets EXCEPT ![b] = EmptyTable]
      BY <1>2, <2>3 DEF NewBox
    <3>2. Shape' /\ Store' = [Store EXCEPT ![b] = Map!Empty]
      BY <2>1, <3>1, ClearStep DEF Shape
    <3>3. Store[b] = Map!Empty
      BY <2>1, NoKeys DEF Shape, Store
    <3>4. Store' = Store
      BY <3>2, <3>3 DEF Store
    <3>5. Map!Succeeds
      BY <3>1, Granted
    <3> QED BY <2>1, <3>1, <3>2, <3>4, <3>5 DEF Map!Next, Map!Create, Store
  <2> QED BY <2>2, <2>3
<1>3. ASSUME NEW b \in Boxes, FreeBox(b) PROVE StepOfMap
  <2>1. /\ b \in alive /\ alive' = alive \ {b} /\ got' = Absent /\ err' = "OK"
        /\ asked' = <<"destroy", b>>
        /\ buckets' = [buckets EXCEPT ![b] = EmptyTable]
    BY <1>3 DEF FreeBox
  <2>2. Shape' /\ Store' = [Store EXCEPT ![b] = Map!Empty]
    BY <2>1, ClearStep DEF Shape
  <2>3. Map!Succeeds
    BY <2>1, Granted
  <2> QED BY <2>1, <2>2, <2>3 DEF Map!Next, Map!Destroy, Store
<1>4. ASSUME NEW b \in Boxes, Serialize(b) PROVE StepOfMap
  <2>1. asked' = <<"other">> /\ got' = Absent /\ UNCHANGED <<alive, buckets>>
    BY <1>4 DEF Serialize, Fails
  <2>2. Shape' /\ Store' = Store
    BY <2>1, SameChains
  <2>3. (err = "OK")' \in BOOLEAN
    OBVIOUS
  <2> QED BY <2>1, <2>2, <2>3 DEF Map!Next, Map!Other, Store
<1>5. ASSUME NEW b \in Boxes, NEW k \in Keys, DelKey(b, k) PROVE StepOfMap
  <2>1. Shape' /\ Store' = [Store EXCEPT ![b] = Map!Unbind(MapOf(b), k)]
    BY <1>5, DelStep
  <2>2. /\ b \in alive /\ alive' = alive /\ got' = Absent /\ err' = "OK"
        /\ asked' = <<"delete", b, k>>
    BY <1>5 DEF DelKey
  <2>3. Store[b] = MapOf(b) /\ k \in DOMAIN Store[b]
    BY <1>5, MapFacts DEF Store, DelKey
  <2>4. Map!Succeeds
    BY <2>2, Granted
  <2> QED BY <2>1, <2>2, <2>3, <2>4 DEF Map!Next, Map!Delete, Store
<1>6. ASSUME NEW b \in Boxes, NEW k \in Keys, DelMissing(b, k) PROVE StepOfMap
  <2>1. b \in alive /\ asked' = <<"delete", b, k>>
    BY <1>6 DEF DelMissing
  <2>2. k \notin DOMAIN Store[b]
    BY <1>6, MapFacts DEF Store, DelMissing
  <2>3. Shape' /\ Map!Refused
    BY <1>6, FailsStep DEF DelMissing
  <2> QED BY <2>1, <2>2, <2>3 DEF Map!Next, Map!Delete, Store
<1>7. ASSUME NEW b \in Boxes, NEW k \in Keys, Get(b, k) PROVE StepOfMap
  <2>1. Shape' /\ Store' = Store /\ alive' = alive /\ b \in alive /\ asked' = <<"get", b, k>>
    BY <1>7, SameChains DEF Get
  <2>2. got' = Map!Find(MapOf(b), k)
    BY <1>7, MapFacts DEF Get, Map!Find
  <2>3. Store[b] = MapOf(b)
    BY DEF Store
  <2>4. HasKey(b, k) <=> k \in DOMAIN MapOf(b)
    BY MapFacts
  <2>5. err' = "OK" <=> HasKey(b, k)
    BY <1>7 DEF Get
  <2>6. (err = "OK")' = (k \in DOMAIN MapOf(b))
    BY <2>4, <2>5
  <2> QED BY <2>1, <2>2, <2>3, <2>6 DEF Map!Next, Map!Get, Store
<1>8. ASSUME NEW b \in Boxes, NEW k \in Keys, NEW v \in Values, PutRefused(b, k, v)
      PROVE  StepOfMap
  <2>1. b \in alive /\ asked' = <<"put", b, k, v>>
    BY <1>8 DEF PutRefused
  <2>2. Shape' /\ Map!Refused
    BY <1>8, FailsStep DEF PutRefused
  <2> QED BY <2>1, <2>2 DEF Map!Next, Map!Put
<1>9. ASSUME NEW b \in Boxes, NEW k \in Keys, NEW v \in Values, PutOom(b, k, v)
      PROVE  StepOfMap
  <2>1. b \in alive /\ asked' = <<"put", b, k, v>>
    BY <1>9 DEF PutOom
  <2>2. Shape' /\ Map!Refused
    BY <1>9, FailsStep DEF PutOom
  <2> QED BY <2>1, <2>2 DEF Map!Next, Map!Put
<1>10. ASSUME NEW b \in Boxes, NEW k \in Keys, NEW v \in Values, Put(b, k, v)
       PROVE  StepOfMap
  <2>1. Shape' /\ Store' = [Store EXCEPT ![b] = Map!Bind(MapOf(b), k, v)]
    BY <1>10, PutStep
  <2>2. /\ b \in alive /\ alive' = alive /\ got' = Absent /\ err' = "OK"
        /\ asked' = <<"put", b, k, v>>
    BY <1>10 DEF Put
  <2>3. Store[b] = MapOf(b)
    BY DEF Store
  <2>4. Map!Succeeds
    BY <2>2, Granted
  <2> QED BY <2>1, <2>2, <2>3, <2>4 DEF Map!Next, Map!Put, Store
<1> QED BY <1>1, <1>2, <1>3, <1>4, <1>5, <1>6, <1>7, <1>8, <1>9, <1>10 DEF Next

LEMMA InitOfMap == Init => Map!Init
<1> SUFFICES ASSUME Init PROVE Map!Init
  OBVIOUS
<1>1. /\ alive = {} /\ asked = <<"other">> /\ got = Absent /\ buckets = [b \in Boxes |-> EmptyTable]
      /\ (err = "OK") = TRUE
  BY DEF Init
<1>2. \A b \in Boxes : MapOf(b) = Map!Empty
  BY <1>1, NoKeys
<1> QED BY <1>1, <1>2 DEF Map!Init

-----------------------------------------------------------------------------
(* The pairs of a box, as the nested loops meet them *)

Size(b) == TotalLength(buckets[b], NBuckets)

LEMMA PairsJoin == \A b : Pairs(b) = Joined(buckets[b], NBuckets)
BY DEF Pairs, Joined

LEMMA BoxIsTable ==
  ASSUME Shape, NEW b \in Boxes
  PROVE  NBuckets \in Nat /\ IsTable(buckets[b], NBuckets, Binding)
BY BoxAssumption DEF Shape, IsTable

LEMMA PairsFacts ==
  ASSUME Shape, NEW b \in Boxes
  PROVE  /\ Pairs(b) \in Seq(Binding) /\ Len(Pairs(b)) = Size(b) /\ Size(b) \in Nat
         /\ \A p \in Elements(Pairs(b)) :
              p \in Binding /\ HasKey(b, p.key) /\ ValueOf(b, p.key) = p.value
         /\ \A k \in Keys : HasKey(b, k) =>
              ValueOf(b, k) \in Values /\ [key |-> k, value |-> ValueOf(b, k)] \in Elements(Pairs(b))
<1>1. /\ Pairs(b) \in Seq(Binding) /\ Len(Pairs(b)) = Size(b) /\ Size(b) \in Nat
      /\ Elements(Pairs(b)) = UNION {Elements(buckets[b][n]) : n \in 0 .. NBuckets - 1}
  BY BoxIsTable, JoinedFacts, TotalBounds, PairsJoin DEF Size
<1>2. ASSUME NEW p \in Elements(Pairs(b))
      PROVE  p \in Binding /\ HasKey(b, p.key) /\ ValueOf(b, p.key) = p.value
  <2>1. PICK n \in 0 .. NBuckets - 1 : p \in Elements(buckets[b][n])
    BY <1>1
  <2>2. PICK i \in 1 .. Len(buckets[b][n]) : p = buckets[b][n][i]
    BY <2>1 DEF Elements
  <2>3. /\ IsChain(buckets[b][n], Keys, Values) /\ Bucket(p.key) = n
        /\ buckets[b] \in [0 .. NBuckets - 1 -> Seq(Binding)]
    BY <2>2 DEF Shape
  <2>4. p \in Binding
    BY <2>2, <2>3, ElementOfSequence
  <2>5. Chain(b, p.key) = buckets[b][n]
    BY <2>3 DEF Chain
  <2>6. At(buckets[b][n], p.key) = i
    BY <2>2, <2>3, AtIs
  <2>7. HasKey(b, p.key)
    BY <2>2, <2>5 DEF HasKey, Has
  <2> QED BY <2>2, <2>4, <2>5, <2>6, <2>7 DEF ValueOf
<1>3. ASSUME NEW k \in Keys, HasKey(b, k)
      PROVE  ValueOf(b, k) \in Values /\ [key |-> k, value |-> ValueOf(b, k)] \in Elements(Pairs(b))
  <2> DEFINE chain == Chain(b, k)
             p     == chain[At(chain, k)]
  <2>1. IsChain(chain, Keys, Values)
    BY ChainShape
  <2>2. At(chain, k) \in 1 .. Len(chain) /\ p.key = k /\ p \in [key : Keys, value : Values]
    BY <1>3, <2>1, AtHas DEF HasKey
  <2>3. p \in Elements(chain) /\ p = [key |-> k, value |-> ValueOf(b, k)]
    BY <2>2 DEF Elements, ValueOf
  <2>4. Elements(chain) \subseteq Elements(Pairs(b))
    BY <1>1, BucketInTable DEF Chain
  <2> QED BY <2>2, <2>3, <2>4
<1> QED BY <1>1, <1>2, <1>3

-----------------------------------------------------------------------------
(* The counters *)

Owned == {x \in Boxes \X Keys : x[2] \in KeysOf(x[1])}

Books ==
  /\ length \in [Boxes -> Nat]
  /\ \A b \in Boxes : /\ length[b] = Size(b)
                      /\ IsFiniteSet(KeysOf(b)) /\ length[b] = Cardinality(KeysOf(b))
  /\ keyvals = bindings /\ bindings \in Nat
  /\ IsFiniteSet(Owned) /\ bindings = Cardinality(Owned)

Results ==
  /\ got \in Values \cup {Absent}
  /\ err \in {"OK", "ENOMEM", "AMP_BAD_KEY_SIZE", "AMP_BAD_VAL_SIZE", "AMP_KEY_NOT_FOUND",
              "AMP_BOX_EMPTY", "NOT_DELETED"}

LEMMA StoreKeys == \A b \in Boxes : KeysOf(b) = DOMAIN Store[b]
BY DEF Store, MapOf

LEMMA StoreKeysNext == \A b \in Boxes : KeysOf(b)' = DOMAIN Store'[b]
BY DEF Store, MapOf

LEMMA LinkLength ==
  ASSUME NEW K, NEW V, NEW chain, IsChain(chain, K, V), NEW k \in K, NEW v \in V
  PROVE  Len(Link(chain, k, v)) = IF Has(chain, k) THEN Len(chain) ELSE Len(chain) + 1
<1>1. chain \in Seq([key : K, value : V]) /\ [key |-> k, value |-> v] \in [key : K, value : V]
  BY DEF IsChain
<1>2. CASE Has(chain, k)
  <2>1. At(chain, k) \in 1 .. Len(chain)
    BY <1>2, AtHas
  <2> QED BY <1>1, <1>2, <2>1 DEF Link
<1>3. CASE ~Has(chain, k)
  <2>1. Len(<<[key |-> k, value |-> v]>> \o chain) = Len(chain) + 1
    BY <1>1, ConsElements
  <2> QED BY <1>3, <2>1 DEF Link
<1> QED BY <1>2, <1>3

LEMMA UnlinkLength ==
  ASSUME NEW K, NEW V, NEW chain, IsChain(chain, K, V), NEW k, Has(chain, k)
  PROVE  Len(Unlink(chain, k)) = Len(chain) - 1
<1> DEFINE a == At(chain, k)
<1>1. chain \in Seq([key : K, value : V]) /\ a \in 1 .. Len(chain)
  BY AtHas DEF IsChain
<1>2. \A i \in 1 .. Len(chain) : chain[i] = chain[a] => i = a
  BY <1>1 DEF IsChain
<1> HIDE DEF a
<1>3. Len(Without(chain, a)) = Len(chain) - 1
  BY <1>1, <1>2, WithoutElements
<1> QED BY <1>3 DEF Unlink, a

\* one chain of b is replaced
LEMMA ReplacedSize ==
  ASSUME Shape, NEW b \in Boxes, NEW k \in Keys, NEW ch \in Seq(Binding), Replaces(b, k, ch)
  PROVE  /\ Size(b)' = Size(b) + Len(ch) - Len(Chain(b, k))
         /\ \A c \in Boxes \ {b} : Size(c)' = Size(c)
<1> DEFINE n == Bucket(k)
<1>1. n \in 0 .. NBuckets - 1 /\ buckets \in [Boxes -> [0 .. NBuckets - 1 -> Seq(Binding)]]
  BY BucketInTable DEF Shape
<1>2. PICK tab : tab = buckets[b]
  OBVIOUS
<1>3. /\ NBuckets \in Nat /\ IsTable(tab, NBuckets, Binding) /\ n \in DOMAIN tab
      /\ tab[n] = Chain(b, k)
  BY <1>1, <1>2, BoxIsTable DEF Chain
<1>4. buckets'[b] = [tab EXCEPT ![n] = ch] /\ \A c \in Boxes \ {b} : buckets'[c] = buckets[c]
  BY <1>1, <1>2 DEF Replaces
<1> HIDE DEF n
<1>5. TotalLength([tab EXCEPT ![n] = ch], NBuckets) = TotalLength(tab, NBuckets) + Len(ch) - Len(tab[n])
  BY <1>3, TotalReplaced
<1>6. \A c : Size(c)' = TotalLength(buckets'[c], NBuckets)
  BY DEF Size, TotalLength
<1> QED BY <1>2, <1>3, <1>4, <1>5, <1>6 DEF Size

LEMMA BooksKept ==
  ASSUME Books, Store' = Store, UNCHANGED <<buckets, length, heap>>
  PROVE  Books'
<1>1. \A c \in Boxes : KeysOf(c)' = KeysOf(c) /\ Size(c)' = Size(c)
  BY StoreKeys, StoreKeysNext DEF Size, TotalLength
<1>2. Owned' = Owned
  BY <1>1 DEF Owned
<1> QED BY <1>1, <1>2 DEF Books, heap

LEMMA PutBooks ==
  ASSUME Shape, Books, NEW b \in Boxes, NEW k \in Keys, NEW v \in Values, Put(b, k, v)
  PROVE  Books'
<1>1. Store' = [Store EXCEPT ![b] = Map!Bind(MapOf(b), k, v)]
  BY PutStep
<1>2. KeysOf(b)' = KeysOf(b) \cup {k} /\ \A c \in Boxes \ {b} : KeysOf(c)' = KeysOf(c)
  BY <1>1, StoreKeys, StoreKeysNext, ZenonT(120) DEF Store, Map!Bind
<1>3. HasKey(b, k) <=> k \in KeysOf(b)
  BY DEF KeysOf
<1>4. PICK ch : ch = Link(Chain(b, k), k, v)
  OBVIOUS
<1>5. Replaces(b, k, ch)
  BY <1>4 DEF Put, Replaces
<1>6. Len(Chain(b, k)) \in Nat
  BY ChainShape DEF IsChain
<1>7. ch \in Seq(Binding) /\ Len(ch) = IF HasKey(b, k) THEN Len(Chain(b, k)) ELSE Len(Chain(b, k)) + 1
  <2>1. PICK old : old = Chain(b, k)
    OBVIOUS
  <2>2. IsChain(old, Keys, Values) /\ ch = Link(old, k, v)
    BY <1>4, <2>1, ChainShape
  <2>3. IsChain(ch, Keys, Values) /\ Len(ch) = IF Has(old, k) THEN Len(old) ELSE Len(old) + 1
    BY <2>2, LinkChain, LinkLength
  <2>4. ch \in Seq(Binding)
    BY <2>3 DEF IsChain, Binding
  <2> QED BY <2>1, <2>3, <2>4 DEF HasKey
<1>8. /\ Size(b)' = Size(b) + Len(ch) - Len(Chain(b, k)) /\ Size(b) \in Nat
      /\ \A c \in Boxes \ {b} : Size(c)' = Size(c)
  BY <1>5, <1>7, ReplacedSize, PairsFacts
<1>9. /\ length \in [Boxes -> Nat] /\ length[b] = Size(b) /\ keyvals = bindings /\ bindings \in Nat
      /\ IsFiniteSet(KeysOf(b)) /\ length[b] = Cardinality(KeysOf(b))
      /\ IsFiniteSet(Owned) /\ bindings = Cardinality(Owned)
  BY DEF Books
<1>10. Owned' = Owned \cup {<<b, k>>}
  <2>1. Owned' = {x \in Boxes \X Keys : x[2] \in KeysOf(x[1])'}
    BY DEF Owned
  <2> QED BY <1>2, <2>1 DEF Owned
<1>11. <<b, k>> \in Owned <=> HasKey(b, k)
  BY <1>3 DEF Owned
<1>12. CASE HasKey(b, k)
  <2>1. /\ length' = length /\ keyvals' = keyvals /\ bindings' = bindings
        /\ Owned' = Owned /\ KeysOf(b)' = KeysOf(b) /\ Size(b)' = Size(b)
    BY <1>2, <1>3, <1>6, <1>7, <1>8, <1>9, <1>10, <1>11, <1>12, SMTT(60) DEF Put, Account
  <2> QED BY <1>2, <1>8, <2>1 DEF Books
<1>13. CASE ~HasKey(b, k)
  <2>1. /\ length' = [length EXCEPT ![b] = length[b] + 1] /\ keyvals' = keyvals + 1 /\ bindings' = bindings + 1
    BY <1>13 DEF Put, Account
  <2>2. Size(b)' = Size(b) + 1
    BY <1>6, <1>7, <1>8, <1>13
  <2>3. IsFiniteSet(KeysOf(b)') /\ Cardinality(KeysOf(b)') = Cardinality(KeysOf(b)) + 1
    <3>1. IsFiniteSet(KeysOf(b) \cup {k}) /\ Cardinality(KeysOf(b) \cup {k}) = Cardinality(KeysOf(b)) + 1
      BY <1>3, <1>9, <1>13, FS_AddElement
    <3> QED BY <1>2, <3>1
  <2>4. IsFiniteSet(Owned') /\ Cardinality(Owned') = Cardinality(Owned) + 1
    <3>1. /\ IsFiniteSet(Owned \cup {<<b, k>>})
          /\ Cardinality(Owned \cup {<<b, k>>}) = Cardinality(Owned) + 1
      BY <1>9, <1>11, <1>13, FS_AddElement
    <3> QED BY <1>10, <3>1
  <2>5. length'[b] = length[b] + 1 /\ \A c \in Boxes \ {b} : length'[c] = length[c]
    BY <1>9, <2>1
  <2>6. \A c \in Boxes : /\ length'[c] = Size(c)' /\ length'[c] \in Nat
                         /\ IsFiniteSet(KeysOf(c)') /\ length'[c] = Cardinality(KeysOf(c)')
    <3> TAKE c \in Boxes
    <3>1. CASE c = b
      BY <1>9, <2>2, <2>3, <2>5, <3>1
    <3>2. CASE c # b
      BY <1>2, <1>8, <2>5, <3>2 DEF Books
    <3> QED BY <3>1, <3>2
  <2>7. length' \in [Boxes -> Nat]
    BY <1>9, <2>1, <2>6
  <2> QED BY <1>9, <2>1, <2>4, <2>6, <2>7 DEF Books
<1> QED BY <1>12, <1>13

LEMMA DelBooks ==
  ASSUME Shape, Books, NEW b \in Boxes, NEW k \in Keys, DelKey(b, k)
  PROVE  Books'
<1>1. Store' = [Store EXCEPT ![b] = Map!Unbind(MapOf(b), k)]
  BY DelStep
<1>2. KeysOf(b)' = KeysOf(b) \ {k} /\ \A c \in Boxes \ {b} : KeysOf(c)' = KeysOf(c)
  BY <1>1, StoreKeys, StoreKeysNext, ZenonT(120) DEF Store, Map!Unbind
<1>3. HasKey(b, k) /\ k \in KeysOf(b)
  BY DEF DelKey, KeysOf
<1>4. PICK ch : ch = Unlink(Chain(b, k), k)
  OBVIOUS
<1>5. Replaces(b, k, ch)
  BY <1>4 DEF DelKey, Replaces
<1>6. Len(Chain(b, k)) \in Nat
  BY ChainShape DEF IsChain
<1>7. ch \in Seq(Binding) /\ Len(ch) = Len(Chain(b, k)) - 1
  <2>1. PICK old : old = Chain(b, k)
    OBVIOUS
  <2>2. IsChain(old, Keys, Values) /\ ch = Unlink(old, k) /\ Has(old, k)
    BY <1>3, <1>4, <2>1, ChainShape DEF HasKey
  <2>3. IsChain(ch, Keys, Values) /\ Len(ch) = Len(old) - 1
    BY <2>2, UnlinkChain, UnlinkLength
  <2>4. ch \in Seq(Binding)
    BY <2>3 DEF IsChain, Binding
  <2> QED BY <2>1, <2>3, <2>4
<1>8. /\ Size(b)' = Size(b) + Len(ch) - Len(Chain(b, k)) /\ Size(b) \in Nat
      /\ \A c \in Boxes \ {b} : Size(c)' = Size(c)
  BY <1>5, <1>7, ReplacedSize, PairsFacts
<1>9. /\ length \in [Boxes -> Nat] /\ length[b] = Size(b) /\ keyvals = bindings /\ bindings \in Nat
      /\ IsFiniteSet(KeysOf(b)) /\ length[b] = Cardinality(KeysOf(b))
      /\ IsFiniteSet(Owned) /\ bindings = Cardinality(Owned)
  BY DEF Books
<1>10. Owned' = Owned \ {<<b, k>>}
  <2>1. Owned' = {x \in Boxes \X Keys : x[2] \in KeysOf(x[1])'}
    BY DEF Owned
  <2> QED BY <1>2, <2>1 DEF Owned
<1>11. <<b, k>> \in Owned
  BY <1>3 DEF Owned
<1>12. /\ length' = [length EXCEPT ![b] = length[b] - 1]
       /\ keyvals' = keyvals - 1 /\ bindings' = bindings - 1
  BY DEF DelKey
<1>13. Size(b)' = Size(b) - 1
  BY <1>6, <1>7, <1>8
<1>14. /\ IsFiniteSet(KeysOf(b)') /\ Cardinality(KeysOf(b)') = Cardinality(KeysOf(b)) - 1
       /\ Cardinality(KeysOf(b)') \in Nat
  <2>1. /\ IsFiniteSet(KeysOf(b) \ {k}) /\ Cardinality(KeysOf(b) \ {k}) = Cardinality(KeysOf(b)) - 1
        /\ Cardinality(KeysOf(b) \ {k}) \in Nat
    BY <1>3, <1>9, FS_RemoveElement, FS_CardinalityType
  <2> QED BY <1>2, <2>1
<1>15. /\ IsFiniteSet(Owned') /\ Cardinality(Owned') = Cardinality(Owned) - 1
       /\ Cardinality(Owned') \in Nat
  <2>1. /\ IsFiniteSet(Owned \ {<<b, k>>}) /\ Cardinality(Owned \ {<<b, k>>}) = Cardinality(Owned) - 1
        /\ Cardinality(Owned \ {<<b, k>>}) \in Nat
    BY <1>9, <1>11, FS_RemoveElement, FS_CardinalityType
  <2> QED BY <1>10, <2>1
<1>16. length'[b] = length[b] - 1 /\ \A c \in Boxes \ {b} : length'[c] = length[c]
  BY <1>9, <1>12
<1>17. \A c \in Boxes : /\ length'[c] = Size(c)' /\ length'[c] \in Nat
                        /\ IsFiniteSet(KeysOf(c)') /\ length'[c] = Cardinality(KeysOf(c)')
  <2> TAKE c \in Boxes
  <2>1. CASE c = b
    BY <1>9, <1>13, <1>14, <1>16, <2>1
  <2>2. CASE c # b
    BY <1>2, <1>8, <1>16, <2>2 DEF Books
  <2> QED BY <2>1, <2>2
<1>18. length' \in [Boxes -> Nat]
  BY <1>9, <1>12, <1>17
<1> QED BY <1>9, <1>12, <1>15, <1>17, <1>18 DEF Books

LEMMA EmptySize == TotalLength(EmptyTable, NBuckets) = 0
<1>1. NBuckets \in Nat /\ IsTable(EmptyTable, NBuckets, Binding)
  BY BoxAssumption, EmptyTableHasNothing DEF IsTable
<1> QED BY <1>1, TotalBounds, EmptyTableHasNothing

\* a box is born as one that is not allocated already is
LEMMA NewBooks ==
  ASSUME Shape, Books, NEW b \in Boxes, NewBox(b)
  PROVE  Books'
<1>1. buckets' = buckets
  <2>1. buckets[b] = EmptyTable \/ UNCHANGED buckets
    BY DEF NewBox, Shape
  <2>2. buckets' = [buckets EXCEPT ![b] = EmptyTable] \/ UNCHANGED buckets
    BY DEF NewBox, Fails
  <2> QED BY <2>1, <2>2 DEF Shape, NewBox, Fails
<1>2. Store' = Store
  <2>1. \A c, x : Chain(c, x)' = Chain(c, x)
    BY <1>1 DEF Chain, Bucket
  <2>2. \A c \in Boxes : MapOf(c)' = MapOf(c)
    BY <2>1, SearchInChain, SameMap
  <2> QED BY <2>2 DEF Store
<1>3. length' = length /\ UNCHANGED heap
  <2>1. CASE UNCHANGED length /\ UNCHANGED heap
    BY <2>1
  <2>2. CASE ~(UNCHANGED length /\ UNCHANGED heap)
    <3>1. buckets[b] = EmptyTable /\ length' = [length EXCEPT ![b] = 0] /\ UNCHANGED heap
      BY <2>2 DEF NewBox, Fails, Shape
    <3>2. length[b] = 0 /\ length \in [Boxes -> Nat]
      BY <3>1, EmptySize DEF Books, Size
    <3> QED BY <3>1, <3>2
  <2> QED BY <2>1, <2>2
<1> QED BY <1>1, <1>2, <1>3, BooksKept

\* amp_free_box frees a pair and a binding for each key
LEMMA FreeBooks ==
  ASSUME Shape, Books, NEW b \in Boxes, FreeBox(b)
  PROVE  Books'
<1>1. /\ alive' = alive \ {b} /\ buckets' = [buckets EXCEPT ![b] = EmptyTable]
      /\ length' = [length EXCEPT ![b] = 0]
      /\ keyvals' = keyvals - Len(Pairs(b)) /\ bindings' = bindings - Len(Pairs(b))
  BY DEF FreeBox
<1>2. Store' = [Store EXCEPT ![b] = Map!Empty]
  BY <1>1, ClearStep DEF Shape
<1>3. KeysOf(b)' = {} /\ \A c \in Boxes \ {b} : KeysOf(c)' = KeysOf(c)
  BY <1>2, StoreKeys, StoreKeysNext, ZenonT(120) DEF Store, Map!Empty
<1>4. /\ length \in [Boxes -> Nat] /\ keyvals = bindings /\ bindings \in Nat
      /\ IsFiniteSet(KeysOf(b)) /\ Len(Pairs(b)) = Cardinality(KeysOf(b))
      /\ IsFiniteSet(Owned) /\ bindings = Cardinality(Owned)
  BY PairsFacts DEF Books
<1>5. buckets'[b] = EmptyTable /\ \A c \in Boxes \ {b} : buckets'[c] = buckets[c]
  BY <1>1 DEF Shape
<1>6. Size(b)' = 0 /\ \A c \in Boxes \ {b} : Size(c)' = Size(c)
  <2>1. \A c : Size(c)' = TotalLength(buckets'[c], NBuckets)
    BY DEF Size, TotalLength
  <2> QED BY <1>5, <2>1, EmptySize DEF Size
<1>7. \A c \in Boxes : /\ length'[c] = Size(c)' /\ length'[c] \in Nat
                       /\ IsFiniteSet(KeysOf(c)') /\ length'[c] = Cardinality(KeysOf(c)')
  <2> TAKE c \in Boxes
  <2>1. CASE c = b
    BY <1>1, <1>3, <1>4, <1>6, <2>1, FS_EmptySet
  <2>2. CASE c # b
    BY <1>1, <1>3, <1>4, <1>6, <2>2 DEF Books
  <2> QED BY <2>1, <2>2
<1>8. length' \in [Boxes -> Nat]
  BY <1>1, <1>4
<1>9. /\ IsFiniteSet(Owned') /\ Cardinality(Owned') = Cardinality(Owned) - Cardinality(KeysOf(b))
      /\ Cardinality(Owned') \in Nat
  <2> DEFINE gone == {b} \X KeysOf(b)
  <2>1. Owned' = Owned \ gone
    <3>1. Owned' = {x \in Boxes \X Keys : x[2] \in KeysOf(x[1])'}
      BY DEF Owned
    <3>2. Owned = {x \in Boxes \X Keys : x[2] \in KeysOf(x[1])}
      BY DEF Owned
    <3> QED BY <1>3, <3>1, <3>2
  <2>2. Owned \cap gone = gone
    BY DEF Owned, KeysOf
  <2>3. Cardinality(KeysOf(b)) \in Nat /\ IsFiniteSet({b}) /\ Cardinality({b}) = 1
    BY <1>4, FS_CardinalityType, FS_Singleton
  <2>4. Cardinality(gone) = Cardinality(KeysOf(b))
    <3>1. Cardinality(gone) = Cardinality({b}) * Cardinality(KeysOf(b))
      BY <1>4, <2>3, FS_Product
    <3> QED BY <2>3, <3>1
  <2> HIDE DEF gone
  <2>5. /\ IsFiniteSet(Owned \ gone) /\ Cardinality(Owned \ gone) = Cardinality(Owned) - Cardinality(Owned \cap gone)
        /\ Cardinality(Owned \ gone) \in Nat
    BY <1>4, FS_Difference, FS_CardinalityType
  <2> QED BY <2>1, <2>2, <2>4, <2>5
<1> QED BY <1>1, <1>4, <1>7, <1>8, <1>9 DEF Books

LEMMA InitBooks == Init => Books /\ Results
<1> SUFFICES ASSUME Init PROVE Books /\ Results
  OBVIOUS
<1>1. \A b \in Boxes : buckets[b] = EmptyTable /\ length[b] = 0
  BY DEF Init
<1>2. \A b \in Boxes : Size(b) = 0
  BY <1>1, EmptySize DEF Size
<1>3. \A b \in Boxes : KeysOf(b) = {}
  <2> TAKE b \in Boxes
  <2>1. DOMAIN MapOf(b) = {}
    BY <1>1, NoKeys DEF Map!Empty
  <2> QED BY <2>1 DEF MapOf
<1>4. Owned = {}
  BY <1>3 DEF Owned
<1>5. length \in [Boxes -> Nat] /\ keyvals = 0 /\ bindings = 0
  BY DEF Init
<1>6. Books
  BY <1>1, <1>2, <1>3, <1>4, <1>5, FS_EmptySet DEF Books
<1> QED BY <1>6 DEF Results, Init

LEMMA BooksStep ==
  ASSUME Shape, Books, Results, [Next]_vars
  PROVE  Books' /\ Results'
<1> DEFINE Done == Books' /\ Results'
<1>1. ASSUME NEW code \in {"ENOMEM", "AMP_BAD_KEY_SIZE", "AMP_BAD_VAL_SIZE", "AMP_BOX_EMPTY", "NOT_DELETED"},
             Fails(code)
      PROVE  Done
  <2>1. Books'
    BY <1>1, SameChains, BooksKept DEF Fails
  <2>2. got' = Absent /\ err' = code
    BY <1>1 DEF Fails
  <2> QED BY <2>1, <2>2 DEF Results
<1>2. ASSUME err' = "OK", got' = Absent PROVE Results'
  BY <1>2 DEF Results
<1>3. CASE UNCHANGED vars
  <2>1. Store' = Store /\ UNCHANGED <<buckets, length, heap>>
    BY <1>3, SameChains DEF vars
  <2> QED BY <1>3, <2>1, BooksKept DEF Results, vars
<1>4. ASSUME NEW b \in Boxes, NewBox(b) PROVE Done
  BY <1>1, <1>2, <1>4, NewBooks DEF NewBox
<1>5. ASSUME NEW b \in Boxes, FreeBox(b) PROVE Done
  BY <1>2, <1>5, FreeBooks DEF FreeBox
<1>6. ASSUME NEW b \in Boxes, Serialize(b) PROVE Done
  <2>1. CASE err' = "OK" /\ got' = Absent /\ UNCHANGED <<alive, buckets, length, heap>>
    BY <1>2, <2>1, SameChains, BooksKept
  <2> QED BY <1>1, <1>6, <2>1 DEF Serialize
<1>7. ASSUME NEW b \in Boxes, NEW k \in Keys, DelKey(b, k) PROVE Done
  BY <1>2, <1>7, DelBooks DEF DelKey
<1>8. ASSUME NEW b \in Boxes, NEW k \in Keys, DelMissing(b, k) PROVE Done
  BY <1>1, <1>8 DEF DelMissing
<1>9. ASSUME NEW b \in Boxes, NEW k \in Keys, Get(b, k) PROVE Done
  <2>1. Books'
    BY <1>9, SameChains, BooksKept DEF Get
  <2>2. Results'
    BY <1>9, PairsFacts DEF Get, Results
  <2> QED BY <2>1, <2>2
<1>10. ASSUME NEW b \in Boxes, NEW k \in Keys, NEW v \in Values, PutRefused(b, k, v) PROVE Done
  BY <1>1, <1>10 DEF PutRefused
<1>11. ASSUME NEW b \in Boxes, NEW k \in Keys, NEW v \in Values, PutOom(b, k, v) PROVE Done
  BY <1>1, <1>11 DEF PutOom
<1>12. ASSUME NEW b \in Boxes, NEW k \in Keys, NEW v \in Values, Put(b, k, v) PROVE Done
  BY <1>2, <1>12, PutBooks DEF Put
<1> QED BY <1>3, <1>4, <1>5, <1>6, <1>7, <1>8, <1>9, <1>10, <1>11, <1>12 DEF Next

LEMMA AskedStep ==
  ASSUME Shape, asked \in Requests, [Next]_vars
  PROVE  asked' \in Requests
<1>1. CASE UNCHANGED vars
  BY <1>1 DEF vars
<1>2. ASSUME NEW b \in Boxes, NewBox(b) \/ FreeBox(b) \/ Serialize(b) PROVE asked' \in Requests
  BY <1>2 DEF NewBox, FreeBox, Serialize, Requests
<1>3. ASSUME NEW b \in Boxes, NEW k \in Keys, DelKey(b, k) \/ DelMissing(b, k) \/ Get(b, k)
      PROVE  asked' \in Requests
  BY <1>3 DEF DelKey, DelMissing, Get, Requests
<1>4. ASSUME NEW b \in Boxes, NEW k \in Keys, NEW v \in Values,
             PutRefused(b, k, v) \/ PutOom(b, k, v) \/ Put(b, k, v)
      PROVE  asked' \in Requests
  BY <1>4 DEF PutRefused, PutOom, Put, Requests
<1> QED BY <1>1, <1>2, <1>3, <1>4 DEF Next

Inv == Shape /\ Books /\ Results /\ asked \in Requests

LEMMA InvHolds == Spec => []Inv
<1>1. Inv /\ [Next]_vars => Inv'
  <2> SUFFICES ASSUME Inv, [Next]_vars PROVE Inv'
    OBVIOUS
  <2>1. Shape' /\ Books' /\ Results' /\ asked' \in Requests
    BY StepLemma, BooksStep, AskedStep DEF Inv, StepOfMap
  <2> QED BY <2>1 DEF Inv, Requests
<1>2. Init => Inv
  <2>1. Init => asked \in Requests
    BY DEF Init, Requests
  <2> QED BY <2>1, InitShape, InitBooks DEF Inv
<1> QED BY <1>1, <1>2, PTL DEF Spec

\* with equal numbers of keys, one way is both ways
LEMMA EqualIsSame ==
  ASSUME Inv, NEW b \in Boxes, NEW c \in Boxes
  PROVE  Equal(b, c) <=> MapOf(b) = MapOf(c)
<1>1. /\ IsFiniteSet(KeysOf(b)) /\ length[b] = Cardinality(KeysOf(b))
      /\ IsFiniteSet(KeysOf(c)) /\ length[c] = Cardinality(KeysOf(c))
  BY DEF Inv, Books
<1>2. /\ \A p \in Elements(Pairs(b)) : p \in Binding /\ HasKey(b, p.key) /\ ValueOf(b, p.key) = p.value
      /\ \A k \in Keys : HasKey(b, k) => [key |-> k, value |-> ValueOf(b, k)] \in Elements(Pairs(b))
  BY PairsFacts DEF Inv
<1> DEFINE OneWay == \A p \in Elements(Pairs(b)) : HasKey(c, p.key) /\ ValueOf(c, p.key) = p.value
<1>3. Equal(b, c) <=> length[b] = length[c] /\ OneWay
  BY DEF Equal, NumKeys, Elements
<1>4. OneWay <=> \A k \in KeysOf(b) : HasKey(c, k) /\ ValueOf(c, k) = ValueOf(b, k)
  <2>1. ASSUME OneWay, NEW k \in KeysOf(b) PROVE HasKey(c, k) /\ ValueOf(c, k) = ValueOf(b, k)
    BY <1>2, <2>1 DEF KeysOf
  <2>2. ASSUME \A k \in KeysOf(b) : HasKey(c, k) /\ ValueOf(c, k) = ValueOf(b, k),
               NEW p \in Elements(Pairs(b))
        PROVE  HasKey(c, p.key) /\ ValueOf(c, p.key) = p.value
    <3>1. p.key \in KeysOf(b)
      BY <1>2 DEF KeysOf, Binding
    <3> QED BY <1>2, <2>2, <3>1
  <2> QED BY <2>1, <2>2
<1>5. ASSUME Equal(b, c) PROVE MapOf(b) = MapOf(c)
  <2>1. KeysOf(b) \subseteq KeysOf(c)
    BY <1>3, <1>4, <1>5 DEF KeysOf
  <2>2. KeysOf(b) = KeysOf(c)
    BY <1>1, <1>3, <1>5, <2>1, FS_Subset
  <2> QED BY <1>3, <1>4, <1>5, <2>2 DEF MapOf
<1>6. ASSUME MapOf(b) = MapOf(c) PROVE Equal(b, c)
  <2>1. KeysOf(b) = KeysOf(c)
    BY <1>6 DEF MapOf
  <2>2. \A k \in KeysOf(b) : HasKey(c, k) /\ ValueOf(c, k) = ValueOf(b, k)
    BY <1>6, <2>1, MapFacts DEF KeysOf
  <2> QED BY <1>1, <1>3, <1>4, <2>1, <2>2
<1> QED BY <1>5, <1>6

-----------------------------------------------------------------------------
(* The bytes of a list of pairs *)

Byte == 0 .. R - 1

GoodPair(p) == p \in Binding /\ GoodKey(p.key) /\ GoodValue(p.value)

LEMMA BytesTyped ==
  ASSUME NEW p, GoodPair(p)
  PROVE  /\ p.key \in Seq(Byte) /\ p.value \in Seq(Byte)
         /\ Len(p.key) \in 1 .. R - 1 /\ Len(p.key) \in Byte /\ 0 \in Byte
         /\ Len(p.value) \div R \in Byte /\ Len(p.value) % R \in Byte
         /\ R * (Len(p.value) \div R) + (Len(p.value) % R) = Len(p.value)
         /\ <<0, Len(p.key)>> \in Seq(Byte)
         /\ <<Len(p.value) \div R, Len(p.value) % R>> \in Seq(Byte)
         /\ Bytes(p) \in Seq(Byte)
         /\ Len(Bytes(p)) = 4 + Len(p.key) + Len(p.value)
<1>1. R \in Nat /\ R >= 2
  BY BoxAssumption
<1>2. p.key \in Seq(1 .. R - 1) /\ p.value \in Seq(0 .. R - 1)
  BY BoxAssumption DEF GoodPair, Binding
<1>3. PICK key \in Seq(Byte), value \in Seq(Byte) : key = p.key /\ value = p.value
  <2>1. 1 .. R - 1 \subseteq Byte
    BY <1>1 DEF Byte
  <2>2. p.key \in Seq(Byte)
    BY <1>2, <2>1, SeqMonotonic
  <2>3. p.value \in Seq(Byte)
    BY <1>2 DEF Byte
  <2> QED BY <2>2, <2>3
<1>4. PICK m \in Nat : m = Len(key) /\ m \in 1 .. R - 1 /\ m \in Byte /\ 0 \in Byte
  BY <1>1, <1>3 DEF GoodPair, GoodKey, MAX_KEY_LENGTH, Byte
<1>5. PICK n \in Nat : n = Len(value) /\ n <= R * R - 1
  BY <1>3 DEF GoodPair, GoodValue, MAX_VALUE_LENGTH
<1>6. PICK q \in Int, r \in 0 .. R - 1 : q = n \div R /\ r = n % R /\ n = R * q + r
  BY <1>1
<1>7. q \in Byte /\ r \in Byte
  <2>1. q >= 0
    <3> SUFFICES ASSUME q <= -1 PROVE FALSE
      BY <1>6
    <3>1. R * q <= R * (-1)
      BY <1>1, <1>6
    <3> QED BY <1>1, <1>6, <3>1
  <2>2. q <= R - 1
    <3> SUFFICES ASSUME q >= R PROVE FALSE
      BY <1>1, <1>6
    <3>1. R * q >= R * R
      BY <1>1, <1>6, SMTT(60)
    <3> QED BY <1>1, <1>5, <1>6, <3>1
  <2> QED BY <1>6, <2>1, <2>2 DEF Byte
<1>8. <<0, m>> \in Seq(Byte) /\ <<q, r>> \in Seq(Byte)
  BY <1>4, <1>7
<1>9. PICK a \in Seq(Byte) : a = <<0, m>> /\ Len(a) = 2
  BY <1>8
<1>10. PICK b \in Seq(Byte) : b = <<q, r>> /\ Len(b) = 2
  BY <1>8
<1>11. Bytes(p) = a \o key \o b \o value
  BY <1>3, <1>4, <1>5, <1>6, <1>9, <1>10 DEF Bytes
<1>12. /\ a \o key \o b \o value \in Seq(Byte)
       /\ Len(a \o key \o b \o value) = 4 + m + n
  <2>1. a \o key \in Seq(Byte) /\ Len(a \o key) = 2 + m
    BY <1>4, <1>9, <1>10, ConcatProperties
  <2>2. a \o key \o b \in Seq(Byte) /\ Len(a \o key \o b) = 4 + m
    BY <1>4, <1>9, <1>10, <2>1, ConcatProperties
  <2>3. PICK d \in Seq(Byte) : d = a \o key \o b /\ Len(d) = 4 + m
    BY <2>2
  <2>4. d \o value \in Seq(Byte) /\ Len(d \o value) = Len(d) + Len(value)
    BY ConcatProperties
  <2> QED BY <1>4, <1>5, <2>3, <2>4
<1> QED BY <1>3, <1>4, <1>5, <1>6, <1>7, <1>8, <1>11, <1>12

\* what is written after each pair, and the size computed after each pair
Wires(ps) == LET f[i \in 0 .. Len(ps)] == IF i = 0 THEN <<>> ELSE f[i - 1] \o Bytes(ps[i])
             IN  f
Sizes(ps) ==
  LET f[i \in 0 .. Len(ps)] == IF i = 0 THEN 2 ELSE f[i - 1] + 4 + Len(ps[i].key) + Len(ps[i].value)
  IN  f

LEMMA WrittenIs == \A ps : /\ Written(ps) = Wires(ps)[Len(ps)] \o <<0, 0>>
                           /\ WireSize(ps) = Sizes(ps)[Len(ps)]
BY DEF Written, Wires, WireSize, Sizes

GoodPairs(ps) == ps \in Seq(Binding) /\ \A i \in 1 .. Len(ps) : GoodPair(ps[i])

LEMMA WiresIs ==
  ASSUME NEW ps, GoodPairs(ps)
  PROVE  /\ Wires(ps) \in [0 .. Len(ps) -> Seq(Byte)]
         /\ Wires(ps)[0] = <<>>
         /\ \A i \in 0 .. Len(ps) - 1 : Wires(ps)[i + 1] = Wires(ps)[i] \o Bytes(ps[i + 1])
<1> DEFINE N == Len(ps)
           f[i \in 0 .. N] == IF i = 0 THEN <<>> ELSE f[i - 1] \o Bytes(ps[i])
           step == [x \in (0 .. N - 1) \X Seq(Byte) |-> x[2] \o Bytes(ps[x[1] + 1])]
<1>0. N \in Nat /\ \A i \in 0 .. N - 1 : Bytes(ps[i + 1]) \in Seq(Byte)
  <2>1. N \in Nat
    BY DEF GoodPairs
  <2>2. ASSUME NEW i \in 0 .. N - 1 PROVE Bytes(ps[i + 1]) \in Seq(Byte)
    <3>1. i + 1 \in 1 .. N
      BY <2>1
    <3>2. GoodPair(ps[i + 1])
      BY <3>1 DEF GoodPairs
    <3> QED BY <3>2, BytesTyped
  <2> QED BY <2>1, <2>2
<1>1. step \in [(0 .. N - 1) \X Seq(Byte) -> Seq(Byte)]
  <2>1. \A x \in (0 .. N - 1) \X Seq(Byte) : x[2] \o Bytes(ps[x[1] + 1]) \in Seq(Byte)
    BY <1>0, ConcatProperties
  <2> QED BY <2>1
<1>2. PICK g : Iterates(g, N, Seq(Byte), <<>>, step)
  <2>1. <<>> \in Seq(Byte)
    OBVIOUS
  <2> HIDE DEF step, f, N
  <2> QED BY <1>0, <1>1, <2>1, RecursionExists
<1>3. g = [i \in 0 .. N |-> IF i = 0 THEN <<>> ELSE g[i - 1] \o Bytes(ps[i])]
  <2>1. ASSUME NEW i \in 0 .. N, i # 0 PROVE g[i] = g[i - 1] \o Bytes(ps[i])
    <3>1. i - 1 \in 0 .. N - 1 /\ (i - 1) + 1 = i
      BY <1>0, <2>1
    <3>2. g[(i - 1) + 1] = step[<<i - 1, g[i - 1]>>]
      BY <1>2, <3>1, Zenon DEF Iterates
    <3>3. g[i - 1] \in Seq(Byte)
      BY <1>0, <1>2, <3>1 DEF Iterates
    <3> HIDE DEF N
    <3> QED BY <3>1, <3>2, <3>3
  <2> QED BY <1>2, <2>1 DEF Iterates
<1>4. f = [i \in 0 .. N |-> IF i = 0 THEN <<>> ELSE f[i - 1] \o Bytes(ps[i])]
  BY <1>3, Zenon DEF f
<1>5. f = Wires(ps)
  BY DEF Wires
<1> HIDE DEF f, step, N
<1>6. f[0] = <<>>
  BY <1>0, <1>4
<1>7. ASSUME NEW i \in 0 .. N - 1 PROVE f[i + 1] = f[i] \o Bytes(ps[i + 1])
  <2>1. i + 1 \in 0 .. N /\ i + 1 # 0 /\ (i + 1) - 1 = i
    BY <1>0
  <2>2. f[i + 1] = f[(i + 1) - 1] \o Bytes(ps[i + 1])
    BY <1>4, <2>1
  <2> QED BY <2>1, <2>2
<1>8. \A i \in 0 .. N : f[i] \in Seq(Byte)
  <2> DEFINE T == {i \in 0 .. N : f[i] \in Seq(Byte)}
  <2>1. 0 \in T
    <3>1. <<>> \in Seq(Byte) /\ 0 \in 0 .. N
      BY <1>0
    <3> QED BY <1>6, <3>1
  <2>2. ASSUME NEW i \in 0 .. N - 1, i \in T PROVE i + 1 \in T
    <3>1. i + 1 \in 0 .. N /\ Bytes(ps[i + 1]) \in Seq(Byte) /\ f[i] \in Seq(Byte)
      BY <1>0, <2>2
    <3>2. f[i + 1] = f[i] \o Bytes(ps[i + 1])
      BY <1>7
    <3>3. f[i + 1] \in Seq(Byte)
      BY <3>1, <3>2, ConcatProperties
    <3> QED BY <3>1, <3>3
  <2> HIDE DEF T
  <2>3. \A i \in 0 .. N : i \in T
    BY <1>0, <2>1, <2>2, UpTo
  <2> QED BY <2>3 DEF T
<1>9. f \in [0 .. N -> Seq(Byte)]
  BY <1>4, <1>8
<1> QED BY <1>5, <1>6, <1>7, <1>9 DEF N

LEMMA SizesIs ==
  ASSUME NEW ps, GoodPairs(ps)
  PROVE  /\ Sizes(ps)[0] = 2
         /\ \A i \in 0 .. Len(ps) - 1 :
              Sizes(ps)[i + 1] = Sizes(ps)[i] + 4 + Len(ps[i + 1].key) + Len(ps[i + 1].value)
<1> DEFINE N == Len(ps)
           add == [i \in 1 .. N |-> 4 + Len(ps[i].key) + Len(ps[i].value)]
           f[i \in 0 .. N] == IF i = 0 THEN 2 ELSE f[i - 1] + 4 + Len(ps[i].key) + Len(ps[i].value)
           step == [x \in (0 .. N - 1) \X Nat |-> x[2] + add[x[1] + 1]]
<1>0. /\ N \in Nat
      /\ \A i \in 1 .. N : Len(ps[i].key) \in Nat /\ Len(ps[i].value) \in Nat
      /\ add \in [1 .. N -> Nat]
  <2>1. ASSUME NEW i \in 1 .. N PROVE Len(ps[i].key) \in Nat /\ Len(ps[i].value) \in Nat
    <3>1. GoodPair(ps[i])
      BY DEF GoodPairs
    <3> QED BY <3>1, BytesTyped, LenProperties
  <2>2. N \in Nat
    BY DEF GoodPairs
  <2>3. ASSUME NEW i \in 1 .. N PROVE 4 + Len(ps[i].key) + Len(ps[i].value) \in Nat
    <3>1. PICK x \in Nat : x = Len(ps[i].key)
      BY <2>1
    <3>2. PICK y \in Nat : y = Len(ps[i].value)
      BY <2>1
    <3>3. 4 + x + y \in Nat
      OBVIOUS
    <3> QED BY <3>1, <3>2, <3>3
  <2>4. add \in [1 .. N -> Nat]
    BY <2>3
  <2> QED BY <2>1, <2>2, <2>4
<1>1. step \in [(0 .. N - 1) \X Nat -> Nat]
  <2>1. ASSUME NEW x \in (0 .. N - 1) \X Nat PROVE x[2] + add[x[1] + 1] \in Nat
    <3>1. x[1] + 1 \in 1 .. N /\ x[2] \in Nat
      BY <1>0
    <3> HIDE DEF add
    <3>2. add[x[1] + 1] \in Nat
      BY <1>0, <3>1
    <3> QED BY <3>1, <3>2
  <2> HIDE DEF add
  <2> QED BY <2>1
<1>2. PICK g : Iterates(g, N, Nat, 2, step)
  <2>1. 2 \in Nat
    OBVIOUS
  <2> HIDE DEF step, f, N
  <2> QED BY <1>0, <1>1, <2>1, RecursionExists
<1>3. g = [i \in 0 .. N |-> IF i = 0 THEN 2 ELSE g[i - 1] + 4 + Len(ps[i].key) + Len(ps[i].value)]
  <2>1. ASSUME NEW i \in 0 .. N, i # 0
        PROVE  g[i] = g[i - 1] + 4 + Len(ps[i].key) + Len(ps[i].value)
    <3>1. i - 1 \in 0 .. N - 1 /\ (i - 1) + 1 = i /\ i \in 1 .. N
      BY <1>0, <2>1
    <3>2. g[(i - 1) + 1] = step[<<i - 1, g[i - 1]>>]
      BY <1>2, <3>1 DEF Iterates
    <3>3. g[i - 1] \in Nat
      BY <1>0, <1>2, <3>1, SMTT(60) DEF Iterates
    <3>4. g[i] = g[i - 1] + add[i]
      <4> HIDE DEF N, add
      <4> QED BY <3>1, <3>2, <3>3
    <3>5. add[i] = 4 + Len(ps[i].key) + Len(ps[i].value)
      BY <3>1
    <3>6. PICK x \in Nat : x = Len(ps[i].key)
      BY <1>0, <3>1
    <3>7. PICK y \in Nat : y = Len(ps[i].value)
      BY <1>0, <3>1
    <3>8. PICK z \in Nat : z = g[i - 1] /\ z + (4 + x + y) = z + 4 + x + y
      BY <3>3
    <3> HIDE DEF N, add
    <3> QED BY <3>4, <3>5, <3>6, <3>7, <3>8
  <2> QED BY <1>2, <2>1 DEF Iterates
<1>4. f = [i \in 0 .. N |-> IF i = 0 THEN 2 ELSE f[i - 1] + 4 + Len(ps[i].key) + Len(ps[i].value)]
  BY <1>3 DEF f
<1>5. f = Sizes(ps)
  BY DEF Sizes
<1> HIDE DEF f, step, N, add
<1>6. f[0] = 2
  BY <1>0, <1>4
<1>7. ASSUME NEW i \in 0 .. N - 1
      PROVE  f[i + 1] = f[i] + 4 + Len(ps[i + 1].key) + Len(ps[i + 1].value)
  <2>1. i + 1 \in 0 .. N /\ i + 1 # 0 /\ (i + 1) - 1 = i
    BY <1>0
  <2>2. f[i + 1] = f[(i + 1) - 1] + 4 + Len(ps[i + 1].key) + Len(ps[i + 1].value)
    BY <1>4, <2>1
  <2> QED BY <2>1, <2>2
<1> QED BY <1>5, <1>6, <1>7 DEF N

-----------------------------------------------------------------------------
(* Reading them back *)

\* x lies in w behind the first n bytes
Within(w, n, x) == \A i \in 1 .. Len(x) : w[n + i] = x[i]

LEMMA JoinBytes ==
  ASSUME NEW a \in Seq(Byte), NEW b \in Seq(Byte)
  PROVE  /\ a \o b \in Seq(Byte) /\ Len(a \o b) = Len(a) + Len(b)
         /\ Within(a \o b, 0, a) /\ Within(a \o b, Len(a), b)
<1>1. PICK w \in Seq(Byte) : w = a \o b
  BY ConcatProperties
<1>2. PICK m \in Nat : m = Len(a)
  BY LenProperties
<1>3. PICK n \in Nat : n = Len(b)
  BY LenProperties
<1>4. Len(w) = m + n /\ \A i \in 1 .. m + n : w[i] = IF i <= m THEN a[i] ELSE b[i - m]
  BY <1>1, <1>2, <1>3, ConcatProperties
<1>5. ASSUME NEW i \in 1 .. m PROVE w[0 + i] = a[i]
  <2>1. i \in 1 .. m + n /\ i <= m /\ 0 + i = i
    OBVIOUS
  <2> QED BY <1>4, <2>1
<1>6. ASSUME NEW i \in 1 .. n PROVE w[m + i] = b[i]
  <2>1. m + i \in 1 .. m + n /\ ~(m + i <= m) /\ (m + i) - m = i
    OBVIOUS
  <2>2. w[m + i] = b[(m + i) - m]
    BY <1>4, <2>1
  <2> QED BY <2>1, <2>2
<1> QED BY <1>1, <1>2, <1>3, <1>4, <1>5, <1>6 DEF Within

\* what lies in a part of w lies in w
LEMMA WithinPart ==
  ASSUME NEW w, NEW n \in Nat, NEW x, NEW m \in Nat, NEW y,
         Within(w, n, x), Within(x, m, y), NEW k \in Nat, Len(y) = k, NEW l \in Nat, Len(x) = l,
         m + k <= l, NEW j \in Nat, j = n + m
  PROVE  Within(w, j, y)
<1> SUFFICES ASSUME NEW i \in 1 .. k PROVE w[j + i] = y[i]
  BY DEF Within
<1>1. m + i \in 1 .. l /\ n + (m + i) = j + i
  OBVIOUS
<1>2. x[m + i] = y[i]
  BY DEF Within
<1>3. w[n + (m + i)] = x[m + i]
  BY <1>1 DEF Within
<1> QED BY <1>1, <1>2, <1>3

\* two bytes are the length of x, which lies in w behind the first o bytes
Counts(h, l, x) == R * h + l = Len(x)
Fits(w, o, x)   == Within(w, o, x) /\ o + Len(x) <= Len(w)

\* two bytes begin at p, behind the first n, and what follows them is behind o
Heads(n, p, o) == p = n + 1 /\ o = n + 2

\* an item: two bytes of length, and what they are the length of
LEMMA ItemIs ==
  ASSUME NEW w \in Seq(Byte), NEW n \in Nat, NEW p \in Nat, NEW o \in Nat, Heads(n, p, o),
         NEW h \in Byte, NEW l \in Byte, NEW x \in Seq(Byte), Counts(h, l, x),
         Within(w, n, <<h, l>>), Fits(w, o, x)
  PROVE  /\ LengthAt(w, p) = Len(x) /\ ItemAt(w, p) = x
         /\ After(w, p) = o + Len(x) + 1
<1> PICK k \in Nat : k = Len(x)
  BY LenProperties
<1> PICK e \in Nat : e = Len(w)
  BY LenProperties
<1>0. /\ R \in Nat /\ h \in Nat /\ l \in Nat
      /\ p = n + 1 /\ o = n + 2 /\ o + k <= e
  BY BoxAssumption DEF Byte, Heads, Fits
<1>1. w[n + 1] = h /\ w[n + 2] = l
  <2>1. Len(<<h, l>>) = 2 /\ <<h, l>>[1] = h /\ <<h, l>>[2] = l /\ 1 \in 1 .. 2 /\ 2 \in 1 .. 2
    OBVIOUS
  <2> QED BY <2>1 DEF Within
<1>2. LengthAt(w, p) = k
  <2>1. p = n + 1 /\ p + 1 = n + 2
    BY <1>0
  <2>2. LengthAt(w, p) = h * R + l
    BY <1>1, <2>1 DEF LengthAt
  <2>3. h * R = R * h
    BY <1>0
  <2> QED BY <2>2, <2>3 DEF Counts
<1>3. ItemAt(w, p) = x
  <2> DEFINE from == n + 3
             to == n + 2 + k
  <2>1. ASSUME NEW i \in from .. to PROVE w[i] \in Byte
    <3>1. i \in 1 .. Len(w)
      BY <1>0
    <3> QED BY <3>1, ElementOfSeq
  <2>2. SubSeq(w, from, to) \in Seq(Byte)
    BY <2>1, SubSeqProperties
  <2>3. PICK t \in Seq(Byte) : t = SubSeq(w, from, to)
    BY <2>2
  <2>4. /\ Len(t) = IF from <= to THEN to - from + 1 ELSE 0
        /\ \A i \in 1 .. to - from + 1 : t[i] = w[from + i - 1]
    BY <2>1, <2>3, SubSeqProperties
  <2>5. Len(t) = k
    BY <1>0, <2>4
  <2>6. ASSUME NEW i \in 1 .. k PROVE t[i] = x[i]
    <3>1. i \in 1 .. to - from + 1 /\ from + i - 1 = o + i
      BY <1>0
    <3>2. w[o + i] = x[i]
      BY DEF Within, Fits
    <3> QED BY <2>4, <3>1, <3>2
  <2>7. \A i \in 1 .. Len(t) : t[i] = x[i]
    BY <2>5, <2>6
  <2>8. t = x
    BY <2>5, <2>7, SeqEqual
  <2>9. ItemAt(w, p) = SubSeq(w, p + 2, p + 1 + k)
    BY <1>2 DEF ItemAt
  <2>10. p + 2 = from /\ p + 1 + k = to
    BY <1>0
  <2> HIDE DEF from, to
  <2> QED BY <2>3, <2>8, <2>9, <2>10
<1>4. After(w, p) = o + k + 1
  <2>1. After(w, p) = p + 2 + k
    BY <1>2 DEF After
  <2> QED BY <1>0, <2>1
<1> QED BY <1>2, <1>3, <1>4

\* where the four parts of a pair lie in its bytes
Laid(x, b, key, d, value) ==
  /\ Len(x) = 4 + Len(key) + Len(value)
  /\ Within(x, 0, b) /\ Within(x, 2, key)
  /\ Within(x, 2 + Len(key), d) /\ Within(x, 4 + Len(key), value)

LEMMA PartsAre ==
  ASSUME NEW b \in Seq(Byte), Len(b) = 2, NEW key \in Seq(Byte),
         NEW d \in Seq(Byte), Len(d) = 2, NEW value \in Seq(Byte)
  PROVE  Laid(b \o key \o d \o value, b, key, d, value)
<1> PICK z \in Nat : z = 0
  OBVIOUS
<1> PICK t \in Nat : t = 2
  OBVIOUS
<1> PICK m \in Nat : m = Len(key)
  BY LenProperties
<1> PICK k \in Nat : k = Len(value)
  BY LenProperties
<1> PICK i \in Nat : i = t + m
  OBVIOUS
<1> PICK j \in Nat : j = i + t
  OBVIOUS
<1> PICK l \in Nat : l = j + k
  OBVIOUS
<1>1. PICK f \in Seq(Byte) : f = b \o key
  BY JoinBytes
<1>2. PICK g \in Seq(Byte) : g = f \o d
  BY JoinBytes
<1>3. PICK x \in Seq(Byte) : x = g \o value
  BY JoinBytes
<1>4. Len(f) = i /\ Within(f, z, b) /\ Within(f, t, key)
  <2>1. Len(f) = Len(b) + Len(key) /\ Within(f, 0, b) /\ Within(f, Len(b), key)
    BY <1>1, JoinBytes
  <2> QED BY <2>1
<1>5. Len(g) = j /\ Within(g, z, f) /\ Within(g, i, d)
  <2>1. Len(g) = Len(f) + Len(d) /\ Within(g, 0, f) /\ Within(g, Len(f), d)
    BY <1>2, JoinBytes
  <2> QED BY <1>4, <2>1
<1>6. Len(x) = l /\ Within(x, z, g) /\ Within(x, j, value)
  <2>1. Len(x) = Len(g) + Len(value) /\ Within(x, 0, g) /\ Within(x, Len(g), value)
    BY <1>3, JoinBytes
  <2> QED BY <1>5, <2>1
<1>7. z = z + z /\ z + i <= j /\ i + t <= j /\ i = z + i /\ z + t <= i /\ t + m <= i /\ t = z + t
  OBVIOUS
<1>8. Within(x, z, f)
  BY <1>4, <1>5, <1>6, <1>7, WithinPart
<1>9. Within(x, i, d)
  <2>1. Within(x, z, g) /\ Within(g, i, d)
    BY <1>5, <1>6
  <2>2. Len(d) = t /\ Len(g) = j /\ i + t <= j /\ i = z + i
    BY <1>5, <1>7
  <2> QED BY <2>1, <2>2, WithinPart, ZenonT(120)
<1>10. Within(x, z, b)
  BY <1>4, <1>7, <1>8, WithinPart, ZenonT(120)
<1>11. Within(x, t, key)
  BY <1>4, <1>7, <1>8, WithinPart, ZenonT(120)
<1>12. l = 4 + m + k /\ i = 2 + m /\ j = 4 + m
  OBVIOUS
<1> QED BY <1>1, <1>2, <1>3, <1>6, <1>9, <1>10, <1>11, <1>12 DEF Laid

\* a pair behind the first n bytes
LEMMA PairIs ==
  ASSUME NEW p, GoodPair(p), NEW w \in Seq(Byte), NEW n \in Nat,
         NEW f \in Nat, NEW o \in Nat, Heads(n, f, o), Fits(w, n, Bytes(p))
  PROVE  /\ LengthAt(w, f) # 0 /\ ItemAt(w, f) = p.key
         /\ ItemAt(w, After(w, f)) = p.value
         /\ After(w, After(w, f)) = n + Len(Bytes(p)) + 1
<1> PICK e \in Nat : e = Len(w)
  BY LenProperties
<1> PICK l \in Nat : l = Len(Bytes(p))
  BY BytesTyped, LenProperties
<1>0. Within(w, n, Bytes(p)) /\ n + l <= e /\ f = n + 1 /\ o = n + 2
  BY DEF Fits, Heads
<1>1. PICK key \in Seq(Byte) : key = p.key
  BY BytesTyped
<1>2. PICK value \in Seq(Byte) : value = p.value
  BY BytesTyped
<1>3. PICK m \in Nat : m = Len(key) /\ m # 0 /\ m \in Byte /\ 0 \in Byte
  <2>1. Len(p.key) \in 1 .. R - 1 /\ Len(p.key) \in Byte /\ 0 \in Byte
    BY BytesTyped
  <2>2. R \in Nat
    BY BoxAssumption
  <2> QED BY <1>1, <2>1, <2>2
<1>4. PICK k \in Nat : k = Len(value)
  BY LenProperties
<1>5. PICK q \in Byte : q = k \div R
  BY <1>2, <1>4, BytesTyped
<1>6. PICK r \in Byte : r = k % R
  BY <1>2, <1>4, BytesTyped
<1>7. PICK z \in Byte : z = 0 /\ z \in Nat
  BY <1>3
<1>8. Counts(q, r, value) /\ Counts(z, m, key)
  <2>1. R * q + r = k
    BY <1>2, <1>4, <1>5, <1>6, BytesTyped
  <2>2. R * z + m = m
    BY <1>7, BoxAssumption
  <2> QED BY <1>3, <1>4, <2>1, <2>2 DEF Counts
<1>9. PICK b \in Seq(Byte) : b = <<z, m>> /\ Len(b) = 2
  <2>1. <<z, m>> \in Seq(Byte) /\ Len(<<z, m>>) = 2
    BY <1>3
  <2> QED BY <2>1
<1>10. PICK d \in Seq(Byte) : d = <<q, r>> /\ Len(d) = 2
  <2>1. <<q, r>> \in Seq(Byte) /\ Len(<<q, r>>) = 2
    OBVIOUS
  <2> QED BY <2>1
<1>11. PICK t \in Nat : t = 2
  OBVIOUS
<1>12. PICK i \in Nat : i = t + m
  OBVIOUS
<1>13. PICK j \in Nat : j = i + t
  OBVIOUS
<1>14. Bytes(p) = b \o key \o d \o value
  BY <1>1, <1>2, <1>3, <1>4, <1>5, <1>6, <1>7, <1>9, <1>10 DEF Bytes
<1>15. PICK x : x = Bytes(p)
  OBVIOUS
<1>16. /\ Len(x) = l /\ l = j + k
       /\ Within(x, z, b) /\ Within(x, t, key) /\ Within(x, i, d) /\ Within(x, j, value)
  <2>1. Laid(x, b, key, d, value)
    BY <1>9, <1>10, <1>14, <1>15, PartsAre, ZenonT(120)
  <2>2. l = 4 + m + k /\ i = 2 + m /\ j = 4 + m
    BY <1>3, <1>4, <1>11, <1>12, <1>13, <1>15, <2>1 DEF Laid
  <2>3. l = j + k
    BY <2>2
  <2> QED BY <1>3, <1>4, <1>7, <1>11, <1>15, <2>1, <2>2, <2>3 DEF Laid
<1>17. o = n + t
  BY <1>0, <1>11
<1>18. PICK u \in Nat : u = n + i
  OBVIOUS
<1>19. PICK v \in Nat : v = n + j
  OBVIOUS
<1>20. Within(w, n, b)
  <2>1. Len(b) = t /\ z + t <= l /\ n = n + z
    BY <1>7, <1>9, <1>11, <1>12, <1>13, <1>16
  <2> QED BY <1>0, <1>7, <1>15, <1>16, <2>1, WithinPart
<1>21. Within(w, o, key)
  <2>1. Len(key) = m /\ t + m <= l
    BY <1>3, <1>12, <1>13, <1>16, SMTT(60)
  <2> QED BY <1>0, <1>15, <1>16, <1>17, <2>1, WithinPart
<1>22. Within(w, u, d)
  <2>1. Len(d) = t /\ i + t <= l
    BY <1>10, <1>11, <1>13, <1>16
  <2> QED BY <1>0, <1>15, <1>16, <1>18, <2>1, WithinPart
<1>23. Within(w, v, value)
  <2>1. Len(value) = k /\ j + k <= l
    BY <1>4, <1>16
  <2> QED BY <1>0, <1>15, <1>16, <1>19, <2>1, WithinPart
<1>24. f = n + 1
  BY <1>0
<1>25. LengthAt(w, f) = m /\ ItemAt(w, f) = key /\ After(w, f) = o + m + 1
  <2>1. Heads(n, f, o) /\ o + m <= e
    BY <1>0, <1>11, <1>12, <1>13, <1>16, <1>17, <1>24 DEF Heads
  <2>2. Within(w, n, <<z, m>>) /\ Fits(w, o, key)
    BY <1>3, <1>9, <1>20, <1>21, <2>1 DEF Fits
  <2>3. LengthAt(w, f) = Len(key) /\ ItemAt(w, f) = key /\ After(w, f) = o + Len(key) + 1
    BY <1>3, <1>8, <2>1, <2>2, ItemIs, SMTT(60)
  <2> QED BY <1>3, <2>3
<1>26. PICK g \in Nat : g = u + 1
  OBVIOUS
<1>27. LengthAt(w, g) = k /\ ItemAt(w, g) = value /\ After(w, g) = v + k + 1
  <2>1. Heads(u, g, v) /\ v + k <= e
    BY <1>0, <1>11, <1>13, <1>16, <1>18, <1>19, <1>26 DEF Heads
  <2>2. Within(w, u, <<q, r>>) /\ Fits(w, v, value)
    BY <1>4, <1>10, <1>22, <1>23, <2>1 DEF Fits
  <2>3. /\ LengthAt(w, g) = Len(value) /\ ItemAt(w, g) = value
        /\ After(w, g) = v + Len(value) + 1
    BY <1>8, <2>1, <2>2, ItemIs, SMTT(60)
  <2> QED BY <1>4, <2>3
<1>28. After(w, f) = g /\ v + k + 1 = n + l + 1
  BY <1>12, <1>16, <1>17, <1>18, <1>19, <1>25, <1>26
<1> QED BY <1>1, <1>2, <1>3, <1>24, <1>25, <1>27, <1>28

\* each prefix of the pairs lies at the beginning of the wire
LEMMA PrefixesAre ==
  ASSUME NEW ps, GoodPairs(ps)
  PROVE  /\ Written(ps) \in Seq(Byte)
         /\ Len(Written(ps)) = Len(Wires(ps)[Len(ps)]) + 2
         /\ Within(Written(ps), Len(Wires(ps)[Len(ps)]), <<0, 0>>)
         /\ \A i \in 0 .. Len(ps) : /\ Len(Wires(ps)[i]) <= Len(Written(ps))
                                    /\ Within(Written(ps), 0, Wires(ps)[i])
<1> PICK N \in Nat : N = Len(ps)
  BY DEF GoodPairs
<1> PICK f \in [0 .. N -> Seq(Byte)] : f = Wires(ps)
  BY WiresIs
<1>1. PICK z \in Seq(Byte) : z = <<0, 0>> /\ Len(z) = 2
  <2>1. 0 \in Byte
    BY BoxAssumption DEF Byte
  <2>2. <<0, 0>> \in Seq(Byte) /\ Len(<<0, 0>>) = 2
    BY <2>1
  <2> QED BY <2>2
<1>2. f[N] \in Seq(Byte)
  OBVIOUS
<1>3. PICK w \in Seq(Byte) : w = f[N] \o z
  BY <1>2, JoinBytes
<1>4. w = Written(ps)
  BY <1>1, <1>3, WrittenIs
<1>5. Len(w) = Len(f[N]) + Len(z) /\ Within(w, 0, f[N]) /\ Within(w, Len(f[N]), z)
  BY <1>2, <1>3, JoinBytes
<1>6. PICK e \in Nat : e = Len(w)
  BY LenProperties
<1> DEFINE T == {m \in 0 .. N : Len(f[N - m]) <= e /\ Within(w, 0, f[N - m])}
<1>7. 0 \in T
  <2>1. Len(f[N]) \in Nat
    BY <1>2, LenProperties
  <2>2. N - 0 = N
    OBVIOUS
  <2> QED BY <1>1, <1>5, <1>6, <2>1, <2>2
<1>8. ASSUME NEW m \in 0 .. N - 1, m \in T PROVE m + 1 \in T
  <2>1. PICK i \in 0 .. N - 1 : i = N - (m + 1) /\ i + 1 = N - m /\ i + 1 \in 1 .. N
    <3>1. N - (m + 1) \in 0 .. N - 1
      OBVIOUS
    <3>2. PICK i \in 0 .. N - 1 : i = N - (m + 1)
      BY <3>1
    <3>3. i + 1 = N - m /\ i + 1 \in 1 .. N
      BY <3>2
    <3> QED BY <3>2, <3>3
  <2>2. f[i] \in Seq(Byte) /\ f[i + 1] \in Seq(Byte)
    <3>1. i \in 0 .. N /\ i + 1 \in 0 .. N
      BY <2>1
    <3> QED BY <3>1
  <2>3. PICK a \in Seq(Byte) : a = f[i]
    BY <2>2
  <2>4. PICK b \in Seq(Byte) : b = f[i + 1]
    BY <2>2
  <2>5. PICK x \in Seq(Byte) : x = Bytes(ps[i + 1])
    <3>1. GoodPair(ps[i + 1])
      BY <2>1 DEF GoodPairs
    <3> QED BY <3>1, BytesTyped
  <2>6. b = a \o x
    BY <2>1, <2>3, <2>4, <2>5, WiresIs
  <2>7. Len(b) = Len(a) + Len(x) /\ Within(b, 0, a)
    BY <2>6, JoinBytes
  <2>8. PICK k \in Nat : k = Len(a)
    BY LenProperties
  <2>9. PICK l \in Nat : l = Len(b)
    BY LenProperties
  <2>10. k <= l
    <3>1. Len(x) \in Nat
      BY LenProperties
    <3> QED BY <2>7, <2>8, <2>9, <3>1
  <2>11. l <= e /\ Within(w, 0, b)
    BY <1>8, <2>1, <2>4, <2>9
  <2>12. Within(w, 0, a)
    <3>1. PICK y \in Nat : y = 0
      OBVIOUS
    <3>2. y + k <= l /\ y = y + y
      BY <2>10, <3>1
    <3>3. Within(w, y, b) /\ Within(b, y, a)
      BY <2>7, <2>11, <3>1
    <3>4. Within(w, y, a)
      BY <2>8, <2>9, <3>2, <3>3, WithinPart
    <3> QED BY <3>1, <3>4
  <2> QED BY <2>1, <2>3, <2>8, <2>10, <2>11, <2>12
<1> HIDE DEF T
<1>9. \A m \in 0 .. N : m \in T
  BY <1>7, <1>8, UpTo
<1>10. ASSUME NEW i \in 0 .. N PROVE Len(f[i]) <= e /\ Within(w, 0, f[i])
  <2>1. N - i \in 0 .. N /\ N - (N - i) = i
    OBVIOUS
  <2>2. N - i \in T
    BY <1>9, <2>1
  <2> QED BY <2>1, <2>2 DEF T
<1> QED BY <1>1, <1>4, <1>5, <1>6, <1>10

\* the size computed is the size written, and no pair is empty
LEMMA SizesAre ==
  ASSUME NEW ps, GoodPairs(ps)
  PROVE  \A i \in 0 .. Len(ps) : /\ Len(Wires(ps)[i]) \in Nat /\ i <= Len(Wires(ps)[i])
                                 /\ Sizes(ps)[i] = Len(Wires(ps)[i]) + 2
<1> PICK N \in Nat : N = Len(ps)
  BY DEF GoodPairs
<1> PICK f \in [0 .. N -> Seq(Byte)] : f = Wires(ps)
  BY WiresIs
<1> DEFINE T == {i \in 0 .. N : /\ Len(f[i]) \in Nat /\ i <= Len(f[i])
                                /\ Sizes(ps)[i] = Len(f[i]) + 2}
<1>1. 0 \in T
  <2>1. f[0] = <<>> /\ Sizes(ps)[0] = 2
    BY WiresIs, SizesIs
  <2> QED BY <2>1
<1>2. ASSUME NEW i \in 0 .. N - 1, i \in T PROVE i + 1 \in T
  <2>1. PICK a \in Seq(Byte) : a = f[i]
    OBVIOUS
  <2>2. i + 1 \in 1 .. N /\ GoodPair(ps[i + 1])
    BY DEF GoodPairs
  <2>3. PICK x \in Seq(Byte) : x = Bytes(ps[i + 1])
    BY <2>2, BytesTyped
  <2>4. PICK k \in Nat : k = Len(ps[i + 1].key)
    BY <2>2, BytesTyped, LenProperties
  <2>5. PICK v \in Nat : v = Len(ps[i + 1].value)
    BY <2>2, BytesTyped, LenProperties
  <2>6. Len(x) = 4 + k + v
    BY <2>2, <2>3, <2>4, <2>5, BytesTyped
  <2>7. PICK m \in Nat : m = Len(a)
    BY LenProperties
  <2>8. f[i + 1] = a \o x
    BY <2>1, <2>3, WiresIs
  <2>9. Len(f[i + 1]) = m + (4 + k + v)
    BY <2>6, <2>7, <2>8, JoinBytes, ZenonT(120)
  <2>10. Sizes(ps)[i] = m + 2 /\ i <= m
    BY <1>2, <2>1, <2>7
  <2>11. Sizes(ps)[i + 1] = m + 2 + 4 + k + v
    BY <2>4, <2>5, <2>10, SizesIs
  <2>12. PICK q \in Nat : q = Len(f[i + 1]) /\ i + 1 <= q /\ Sizes(ps)[i + 1] = q + 2
    <3>1. m + (4 + k + v) \in Nat /\ i + 1 <= m + (4 + k + v)
      BY <2>10
    <3>2. m + 2 + 4 + k + v = m + (4 + k + v) + 2
      OBVIOUS
    <3> QED BY <2>9, <2>11, <3>1, <3>2
  <2> QED BY <2>2, <2>12
<1> HIDE DEF T
<1>3. \A i \in 0 .. N : i \in T
  BY <1>1, <1>2, UpTo
<1> QED BY <1>3 DEF T

\* where pair i + 1 begins, or for i = Len(ps) the end
Begin(ps, i) == Len(Wires(ps)[i]) + 1

LEMMA PairRead ==
  ASSUME NEW ps, GoodPairs(ps), NEW i \in 0 .. Len(ps) - 1, NEW p, p = Begin(ps, i)
  PROVE  LET w == Written(ps) IN
         /\ LengthAt(w, p) # 0
         /\ ItemAt(w, p) = ps[i + 1].key /\ ItemAt(w, After(w, p)) = ps[i + 1].value
         /\ After(w, After(w, p)) = Begin(ps, i + 1)
<1> PICK w \in Seq(Byte) : w = Written(ps)
  BY PrefixesAre
<1> PICK N \in Nat : N = Len(ps)
  BY DEF GoodPairs
<1>1. i \in 0 .. N /\ i + 1 \in 0 .. N /\ i + 1 \in 1 .. N
  OBVIOUS
<1>2. Wires(ps)[i] \in Seq(Byte) /\ Wires(ps)[i + 1] \in Seq(Byte)
  BY <1>1, WiresIs
<1>3. PICK a \in Seq(Byte) : a = Wires(ps)[i]
  BY <1>2
<1>4. PICK b \in Seq(Byte) : b = Wires(ps)[i + 1]
  BY <1>2
<1>5. GoodPair(ps[i + 1])
  BY <1>1 DEF GoodPairs
<1>6. PICK x \in Seq(Byte) : x = Bytes(ps[i + 1])
  BY <1>5, BytesTyped
<1>7. b = a \o x
  BY <1>3, <1>4, <1>6, WiresIs
<1>8. Len(b) = Len(a) + Len(x) /\ Within(b, Len(a), x)
  BY <1>7, JoinBytes
<1>9. PICK n \in Nat : n = Len(a)
  BY LenProperties
<1>10. PICK l \in Nat : l = Len(x)
  BY LenProperties
<1>11. PICK m \in Nat : m = Len(b)
  BY LenProperties
<1>12. PICK e \in Nat : e = Len(w)
  BY LenProperties
<1>13. m = n + l
  BY <1>8, <1>9, <1>10, <1>11
<1>14. m <= e /\ Within(w, 0, b)
  BY <1>1, <1>4, <1>11, <1>12, PrefixesAre
<1>15. Within(w, n, x)
  <2>1. PICK z \in Nat : z = 0
    OBVIOUS
  <2>2. Len(x) = l /\ Len(b) = m /\ n + l <= m /\ n = z + n
    BY <1>10, <1>11, <1>13, <2>1
  <2>3. Within(w, z, b) /\ Within(b, n, x)
    BY <1>8, <1>9, <1>14, <2>1
  <2> QED BY <2>2, <2>3, WithinPart
<1>16. p = n + 1 /\ Begin(ps, i + 1) = m + 1
  BY <1>3, <1>4, <1>9, <1>11 DEF Begin
<1>17. n + l <= e /\ Within(w, n, Bytes(ps[i + 1])) /\ l = Len(Bytes(ps[i + 1]))
  BY <1>6, <1>10, <1>13, <1>14, <1>15
<1>18. /\ LengthAt(w, n + 1) # 0 /\ ItemAt(w, n + 1) = ps[i + 1].key
       /\ ItemAt(w, After(w, n + 1)) = ps[i + 1].value
       /\ After(w, After(w, n + 1)) = n + l + 1
  <2>1. PICK q : q = ps[i + 1]
    OBVIOUS
  <2>2. PICK o \in Nat : o = n + 2
    OBVIOUS
  <2>3. PICK f \in Nat : f = n + 1
    OBVIOUS
  <2>4. GoodPair(q) /\ Fits(w, n, Bytes(q)) /\ Heads(n, f, o)
    BY <1>5, <1>12, <1>17, <2>1, <2>2, <2>3 DEF Fits, Heads
  <2>5. /\ LengthAt(w, f) # 0 /\ ItemAt(w, f) = q.key
        /\ ItemAt(w, After(w, f)) = q.value
        /\ After(w, After(w, f)) = n + Len(Bytes(q)) + 1
    BY <2>4, PairIs
  <2> QED BY <1>17, <2>1, <2>3, <2>5
<1> QED BY <1>13, <1>16, <1>18

LEMMA EndRead ==
  ASSUME NEW ps, GoodPairs(ps), NEW p, p = Begin(ps, Len(ps))
  PROVE  LET w == Written(ps) IN LengthAt(w, p) = 0 /\ After(w, p) = Len(w) + 1
<1> PICK w \in Seq(Byte) : w = Written(ps)
  BY PrefixesAre
<1> PICK N \in Nat : N = Len(ps)
  BY DEF GoodPairs
<1>1. Wires(ps)[N] \in Seq(Byte)
  <2>1. N \in 0 .. Len(ps)
    OBVIOUS
  <2> QED BY <2>1, WiresIs
<1>2. PICK n \in Nat : n = Len(Wires(ps)[N])
  BY <1>1, LenProperties
<1>3. Len(w) = n + 2 /\ Within(w, n, <<0, 0>>)
  BY <1>2, PrefixesAre
<1>4. w[n + 1] = 0 /\ w[n + 2] = 0
  <2>1. Len(<<0, 0>>) = 2 /\ <<0, 0>>[1] = 0 /\ <<0, 0>>[2] = 0 /\ 1 \in 1 .. 2 /\ 2 \in 1 .. 2
    OBVIOUS
  <2> QED BY <1>3, <2>1 DEF Within
<1>5. p = n + 1 /\ p + 1 = n + 2
  BY <1>2 DEF Begin
<1>6. LengthAt(w, p) = 0
  <2>1. 0 * R + 0 = 0
    BY BoxAssumption
  <2> QED BY <1>4, <1>5, <2>1 DEF LengthAt
<1>7. After(w, p) = Len(w) + 1
  BY <1>3, <1>5, <1>6 DEF After
<1> QED BY <1>6, <1>7

\* the pair that begin[j] is about: each in turn, and then the end
Turn(ps, j) == IF j <= Len(ps) THEN j ELSE Len(ps)

LEMMA StartsAre ==
  ASSUME NEW ps, GoodPairs(ps)
  PROVE  \A j \in 0 .. Len(Written(ps)) : Starts(Written(ps))[j] = Begin(ps, Turn(ps, j))
<1> PICK w \in Seq(Byte) : w = Written(ps)
  BY PrefixesAre
<1> PICK N \in Nat : N = Len(ps)
  BY DEF GoodPairs
<1> PICK e \in Nat : e = Len(w)
  BY LenProperties
<1> DEFINE next(p) == IF LengthAt(w, p) = 0 THEN p ELSE After(w, After(w, p))
           g == [j \in 0 .. e |-> Begin(ps, Turn(ps, j))]
           begin[i \in 0 .. e] == IF i = 0 THEN 1 ELSE next(begin[i - 1])
<1>1. Begin(ps, 0) = 1
  <2>1. Wires(ps)[0] = <<>> /\ Len(<<>>) = 0
    BY WiresIs
  <2> QED BY <2>1 DEF Begin
<1>2. ASSUME NEW j \in 1 .. e PROVE Begin(ps, Turn(ps, j)) = next(Begin(ps, Turn(ps, j - 1)))
  <2>1. CASE j <= N
    <3>1. j - 1 \in 0 .. N - 1 /\ (j - 1) + 1 = j /\ Turn(ps, j) = j /\ Turn(ps, j - 1) = j - 1
      BY <2>1 DEF Turn
    <3>2. PICK i \in 0 .. N - 1 : i = j - 1
      BY <3>1
    <3>3. PICK p : p = Begin(ps, i)
      OBVIOUS
    <3>4. LengthAt(w, p) # 0 /\ After(w, After(w, p)) = Begin(ps, i + 1)
      BY <3>3, PairRead
    <3> QED BY <3>1, <3>2, <3>3, <3>4
  <2>2. CASE ~(j <= N)
    <3>1. Turn(ps, j) = N /\ Turn(ps, j - 1) = N
      BY <2>2 DEF Turn
    <3>2. PICK p : p = Begin(ps, N)
      OBVIOUS
    <3>3. LengthAt(w, p) = 0
      BY <3>2, EndRead
    <3> QED BY <3>1, <3>2, <3>3
  <2> QED BY <2>1, <2>2
<1>3. Turn(ps, 0) = 0
  BY DEF Turn
<1>4. g = [i \in 0 .. e |-> IF i = 0 THEN 1 ELSE next(g[i - 1])]
  <2> HIDE DEF next
  <2>1. ASSUME NEW i \in 0 .. e
        PROVE  Begin(ps, Turn(ps, i)) = IF i = 0 THEN 1 ELSE next(g[i - 1])
    <3>1. CASE i = 0
      BY <1>1, <1>3, <3>1
    <3>2. CASE i # 0
      <4>1. i \in 1 .. e /\ i - 1 \in 0 .. e
        BY <3>2
      <4>2. g[i - 1] = Begin(ps, Turn(ps, i - 1))
        BY <4>1
      <4> QED BY <1>2, <3>2, <4>1, <4>2
    <3> QED BY <3>1, <3>2
  <2> QED BY <2>1
<1>5. begin = [i \in 0 .. e |-> IF i = 0 THEN 1 ELSE next(begin[i - 1])]
  <2> HIDE DEF next, g
  <2> QED BY <1>4 DEF begin
<1>6. begin = Starts(w)
  BY DEF Starts
<1> HIDE DEF begin, next, g
<1> DEFINE T == {j \in 0 .. e : begin[j] = Begin(ps, Turn(ps, j))}
<1>7. 0 \in T
  <2>1. begin[0] = 1
    BY <1>5
  <2> QED BY <1>1, <1>3, <2>1
<1>8. ASSUME NEW j \in 0 .. e - 1, j \in T PROVE j + 1 \in T
  <2>1. j + 1 \in 1 .. e /\ j + 1 \in 0 .. e /\ j + 1 # 0 /\ (j + 1) - 1 = j
    OBVIOUS
  <2>2. begin[j + 1] = next(begin[(j + 1) - 1])
    BY <1>5, <2>1
  <2>3. begin[j] = Begin(ps, Turn(ps, j))
    BY <1>8
  <2>4. Begin(ps, Turn(ps, j + 1)) = next(Begin(ps, Turn(ps, (j + 1) - 1)))
    BY <1>2, <2>1
  <2>5. begin[j + 1] = Begin(ps, Turn(ps, j + 1))
    BY <2>1, <2>2, <2>3, <2>4
  <2> QED BY <2>1, <2>5
<1> HIDE DEF T
<1>9. \A j \in 0 .. e : j \in T
  BY <1>7, <1>8, UpTo
<1> QED BY <1>6, <1>9 DEF T

LEMMA ReadBack ==
  ASSUME NEW ps, GoodPairs(ps), NEW begin, begin = Starts(Written(ps))
  PROVE  /\ Read(Written(ps), begin) = Elements(ps)
         /\ After(Written(ps), begin[Len(Written(ps))]) = Len(Written(ps)) + 1
<1> PICK w \in Seq(Byte) : w = Written(ps)
  BY PrefixesAre
<1> PICK N \in Nat : N = Len(ps)
  BY DEF GoodPairs
<1> PICK e \in Nat : e = Len(w)
  BY LenProperties
<1>1. N <= e
  <2>1. PICK n \in Nat : n = Len(Wires(ps)[N]) /\ N <= n
    BY SizesAre, SMTT(60)
  <2>2. n <= e
    BY <2>1, PrefixesAre
  <2> QED BY <2>1, <2>2
<1>2. ASSUME NEW j \in 0 .. N - 1
      PROVE  /\ LengthAt(w, begin[j]) # 0
             /\ [key |-> ItemAt(w, begin[j]), value |-> ItemAt(w, After(w, begin[j]))] = ps[j + 1]
  <2>1. j \in 0 .. e /\ Turn(ps, j) = j /\ j + 1 \in 1 .. N
    BY <1>1 DEF Turn
  <2>2. begin[j] = Begin(ps, j)
    BY <2>1, StartsAre
  <2>3. /\ LengthAt(w, begin[j]) # 0
        /\ ItemAt(w, begin[j]) = ps[j + 1].key /\ ItemAt(w, After(w, begin[j])) = ps[j + 1].value
    BY <2>2, PairRead
  <2>4. ps[j + 1] = [key |-> ps[j + 1].key, value |-> ps[j + 1].value]
    <3>1. ps[j + 1] \in Binding
      BY <2>1 DEF GoodPairs
    <3> QED BY <3>1 DEF Binding
  <2> QED BY <2>3, <2>4
<1>3. ASSUME NEW j \in 0 .. e, ~(j \in 0 .. N - 1)
      PROVE  LengthAt(w, begin[j]) = 0 /\ After(w, begin[j]) = e + 1
  <2>1. Turn(ps, j) = N
    BY <1>3 DEF Turn
  <2>2. begin[j] = Begin(ps, N)
    BY <2>1, StartsAre
  <2> QED BY <2>2, EndRead
<1>4. Read(w, begin) = Elements(ps)
  <2>1. ASSUME NEW x \in Read(w, begin) PROVE x \in Elements(ps)
    <3>1. PICK j \in 0 .. e : /\ LengthAt(w, begin[j]) # 0
                              /\ x = [key |-> ItemAt(w, begin[j]),
                                      value |-> ItemAt(w, After(w, begin[j]))]
      BY DEF Read
    <3>2. j \in 0 .. N - 1
      BY <1>3, <3>1
    <3>3. x = ps[j + 1] /\ j + 1 \in 1 .. N
      BY <1>2, <3>1, <3>2
    <3> QED BY <3>3 DEF Elements
  <2>2. ASSUME NEW x \in Elements(ps) PROVE x \in Read(w, begin)
    <3>1. PICK i \in 1 .. N : x = ps[i]
      BY DEF Elements
    <3>2. i - 1 \in 0 .. N - 1 /\ (i - 1) + 1 = i
      OBVIOUS
    <3>3. PICK j \in 0 .. N - 1 : j = i - 1 /\ j + 1 = i /\ j \in 0 .. e
      BY <1>1, <3>2
    <3>4. /\ LengthAt(w, begin[j]) # 0
          /\ [key |-> ItemAt(w, begin[j]), value |-> ItemAt(w, After(w, begin[j]))] = x
      BY <1>2, <3>1, <3>3
    <3> QED BY <3>3, <3>4 DEF Read
  <2> QED BY <2>1, <2>2
<1>5. After(w, begin[e]) = e + 1
  <2>1. e \in 0 .. e /\ ~(e \in 0 .. N - 1)
    BY <1>1
  <2> QED BY <1>3, <2>1
<1> QED BY <1>4, <1>5

\* amp_put_buf refuses what the two length bytes of the protocol cannot count
Sized == \A b \in Boxes : \A k \in DOMAIN Store[b] : GoodKey(k) /\ GoodValue(Store[b][k])

LEMMA InitSized == Init => Sized
<1> SUFFICES ASSUME Init, NEW b \in Boxes PROVE DOMAIN Store[b] = {}
  BY DEF Sized
<1>1. buckets[b] = EmptyTable
  BY DEF Init
<1>2. Store[b] = Map!Empty
  BY <1>1, NoKeys DEF Store
<1> QED BY <1>2 DEF Map!Empty

LEMMA SizedStep ==
  ASSUME Shape, Sized, [Next]_vars
  PROVE  Sized'
<1>1. ASSUME UNCHANGED <<alive, buckets>> PROVE Sized'
  <2>1. Store' = Store
    BY <1>1, SameChains
  <2> QED BY <2>1 DEF Sized, GoodKey, GoodValue
<1>2. ASSUME NEW b \in Boxes, Store' = [Store EXCEPT ![b] = Map!Empty] PROVE Sized'
  <2>1. DOMAIN Store'[b] = {} /\ \A c \in Boxes \ {b} : Store'[c] = Store[c]
    BY <1>2 DEF Map!Empty, Store
  <2> QED BY <2>1 DEF Sized, GoodKey, GoodValue
<1>3. ASSUME NEW b \in Boxes, NewBox(b) PROVE Sized'
  <2>1. CASE Fails("ENOMEM")
    BY <1>1, <2>1 DEF Fails
  <2>2. CASE ~Fails("ENOMEM")
    <3>1. buckets' = [buckets EXCEPT ![b] = EmptyTable] /\ alive' = alive \cup {b}
      BY <1>3, <2>2 DEF NewBox
    <3>2. Store' = [Store EXCEPT ![b] = Map!Empty]
      BY <3>1, ClearStep DEF Shape
    <3> QED BY <1>2, <3>2
  <2> QED BY <2>1, <2>2
<1>4. ASSUME NEW b \in Boxes, FreeBox(b) PROVE Sized'
  <2>1. buckets' = [buckets EXCEPT ![b] = EmptyTable] /\ alive' = alive \ {b}
    BY <1>4 DEF FreeBox
  <2>2. Store' = [Store EXCEPT ![b] = Map!Empty]
    BY <2>1, ClearStep DEF Shape
  <2> QED BY <1>2, <2>2
<1>5. ASSUME NEW b \in Boxes, Serialize(b) PROVE Sized'
  <2>1. UNCHANGED <<alive, buckets>>
    BY <1>5 DEF Serialize, Fails
  <2> QED BY <1>1, <2>1
<1>6. ASSUME NEW b \in Boxes, NEW k \in Keys, DelKey(b, k) PROVE Sized'
  <2>1. Store' = [Store EXCEPT ![b] = Map!Unbind(MapOf(b), k)]
    BY <1>6, DelStep
  <2>2. MapOf(b) = Store[b] /\ DOMAIN Store = Boxes
    BY DEF Store
  <2>3. \A c \in Boxes \ {b} : Store'[c] = Store[c]
    BY <2>1, <2>2
  <2>4. \A x \in DOMAIN Store'[b] : x \in DOMAIN Store[b] /\ Store'[b][x] = Store[b][x]
    BY <2>1, <2>2 DEF Map!Unbind
  <2> QED BY <2>3, <2>4 DEF Sized, GoodKey, GoodValue
<1>7. ASSUME NEW b \in Boxes, NEW k \in Keys, DelMissing(b, k) PROVE Sized'
  BY <1>1, <1>7 DEF DelMissing, Fails
<1>8. ASSUME NEW b \in Boxes, NEW k \in Keys, Get(b, k) PROVE Sized'
  BY <1>1, <1>8 DEF Get
<1>9. ASSUME NEW b \in Boxes, NEW k \in Keys, NEW v \in Values, PutRefused(b, k, v) PROVE Sized'
  BY <1>1, <1>9 DEF PutRefused, Fails
<1>10. ASSUME NEW b \in Boxes, NEW k \in Keys, NEW v \in Values, PutOom(b, k, v) PROVE Sized'
  BY <1>1, <1>10 DEF PutOom, Fails
<1>11. ASSUME NEW b \in Boxes, NEW k \in Keys, NEW v \in Values, Put(b, k, v) PROVE Sized'
  <2>1. Store' = [Store EXCEPT ![b] = Map!Bind(MapOf(b), k, v)]
    BY <1>11, PutStep
  <2>2. MapOf(b) = Store[b] /\ DOMAIN Store = Boxes
    BY DEF Store
  <2>3. \A c \in Boxes \ {b} : Store'[c] = Store[c]
    BY <2>1, <2>2
  <2>4. \A x \in DOMAIN Store'[b] : \/ x = k /\ Store'[b][x] = v
                                    \/ x \in DOMAIN Store[b] /\ Store'[b][x] = Store[b][x]
    BY <2>1, <2>2 DEF Map!Bind
  <2>5. GoodKey(k) /\ GoodValue(v)
    BY <1>11 DEF Put
  <2> QED BY <2>3, <2>4, <2>5 DEF Sized, GoodKey, GoodValue
<1> QED BY <1>1, <1>3, <1>4, <1>5, <1>6, <1>7, <1>8, <1>9, <1>10, <1>11 DEF Next, vars

LEMMA WireHolds ==
  ASSUME Shape, Sized
  PROVE  WireIsBox
<1> SUFFICES ASSUME NEW b \in alive
             PROVE  LET w     == Written(Pairs(b))
                        begin == Starts(w)
                    IN  /\ Len(w) = WireSize(Pairs(b))
                        /\ \A i \in 1 .. Len(w) : w[i] \in 0 .. R - 1
                        /\ Read(w, begin) = {[key |-> k, value |-> ValueOf(b, k)] : k \in KeysOf(b)}
                        /\ After(w, begin[Len(w)]) = Len(w) + 1
  BY DEF WireIsBox
<1>1. b \in Boxes
  BY DEF Shape
<1>2. PICK ps : ps = Pairs(b)
  OBVIOUS
<1>3. /\ ps \in Seq(Binding)
      /\ \A p \in Elements(ps) : p \in Binding /\ HasKey(b, p.key) /\ ValueOf(b, p.key) = p.value
      /\ \A k \in Keys : HasKey(b, k) => [key |-> k, value |-> ValueOf(b, k)] \in Elements(ps)
  BY <1>1, <1>2, PairsFacts
<1>4. ASSUME NEW p \in Elements(ps) PROVE GoodPair(p)
  <2>1. p \in Binding /\ HasKey(b, p.key) /\ ValueOf(b, p.key) = p.value
    BY <1>3
  <2>2. p.key \in Keys
    BY <2>1 DEF Binding
  <2>3. p.key \in DOMAIN Store[b] /\ Store[b][p.key] = p.value
    BY <1>1, <2>1, <2>2, MapFacts DEF Store
  <2> QED BY <1>1, <2>1, <2>3 DEF Sized, GoodPair
<1>5. GoodPairs(ps)
  BY <1>3, <1>4 DEF GoodPairs, Elements
<1>6. PICK w \in Seq(Byte) : w = Written(ps)
  BY <1>5, PrefixesAre
<1>7. Len(w) = WireSize(ps)
  <2>1. Len(ps) \in 0 .. Len(ps)
    BY <1>3
  <2>2. WireSize(ps) = Len(Wires(ps)[Len(ps)]) + 2
    BY <1>5, <2>1, SizesAre, WrittenIs
  <2> QED BY <1>5, <1>6, <2>2, PrefixesAre
<1>8. \A i \in 1 .. Len(w) : w[i] \in 0 .. R - 1
  BY ElementOfSeq DEF Byte
<1>9. PICK begin : begin = Starts(w)
  OBVIOUS
<1>10. Read(w, begin) = Elements(ps) /\ After(w, begin[Len(w)]) = Len(w) + 1
  BY <1>5, <1>6, <1>9, ReadBack
<1>11. Elements(ps) = {[key |-> k, value |-> ValueOf(b, k)] : k \in KeysOf(b)}
  <2>1. ASSUME NEW p \in Elements(ps)
        PROVE  p \in {[key |-> k, value |-> ValueOf(b, k)] : k \in KeysOf(b)}
    <3>1. p \in Binding /\ HasKey(b, p.key) /\ ValueOf(b, p.key) = p.value
      BY <1>3
    <3>2. p.key \in KeysOf(b) /\ p = [key |-> p.key, value |-> p.value]
      BY <3>1 DEF Binding, KeysOf
    <3> QED BY <3>1, <3>2
  <2>2. ASSUME NEW k \in KeysOf(b) PROVE [key |-> k, value |-> ValueOf(b, k)] \in Elements(ps)
    BY <1>3 DEF KeysOf
  <2> QED BY <2>1, <2>2
<1> QED BY <1>2, <1>6, <1>7, <1>8, <1>9, <1>10, <1>11

-----------------------------------------------------------------------------
(* No sequence of operations puts a key in a bucket it does not hash to, or *)
(* in one chain twice (_amp_put_buf, _amp_del_key, amp_free_box).           *)
THEOREM ChainsAreFiled == Spec => []Filed
<1>1. Shape => Filed
  BY DEF Shape, Filed, IsChain
<1>2. Shape /\ [Next]_vars => Shape'
  BY StepLemma DEF StepOfMap
<1> QED BY <1>1, <1>2, InitShape, PTL DEF Spec

(* A box implements the map of KeyValueStore, for every hash function: each *)
(* step is one of the map's for the operation, box and key that were asked  *)
(* for.  So put and delete change the entry of that key only, a get finds   *)
(* what is stored under that key, and an error has changed nothing.         *)
THEOREM BoxIsMap == Spec => IsMap
<1>1. Shape /\ [Next]_vars => Shape' /\ [Map!Next]_(Map!vars)
  BY StepLemma DEF StepOfMap
<1> QED BY <1>1, InitShape, InitOfMap, PTL DEF Spec, IsMap, Map!Spec

(* Nothing but success or the six errors of box.c is returned, what is      *)
(* found is a value or nothing, and every table keeps its buckets.          *)
THEOREM BoxTyped == Spec => []TypeOK
<1>1. Inv => TypeOK
  BY DEF Inv, Shape, Books, Results, TypeOK
<1> QED BY <1>1, InvHolds, PTL

(* amp_num_keys counts the keys, and each key of each box owns one binding  *)
(* and one pair, for any number of boxes and any hash function: replacing,  *)
(* deleting, failing and freeing neither leak one nor free one twice.       *)
THEOREM EachKeyIsAccounted == Spec => []Accounted
<1>1. Owned = {x \in Boxes \X Keys : HasKey(x[1], x[2])}
  BY DEF Owned, KeysOf
<1>2. Inv => Accounted
  BY <1>1 DEF Inv, Books, Accounted
<1> QED BY <1>2, InvHolds, PTL

(* amp_boxes_equal is equality of maps, though it looks up the keys of one  *)
(* box only: the lengths it compares first are the numbers of keys.         *)
THEOREM EqualBoxesAreTheSame == Spec => []EqualMeansSame
<1>1. Inv => EqualMeansSame
  BY EqualIsSame DEF EqualMeansSame, Inv, Shape
<1> QED BY <1>1, InvHolds, PTL

(* What amp_serialize_box writes fills the buffer it measured, and a peer   *)
(* that follows the protocol reads from it the box and its end, whatever    *)
(* the keys and values: no put leaves a size the length bytes cannot hold.  *)
THEOREM WireHoldsTheBox == Spec => []WireIsBox
<1>1. Shape /\ Sized /\ [Next]_vars => Shape' /\ Sized'
  BY StepLemma, SizedStep DEF StepOfMap
<1>2. Init => Shape /\ Sized
  BY InitShape, InitSized
<1>3. Shape /\ Sized => WireIsBox
  BY WireHolds
<1> QED BY <1>1, <1>2, <1>3, PTL DEF Spec
=============================================================================
