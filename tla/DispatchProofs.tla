--------------------------- MODULE DispatchProofs ----------------------------
(***************************************************************************)
(* The tables of dispatch.c are maps, the pointers in their bindings are    *)
(* good, and every structure has one owner, for every hash function, any    *)
(* number of buckets, ask keys, structures and commands.                    *)
(***************************************************************************)
EXTENDS Dispatch, ChainsProofs

KeySet(t)    == IF t = "callbacks" THEN AskKeys ELSE Commands
Pointers(t)  == IF t = "callbacks" THEN Callbacks ELSE Strings
ValueSet(t)  == IF t = "callbacks" THEN Callbacks ELSE Responders
BindingIn(t) == [key : Pointers(t), value : ValueSet(t)]

\* the key that a structure was put under
OwnKey(t, v) == IF t = "callbacks" THEN ask_key[v] ELSE Text[command[v]]

(* The pointer of every binding leads to the key of its value, which hashes *)
(* to the bucket; no chain has a key twice; and a table that is not         *)
(* allocated is empty.                                                      *)
ChainFiled(t, n, chain) ==
  /\ chain \in Seq(BindingIn(t))
  /\ \A b \in Elements(chain) : KeyAt(t, b.key) = OwnKey(t, b.value) /\ Bucket(t, KeyAt(t, b.key)) = n
  /\ \A i, j \in 1 .. Len(chain) : KeyAt(t, chain[i].key) = KeyAt(t, chain[j].key) => i = j

Filing ==
  /\ maps \subseteq Tables
  /\ buckets \in [Tables -> [0 .. NBuckets - 1 -> Seq(Binding)]]
  /\ ask_key \in [Callbacks -> AskKeys] /\ command \in [Responders -> Strings]
  /\ \A t \in Tables, n \in 0 .. NBuckets - 1 : ChainFiled(t, n, buckets[t][n])
  /\ \A t \in Tables \ maps : buckets[t] = EmptyTable

LEMMA EmptyTableHasNothing ==
  /\ EmptyTable \in [0 .. NBuckets - 1 -> Seq(Binding)]
  /\ \A n \in 0 .. NBuckets - 1 : EmptyTable[n] = <<>>
BY DEF EmptyTable

LEMMA BucketInTable ==
  ASSUME NEW t \in Tables, NEW k \in KeySet(t)
  PROVE  Bucket(t, k) \in 0 .. NBuckets - 1
<1>1. Hash(t, k) \in Nat
  BY DispatchAssumption DEF Hash, KeySet, Tables
<1>2. NBuckets \in Nat /\ NBuckets > 0
  BY DispatchAssumption
<1>3. ASSUME NEW h \in Nat, NEW n \in Nat, n > 0 PROVE h % n \in 0 .. n - 1
  BY <1>3
<1> QED BY <1>1, <1>2, <1>3 DEF Bucket

-----------------------------------------------------------------------------
(* A table as the set of its bindings *)

LEMMA BindingsAre ==
  \A t : BindingsOf(t) = UNION {Elements(buckets[t][n]) : n \in 0 .. NBuckets - 1}
BY DEF BindingsOf, Elements

LEMMA BindingFacts ==
  Filing => \A t \in Tables :
    /\ \A b \in BindingsOf(t) :
         /\ b \in BindingIn(t) /\ KeyAt(t, b.key) = OwnKey(t, b.value) /\ KeyAt(t, b.key) \in KeySet(t)
         /\ b \in Elements(buckets[t][Bucket(t, KeyAt(t, b.key))])
    /\ \A b, c \in BindingsOf(t) : KeyAt(t, b.key) = KeyAt(t, c.key) => b = c
<1> SUFFICES ASSUME Filing, NEW t \in Tables
             PROVE  /\ \A b \in BindingsOf(t) :
                         /\ b \in BindingIn(t) /\ KeyAt(t, b.key) = OwnKey(t, b.value)
                         /\ KeyAt(t, b.key) \in KeySet(t)
                         /\ b \in Elements(buckets[t][Bucket(t, KeyAt(t, b.key))])
                    /\ \A b, c \in BindingsOf(t) : KeyAt(t, b.key) = KeyAt(t, c.key) => b = c
  OBVIOUS
<1>1. ASSUME NEW b \in BindingsOf(t)
      PROVE  /\ b \in BindingIn(t) /\ KeyAt(t, b.key) = OwnKey(t, b.value)
             /\ KeyAt(t, b.key) \in KeySet(t)
             /\ \E n \in 0 .. NBuckets - 1 :
                  b \in Elements(buckets[t][n]) /\ Bucket(t, KeyAt(t, b.key)) = n
  <2>1. PICK n \in 0 .. NBuckets - 1 : b \in Elements(buckets[t][n])
    BY BindingsAre
  <2>2. ChainFiled(t, n, buckets[t][n])
    BY DEF Filing
  <2>3. b \in BindingIn(t)
    BY <2>1, <2>2, ElementOfSequence DEF ChainFiled, Elements
  <2>4. KeyAt(t, b.key) \in KeySet(t)
    BY <2>3, DispatchAssumption DEF Filing, KeyAt, KeySet, BindingIn, Pointers, Tables
  <2> QED BY <2>1, <2>2, <2>3, <2>4 DEF ChainFiled
<1>2. ASSUME NEW b \in BindingsOf(t), NEW c \in BindingsOf(t), KeyAt(t, b.key) = KeyAt(t, c.key)
      PROVE  b = c
  <2>1. PICK n \in 0 .. NBuckets - 1 : b \in Elements(buckets[t][n]) /\ c \in Elements(buckets[t][n])
    BY <1>1, <1>2
  <2>2. ChainFiled(t, n, buckets[t][n])
    BY DEF Filing
  <2> QED BY <1>2, <2>1, <2>2 DEF ChainFiled, Elements
<1> QED BY <1>1, <1>2

LEMMA SeenIsChain ==
  ASSUME Filing, NEW t \in Tables, NEW m \in 0 .. NBuckets - 1
  PROVE  /\ IsChain(Seen(t, buckets[t][m]), KeySet(t), ValueSet(t))
         /\ Len(Seen(t, buckets[t][m])) = Len(buckets[t][m])
<1> DEFINE chain == buckets[t][m]
           seen  == Seen(t, chain)
<1>1. ChainFiled(t, m, chain)
  BY DEF Filing
<1>2. chain \in Seq(BindingIn(t)) /\ Len(chain) \in Nat
  BY <1>1 DEF ChainFiled
<1>3. seen = [i \in 1 .. Len(chain) |-> [key |-> KeyAt(t, chain[i].key), value |-> chain[i].value]]
  BY DEF Seen
<1> HIDE DEF chain, seen
<1>4. \A i \in 1 .. Len(chain) : seen[i] \in [key : KeySet(t), value : ValueSet(t)]
  <2> TAKE i \in 1 .. Len(chain)
  <2>1. chain[i] \in BindingIn(t)
    BY <1>2, ElementOfSequence
  <2>2. KeyAt(t, chain[i].key) \in KeySet(t)
    BY <2>1, DispatchAssumption DEF Filing, KeyAt, KeySet, BindingIn, Pointers, Tables
  <2> QED BY <1>3, <2>1, <2>2 DEF BindingIn
<1>5. seen \in [1 .. Len(chain) -> [key : KeySet(t), value : ValueSet(t)]]
  BY <1>3, <1>4
<1>6. seen \in Seq([key : KeySet(t), value : ValueSet(t)]) /\ Len(seen) = Len(chain)
  <2>1. seen \in Seq([key : KeySet(t), value : ValueSet(t)])
    BY <1>2, <1>5, FunctionIsSeq
  <2> QED BY <1>2, <1>3, <2>1
<1>7. \A i, j \in 1 .. Len(seen) : seen[i].key = seen[j].key => i = j
  BY <1>1, <1>3, <1>6 DEF ChainFiled
<1> QED BY <1>6, <1>7 DEF IsChain, chain, seen

\* a search finds the binding of its key
LEMMA LookupFacts ==
  Filing => \A t \in Tables : \A k \in KeySet(t) :
    /\ Known(t, k) <=> \E b \in BindingsOf(t) : KeyAt(t, b.key) = k
    /\ Known(t, k) => /\ Place(t, k) \in 1 .. Len(Chain(t, k))
                      /\ Chain(t, k)[Place(t, k)] \in BindingsOf(t)
                      /\ KeyAt(t, Chain(t, k)[Place(t, k)].key) = k
<1> SUFFICES ASSUME Filing, NEW t \in Tables, NEW k \in KeySet(t)
             PROVE  /\ Known(t, k) <=> \E b \in BindingsOf(t) : KeyAt(t, b.key) = k
                    /\ Known(t, k) => /\ Place(t, k) \in 1 .. Len(Chain(t, k))
                                      /\ Chain(t, k)[Place(t, k)] \in BindingsOf(t)
                                      /\ KeyAt(t, Chain(t, k)[Place(t, k)].key) = k
  OBVIOUS
<1> DEFINE n == Bucket(t, k)
           chain == buckets[t][n]
           seen  == Seen(t, chain)
<1>1. n \in 0 .. NBuckets - 1 /\ chain = Chain(t, k)
  BY BucketInTable DEF Chain
<1>2. IsChain(seen, KeySet(t), ValueSet(t)) /\ Len(seen) = Len(chain)
  BY <1>1, SeenIsChain
<1>3. \A i \in 1 .. Len(chain) : seen[i].key = KeyAt(t, chain[i].key)
  BY DEF Seen
<1>4. \A i \in 1 .. Len(chain) : chain[i] \in BindingsOf(t)
  BY <1>1, BindingsAre DEF Elements
<1>5. ASSUME Known(t, k)
      PROVE  /\ Place(t, k) \in 1 .. Len(chain)
             /\ chain[Place(t, k)] \in BindingsOf(t)
             /\ KeyAt(t, chain[Place(t, k)].key) = k
  <2>1. Has(seen, k) /\ Place(t, k) = At(seen, k)
    BY <1>1, <1>5 DEF Known, Place
  <2> HIDE DEF seen, chain, n
  <2>2. At(seen, k) \in 1 .. Len(seen) /\ seen[At(seen, k)].key = k
    BY <1>2, <2>1, AtHas
  <2> QED BY <1>2, <1>3, <1>4, <2>1, <2>2
<1>6. ASSUME NEW b \in BindingsOf(t), KeyAt(t, b.key) = k PROVE Known(t, k)
  <2>1. b \in Elements(chain)
    BY <1>6, BindingFacts
  <2>2. PICK i \in 1 .. Len(chain) : b = chain[i]
    BY <2>1 DEF Elements
  <2> HIDE DEF seen, chain, n
  <2>3. i \in 1 .. Len(seen) /\ seen[i].key = k
    BY <1>2, <1>3, <1>6, <2>2
  <2>4. Has(seen, k)
    BY <2>3 DEF Has
  <2> QED BY <1>1, <2>4 DEF Known, seen
<1> QED BY <1>1, <1>5, <1>6

LEMMA MapFacts ==
  Filing => \A t \in Tables :
    /\ DOMAIN MapOf(t) = {KeyAt(t, b.key) : b \in BindingsOf(t)}
    /\ \A b \in BindingsOf(t) : MapOf(t)[KeyAt(t, b.key)] = b.value
<1> SUFFICES ASSUME Filing, NEW t \in Tables
             PROVE  /\ DOMAIN MapOf(t) = {KeyAt(t, b.key) : b \in BindingsOf(t)}
                    /\ \A b \in BindingsOf(t) : MapOf(t)[KeyAt(t, b.key)] = b.value
  OBVIOUS
<1>1. MapKeys(t) = {k \in KeySet(t) : Known(t, k)}
  BY DEF MapKeys, KeySet
<1>2. MapKeys(t) = {KeyAt(t, b.key) : b \in BindingsOf(t)}
  BY <1>1, BindingFacts, LookupFacts
<1>3. ASSUME NEW b \in BindingsOf(t) PROVE ValueOf(t, KeyAt(t, b.key)) = b.value
  <2> DEFINE k == KeyAt(t, b.key)
             c == Chain(t, k)[Place(t, k)]
  <2>1. k \in KeySet(t) /\ Known(t, k)
    BY BindingFacts, LookupFacts
  <2>2. c \in BindingsOf(t) /\ KeyAt(t, c.key) = k
    BY <2>1, LookupFacts
  <2>3. c = b
    BY <2>2, BindingFacts
  <2> QED BY <2>3 DEF ValueOf
<1>4. \A b \in BindingsOf(t) : KeyAt(t, b.key) \in MapKeys(t)
  BY <1>2
<1> QED BY <1>2, <1>3, <1>4 DEF MapOf

LEMMA NumBindingsAre == \A t : NumBindings(t) = TotalLength(buckets[t], NBuckets)
BY DEF NumBindings, TotalLength

LEMMA NumBindingsInNat ==
  ASSUME Filing, NEW t \in Tables
  PROVE  /\ NumBindings(t) \in Nat
         /\ buckets[t] = EmptyTable => NumBindings(t) = 0
<1>1. IsTable(buckets[t], NBuckets, Binding) /\ NBuckets \in Nat
  BY DispatchAssumption DEF IsTable, Filing
<1>2. buckets[t] = EmptyTable => \A i \in 0 .. NBuckets - 1 : buckets[t][i] = <<>>
  BY EmptyTableHasNothing
<1> QED BY <1>1, <1>2, TotalBounds, NumBindingsAre

LEMMA NumBindingsNat == Filing => \A t \in Tables : NumBindings(t) \in Nat
BY NumBindingsInNat

-----------------------------------------------------------------------------
(* One chain is replaced *)

\* what the bindings lead to stays as it was
Stable == \A u \in Tables : \A b \in BindingsOf(u) :
  KeyAt(u, b.key)' = KeyAt(u, b.key) /\ OwnKey(u, b.value)' = OwnKey(u, b.value)

FieldsTyped == ask_key \in [Callbacks -> AskKeys] /\ command \in [Responders -> Strings]

\* a chain that is left alone stays well filed
LEMMA StableChain ==
  ASSUME Filing, Stable, NEW t \in Tables, NEW m \in 0 .. NBuckets - 1, buckets'[t][m] = buckets[t][m]
  PROVE  ChainFiled(t, m, buckets[t][m])'
<1>0. PICK chain : chain = buckets[t][m]
  OBVIOUS
<1>1. ChainFiled(t, m, chain)
  BY <1>0 DEF Filing
<1>2. \A b \in Elements(chain) : b \in BindingsOf(t)
  BY <1>0, BindingsAre
<1>3. \A b \in Elements(chain) : KeyAt(t, b.key)' = KeyAt(t, b.key) /\ OwnKey(t, b.value)' = OwnKey(t, b.value)
  BY <1>2 DEF Stable
<1>4. \A i \in 1 .. Len(chain) : chain[i] \in Elements(chain)
  BY DEF Elements
<1>5. ChainFiled(t, m, chain)'
  BY <1>1, <1>3, <1>4 DEF ChainFiled, Bucket, Hash
<1>6. (buckets[t][m])' = chain
  BY <1>0
<1> QED BY <1>5, <1>6 DEF ChainFiled

LEMMA Rechained ==
  ASSUME Filing, Stable, FieldsTyped', NEW t \in maps, maps' = maps, NEW k \in KeySet(t), NEW ch,
         Rechain(t, k, ch), ChainFiled(t, Bucket(t, k), ch)'
  PROVE  /\ Filing'
         /\ BindingsOf(t)' = (BindingsOf(t) \ Elements(Chain(t, k))) \cup Elements(ch)
         /\ NumBindings(t)' = NumBindings(t) + Len(ch) - Len(Chain(t, k))
         /\ \A u \in Tables \ {t} : BindingsOf(u)' = BindingsOf(u) /\ NumBindings(u)' = NumBindings(u)
<1> DEFINE n == Bucket(t, k)
<1>1. t \in Tables /\ n \in 0 .. NBuckets - 1 /\ NBuckets \in Nat
  BY BucketInTable, DispatchAssumption DEF Filing
<1>2. ch \in Seq(BindingIn(t))
  BY DEF ChainFiled, BindingIn
<1>3. BindingIn(t) \subseteq Binding
  BY DEF BindingIn, Binding, Pointers, ValueSet, Structs
<1>4. ch \in Seq(Binding)
  BY <1>2, <1>3
<1>5. /\ buckets' \in [Tables -> [0 .. NBuckets - 1 -> Seq(Binding)]]
      /\ buckets'[t] = [buckets[t] EXCEPT ![n] = ch]
      /\ \A u \in Tables \ {t} : buckets'[u] = buckets[u]
  BY <1>1, <1>4 DEF Filing, Rechain
<1>6. /\ buckets'[t][n] = ch
      /\ \A m \in 0 .. NBuckets - 1 : m # n => buckets'[t][m] = buckets[t][m]
  BY <1>1, <1>5 DEF Filing
<1> HIDE DEF n
<1>7. \A u \in Tables, m \in 0 .. NBuckets - 1 : ChainFiled(u, m, buckets[u][m])'
  <2> TAKE u \in Tables, m \in 0 .. NBuckets - 1
  <2>1. CASE u = t /\ m = n
    <3>1. (buckets[u][m])' = ch
      BY <1>6, <2>1
    <3> QED BY <2>1, <3>1 DEF ChainFiled, n, Bucket, Hash
  <2>2. CASE ~(u = t /\ m = n)
    <3>1. buckets'[u][m] = buckets[u][m]
      BY <1>5, <1>6, <2>2
    <3> QED BY <3>1, StableChain
  <2> QED BY <2>1, <2>2
<1>8. Filing'
  BY <1>5, <1>7 DEF Filing, FieldsTyped, EmptyTable, Binding, Tables
<1>9. \A u : BindingsOf(u)' = UNION {Elements(buckets'[u][m]) : m \in 0 .. NBuckets - 1}
  BY DEF BindingsOf, Elements
<1>10. BindingsOf(t)' = (BindingsOf(t) \ Elements(Chain(t, k))) \cup Elements(ch)
  <2>1. \A m \in 0 .. NBuckets - 1 : m # n =>
          \A b \in Elements(buckets[t][m]) : b \notin Elements(Chain(t, k))
    <3>1. Chain(t, k) = buckets[t][n]
      BY DEF Chain, n
    <3>2. \A m \in 0 .. NBuckets - 1 : \A b \in Elements(buckets[t][m]) : Bucket(t, KeyAt(t, b.key)) = m
      BY <1>1, ZenonT(120) DEF Filing, ChainFiled
    <3> QED BY <1>1, <3>1, <3>2
  <2>2. Chain(t, k) = buckets[t][n]
    BY DEF Chain, n
  <2>3. \A b : b \in BindingsOf(t)' <=>
          b \in Elements(ch) \/ \E m \in 0 .. NBuckets - 1 : m # n /\ b \in Elements(buckets[t][m])
    BY <1>1, <1>6, <1>9
  <2>4. \A b : b \in BindingsOf(t) <=>
          b \in Elements(Chain(t, k)) \/ \E m \in 0 .. NBuckets - 1 : m # n /\ b \in Elements(buckets[t][m])
    BY <1>1, <2>2, BindingsAre
  <2> QED BY <2>1, <2>3, <2>4
<1>11. \A u \in Tables \ {t} : BindingsOf(u)' = BindingsOf(u) /\ NumBindings(u)' = NumBindings(u)
  <2> TAKE u \in Tables \ {t}
  <2>1. buckets'[u] = buckets[u]
    BY <1>5
  <2>2. BindingsOf(u)' = BindingsOf(u)
    BY <2>1 DEF BindingsOf
  <2> QED BY <2>1, <2>2 DEF NumBindings
<1>12. NumBindings(t)' = NumBindings(t) + Len(ch) - Len(Chain(t, k))
  <2>1. buckets[t] \in [0 .. NBuckets - 1 -> Seq(Binding)]
    BY <1>1 DEF Filing
  <2>2. TotalLength([buckets[t] EXCEPT ![n] = ch], NBuckets)
          = TotalLength(buckets[t], NBuckets) + Len(ch) - Len(buckets[t][n])
    <3> DEFINE tab == buckets[t]
    <3>1. IsTable(tab, NBuckets, Binding) /\ n \in DOMAIN tab
      BY <1>1, <2>1 DEF IsTable
    <3> HIDE DEF tab
    <3>2. TotalLength([tab EXCEPT ![n] = ch], NBuckets)
            = TotalLength(tab, NBuckets) + Len(ch) - Len(tab[n])
      BY <1>1, <1>4, <3>1, TotalReplaced, SMTT(60)
    <3> QED BY <3>2 DEF tab
  <2>3. NumBindings(t)' = TotalLength(buckets'[t], NBuckets)
    BY DEF NumBindings, TotalLength
  <2> QED BY <1>5, <2>2, <2>3, NumBindingsAre DEF Chain, n
<1> QED BY <1>8, <1>10, <1>11, <1>12

-----------------------------------------------------------------------------
(* Table_put and Table_remove, on the set of bindings *)

Entry(t, k) == Chain(t, k)[Place(t, k)]

\* the chain of k, and where in it the entry of k is
LEMMA EntryInChain ==
  ASSUME Filing, NEW t \in Tables, NEW k \in KeySet(t)
  PROVE  /\ ChainFiled(t, Bucket(t, k), Chain(t, k))
         /\ \A b \in Elements(Chain(t, k)) : b \in BindingsOf(t)
         /\ \A b \in BindingsOf(t) : KeyAt(t, b.key) = k => b \in Elements(Chain(t, k))
         /\ \A i, j \in 1 .. Len(Chain(t, k)) : Chain(t, k)[i] = Chain(t, k)[j] => i = j
<1>1. ChainFiled(t, Bucket(t, k), Chain(t, k))
  BY BucketInTable DEF Filing, Chain
<1>2. \A b \in Elements(Chain(t, k)) : b \in BindingsOf(t)
  BY BucketInTable, BindingsAre DEF Chain
<1>3. \A b \in BindingsOf(t) : KeyAt(t, b.key) = k => b \in Elements(Chain(t, k))
  BY BindingFacts DEF Chain
<1>4. \A i, j \in 1 .. Len(Chain(t, k)) : Chain(t, k)[i] = Chain(t, k)[j] => i = j
  BY <1>1 DEF ChainFiled
<1> QED BY <1>1, <1>2, <1>3, <1>4

LEMMA PutNew ==
  ASSUME Filing, Stable, FieldsTyped', NEW t \in maps, maps' = maps, NEW k \in KeySet(t),
         NEW p \in Pointers(t), NEW v \in ValueSet(t), KeyAt(t, p)' = k, OwnKey(t, v)' = k,
         ~Known(t, k), Rechain(t, k, Bound(t, p, k, v))
  PROVE  /\ Filing'
         /\ BindingsOf(t)' = BindingsOf(t) \cup {[key |-> p, value |-> v]}
         /\ NumBindings(t)' = NumBindings(t) + 1
         /\ \A u \in Tables \ {t} : BindingsOf(u)' = BindingsOf(u) /\ NumBindings(u)' = NumBindings(u)
<1>1. PICK old, x, ch : old = Chain(t, k) /\ x = [key |-> p, value |-> v] /\ ch = <<x>> \o old
  OBVIOUS
<1>2. t \in Tables /\ Rechain(t, k, ch) /\ x \in BindingIn(t) /\ x.key = p /\ x.value = v
  BY <1>1 DEF Bound, Filing, BindingIn
<1>3. /\ old \in Seq(BindingIn(t))
      /\ \A b \in Elements(old) : b \in BindingsOf(t) /\ Bucket(t, KeyAt(t, b.key)) = Bucket(t, k)
      /\ \A i, j \in 1 .. Len(old) : KeyAt(t, old[i].key) = KeyAt(t, old[j].key) => i = j
  BY <1>1, <1>2, EntryInChain DEF ChainFiled
<1>4. /\ ch \in Seq(BindingIn(t)) /\ Len(ch) = Len(old) + 1
      /\ Elements(ch) = Elements(old) \cup {x}
  BY <1>1, <1>2, <1>3, ConsElements
<1>5. \A i \in 1 .. Len(ch) : IF i = 1 THEN ch[i] = x ELSE i - 1 \in 1 .. Len(old) /\ ch[i] = old[i - 1]
  BY <1>1, <1>2, <1>3
<1>6. /\ \A i \in 1 .. Len(old) : old[i] \in Elements(old)
      /\ \A b \in Elements(old) :
           /\ KeyAt(t, b.key)' = KeyAt(t, b.key) /\ OwnKey(t, b.value)' = OwnKey(t, b.value)
           /\ KeyAt(t, b.key) # k
  <2>1. \A b \in BindingsOf(t) : KeyAt(t, b.key) # k
    BY <1>2, LookupFacts
  <2> QED BY <1>2, <1>3, <2>1 DEF Stable, Elements
<1>7. \A i, j \in 1 .. Len(ch) : KeyAt(t, ch[i].key)' = KeyAt(t, ch[j].key)' => i = j
  <2> SUFFICES ASSUME NEW i \in 1 .. Len(ch), NEW j \in 1 .. Len(ch),
                      KeyAt(t, ch[i].key)' = KeyAt(t, ch[j].key)'
               PROVE  i = j
    OBVIOUS
  <2>1. CASE i = 1 /\ j # 1
    <3>1. KeyAt(t, ch[i].key)' = k /\ KeyAt(t, ch[j].key)' # k
      BY <1>2, <1>5, <1>6, <2>1
    <3> QED BY <3>1
  <2>2. CASE i # 1 /\ j = 1
    <3>1. KeyAt(t, ch[j].key)' = k /\ KeyAt(t, ch[i].key)' # k
      BY <1>2, <1>5, <1>6, <2>2
    <3> QED BY <3>1
  <2>3. CASE i # 1 /\ j # 1
    <3>1. i - 1 \in 1 .. Len(old) /\ j - 1 \in 1 .. Len(old) /\ ch[i] = old[i - 1] /\ ch[j] = old[j - 1]
      BY <1>5, <2>3
    <3>2. KeyAt(t, old[i - 1].key) = KeyAt(t, old[j - 1].key)
      BY <1>6, <3>1
    <3>3. i - 1 = j - 1
      BY <1>3, <3>1, <3>2
    <3> QED BY <3>3
  <2> QED BY <2>1, <2>2, <2>3
<1>8. \A b \in Elements(ch) : KeyAt(t, b.key)' = OwnKey(t, b.value)' /\ Bucket(t, KeyAt(t, b.key)') = Bucket(t, k)
  <2>1. \A b \in BindingsOf(t) : KeyAt(t, b.key) = OwnKey(t, b.value)
    BY <1>2, BindingFacts
  <2> QED BY <1>2, <1>3, <1>4, <1>6, <2>1
<1>9. ChainFiled(t, Bucket(t, k), ch)'
  BY <1>4, <1>7, <1>8 DEF ChainFiled, Bucket, Hash
<1>10. /\ Filing'
       /\ BindingsOf(t)' = (BindingsOf(t) \ Elements(old)) \cup Elements(ch)
       /\ NumBindings(t)' = NumBindings(t) + Len(ch) - Len(old)
       /\ \A u \in Tables \ {t} : BindingsOf(u)' = BindingsOf(u) /\ NumBindings(u)' = NumBindings(u)
  BY <1>1, <1>2, <1>9, Rechained
<1>11. BindingsOf(t)' = BindingsOf(t) \cup {x}
  BY <1>3, <1>4, <1>10
<1>12. NumBindings(t)' = NumBindings(t) + 1
  <2>1. NumBindings(t) \in Nat
    BY <1>2, NumBindingsInNat
  <2>2. Len(old) \in Nat
    BY <1>3
  <2> QED BY <1>4, <1>10, <2>1, <2>2
<1> QED BY <1>1, <1>10, <1>11, <1>12

LEMMA PutKnown ==
  ASSUME Filing, Stable, FieldsTyped', NEW t \in maps, maps' = maps, NEW k \in KeySet(t),
         NEW p, NEW v \in ValueSet(t), OwnKey(t, v)' = k,
         Known(t, k), Rechain(t, k, Bound(t, p, k, v))
  PROVE  /\ Filing'
         /\ BindingsOf(t)' = (BindingsOf(t) \ {Entry(t, k)}) \cup {[key |-> Entry(t, k).key, value |-> v]}
         /\ NumBindings(t)' = NumBindings(t)
         /\ \A u \in Tables \ {t} : BindingsOf(u)' = BindingsOf(u) /\ NumBindings(u)' = NumBindings(u)
<1>1. PICK old, a, e, x, ch :
        /\ old = Chain(t, k) /\ a = Place(t, k) /\ e = Entry(t, k)
        /\ x = [key |-> e.key, value |-> v] /\ ch = [old EXCEPT ![a] = x]
  OBVIOUS
<1>2. t \in Tables
  BY DEF Filing
<1>3. /\ a \in 1 .. Len(old) /\ e = old[a] /\ e \in BindingsOf(t) /\ KeyAt(t, e.key) = k
      /\ e \in BindingIn(t)
  BY <1>1, <1>2, LookupFacts, BindingFacts DEF Entry
<1>4. /\ old \in Seq(BindingIn(t))
      /\ \A b \in Elements(old) : b \in BindingsOf(t) /\ Bucket(t, KeyAt(t, b.key)) = Bucket(t, k)
      /\ \A i, j \in 1 .. Len(old) : KeyAt(t, old[i].key) = KeyAt(t, old[j].key) => i = j
      /\ \A i \in 1 .. Len(old) : old[i] = old[a] => i = a
  BY <1>1, <1>2, <1>3, EntryInChain DEF ChainFiled
<1>5. Rechain(t, k, ch)
  <2>1. [old EXCEPT ![a].value = v] = ch
    <3>1. [old[a] EXCEPT !.value = v] = x
      BY <1>1, <1>3 DEF BindingIn
    <3> QED BY <1>1, <3>1
  <2> QED BY <1>1, <2>1 DEF Bound
<1>6. x \in BindingIn(t) /\ x.key = e.key /\ x.value = v
  BY <1>1, <1>3 DEF BindingIn
<1>7. /\ ch \in Seq(BindingIn(t)) /\ Len(ch) = Len(old)
      /\ Elements(ch) = (Elements(old) \ {e}) \cup {x}
  <2>1. /\ old \in Seq(BindingIn(t)) /\ a \in 1 .. Len(old) /\ x \in BindingIn(t)
        /\ \A i \in 1 .. Len(old) : old[i] = old[a] => i = a
    BY <1>3, <1>4, <1>6
  <2>2. /\ [old EXCEPT ![a] = x] \in Seq(BindingIn(t)) /\ Len([old EXCEPT ![a] = x]) = Len(old)
        /\ Elements([old EXCEPT ![a] = x]) = (Elements(old) \ {old[a]}) \cup {x}
    BY <2>1, SetElements
  <2> QED BY <1>1, <1>3, <2>2
<1>8. \A i \in 1 .. Len(ch) : ch[i].key = old[i].key
  BY <1>1, <1>3, <1>4, <1>6
<1>9. /\ \A i \in 1 .. Len(old) : old[i] \in Elements(old)
      /\ \A b \in Elements(old) :
           KeyAt(t, b.key)' = KeyAt(t, b.key) /\ OwnKey(t, b.value)' = OwnKey(t, b.value)
  BY <1>2, <1>4 DEF Stable, Elements
<1>10. \A i, j \in 1 .. Len(ch) : KeyAt(t, ch[i].key)' = KeyAt(t, ch[j].key)' => i = j
  BY <1>4, <1>7, <1>8, <1>9
<1>11. \A b \in Elements(ch) : KeyAt(t, b.key)' = OwnKey(t, b.value)' /\ Bucket(t, KeyAt(t, b.key)') = Bucket(t, k)
  <2>1. \A b \in BindingsOf(t) : KeyAt(t, b.key) = OwnKey(t, b.value)
    BY <1>2, BindingFacts
  <2>2. KeyAt(t, x.key)' = k /\ OwnKey(t, x.value)' = k
    BY <1>2, <1>3, <1>6 DEF Stable
  <2> QED BY <1>4, <1>7, <1>9, <2>1, <2>2
<1>12. ChainFiled(t, Bucket(t, k), ch)'
  BY <1>7, <1>10, <1>11 DEF ChainFiled, Bucket, Hash
<1>13. /\ Filing'
       /\ BindingsOf(t)' = (BindingsOf(t) \ Elements(old)) \cup Elements(ch)
       /\ NumBindings(t)' = NumBindings(t) + Len(ch) - Len(old)
       /\ \A u \in Tables \ {t} : BindingsOf(u)' = BindingsOf(u) /\ NumBindings(u)' = NumBindings(u)
  BY <1>1, <1>2, <1>5, <1>12, Rechained
<1>14. BindingsOf(t)' = (BindingsOf(t) \ {e}) \cup {x}
  <2>1. e \in Elements(old)
    BY <1>3, <1>9
  <2> QED BY <1>4, <1>7, <1>13, <2>1
<1>15. NumBindings(t)' = NumBindings(t)
  <2>1. NumBindings(t) \in Nat
    BY <1>2, NumBindingsInNat
  <2>2. Len(old) \in Nat
    BY <1>4
  <2> QED BY <1>7, <1>13, <2>1, <2>2
<1> QED BY <1>1, <1>13, <1>14, <1>15

LEMMA RemoveKnown ==
  ASSUME Filing, Stable, FieldsTyped', NEW t \in maps, maps' = maps, NEW k \in KeySet(t),
         Known(t, k), Rechain(t, k, Without(Chain(t, k), Place(t, k)))
  PROVE  /\ Filing'
         /\ BindingsOf(t)' = BindingsOf(t) \ {Entry(t, k)}
         /\ NumBindings(t)' = NumBindings(t) - 1
         /\ \A u \in Tables \ {t} : BindingsOf(u)' = BindingsOf(u) /\ NumBindings(u)' = NumBindings(u)
<1>1. PICK old, a, e, ch :
        old = Chain(t, k) /\ a = Place(t, k) /\ e = Entry(t, k) /\ ch = Without(old, a)
  OBVIOUS
<1>2. t \in Tables /\ Rechain(t, k, ch)
  BY <1>1 DEF Filing
<1>3. a \in 1 .. Len(old) /\ e = old[a] /\ e \in BindingsOf(t)
  BY <1>1, <1>2, LookupFacts DEF Entry
<1>4. /\ old \in Seq(BindingIn(t))
      /\ \A b \in Elements(old) : b \in BindingsOf(t) /\ Bucket(t, KeyAt(t, b.key)) = Bucket(t, k)
      /\ \A i, j \in 1 .. Len(old) : KeyAt(t, old[i].key) = KeyAt(t, old[j].key) => i = j
      /\ \A i \in 1 .. Len(old) : old[i] = old[a] => i = a
  BY <1>1, <1>2, <1>3, EntryInChain DEF ChainFiled
<1>5. ch \in Seq(BindingIn(t)) /\ Len(ch) = Len(old) - 1 /\ Elements(ch) = Elements(old) \ {e}
  BY <1>1, <1>3, <1>4, WithoutElements
<1>6. /\ \A i \in 1 .. Len(old) : old[i] \in Elements(old)
      /\ \A b \in Elements(old) :
           KeyAt(t, b.key)' = KeyAt(t, b.key) /\ OwnKey(t, b.value)' = OwnKey(t, b.value)
  BY <1>2, <1>4 DEF Stable, Elements
<1>7. \A i, j \in 1 .. Len(ch) : KeyAt(t, ch[i].key)' = KeyAt(t, ch[j].key)' => i = j
  <2> SUFFICES ASSUME NEW i \in 1 .. Len(ch), NEW j \in 1 .. Len(ch),
                      KeyAt(t, ch[i].key)' = KeyAt(t, ch[j].key)'
               PROVE  i = j
    OBVIOUS
  <2>1. i \in 1 .. Len(old) - 1 /\ j \in 1 .. Len(old) - 1
    BY <1>5
  <2>2. PICK p \in 1 .. Len(old), q \in 1 .. Len(old) : ch[i] = old[p] /\ ch[j] = old[q] /\ (p = q => i = j)
    <3>1. old \in Seq(BindingIn(t)) /\ a \in 1 .. Len(old)
      BY <1>3, <1>4
    <3>2. \A x, y \in 1 .. Len(old) - 1 :
            \E p, q \in 1 .. Len(old) :
              Without(old, a)[x] = old[p] /\ Without(old, a)[y] = old[q] /\ (p = q => x = y)
      BY <3>1, WithoutPlaces, ZenonT(120)
    <3>3. \E p, q \in 1 .. Len(old) :
            Without(old, a)[i] = old[p] /\ Without(old, a)[j] = old[q] /\ (p = q => i = j)
      BY <2>1, <3>2, ZenonT(120)
    <3>4. ch = Without(old, a)
      BY <1>1
    <3> QED BY <3>3, <3>4
  <2>3. KeyAt(t, old[p].key) = KeyAt(t, old[q].key)
    BY <1>6, <2>2
  <2> QED BY <1>4, <2>2, <2>3
<1>8. \A b \in Elements(ch) : KeyAt(t, b.key)' = OwnKey(t, b.value)' /\ Bucket(t, KeyAt(t, b.key)') = Bucket(t, k)
  <2>1. \A b \in BindingsOf(t) : KeyAt(t, b.key) = OwnKey(t, b.value)
    BY <1>2, BindingFacts
  <2> QED BY <1>4, <1>5, <1>6, <2>1
<1>9. ChainFiled(t, Bucket(t, k), ch)'
  BY <1>5, <1>7, <1>8 DEF ChainFiled, Bucket, Hash
<1>10. /\ Filing'
       /\ BindingsOf(t)' = (BindingsOf(t) \ Elements(old)) \cup Elements(ch)
       /\ NumBindings(t)' = NumBindings(t) + Len(ch) - Len(old)
       /\ \A u \in Tables \ {t} : BindingsOf(u)' = BindingsOf(u) /\ NumBindings(u)' = NumBindings(u)
  BY <1>1, <1>2, <1>9, Rechained
<1>11. BindingsOf(t)' = BindingsOf(t) \ {e}
  <2>1. e \in Elements(old)
    BY <1>3, <1>6
  <2> QED BY <1>4, <1>5, <1>10, <2>1
<1>12. NumBindings(t)' = NumBindings(t) - 1
  <2>1. NumBindings(t) \in Nat
    BY <1>2, NumBindingsInNat
  <2>2. Len(old) \in Nat
    BY <1>4
  <2> QED BY <1>5, <1>10, <2>1, <2>2
<1> QED BY <1>1, <1>10, <1>11, <1>12

\* the chains, and so the bindings, stay as they were
LEMMA SameBuckets ==
  ASSUME Filing, Stable, FieldsTyped', maps' = maps, buckets' = buckets
  PROVE  /\ Filing'
         /\ \A u \in Tables : BindingsOf(u)' = BindingsOf(u) /\ NumBindings(u)' = NumBindings(u)
<1>1. \A u \in Tables, m \in 0 .. NBuckets - 1 : ChainFiled(u, m, buckets[u][m])'
  BY StableChain
<1>2. Filing'
  BY <1>1 DEF Filing, FieldsTyped, EmptyTable, Binding, Tables
<1> QED BY <1>2 DEF BindingsOf, NumBindings

\* a table is allocated, or freed
LEMMA ClearTable ==
  ASSUME Filing, ask_key' = ask_key, command' = command, NEW t \in Tables,
         maps' = maps \cup {t} \/ maps' = maps \ {t},
         buckets' = [buckets EXCEPT ![t] = EmptyTable]
  PROVE  /\ Filing'
         /\ BindingsOf(t)' = {} /\ NumBindings(t)' = 0
         /\ \A u \in Tables \ {t} : BindingsOf(u)' = BindingsOf(u) /\ NumBindings(u)' = NumBindings(u)
<1>1. /\ buckets' \in [Tables -> [0 .. NBuckets - 1 -> Seq(Binding)]] /\ buckets'[t] = EmptyTable
      /\ \A u \in Tables \ {t} : buckets'[u] = buckets[u]
  BY EmptyTableHasNothing DEF Filing
<1>2. Stable
  BY DEF Stable, KeyAt, OwnKey
<1>3. Elements(<<>>) = {} /\ <<>> \in Seq(BindingIn(t)) /\ Len(<<>>) = 0
  BY DEF Elements
<1>4. \A u \in Tables, m \in 0 .. NBuckets - 1 : ChainFiled(u, m, buckets[u][m])'
  <2> TAKE u \in Tables, m \in 0 .. NBuckets - 1
  <2>1. CASE u = t
    <3>1. (buckets[u][m])' = <<>>
      BY <1>1, <2>1, EmptyTableHasNothing
    <3>2. (buckets[u][m])' \in Seq(BindingIn(u)) /\ Elements((buckets[u][m])') = {}
      BY <1>3, <2>1, <3>1
    <3>3. 1 .. Len((buckets[u][m])') = {}
      BY <1>3, <3>1
    <3> QED BY <3>2, <3>3 DEF ChainFiled
  <2>2. CASE u # t
    <3>1. buckets'[u][m] = buckets[u][m]
      BY <1>1, <2>2
    <3> QED BY <1>2, <3>1, StableChain
  <2> QED BY <2>1, <2>2
<1>5. Filing'
  <2>1. EmptyTable' = EmptyTable /\ Binding' = Binding
    BY DEF EmptyTable, Binding
  <2> QED BY <1>1, <1>4, <2>1 DEF Filing, Tables
<1>6. BindingsOf(t)' = {}
  <2>1. BindingsOf(t)' = UNION {Elements(buckets'[t][m]) : m \in 0 .. NBuckets - 1}
    BY DEF BindingsOf, Elements
  <2>2. \A m \in 0 .. NBuckets - 1 : Elements(buckets'[t][m]) = {}
    BY <1>1, <1>3, EmptyTableHasNothing
  <2> QED BY <2>1, <2>2
<1>7. NumBindings(t)' = 0
  <2>1. IsTable(EmptyTable, NBuckets, Binding) /\ NBuckets \in Nat
    BY EmptyTableHasNothing, DispatchAssumption DEF IsTable
  <2>2. TotalLength(EmptyTable, NBuckets) = 0
    BY <2>1, EmptyTableHasNothing, TotalBounds
  <2>3. NumBindings(t)' = TotalLength(buckets'[t], NBuckets)
    BY DEF NumBindings, TotalLength
  <2> QED BY <1>1, <2>2, <2>3
<1>8. \A u \in Tables \ {t} : BindingsOf(u)' = BindingsOf(u) /\ NumBindings(u)' = NumBindings(u)
  BY <1>1 DEF BindingsOf, NumBindings
<1> QED BY <1>5, <1>6, <1>7, <1>8

-----------------------------------------------------------------------------
(* Counting, and the map *)

StoredIn(t) == {b.value : b \in BindingsOf(t)}

Counting ==
  /\ length \in [Tables -> Nat] /\ bindings \in Nat
  /\ \A t \in Tables : length[t] = NumBindings(t)
                       /\ IsFiniteSet(StoredIn(t)) /\ length[t] = Cardinality(StoredIn(t))
  /\ bindings = length["callbacks"] + length["responders"]

\* the primed forms of facts about every state
LEMMA NextFacts ==
  ASSUME Filing'
  PROVE  \A t \in Tables :
    /\ \A b \in BindingsOf(t)' :
         /\ b \in BindingIn(t) /\ KeyAt(t, b.key)' = OwnKey(t, b.value)' /\ KeyAt(t, b.key)' \in KeySet(t)
    /\ \A b, c \in BindingsOf(t)' : KeyAt(t, b.key)' = KeyAt(t, c.key)' => b = c
    /\ \A x : x \in (DOMAIN MapOf(t))' <=> \E b \in BindingsOf(t)' : x = KeyAt(t, b.key)'
    /\ \A b \in BindingsOf(t)' : MapOf(t)'[KeyAt(t, b.key)'] = b.value
<1>1. (\A t \in Tables :
         /\ \A b \in BindingsOf(t) :
              /\ b \in BindingIn(t) /\ KeyAt(t, b.key) = OwnKey(t, b.value) /\ KeyAt(t, b.key) \in KeySet(t)
              /\ b \in Elements(buckets[t][Bucket(t, KeyAt(t, b.key))])
         /\ \A b, c \in BindingsOf(t) : KeyAt(t, b.key) = KeyAt(t, c.key) => b = c)'
  BY BindingFacts, PTL
<1>2. (\A t \in Tables :
         /\ DOMAIN MapOf(t) = {KeyAt(t, b.key) : b \in BindingsOf(t)}
         /\ \A b \in BindingsOf(t) : MapOf(t)[KeyAt(t, b.key)] = b.value)'
  BY MapFacts, PTL
<1> QED BY <1>1, <1>2 DEF BindingIn, Pointers, ValueSet, KeySet, Tables

LEMMA NextNumBindings ==
  ASSUME Filing'
  PROVE  \A t \in Tables : NumBindings(t)' \in Nat
<1>1. (\A t \in Tables : NumBindings(t) \in Nat)'
  BY NumBindingsNat, PTL
<1> QED BY <1>1 DEF Tables

LEMMA SameMap ==
  ASSUME Filing, Filing', Stable, NEW t \in Tables, BindingsOf(t)' = BindingsOf(t)
  PROVE  MapOf(t)' = MapOf(t)
<1>1. DOMAIN MapOf(t)' = DOMAIN MapOf(t)
  BY MapFacts, NextFacts DEF Stable
<1>2. \A x \in DOMAIN MapOf(t) : MapOf(t)'[x] = MapOf(t)[x]
  BY MapFacts, NextFacts, SMTT(60) DEF Stable
<1>3. MapOf(t) = [x \in DOMAIN MapOf(t) |-> MapOf(t)[x]]
  BY DEF MapOf
<1>4. MapOf(t)' = [x \in (DOMAIN MapOf(t))' |-> MapOf(t)'[x]]
  BY DEF MapOf
<1> QED BY <1>1, <1>2, <1>3, <1>4

\* what a search returns
LEMMA FindFacts ==
  ASSUME Filing, NEW t \in Tables, NEW k \in KeySet(t)
  PROVE  /\ Known(t, k) => /\ Entry(t, k) \in BindingsOf(t) /\ KeyAt(t, Entry(t, k).key) = k
                           /\ Find(t, k) = Entry(t, k).value
                           /\ Find(t, k) \in StoredIn(t) /\ Find(t, k) # Absent
         /\ ~Known(t, k) => Find(t, k) = Absent
         /\ Find(t, k) = Map!Find(MapOf(t), k)
         /\ Absent \notin StoredIn(t)
<1>1. \A b \in BindingsOf(t) : b.value \in Callbacks \cup Responders
  BY BindingFacts DEF BindingIn, ValueSet
<1>2. Absent \notin StoredIn(t)
  BY <1>1, DispatchAssumption DEF StoredIn
<1>3. Known(t, k) => /\ Entry(t, k) \in BindingsOf(t) /\ KeyAt(t, Entry(t, k).key) = k
                     /\ Find(t, k) = Entry(t, k).value
  BY LookupFacts DEF Entry, Find, ValueOf
<1>4. Known(t, k) => Find(t, k) \in StoredIn(t)
  BY <1>3 DEF StoredIn
<1>5. ~Known(t, k) => Find(t, k) = Absent
  BY DEF Find
<1>6. Find(t, k) = Map!Find(MapOf(t), k)
  <2>1. CASE Known(t, k)
    <3>1. k \in DOMAIN MapOf(t) /\ MapOf(t)[k] = Entry(t, k).value
      BY <1>3, <2>1, MapFacts
    <3> QED BY <1>3, <2>1, <3>1 DEF Map!Find
  <2>2. CASE ~Known(t, k)
    <3>1. k \notin DOMAIN MapOf(t)
      <4>1. ~\E b \in BindingsOf(t) : KeyAt(t, b.key) = k
        BY <2>2, LookupFacts
      <4> QED BY <4>1, MapFacts
    <3> QED BY <1>5, <2>2, <3>1 DEF Map!Find
  <2> QED BY <2>1, <2>2
<1> QED BY <1>2, <1>3, <1>4, <1>5, <1>6

\* a value is stored once
LEMMA ValuesDiffer ==
  ASSUME Filing, NEW t \in Tables, NEW b \in BindingsOf(t), NEW c \in BindingsOf(t), b.value = c.value
  PROVE  b = c
BY BindingFacts

LEMMA MapBound ==
  ASSUME Filing, Filing', Stable, NEW t \in Tables, NEW k \in KeySet(t), NEW v,
         NEW x \in BindingsOf(t)', KeyAt(t, x.key)' = k, x.value = v,
         \A b : b \in BindingsOf(t)' <=> b = x \/ (b \in BindingsOf(t) /\ KeyAt(t, b.key) # k)
  PROVE  MapOf(t)' = Map!Bind(MapOf(t), k, v)
<1>a. \A y : y \in DOMAIN MapOf(t) <=> \E b \in BindingsOf(t) : y = KeyAt(t, b.key)
  BY MapFacts
<1>b. \A b \in BindingsOf(t) : MapOf(t)[KeyAt(t, b.key)] = b.value
  BY MapFacts
<1>c. \A y : y \in (DOMAIN MapOf(t))' <=> \E b \in BindingsOf(t)' : y = KeyAt(t, b.key)'
  BY NextFacts
<1>d. \A b \in BindingsOf(t)' : MapOf(t)'[KeyAt(t, b.key)'] = b.value
  BY NextFacts
<1>1. \A y : y \in (DOMAIN MapOf(t))' <=> y \in DOMAIN MapOf(t) \cup {k}
  <2>1. \A b \in BindingsOf(t)' : b # x => KeyAt(t, b.key)' = KeyAt(t, b.key) /\ b \in BindingsOf(t)
    BY DEF Stable
  <2>2. \A b \in BindingsOf(t) : KeyAt(t, b.key) # k => b \in BindingsOf(t)' /\ KeyAt(t, b.key)' = KeyAt(t, b.key)
    BY DEF Stable
  <2> QED BY <2>1, <2>2, <1>a, <1>c
<1>2. \A y \in DOMAIN MapOf(t) \cup {k} : MapOf(t)'[y] = IF y = k THEN v ELSE MapOf(t)[y]
  <2>1. MapOf(t)'[k] = v
    BY <1>d
  <2>2. ASSUME NEW y \in DOMAIN MapOf(t), y # k PROVE MapOf(t)'[y] = MapOf(t)[y]
    <3>1. PICK b \in BindingsOf(t) : y = KeyAt(t, b.key)
      BY <1>a
    <3>2. b \in BindingsOf(t)' /\ KeyAt(t, b.key)' = y
      BY <2>2, <3>1 DEF Stable
    <3> QED BY <3>1, <3>2, <1>b, <1>d
  <2> QED BY <2>1, <2>2
<1>3. MapOf(t)' = [y \in (DOMAIN MapOf(t))' |-> MapOf(t)'[y]]
  BY DEF MapOf
<1> QED BY <1>1, <1>2, <1>3 DEF Map!Bind

LEMMA MapUnbound ==
  ASSUME Filing, Filing', Stable, NEW t \in Tables, NEW k \in KeySet(t),
         \A b : b \in BindingsOf(t)' <=> b \in BindingsOf(t) /\ KeyAt(t, b.key) # k
  PROVE  MapOf(t)' = Map!Unbind(MapOf(t), k)
<1>a. \A y : y \in DOMAIN MapOf(t) <=> \E b \in BindingsOf(t) : y = KeyAt(t, b.key)
  BY MapFacts
<1>b. \A b \in BindingsOf(t) : MapOf(t)[KeyAt(t, b.key)] = b.value
  BY MapFacts
<1>c. \A y : y \in (DOMAIN MapOf(t))' <=> \E b \in BindingsOf(t)' : y = KeyAt(t, b.key)'
  BY NextFacts
<1>d. \A b \in BindingsOf(t)' : MapOf(t)'[KeyAt(t, b.key)'] = b.value
  BY NextFacts
<1>1. \A b \in BindingsOf(t) : KeyAt(t, b.key)' = KeyAt(t, b.key)
  BY DEF Stable
<1>2. \A y : y \in (DOMAIN MapOf(t))' <=> y \in DOMAIN MapOf(t) \ {k}
  BY <1>1, <1>a, <1>c
<1>3. \A y \in DOMAIN MapOf(t) \ {k} : MapOf(t)'[y] = MapOf(t)[y]
  <2> TAKE y \in DOMAIN MapOf(t) \ {k}
  <2>1. PICK b \in BindingsOf(t) : y = KeyAt(t, b.key)
    BY <1>a
  <2> QED BY <1>1, <1>b, <1>d, <2>1
<1>4. MapOf(t)' = [y \in (DOMAIN MapOf(t))' |-> MapOf(t)'[y]]
  BY DEF MapOf
<1> QED BY <1>2, <1>3, <1>4 DEF Map!Unbind

-----------------------------------------------------------------------------
LEMMA CountingStep ==
  ASSUME Filing, Counting, NEW t \in Tables, NEW d \in {-1, 0, 1},
         length' = [length EXCEPT ![t] = @ + d], bindings' = bindings + d,
         NumBindings(t)' = NumBindings(t) + d, NumBindings(t)' \in Nat,
         IsFiniteSet(StoredIn(t)'), Cardinality(StoredIn(t)') = Cardinality(StoredIn(t)) + d,
         \A u \in Tables \ {t} : BindingsOf(u)' = BindingsOf(u) /\ NumBindings(u)' = NumBindings(u)
  PROVE  Counting'
<1>1. length'[t] = length[t] + d /\ \A u \in Tables \ {t} : length'[u] = length[u]
  BY DEF Counting
<1>2. \A u \in Tables \ {t} : StoredIn(u)' = StoredIn(u)
  BY DEF StoredIn
<1>3. \A u \in Tables : /\ length'[u] = NumBindings(u)' /\ length'[u] \in Nat
                        /\ IsFiniteSet(StoredIn(u)') /\ length'[u] = Cardinality(StoredIn(u)')
  <2> TAKE u \in Tables
  <2>1. CASE u = t
    BY <1>1, <2>1 DEF Counting
  <2>2. CASE u # t
    BY <1>1, <1>2, <2>2 DEF Counting
  <2> QED BY <2>1, <2>2
<1>4. length' \in [Tables -> Nat]
  BY <1>3 DEF Counting
<1>5. bindings' = length'["callbacks"] + length'["responders"]
  <2>1. /\ length["callbacks"] \in Nat /\ length["responders"] \in Nat
        /\ bindings = length["callbacks"] + length["responders"] /\ d \in Int
    BY DEF Counting, Tables
  <2>2. CASE t = "callbacks"
    <3>1. length'["callbacks"] = length["callbacks"] + d /\ length'["responders"] = length["responders"]
      BY <1>1, <2>2 DEF Tables
    <3> QED BY <2>1, <3>1
  <2>3. CASE t = "responders"
    <3>1. length'["responders"] = length["responders"] + d /\ length'["callbacks"] = length["callbacks"]
      BY <1>1, <2>3 DEF Tables
    <3> QED BY <2>1, <3>1
  <2> QED BY <2>2, <2>3 DEF Tables
<1>6. bindings' \in Nat
  BY <1>4, <1>5 DEF Tables
<1> QED BY <1>3, <1>4, <1>5, <1>6 DEF Counting

LEMMA PutStep ==
  ASSUME Filing, Counting, Stable, FieldsTyped', NEW t \in maps, NEW k \in KeySet(t),
         NEW p \in Pointers(t), NEW v \in ValueSet(t), KeyAt(t, p)' = k, OwnKey(t, v)' = k,
         v \notin StoredIn(t), TablePut(t, p, k, v)
  PROVE  /\ Filing' /\ Counting'
         /\ StoredIn(t)' = (StoredIn(t) \ {Find(t, k)}) \cup {v}
         /\ \A b \in BindingsOf(t)' : b.key = p \/ \E c \in BindingsOf(t) : c.key = b.key
         /\ MapOf(t)' = Map!Bind(MapOf(t), k, v)
         /\ \A u \in Tables \ {t} : BindingsOf(u)' = BindingsOf(u) /\ MapOf(u)' = MapOf(u)
<1> DEFINE others == \A u \in Tables \ {t} : BindingsOf(u)' = BindingsOf(u) /\ NumBindings(u)' = NumBindings(u)
<1>x. PICK x : x = [key |-> IF Known(t, k) THEN Entry(t, k).key ELSE p, value |-> v]
  OBVIOUS
<1>1. /\ t \in Tables /\ maps' = maps /\ Rechain(t, k, Bound(t, p, k, v))
      /\ length' = [length EXCEPT ![t] = @ + Grown(Known(t, k))]
      /\ bindings' = IF Known(t, k) THEN bindings ELSE bindings + 1
  BY DEF TablePut, Filing
<1>2. /\ Known(t, k) => /\ Entry(t, k) \in BindingsOf(t) /\ KeyAt(t, Entry(t, k).key) = k
                        /\ Find(t, k) = Entry(t, k).value /\ Find(t, k) \in StoredIn(t)
      /\ ~Known(t, k) => Find(t, k) = Absent
      /\ Absent \notin StoredIn(t)
  BY <1>1, FindFacts
<1>3. /\ Filing' /\ others
      /\ IF Known(t, k)
         THEN BindingsOf(t)' = (BindingsOf(t) \ {Entry(t, k)}) \cup {x} /\ NumBindings(t)' = NumBindings(t)
         ELSE BindingsOf(t)' = BindingsOf(t) \cup {x} /\ NumBindings(t)' = NumBindings(t) + 1
  <2>1. CASE Known(t, k)
    BY <1>x, <1>1, <2>1, PutKnown
  <2>2. CASE ~Known(t, k)
    BY <1>x, <1>1, <2>2, PutNew
  <2> QED BY <2>1, <2>2
<1>4. x.value = v /\ x.key = IF Known(t, k) THEN Entry(t, k).key ELSE p
  BY <1>x
<1>5. x \in BindingsOf(t)'
  BY <1>3
<1>6. \A b : b \in BindingsOf(t)' <=> b = x \/ (b \in BindingsOf(t) /\ KeyAt(t, b.key) # k)
  <2>1. CASE Known(t, k)
    <3>1. \A b \in BindingsOf(t) : b = Entry(t, k) <=> KeyAt(t, b.key) = k
      BY <1>1, <1>2, <2>1, BindingFacts
    <3> QED BY <1>3, <2>1, <3>1
  <2>2. CASE ~Known(t, k)
    <3>1. \A b \in BindingsOf(t) : KeyAt(t, b.key) # k
      BY <1>1, <2>2, LookupFacts
    <3> QED BY <1>3, <2>2, <3>1
  <2> QED BY <2>1, <2>2
<1>7. KeyAt(t, x.key)' = k
  <2>1. CASE Known(t, k)
    BY <1>1, <1>2, <1>4, <2>1 DEF Stable
  <2>2. CASE ~Known(t, k)
    BY <1>4, <2>2
  <2> QED BY <2>1, <2>2
<1>8. MapOf(t)' = Map!Bind(MapOf(t), k, v)
  BY <1>1, <1>3, <1>4, <1>5, <1>6, <1>7, MapBound
<1>9. \A u \in Tables \ {t} : BindingsOf(u)' = BindingsOf(u) /\ MapOf(u)' = MapOf(u)
  BY <1>3, SameMap
<1>10. StoredIn(t)' = (StoredIn(t) \ {Find(t, k)}) \cup {v}
  <2>1. StoredIn(t)' = {b.value : b \in BindingsOf(t)'}
    BY DEF StoredIn
  <2>2. CASE Known(t, k)
    <3>1. \A b \in BindingsOf(t) : b.value = Find(t, k) <=> b = Entry(t, k)
      BY <1>1, <1>2, <2>2, ValuesDiffer
    <3> QED BY <1>3, <1>4, <2>1, <2>2, <3>1 DEF StoredIn
  <2>3. CASE ~Known(t, k)
    BY <1>2, <1>3, <1>4, <2>1, <2>3 DEF StoredIn
  <2> QED BY <2>2, <2>3
<1>11. Counting'
  <2>1. /\ IsFiniteSet(StoredIn(t)) /\ length[t] = Cardinality(StoredIn(t)) /\ length[t] \in Nat
        /\ bindings \in Nat /\ length \in [Tables -> Nat] /\ NumBindings(t) = length[t]
    BY <1>1 DEF Counting
  <2>2. CASE Known(t, k)
    <3> DEFINE rest == StoredIn(t) \ {Find(t, k)}
    <3>1. IsFiniteSet(rest) /\ Cardinality(rest) = Cardinality(StoredIn(t)) - 1 /\ v \notin rest
      BY <1>2, <2>1, <2>2, FS_RemoveElement
    <3>2. IsFiniteSet(rest \cup {v}) /\ Cardinality(rest \cup {v}) = Cardinality(rest) + 1
      BY <3>1, FS_AddElement
    <3>3. IsFiniteSet(StoredIn(t)') /\ Cardinality(StoredIn(t)') = Cardinality(StoredIn(t)) + 0
      BY <1>10, <2>1, <3>1, <3>2
    <3>4. length' = [length EXCEPT ![t] = length[t] + 0] /\ bindings' = bindings + 0
      BY <1>1, <2>1, <2>2 DEF Grown
    <3>5. NumBindings(t)' = NumBindings(t) + 0 /\ NumBindings(t)' \in Nat
      BY <1>3, <2>1, <2>2
    <3> QED BY <1>1, <1>3, <3>3, <3>4, <3>5, CountingStep
  <2>3. CASE ~Known(t, k)
    <3>1. IsFiniteSet(StoredIn(t) \cup {v}) /\ Cardinality(StoredIn(t) \cup {v}) = Cardinality(StoredIn(t)) + 1
      BY <2>1, FS_AddElement
    <3>2. StoredIn(t)' = StoredIn(t) \cup {v}
      BY <1>2, <1>10, <2>3
    <3>3. IsFiniteSet(StoredIn(t)') /\ Cardinality(StoredIn(t)') = Cardinality(StoredIn(t)) + 1
      BY <3>1, <3>2
    <3>4. length' = [length EXCEPT ![t] = length[t] + 1] /\ bindings' = bindings + 1
      BY <1>1, <2>3 DEF Grown
    <3>5. NumBindings(t)' = NumBindings(t) + 1 /\ NumBindings(t)' \in Nat
      BY <1>3, <2>1, <2>3
    <3> QED BY <1>1, <1>3, <3>3, <3>4, <3>5, CountingStep
  <2> QED BY <2>2, <2>3
<1>12. \A b \in BindingsOf(t)' : b.key = p \/ \E c \in BindingsOf(t) : c.key = b.key
  BY <1>2, <1>4, <1>6
<1> QED BY <1>3, <1>8, <1>9, <1>10, <1>11, <1>12

LEMMA RemoveStep ==
  ASSUME Filing, Counting, Stable, FieldsTyped', NEW t \in maps, NEW k \in KeySet(t), TableRemove(t, k)
  PROVE  /\ Filing' /\ Counting'
         /\ StoredIn(t)' = StoredIn(t) \ {Find(t, k)}
         /\ \A b : b \in BindingsOf(t)' <=> b \in BindingsOf(t) /\ KeyAt(t, b.key) # k
         /\ MapOf(t)' = Map!Unbind(MapOf(t), k)
         /\ \A u \in Tables \ {t} : BindingsOf(u)' = BindingsOf(u) /\ MapOf(u)' = MapOf(u)
<1> DEFINE others == \A u \in Tables \ {t} : BindingsOf(u)' = BindingsOf(u) /\ NumBindings(u)' = NumBindings(u)
<1>1. /\ t \in Tables /\ maps' = maps
      /\ Rechain(t, k, IF Known(t, k) THEN Without(Chain(t, k), Place(t, k)) ELSE Chain(t, k))
      /\ length' = [length EXCEPT ![t] = @ - Shrunk(Known(t, k))]
      /\ bindings' = IF Known(t, k) THEN bindings - 1 ELSE bindings
  BY DEF TableRemove, Filing
<1>2. /\ Known(t, k) => /\ Entry(t, k) \in BindingsOf(t) /\ KeyAt(t, Entry(t, k).key) = k
                        /\ Find(t, k) = Entry(t, k).value /\ Find(t, k) \in StoredIn(t)
      /\ ~Known(t, k) => Find(t, k) = Absent
      /\ Absent \notin StoredIn(t)
  BY <1>1, FindFacts
<1>3. /\ Filing' /\ others
      /\ IF Known(t, k)
         THEN BindingsOf(t)' = BindingsOf(t) \ {Entry(t, k)} /\ NumBindings(t)' = NumBindings(t) - 1
         ELSE BindingsOf(t)' = BindingsOf(t) /\ NumBindings(t)' = NumBindings(t)
  <2>1. CASE Known(t, k)
    BY <1>1, <2>1, RemoveKnown
  <2>2. CASE ~Known(t, k)
    <3>1. buckets' = buckets
      <4>1. Bucket(t, k) \in 0 .. NBuckets - 1 /\ buckets \in [Tables -> [0 .. NBuckets - 1 -> Seq(Binding)]]
        BY <1>1, BucketInTable DEF Filing
      <4> QED BY <1>1, <2>2, <4>1 DEF Rechain, Chain
    <3> QED BY <1>1, <2>2, <3>1, SameBuckets
  <2> QED BY <2>1, <2>2
<1>4. \A b : b \in BindingsOf(t)' <=> b \in BindingsOf(t) /\ KeyAt(t, b.key) # k
  <2>1. CASE Known(t, k)
    <3>1. \A b \in BindingsOf(t) : b = Entry(t, k) <=> KeyAt(t, b.key) = k
      BY <1>1, <1>2, <2>1, BindingFacts
    <3> QED BY <1>3, <2>1, <3>1
  <2>2. CASE ~Known(t, k)
    <3>1. \A b \in BindingsOf(t) : KeyAt(t, b.key) # k
      BY <1>1, <2>2, LookupFacts
    <3> QED BY <1>3, <2>2, <3>1
  <2> QED BY <2>1, <2>2
<1>5. MapOf(t)' = Map!Unbind(MapOf(t), k)
  BY <1>1, <1>3, <1>4, MapUnbound
<1>6. \A u \in Tables \ {t} : BindingsOf(u)' = BindingsOf(u) /\ MapOf(u)' = MapOf(u)
  BY <1>3, SameMap
<1>7. StoredIn(t)' = StoredIn(t) \ {Find(t, k)}
  <2>1. StoredIn(t)' = {b.value : b \in BindingsOf(t)'}
    BY DEF StoredIn
  <2>2. CASE Known(t, k)
    <3>1. \A b \in BindingsOf(t) : b.value = Find(t, k) <=> b = Entry(t, k)
      BY <1>1, <1>2, <2>2, ValuesDiffer
    <3> QED BY <1>3, <2>1, <2>2, <3>1 DEF StoredIn
  <2>3. CASE ~Known(t, k)
    BY <1>2, <1>3, <2>1, <2>3 DEF StoredIn
  <2> QED BY <2>2, <2>3
<1>8. Counting'
  <2>1. /\ IsFiniteSet(StoredIn(t)) /\ length[t] = Cardinality(StoredIn(t)) /\ length[t] \in Nat
        /\ bindings \in Nat /\ length \in [Tables -> Nat] /\ NumBindings(t) = length[t]
    BY <1>1 DEF Counting
  <2>2. NumBindings(t)' \in Nat
    BY <1>1, <1>3, NextNumBindings
  <2>3. CASE Known(t, k)
    <3> DEFINE rest == StoredIn(t) \ {Find(t, k)}
    <3>1. IsFiniteSet(rest) /\ Cardinality(rest) = Cardinality(StoredIn(t)) - 1
      BY <1>2, <2>1, <2>3, FS_RemoveElement
    <3>2. IsFiniteSet(StoredIn(t)') /\ Cardinality(StoredIn(t)') = Cardinality(StoredIn(t)) + (-1)
      BY <1>7, <2>1, <3>1
    <3>3. length' = [length EXCEPT ![t] = length[t] + (-1)] /\ bindings' = bindings + (-1)
      BY <1>1, <2>1, <2>3 DEF Shrunk
    <3>4. NumBindings(t)' = NumBindings(t) + (-1)
      BY <1>3, <2>1, <2>3
    <3> QED BY <1>1, <1>3, <2>2, <3>2, <3>3, <3>4, CountingStep
  <2>4. CASE ~Known(t, k)
    <3>1. StoredIn(t)' = StoredIn(t)
      BY <1>2, <1>7, <2>4
    <3>2. IsFiniteSet(StoredIn(t)') /\ Cardinality(StoredIn(t)') = Cardinality(StoredIn(t)) + 0
      BY <2>1, <3>1
    <3>3. length' = [length EXCEPT ![t] = length[t] + 0] /\ bindings' = bindings + 0
      <4>1. length[t] - 0 = length[t] + 0 /\ bindings = bindings + 0
        BY <2>1
      <4> QED BY <1>1, <2>4, <4>1 DEF Shrunk
    <3>4. NumBindings(t)' = NumBindings(t) + 0
      BY <1>3, <2>1, <2>4
    <3> QED BY <1>1, <1>3, <2>2, <3>2, <3>3, <3>4, CountingStep
  <2> QED BY <2>3, <2>4
<1> QED BY <1>3, <1>4, <1>5, <1>6, <1>7, <1>8

-----------------------------------------------------------------------------
(* Ownership *)

(* Everything allocated is stored once, or held by one caller, or leaked;   *)
(* and the pointers of the bindings lead to callbacks that no caller is     *)
(* about to free or to change, and to strings of registered commands.       *)
Owning ==
  /\ fresh \subseteq Callbacks /\ popped \subseteq Callbacks
  /\ leaked \subseteq Callbacks \cup Responders
  /\ strings \subseteq Strings /\ registered \subseteq Commands
  /\ got \in Callbacks \cup Responders \cup {Absent}
  /\ heap = StoredIn("callbacks") \cup StoredIn("responders") \cup fresh \cup popped \cup leaked
  /\ (StoredIn("callbacks") \cup StoredIn("responders")) \cap (fresh \cup popped \cup leaked) = {}
  /\ fresh \cap popped = {} /\ (fresh \cup popped) \cap leaked = {}
  /\ \A b \in BindingsOf("callbacks") : b.key \in heap \ (fresh \cup popped)
  /\ \A b \in BindingsOf("responders") : b.key \in strings /\ Text[b.key] \in registered

Inv == Filing /\ Counting /\ Owning

Store     == [t \in Tables |-> MapOf(t)]
StepOfMap == Inv' /\ [Map!Next]_(Map!vars)

LEMMA StoredFacts ==
  ASSUME Filing
  PROVE  /\ StoredIn("callbacks") \subseteq Callbacks /\ StoredIn("responders") \subseteq Responders
         /\ \A b \in BindingsOf("callbacks") : b.key \in Callbacks /\ b.value \in StoredIn("callbacks")
         /\ \A b \in BindingsOf("responders") : b.key \in Strings /\ b.value \in StoredIn("responders")
BY BindingFacts DEF StoredIn, BindingIn, Pointers, ValueSet, Tables

LEMMA FieldsStable ==
  ASSUME Filing, UNCHANGED fields
  PROVE  Stable /\ FieldsTyped'
BY DEF Stable, KeyAt, OwnKey, fields, FieldsTyped, Filing

\* what is not stored, nor pointed to, may be written to
LEMMA AskKeyStable ==
  ASSUME Filing, Owning, NEW c \in fresh, NEW k \in AskKeys,
         ask_key' = [ask_key EXCEPT ![c] = k], command' = command
  PROVE  Stable /\ FieldsTyped'
<1>1. \A b \in BindingsOf("callbacks") :
        b.key \in Callbacks /\ b.value \in Callbacks /\ b.key # c /\ b.value # c
  BY StoredFacts DEF Owning
<1>2. \A x \in Callbacks : x # c => ask_key'[x] = ask_key[x]
  BY DEF Filing
<1>3. Stable
  BY <1>1, <1>2 DEF Stable, KeyAt, OwnKey, Tables
<1> QED BY <1>3 DEF FieldsTyped, Filing, Owning

LEMMA CommandStable ==
  ASSUME Filing, Owning, NEW r \in Responders \ heap, NEW s \in Strings,
         command' = [command EXCEPT ![r] = s], ask_key' = ask_key
  PROVE  Stable /\ FieldsTyped'
<1>1. \A b \in BindingsOf("responders") : b.value \in Responders /\ b.value # r
  BY StoredFacts DEF Owning
<1>2. \A x \in Responders : x # r => command'[x] = command[x]
  BY DEF Filing
<1>3. Stable
  BY <1>1, <1>2 DEF Stable, KeyAt, OwnKey, Tables
<1> QED BY <1>3 DEF FieldsTyped, Filing

\* the tables stay as they were
LEMMA SameTables ==
  ASSUME Inv, UNCHANGED tableVars, Stable, FieldsTyped'
  PROVE  /\ Filing' /\ Counting' /\ Store' = Store
         /\ \A u \in Tables : BindingsOf(u)' = BindingsOf(u) /\ StoredIn(u)' = StoredIn(u)
<1>1. /\ Filing'
      /\ \A u \in Tables : BindingsOf(u)' = BindingsOf(u) /\ NumBindings(u)' = NumBindings(u)
  BY SameBuckets DEF Inv, tableVars
<1>2. Store' = Store
  <2>1. \A u \in Tables : MapOf(u)' = MapOf(u)
    BY <1>1, SameMap DEF Inv
  <2> QED BY <2>1 DEF Store, Tables
<1>3. \A u \in Tables : StoredIn(u)' = StoredIn(u)
  BY <1>1 DEF StoredIn
<1>4. Counting'
  BY <1>1, <1>3 DEF Counting, Inv, tableVars, Tables
<1> QED BY <1>1, <1>2, <1>3, <1>4

LEMMA SameStore ==
  ASSUME NEW t \in Tables, NEW m, MapOf(t)' = m,
         \A u \in Tables \ {t} : MapOf(u)' = MapOf(u)
  PROVE  Store' = [Store EXCEPT ![t] = m]
BY DEF Store, Tables

\* an operation that is none of the map
LEMMA OtherStep ==
  ASSUME UNCHANGED tableVars, Store' = Store, Outcome(<<"other">>, TRUE, Absent)
  PROVE  [Map!Next]_(Map!vars)
BY DEF Map!Next, Map!Other, Map!vars, tableVars, Store, Outcome

\* a binding that could not be allocated
LEMMA OomStep ==
  ASSUME UNCHANGED tableVars, Store' = Store, NEW t \in maps, t \in Tables,
         NEW k \in KeySet(t), NEW v \in Structs, Outcome(<<"put", t, k, v>>, FALSE, Absent)
  PROVE  [Map!Next]_(Map!vars)
<1>1. k \in AskKeys \cup Commands
  BY DEF KeySet
<1>2. Map!Refused
  BY DEF Map!Refused, Outcome, tableVars, Store
<1>3. Map!Put(t, k, v)
  BY <1>2 DEF Map!Put, Outcome
<1> QED BY <1>1, <1>3 DEF Map!Next, Structs

LEMMA KnownKey ==
  ASSUME NEW t \in Tables, NEW k \in KeySet(t)
  PROVE  Known(t, k) = (k \in DOMAIN MapOf(t))
<1>1. Known(t, k) \in BOOLEAN
  BY DEF Known, Has
<1>2. MapKeys(t) = {x \in KeySet(t) : Known(t, x)}
  BY DEF MapKeys, KeySet
<1>3. k \in DOMAIN MapOf(t) <=> Known(t, k)
  BY <1>2 DEF MapOf
<1> QED BY <1>1, <1>3

-----------------------------------------------------------------------------
LEMMA NewCallbackStep ==
  ASSUME Inv, NEW c \in Callbacks, NewCallback(c)
  PROVE  StepOfMap
<1>1. UNCHANGED tableVars /\ Stable /\ FieldsTyped'
  BY FieldsStable DEF NewCallback, Inv
<1>2. /\ Filing' /\ Counting' /\ Store' = Store
      /\ \A u \in Tables : BindingsOf(u)' = BindingsOf(u) /\ StoredIn(u)' = StoredIn(u)
  BY <1>1, SameTables
<1>3. Owning'
  BY <1>2 DEF Inv, Owning, NewCallback, userVars, Outcome, Tables
<1>4. [Map!Next]_(Map!vars)
  BY <1>1, <1>2, OtherStep DEF NewCallback
<1> QED BY <1>2, <1>3, <1>4 DEF StepOfMap, Inv

LEMMA FreeCallbackStep ==
  ASSUME Inv, NEW c \in Callbacks, FreeCallback(c)
  PROVE  StepOfMap
<1>1. UNCHANGED tableVars /\ Stable /\ FieldsTyped'
  BY FieldsStable DEF FreeCallback, Inv
<1>2. /\ Filing' /\ Counting' /\ Store' = Store
      /\ \A u \in Tables : BindingsOf(u)' = BindingsOf(u) /\ StoredIn(u)' = StoredIn(u)
  BY <1>1, SameTables
<1>3. Owning'
  BY <1>2 DEF Inv, Owning, FreeCallback, userVars, Outcome, Tables
<1>4. [Map!Next]_(Map!vars)
  BY <1>1, <1>2, OtherStep DEF FreeCallback
<1> QED BY <1>2, <1>3, <1>4 DEF StepOfMap, Inv

LEMMA PutCallbackOomStep ==
  ASSUME Inv, NEW c \in Callbacks, NEW k \in AskKeys, PutCallbackOom(c, k)
  PROVE  StepOfMap
<1>1. UNCHANGED tableVars /\ Stable /\ FieldsTyped'
  BY AskKeyStable DEF PutCallbackOom, Inv
<1>2. /\ Filing' /\ Counting' /\ Store' = Store
      /\ \A u \in Tables : BindingsOf(u)' = BindingsOf(u) /\ StoredIn(u)' = StoredIn(u)
  BY <1>1, SameTables
<1>3. Owning'
  BY <1>2 DEF Inv, Owning, PutCallbackOom, ownership, userVars, Outcome, Tables
<1>4. [Map!Next]_(Map!vars)
  BY <1>1, <1>2, OomStep DEF PutCallbackOom, KeySet, Tables, Structs
<1> QED BY <1>2, <1>3, <1>4 DEF StepOfMap, Inv

LEMMA StringStep ==
  ASSUME Inv, NEW s \in Strings, NewString(s) \/ ReleaseString(s)
  PROVE  StepOfMap
<1>1. UNCHANGED tableVars /\ Stable /\ FieldsTyped' /\ Outcome(<<"other">>, TRUE, Absent)
  BY FieldsStable DEF NewString, ReleaseString, Inv
<1>2. /\ Filing' /\ Counting' /\ Store' = Store
      /\ \A u \in Tables : BindingsOf(u)' = BindingsOf(u) /\ StoredIn(u)' = StoredIn(u)
  BY <1>1, SameTables
<1>3. /\ UNCHANGED <<ownership, registered>>
      /\ strings' \subseteq Strings
      /\ \A x \in strings : Text[x] \in registered => x \in strings'
  BY DEF NewString, ReleaseString, Inv, Owning
<1>4. Owning'
  BY <1>1, <1>2, <1>3 DEF Inv, Owning, ownership, Outcome, Tables
<1>5. [Map!Next]_(Map!vars)
  BY <1>1, <1>2, OtherStep
<1> QED BY <1>2, <1>4, <1>5 DEF StepOfMap, Inv

LEMMA AddResponderUnboundStep ==
  ASSUME Inv, NEW r \in Responders, NEW s \in Strings, AddResponderUnbound(r, s)
  PROVE  StepOfMap
<1>1. UNCHANGED tableVars /\ Stable /\ FieldsTyped'
  BY CommandStable DEF AddResponderUnbound, NewResponder, Inv
<1>2. /\ Filing' /\ Counting' /\ Store' = Store
      /\ \A u \in Tables : BindingsOf(u)' = BindingsOf(u) /\ StoredIn(u)' = StoredIn(u)
  BY <1>1, SameTables
<1>3. Text[s] \in Commands
  BY DispatchAssumption
<1>4. Owning'
  BY <1>2, <1>3 DEF Inv, Owning, AddResponderUnbound, NewResponder, Outcome, Tables
<1>5. [Map!Next]_(Map!vars)
  BY <1>1, <1>2, <1>3, OomStep DEF AddResponderUnbound, NewResponder, KeySet, Tables, Structs
<1> QED BY <1>2, <1>4, <1>5 DEF StepOfMap, Inv

LEMMA GetResponderStep ==
  ASSUME Inv, NEW w \in Commands, GetResponder(w)
  PROVE  StepOfMap
<1>1. UNCHANGED tableVars /\ Stable /\ FieldsTyped'
  BY FieldsStable DEF GetResponder, Inv
<1>2. /\ Filing' /\ Counting' /\ Store' = Store
      /\ \A u \in Tables : BindingsOf(u)' = BindingsOf(u) /\ StoredIn(u)' = StoredIn(u)
  BY <1>1, SameTables
<1>3. "responders" \in Tables /\ w \in KeySet("responders")
  BY DEF Tables, KeySet
<1>4. /\ got' = Map!Find(MapOf("responders"), w)
      /\ got' \in StoredIn("responders") \cup {Absent}
  BY <1>3, FindFacts DEF GetResponder, Outcome, Inv
<1>5. Owning'
  BY <1>2, <1>4, StoredFacts DEF Inv, Owning, GetResponder, ownership, userVars, Tables
<1>6. Store["responders"] = MapOf("responders") /\ "responders" \in maps /\ maps' = maps
  BY <1>3 DEF Store, GetResponder, tableVars
<1>7. Map!Get("responders", w)
  <2>1. done' = (w \in DOMAIN MapOf("responders")) /\ asked' = <<"get", "responders", w>>
    BY <1>3, KnownKey DEF GetResponder, Outcome
  <2> QED BY <1>2, <1>4, <1>6, <2>1 DEF Map!Get, Store
<1> QED BY <1>2, <1>3, <1>5, <1>7 DEF StepOfMap, Inv, Map!Next

LEMMA PutCallbackStep ==
  ASSUME Inv, NEW c \in Callbacks, NEW k \in AskKeys, PutCallback(c, k)
  PROVE  StepOfMap
<1> DEFINE t == "callbacks"
<1>1. /\ t \in maps /\ t \in Tables /\ c \in fresh /\ command' = command
      /\ ask_key' = [ask_key EXCEPT ![c] = k] /\ TablePut(t, c, k, c)
      /\ k \in KeySet(t) /\ c \in Pointers(t) /\ c \in ValueSet(t)
  BY DEF PutCallback, Tables, KeySet, Pointers, ValueSet
<1>2. Stable /\ FieldsTyped'
  BY <1>1, AskKeyStable DEF Inv
<1>3. KeyAt(t, c)' = k /\ OwnKey(t, c)' = k
  BY <1>1 DEF KeyAt, OwnKey, Inv, Filing
<1>4. c \notin StoredIn(t)
  BY <1>1 DEF Inv, Owning
<1>5. /\ Filing' /\ Counting'
      /\ StoredIn(t)' = (StoredIn(t) \ {Find(t, k)}) \cup {c}
      /\ \A b \in BindingsOf(t)' : b.key = c \/ \E x \in BindingsOf(t) : x.key = b.key
      /\ MapOf(t)' = Map!Bind(MapOf(t), k, c)
      /\ \A u \in Tables \ {t} : BindingsOf(u)' = BindingsOf(u) /\ MapOf(u)' = MapOf(u)
  BY <1>1, <1>2, <1>3, <1>4, PutStep DEF Inv
<1>6. /\ Find(t, k) \in StoredIn(t) \cup {Absent} /\ Absent \notin StoredIn(t)
  BY <1>1, FindFacts DEF Inv
<1>7. BindingsOf("responders")' = BindingsOf("responders") /\ StoredIn("responders")' = StoredIn("responders")
  BY <1>5 DEF Tables, StoredIn
<1>8. /\ heap' = heap /\ fresh' = fresh \ {c} /\ popped' = popped
      /\ leaked' = leaked \cup ({Find(t, k)} \ {Absent})
      /\ asked' = <<"put", t, k, c>> /\ done' = TRUE /\ got' = Absent /\ UNCHANGED userVars
  BY DEF PutCallback, Outcome, Displaced
<1>9. StoredIn("callbacks") \subseteq Callbacks /\ StoredIn("responders") \subseteq Responders
      /\ Callbacks \cap Responders = {} /\ Absent \notin Callbacks
  BY StoredFacts, DispatchAssumption DEF Inv
<1>10. Owning'
  <2>1. /\ fresh' \subseteq Callbacks /\ popped' \subseteq Callbacks
        /\ leaked' \subseteq Callbacks \cup Responders
        /\ strings' \subseteq Strings /\ registered' \subseteq Commands
        /\ got' \in Callbacks \cup Responders \cup {Absent}
    BY <1>6, <1>8, <1>9 DEF Inv, Owning, userVars
  <2>2. heap' = StoredIn("callbacks")' \cup StoredIn("responders")' \cup fresh' \cup popped' \cup leaked'
    BY <1>1, <1>4, <1>5, <1>6, <1>7, <1>8, <1>9 DEF Inv, Owning
  <2>3. (StoredIn("callbacks")' \cup StoredIn("responders")') \cap (fresh' \cup popped' \cup leaked') = {}
    BY <1>1, <1>4, <1>5, <1>6, <1>7, <1>8, <1>9 DEF Inv, Owning
  <2>4. fresh' \cap popped' = {} /\ (fresh' \cup popped') \cap leaked' = {}
    BY <1>1, <1>6, <1>8 DEF Inv, Owning
  <2>5. \A b \in BindingsOf("callbacks")' : b.key \in heap' \ (fresh' \cup popped')
    BY <1>1, <1>5, <1>8 DEF Inv, Owning
  <2>6. \A b \in BindingsOf("responders")' : b.key \in strings' /\ Text[b.key] \in registered'
    BY <1>7, <1>8 DEF Inv, Owning, userVars
  <2> QED BY <2>1, <2>2, <2>3, <2>4, <2>5, <2>6 DEF Owning
<1>11. Store' = [Store EXCEPT ![t] = Map!Bind(MapOf(t), k, c)]
  BY <1>1, <1>5, SameStore
<1>12. Map!Put(t, k, c)
  <2>1. Store[t] = MapOf(t) /\ maps' = maps
    BY <1>1 DEF Store, TablePut
  <2> QED BY <1>1, <1>8, <1>11, <2>1 DEF Map!Put, Map!Succeeds, Store
<1> QED BY <1>1, <1>5, <1>10, <1>12 DEF StepOfMap, Inv, Map!Next, Structs

LEMMA AddResponderStep ==
  ASSUME Inv, NEW r \in Responders, NEW s \in Strings, AddResponder(r, s)
  PROVE  StepOfMap
<1> DEFINE t == "responders"
           k == Text[s]
<1>1. /\ t \in maps /\ t \in Tables /\ r \in Responders \ heap /\ ask_key' = ask_key /\ s \in strings
      /\ command' = [command EXCEPT ![r] = s] /\ TablePut(t, s, k, r)
      /\ k \in KeySet(t) /\ k \in Commands /\ s \in Pointers(t) /\ r \in ValueSet(t)
  BY DispatchAssumption DEF AddResponder, NewResponder, Tables, KeySet, Pointers, ValueSet
<1>2. Stable /\ FieldsTyped'
  BY <1>1, CommandStable DEF Inv
<1>3. KeyAt(t, s)' = k /\ OwnKey(t, r)' = k
  BY <1>1 DEF KeyAt, OwnKey, Inv, Filing
<1>4. r \notin StoredIn(t)
  BY <1>1 DEF Inv, Owning
<1> HIDE DEF k
<1>5. /\ Filing' /\ Counting'
      /\ StoredIn(t)' = (StoredIn(t) \ {Find(t, k)}) \cup {r}
      /\ \A b \in BindingsOf(t)' : b.key = s \/ \E x \in BindingsOf(t) : x.key = b.key
      /\ MapOf(t)' = Map!Bind(MapOf(t), k, r)
      /\ \A u \in Tables \ {t} : BindingsOf(u)' = BindingsOf(u) /\ MapOf(u)' = MapOf(u)
  BY <1>1, <1>2, <1>3, <1>4, PutStep DEF Inv
<1>6. /\ Find(t, k) \in StoredIn(t) \cup {Absent} /\ Absent \notin StoredIn(t)
  BY <1>1, FindFacts DEF Inv
<1>7. BindingsOf("callbacks")' = BindingsOf("callbacks") /\ StoredIn("callbacks")' = StoredIn("callbacks")
  BY <1>5 DEF Tables, StoredIn
<1>8. /\ heap' = heap \cup {r} /\ fresh' = fresh /\ popped' = popped
      /\ leaked' = leaked \cup ({Find(t, k)} \ {Absent})
      /\ asked' = <<"put", t, k, r>> /\ done' = TRUE /\ got' = Absent
      /\ strings' = strings /\ registered' = registered \cup {Text[s]}
  BY DEF AddResponder, NewResponder, Outcome, Displaced, k
<1>9. StoredIn("callbacks") \subseteq Callbacks /\ StoredIn("responders") \subseteq Responders
      /\ Callbacks \cap Responders = {} /\ Absent \notin Responders
  BY StoredFacts, DispatchAssumption DEF Inv
<1>10. Owning'
  <2>1. /\ fresh' \subseteq Callbacks /\ popped' \subseteq Callbacks
        /\ leaked' \subseteq Callbacks \cup Responders
        /\ strings' \subseteq Strings /\ registered' \subseteq Commands
        /\ got' \in Callbacks \cup Responders \cup {Absent}
    BY <1>1, <1>6, <1>8, <1>9 DEF Inv, Owning, k
  <2>2. heap' = StoredIn("callbacks")' \cup StoredIn("responders")' \cup fresh' \cup popped' \cup leaked'
    BY <1>1, <1>4, <1>5, <1>6, <1>7, <1>8, <1>9 DEF Inv, Owning
  <2>3. (StoredIn("callbacks")' \cup StoredIn("responders")') \cap (fresh' \cup popped' \cup leaked') = {}
    BY <1>1, <1>4, <1>5, <1>6, <1>7, <1>8, <1>9 DEF Inv, Owning
  <2>4. fresh' \cap popped' = {} /\ (fresh' \cup popped') \cap leaked' = {}
    BY <1>1, <1>6, <1>8, <1>9 DEF Inv, Owning
  <2>5. \A b \in BindingsOf("callbacks")' : b.key \in heap' \ (fresh' \cup popped')
    BY <1>7, <1>8 DEF Inv, Owning
  <2>6. \A b \in BindingsOf("responders")' : b.key \in strings' /\ Text[b.key] \in registered'
    BY <1>1, <1>5, <1>8 DEF Inv, Owning
  <2> QED BY <2>1, <2>2, <2>3, <2>4, <2>5, <2>6 DEF Owning
<1>11. Store' = [Store EXCEPT ![t] = Map!Bind(MapOf(t), k, r)]
  BY <1>1, <1>5, SameStore
<1>12. Map!Put(t, k, r)
  <2>1. Store[t] = MapOf(t) /\ maps' = maps
    BY <1>1 DEF Store, TablePut
  <2> QED BY <1>1, <1>8, <1>11, <2>1 DEF Map!Put, Map!Succeeds, Store
<1> QED BY <1>1, <1>5, <1>10, <1>12 DEF StepOfMap, Inv, Map!Next, Structs

LEMMA PopCallbackStep ==
  ASSUME Inv, NEW k \in AskKeys, PopCallback(k)
  PROVE  StepOfMap
<1> DEFINE t == "callbacks"
<1>1. t \in maps /\ t \in Tables /\ UNCHANGED fields /\ TableRemove(t, k) /\ k \in KeySet(t)
  BY DEF PopCallback, Tables, KeySet
<1>2. Stable /\ FieldsTyped'
  BY <1>1, FieldsStable DEF Inv
<1>3. /\ Filing' /\ Counting'
      /\ StoredIn(t)' = StoredIn(t) \ {Find(t, k)}
      /\ \A b : b \in BindingsOf(t)' <=> b \in BindingsOf(t) /\ KeyAt(t, b.key) # k
      /\ MapOf(t)' = Map!Unbind(MapOf(t), k)
      /\ \A u \in Tables \ {t} : BindingsOf(u)' = BindingsOf(u) /\ MapOf(u)' = MapOf(u)
  BY <1>1, <1>2, RemoveStep DEF Inv
<1>4. /\ Find(t, k) \in StoredIn(t) \cup {Absent} /\ Absent \notin StoredIn(t)
      /\ Find(t, k) = Map!Find(MapOf(t), k)
  BY <1>1, FindFacts DEF Inv
<1>5. BindingsOf("responders")' = BindingsOf("responders") /\ StoredIn("responders")' = StoredIn("responders")
  BY <1>3 DEF Tables, StoredIn
<1>6. /\ heap' = heap /\ fresh' = fresh /\ leaked' = leaked /\ UNCHANGED userVars
      /\ got' = Find(t, k) /\ popped' = popped \cup ({Find(t, k)} \ {Absent})
      /\ asked' = <<"take", t, k>> /\ done' = Known(t, k)
  BY DEF PopCallback, Outcome
<1>7. StoredIn("callbacks") \subseteq Callbacks /\ StoredIn("responders") \subseteq Responders
      /\ Callbacks \cap Responders = {} /\ Absent \notin Callbacks
  BY StoredFacts, DispatchAssumption DEF Inv
\* no binding that stays points to the callback taken out
<1>8. \A b \in BindingsOf(t)' : b.key # Find(t, k)
  <2> SUFFICES ASSUME NEW b \in BindingsOf(t)', b.key = Find(t, k) PROVE FALSE
    OBVIOUS
  <2>1. b \in BindingsOf(t) /\ KeyAt(t, b.key) # k
    BY <1>3
  <2>2. b.key \in Callbacks
    BY <2>1, StoredFacts DEF Inv
  <2>3. Known(t, k)
    BY <1>1, <1>7, <2>2, FindFacts DEF Inv
  <2>4. /\ Entry(t, k) \in BindingsOf(t) /\ KeyAt(t, Entry(t, k).key) = k
        /\ Find(t, k) = Entry(t, k).value
    BY <1>1, <2>3, FindFacts DEF Inv
  <2>5. OwnKey(t, Find(t, k)) = k
    BY <1>1, <2>4, BindingFacts DEF Inv
  <2>6. KeyAt(t, b.key) = k
    BY <2>5 DEF KeyAt, OwnKey
  <2> QED BY <2>1, <2>6
<1>9. Owning'
  <2>1. /\ fresh' \subseteq Callbacks /\ popped' \subseteq Callbacks
        /\ leaked' \subseteq Callbacks \cup Responders
        /\ strings' \subseteq Strings /\ registered' \subseteq Commands
        /\ got' \in Callbacks \cup Responders \cup {Absent}
    BY <1>4, <1>6, <1>7 DEF Inv, Owning, userVars
  <2>2. heap' = StoredIn("callbacks")' \cup StoredIn("responders")' \cup fresh' \cup popped' \cup leaked'
    BY <1>3, <1>4, <1>5, <1>6, <1>7 DEF Inv, Owning
  <2>3. (StoredIn("callbacks")' \cup StoredIn("responders")') \cap (fresh' \cup popped' \cup leaked') = {}
    BY <1>3, <1>4, <1>5, <1>6, <1>7 DEF Inv, Owning
  <2>4. fresh' \cap popped' = {} /\ (fresh' \cup popped') \cap leaked' = {}
    BY <1>4, <1>6, <1>7 DEF Inv, Owning
  <2>5. \A b \in BindingsOf("callbacks")' : b.key \in heap' \ (fresh' \cup popped')
    BY <1>3, <1>6, <1>8 DEF Inv, Owning
  <2>6. \A b \in BindingsOf("responders")' : b.key \in strings' /\ Text[b.key] \in registered'
    BY <1>5, <1>6 DEF Inv, Owning, userVars
  <2> QED BY <2>1, <2>2, <2>3, <2>4, <2>5, <2>6 DEF Owning
<1>10. Store' = [Store EXCEPT ![t] = Map!Unbind(MapOf(t), k)]
  BY <1>1, <1>3, SameStore
<1>11. Map!Take(t, k)
  <2>1. Store[t] = MapOf(t) /\ maps' = maps
    BY <1>1 DEF Store, TableRemove
  <2>2. done' = (k \in DOMAIN MapOf(t))
    BY <1>1, <1>6, KnownKey
  <2> QED BY <1>1, <1>4, <1>6, <1>10, <2>1, <2>2 DEF Map!Take, Store
<1> QED BY <1>1, <1>3, <1>9, <1>11 DEF StepOfMap, Inv, Map!Next

LEMMA RemoveResponderStep ==
  ASSUME Inv, NEW s \in Strings, RemoveResponder(s)
  PROVE  StepOfMap
<1> DEFINE t == "responders"
           k == Text[s]
<1>1. /\ t \in maps /\ t \in Tables /\ UNCHANGED fields /\ TableRemove(t, k)
      /\ k \in KeySet(t) /\ k \in Commands
  BY DispatchAssumption DEF RemoveResponder, Tables, KeySet
<1> HIDE DEF k
<1>2. Stable /\ FieldsTyped'
  BY <1>1, FieldsStable DEF Inv
<1>3. /\ Filing' /\ Counting'
      /\ StoredIn(t)' = StoredIn(t) \ {Find(t, k)}
      /\ \A b : b \in BindingsOf(t)' <=> b \in BindingsOf(t) /\ KeyAt(t, b.key) # k
      /\ MapOf(t)' = Map!Unbind(MapOf(t), k)
      /\ \A u \in Tables \ {t} : BindingsOf(u)' = BindingsOf(u) /\ MapOf(u)' = MapOf(u)
  BY <1>1, <1>2, RemoveStep DEF Inv
<1>4. /\ Find(t, k) \in StoredIn(t) \cup {Absent} /\ Absent \notin StoredIn(t)
  BY <1>1, FindFacts DEF Inv
<1>5. BindingsOf("callbacks")' = BindingsOf("callbacks") /\ StoredIn("callbacks")' = StoredIn("callbacks")
  BY <1>3 DEF Tables, StoredIn
<1>6. /\ heap' = heap \ {Find(t, k)} /\ fresh' = fresh /\ popped' = popped /\ leaked' = leaked
      /\ got' = Absent /\ strings' = strings /\ registered' = registered \ {k}
      /\ asked' = <<"delete", t, k>> /\ done' = Known(t, k)
  BY DEF RemoveResponder, Outcome, k
<1>7. StoredIn("callbacks") \subseteq Callbacks /\ StoredIn("responders") \subseteq Responders
      /\ Callbacks \cap Responders = {} /\ Absent \notin Callbacks \cup Responders
  BY StoredFacts, DispatchAssumption DEF Inv
<1>8. Find(t, k) \notin Callbacks \cup leaked
  BY <1>4, <1>7 DEF Inv, Owning
<1>9. Owning'
  <2>1. /\ fresh' \subseteq Callbacks /\ popped' \subseteq Callbacks
        /\ leaked' \subseteq Callbacks \cup Responders
        /\ strings' \subseteq Strings /\ registered' \subseteq Commands
        /\ got' \in Callbacks \cup Responders \cup {Absent}
    BY <1>6 DEF Inv, Owning
  <2>2. heap' = StoredIn("callbacks")' \cup StoredIn("responders")' \cup fresh' \cup popped' \cup leaked'
    BY <1>3, <1>5, <1>6, <1>7, <1>8 DEF Inv, Owning
  <2>3. (StoredIn("callbacks")' \cup StoredIn("responders")') \cap (fresh' \cup popped' \cup leaked') = {}
    BY <1>3, <1>5, <1>6 DEF Inv, Owning
  <2>4. fresh' \cap popped' = {} /\ (fresh' \cup popped') \cap leaked' = {}
    BY <1>6 DEF Inv, Owning
  <2>5. \A b \in BindingsOf("callbacks")' : b.key \in heap' \ (fresh' \cup popped')
    BY <1>5, <1>6, <1>8, StoredFacts DEF Inv, Owning
  <2>6. \A b \in BindingsOf("responders")' : b.key \in strings' /\ Text[b.key] \in registered'
    BY <1>3, <1>6 DEF Inv, Owning, KeyAt
  <2> QED BY <2>1, <2>2, <2>3, <2>4, <2>5, <2>6 DEF Owning
<1>10. Store' = [Store EXCEPT ![t] = Map!Unbind(MapOf(t), k)]
  BY <1>1, <1>3, SameStore
<1>11. Map!Delete(t, k)
  <2>1. Store[t] = MapOf(t) /\ maps' = maps
    BY <1>1 DEF Store, TableRemove
  <2>2. done' = (k \in DOMAIN MapOf(t))
    BY <1>1, <1>6, KnownKey
  <2>3. CASE k \in DOMAIN MapOf(t)
    BY <1>1, <1>6, <1>10, <2>1, <2>2, <2>3 DEF Map!Delete, Map!Succeeds, Store
  <2>4. CASE k \notin DOMAIN MapOf(t)
    <3>1. Map!Unbind(MapOf(t), k) = MapOf(t)
      BY <2>4 DEF Map!Unbind, MapOf
    <3>2. Store' = Store
      BY <1>10, <2>1, <3>1 DEF Store
    <3>3. done' = FALSE
      <4>1. (k \in DOMAIN MapOf(t)) = FALSE
        BY <2>4
      <4> QED BY <2>2, <4>1
    <3>4. Map!Refused
      BY <1>6, <2>1, <3>2, <3>3 DEF Map!Refused, Store
    <3>5. k \notin DOMAIN Store[t]
      BY <2>1, <2>4
    <3> QED BY <1>1, <1>6, <3>4, <3>5 DEF Map!Delete, Store
  <2> QED BY <2>3, <2>4
<1> QED BY <1>1, <1>3, <1>9, <1>11 DEF StepOfMap, Inv, Map!Next

LEMMA NoBindings ==
  ASSUME Filing, NEW t \in Tables, buckets[t] = EmptyTable
  PROVE  BindingsOf(t) = {} /\ NumBindings(t) = 0 /\ StoredIn(t) = {}
<1>1. Elements(<<>>) = {}
  BY DEF Elements
<1>2. \A m \in 0 .. NBuckets - 1 : Elements(buckets[t][m]) = {}
  BY <1>1, EmptyTableHasNothing
<1>3. BindingsOf(t) = {}
  BY <1>2, BindingsAre
<1> QED BY <1>3, NumBindingsInNat DEF StoredIn

\* a table without bindings has the empty map
LEMMA ClearedMap ==
  ASSUME Filing, Filing', Stable, NEW t \in Tables, BindingsOf(t)' = {},
         \A u \in Tables \ {t} : BindingsOf(u)' = BindingsOf(u)
  PROVE  Store' = [Store EXCEPT ![t] = Map!Empty]
<1>1. MapOf(t)' = Map!Empty
  <2>1. (DOMAIN MapOf(t))' = {}
    BY NextFacts
  <2>2. MapOf(t)' = [y \in (DOMAIN MapOf(t))' |-> MapOf(t)'[y]]
    BY DEF MapOf
  <2> QED BY <2>1, <2>2 DEF Map!Empty
<1>2. \A u \in Tables \ {t} : MapOf(u)' = MapOf(u)
  BY SameMap
<1> QED BY <1>1, <1>2, SameStore

LEMMA NewMapStep ==
  ASSUME Inv, NEW t \in Tables, NewMap(t)
  PROVE  StepOfMap
<1>1. /\ t \notin maps /\ maps' = maps \cup {t}
      /\ asked' = <<"create", t>> /\ done' = TRUE /\ got' = Absent
      /\ buckets' = [buckets EXCEPT ![t] = EmptyTable] /\ length' = [length EXCEPT ![t] = 0]
      /\ bindings' = bindings /\ UNCHANGED <<ownership, fields, userVars>>
      /\ ask_key' = ask_key /\ command' = command
  BY DEF NewMap, Outcome, fields
<1>2. /\ Filing'
      /\ BindingsOf(t)' = {} /\ NumBindings(t)' = 0
      /\ \A u \in Tables \ {t} : BindingsOf(u)' = BindingsOf(u) /\ NumBindings(u)' = NumBindings(u)
  BY <1>1, ClearTable DEF Inv
<1>3. BindingsOf(t) = {} /\ NumBindings(t) = 0 /\ StoredIn(t) = {}
  BY <1>1, NoBindings DEF Inv, Filing
<1>4. Stable
  BY <1>1, FieldsStable DEF Inv
<1>5. \A u \in Tables : /\ BindingsOf(u)' = BindingsOf(u) /\ NumBindings(u)' = NumBindings(u)
                        /\ StoredIn(u)' = StoredIn(u)
  BY <1>2, <1>3 DEF StoredIn
<1>6. length' = length
  BY <1>1, <1>3 DEF Inv, Counting
<1>7. Counting'
  BY <1>1, <1>5, <1>6 DEF Inv, Counting, Tables
<1>8. Owning'
  BY <1>1, <1>5 DEF Inv, Owning, ownership, userVars, Tables
<1>9. Store' = Store
  <2>1. \A u \in Tables : MapOf(u)' = MapOf(u)
    BY <1>2, <1>4, <1>5, SameMap DEF Inv
  <2> QED BY <2>1 DEF Store, Tables
<1>10. Map!Create(t)
  BY <1>1, <1>9 DEF Map!Create, Map!Succeeds, Store
<1> QED BY <1>2, <1>7, <1>8, <1>10 DEF StepOfMap, Inv, Map!Next

LEMMA FreeMapStep ==
  ASSUME Inv, NEW t \in Tables, FreeMap(t)
  PROVE  StepOfMap
<1>1. /\ t \in maps /\ maps' = maps \ {t}
      /\ asked' = <<"destroy", t>> /\ done' = TRUE /\ got' = Absent
      /\ buckets' = [buckets EXCEPT ![t] = EmptyTable] /\ length' = [length EXCEPT ![t] = 0]
      /\ UNCHANGED fields /\ ask_key' = ask_key /\ command' = command
      /\ fresh' = fresh /\ popped' = popped /\ leaked' = leaked /\ strings' = strings
      /\ registered' = IF t = "responders" THEN {} ELSE registered
  BY DEF FreeMap, Outcome, fields
<1>2. /\ Filing'
      /\ BindingsOf(t)' = {} /\ NumBindings(t)' = 0
      /\ \A u \in Tables \ {t} : BindingsOf(u)' = BindingsOf(u) /\ NumBindings(u)' = NumBindings(u)
  BY <1>1, ClearTable DEF Inv
<1>3. /\ length \in [Tables -> Nat] /\ length[t] \in Nat /\ length[t] = NumBindings(t)
      /\ IsFiniteSet(StoredIn(t)) /\ length[t] = Cardinality(StoredIn(t))
      /\ bindings = length["callbacks"] + length["responders"]
      /\ length["callbacks"] \in Nat /\ length["responders"] \in Nat
  BY DEF Inv, Counting, Tables
<1>4. heap' = heap \ StoredIn(t) /\ bindings' = bindings - length[t]
  <2>1. CASE length[t] > 0
    <3>1. ValuesIn(t) = StoredIn(t)
      BY DEF ValuesIn, StoredIn, BindingsOf
    <3> QED BY <1>3, <2>1, <3>1 DEF FreeMap
  <2>2. CASE length[t] = 0
    <3>1. StoredIn(t) = {}
      BY <1>3, <2>2, FS_EmptySet
    <3>2. heap' = heap /\ bindings' = bindings
      BY <2>2 DEF FreeMap
    <3> QED BY <1>3, <2>2, <3>1, <3>2
  <2> QED BY <1>3, <2>1, <2>2
<1>5. Stable
  BY <1>1, FieldsStable DEF Inv
<1>6. StoredIn(t)' = {} /\ \A u \in Tables \ {t} : StoredIn(u)' = StoredIn(u)
  BY <1>2 DEF StoredIn
<1>7. Counting'
  <2>1. length'[t] = 0 /\ \A u \in Tables \ {t} : length'[u] = length[u]
    BY <1>1, <1>3
  <2>2. length' \in [Tables -> Nat]
    BY <1>1, <1>3
  <2>3. \A u \in Tables : /\ length'[u] = NumBindings(u)'
                          /\ IsFiniteSet(StoredIn(u)') /\ length'[u] = Cardinality(StoredIn(u)')
    <3> TAKE u \in Tables
    <3>1. CASE u = t
      <4>1. IsFiniteSet({}) /\ Cardinality({}) = 0
        BY FS_EmptySet
      <4> QED BY <1>2, <1>6, <2>1, <3>1, <4>1
    <3>2. CASE u # t
      BY <1>2, <1>6, <2>1, <3>2 DEF Inv, Counting
    <3> QED BY <3>1, <3>2
  <2>4. bindings' = length'["callbacks"] + length'["responders"]
    <3>1. CASE t = "callbacks"
      <4>1. length'["callbacks"] = 0 /\ length'["responders"] = length["responders"]
        BY <2>1, <3>1 DEF Tables
      <4> QED BY <1>3, <1>4, <3>1, <4>1
    <3>2. CASE t = "responders"
      <4>1. length'["responders"] = 0 /\ length'["callbacks"] = length["callbacks"]
        BY <2>1, <3>2 DEF Tables
      <4> QED BY <1>3, <1>4, <3>2, <4>1
    <3> QED BY <3>1, <3>2 DEF Tables
  <2>5. bindings' \in Nat
    BY <2>2, <2>4 DEF Tables
  <2> QED BY <2>2, <2>3, <2>4, <2>5 DEF Counting
<1>8. Owning'
  <2>1. StoredIn("callbacks") \subseteq Callbacks /\ StoredIn("responders") \subseteq Responders
        /\ Callbacks \cap Responders = {}
    BY StoredFacts, DispatchAssumption DEF Inv
  <2>2. /\ heap = StoredIn("callbacks") \cup StoredIn("responders") \cup fresh \cup popped \cup leaked
        /\ (StoredIn("callbacks") \cup StoredIn("responders")) \cap (fresh \cup popped \cup leaked) = {}
        /\ fresh \subseteq Callbacks /\ popped \subseteq Callbacks
    BY DEF Inv, Owning
  <2>3. CASE t = "callbacks"
    <3>1. /\ BindingsOf("callbacks")' = {} /\ BindingsOf("responders")' = BindingsOf("responders")
          /\ StoredIn("callbacks")' = {} /\ StoredIn("responders")' = StoredIn("responders")
          /\ registered' = registered /\ heap' = heap \ StoredIn("callbacks")
      BY <1>1, <1>2, <1>4, <1>6, <2>3 DEF Tables
    <3> QED BY <1>1, <2>1, <2>2, <3>1 DEF Inv, Owning
  <2>4. CASE t = "responders"
    <3>1. /\ BindingsOf("responders")' = {} /\ BindingsOf("callbacks")' = BindingsOf("callbacks")
          /\ StoredIn("responders")' = {} /\ StoredIn("callbacks")' = StoredIn("callbacks")
          /\ registered' = {} /\ heap' = heap \ StoredIn("responders")
      BY <1>1, <1>2, <1>4, <1>6, <2>4 DEF Tables
    <3>2. \A b \in BindingsOf("callbacks") : b.key \in heap' \ (fresh \cup popped)
      BY <2>1, <3>1, StoredFacts DEF Inv, Owning
    <3> QED BY <1>1, <2>1, <2>2, <3>1, <3>2 DEF Inv, Owning
  <2> QED BY <2>3, <2>4 DEF Tables
<1>9. Store' = [Store EXCEPT ![t] = Map!Empty]
  BY <1>2, <1>5, ClearedMap DEF Inv
<1>10. Map!Destroy(t)
  BY <1>1, <1>9 DEF Map!Destroy, Map!Succeeds, Store
<1> QED BY <1>2, <1>7, <1>8, <1>10 DEF StepOfMap, Inv, Map!Next

-----------------------------------------------------------------------------
LEMMA StepLemma ==
  ASSUME Inv, [Next]_vars
  PROVE  StepOfMap
<1>1. CASE UNCHANGED vars
  <2>1. UNCHANGED tableVars /\ Stable /\ FieldsTyped'
    BY <1>1, FieldsStable DEF vars, Inv
  <2>2. /\ Filing' /\ Counting' /\ Store' = Store
        /\ \A u \in Tables : BindingsOf(u)' = BindingsOf(u) /\ StoredIn(u)' = StoredIn(u)
    BY <2>1, SameTables
  <2>3. Owning'
    BY <1>1, <2>2 DEF Inv, Owning, vars, ownership, userVars, Tables
  <2>4. UNCHANGED Map!vars
    BY <1>1, <2>2 DEF Map!vars, Store, vars, tableVars
  <2> QED BY <2>2, <2>3, <2>4 DEF StepOfMap, Inv
<1>2. ASSUME NEW t \in Tables, NewMap(t) \/ FreeMap(t) PROVE StepOfMap
  BY <1>2, NewMapStep, FreeMapStep
<1>3. ASSUME NEW c \in Callbacks, NewCallback(c) \/ FreeCallback(c) PROVE StepOfMap
  BY <1>3, NewCallbackStep, FreeCallbackStep
<1>4. ASSUME NEW c \in Callbacks, NEW k \in AskKeys, PutCallback(c, k) \/ PutCallbackOom(c, k)
      PROVE  StepOfMap
  BY <1>4, PutCallbackStep, PutCallbackOomStep
<1>5. ASSUME NEW k \in AskKeys, PopCallback(k) PROVE StepOfMap
  BY <1>5, PopCallbackStep
<1>6. ASSUME NEW s \in Strings, NewString(s) \/ ReleaseString(s) \/ RemoveResponder(s)
      PROVE  StepOfMap
  BY <1>6, StringStep, RemoveResponderStep
<1>7. ASSUME NEW s \in Strings, NEW r \in Responders, AddResponder(r, s) \/ AddResponderUnbound(r, s)
      PROVE  StepOfMap
  BY <1>7, AddResponderStep, AddResponderUnboundStep
<1>8. ASSUME NEW w \in Commands, GetResponder(w) PROVE StepOfMap
  BY <1>8, GetResponderStep
<1> QED BY <1>1, <1>2, <1>3, <1>4, <1>5, <1>6, <1>7, <1>8 DEF Next

LEMMA InitLemma == Init => Inv /\ Map!Init
<1> SUFFICES ASSUME Init PROVE Inv /\ Map!Init
  OBVIOUS
<1>1. buckets \in [Tables -> [0 .. NBuckets - 1 -> Seq(Binding)]]
      /\ \A t \in Tables : buckets[t] = EmptyTable
  BY EmptyTableHasNothing DEF Init
<1>2. ask_key \in [Callbacks -> AskKeys] /\ command \in [Responders -> Strings]
  BY DispatchAssumption DEF Init
<1>3. Filing
  <2>1. Elements(<<>>) = {} /\ Len(<<>>) = 0
    BY DEF Elements
  <2>2. \A t \in Tables, n \in 0 .. NBuckets - 1 : ChainFiled(t, n, buckets[t][n])
    <3> TAKE t \in Tables, n \in 0 .. NBuckets - 1
    <3>1. buckets[t][n] = <<>>
      BY <1>1, EmptyTableHasNothing
    <3>2. ChainFiled(t, n, <<>>)
      BY <2>1 DEF ChainFiled
    <3> QED BY <3>1, <3>2
  <2> QED BY <1>1, <1>2, <2>2 DEF Filing, Init
<1>4. \A t \in Tables : BindingsOf(t) = {} /\ NumBindings(t) = 0 /\ StoredIn(t) = {}
  BY <1>1, <1>3, NoBindings
<1>5. Counting
  <2>1. length \in [Tables -> Nat] /\ (\A t \in Tables : length[t] = 0) /\ bindings = 0
    BY DEF Init
  <2>2. IsFiniteSet({}) /\ Cardinality({}) = 0
    BY FS_EmptySet
  <2>3. bindings = length["callbacks"] + length["responders"]
    BY <2>1 DEF Tables
  <2>4. \A t \in Tables : IsFiniteSet(StoredIn(t)) /\ Cardinality(StoredIn(t)) = 0
    BY <1>4, <2>2
  <2> QED BY <1>4, <2>1, <2>3, <2>4 DEF Counting
<1>6. Owning
  BY <1>4 DEF Owning, Init, Tables
<1>7. Map!Init
  <2>1. \A t \in Tables : MapOf(t) = Map!Empty
    <3> TAKE t \in Tables
    <3>1. DOMAIN MapOf(t) = {}
      BY <1>3, <1>4, MapFacts
    <3>2. MapOf(t) = [y \in DOMAIN MapOf(t) |-> MapOf(t)[y]]
      BY DEF MapOf
    <3> QED BY <3>1, <3>2 DEF Map!Empty
  <2> QED BY <2>1 DEF Map!Init, Init
<1> QED BY <1>3, <1>5, <1>6, <1>7 DEF Inv

LEMMA InvHolds == Spec => []Inv
<1>1. Inv /\ [Next]_vars => Inv'
  BY StepLemma DEF StepOfMap
<1> QED BY <1>1, InitLemma, PTL DEF Spec

LEMMA AskedStep ==
  ASSUME asked \in Requests, done \in BOOLEAN, [Next]_vars
  PROVE  asked' \in Requests /\ done' \in BOOLEAN
<1>1. CASE UNCHANGED vars
  BY <1>1 DEF vars
<1>2. ASSUME NEW request \in Requests, NEW ok \in BOOLEAN, NEW found, Outcome(request, ok, found)
      PROVE  asked' \in Requests /\ done' \in BOOLEAN
  BY <1>2 DEF Outcome
<1>3. <<"other">> \in Requests
  BY DEF Requests
<1>4. ASSUME NEW t \in Tables PROVE <<"create", t>> \in Requests /\ <<"destroy", t>> \in Requests
  BY DEF Requests
<1>5. ASSUME NEW t \in Tables, NEW k \in AskKeys \cup Commands
      PROVE  /\ {<<"get", t, k>>, <<"take", t, k>>, <<"delete", t, k>>} \subseteq Requests
             /\ \A v \in Structs : <<"put", t, k, v>> \in Requests
             /\ Known(t, k) \in BOOLEAN
  BY DEF Requests, Known, Has
<1>6. "callbacks" \in Tables /\ "responders" \in Tables
  BY DEF Tables
<1>7. ASSUME NEW t \in Tables, NewMap(t) \/ FreeMap(t) PROVE asked' \in Requests /\ done' \in BOOLEAN
  BY <1>2, <1>4, <1>7 DEF NewMap, FreeMap
<1>8. ASSUME NEW c \in Callbacks, NewCallback(c) \/ FreeCallback(c)
      PROVE  asked' \in Requests /\ done' \in BOOLEAN
  BY <1>2, <1>3, <1>8 DEF NewCallback, FreeCallback
<1>9. ASSUME NEW k \in AskKeys, NEW c \in Callbacks, PutCallback(c, k) \/ PutCallbackOom(c, k)
      PROVE  asked' \in Requests /\ done' \in BOOLEAN
  BY <1>2, <1>5, <1>6, <1>9 DEF PutCallback, PutCallbackOom, Structs
<1>10. ASSUME NEW k \in AskKeys, PopCallback(k) PROVE asked' \in Requests /\ done' \in BOOLEAN
  BY <1>2, <1>5, <1>6, <1>10 DEF PopCallback
<1>11. ASSUME NEW s \in Strings, NewString(s) \/ ReleaseString(s)
       PROVE  asked' \in Requests /\ done' \in BOOLEAN
  BY <1>2, <1>3, <1>11 DEF NewString, ReleaseString
<1>12. ASSUME NEW s \in Strings, RemoveResponder(s) PROVE asked' \in Requests /\ done' \in BOOLEAN
  BY <1>2, <1>5, <1>6, <1>12, DispatchAssumption DEF RemoveResponder
<1>13. ASSUME NEW s \in Strings, NEW r \in Responders, AddResponder(r, s) \/ AddResponderUnbound(r, s)
       PROVE  asked' \in Requests /\ done' \in BOOLEAN
  BY <1>2, <1>5, <1>6, <1>13, DispatchAssumption DEF AddResponder, AddResponderUnbound, Structs
<1>14. ASSUME NEW w \in Commands, GetResponder(w) PROVE asked' \in Requests /\ done' \in BOOLEAN
  BY <1>2, <1>5, <1>6, <1>14 DEF GetResponder
<1> QED BY <1>1, <1>7, <1>8, <1>9, <1>10, <1>11, <1>12, <1>13, <1>14 DEF Next

(* What the searches of table.c see: each binding in the bucket that its    *)
(* key hashes to, no key twice, and as many bindings as length says.        *)
Filed ==
  \A t \in Tables :
    /\ length[t] = NumBindings(t)
    /\ \A n \in 0 .. NBuckets - 1 :
         LET chain == Seen(t, buckets[t][n]) IN
         \A i \in 1 .. Len(chain) :
           /\ Bucket(t, chain[i].key) = n
           /\ \A j \in 1 .. i - 1 : chain[j].key # chain[i].key

LEMMA InvFiled ==
  ASSUME Inv
  PROVE  Filed
<1> SUFFICES ASSUME NEW t \in Tables, NEW n \in 0 .. NBuckets - 1,
                    NEW i \in 1 .. Len(Seen(t, buckets[t][n]))
             PROVE  LET chain == Seen(t, buckets[t][n]) IN
                    /\ Bucket(t, chain[i].key) = n
                    /\ \A j \in 1 .. i - 1 : chain[j].key # chain[i].key
  BY DEF Filed, Inv, Counting
<1>1. PICK chain : chain = buckets[t][n]
  OBVIOUS
<1>2. ChainFiled(t, n, chain)
  BY <1>1 DEF Inv, Filing
<1>3. /\ Len(chain) \in Nat /\ i \in 1 .. Len(chain)
      /\ \A j \in 1 .. Len(chain) : Seen(t, chain)[j].key = KeyAt(t, chain[j].key)
  BY <1>1, <1>2 DEF Seen, ChainFiled
<1>4. Bucket(t, KeyAt(t, chain[i].key)) = n
  BY <1>2, <1>3 DEF ChainFiled, Elements
<1>5. \A j \in 1 .. i - 1 : KeyAt(t, chain[j].key) # KeyAt(t, chain[i].key)
  BY <1>2, <1>3 DEF ChainFiled
<1> QED BY <1>1, <1>3, <1>4, <1>5

(* The fields, tables and counters of dispatch.c keep their types; and in   *)
(* each table every binding sits in the bucket that its key, read through   *)
(* its pointer, hashes to, no key is bound twice, and the length counts the *)
(* bindings, though the keys are in memory the table does not own.          *)
THEOREM DispatchTyped == Spec => [](TypeOK /\ Filed)
<1> DEFINE Typed == asked \in Requests /\ done \in BOOLEAN
<1>1. Inv /\ Typed => TypeOK
  BY StoredFacts DEF Inv, Filing, Counting, Owning, TypeOK, Structs
<1>2. Inv => Filed
  BY InvFiled
<1>3. Init => Typed
  BY DEF Init, Requests
<1>4. Typed /\ [Next]_vars => Typed'
  <2> SUFFICES ASSUME Typed, [Next]_vars PROVE Typed'
    OBVIOUS
  <2>1. asked' \in Requests /\ done' \in BOOLEAN
    BY AskedStep
  <2> QED BY <2>1 DEF Requests
<1> HIDE DEF Typed
<1> QED BY <1>1, <1>2, <1>3, <1>4, InvHolds, PTL DEF Spec

(* A lookup never reads freed memory through a binding, and what it reads   *)
(* is the key of the value it finds, for every hash function and however    *)
(* ask keys wrap and commands are added twice (Table_put, _amp_put_callback,*)
(* amp_add_responder, amp_remove_responder).                                *)
THEOREM KeysStayReadable == Spec => []KeysReadable
<1>1. Inv => KeysReadable
  <2> SUFFICES ASSUME Inv PROVE KeysReadable
    OBVIOUS
  <2>1. \A t \in Tables : \A b \in BindingsOf(t) : KeyAt(t, b.key) = OwnKey(t, b.value)
    BY BindingFacts DEF Inv
  <2> QED BY <2>1 DEF KeysReadable, Inv, Owning, KeyAt, OwnKey, Tables
<1> QED BY <1>1, InvHolds, PTL

(* Every callback and responder allocated has exactly one owner, and the    *)
(* length of a table, which decides whether its values are freed with it,   *)
(* is the number of its bindings and of its values.                         *)
THEOREM StructuresHaveOneOwner == Spec => []OwnedOnce
<1>1. Inv => OwnedOnce
  <2> SUFFICES ASSUME Inv PROVE OwnedOnce
    OBVIOUS
  <2>1. {b.value : b \in BindingsOf("callbacks") \cup BindingsOf("responders")}
          = StoredIn("callbacks") \cup StoredIn("responders")
    BY DEF StoredIn
  <2>2. \A t \in Tables : length[t] = NumBindings(t)
                          /\ length[t] = Cardinality({b.value : b \in BindingsOf(t)})
    BY DEF Inv, Counting, StoredIn
  <2>3. bindings = length["callbacks"] + length["responders"]
    BY DEF Inv, Counting
  <2> QED BY <2>1, <2>2, <2>3 DEF OwnedOnce, Inv, Owning
<1> QED BY <1>1, InvHolds, PTL

(* The two tables of dispatch.c implement the maps of KeyValueStore: each   *)
(* step is one of the maps' for the operation, table and key asked for.  So *)
(* what _amp_pop_callback takes, _amp_get_responder gets and                *)
(* _amp_remove_responder frees is what was put last under that very key.    *)
THEOREM TablesAreMaps == Spec => IsMap
<1>1. Inv /\ [Next]_vars => Inv' /\ [Map!Next]_(Map!vars)
  BY StepLemma DEF StepOfMap
<1> QED BY <1>1, InitLemma, PTL DEF Spec, IsMap, Map!Spec

=============================================================================
