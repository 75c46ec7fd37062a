---------------------------- MODULE ChainsProofs ----------------------------
(***************************************************************************)
(* A bucket without duplicate keys, before and after Link and Unlink; the   *)
(* pairs of all buckets of a table together; and what both, and the digit   *)
(* loops of TypesProofs, rest on: least elements, ranges of indices that are *)
(* closed under the next one, and functions defined by recursion.           *)
(***************************************************************************)
EXTENDS Chains, SequenceTheorems, FiniteSetTheorems, TLAPS

\* a list of bindings in which no key occurs twice
IsChain(chain, K, V) ==
  /\ chain \in Seq([key : K, value : V])
  /\ \A i, j \in 1 .. Len(chain) : chain[i].key = chain[j].key => i = j

LEMMA ElementOfSequence ==
  ASSUME NEW S, NEW s \in Seq(S), NEW i \in 1 .. Len(s)
  PROVE  s[i] \in S
OBVIOUS

LEMMA FunctionIsSeq ==
  ASSUME NEW S, NEW n \in Nat, NEW f \in [1 .. n -> S]
  PROVE  f \in Seq(S)
<1>1. f \in UNION {[1 .. m -> S] : m \in Nat}
  OBVIOUS
<1> QED BY <1>1, SeqDef

LEMMA EmptyChain ==
  ASSUME NEW K, NEW V
  PROVE  IsChain(<<>>, K, V) /\ \A k : ~Has(<<>>, k)
BY DEF IsChain, Has

\* a search stops at the only binding of its key
LEMMA AtIs ==
  ASSUME NEW K, NEW V, NEW chain, IsChain(chain, K, V), NEW i \in 1 .. Len(chain)
  PROVE  At(chain, chain[i].key) = i
<1> DEFINE Q(n) == /\ n \in 1 .. Len(chain) /\ chain[n].key = chain[i].key
                   /\ \A j \in 1 .. n - 1 : chain[j].key # chain[i].key
<1>1. Len(chain) \in Nat
  BY DEF IsChain
<1>2. Q(i)
  BY <1>1 DEF IsChain
<1>3. \A n : Q(n) => n = i
  BY DEF IsChain
<1> QED BY <1>2, <1>3 DEF At

LEMMA AtHas ==
  ASSUME NEW K, NEW V, NEW chain, IsChain(chain, K, V), NEW k, Has(chain, k)
  PROVE  /\ At(chain, k) \in 1 .. Len(chain)
         /\ chain[At(chain, k)].key = k
         /\ chain[At(chain, k)] \in [key : K, value : V]
<1>1. PICK i \in 1 .. Len(chain) : chain[i].key = k
  BY DEF Has
<1>2. At(chain, k) = i
  BY <1>1, AtIs
<1>3. chain[i] \in [key : K, value : V]
  BY <1>1, ElementOfSequence DEF IsChain
<1> QED BY <1>1, <1>2, <1>3

LEMMA LinkChain ==
  ASSUME NEW K, NEW V, NEW chain, IsChain(chain, K, V), NEW k \in K, NEW v \in V
  PROVE  /\ IsChain(Link(chain, k, v), K, V)
         /\ Has(Link(chain, k, v), k)
         /\ Link(chain, k, v)[At(Link(chain, k, v), k)].value = v
         /\ \A x : x # k => /\ Has(Link(chain, k, v), x) <=> Has(chain, x)
                            /\ Has(chain, x) =>
                                 Link(chain, k, v)[At(Link(chain, k, v), x)].value
                                   = chain[At(chain, x)].value
<1> DEFINE new == [key |-> k, value |-> v]
           c   == Link(chain, k, v)
<1>1. Len(chain) \in Nat /\ chain \in Seq([key : K, value : V]) /\ new \in [key : K, value : V]
  BY DEF IsChain
<1>2. CASE Has(chain, k)
  <2> DEFINE a == At(chain, k)
  <2>1. a \in 1 .. Len(chain) /\ chain[a].key = k
    BY <1>2, AtHas
  <2>2. c = [chain EXCEPT ![a] = new]
    BY <1>2 DEF Link
  <2> HIDE DEF a, c, new
  <2>3. /\ c \in Seq([key : K, value : V]) /\ Len(c) = Len(chain)
        /\ c[a] = new /\ \A i \in 1 .. Len(chain) : i # a => c[i] = chain[i]
    BY <1>1, <2>1, <2>2
  <2>4. \A i \in 1 .. Len(chain) : c[i].key = chain[i].key
    BY <2>1, <2>3 DEF new
  <2>5. IsChain(c, K, V)
    BY <2>3, <2>4 DEF IsChain
  <2>6. \A x : Has(c, x) <=> Has(chain, x)
    BY <2>3, <2>4 DEF Has
  <2>7. At(c, k) = a
    BY <2>1, <2>3, <2>4, <2>5, AtIs
  <2>8. c[At(c, k)].value = v
    BY <2>3, <2>7 DEF new
  <2>9. ASSUME NEW x, x # k, Has(chain, x)
        PROVE  c[At(c, x)].value = chain[At(chain, x)].value
    <3> DEFINE b == At(chain, x)
    <3>1. b \in 1 .. Len(chain) /\ chain[b].key = x
      BY <2>9, AtHas
    <3> HIDE DEF b
    <3>2. b # a
      BY <2>1, <2>9, <3>1
    <3>3. c[b].key = x
      BY <2>4, <3>1
    <3>4. At(c, x) = b
      BY <2>3, <2>5, <3>1, <3>3, AtIs
    <3>5. c[b] = chain[b]
      BY <2>3, <3>1, <3>2
    <3> QED BY <3>4, <3>5 DEF b
  <2> QED BY <1>2, <2>5, <2>6, <2>8, <2>9 DEF c
<1>3. CASE ~Has(chain, k)
  <2>1. c = <<new>> \o chain
    BY <1>3 DEF Link
  <2> HIDE DEF c, new
  <2>2. /\ c \in Seq([key : K, value : V]) /\ Len(c) = Len(chain) + 1
        /\ c[1] = new /\ \A i \in 1 .. Len(chain) : c[i + 1] = chain[i]
    BY <1>1, <2>1
  <2>3. c[1].key = k /\ c[1].value = v
    BY <2>2 DEF new
  <2>4. \A i \in 1 .. Len(chain) : chain[i].key # k
    BY <1>3 DEF Has
  <2>5. \A i \in 1 .. Len(c) : i = 1 \/ (i - 1 \in 1 .. Len(chain) /\ c[i] = chain[i - 1])
    BY <1>1, <2>2
  <2>6. IsChain(c, K, V)
    <3>1. ASSUME NEW i \in 1 .. Len(c), NEW j \in 1 .. Len(c), c[i].key = c[j].key
          PROVE  i = j
      <4>1. CASE i = 1 /\ j # 1
        BY <2>3, <2>4, <2>5, <3>1, <4>1
      <4>2. CASE i # 1 /\ j = 1
        BY <2>3, <2>4, <2>5, <3>1, <4>2
      <4>3. CASE i # 1 /\ j # 1
        <5>1. PICK a \in 1 .. Len(chain) : a = i - 1 /\ c[i] = chain[a]
          BY <2>5, <4>3
        <5>2. PICK b \in 1 .. Len(chain) : b = j - 1 /\ c[j] = chain[b]
          BY <2>5, <4>3
        <5>3. chain[a].key = chain[b].key
          BY <3>1, <5>1, <5>2
        <5>4. a = b
          BY <5>3 DEF IsChain
        <5> QED BY <1>1, <2>2, <5>1, <5>2, <5>4
      <4> QED BY <4>1, <4>2, <4>3
    <3> QED BY <2>2, <3>1 DEF IsChain
  <2>7. Has(c, k)
    <3>1. 1 \in 1 .. Len(c)
      BY <1>1, <2>2
    <3> QED BY <2>3, <3>1 DEF Has
  <2>8. c[At(c, k)].value = v
    <3>1. 1 \in 1 .. Len(c)
      BY <1>1, <2>2
    <3>2. At(c, k) = 1
      BY <2>3, <2>6, <3>1, AtIs
    <3> QED BY <2>3, <3>2
  <2>9. ASSUME NEW x, x # k PROVE Has(c, x) <=> Has(chain, x)
    <3>1. ASSUME Has(c, x) PROVE Has(chain, x)
      BY <2>3, <2>5, <2>9, <3>1 DEF Has
    <3>2. ASSUME Has(chain, x) PROVE Has(c, x)
      <4>1. PICK i \in 1 .. Len(chain) : chain[i].key = x
        BY <3>2 DEF Has
      <4>2. i + 1 \in 1 .. Len(c) /\ c[i + 1].key = x
        BY <1>1, <2>2, <4>1
      <4> QED BY <4>2 DEF Has
    <3> QED BY <3>1, <3>2
  <2>10. ASSUME NEW x, x # k, Has(chain, x)
         PROVE  c[At(c, x)].value = chain[At(chain, x)].value
    <3> DEFINE b == At(chain, x)
    <3>1. b \in 1 .. Len(chain) /\ chain[b].key = x
      BY <2>10, AtHas
    <3> HIDE DEF b
    <3>2. b + 1 \in 1 .. Len(c) /\ c[b + 1] = chain[b]
      BY <1>1, <2>2, <3>1
    <3>3. At(c, c[b + 1].key) = b + 1
      BY <2>6, <3>2, AtIs
    <3> QED BY <3>1, <3>2, <3>3 DEF b
  <2> QED BY <2>6, <2>7, <2>8, <2>9, <2>10 DEF c
<1> QED BY <1>2, <1>3

LEMMA UnlinkChain ==
  ASSUME NEW K, NEW V, NEW chain, IsChain(chain, K, V), NEW k, Has(chain, k)
  PROVE  /\ IsChain(Unlink(chain, k), K, V)
         /\ ~Has(Unlink(chain, k), k)
         /\ \A x : x # k => /\ Has(Unlink(chain, k), x) <=> Has(chain, x)
                            /\ Has(chain, x) =>
                                 Unlink(chain, k)[At(Unlink(chain, k), x)].value
                                   = chain[At(chain, x)].value
<1> DEFINE c == Unlink(chain, k)
           a == At(chain, k)
<1>1. Len(chain) \in Nat /\ chain \in Seq([key : K, value : V])
  BY DEF IsChain
<1>2. a \in 1 .. Len(chain) /\ chain[a].key = k
  BY AtHas
<1>11. \A i, j \in 1 .. Len(chain) : chain[i].key = chain[j].key => i = j
  BY DEF IsChain
<1>3. c = [i \in 1 .. Len(chain) - 1 |-> IF i < a THEN chain[i] ELSE chain[i + 1]]
  BY DEF Unlink, Without
<1> HIDE DEF c, a
<1>4. /\ Len(c) = Len(chain) - 1 /\ DOMAIN c = 1 .. Len(chain) - 1
      /\ c \in Seq([key : K, value : V])
  <2>1. Len(chain) - 1 \in Nat
    BY <1>1, <1>2
  <2>2. \A i \in 1 .. Len(chain) - 1 : c[i] \in [key : K, value : V]
    <3> TAKE i \in 1 .. Len(chain) - 1
    <3>1. i \in 1 .. Len(chain) /\ i + 1 \in 1 .. Len(chain)
      BY <1>1
    <3>2. chain[i] \in [key : K, value : V] /\ chain[i + 1] \in [key : K, value : V]
      BY <1>1, <3>1, ElementOfSequence
    <3> QED BY <1>3, <3>2
  <2>3. DOMAIN c = 1 .. Len(chain) - 1
    BY <1>3
  <2>4. c \in [1 .. Len(chain) - 1 -> [key : K, value : V]]
    BY <1>3, <2>2
  <2>5. c \in Seq([key : K, value : V])
    BY <2>1, <2>4, FunctionIsSeq
  <2>6. Len(c) = Len(chain) - 1
    BY <2>1, <2>3, <2>5
  <2> QED BY <2>3, <2>5, <2>6
<1>5. \A i \in 1 .. Len(c) :
        \/ i < a /\ i \in 1 .. Len(chain) /\ c[i] = chain[i]
        \/ i >= a /\ i + 1 \in 1 .. Len(chain) /\ c[i] = chain[i + 1]
  BY <1>1, <1>2, <1>3, <1>4
<1>6. \A j \in 1 .. Len(chain) : j # a =>
        \E i \in 1 .. Len(c) : c[i] = chain[j]
  <2> TAKE j \in 1 .. Len(chain)
  <2>1. CASE j < a
    <3>1. j \in 1 .. Len(c) /\ c[j] = chain[j]
      BY <1>1, <1>2, <1>3, <1>4, <2>1
    <3> QED BY <3>1
  <2>2. CASE j > a
    <3>1. j - 1 \in 1 .. Len(c) /\ c[j - 1] = chain[j]
      BY <1>1, <1>2, <1>3, <1>4, <2>2
    <3> QED BY <3>1
  <2> QED BY <1>1, <1>2, <2>1, <2>2
<1>7. IsChain(c, K, V)
  <2>1. ASSUME NEW i \in 1 .. Len(c), NEW j \in 1 .. Len(c), c[i].key = c[j].key
        PROVE  i = j
    <3>1. i \in Nat /\ j \in Nat /\ a \in Nat
      BY <1>1, <1>2, <1>4
    <3>2. /\ i < a => i \in 1 .. Len(chain) /\ c[i] = chain[i]
          /\ i >= a => i + 1 \in 1 .. Len(chain) /\ c[i] = chain[i + 1]
      BY <1>5, <3>1
    <3>3. /\ j < a => j \in 1 .. Len(chain) /\ c[j] = chain[j]
          /\ j >= a => j + 1 \in 1 .. Len(chain) /\ c[j] = chain[j + 1]
      BY <1>5, <3>1
    <3>4. CASE i < a /\ j < a
      BY <1>11, <2>1, <3>2, <3>3, <3>4
    <3>5. CASE i >= a /\ j >= a
      <4>1. i + 1 = j + 1
        BY <1>11, <2>1, <3>2, <3>3, <3>5
      <4> QED BY <3>1, <4>1
    <3>6. CASE i < a /\ j >= a
      <4>1. i = j + 1
        BY <1>11, <2>1, <3>2, <3>3, <3>6
      <4> QED BY <3>1, <3>6, <4>1
    <3>7. CASE i >= a /\ j < a
      <4>1. i + 1 = j
        BY <1>11, <2>1, <3>2, <3>3, <3>7
      <4> QED BY <3>1, <3>7, <4>1
    <3> QED BY <3>1, <3>4, <3>5, <3>6, <3>7
  <2> QED BY <1>4, <2>1 DEF IsChain
<1>8. ~Has(c, k)
  <2>1. ASSUME NEW i \in 1 .. Len(c), c[i].key = k PROVE FALSE
    <3>1. CASE i < a
      BY <1>2, <1>5, <1>11, <2>1, <3>1
    <3>2. CASE i >= a
      <4>1. i + 1 = a
        BY <1>1, <1>2, <1>5, <1>11, <2>1, <3>2, SMTT(60)
      <4> QED BY <1>1, <1>2, <1>4, <3>2, <4>1
    <3> QED BY <1>1, <1>2, <1>4, <3>1, <3>2
  <2> QED BY <2>1 DEF Has
<1>9. ASSUME NEW x, x # k PROVE Has(c, x) <=> Has(chain, x)
  <2>1. ASSUME Has(c, x) PROVE Has(chain, x)
    BY <1>5, <2>1 DEF Has
  <2>2. ASSUME Has(chain, x) PROVE Has(c, x)
    BY <1>2, <1>6, <1>9, <2>2 DEF Has
  <2> QED BY <2>1, <2>2
<1>10. ASSUME NEW x, x # k, Has(chain, x)
       PROVE  c[At(c, x)].value = chain[At(chain, x)].value
  <2> DEFINE b == At(chain, x)
  <2>1. b \in 1 .. Len(chain) /\ chain[b].key = x
    BY <1>10, AtHas
  <2> HIDE DEF b
  <2>2. PICK i \in 1 .. Len(c) : c[i] = chain[b]
    BY <1>2, <1>6, <1>10, <2>1
  <2>3. At(c, c[i].key) = i
    BY <1>7, AtIs
  <2> QED BY <2>1, <2>2, <2>3 DEF b
<1> QED BY <1>7, <1>8, <1>9, <1>10 DEF c

-----------------------------------------------------------------------------
(* Induction and recursion over an index.  An induction hypothesis is a set *)
(* of indices, and a step of a recursion a function: the provers cannot     *)
(* instantiate an operator.                                                 *)

\* a set of naturals has a least one, for intervals are ordered as their ends are
LEMMA Least ==
  ASSUME NEW T, T \subseteq Nat, T # {}
  PROVE \E x \in T : \A y \in T : x <= y
<1> DEFINE Below == {0 .. n - 1 : n \in T}
<1>1. \A n \in Nat : IsFiniteSet(0 .. n - 1) /\ 0 .. n - 1 \subseteq Nat
  BY FS_Interval
<1>2. Below \subseteq FiniteSubsetsOf(Nat) /\ Below # {}
  BY <1>1 DEF FiniteSubsetsOf
<1>3. IsWellFoundedOn(StrictSubsetOrdering(Nat), FiniteSubsetsOf(Nat))
  BY FS_StrictSubsetOrderingWellFounded
<1> HIDE DEF Below
<1>4. PICK b \in Below : \A c \in Below : ~(<<c, b>> \in StrictSubsetOrdering(Nat))
  BY <1>2, <1>3, WFMin
<1>5. PICK x \in T : b = 0 .. x - 1
  BY DEF Below
<1>6. ASSUME NEW y \in T, y < x PROVE FALSE
  <2>1. 0 .. y - 1 \in Below
    BY DEF Below
  <2>2. 0 .. y - 1 \subseteq 0 .. x - 1 /\ 0 .. y - 1 # 0 .. x - 1
    <3>1. y \in 0 .. x - 1 /\ y \notin 0 .. y - 1 /\ x \in Nat /\ y \in Nat
      BY <1>6
    <3> QED BY <1>6, <3>1
  <2>3. 0 .. y - 1 \in SUBSET Nat /\ 0 .. x - 1 \in SUBSET Nat
    BY <1>1
  <2>4. <<0 .. y - 1, 0 .. x - 1>> \in StrictSubsetOrdering(Nat)
    BY <2>2, <2>3 DEF StrictSubsetOrdering
  <2> QED BY <1>4, <1>5, <2>1, <2>4
<1> QED BY <1>6

LEMMA UpTo ==
  ASSUME NEW N \in Nat, NEW T, 0 \in T, \A i \in 0 .. N - 1 : i \in T => i + 1 \in T
  PROVE  \A i \in 0 .. N : i \in T
<1> DEFINE U == {i \in 0 .. N : i \notin T}
<1> SUFFICES ASSUME U # {} PROVE FALSE
  OBVIOUS
<1>1. U \subseteq Nat
  OBVIOUS
<1>2. PICK x \in U : \A y \in U : x <= y
  BY <1>1, Least
<1>3. x \in 0 .. N /\ x # 0 /\ x \notin T
  OBVIOUS
<1>4. x - 1 \in 0 .. N - 1 /\ x - 1 \in 0 .. N
  BY <1>3
<1>5. x - 1 \notin U
  BY <1>2, <1>3
<1>6. x - 1 \in T
  BY <1>4, <1>5
<1>7. (x - 1) + 1 \in T
  BY <1>4, <1>6
<1> QED BY <1>3, <1>7

Iterates(f, m, S, z, step) ==
  /\ f \in [0 .. m -> S]
  /\ f[0] = z
  /\ \A i \in 0 .. m - 1 : f[i + 1] = step[<<i, f[i]>>]

LEMMA RecursionExists ==
  ASSUME NEW N \in Nat, NEW S, NEW z \in S, NEW step \in [(0 .. N - 1) \X S -> S]
  PROVE  \E f : Iterates(f, N, S, z, step)
<1> DEFINE Good(m, f) == Iterates(f, m, S, z, step)
           T == {m \in 0 .. N : \E f : Good(m, f)}
<1>1. 0 \in T
  <2>1. Good(0, [i \in 0 .. 0 |-> z])
    BY DEF Iterates
  <2> HIDE DEF Good
  <2> QED BY <2>1
<1>2. ASSUME NEW m \in 0 .. N - 1, m \in T PROVE m + 1 \in T
  <2>1. PICK f : Good(m, f)
    BY <1>2
  <2> DEFINE g == [i \in 0 .. m + 1 |-> IF i = m + 1 THEN step[<<m, f[m]>>] ELSE f[i]]
  <2>2. f[m] \in S /\ step[<<m, f[m]>>] \in S
    BY <2>1 DEF Iterates
  <2>3. g \in [0 .. m + 1 -> S]
    BY <2>1, <2>2 DEF Iterates
  <2>4. g[0] = z
    BY <2>1 DEF Iterates
  <2>5. ASSUME NEW i \in 0 .. (m + 1) - 1 PROVE g[i + 1] = step[<<i, g[i]>>]
    <3>1. g[i] = f[i]
      OBVIOUS
    <3>2. CASE i = m
      <4>1. g[m + 1] = step[<<m, f[m]>>]
        OBVIOUS
      <4> QED BY <3>1, <3>2, <4>1
    <3>3. CASE i # m
      <4>1. i \in 0 .. m - 1 /\ i + 1 \in 0 .. m /\ g[i + 1] = f[i + 1]
        BY <3>3
      <4> QED BY <2>1, <3>1, <4>1 DEF Iterates
    <3> QED BY <3>2, <3>3
  <2> HIDE DEF g
  <2>6. Good(m + 1, g)
    BY <2>3, <2>4, <2>5 DEF Iterates
  <2>7. m + 1 \in 0 .. N
    OBVIOUS
  <2> HIDE DEF Good
  <2> QED BY <2>6, <2>7
<1> HIDE DEF T
<1>3. N \in T
  BY <1>1, <1>2, UpTo
<1> QED BY <1>3 DEF T

-----------------------------------------------------------------------------
(* The lengths of the chains of a table, added up, and the chains joined     *)

TotalLength(tab, N) ==
  LET n[i \in 0 .. N] == IF i = 0 THEN 0 ELSE n[i - 1] + Len(tab[i - 1]) IN n[N]

Joined(tab, N) ==
  LET f[i \in 0 .. N] == IF i = 0 THEN <<>> ELSE f[i - 1] \o tab[i - 1] IN f[N]

LEMMA TotalIs ==
  ASSUME NEW N \in Nat, NEW S, NEW tab \in [0 .. N - 1 -> Seq(S)]
  PROVE  \E n \in [0 .. N -> Nat] :
           /\ n[0] = 0
           /\ \A i \in 0 .. N - 1 : n[i + 1] = n[i] + Len(tab[i])
           /\ n[N] = TotalLength(tab, N)
<1> DEFINE n[i \in 0 .. N] == IF i = 0 THEN 0 ELSE n[i - 1] + Len(tab[i - 1])
           step == [x \in (0 .. N - 1) \X Nat |-> x[2] + Len(tab[x[1]])]
<1>1. step \in [(0 .. N - 1) \X Nat -> Nat]
  OBVIOUS
<1>2. PICK f : Iterates(f, N, Nat, 0, step)
  <2>1. 0 \in Nat
    OBVIOUS
  <2> HIDE DEF step, n
  <2> QED BY <1>1, <2>1, RecursionExists
<1>3. f = [i \in 0 .. N |-> IF i = 0 THEN 0 ELSE f[i - 1] + Len(tab[i - 1])]
  <2>1. ASSUME NEW i \in 0 .. N, i # 0 PROVE f[i] = f[i - 1] + Len(tab[i - 1])
    <3>1. i - 1 \in 0 .. N - 1 /\ (i - 1) + 1 = i
      BY <2>1
    <3>2. f[(i - 1) + 1] = step[<<i - 1, f[i - 1]>>]
      BY <1>2, <3>1 DEF Iterates
    <3>3. f[i - 1] \in Nat
      BY <1>2, <3>1 DEF Iterates
    <3> QED BY <3>1, <3>2, <3>3
  <2> QED BY <1>2, <2>1 DEF Iterates
<1>4. n = [i \in 0 .. N |-> IF i = 0 THEN 0 ELSE n[i - 1] + Len(tab[i - 1])]
  BY <1>3 DEF n
<1>5. n[N] = TotalLength(tab, N)
  BY DEF TotalLength
<1> HIDE DEF n, step
<1>6. n[0] = 0
  BY <1>4
<1>7. ASSUME NEW i \in 0 .. N - 1 PROVE n[i + 1] = n[i] + Len(tab[i])
  <2>1. i + 1 \in 0 .. N /\ i + 1 # 0 /\ (i + 1) - 1 = i
    OBVIOUS
  <2>2. n[i + 1] = n[(i + 1) - 1] + Len(tab[(i + 1) - 1])
    BY <1>4, <2>1
  <2> QED BY <2>1, <2>2
<1>8. \A i \in 0 .. N : n[i] \in Nat
  <2> DEFINE T == {i \in 0 .. N : n[i] \in Nat}
  <2>1. 0 \in T
    BY <1>6
  <2>2. \A i \in 0 .. N - 1 : i \in T => i + 1 \in T
    BY <1>7
  <2> HIDE DEF T
  <2>3. \A i \in 0 .. N : i \in T
    BY <2>1, <2>2, UpTo
  <2> QED BY <2>3 DEF T
<1>9. n \in [0 .. N -> Nat]
  BY <1>4, <1>8
<1> QED BY <1>5, <1>6, <1>7, <1>9

LEMMA JoinedIs ==
  ASSUME NEW N \in Nat, NEW S, NEW tab \in [0 .. N - 1 -> Seq(S)]
  PROVE  \E j \in [0 .. N -> Seq(S)] :
           /\ j[0] = <<>>
           /\ \A i \in 0 .. N - 1 : j[i + 1] = j[i] \o tab[i]
           /\ j[N] = Joined(tab, N)
<1> DEFINE j[i \in 0 .. N] == IF i = 0 THEN <<>> ELSE j[i - 1] \o tab[i - 1]
           step == [x \in (0 .. N - 1) \X Seq(S) |-> x[2] \o tab[x[1]]]
<1>1. step \in [(0 .. N - 1) \X Seq(S) -> Seq(S)]
  <2>1. \A x \in (0 .. N - 1) \X Seq(S) : x[2] \in Seq(S) /\ tab[x[1]] \in Seq(S)
    OBVIOUS
  <2> QED BY <2>1
<1>2. PICK f : Iterates(f, N, Seq(S), <<>>, step)
  <2>1. <<>> \in Seq(S)
    OBVIOUS
  <2> HIDE DEF step, j
  <2> QED BY <1>1, <2>1, RecursionExists
<1>3. f = [i \in 0 .. N |-> IF i = 0 THEN <<>> ELSE f[i - 1] \o tab[i - 1]]
  <2>1. ASSUME NEW i \in 0 .. N, i # 0 PROVE f[i] = f[i - 1] \o tab[i - 1]
    <3>1. i - 1 \in 0 .. N - 1 /\ (i - 1) + 1 = i
      BY <2>1
    <3>2. f[(i - 1) + 1] = step[<<i - 1, f[i - 1]>>]
      BY <1>2, <3>1, Zenon DEF Iterates
    <3>3. f[i - 1] \in Seq(S)
      BY <1>2, <3>1 DEF Iterates
    <3> QED BY <3>1, <3>2, <3>3
  <2> QED BY <1>2, <2>1 DEF Iterates
<1>4. j = [i \in 0 .. N |-> IF i = 0 THEN <<>> ELSE j[i - 1] \o tab[i - 1]]
  BY <1>3, Zenon DEF j
<1>5. j[N] = Joined(tab, N)
  BY DEF Joined
<1> HIDE DEF j, step
<1>6. j[0] = <<>>
  BY <1>4
<1>7. ASSUME NEW i \in 0 .. N - 1 PROVE j[i + 1] = j[i] \o tab[i]
  <2>1. i + 1 \in 0 .. N /\ i + 1 # 0 /\ (i + 1) - 1 = i
    OBVIOUS
  <2>2. j[i + 1] = j[(i + 1) - 1] \o tab[(i + 1) - 1]
    BY <1>4, <2>1
  <2> QED BY <2>1, <2>2
<1>8. \A i \in 0 .. N : j[i] \in Seq(S)
  <2> DEFINE T == {i \in 0 .. N : j[i] \in Seq(S)}
  <2>1. 0 \in T
    <3>1. 0 \in 0 .. N /\ <<>> \in Seq(S)
      OBVIOUS
    <3>2. j[0] \in Seq(S)
      BY <1>6, <3>1
    <3> QED BY <3>1, <3>2
  <2>2. ASSUME NEW i \in 0 .. N - 1, i \in T PROVE i + 1 \in T
    <3>1. j[i] \in Seq(S) /\ tab[i] \in Seq(S) /\ i + 1 \in 0 .. N
      BY <2>2
    <3>2. j[i] \o tab[i] \in Seq(S)
      BY <3>1
    <3> QED BY <1>7, <3>1, <3>2
  <2> HIDE DEF T
  <2>3. \A i \in 0 .. N : i \in T
    BY <2>1, <2>2, UpTo
  <2> QED BY <2>3 DEF T
<1>9. j \in [0 .. N -> Seq(S)]
  BY <1>4, <1>8
<1> QED BY <1>5, <1>6, <1>7, <1>9

IsTable(tab, N, S) == tab \in [0 .. N - 1 -> Seq(S)]

LEMMA TotalReplaced ==
  ASSUME NEW N \in Nat, NEW S, NEW tab, IsTable(tab, N, S),
         NEW b \in DOMAIN tab, NEW ch \in Seq(S)
  PROVE  TotalLength([tab EXCEPT ![b] = ch], N) = TotalLength(tab, N) + Len(ch) - Len(tab[b])
<1> DEFINE new == [tab EXCEPT ![b] = ch]
           d   == Len(ch) - Len(tab[b])
<1>0. tab \in [0 .. N - 1 -> Seq(S)] /\ b \in 0 .. N - 1
  BY DEF IsTable
<1>1. new \in [0 .. N - 1 -> Seq(S)] /\ new[b] = ch /\ \A i \in 0 .. N - 1 : i # b => new[i] = tab[i]
  BY <1>0
<1>2. Len(ch) \in Nat /\ Len(tab[b]) \in Nat /\ d \in Int
  BY <1>0
<1> HIDE DEF new
<1>3. PICK n \in [0 .. N -> Nat] :
        /\ n[0] = 0 /\ \A i \in 0 .. N - 1 : n[i + 1] = n[i] + Len(tab[i])
        /\ n[N] = TotalLength(tab, N)
  BY <1>0, TotalIs
<1>4. PICK m \in [0 .. N -> Nat] :
        /\ m[0] = 0 /\ \A i \in 0 .. N - 1 : m[i + 1] = m[i] + Len(new[i])
        /\ m[N] = TotalLength(new, N)
  BY <1>1, TotalIs
<1> DEFINE T == {i \in 0 .. N : m[i] = n[i] + (IF i > b THEN d ELSE 0)}
<1>5. 0 \in T
  BY <1>0, <1>3, <1>4
<1>6. ASSUME NEW i \in 0 .. N - 1, i \in T PROVE i + 1 \in T
  <2>1. /\ m[i] = n[i] + (IF i > b THEN d ELSE 0) /\ n[i] \in Nat /\ m[i] \in Nat
        /\ m[i + 1] = m[i] + Len(new[i]) /\ n[i + 1] = n[i] + Len(tab[i])
        /\ Len(new[i]) \in Nat /\ Len(tab[i]) \in Nat
    <3>1. m[i] = n[i] + (IF i > b THEN d ELSE 0)
      BY <1>6
    <3>2. n[i] \in Nat /\ m[i] \in Nat
      OBVIOUS
    <3>3. m[i + 1] = m[i] + Len(new[i]) /\ n[i + 1] = n[i] + Len(tab[i])
      BY <1>0, <1>3, <1>4
    <3>4. Len(new[i]) \in Nat /\ Len(tab[i]) \in Nat
      BY <1>0, <1>1, SMTT(60)
    <3> QED BY <3>1, <3>2, <3>3, <3>4
  <2> HIDE DEF T
  <2>4. i + 1 \in 0 .. N
    OBVIOUS
  <2>5. m[i + 1] = n[i + 1] + (IF i + 1 > b THEN d ELSE 0)
    <3>1. CASE i = b
      BY <1>0, <1>1, <1>2, <2>1, <3>1, SMTT(60)
    <3>2. CASE i # b
      <4>1. Len(new[i]) = Len(tab[i])
        BY <1>1, <3>2
      <4>2. i > b <=> i + 1 > b
        BY <1>0, <3>2
      <4>3. d \in Int
        BY <1>2
      <4> HIDE DEF d
      <4> QED BY <1>0, <2>1, <4>1, <4>2, <4>3, SMTT(60)
    <3> QED BY <3>1, <3>2
  <2> QED BY <2>4, <2>5 DEF T
<1> HIDE DEF T, d
<1>7. \A i \in 0 .. N : i \in T
  BY <1>5, <1>6, UpTo
<1>8. TotalLength(new, N) = TotalLength(tab, N) + d /\ TotalLength(tab, N) \in Nat
  BY <1>3, <1>4, <1>7 DEF T
<1> QED BY <1>2, <1>8 DEF d, new

LEMMA TotalBounds ==
  ASSUME NEW N \in Nat, NEW S, NEW tab, IsTable(tab, N, S)
  PROVE  /\ TotalLength(tab, N) \in Nat
         /\ \A i \in 0 .. N - 1 : Len(tab[i]) <= TotalLength(tab, N)
         /\ (\A i \in 0 .. N - 1 : tab[i] = <<>>) => TotalLength(tab, N) = 0
<1>0. tab \in [0 .. N - 1 -> Seq(S)]
  BY DEF IsTable
<1>1. PICK n \in [0 .. N -> Nat] :
        /\ n[0] = 0 /\ \A i \in 0 .. N - 1 : n[i + 1] = n[i] + Len(tab[i])
        /\ n[N] = TotalLength(tab, N)
  BY <1>0, TotalIs
<1>2. \A i \in 0 .. N - 1 : Len(tab[i]) \in Nat
  BY <1>0
<1> DEFINE T == {i \in 0 .. N : \A j \in 0 .. i - 1 : Len(tab[j]) <= n[i]}
           E == {i \in 0 .. N : n[i] = 0}
<1>3. 0 \in T /\ 0 \in E
  BY <1>1
<1>4. ASSUME NEW i \in 0 .. N - 1, i \in T PROVE i + 1 \in T
  <2>1. n[i + 1] = n[i] + Len(tab[i]) /\ n[i] \in Nat /\ n[i + 1] \in Nat
    BY <1>1
  <2>2. ASSUME NEW j \in 0 .. (i + 1) - 1 PROVE Len(tab[j]) <= n[i + 1]
    <3>1. CASE j = i
      BY <1>2, <2>1, <3>1
    <3>2. CASE j # i
      <4>1. Len(tab[j]) <= n[i]
        BY <1>4, <3>2
      <4>2. j \in 0 .. N - 1
        OBVIOUS
      <4>3. Len(tab[j]) \in Nat /\ Len(tab[i]) \in Nat
        BY <1>2, <4>2
      <4> HIDE DEF T
      <4> QED BY <2>1, <4>1, <4>3, SMTT(60)
    <3> QED BY <3>1, <3>2
  <2>3. i + 1 \in 0 .. N
    OBVIOUS
  <2> QED BY <2>2, <2>3
<1>5. ASSUME \A i \in 0 .. N - 1 : tab[i] = <<>>
      PROVE  \A i \in 0 .. N - 1 : i \in E => i + 1 \in E
  <2>1. Len(<<>>) = 0
    OBVIOUS
  <2> QED BY <1>1, <1>5, <2>1, SMTT(60)
<1> HIDE DEF T, E
<1>6. \A i \in 0 .. N : i \in T
  BY <1>3, <1>4, UpTo
<1>7. (\A i \in 0 .. N - 1 : tab[i] = <<>>) => \A i \in 0 .. N : i \in E
  BY <1>3, <1>5, UpTo
<1> QED BY <1>1, <1>6, <1>7 DEF T, E

-----------------------------------------------------------------------------
(* The bindings of a chain as a set *)

Elements(chain) == {chain[i] : i \in 1 .. Len(chain)}

LEMMA ConsElements ==
  ASSUME NEW S, NEW chain \in Seq(S), NEW x \in S
  PROVE  /\ <<x>> \o chain \in Seq(S)
         /\ Len(<<x>> \o chain) = Len(chain) + 1
         /\ Elements(<<x>> \o chain) = Elements(chain) \cup {x}
<1> DEFINE c == <<x>> \o chain
<1>1. /\ c \in Seq(S) /\ Len(c) = Len(chain) + 1 /\ Len(chain) \in Nat
      /\ c[1] = x /\ \A i \in 1 .. Len(chain) : c[i + 1] = chain[i]
  OBVIOUS
<1> HIDE DEF c
<1>2. \A i \in 1 .. Len(c) : i = 1 \/ (i - 1 \in 1 .. Len(chain) /\ c[i] = chain[i - 1])
  BY <1>1
<1>3. ASSUME NEW y \in Elements(c) PROVE y \in Elements(chain) \cup {x}
  BY <1>1, <1>2 DEF Elements
<1>4. ASSUME NEW y \in Elements(chain) \cup {x} PROVE y \in Elements(c)
  <2>1. CASE y = x
    <3>1. 1 \in 1 .. Len(c) /\ c[1] = x
      BY <1>1
    <3> QED BY <2>1, <3>1 DEF Elements
  <2>2. CASE y \in Elements(chain)
    <3>1. PICK i \in 1 .. Len(chain) : y = chain[i]
      BY <2>2 DEF Elements
    <3>2. i + 1 \in 1 .. Len(c) /\ c[i + 1] = y
      BY <1>1, <3>1
    <3> QED BY <3>2 DEF Elements
  <2> QED BY <2>1, <2>2
<1> QED BY <1>1, <1>3, <1>4 DEF c

LEMMA SetElements ==
  ASSUME NEW S, NEW chain \in Seq(S), NEW a \in 1 .. Len(chain), NEW x \in S,
         \A i \in 1 .. Len(chain) : chain[i] = chain[a] => i = a
  PROVE  /\ [chain EXCEPT ![a] = x] \in Seq(S)
         /\ Len([chain EXCEPT ![a] = x]) = Len(chain)
         /\ Elements([chain EXCEPT ![a] = x]) = (Elements(chain) \ {chain[a]}) \cup {x}
<1> DEFINE c == [chain EXCEPT ![a] = x]
<1>1. /\ c \in Seq(S) /\ Len(c) = Len(chain)
      /\ c[a] = x /\ \A i \in 1 .. Len(chain) : i # a => c[i] = chain[i]
  OBVIOUS
<1> HIDE DEF c
<1>2. Elements(c) = (Elements(chain) \ {chain[a]}) \cup {x}
  BY <1>1 DEF Elements
<1> QED BY <1>1, <1>2 DEF c

LEMMA WithoutElements ==
  ASSUME NEW S, NEW chain \in Seq(S), NEW a \in 1 .. Len(chain),
         \A i \in 1 .. Len(chain) : chain[i] = chain[a] => i = a
  PROVE  /\ Without(chain, a) \in Seq(S)
         /\ Len(Without(chain, a)) = Len(chain) - 1
         /\ Elements(Without(chain, a)) = Elements(chain) \ {chain[a]}
<1> DEFINE c == Without(chain, a)
<1>1. Len(chain) - 1 \in Nat /\ Len(chain) \in Nat
  OBVIOUS
<1>2. c = [i \in 1 .. Len(chain) - 1 |-> IF i < a THEN chain[i] ELSE chain[i + 1]]
  BY DEF Without
<1> HIDE DEF c
<1>3. \A i \in 1 .. Len(chain) - 1 :
        \/ i < a /\ i \in 1 .. Len(chain) /\ c[i] = chain[i]
        \/ i >= a /\ i + 1 \in 1 .. Len(chain) /\ c[i] = chain[i + 1]
  BY <1>1, <1>2
<1>4. c \in [1 .. Len(chain) - 1 -> S]
  BY <1>2, <1>3, ElementOfSequence
<1>5. c \in Seq(S) /\ Len(c) = Len(chain) - 1
  BY <1>1, <1>4, FunctionIsSeq
<1>6. ASSUME NEW y \in Elements(c) PROVE y \in Elements(chain) \ {chain[a]}
  <2>1. PICK i \in 1 .. Len(chain) - 1 : y = c[i]
    BY <1>5 DEF Elements
  <2>2. PICK j \in 1 .. Len(chain) : j # a /\ y = chain[j]
    <3>1. CASE i < a /\ i \in 1 .. Len(chain) /\ c[i] = chain[i]
      BY <2>1, <3>1
    <3>2. CASE i >= a /\ i + 1 \in 1 .. Len(chain) /\ c[i] = chain[i + 1]
      BY <2>1, <3>2
    <3> QED BY <1>3, <3>1, <3>2
  <2> QED BY <2>2 DEF Elements
<1>7. ASSUME NEW y \in Elements(chain) \ {chain[a]} PROVE y \in Elements(c)
  <2>1. PICK j \in 1 .. Len(chain) : y = chain[j] /\ j # a
    BY <1>7 DEF Elements
  <2>2. CASE j < a
    <3>1. j \in 1 .. Len(c) /\ c[j] = y
      BY <1>1, <1>2, <1>5, <2>1, <2>2
    <3> QED BY <3>1 DEF Elements
  <2>3. CASE j > a
    <3>1. j - 1 \in 1 .. Len(c) /\ c[j - 1] = y
      BY <1>1, <1>2, <1>5, <2>1, <2>3
    <3> QED BY <3>1 DEF Elements
  <2> QED BY <1>1, <2>1, <2>2, <2>3
<1> QED BY <1>5, <1>6, <1>7 DEF c

LEMMA WithoutPlaces ==
  ASSUME NEW S, NEW chain \in Seq(S), NEW a \in 1 .. Len(chain)
  PROVE  \A i, j \in 1 .. Len(chain) - 1 :
           \E p, q \in 1 .. Len(chain) :
             Without(chain, a)[i] = chain[p] /\ Without(chain, a)[j] = chain[q] /\ (p = q => i = j)
<1> TAKE i, j \in 1 .. Len(chain) - 1
<1>1. \A n \in 1 .. Len(chain) - 1 :
        \/ n < a /\ n \in 1 .. Len(chain) /\ Without(chain, a)[n] = chain[n]
        \/ n >= a /\ n + 1 \in 1 .. Len(chain) /\ Without(chain, a)[n] = chain[n + 1]
  BY DEF Without
<1>2. CASE i < a
  <2>1. CASE j < a
    BY <1>1, <1>2, <2>1
  <2>2. CASE j >= a
    <3>1. i # j + 1
      BY <1>2, <2>2
    <3> QED BY <1>1, <1>2, <2>2, <3>1, SMTT(60)
  <2> QED BY <2>1, <2>2
<1>3. CASE i >= a
  <2>1. CASE j < a
    <3>1. i + 1 # j
      BY <1>3, <2>1
    <3> QED BY <1>1, <1>3, <2>1, <3>1
  <2>2. CASE j >= a
    <3>1. i + 1 = j + 1 => i = j
      OBVIOUS
    <3> QED BY <1>1, <1>3, <2>2, <3>1
  <2> QED BY <2>1, <2>2
<1> QED BY <1>2, <1>3

LEMMA JoinElements ==
  ASSUME NEW S, NEW s \in Seq(S), NEW u \in Seq(S)
  PROVE  /\ s \o u \in Seq(S) /\ Len(s \o u) = Len(s) + Len(u)
         /\ Elements(s \o u) = Elements(s) \cup Elements(u)
<1> DEFINE c == s \o u
<1>1. /\ c \in Seq(S) /\ Len(c) = Len(s) + Len(u) /\ Len(s) \in Nat /\ Len(u) \in Nat
      /\ \A i \in 1 .. Len(s) : c[i] = s[i]
      /\ \A i \in 1 .. Len(u) : c[Len(s) + i] = u[i]
  OBVIOUS
<1> HIDE DEF c
<1>2. ASSUME NEW i \in 1 .. Len(c) PROVE c[i] \in Elements(s) \cup Elements(u)
  <2>1. CASE i <= Len(s)
    <3>1. i \in 1 .. Len(s)
      BY <1>1, <2>1
    <3> QED BY <1>1, <3>1 DEF Elements
  <2>2. CASE i > Len(s)
    <3>1. i - Len(s) \in 1 .. Len(u) /\ Len(s) + (i - Len(s)) = i
      BY <1>1, <2>2
    <3>2. c[Len(s) + (i - Len(s))] = u[i - Len(s)]
      BY <1>1, <3>1
    <3> QED BY <3>1, <3>2 DEF Elements
  <2> QED BY <1>1, <2>1, <2>2
<1>3. ASSUME NEW i \in 1 .. Len(s) PROVE s[i] \in Elements(c)
  <2>1. i \in 1 .. Len(c) /\ c[i] = s[i]
    BY <1>1
  <2> QED BY <2>1 DEF Elements
<1>4. ASSUME NEW i \in 1 .. Len(u) PROVE u[i] \in Elements(c)
  <2>1. Len(s) + i \in 1 .. Len(c) /\ c[Len(s) + i] = u[i]
    BY <1>1
  <2> QED BY <2>1 DEF Elements
<1>5. Elements(c) = Elements(s) \cup Elements(u)
  BY <1>2, <1>3, <1>4 DEF Elements
<1> QED BY <1>1, <1>5 DEF c

LEMMA JoinedFacts ==
  ASSUME NEW N \in Nat, NEW S, NEW tab, IsTable(tab, N, S)
  PROVE  /\ Joined(tab, N) \in Seq(S)
         /\ Len(Joined(tab, N)) = TotalLength(tab, N)
         /\ Elements(Joined(tab, N)) = UNION {Elements(tab[i]) : i \in 0 .. N - 1}
<1>1. tab \in [0 .. N - 1 -> Seq(S)]
  BY DEF IsTable
<1>2. PICK n \in [0 .. N -> Nat] :
        /\ n[0] = 0 /\ \A i \in 0 .. N - 1 : n[i + 1] = n[i] + Len(tab[i])
        /\ n[N] = TotalLength(tab, N)
  BY <1>1, TotalIs
<1>3. PICK j \in [0 .. N -> Seq(S)] :
        /\ j[0] = <<>> /\ \A i \in 0 .. N - 1 : j[i + 1] = j[i] \o tab[i]
        /\ j[N] = Joined(tab, N)
  BY <1>1, JoinedIs
<1> DEFINE T == {i \in 0 .. N : /\ Len(j[i]) = n[i]
                                /\ Elements(j[i]) = UNION {Elements(tab[m]) : m \in 0 .. i - 1}}
<1>4. 0 \in T
  BY <1>2, <1>3 DEF Elements
<1>5. ASSUME NEW i \in 0 .. N - 1, i \in T PROVE i + 1 \in T
  <2>1. /\ j[i] \in Seq(S) /\ tab[i] \in Seq(S) /\ j[i + 1] = j[i] \o tab[i]
        /\ n[i + 1] = n[i] + Len(tab[i])
        /\ Len(j[i]) = n[i] /\ Elements(j[i]) = UNION {Elements(tab[m]) : m \in 0 .. i - 1}
    BY <1>1, <1>2, <1>3, <1>5
  <2> HIDE DEF T
  <2>2. /\ Len(j[i + 1]) = Len(j[i]) + Len(tab[i])
        /\ Elements(j[i + 1]) = Elements(j[i]) \cup Elements(tab[i])
    <3>1. PICK s, u : s = j[i] /\ u = tab[i]
      OBVIOUS
    <3>2. s \in Seq(S) /\ u \in Seq(S)
      BY <2>1, <3>1
    <3>3. Len(s \o u) = Len(s) + Len(u) /\ Elements(s \o u) = Elements(s) \cup Elements(u)
      BY <3>2, JoinElements
    <3> QED BY <2>1, <3>1, <3>3
  <2>3. (0 .. (i + 1) - 1) = (0 .. i - 1) \cup {i}
    OBVIOUS
  <2>4. Elements(j[i + 1]) = UNION {Elements(tab[m]) : m \in 0 .. (i + 1) - 1}
    BY <2>1, <2>2, <2>3
  <2>5. i + 1 \in 0 .. N /\ Len(j[i + 1]) = n[i + 1]
    BY <2>1, <2>2
  <2> QED BY <2>4, <2>5 DEF T
<1> HIDE DEF T
<1>6. \A i \in 0 .. N : i \in T
  BY <1>4, <1>5, UpTo
<1> QED BY <1>2, <1>3, <1>6 DEF T

=============================================================================
