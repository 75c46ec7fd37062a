---------------------------- MODULE SessionProofs ----------------------------
(* Proofs about Session, for any number of clients, operands and calls, for *)
(* integers of any width and streams read in any portions.                  *)
EXTENDS Session, ChainsProofs

-----------------------------------------------------------------------------
(* Wrapped is arithmetic modulo the size of the type *)

LEMMA WrappedIs ==
  ASSUME NEW m \in Nat, NEW n \in Int
  PROVE  Wrapped(n, m) \in -m - 1 .. m /\ \E q \in Int : Wrapped(n, m) = n + (2 * (m + 1)) * q
<1> PICK w \in Nat : w = 2 * (m + 1)
  OBVIOUS
<1> PICK x \in Int : x = n + m + 1
  OBVIOUS
<1>1. w > 0
  OBVIOUS
<1>2. PICK q \in Int, r \in 0 .. w - 1 : r = x % w /\ x = w * q + r
  BY <1>1
<1>3. Wrapped(n, m) = r - (m + 1)
  BY <1>2 DEF Wrapped
<1>4. PICK p \in Int : p = -q
  OBVIOUS
<1>5. w * p = -(w * q)
  BY <1>4
<1>6. Wrapped(n, m) = n + w * p
  BY <1>2, <1>3, <1>5
<1>7. Wrapped(n, m) \in -m - 1 .. m
  BY <1>2, <1>3
<1> QED BY <1>6, <1>7

\* two numbers of the type that differ by a multiple of its size are equal
LEMMA OneResidue ==
  ASSUME NEW m \in Nat, NEW a \in -m - 1 .. m, NEW b \in -m - 1 .. m, NEW q \in Int,
         a = b + (2 * (m + 1)) * q
  PROVE  a = b
<1> PICK w \in Nat : w = 2 * (m + 1)
  OBVIOUS
<1>1. w > 0 /\ a - b < w /\ b - a < w
  OBVIOUS
<1>2. CASE q >= 1
  <2>1. w * q >= w
    BY <1>1, <1>2
  <2> QED BY <1>1, <2>1
<1>3. CASE q <= -1
  <2>1. w * q <= -w
    BY <1>1, <1>3
  <2> QED BY <1>1, <2>1
<1>4. CASE q = 0
  BY <1>4
<1> QED BY <1>2, <1>3, <1>4

LEMMA WrappedSame ==
  ASSUME NEW m \in Nat, NEW n \in -m - 1 .. m
  PROVE  Wrapped(n, m) = n
<1>1. PICK a \in -m - 1 .. m : a = Wrapped(n, m)
  BY WrappedIs
<1>2. PICK q \in Int : a = n + (2 * (m + 1)) * q
  <2>1. n \in Int
    OBVIOUS
  <2> QED BY <1>1, <2>1, WrappedIs
<1>3. a = n
  BY <1>2, OneResidue
<1> QED BY <1>1, <1>3

LEMMA WrappedAdd ==
  ASSUME NEW m \in Nat, NEW x \in Int, NEW y \in Int
  PROVE  Wrapped(Wrapped(x, m) + y, m) = Wrapped(x + y, m)
<1> PICK w \in Nat : w = 2 * (m + 1)
  OBVIOUS
<1>1. PICK a \in Int : a = Wrapped(x, m)
  BY WrappedIs
<1>2. PICK q \in Int : a = x + w * q
  BY <1>1, WrappedIs
<1>3. PICK b \in -m - 1 .. m : b = Wrapped(a + y, m)
  BY WrappedIs
<1>4. PICK r \in Int : b = a + y + w * r
  <2>1. a + y \in Int
    OBVIOUS
  <2> QED BY <1>3, <2>1, WrappedIs
<1>5. PICK c \in -m - 1 .. m : c = Wrapped(x + y, m)
  BY WrappedIs
<1>6. PICK t \in Int : c = x + y + w * t
  <2>1. x + y \in Int
    OBVIOUS
  <2> QED BY <1>5, <2>1, WrappedIs
<1>7. PICK p \in Int : p = q + r - t
  OBVIOUS
<1>8. w * p = w * q + w * r - w * t
  BY <1>7
<1>9. b = c + w * p
  BY <1>2, <1>4, <1>6, <1>8
<1>10. b = c
  BY <1>9, OneResidue
<1> QED BY <1>1, <1>3, <1>5, <1>10

-----------------------------------------------------------------------------
(* What is left of a box *)

CellsOf(b) == [box : {b}, last : BOOLEAN]

\* a function on 1 .. n is a sequence of that length
LEMMA SeqOf ==
  ASSUME NEW S, NEW n \in Nat, NEW f \in [1 .. n -> S]
  PROVE  f \in Seq(S) /\ Len(f) = n
<1>1. f \in Seq(S)
  BY SeqDef
<1>2. PICK m \in Nat : m = Len(f) /\ DOMAIN f = 1 .. m
  BY <1>1, LenProperties
<1>3. 1 .. m = 1 .. n
  BY <1>2
<1>4. m = n
  <2>1. CASE m > n
    <3>1. m \in 1 .. m /\ m \notin 1 .. n
      BY <2>1
    <3> QED BY <1>3, <3>1
  <2>2. CASE n > m
    <3>1. n \in 1 .. n /\ n \notin 1 .. m
      BY <2>2
    <3> QED BY <1>3, <3>1
  <2> QED BY <2>1, <2>2
<1> QED BY <1>1, <1>2, <1>4

LEMMA CellsAre ==
  ASSUME NEW b, NEW k \in Nat
  PROVE  /\ Cells(b, k) \in Seq(CellsOf(b)) /\ Len(Cells(b, k)) = k
         /\ \A i \in 1 .. k : Cells(b, k)[i] = [box |-> b, last |-> i = k]
<1>1. ASSUME NEW i \in 1 .. k PROVE [box |-> b, last |-> i = k] \in CellsOf(b)
  <2>1. (i = k) \in BOOLEAN
    OBVIOUS
  <2> QED BY <2>1 DEF CellsOf
<1>2. Cells(b, k) \in [1 .. k -> CellsOf(b)]
  BY <1>1 DEF Cells
<1>3. Cells(b, k) \in Seq(CellsOf(b)) /\ Len(Cells(b, k)) = k
  BY <1>2, SeqOf
<1>4. \A i \in 1 .. k : Cells(b, k)[i] = [box |-> b, last |-> i = k]
  BY DEF Cells
<1> QED BY <1>3, <1>4

\* a read of n bytes leaves the rest of the box
LEMMA ReadRest ==
  ASSUME NEW b, NEW k \in Nat, NEW n \in 0 .. k
  PROVE  SubSeq(Cells(b, k), n + 1, Len(Cells(b, k))) = Cells(b, k - n)
<1> PICK w \in Seq(CellsOf(b)) : w = Cells(b, k) /\ Len(w) = k
  BY CellsAre
<1> PICK m \in Nat : m = k - n
  OBVIOUS
<1>1. PICK v \in Seq(CellsOf(b)) : v = Cells(b, m) /\ Len(v) = m
  BY CellsAre
<1>2. ASSUME NEW i \in n + 1 .. k PROVE w[i] \in CellsOf(b)
  <2>1. i \in 1 .. Len(w)
    OBVIOUS
  <2> QED BY <2>1, ElementOfSeq
<1>3. /\ SubSeq(w, n + 1, k) \in Seq(CellsOf(b))
      /\ Len(SubSeq(w, n + 1, k)) = IF n + 1 <= k THEN k - (n + 1) + 1 ELSE 0
      /\ \A i \in 1 .. k - (n + 1) + 1 : SubSeq(w, n + 1, k)[i] = w[(n + 1) + i - 1]
  BY <1>2, SubSeqProperties
<1>4. PICK t \in Seq(CellsOf(b)) : t = SubSeq(w, n + 1, k)
  BY <1>3
<1>5. Len(t) = m
  BY <1>3, <1>4
<1>6. ASSUME NEW i \in 1 .. m PROVE t[i] = v[i]
  <2>1. PICK j \in 1 .. k : j = n + i /\ (j = k) = (i = m)
    <3>1. n + i \in 1 .. k /\ (n + i = k) = (i = m)
      OBVIOUS
    <3> QED BY <3>1
  <2>2. i \in 1 .. k - (n + 1) + 1 /\ (n + 1) + i - 1 = j
    BY <2>1
  <2>3. t[i] = w[j]
    BY <1>3, <1>4, <2>2
  <2>4. w[j] = [box |-> b, last |-> j = k]
    <3>1. \A x \in 1 .. k : Cells(b, k)[x] = [box |-> b, last |-> x = k]
      BY CellsAre
    <3> QED BY <3>1, Zenon
  <2>5. v[i] = [box |-> b, last |-> i = m]
    BY <1>1, CellsAre
  <2> QED BY <2>1, <2>3, <2>4, <2>5
<1>7. t = v
  BY <1>1, <1>5, <1>6, SeqEqual
<1> QED BY <1>1, <1>4, <1>7

\* the first n bytes
LEMMA ReadPart ==
  ASSUME NEW b, NEW k \in Nat, NEW n \in 0 .. k
  PROVE  /\ SubSeq(Cells(b, k), 1, n) \in Seq(CellsOf(b)) /\ Len(SubSeq(Cells(b, k), 1, n)) = n
         /\ \A i \in 1 .. n : SubSeq(Cells(b, k), 1, n)[i] = [box |-> b, last |-> i = k]
<1> PICK w \in Seq(CellsOf(b)) : w = Cells(b, k) /\ Len(w) = k
  BY CellsAre
<1>1. ASSUME NEW i \in 1 .. n PROVE w[i] \in CellsOf(b)
  <2>1. i \in 1 .. Len(w)
    OBVIOUS
  <2> QED BY <2>1, ElementOfSeq
<1>2. /\ SubSeq(w, 1, n) \in Seq(CellsOf(b))
      /\ Len(SubSeq(w, 1, n)) = IF 1 <= n THEN n - 1 + 1 ELSE 0
      /\ \A i \in 1 .. n - 1 + 1 : SubSeq(w, 1, n)[i] = w[1 + i - 1]
  BY <1>1, SubSeqProperties
<1>3. ASSUME NEW i \in 1 .. n PROVE SubSeq(w, 1, n)[i] = [box |-> b, last |-> i = k]
  <2>1. i \in 1 .. n - 1 + 1 /\ 1 + i - 1 = i /\ i \in 1 .. k
    OBVIOUS
  <2>2. w[i] = [box |-> b, last |-> i = k]
    <3>1. \A x \in 1 .. k : Cells(b, k)[x] = [box |-> b, last |-> x = k]
      BY CellsAre
    <3> QED BY <2>1, <3>1, Zenon
  <2> QED BY <1>2, <2>1, <2>2
<1> QED BY <1>2, <1>3

\* a read ends a box only if it takes the last of its bytes
LEMMA BoxesAre ==
  ASSUME NEW b, NEW k \in Nat, k >= 1, NEW n \in 0 .. k, NEW cells \in Seq(CellsOf(b)),
         Len(cells) = n, \A i \in 1 .. n : cells[i] = [box |-> b, last |-> i = k]
  PROVE  Boxes(cells) = IF n = k THEN << [box |-> b, last |-> TRUE] >> ELSE <<>>
<1> DEFINE x == [box |-> b, last |-> TRUE]
           next(i, s) == IF cells[i].last THEN Append(s, cells[i]) ELSE s
           f[i \in 0 .. n] == IF i = 0 THEN <<>> ELSE next(i, f[i - 1])
           g == [i \in 0 .. n |-> IF i = k THEN <<x>> ELSE <<>>]
<1>1. ASSUME NEW i \in 1 .. n, i # k PROVE next(i, <<>>) = <<>>
  <2>1. cells[i].last = FALSE
    <3> HIDE DEF f, g, next, x
    <3>1. cells[i] = [box |-> b, last |-> i = k]
      OBVIOUS
    <3>2. PICK v : v = (i = k)
      OBVIOUS
    <3>3. cells[i].last = v
      BY <3>1, <3>2
    <3>4. v = FALSE
      BY <1>1, <3>2
    <3> QED BY <3>3, <3>4
  <2> HIDE DEF f, g
  <2> QED BY <2>1
<1>2. ASSUME n = k PROVE next(n, <<>>) = <<x>>
  <2>1. cells[n] = x
    <3> HIDE DEF f, g, next
    <3>1. n \in 1 .. n /\ (n = k) = TRUE
      BY <1>2
    <3>2. cells[n] = [box |-> b, last |-> n = k]
      BY <3>1
    <3> QED BY <3>1, <3>2
  <2>2. Append(<<>>, x) = <<x>>
    <3> HIDE DEF x
    <3> QED OBVIOUS
  <2>3. cells[n].last = TRUE
    BY <2>1
  <2> HIDE DEF f, g, x
  <2> QED BY <2>1, <2>2, <2>3
<1>3. g = [i \in 0 .. n |-> IF i = 0 THEN <<>> ELSE next(i, g[i - 1])]
  <2> HIDE DEF next, x
  <2>1. ASSUME NEW i \in 0 .. n
        PROVE  (IF i = k THEN <<x>> ELSE <<>>) = IF i = 0 THEN <<>> ELSE next(i, g[i - 1])
    <3>1. CASE i = 0
      BY <3>1
    <3>2. CASE i # 0
      <4>1. i \in 1 .. n /\ i - 1 \in 0 .. n /\ i - 1 # k
        BY <3>2
      <4>2. g[i - 1] = <<>>
        BY <4>1
      <4>3. CASE i = k
        BY <1>2, <3>2, <4>2, <4>3
      <4>4. CASE i # k
        BY <1>1, <3>2, <4>1, <4>2, <4>4
      <4> QED BY <4>3, <4>4
    <3> QED BY <3>1, <3>2
  <2> QED BY <2>1
<1>4. f = [i \in 0 .. n |-> IF i = 0 THEN <<>> ELSE next(i, f[i - 1])]
  <2> HIDE DEF next, g
  <2> QED BY <1>3 DEF f
<1>5. Boxes(cells) = f[n]
  BY DEF Boxes
<1> HIDE DEF f, g, next, x
<1> DEFINE T == {i \in 0 .. n : i < k => f[i] = <<>>}
<1>6. 0 \in T
  BY <1>4
<1>7. ASSUME NEW i \in 0 .. n - 1, i \in T PROVE i + 1 \in T
  <2>1. i + 1 \in 1 .. n /\ i + 1 \in 0 .. n /\ (i + 1) - 1 = i /\ i < k
    OBVIOUS
  <2>2. f[i + 1] = next(i + 1, f[(i + 1) - 1])
    BY <1>4, <2>1
  <2>3. f[i] = <<>>
    BY <1>7, <2>1
  <2>4. i + 1 < k => f[i + 1] = <<>>
    BY <1>1, <2>1, <2>2, <2>3
  <2> QED BY <2>1, <2>4
<1> HIDE DEF T
<1>8. \A i \in 0 .. n : i \in T
  BY <1>6, <1>7, UpTo, SMTT(60)
<1>9. CASE n = k
  <2>1. n - 1 \in 0 .. n /\ n - 1 < k /\ n \in 0 .. n /\ n # 0
    BY <1>9
  <2>2. f[n - 1] = <<>>
    BY <1>8, <2>1 DEF T
  <2>3. f[n] = next(n, f[n - 1])
    BY <1>4, <2>1
  <2> QED BY <1>2, <1>5, <1>9, <2>2, <2>3 DEF x
<1>10. CASE n # k
  <2>1. n \in 0 .. n /\ n < k
    BY <1>10
  <2> QED BY <1>5, <1>8, <1>10, <2>1 DEF T
<1> QED BY <1>9, <1>10

\* a read of n of the k bytes left of a box
LEMMA PartHas ==
  ASSUME NEW b, NEW k \in Nat, k >= 1, NEW n \in 0 .. k
  PROVE  Boxes(SubSeq(Cells(b, k), 1, n)) = IF n = k THEN << [box |-> b, last |-> TRUE] >> ELSE <<>>
<1>1. PICK t \in Seq(CellsOf(b)) : t = SubSeq(Cells(b, k), 1, n)
  BY ReadPart
<1>2. Len(t) = n /\ \A i \in 1 .. n : t[i] = [box |-> b, last |-> i = k]
  BY <1>1, ReadPart
<1> QED BY <1>1, <1>2, BoxesAre

LEMMA WholeHas ==
  ASSUME NEW b, NEW k \in Nat, k >= 1
  PROVE  Boxes(Cells(b, k)) = << [box |-> b, last |-> TRUE] >>
<1>1. PICK t \in Seq(CellsOf(b)) : t = Cells(b, k)
  BY CellsAre
<1>2. Len(t) = k /\ \A i \in 1 .. k : t[i] = [box |-> b, last |-> i = k]
  BY <1>1, CellsAre
<1>3. k \in 0 .. k
  OBVIOUS
<1> QED BY <1>1, <1>2, <1>3, BoxesAre

-----------------------------------------------------------------------------
(* The answer to one request *)

LEMMA AnswersAre ==
  /\ Answers(<<>>) = <<>>
  /\ \A b : Answers(<< [box |-> b, last |-> TRUE] >>) =
              Cells(<< Wrapped(b[1] + b[2], LLONG_MAX) >>, AnswerCells)
<1> AnswerCells \in Nat
  BY SessionAssumption
<1>1. Answers(<<>>) = <<>>
  <2> DEFINE answer(r) == Cells(<< Wrapped(r.box[1] + r.box[2], LLONG_MAX) >>, AnswerCells)
             out[i \in 0 .. 0] == IF i = 0 THEN <<>> ELSE out[i - 1] \o answer(<<>>[i])
             g == [i \in 0 .. 0 |-> <<>>]
  <2>1. g = [i \in 0 .. 0 |-> IF i = 0 THEN <<>> ELSE g[i - 1] \o answer(<<>>[i])]
    OBVIOUS
  <2>2. out = [i \in 0 .. 0 |-> IF i = 0 THEN <<>> ELSE out[i - 1] \o answer(<<>>[i])]
    <3> HIDE DEF answer, g
    <3> QED BY <2>1 DEF out
  <2>3. Answers(<<>>) = out[0]
    <3>1. Len(<<>>) = 0
      BY SMTT(60)
    <3> QED BY <3>1 DEF Answers
  <2> HIDE DEF out, answer
  <2> QED BY <2>2, <2>3
<1>2. ASSUME NEW b
      PROVE  Answers(<< [box |-> b, last |-> TRUE] >>) =
               Cells(<< Wrapped(b[1] + b[2], LLONG_MAX) >>, AnswerCells)
  <2> DEFINE rs == << [box |-> b, last |-> TRUE] >>
             answer(r) == Cells(<< Wrapped(r.box[1] + r.box[2], LLONG_MAX) >>, AnswerCells)
             out[i \in 0 .. 1] == IF i = 0 THEN <<>> ELSE out[i - 1] \o answer(rs[i])
             a == answer(rs[1])
             g == [i \in 0 .. 1 |-> IF i = 0 THEN <<>> ELSE <<>> \o a]
  <2>1. g = [i \in 0 .. 1 |-> IF i = 0 THEN <<>> ELSE g[i - 1] \o answer(rs[i])]
    <3> HIDE DEF answer, rs
    <3>1. \A i \in 0 .. 1 : i = 0 \/ (i = 1 /\ i - 1 = 0)
      BY SMTT(60)
    <3> QED BY <3>1
  <2>2. out = [i \in 0 .. 1 |-> IF i = 0 THEN <<>> ELSE out[i - 1] \o answer(rs[i])]
    <3> HIDE DEF answer, g, rs
    <3> QED BY <2>1, Zenon DEF out
  <2>3. Answers(rs) = out[1]
    <3>1. Len(rs) = 1
      OBVIOUS
    <3> QED BY <3>1 DEF Answers
  <2>4. out[1] = <<>> \o a
    <3> HIDE DEF out, answer, rs, a
    <3>1. out[0] = <<>> /\ out[1] = out[1 - 1] \o answer(rs[1]) /\ 1 - 1 = 0
      BY <2>2
    <3> QED BY <3>1 DEF a
  <2>5. rs[1] = [box |-> b, last |-> TRUE]
    OBVIOUS
  <2>6. a = Cells(<< Wrapped(b[1] + b[2], LLONG_MAX) >>, AnswerCells)
    BY <2>5
  <2>7. <<>> \o a = a
    <3>1. PICK v : v = << Wrapped(b[1] + b[2], LLONG_MAX) >>
      OBVIOUS
    <3>2. Cells(v, AnswerCells) \in Seq(CellsOf(v))
      BY CellsAre
    <3> HIDE DEF a
    <3> QED BY <2>6, <3>1, <3>2, ConcatEmptySeq
  <2> QED BY <2>3, <2>4, <2>6, <2>7
<1> QED BY <1>1, <1>2

-----------------------------------------------------------------------------
(* The inductive invariant, one client at a time *)

LongLong == LLONG_MIN .. LLONG_MAX
Broken   == {"eof", "reset"}

Typed ==
  /\ pc \in [Clients -> {"start", "connecting", "calling", "waiting", "ended"}]
  /\ status \in [Clients -> {"", "usage", "0", "1", "killed"}]
  /\ idx \in [Clients -> Int] /\ max \in [Clients -> Int]
  /\ operands \in [Clients -> Seq(LongLong)] /\ args \in [Clients -> Seq(Int)]
  /\ printed \in [Clients -> Seq(Int)] /\ calls \in [Clients -> Nat]
  /\ conn \in [Clients -> {"none", "open"} \cup Broken]
  /\ bev \in [Clients -> {"none", "open", "freed"}]
  /\ DOMAIN toServer = Clients /\ DOMAIN toClient = Clients /\ DOMAIN inbuf = Clients
  /\ server \in {"up", "down"}

\* the box a waiting client has sent, and the box that answers it
Request(c) == IF c \in SumClients THEN << operands[c][idx[c]], operands[c][idx[c] + 1] >>
                                  ELSE << 5, 7 >>
Answer(c)  == << Wrapped(Request(c)[1] + Request(c)[2], LLONG_MAX) >>

\* nothing is under way, or what is left of the request, or of the answer
Idle(c) ==
  /\ toServer[c] = <<>> /\ toClient[c] = <<>>
  /\ ~(pc[c] = "waiting" /\ conn[c] = "open")
Asks(c) ==
  /\ pc[c] = "waiting" /\ conn[c] = "open"
  /\ \E k \in 1 .. RequestCells : toServer[c] = Cells(Request(c), k)
  /\ toClient[c] = <<>>
Told(c) ==
  /\ pc[c] \in {"waiting", "ended"} /\ conn[c] # "none"
  /\ toServer[c] = <<>>
  /\ \E k \in 1 .. AnswerCells : toClient[c] = Cells(Answer(c), k)

Flow(c) ==
  /\ inbuf[c] = <<>>
  /\ Idle(c) \/ Asks(c) \/ Told(c)
  /\ pc[c] \in {"start", "connecting"} => conn[c] = "none"

\* the sum of the first i operands
Sums(ops) == LET sum[i \in 0 .. Len(ops)] == IF i = 0 THEN 0 ELSE sum[i - 1] + ops[i]
             IN  sum

\* how far a sumclient, or a benchclient, has come
Adds(c) ==
  /\ idx[c] \in 0 .. max[c] /\ max[c] < MAX_OPERANDS
  /\ Len(operands[c]) <= MAX_OPERANDS
  /\ pc[c] \in {"connecting", "calling", "waiting"} =>
       max[c] >= 1 /\ Len(operands[c]) = max[c] + 1 /\ Len(args[c]) = max[c] + 1
  /\ pc[c] \in {"start", "connecting", "calling"} => idx[c] = 0 /\ calls[c] = 0
  /\ pc[c] \in {"connecting", "calling"} => operands[c] = args[c]
  /\ pc[c] = "waiting" =>
       /\ idx[c] >= 1 /\ calls[c] = idx[c] - 1
       /\ operands[c][idx[c]] = Wrapped(Sums(args[c])[idx[c]], LLONG_MAX)
       /\ \A j \in idx[c] + 1 .. max[c] + 1 : operands[c][j] = args[c][j]

Counts(c) ==
  /\ idx[c] \in -INT_MAX - 1 .. INT_MAX /\ max[c] \in -INT_MAX - 1 .. INT_MAX
  /\ pc[c] \in {"start", "connecting", "calling"} => idx[c] = 0 /\ calls[c] = 0
  /\ pc[c] \in {"connecting", "calling", "waiting"} =>
       /\ Len(args[c]) = 1
       /\ args[c][1] \in 1 .. INT_MAX => max[c] = args[c][1] /\ idx[c] = calls[c] /\ idx[c] < max[c]

\* what Results says of one client
Right(c) ==
  /\ printed[c] # <<>> =>
       IF c \in SumClients
         THEN printed[c] = << Wrapped(SumOf(args[c]), LLONG_MAX) >> /\ calls[c] = Len(args[c]) - 1
         ELSE args[c][1] \in 1 .. INT_MAX => printed[c] = args[c] /\ calls[c] = args[c][1]
  /\ printed[c] # <<>> => pc[c] = "ended"
  /\ (pc[c] = "ended" /\ printed[c] = <<>>) => conn[c] # "open"

Good(c) ==
  /\ Flow(c) /\ Right(c)
  /\ c \in SumClients => Adds(c)
  /\ c \in BenchClients => Counts(c)

IInv == Typed /\ \A c \in Clients : Good(c)

-----------------------------------------------------------------------------
(* What the steps have in common *)

LEMMA SumsAre ==
  ASSUME NEW ops \in Seq(Int)
  PROVE  /\ Sums(ops)[0] = 0 /\ SumOf(ops) = Sums(ops)[Len(ops)]
         /\ \A i \in 0 .. Len(ops) : Sums(ops)[i] \in Int
         /\ \A i \in 0 .. Len(ops) - 1 : Sums(ops)[i + 1] = Sums(ops)[i] + ops[i + 1]
<1> DEFINE N == Len(ops)
           f[i \in 0 .. N] == IF i = 0 THEN 0 ELSE f[i - 1] + ops[i]
           step == [x \in (0 .. N - 1) \X Int |-> x[2] + ops[x[1] + 1]]
<1>0. N \in Nat /\ \A i \in 0 .. N - 1 : ops[i + 1] \in Int
  <2>1. N \in Nat
    BY LenProperties
  <2>2. ASSUME NEW i \in 0 .. N - 1 PROVE ops[i + 1] \in Int
    <3>1. i + 1 \in 1 .. N
      BY <2>1
    <3> QED BY <3>1, ElementOfSeq
  <2> QED BY <2>1, <2>2
<1>1. step \in [(0 .. N - 1) \X Int -> Int]
  BY <1>0
<1>2. PICK g : Iterates(g, N, Int, 0, step)
  <2>1. 0 \in Int
    OBVIOUS
  <2> HIDE DEF step, f, N
  <2> QED BY <1>0, <1>1, <2>1, RecursionExists
<1>3. g = [i \in 0 .. N |-> IF i = 0 THEN 0 ELSE g[i - 1] + ops[i]]
  <2>1. ASSUME NEW i \in 0 .. N, i # 0 PROVE g[i] = g[i - 1] + ops[i]
    <3>1. i - 1 \in 0 .. N - 1 /\ (i - 1) + 1 = i
      BY <1>0, <2>1
    <3>2. g[(i - 1) + 1] = step[<<i - 1, g[i - 1]>>]
      BY <1>2, <3>1 DEF Iterates
    <3>3. g[i - 1] \in Int
      BY <1>0, <1>2, <3>1, SMTT(60) DEF Iterates
    <3> HIDE DEF N
    <3> QED BY <3>1, <3>2, <3>3
  <2> QED BY <1>2, <2>1 DEF Iterates
<1>4. f = [i \in 0 .. N |-> IF i = 0 THEN 0 ELSE f[i - 1] + ops[i]]
  BY <1>3 DEF f
<1>5. f = Sums(ops) /\ SumOf(ops) = f[N]
  BY DEF Sums, SumOf
<1> HIDE DEF f, step, N
<1>6. f[0] = 0
  BY <1>0, <1>4
<1>7. ASSUME NEW i \in 0 .. N - 1 PROVE f[i + 1] = f[i] + ops[i + 1]
  <2>1. i + 1 \in 0 .. N /\ i + 1 # 0 /\ (i + 1) - 1 = i
    BY <1>0
  <2>2. f[i + 1] = f[(i + 1) - 1] + ops[i + 1]
    BY <1>4, <2>1
  <2> QED BY <2>1, <2>2
<1> DEFINE T == {i \in 0 .. N : f[i] \in Int}
<1>8. 0 \in T
  BY <1>0, <1>6
<1>9. ASSUME NEW i \in 0 .. N - 1, i \in T PROVE i + 1 \in T
  <2>1. i + 1 \in 0 .. N /\ f[i] \in Int /\ ops[i + 1] \in Int
    BY <1>0, <1>9
  <2>2. f[i + 1] = f[i] + ops[i + 1]
    BY <1>7
  <2> QED BY <2>1, <2>2
<1> HIDE DEF T
<1>10. \A i \in 0 .. N : i \in T
  BY <1>0, <1>8, <1>9, UpTo
<1> QED BY <1>5, <1>6, <1>7, <1>10 DEF N, T

LEMMA NumberIs ==
  ASSUME NEW text \in [valid : BOOLEAN, n : Int], NEW lo \in Int, NEW hi \in Int,
         StrToNum(text, lo, hi).error = ""
  PROVE  text.n \in lo .. hi /\ StrToNum(text, lo, hi).value = text.n
BY DEF StrToNum

LEMMA CellsNone == \A b : Cells(b, 0) = <<>>
<1> TAKE b
<1>1. Cells(b, 0) \in Seq(CellsOf(b)) /\ Len(Cells(b, 0)) = 0
  BY CellsAre
<1> QED BY <1>1, EmptySeq

\* a step of another client, or of its connection
Same(d) ==
  /\ pc'[d] = pc[d] /\ idx'[d] = idx[d] /\ max'[d] = max[d] /\ operands'[d] = operands[d]
  /\ printed'[d] = printed[d] /\ args'[d] = args[d] /\ calls'[d] = calls[d]
  /\ conn'[d] = conn[d] /\ toServer'[d] = toServer[d] /\ toClient'[d] = toClient[d]
  /\ inbuf'[d] = inbuf[d]

LEMMA SameGood ==
  ASSUME NEW d \in Clients, Good(d), Same(d)
  PROVE  Good(d)'
<1>1. Request(d)' = Request(d) /\ Answer(d)' = Answer(d)
  BY DEF Same, Request, Answer
<1>2. Flow(d)'
  BY <1>1 DEF Same, Good, Flow, Idle, Asks, Told
<1>3. Right(d)'
  BY DEF Same, Good, Right
<1>4. (d \in SumClients => Adds(d))'
  BY DEF Same, Good, Adds
<1>5. (d \in BenchClients => Counts(d))'
  BY DEF Same, Good, Counts
<1> QED BY <1>2, <1>3, <1>4, <1>5 DEF Good

States    == {"start", "connecting", "calling", "waiting", "ended"}

\* what amp_call may do
LEMMA SendIs ==
  ASSUME Typed, NEW c \in Clients, NEW a, NEW b, Send(c, a, b)
  PROVE  /\ pc' \in [Clients -> States] /\ status' \in [Clients -> {"", "usage", "0", "1", "killed"}]
         /\ conn' \in [Clients -> {"none", "open"} \cup Broken] /\ DOMAIN toServer' = Clients
         /\ \A d \in Clients \ {c} : pc'[d] = pc[d] /\ conn'[d] = conn[d] /\ toServer'[d] = toServer[d]
         /\ \/ /\ pc'[c] = "waiting" /\ conn'[c] = "open"
               /\ toServer'[c] = toServer[c] \o Cells(<<a, b>>, RequestCells)
            \/ /\ pc'[c] \in {"waiting", "ended"} /\ conn'[c] \in Broken
               /\ toServer'[c] = toServer[c]
<1> USE DEF States, Broken
<1>0. DOMAIN pc = Clients /\ DOMAIN conn = Clients /\ DOMAIN toServer = Clients /\ DOMAIN status = Clients
  BY DEF Typed
<1>1. CASE conn[c] = "open"
  <2>1. /\ toServer' = [toServer EXCEPT ![c] = toServer[c] \o Cells(<<a, b>>, RequestCells)]
        /\ pc' = [pc EXCEPT ![c] = "waiting"] /\ conn' = conn /\ status' = status
    BY <1>1 DEF Send
  <2>2. pc' \in [Clients -> States] /\ conn' \in [Clients -> {"none", "open"} \cup Broken]
    BY <2>1 DEF Typed
  <2>3. status' \in [Clients -> {"", "usage", "0", "1", "killed"}]
    BY <2>1 DEF Typed
  <2>4. /\ DOMAIN toServer' = Clients
        /\ toServer'[c] = toServer[c] \o Cells(<<a, b>>, RequestCells)
        /\ \A d \in Clients \ {c} : toServer'[d] = toServer[d]
    BY <1>0, <2>1
  <2>5. pc'[c] = "waiting" /\ conn'[c] = "open"
        /\ \A d \in Clients \ {c} : pc'[d] = pc[d] /\ conn'[d] = conn[d]
    BY <1>0, <1>1, <2>1
  <2> QED BY <2>2, <2>3, <2>4, <2>5
<1>2. CASE conn[c] # "open"
  <2>1. toServer' = toServer /\ \E s \in {"eof", "reset"} : conn' = [conn EXCEPT ![c] = s]
    BY <1>2 DEF Send
  <2>2. \/ pc' = [pc EXCEPT ![c] = "waiting"] /\ status' = status
        \/ pc' = [pc EXCEPT ![c] = "ended"] /\ status' = [status EXCEPT ![c] = "killed"]
    BY <1>2 DEF Send, End
  <2>3. conn' \in [Clients -> {"none", "open"} \cup Broken] /\ conn'[c] \in Broken
        /\ \A d \in Clients \ {c} : conn'[d] = conn[d]
    <3>1. PICK s \in Broken : conn' = [conn EXCEPT ![c] = s]
      BY <2>1
    <3>2. conn'[c] \in Broken /\ \A d \in Clients \ {c} : conn'[d] = conn[d]
      BY <1>0, <3>1
    <3>3. conn \in [Clients -> {"none", "open"} \cup Broken]
      BY DEF Typed
    <3>4. conn' \in [Clients -> {"none", "open"} \cup Broken]
      BY <3>1, <3>3
    <3> QED BY <3>2, <3>4
  <2>4. pc' \in [Clients -> States] /\ pc'[c] \in {"waiting", "ended"}
        /\ \A d \in Clients \ {c} : pc'[d] = pc[d]
    BY <1>0, <2>2 DEF Typed
  <2>5. status' \in [Clients -> {"", "usage", "0", "1", "killed"}]
    BY <1>0, <2>2 DEF Typed
  <2> QED BY <1>0, <2>1, <2>3, <2>4, <2>5
<1> QED BY <1>1, <1>2

LEMMA SendFlow ==
  ASSUME Typed, NEW c \in Clients, NEW a, NEW b, Send(c, a, b),
         toServer[c] = <<>>, toClient'[c] = <<>>, inbuf'[c] = <<>>, Request(c)' = <<a, b>>
  PROVE  Flow(c)'
<1>1. RequestCells \in Nat /\ RequestCells \in 1 .. RequestCells
  BY SessionAssumption
<1>2. CASE /\ toServer'[c] = <<>> \o Cells(<<a, b>>, RequestCells)
           /\ pc'[c] = "waiting" /\ conn'[c] = "open"
  <2>1. <<>> \o Cells(<<a, b>>, RequestCells) = Cells(<<a, b>>, RequestCells)
    BY <1>1, CellsAre, ConcatEmptySeq
  <2> QED BY <1>1, <1>2, <2>1 DEF Flow, Asks
<1>3. CASE toServer'[c] = <<>> /\ pc'[c] \in {"waiting", "ended"} /\ conn'[c] \in Broken
  BY <1>3 DEF Flow, Idle, Broken
<1>4. \/ /\ pc'[c] = "waiting" /\ conn'[c] = "open"
         /\ toServer'[c] = toServer[c] \o Cells(<<a, b>>, RequestCells)
      \/ /\ pc'[c] \in {"waiting", "ended"} /\ conn'[c] \in Broken
         /\ toServer'[c] = toServer[c]
  BY SendIs, ZenonT(120)
<1> QED BY <1>2, <1>3, <1>4

\* what a call of recv finds
LEMMA ReplyIs ==
  ASSUME Typed, NEW c \in Clients, Flow(c), NEW n \in 1 .. ReadMax, Receive(c, n)
  PROVE  /\ pc[c] = "waiting" /\ Told(c) /\ DOMAIN toClient' = Clients
         /\ \A d \in Clients \ {c} : toClient'[d] = toClient[d]
         /\ \/ /\ Arrived(c, n) = <<>>
               /\ \E k \in 1 .. AnswerCells : toClient'[c] = Cells(Answer(c), k)
            \/ /\ Arrived(c, n) = << [box |-> Answer(c), last |-> TRUE] >>
               /\ toClient'[c] = <<>>
<1>0. n \in Nat /\ n >= 1 /\ AnswerCells \in Nat
  BY SessionAssumption
<1>1. pc[c] = "waiting" /\ n <= Len(toClient[c])
      /\ toClient' = [toClient EXCEPT ![c] = SubSeq(toClient[c], n + 1, Len(toClient[c]))]
  BY DEF Receive
<1>2. toClient[c] # <<>>
  BY <1>0, <1>1, EmptySeq
<1>3. Told(c)
  BY <1>2 DEF Flow, Idle, Asks
<1>4. PICK k \in 1 .. AnswerCells : toClient[c] = Cells(Answer(c), k)
  BY <1>3 DEF Told
<1>5. k \in Nat /\ k >= 1 /\ Len(Cells(Answer(c), k)) = k
  BY <1>0, <1>4, CellsAre
<1>6. n \in 0 .. k
  BY <1>0, <1>1, <1>4, <1>5
<1>7. DOMAIN toClient' = Clients /\ \A d \in Clients \ {c} : toClient'[d] = toClient[d]
  BY <1>1 DEF Typed
<1>8. toClient'[c] = Cells(Answer(c), k - n)
  <2>1. toClient'[c] = SubSeq(toClient[c], n + 1, Len(toClient[c]))
    BY <1>1 DEF Typed
  <2> QED BY <1>4, <1>5, <1>6, <2>1, ReadRest
<1>9. Arrived(c, n) = IF n = k THEN << [box |-> Answer(c), last |-> TRUE] >> ELSE <<>>
  BY <1>4, <1>5, <1>6, PartHas DEF Arrived
<1>10. CASE n = k
  <2>1. k - n = 0
    BY <1>5, <1>10
  <2> QED BY <1>1, <1>3, <1>7, <1>8, <1>9, <1>10, <2>1, CellsNone
<1>11. CASE n # k
  <2>1. k - n \in 1 .. AnswerCells
    BY <1>0, <1>4, <1>6, <1>11
  <2> QED BY <1>1, <1>3, <1>7, <1>8, <1>9, <1>11, <2>1
<1> QED BY <1>10, <1>11

\* the sum of a waiting sumclient so far, with the operand it has sent
LEMMA SumTotal ==
  ASSUME Typed, NEW c \in SumClients, pc[c] = "waiting", Adds(c)
  PROVE  /\ Answer(c)[1] = Wrapped(Sums(args[c])[idx[c] + 1], LLONG_MAX)
         /\ Answer(c)[1] \in LongLong
<1>1. args[c] \in Seq(Int) /\ c \in Clients
  BY DEF Typed, Clients
<1>2. PICK i \in Nat, m \in Nat : i = idx[c] /\ m = max[c] /\ 1 <= i /\ i <= m
  <2>1. idx[c] \in Int /\ max[c] \in Int
    BY <1>1 DEF Typed
  <2> QED BY <2>1 DEF Adds
<1>3. /\ operands[c][i] = Wrapped(Sums(args[c])[i], LLONG_MAX)
      /\ operands[c][i + 1] = args[c][i + 1] /\ Len(args[c]) = m + 1
  <2>1. i + 1 \in i + 1 .. m + 1
    BY <1>2
  <2>2. \A j \in i + 1 .. m + 1 : operands[c][j] = args[c][j]
    BY <1>2 DEF Adds
  <2>3. operands[c][i] = Wrapped(Sums(args[c])[i], LLONG_MAX) /\ Len(args[c]) = m + 1
    BY <1>2 DEF Adds
  <2> QED BY <2>1, <2>2, <2>3
<1>4. i + 1 \in 1 .. Len(args[c]) /\ i \in 0 .. Len(args[c]) - 1 /\ i \in 0 .. Len(args[c])
      /\ i + 1 \in 0 .. Len(args[c])
  BY <1>2, <1>3, SMTT(60)
<1>5. PICK a \in Int : a = args[c][i + 1]
  BY <1>1, <1>4, ElementOfSeq
<1>6. PICK s \in Int : s = Sums(args[c])[i]
  BY <1>1, <1>4, SumsAre
<1>7. Sums(args[c])[i + 1] = s + a
  BY <1>1, <1>4, <1>5, <1>6, SumsAre
<1>8. LLONG_MAX \in Nat
  BY SessionAssumption
<1>9. Answer(c)[1] = Wrapped(Wrapped(s, LLONG_MAX) + a, LLONG_MAX)
  BY <1>2, <1>3, <1>5, <1>6 DEF Answer, Request
<1>10. Wrapped(Wrapped(s, LLONG_MAX) + a, LLONG_MAX) = Wrapped(s + a, LLONG_MAX)
  BY <1>8, WrappedAdd
<1>11. Wrapped(s + a, LLONG_MAX) \in LongLong
  <2>1. s + a \in Int
    OBVIOUS
  <2> QED BY <1>8, <2>1, WrappedIs DEF LongLong, LLONG_MIN
<1> QED BY <1>2, <1>7, <1>9, <1>10, <1>11

\* do_sum_call of sumclient
LEMMA SumCallIs ==
  ASSUME Typed, NEW c \in SumClients, NEW ops \in Seq(LongLong), SumCall(c, ops),
         idx[c] >= 0, idx[c] < max[c], max[c] < MAX_OPERANDS, Len(ops) = max[c] + 1,
         Len(args[c]) = max[c] + 1, calls'[c] = idx[c], UNCHANGED <<max, args>>,
         ops[idx[c] + 1] = Wrapped(Sums(args[c])[idx[c] + 1], LLONG_MAX),
         \A j \in idx[c] + 2 .. max[c] + 1 : ops[j] = args[c][j]
  PROVE  /\ Adds(c)' /\ Request(c)' = << ops[idx[c] + 1], ops[idx[c] + 2] >>
         /\ idx' \in [Clients -> Int] /\ operands' \in [Clients -> Seq(LongLong)]
         /\ \A d \in Clients \ {c} : idx'[d] = idx[d] /\ operands'[d] = operands[d]
<1>0. c \in Clients /\ DOMAIN idx = Clients /\ DOMAIN operands = Clients
  BY DEF Typed, Clients
<1>1. idx' = [idx EXCEPT ![c] = idx[c] + 1] /\ operands' = [operands EXCEPT ![c] = ops]
      /\ Send(c, ops[idx[c] + 1], ops[idx[c] + 2])
  BY DEF SumCall
<1>2. PICK i \in Nat, m \in Nat : i = idx[c] /\ m = max[c] /\ i < m
  <2>1. idx[c] \in Int /\ max[c] \in Int
    BY <1>0 DEF Typed
  <2> QED BY <2>1
<1>3. idx' \in [Clients -> Int] /\ operands' \in [Clients -> Seq(LongLong)]
  <2>1. idx \in [Clients -> Int] /\ idx[c] + 1 \in Int
    <3>1. idx \in [Clients -> Int]
      BY DEF Typed
    <3>2. idx[c] + 1 \in Int
      BY <1>2
    <3> QED BY <3>1, <3>2
  <2>2. operands \in [Clients -> Seq(LongLong)]
    BY DEF Typed
  <2>3. idx' \in [Clients -> Int]
    BY <1>1, <2>1
  <2>4. operands' \in [Clients -> Seq(LongLong)]
    BY <1>1, <2>2
  <2> QED BY <2>3, <2>4
<1>4. idx'[c] = i + 1 /\ operands'[c] = ops /\ max'[c] = m /\ args'[c] = args[c]
  BY <1>0, <1>1, <1>2
<1>5. \A d \in Clients \ {c} : idx'[d] = idx[d] /\ operands'[d] = operands[d]
  BY <1>0, <1>1
<1>6. pc'[c] \in {"waiting", "ended"}
  BY <1>0, <1>1, SendIs
<1>7. Request(c)' = << ops[idx[c] + 1], ops[idx[c] + 2] >>
  <2>1. Request(c)' = << operands'[c][idx'[c]], operands'[c][idx'[c] + 1] >>
    BY DEF Request
  <2>2. (i + 1) + 1 = i + 2
    OBVIOUS
  <2> QED BY <1>2, <1>4, <2>1, <2>2
<1>8. MAX_OPERANDS \in Nat
  BY SessionAssumption
<1>9. \A j \in (i + 1) + 1 .. m + 1 : ops[j] = args[c][j]
  BY <1>2
<1>10. Adds(c)'
  <2>1. /\ i + 1 \in 0 .. m /\ m < MAX_OPERANDS /\ Len(ops) <= MAX_OPERANDS /\ m >= 1
        /\ Len(ops) = m + 1 /\ Len(args[c]) = m + 1 /\ i + 1 >= 1 /\ calls'[c] = (i + 1) - 1
    BY <1>2, <1>8, SMTT(60)
  <2>2. ops[i + 1] = Wrapped(Sums(args[c])[i + 1], LLONG_MAX)
    BY <1>2
  <2> QED BY <1>4, <1>6, <1>9, <2>1, <2>2 DEF Adds
<1> QED BY <1>3, <1>5, <1>7, <1>10

-----------------------------------------------------------------------------
(* The actions, one lemma each *)

Moved(c) == Typed' /\ Good(c)' /\ \A d \in Clients \ {c} : Same(d)

\* a client that has not connected has nothing under way, and printed nothing
LEMMA Unconnected ==
  ASSUME Typed, NEW c \in Clients, Good(c), pc[c] \in {"start", "connecting"}
  PROVE  conn[c] = "none" /\ Idle(c) /\ inbuf[c] = <<>> /\ printed[c] = <<>>
<1>1. conn[c] = "none" /\ inbuf[c] = <<>>
  BY DEF Good, Flow
<1>2. printed[c] = <<>>
  BY DEF Good, Right
<1>3. ~Asks(c) /\ ~Told(c)
  BY <1>1 DEF Asks, Told
<1> QED BY <1>1, <1>2, <1>3 DEF Good, Flow

LEMMA SumMainMoves ==
  ASSUME Typed, NEW c \in SumClients, Good(c), NEW ops \in SumArgs, NEW hp, SumMain(c, ops, hp)
  PROVE  Moved(c)
<1>0. c \in Clients /\ c \notin BenchClients /\ pc[c] = "start"
  BY SessionAssumption DEF Clients, SumMain
<1>1. conn[c] = "none" /\ Idle(c) /\ inbuf[c] = <<>> /\ printed[c] = <<>>
  BY <1>0, Unconnected
<1>2. UNCHANGED <<idx, printed, calls, conn, toServer, toClient, inbuf, bev, server>>
  BY DEF SumMain, netVars
<1>3. Adds(c) /\ idx[c] = 0 /\ calls[c] = 0
  BY <1>0 DEF Good, Adds
<1>4. ops \in Seq([valid : BOOLEAN, n : Int])
  BY SessionAssumption
<1>5. CASE SumArgsOK(ops, hp)
  <2>1. PICK m \in Nat : m = Len(ops) - 1 /\ m >= 1 /\ m < MAX_OPERANDS /\ Len(ops) = m + 1
    <3>1. Len(ops) \in Nat /\ Len(ops) >= 2 /\ Len(ops) - 1 < MAX_OPERANDS
      BY <1>4, <1>5, LenProperties DEF SumArgsOK
    <3> QED BY <3>1
  <2> DEFINE nums == [i \in 1 .. Len(ops) |-> ops[i].n]
  <2>2. nums \in Seq(LongLong) /\ Len(nums) = m + 1
    <3>1. ASSUME NEW i \in 1 .. Len(ops) PROVE ops[i].n \in LongLong
      <4>1. StrToNum(ops[i], LLONG_MIN, LLONG_MAX).error = ""
        BY <1>5 DEF SumArgsOK
      <4>2. ops[i] \in [valid : BOOLEAN, n : Int]
        BY <1>4, ElementOfSeq
      <4>3. LLONG_MIN \in Int /\ LLONG_MAX \in Int
        BY SessionAssumption DEF LLONG_MIN
      <4> QED BY <4>1, <4>2, <4>3, NumberIs DEF LongLong
    <3>2. m + 1 \in Nat /\ nums \in [1 .. m + 1 -> LongLong]
      BY <2>1, <3>1
    <3> HIDE DEF nums
    <3> QED BY <3>2, SeqOf
  <2>3. nums \in Seq(Int)
    <3>1. LongLong \subseteq Int
      BY SessionAssumption DEF LongLong, LLONG_MIN
    <3>2. \A i \in 1 .. m + 1 : nums[i] \in Int
      <4> HIDE DEF nums
      <4>1. \A i \in 1 .. Len(nums) : nums[i] \in LongLong
        BY <2>2, ElementOfSeq
      <4> QED BY <2>2, <3>1, <4>1
    <3>3. m + 1 \in Nat /\ nums \in [1 .. m + 1 -> Int]
      BY <2>1, <3>2
    <3> HIDE DEF nums
    <3> QED BY <3>3, SeqOf
  <2>4. /\ pc' = [pc EXCEPT ![c] = "connecting"] /\ max' = [max EXCEPT ![c] = m]
        /\ operands' = [operands EXCEPT ![c] = nums] /\ args' = [args EXCEPT ![c] = operands'[c]]
        /\ status' = status
    BY <1>5, <2>1 DEF SumMain
  <2> HIDE DEF nums
  <2>5. DOMAIN pc = Clients /\ DOMAIN max = Clients /\ DOMAIN operands = Clients
        /\ DOMAIN args = Clients
    BY DEF Typed
  <2>6. /\ pc'[c] = "connecting" /\ max'[c] = m /\ operands'[c] = nums /\ args'[c] = nums
        /\ args' = [args EXCEPT ![c] = nums]
    BY <1>0, <2>4, <2>5
  <2>7. \A d \in Clients \ {c} : Same(d)
    BY <1>2, <2>4, <2>5 DEF Same
  <2>8. Typed'
    <3>1. max \in [Clients -> Int] /\ operands \in [Clients -> Seq(LongLong)] /\ args \in [Clients -> Seq(Int)]
      BY DEF Typed
    <3>2. max' \in [Clients -> Int]
      <4>1. m \in Int
        BY <2>1
      <4> QED BY <2>4, <3>1, <4>1
    <3>3. operands' \in [Clients -> Seq(LongLong)]
      BY <2>2, <2>4, <3>1
    <3>4. args' \in [Clients -> Seq(Int)]
      BY <2>3, <2>6, <3>1
    <3>5. pc' \in [Clients -> {"start", "connecting", "calling", "waiting", "ended"}]
      BY <2>4 DEF Typed
    <3> QED BY <1>2, <2>4, <3>2, <3>3, <3>4, <3>5 DEF Typed
  <2>9. Flow(c)'
    BY <1>1, <1>2, <2>6 DEF Flow, Idle
  <2>10. Right(c)'
    BY <1>1, <1>2, <2>6 DEF Right
  <2>11. Adds(c)'
    <3>1. 0 \in 0 .. m /\ m < MAX_OPERANDS /\ m + 1 <= MAX_OPERANDS
      BY <2>1, SessionAssumption
    <3> QED BY <1>2, <1>3, <2>1, <2>2, <2>6, <3>1 DEF Adds
  <2> QED BY <1>0, <2>7, <2>8, <2>9, <2>10, <2>11 DEF Moved, Good
<1>6. CASE ~SumArgsOK(ops, hp)
  <2>1. /\ pc' = [pc EXCEPT ![c] = "ended"] /\ status' = [status EXCEPT ![c] = "usage"]
        /\ UNCHANGED <<max, operands, args>>
    BY <1>6 DEF SumMain, End
  <2>2. pc'[c] = "ended" /\ \A d \in Clients \ {c} : pc'[d] = pc[d]
    BY <1>0, <2>1 DEF Typed
  <2>3. \A d \in Clients \ {c} : Same(d)
    BY <1>2, <2>1, <2>2 DEF Same
  <2>4. Typed'
    <3>1. pc' \in [Clients -> {"start", "connecting", "calling", "waiting", "ended"}]
      BY <2>1 DEF Typed
    <3>2. status' \in [Clients -> {"", "usage", "0", "1", "killed"}]
      BY <2>1 DEF Typed
    <3> QED BY <1>2, <2>1, <3>1, <3>2 DEF Typed
  <2>5. Flow(c)'
    BY <1>1, <1>2, <2>2 DEF Flow, Idle
  <2>6. Right(c)'
    BY <1>1, <1>2, <2>2 DEF Right
  <2>7. Adds(c)'
    BY <1>2, <1>3, <2>1, <2>2 DEF Adds
  <2> QED BY <1>0, <2>3, <2>4, <2>5, <2>6, <2>7 DEF Moved, Good
<1> QED BY <1>5, <1>6

LEMMA BenchMainMoves ==
  ASSUME Typed, NEW c \in BenchClients, Good(c), NEW count \in CountArgs, NEW hp,
         BenchMain(c, count, hp)
  PROVE  Moved(c)
<1>0. c \in Clients /\ c \notin SumClients /\ pc[c] = "start"
  BY SessionAssumption DEF Clients, BenchMain
<1>1. conn[c] = "none" /\ Idle(c) /\ inbuf[c] = <<>> /\ printed[c] = <<>>
  BY <1>0, Unconnected
<1>2. UNCHANGED <<idx, operands, printed, calls, conn, toServer, toClient, inbuf, bev, server>>
  BY DEF BenchMain, netVars
<1>3. Counts(c) /\ idx[c] = 0 /\ calls[c] = 0
  BY <1>0 DEF Good, Counts
<1>4. DOMAIN pc = Clients /\ DOMAIN max = Clients /\ DOMAIN args = Clients
  BY DEF Typed
<1>5. INT_MAX \in Nat /\ LLONG_MAX \in Nat /\ count \in [valid : BOOLEAN, n : Int]
  BY SessionAssumption
<1>6. CASE ParseHostPort(hp) = 0 /\ StrToNum(count, 0, LLONG_MAX).error = ""
  <2>1. PICK n \in Nat : n = StrToNum(count, 0, LLONG_MAX).value
    <3>1. 0 \in Int /\ LLONG_MAX \in Int
      BY <1>5
    <3>2. count.n \in 0 .. LLONG_MAX /\ StrToNum(count, 0, LLONG_MAX).value = count.n
      BY <1>5, <1>6, <3>1, NumberIs
    <3> QED BY <1>5, <3>2
  <2>2. PICK m \in -INT_MAX - 1 .. INT_MAX : m = Wrapped(n, INT_MAX)
    <3>1. n \in Int
      BY <2>1
    <3> QED BY <1>5, <3>1, WrappedIs
  <2>3. n \in 1 .. INT_MAX => m = n
    <3>1. n \in 1 .. INT_MAX => n \in -INT_MAX - 1 .. INT_MAX
      BY <1>5
    <3> QED BY <1>5, <2>2, <3>1, WrappedSame
  <2>4. /\ pc' = [pc EXCEPT ![c] = "connecting"] /\ max' = [max EXCEPT ![c] = m]
        /\ args' = [args EXCEPT ![c] = << n >>] /\ status' = status
    BY <1>6, <2>1, <2>2 DEF BenchMain
  <2>5. pc'[c] = "connecting" /\ max'[c] = m /\ args'[c] = << n >>
    BY <1>0, <1>4, <2>4
  <2>6. \A d \in Clients \ {c} : Same(d)
    BY <1>2, <1>4, <2>4 DEF Same
  <2>7. Typed'
    <3>1. max \in [Clients -> Int] /\ args \in [Clients -> Seq(Int)]
      BY DEF Typed
    <3>2. max' \in [Clients -> Int]
      <4>1. m \in Int
        BY <1>5
      <4> QED BY <2>4, <3>1, <4>1
    <3>3. args' \in [Clients -> Seq(Int)]
      <4>1. << n >> \in Seq(Int)
        OBVIOUS
      <4> QED BY <2>4, <3>1, <4>1
    <3>4. pc' \in [Clients -> {"start", "connecting", "calling", "waiting", "ended"}]
      BY <2>4 DEF Typed
    <3> QED BY <1>2, <2>4, <3>2, <3>3, <3>4 DEF Typed
  <2>8. Flow(c)'
    BY <1>1, <1>2, <2>5 DEF Flow, Idle
  <2>9. Right(c)'
    BY <1>1, <1>2, <2>5 DEF Right
  <2>10. Counts(c)'
    <3>1. Len(<< n >>) = 1 /\ << n >>[1] = n /\ (n \in 1 .. INT_MAX => 0 < n)
      OBVIOUS
    <3> QED BY <1>2, <1>3, <1>5, <2>2, <2>3, <2>5, <3>1 DEF Counts
  <2> QED BY <1>0, <2>6, <2>7, <2>8, <2>9, <2>10 DEF Moved, Good
<1>7. CASE ~(ParseHostPort(hp) = 0 /\ StrToNum(count, 0, LLONG_MAX).error = "")
  <2>1. /\ pc' = [pc EXCEPT ![c] = "ended"] /\ status' = [status EXCEPT ![c] = "usage"]
        /\ UNCHANGED <<max, args>>
    BY <1>7 DEF BenchMain, End
  <2>2. pc'[c] = "ended" /\ \A d \in Clients \ {c} : pc'[d] = pc[d]
    BY <1>0, <2>1 DEF Typed
  <2>3. \A d \in Clients \ {c} : Same(d)
    BY <1>2, <2>1, <2>2 DEF Same
  <2>4. Typed'
    <3>1. pc' \in [Clients -> {"start", "connecting", "calling", "waiting", "ended"}]
      BY <2>1 DEF Typed
    <3>2. status' \in [Clients -> {"", "usage", "0", "1", "killed"}]
      BY <2>1 DEF Typed
    <3> QED BY <1>2, <2>1, <3>1, <3>2 DEF Typed
  <2>5. Flow(c)'
    BY <1>1, <1>2, <2>2 DEF Flow, Idle
  <2>6. Right(c)'
    BY <1>1, <1>2, <2>2 DEF Right
  <2>7. Counts(c)'
    BY <1>2, <1>3, <2>1, <2>2 DEF Counts
  <2> QED BY <1>0, <2>3, <2>4, <2>5, <2>6, <2>7 DEF Moved, Good
<1> QED BY <1>6, <1>7

LEMMA ConnectMoves ==
  ASSUME Typed, NEW c \in Clients, Good(c), Connect(c)
  PROVE  Moved(c)
<1>0. pc[c] = "connecting"
  BY DEF Connect
<1>1. conn[c] = "none" /\ Idle(c) /\ inbuf[c] = <<>> /\ printed[c] = <<>>
  BY <1>0, Unconnected
<1>2. UNCHANGED <<idx, max, operands, printed, args, calls, toServer, toClient, inbuf, bev, server>>
  BY DEF Connect
<1>3. \/ /\ pc' = [pc EXCEPT ![c] = "calling"] /\ conn' = [conn EXCEPT ![c] = "open"]
         /\ status' = status
      \/ /\ pc' = [pc EXCEPT ![c] = "ended"] /\ status' = [status EXCEPT ![c] = "1"]
         /\ conn' = conn
  BY DEF Connect, End
<1>4. DOMAIN pc = Clients /\ DOMAIN conn = Clients
  BY DEF Typed
<1>5. \/ pc'[c] = "calling" /\ conn'[c] = "open"
      \/ pc'[c] = "ended" /\ conn'[c] = "none"
  BY <1>1, <1>3, <1>4
<1>6. \A d \in Clients \ {c} : pc'[d] = pc[d] /\ conn'[d] = conn[d]
  BY <1>3, <1>4
<1>7. Typed'
  <2>1. pc' \in [Clients -> {"start", "connecting", "calling", "waiting", "ended"}]
    BY <1>3 DEF Typed
  <2>2. status' \in [Clients -> {"", "usage", "0", "1", "killed"}]
    BY <1>3 DEF Typed
  <2>3. conn' \in [Clients -> {"none", "open"} \cup Broken]
    BY <1>3 DEF Typed, Broken
  <2> QED BY <1>2, <2>1, <2>2, <2>3 DEF Typed
<1>8. Flow(c)'
  BY <1>1, <1>2, <1>5 DEF Flow, Idle
<1>9. Right(c)'
  BY <1>1, <1>2, <1>5 DEF Right
<1>10. (c \in SumClients => Adds(c))'
  BY <1>0, <1>2, <1>5 DEF Good, Adds
<1>11. (c \in BenchClients => Counts(c))'
  BY <1>0, <1>2, <1>5 DEF Good, Counts
<1>12. \A d \in Clients \ {c} : Same(d)
  BY <1>2, <1>6 DEF Same
<1> QED BY <1>7, <1>8, <1>9, <1>10, <1>11, <1>12 DEF Moved, Good

LEMMA FirstSumMoves ==
  ASSUME Typed, NEW c \in Clients, Good(c), FirstSum(c)
  PROVE  Moved(c)
<1>0. c \in SumClients /\ c \notin BenchClients /\ pc[c] = "calling"
  BY SessionAssumption DEF FirstSum
<1>1. UNCHANGED <<max, printed, args, calls, toClient, inbuf, bev, server>>
  BY DEF FirstSum
<1>2. SumCall(c, operands[c]) /\ Send(c, operands[c][idx[c] + 1], operands[c][idx[c] + 2])
  BY DEF FirstSum, SumCall
<1>3. Flow(c) /\ Adds(c) /\ printed[c] = <<>>
  BY <1>0 DEF Good, Right
<1>4. toServer[c] = <<>> /\ toClient[c] = <<>> /\ inbuf[c] = <<>>
  BY <1>0, <1>3 DEF Flow, Idle, Asks, Told
<1>5. /\ idx[c] = 0 /\ calls[c] = 0 /\ max[c] >= 1 /\ max[c] < MAX_OPERANDS
      /\ Len(operands[c]) = max[c] + 1 /\ Len(args[c]) = max[c] + 1 /\ operands[c] = args[c]
  BY <1>0, <1>3 DEF Adds
<1>6. PICK m \in Nat : m = max[c] /\ m >= 1
  <2>1. max[c] \in Int
    BY DEF Typed
  <2> QED BY <1>5, <2>1
<1>7. PICK ops \in Seq(LongLong) : ops = operands[c] /\ Len(ops) = m + 1
  BY <1>5, <1>6 DEF Typed
<1>8. args[c] \in Seq(Int)
  BY DEF Typed
<1>9. ops[0 + 1] = Wrapped(Sums(args[c])[0 + 1], LLONG_MAX)
  <2>1. 1 \in 1 .. Len(ops) /\ 0 + 1 = 1 /\ 0 \in 0 .. Len(args[c]) - 1
    BY <1>5, <1>6, <1>7
  <2>2. PICK a \in LongLong : a = ops[1]
    BY <2>1, ElementOfSeq
  <2>3. Sums(args[c])[0 + 1] = Sums(args[c])[0] + args[c][0 + 1] /\ Sums(args[c])[0] = 0
    BY <1>8, <2>1, SumsAre
  <2>4. a \in Int /\ LLONG_MAX \in Nat
    BY SessionAssumption DEF LongLong, LLONG_MIN
  <2>5. Sums(args[c])[0 + 1] = a
    BY <1>5, <1>7, <2>1, <2>2, <2>3, <2>4
  <2>6. a \in -LLONG_MAX - 1 .. LLONG_MAX
    BY <2>2 DEF LongLong, LLONG_MIN
  <2>7. Wrapped(a, LLONG_MAX) = a
    BY <2>4, <2>6, WrappedSame
  <2> QED BY <2>1, <2>2, <2>5, <2>7
<1>10. /\ SumCall(c, ops) /\ idx[c] >= 0 /\ idx[c] < max[c] /\ max[c] < MAX_OPERANDS
       /\ Len(ops) = max[c] + 1 /\ Len(args[c]) = max[c] + 1 /\ calls'[c] = idx[c]
       /\ UNCHANGED <<max, args>>
       /\ ops[idx[c] + 1] = Wrapped(Sums(args[c])[idx[c] + 1], LLONG_MAX)
  BY <1>1, <1>2, <1>5, <1>6, <1>7, <1>9
<1>11. \A j \in idx[c] + 2 .. max[c] + 1 : ops[j] = args[c][j]
  BY <1>5, <1>7
<1>12. /\ Adds(c)' /\ Request(c)' = << ops[idx[c] + 1], ops[idx[c] + 2] >>
       /\ idx' \in [Clients -> Int] /\ operands' \in [Clients -> Seq(LongLong)]
       /\ \A d \in Clients \ {c} : idx'[d] = idx[d] /\ operands'[d] = operands[d]
  BY <1>0, <1>10, <1>11, SumCallIs
<1>13. /\ pc' \in [Clients -> States] /\ status' \in [Clients -> {"", "usage", "0", "1", "killed"}]
       /\ conn' \in [Clients -> {"none", "open"} \cup Broken] /\ DOMAIN toServer' = Clients
       /\ \A d \in Clients \ {c} : pc'[d] = pc[d] /\ conn'[d] = conn[d] /\ toServer'[d] = toServer[d]
       /\ pc'[c] = "ended" => conn'[c] \in Broken
  BY <1>2, SendIs
<1>14. Typed'
  BY <1>1, <1>12, <1>13 DEF Typed, States
<1>15. Flow(c)'
  <2>1. toClient'[c] = <<>> /\ inbuf'[c] = <<>> /\ Request(c)' = << operands[c][idx[c] + 1], operands[c][idx[c] + 2] >>
    BY <1>1, <1>4, <1>7, <1>12
  <2> QED BY <1>2, <1>4, <2>1, SendFlow
<1>16. Right(c)'
  BY <1>1, <1>3, <1>13 DEF Right, Broken
<1>17. \A d \in Clients \ {c} : Same(d)
  BY <1>1, <1>12, <1>13 DEF Same
<1> QED BY <1>0, <1>12, <1>14, <1>15, <1>16, <1>17 DEF Moved, Good

LEMMA FirstBenchMoves ==
  ASSUME Typed, NEW c \in Clients, Good(c), FirstBench(c)
  PROVE  Moved(c)
<1>0. c \in BenchClients /\ c \notin SumClients /\ pc[c] = "calling"
  BY SessionAssumption DEF FirstBench
<1>1. UNCHANGED <<idx, max, operands, printed, args, calls, toClient, inbuf, bev, server>>
  BY DEF FirstBench
<1>2. Send(c, 5, 7)
  BY DEF FirstBench, BenchCall
<1>3. Flow(c) /\ Counts(c) /\ printed[c] = <<>>
  BY <1>0 DEF Good, Right
<1>4. toServer[c] = <<>> /\ toClient[c] = <<>> /\ inbuf[c] = <<>>
  BY <1>0, <1>3 DEF Flow, Idle, Asks, Told
<1>5. /\ pc' \in [Clients -> States] /\ status' \in [Clients -> {"", "usage", "0", "1", "killed"}]
      /\ conn' \in [Clients -> {"none", "open"} \cup Broken] /\ DOMAIN toServer' = Clients
      /\ \A d \in Clients \ {c} : pc'[d] = pc[d] /\ conn'[d] = conn[d] /\ toServer'[d] = toServer[d]
      /\ pc'[c] \in {"waiting", "ended"} /\ (pc'[c] = "ended" => conn'[c] \in Broken)
  BY <1>2, SendIs
<1>6. Typed'
  BY <1>1, <1>5 DEF Typed, States
<1>7. Flow(c)'
  <2>1. toClient'[c] = <<>> /\ inbuf'[c] = <<>> /\ Request(c)' = << 5, 7 >>
    BY <1>0, <1>1, <1>4 DEF Request
  <2> QED BY <1>2, <1>4, <2>1, SendFlow
<1>8. Right(c)'
  BY <1>1, <1>3, <1>5 DEF Right, Broken
<1>9. Counts(c)'
  BY <1>0, <1>1, <1>3, <1>5 DEF Counts
<1>10. \A d \in Clients \ {c} : Same(d)
  BY <1>1, <1>5 DEF Same
<1> QED BY <1>0, <1>6, <1>7, <1>8, <1>9, <1>10 DEF Moved, Good

LEMMA RecvPartMoves ==
  ASSUME Typed, NEW c \in Clients, Good(c), NEW n \in 1 .. ReadMax, RecvPart(c, n)
  PROVE  Moved(c)
<1>1. Receive(c, n) /\ Arrived(c, n) = <<>> /\ Flow(c)
  BY DEF RecvPart, Good
<1>2. UNCHANGED <<pc, status, idx, max, operands, printed, args, calls, conn, toServer, inbuf, bev, server>>
  BY DEF RecvPart, clientVars
<1>3. /\ pc[c] = "waiting" /\ Told(c) /\ DOMAIN toClient' = Clients
      /\ \A d \in Clients \ {c} : toClient'[d] = toClient[d]
      /\ \E k \in 1 .. AnswerCells : toClient'[c] = Cells(Answer(c), k)
  <2>1. << [box |-> Answer(c), last |-> TRUE] >> # <<>>
    OBVIOUS
  <2> QED BY <1>1, <2>1, ReplyIs
<1>4. Typed'
  BY <1>2, <1>3 DEF Typed
<1>5. Answer(c)' = Answer(c)
  BY <1>2 DEF Answer, Request
<1>6. Flow(c)'
  BY <1>1, <1>2, <1>3, <1>5 DEF Flow, Told
<1>7. Right(c)'
  BY <1>2 DEF Good, Right
<1>8. (c \in SumClients => Adds(c))'
  BY <1>2 DEF Good, Adds
<1>9. (c \in BenchClients => Counts(c))'
  BY <1>2 DEF Good, Counts
<1>10. \A d \in Clients \ {c} : Same(d)
  BY <1>2, <1>3 DEF Same
<1> QED BY <1>4, <1>6, <1>7, <1>8, <1>9, <1>10 DEF Moved, Good

LEMMA SumReplyMoves ==
  ASSUME Typed, NEW c \in Clients, Good(c), NEW n \in 1 .. ReadMax, SumReply(c, n)
  PROVE  Moved(c)
<1>0. c \in SumClients /\ c \notin BenchClients
  BY SessionAssumption DEF SumReply
<1>1. Receive(c, n) /\ Arrived(c, n) # <<>> /\ Flow(c) /\ Adds(c)
  BY <1>0 DEF SumReply, Good
<1>2. UNCHANGED <<max, args, inbuf, bev, server>> /\ calls' = [calls EXCEPT ![c] = calls[c] + 1]
  BY DEF SumReply
<1>3. /\ pc[c] = "waiting" /\ Told(c) /\ DOMAIN toClient' = Clients
      /\ \A d \in Clients \ {c} : toClient'[d] = toClient[d]
      /\ Arrived(c, n) = << [box |-> Answer(c), last |-> TRUE] >> /\ toClient'[c] = <<>>
  BY <1>1, ReplyIs
<1>4. toServer[c] = <<>> /\ inbuf[c] = <<>> /\ printed[c] = <<>>
  BY <1>1, <1>3 DEF Told, Flow, Good, Right
<1>5. PICK total \in LongLong : /\ total = Answer(c)[1]
                                /\ total = Wrapped(Sums(args[c])[idx[c] + 1], LLONG_MAX)
  BY <1>0, <1>1, <1>3, SumTotal
<1>6. Arrived(c, n)[1].box[1] = total
  <2>1. << [box |-> Answer(c), last |-> TRUE] >>[1].box = Answer(c)
    OBVIOUS
  <2> QED BY <1>3, <1>5, <2>1
<1>7. PICK i \in Nat, m \in Nat : i = idx[c] /\ m = max[c] /\ 1 <= i /\ i <= m /\ m < MAX_OPERANDS
  <2>1. idx[c] \in Int /\ max[c] \in Int
    BY DEF Typed
  <2> QED BY <1>1, <1>3, <2>1 DEF Adds
<1>8. /\ Len(operands[c]) = m + 1 /\ Len(args[c]) = m + 1 /\ calls[c] = i - 1
      /\ \A j \in i + 1 .. m + 1 : operands[c][j] = args[c][j]
  BY <1>1, <1>3, <1>7 DEF Adds
<1>9. calls' \in [Clients -> Nat] /\ calls'[c] = i /\ \A d \in Clients \ {c} : calls'[d] = calls[d]
  <2>1. calls \in [Clients -> Nat] /\ calls[c] + 1 \in Nat
    <3>1. calls \in [Clients -> Nat]
      BY DEF Typed
    <3>2. PICK k \in Nat : k = calls[c]
      BY <3>1
    <3>3. k + 1 \in Nat
      OBVIOUS
    <3> QED BY <3>1, <3>2, <3>3
  <2>2. calls'[c] = calls[c] + 1
    BY <1>2, <2>1
  <2>3. calls'[c] = i
    BY <1>7, <1>8, <2>2
  <2> QED BY <1>2, <2>1, <2>3
<1>10. CASE i = m
  <2>1. /\ printed' = [printed EXCEPT ![c] = << total >>] /\ pc' = [pc EXCEPT ![c] = "ended"]
        /\ status' = [status EXCEPT ![c] = "0"] /\ UNCHANGED <<idx, operands, conn, toServer>>
    BY <1>6, <1>7, <1>10 DEF SumReply, Finish, End
  <2>2. printed'[c] = << total >> /\ pc'[c] = "ended"
        /\ \A d \in Clients \ {c} : printed'[d] = printed[d] /\ pc'[d] = pc[d]
    BY <2>1 DEF Typed
  <2>3. Typed'
    <3>1. printed' \in [Clients -> Seq(Int)]
      <4>1. total \in Int
        BY SessionAssumption DEF LongLong, LLONG_MIN
      <4>2. << total >> \in Seq(Int)
        BY <4>1
      <4>3. printed \in [Clients -> Seq(Int)]
        BY DEF Typed
      <4> QED BY <2>1, <4>2, <4>3
    <3>2. pc' \in [Clients -> {"start", "connecting", "calling", "waiting", "ended"}]
      BY <2>1 DEF Typed
    <3>3. status' \in [Clients -> {"", "usage", "0", "1", "killed"}]
      BY <2>1 DEF Typed
    <3> QED BY <1>2, <1>3, <1>9, <2>1, <3>1, <3>2, <3>3 DEF Typed
  <2>4. Flow(c)'
    BY <1>2, <1>3, <1>4, <2>1, <2>2 DEF Flow, Idle
  <2>5. SumOf(args[c]) = Sums(args[c])[i + 1]
    <3>1. args[c] \in Seq(Int)
      BY DEF Typed
    <3> QED BY <1>8, <1>10, <3>1, SumsAre
  <2>6. Right(c)'
    <3>1. i = Len(args[c]) - 1
      BY <1>8, <1>10
    <3>2. << total >> # <<>>
      OBVIOUS
    <3> QED BY <1>0, <1>2, <1>5, <1>7, <1>9, <2>2, <2>5, <3>1, <3>2 DEF Right
  <2>7. Adds(c)'
    BY <1>1, <1>2, <2>1, <2>2 DEF Adds
  <2>8. \A d \in Clients \ {c} : Same(d)
    BY <1>2, <1>3, <1>9, <2>1, <2>2 DEF Same
  <2> QED BY <1>0, <2>3, <2>4, <2>6, <2>7, <2>8 DEF Moved, Good
<1>11. CASE i # m
  <2>1. PICK j \in Nat : j = i + 1 /\ j \in 1 .. m + 1
    BY <1>7, <1>11
  <2> DEFINE ops == [operands[c] EXCEPT ![j] = total]
  <2>2. /\ ops \in Seq(LongLong) /\ Len(ops) = m + 1 /\ ops[j] = total
        /\ \A x \in 1 .. m + 1 : x # j => ops[x] = operands[c][x]
    <3>1. operands[c] \in Seq(LongLong) /\ j \in 1 .. Len(operands[c])
      BY <1>8, <2>1 DEF Typed
    <3> QED BY <1>8, <2>1, <3>1, ExceptSeq
  <2>3. SumCall(c, ops) /\ UNCHANGED printed
    BY <1>6, <1>7, <1>11, <2>1 DEF SumReply
  <2> HIDE DEF ops
  <2>4. /\ idx[c] >= 0 /\ idx[c] < max[c] /\ max[c] < MAX_OPERANDS
        /\ Len(ops) = max[c] + 1 /\ Len(args[c]) = max[c] + 1 /\ calls'[c] = idx[c]
        /\ UNCHANGED <<max, args>>
    BY <1>2, <1>7, <1>8, <1>9, <1>11, <2>2
  <2>5. ops[idx[c] + 1] = Wrapped(Sums(args[c])[idx[c] + 1], LLONG_MAX)
    BY <1>5, <1>7, <2>1, <2>2
  <2>6. \A x \in idx[c] + 2 .. max[c] + 1 : ops[x] = args[c][x]
    <3>1. ASSUME NEW x \in i + 2 .. m + 1 PROVE ops[x] = args[c][x]
      <4>1. x \in 1 .. m + 1 /\ x # j /\ x \in i + 1 .. m + 1
        BY <1>7, <2>1
      <4> QED BY <1>8, <2>2, <4>1
    <3> QED BY <1>7, <3>1
  <2>7. /\ Adds(c)' /\ Request(c)' = << ops[idx[c] + 1], ops[idx[c] + 2] >>
        /\ idx' \in [Clients -> Int] /\ operands' \in [Clients -> Seq(LongLong)]
        /\ \A d \in Clients \ {c} : idx'[d] = idx[d] /\ operands'[d] = operands[d]
    BY <1>0, <2>2, <2>3, <2>4, <2>5, <2>6, SumCallIs
  <2>8. Send(c, ops[idx[c] + 1], ops[idx[c] + 2])
    BY <2>3 DEF SumCall
  <2>9. /\ pc' \in [Clients -> States] /\ status' \in [Clients -> {"", "usage", "0", "1", "killed"}]
        /\ conn' \in [Clients -> {"none", "open"} \cup Broken] /\ DOMAIN toServer' = Clients
        /\ \A d \in Clients \ {c} : pc'[d] = pc[d] /\ conn'[d] = conn[d] /\ toServer'[d] = toServer[d]
        /\ pc'[c] = "ended" => conn'[c] \in Broken
    BY <2>8, SendIs
  <2>10. Typed'
    BY <1>2, <1>3, <1>9, <2>3, <2>7, <2>9 DEF Typed, States
  <2>11. Flow(c)'
    <3>1. inbuf'[c] = <<>>
      BY <1>2, <1>4
    <3> QED BY <1>3, <1>4, <2>7, <2>8, <3>1, SendFlow
  <2>12. Right(c)'
    BY <1>4, <2>3, <2>9 DEF Right, Broken
  <2>13. \A d \in Clients \ {c} : Same(d)
    BY <1>2, <1>3, <1>9, <2>3, <2>7, <2>9 DEF Same
  <2> QED BY <1>0, <2>7, <2>10, <2>11, <2>12, <2>13 DEF Moved, Good
<1> QED BY <1>10, <1>11

LEMMA BenchReplyMoves ==
  ASSUME Typed, NEW c \in Clients, Good(c), NEW n \in 1 .. ReadMax, BenchReply(c, n)
  PROVE  Moved(c)
<1>0. c \in BenchClients /\ c \notin SumClients
  BY SessionAssumption DEF BenchReply
<1>1. Receive(c, n) /\ Arrived(c, n) # <<>> /\ Flow(c) /\ Counts(c)
  BY <1>0 DEF BenchReply, Good
<1>2. /\ UNCHANGED <<max, operands, args, inbuf, bev, server>>
      /\ calls' = [calls EXCEPT ![c] = calls[c] + 1]
      /\ idx' = [idx EXCEPT ![c] = Wrapped(idx[c] + 1, INT_MAX)]
  BY DEF BenchReply
<1>3. /\ pc[c] = "waiting" /\ Told(c) /\ DOMAIN toClient' = Clients
      /\ \A d \in Clients \ {c} : toClient'[d] = toClient[d]
      /\ toClient'[c] = <<>>
  BY <1>1, ReplyIs
<1>4. toServer[c] = <<>> /\ inbuf[c] = <<>> /\ printed[c] = <<>>
  BY <1>1, <1>3 DEF Told, Flow, Good, Right
<1>5. INT_MAX \in Nat
  BY SessionAssumption
<1>6. PICK k \in Nat : k = calls[c]
  BY DEF Typed
<1>7. PICK i \in Int, m \in Int : i = idx[c] /\ m = max[c]
  BY DEF Typed
<1>8. PICK j \in -INT_MAX - 1 .. INT_MAX : j = Wrapped(i + 1, INT_MAX)
  <2>1. i + 1 \in Int
    OBVIOUS
  <2> QED BY <1>5, <2>1, WrappedIs
<1>9. PICK a \in Int : args[c][1] = a /\ args[c] = << a >>
  <2>1. args[c] \in Seq(Int) /\ Len(args[c]) = 1
    BY <1>1, <1>3 DEF Typed, Counts
  <2>2. PICK q : q = args[c]
    OBVIOUS
  <2>3. q[1] \in Int /\ q = << q[1] >>
    BY <2>1, <2>2
  <2> QED BY <2>2, <2>3
<1>10. a \in 1 .. INT_MAX => m = a /\ i = k /\ i < m /\ m \in 1 .. INT_MAX
  BY <1>1, <1>3, <1>6, <1>7, <1>9 DEF Counts
<1>11. a \in 1 .. INT_MAX => j = k + 1 /\ m = a /\ k + 1 <= m
  <2>1. ASSUME a \in 1 .. INT_MAX PROVE j = k + 1 /\ m = a /\ k + 1 <= m
    <3>1. i + 1 \in -INT_MAX - 1 .. INT_MAX /\ i = k /\ m = a /\ k + 1 <= m
      BY <1>5, <1>10, <2>1
    <3>2. Wrapped(i + 1, INT_MAX) = i + 1
      BY <1>5, <3>1, WrappedSame
    <3> QED BY <1>8, <3>1, <3>2
  <2> QED BY <2>1
<1>12. calls' \in [Clients -> Nat] /\ calls'[c] = k + 1 /\ \A d \in Clients \ {c} : calls'[d] = calls[d]
  <2>1. calls \in [Clients -> Nat] /\ calls' = [calls EXCEPT ![c] = k + 1]
    BY <1>2, <1>6 DEF Typed
  <2>2. k + 1 \in Nat
    OBVIOUS
  <2> QED BY <2>1, <2>2
<1>13. idx' \in [Clients -> Int] /\ idx'[c] = j /\ \A d \in Clients \ {c} : idx'[d] = idx[d]
  <2>1. idx \in [Clients -> Int] /\ idx' = [idx EXCEPT ![c] = j]
    BY <1>2, <1>7, <1>8 DEF Typed
  <2>2. j \in Int
    BY <1>5
  <2> QED BY <2>1, <2>2
<1>14. CASE j = m
  <2>1. /\ printed' = [printed EXCEPT ![c] = << j >>] /\ pc' = [pc EXCEPT ![c] = "ended"]
        /\ status' = [status EXCEPT ![c] = "0"] /\ UNCHANGED <<conn, toServer>>
    BY <1>7, <1>13, <1>14 DEF BenchReply, Finish, End
  <2>2. printed'[c] = << j >> /\ pc'[c] = "ended"
        /\ \A d \in Clients \ {c} : printed'[d] = printed[d] /\ pc'[d] = pc[d]
    BY <2>1 DEF Typed
  <2>3. Typed'
    <3>1. printed' \in [Clients -> Seq(Int)]
      <4>1. j \in Int
        BY <1>5
      <4>2. << j >> \in Seq(Int)
        BY <4>1
      <4>3. printed \in [Clients -> Seq(Int)]
        BY DEF Typed
      <4> QED BY <2>1, <4>2, <4>3
    <3>2. pc' \in [Clients -> {"start", "connecting", "calling", "waiting", "ended"}]
      BY <2>1 DEF Typed
    <3>3. status' \in [Clients -> {"", "usage", "0", "1", "killed"}]
      BY <2>1 DEF Typed
    <3> QED BY <1>2, <1>3, <1>12, <1>13, <2>1, <3>1, <3>2, <3>3 DEF Typed
  <2>4. Flow(c)'
    BY <1>2, <1>3, <1>4, <2>1, <2>2 DEF Flow, Idle
  <2>5. Right(c)'
    <3>1. << j >> # <<>>
      OBVIOUS
    <3>2. a \in 1 .. INT_MAX => << j >> = << a >> /\ calls'[c] = a
      BY <1>11, <1>12, <1>14
    <3>3. args'[c] = << a >> /\ args'[c][1] = a
      BY <1>2, <1>9
    <3> QED BY <1>0, <2>2, <3>1, <3>2, <3>3 DEF Right
  <2>6. Counts(c)'
    BY <1>1, <1>2, <1>13, <2>2 DEF Counts
  <2>7. \A d \in Clients \ {c} : Same(d)
    BY <1>2, <1>3, <1>12, <1>13, <2>1, <2>2 DEF Same
  <2> QED BY <1>0, <2>3, <2>4, <2>5, <2>6, <2>7 DEF Moved, Good
<1>15. CASE j # m
  <2>1. Send(c, 5, 7) /\ UNCHANGED printed
    BY <1>7, <1>13, <1>15 DEF BenchReply, BenchCall
  <2>2. /\ pc' \in [Clients -> States] /\ status' \in [Clients -> {"", "usage", "0", "1", "killed"}]
        /\ conn' \in [Clients -> {"none", "open"} \cup Broken] /\ DOMAIN toServer' = Clients
        /\ \A d \in Clients \ {c} : pc'[d] = pc[d] /\ conn'[d] = conn[d] /\ toServer'[d] = toServer[d]
        /\ pc'[c] \in {"waiting", "ended"} /\ (pc'[c] = "ended" => conn'[c] \in Broken)
    BY <2>1, SendIs
  <2>3. Typed'
    BY <1>2, <1>3, <1>12, <1>13, <2>1, <2>2 DEF Typed, States
  <2>4. Flow(c)'
    <3>1. inbuf'[c] = <<>> /\ Request(c)' = << 5, 7 >>
      BY <1>0, <1>2, <1>4 DEF Request
    <3> QED BY <1>3, <1>4, <2>1, <3>1, SendFlow
  <2>5. Right(c)'
    BY <1>4, <2>1, <2>2 DEF Right, Broken
  <2>6. Counts(c)'
    <3>1. max'[c] = m /\ args'[c] = << a >> /\ args'[c][1] = a /\ Len(args'[c]) = 1
      BY <1>2, <1>7, <1>9
    <3>2. a \in 1 .. INT_MAX => m = a /\ j = k + 1 /\ j < m
      BY <1>11, <1>15
    <3>3. max'[c] \in -INT_MAX - 1 .. INT_MAX
      BY <1>1, <1>2 DEF Counts
    <3> QED BY <1>12, <1>13, <2>2, <3>1, <3>2, <3>3 DEF Counts
  <2>7. \A d \in Clients \ {c} : Same(d)
    BY <1>2, <1>3, <1>12, <1>13, <2>1, <2>2 DEF Same
  <2> QED BY <1>0, <2>3, <2>4, <2>5, <2>6, <2>7 DEF Moved, Good
<1> QED BY <1>14, <1>15

LEMMA RecvFailsMoves ==
  ASSUME Typed, NEW c \in Clients, Good(c), RecvFails(c)
  PROVE  Moved(c)
<1>1. pc[c] = "waiting" /\ conn[c] = "reset" /\ Flow(c)
  BY DEF RecvFails, Good
<1>2. /\ UNCHANGED <<idx, max, operands, printed, args, calls, conn, toServer, toClient, inbuf, bev, server>>
      /\ pc' = [pc EXCEPT ![c] = "ended"] /\ status' = [status EXCEPT ![c] = "0"]
  BY DEF RecvFails, End, netVars
<1>3. pc'[c] = "ended" /\ \A d \in Clients \ {c} : pc'[d] = pc[d]
  BY <1>2 DEF Typed
<1>4. Typed'
  <2>1. pc' \in [Clients -> {"start", "connecting", "calling", "waiting", "ended"}]
    BY <1>2 DEF Typed
  <2>2. status' \in [Clients -> {"", "usage", "0", "1", "killed"}]
    BY <1>2 DEF Typed
  <2> QED BY <1>2, <2>1, <2>2 DEF Typed
<1>5. Answer(c)' = Answer(c)
  BY <1>2 DEF Answer, Request
<1>6. Flow(c)'
  BY <1>1, <1>2, <1>3, <1>5 DEF Flow, Idle, Asks, Told
<1>7. Right(c)'
  BY <1>1, <1>2, <1>3 DEF Good, Right
<1>8. (c \in SumClients => Adds(c))'
  BY <1>2, <1>3 DEF Good, Adds
<1>9. (c \in BenchClients => Counts(c))'
  BY <1>2, <1>3 DEF Good, Counts
<1>10. \A d \in Clients \ {c} : Same(d)
  BY <1>2, <1>3 DEF Same
<1> QED BY <1>4, <1>6, <1>7, <1>8, <1>9, <1>10 DEF Moved, Good

\* listener_cb and conn_eventcb change nothing of the client and the stream
LEMMA AcceptMoves ==
  ASSUME Typed, NEW c \in Clients, Good(c), Accept(c) \/ EventCb(c)
  PROVE  Moved(c)
<1>1. UNCHANGED <<pc, status, idx, max, operands, printed, args, calls, conn, toServer, toClient, server>>
  BY DEF Accept, EventCb, clientVars
<1>2. inbuf[c] = <<>>
  BY DEF Good, Flow
<1>3. /\ inbuf' = inbuf \/ inbuf' = [inbuf EXCEPT ![c] = <<>>]
      /\ bev' = [bev EXCEPT ![c] = "open"] \/ bev' = [bev EXCEPT ![c] = "freed"]
  BY DEF Accept, EventCb
<1>4. DOMAIN inbuf' = Clients /\ \A d \in Clients : inbuf'[d] = inbuf[d]
  BY <1>2, <1>3 DEF Typed
<1>5. bev' \in [Clients -> {"none", "open", "freed"}]
  BY <1>3 DEF Typed
<1>6. Typed'
  BY <1>1, <1>4, <1>5 DEF Typed
<1>7. \A d \in Clients : Same(d)
  BY <1>1, <1>4 DEF Same
<1> QED BY <1>6, <1>7, SameGood DEF Moved

LEMMA ReadCbMoves ==
  ASSUME Typed, NEW c \in Clients, Good(c), NEW n \in 1 .. Len(toServer[c]), ReadCb(c, n)
  PROVE  Moved(c)
<1>0. RequestCells \in Nat /\ ReadMax \in Nat /\ RequestCells <= ReadMax /\ AnswerCells \in Nat
      /\ AnswerCells \in 1 .. AnswerCells
  BY SessionAssumption
<1>1. UNCHANGED <<pc, status, idx, max, operands, printed, args, calls, conn, bev, server>>
  BY DEF ReadCb, clientVars
<1>2. inbuf[c] = <<>> /\ Flow(c)
  BY DEF Good, Flow
<1>3. Asks(c)
  <2>1. CASE toServer[c] = <<>>
    <3>1. Len(toServer[c]) = 0
      BY <2>1, EmptySeq
    <3> QED BY <3>1
  <2> QED BY <1>2, <2>1 DEF Flow, Idle, Told
<1>4. PICK k \in 1 .. RequestCells : toServer[c] = Cells(Request(c), k)
  BY <1>3 DEF Asks
<1>5. k \in Nat /\ k >= 1 /\ Len(Cells(Request(c), k)) = k
  BY <1>0, <1>4, CellsAre
<1>6. n \in 0 .. k /\ n \in Nat /\ n >= 1
  BY <1>4, <1>5
<1>7. PICK t \in Seq(CellsOf(Request(c))) : t = SubSeq(toServer[c], 1, n) /\ Len(t) = n
  <2>1. /\ SubSeq(Cells(Request(c), k), 1, n) \in Seq(CellsOf(Request(c)))
        /\ Len(SubSeq(Cells(Request(c), k), 1, n)) = n
    BY <1>5, <1>6, ReadPart
  <2> QED BY <1>4, <2>1
<1>8. <<>> \o t = t
  BY <1>7, ConcatEmptySeq
<1>9. Taken(t) = n
  BY <1>0, <1>4, <1>6, <1>7 DEF Taken
<1>10. SubSeq(t, 1, n) = t /\ SubSeq(t, n + 1, n) = <<>>
  <2>1. ASSUME NEW i \in 1 .. n PROVE t[i] \in CellsOf(Request(c))
    BY <1>7, ElementOfSeq
  <2>2. /\ SubSeq(t, 1, n) \in Seq(CellsOf(Request(c)))
        /\ Len(SubSeq(t, 1, n)) = IF 1 <= n THEN n - 1 + 1 ELSE 0
        /\ \A i \in 1 .. n - 1 + 1 : SubSeq(t, 1, n)[i] = t[1 + i - 1]
    BY <1>6, <2>1, SubSeqProperties
  <2>3. PICK u \in Seq(CellsOf(Request(c))) : u = SubSeq(t, 1, n)
    BY <2>2
  <2>4. Len(u) = n
    BY <1>6, <2>2, <2>3
  <2>5. ASSUME NEW i \in 1 .. n PROVE u[i] = t[i]
    <3>1. i \in 1 .. n - 1 + 1 /\ 1 + i - 1 = i
      BY <1>6
    <3> QED BY <2>2, <2>3, <3>1
  <2>6. u = t
    BY <1>7, <2>4, <2>5, SeqEqual
  <2>7. ASSUME NEW i \in n + 1 .. n PROVE t[i] \in CellsOf(Request(c))
    BY <1>6
  <2>8. /\ SubSeq(t, n + 1, n) \in Seq(CellsOf(Request(c)))
        /\ Len(SubSeq(t, n + 1, n)) = IF n + 1 <= n THEN n - (n + 1) + 1 ELSE 0
    BY <1>6, <2>7, SubSeqProperties
  <2>9. ~(n + 1 <= n)
    BY <1>6
  <2>10. SubSeq(t, n + 1, n) = <<>>
    BY <2>8, <2>9, EmptySeq
  <2> QED BY <2>3, <2>6, <2>10
<1>11. /\ toServer' = [toServer EXCEPT ![c] = SubSeq(toServer[c], n + 1, Len(toServer[c]))]
       /\ inbuf' = [inbuf EXCEPT ![c] = <<>>]
       /\ toClient' = [toClient EXCEPT ![c] = toClient[c] \o Answers(Boxes(t))]
  BY <1>2, <1>3, <1>7, <1>8, <1>9, <1>10 DEF ReadCb, Asks
<1>12. DOMAIN toServer' = Clients /\ DOMAIN inbuf' = Clients /\ DOMAIN toClient' = Clients
  BY <1>11 DEF Typed
<1>13. /\ toServer'[c] = Cells(Request(c), k - n) /\ inbuf'[c] = <<>>
       /\ toClient'[c] = <<>> \o Answers(Boxes(t))
  <2>1. toServer'[c] = SubSeq(toServer[c], n + 1, Len(toServer[c])) /\ inbuf'[c] = <<>>
        /\ toClient'[c] = <<>> \o Answers(Boxes(t))
    BY <1>3, <1>11 DEF Typed, Asks
  <2> QED BY <1>4, <1>5, <1>6, <2>1, ReadRest
<1>14. Boxes(t) = IF n = k THEN << [box |-> Request(c), last |-> TRUE] >> ELSE <<>>
  BY <1>4, <1>5, <1>6, <1>7, PartHas
<1>15. Request(c)' = Request(c) /\ Answer(c)' = Answer(c)
  BY <1>1 DEF Answer, Request
<1>16. Flow(c)'
  <2>1. CASE n = k
    <3>1. Answers(Boxes(t)) = Cells(Answer(c), AnswerCells)
      BY <1>14, <2>1, AnswersAre DEF Answer
    <3>2. <<>> \o Cells(Answer(c), AnswerCells) = Cells(Answer(c), AnswerCells)
      BY <1>0, CellsAre, ConcatEmptySeq
    <3>3. k - n = 0
      BY <1>5, <2>1
    <3>4. toServer'[c] = <<>> /\ toClient'[c] = Cells(Answer(c), AnswerCells)
      BY <1>13, <3>1, <3>2, <3>3, CellsNone
    <3> QED BY <1>0, <1>1, <1>3, <1>13, <1>15, <3>4 DEF Flow, Asks, Told
  <2>2. CASE n # k
    <3>1. k - n \in 1 .. RequestCells
      BY <1>0, <1>4, <1>6, <2>2
    <3>2. toClient'[c] = <<>>
      <4>1. Answers(Boxes(t)) = <<>>
        BY <1>14, <2>2, AnswersAre
      <4>2. <<>> \in Seq({})
        OBVIOUS
      <4> QED BY <1>13, <4>1, <4>2, ConcatEmptySeq
    <3> QED BY <1>1, <1>3, <1>13, <1>15, <3>1, <3>2 DEF Flow, Asks
  <2> QED BY <2>1, <2>2
<1>17. Right(c)'
  BY <1>1 DEF Good, Right
<1>18. (c \in SumClients => Adds(c))'
  BY <1>1 DEF Good, Adds
<1>19. (c \in BenchClients => Counts(c))'
  BY <1>1 DEF Good, Counts
<1>20. \A d \in Clients \ {c} : Same(d)
  BY <1>1, <1>11 DEF Same, Typed
<1>21. Typed'
  BY <1>1, <1>12 DEF Typed
<1> QED BY <1>16, <1>17, <1>18, <1>19, <1>20, <1>21 DEF Moved, Good

LEMMA ResetMoves ==
  ASSUME Typed, NEW c \in Clients, Good(c), Reset(c)
  PROVE  Moved(c)
<1>1. UNCHANGED <<pc, status, idx, max, operands, printed, args, calls, inbuf, bev, server>>
  BY DEF Reset, clientVars
<1>2. conn[c] = "open" /\ pc[c] # "ended" /\ inbuf[c] = <<>>
      /\ pc[c] \notin {"start", "connecting"}
  BY DEF Reset, Good, Flow
<1>3. /\ conn' = [conn EXCEPT ![c] = "reset"] /\ toServer' = [toServer EXCEPT ![c] = <<>>]
      /\ toClient' = [toClient EXCEPT ![c] = <<>>]
  BY DEF Reset
<1>4. conn'[c] = "reset" /\ toServer'[c] = <<>> /\ toClient'[c] = <<>>
      /\ DOMAIN toServer' = Clients /\ DOMAIN toClient' = Clients
  BY <1>3 DEF Typed
<1>5. conn' \in [Clients -> {"none", "open"} \cup Broken]
  BY <1>3 DEF Typed, Broken
<1>6. Typed'
  BY <1>1, <1>4, <1>5 DEF Typed
<1>7. Flow(c)'
  BY <1>1, <1>2, <1>4 DEF Flow, Idle
<1>8. Right(c)'
  BY <1>1, <1>2 DEF Good, Right
<1>9. (c \in SumClients => Adds(c))'
  BY <1>1 DEF Good, Adds
<1>10. (c \in BenchClients => Counts(c))'
  BY <1>1 DEF Good, Counts
<1>11. \A d \in Clients \ {c} : Same(d)
  BY <1>1, <1>3 DEF Same, Typed
<1> QED BY <1>6, <1>7, <1>8, <1>9, <1>10, <1>11 DEF Moved, Good

LEMMA ServerEndsMoves ==
  ASSUME IInv, ServerEnds
  PROVE  IInv'
<1>1. UNCHANGED <<pc, status, idx, max, operands, printed, args, calls, bev>> /\ server' = "down"
  BY DEF ServerEnds, clientVars
<1>2. PICK resets \in SUBSET {c \in Clients : conn[c] = "open"} :
        /\ conn' = [c \in Clients |-> IF conn[c] # "open" THEN conn[c]
                                      ELSE IF c \in resets THEN "reset" ELSE "eof"]
        /\ toClient' = [c \in Clients |-> IF c \in resets THEN <<>> ELSE toClient[c]]
  BY DEF ServerEnds
<1>3. toServer' = [c \in Clients |-> <<>>] /\ inbuf' = [c \in Clients |-> <<>>]
  BY DEF ServerEnds
<1>4. Typed'
  <2>1. conn' \in [Clients -> {"none", "open"} \cup Broken]
    BY <1>2 DEF IInv, Typed, Broken
  <2> QED BY <1>1, <1>2, <1>3, <2>1 DEF IInv, Typed
<1>5. ASSUME NEW c \in Clients PROVE Good(c)'
  <2>1. Good(c)
    BY DEF IInv
  <2>2. /\ toServer'[c] = <<>> /\ inbuf'[c] = <<>> /\ conn'[c] # "open"
        /\ conn[c] # "open" => conn'[c] = conn[c]
        /\ conn[c] = "open" => conn'[c] # "none"
        /\ toClient'[c] = <<>> \/ toClient'[c] = toClient[c]
    BY <1>2, <1>3
  <2>3. Answer(c)' = Answer(c)
    BY <1>1 DEF Answer, Request
  <2>4. Flow(c)'
    <3>1. Idle(c) \/ Asks(c) \/ Told(c)
      BY <2>1 DEF Good, Flow
    <3>2. pc[c] \in {"start", "connecting"} => conn[c] = "none"
      BY <2>1 DEF Good, Flow
    <3>3. CASE toClient'[c] = <<>>
      BY <1>1, <2>2, <3>2, <3>3 DEF Flow, Idle
    <3>4. CASE toClient'[c] # <<>> /\ toClient'[c] = toClient[c]
      <4>1. Told(c)
        BY <3>1, <3>4 DEF Idle, Asks
      <4>2. Told(c)'
        BY <1>1, <2>2, <2>3, <3>4, <4>1 DEF Told
      <4> QED BY <1>1, <2>2, <3>2, <4>2 DEF Flow
    <3> QED BY <2>2, <3>3, <3>4
  <2>5. Right(c)'
    BY <1>1, <2>1, <2>2 DEF Good, Right
  <2>6. (c \in SumClients => Adds(c))'
    BY <1>1, <2>1 DEF Good, Adds
  <2>7. (c \in BenchClients => Counts(c))'
    BY <1>1, <2>1 DEF Good, Counts
  <2> QED BY <2>4, <2>5, <2>6, <2>7 DEF Good
<1> QED BY <1>4, <1>5 DEF IInv

-----------------------------------------------------------------------------
(* The theorems *)

LEMMA InitInvariant == Init => IInv
<1> SUFFICES ASSUME Init PROVE IInv
  OBVIOUS
<1>1. Typed
  <2>1. /\ pc \in [Clients -> {"start", "connecting", "calling", "waiting", "ended"}]
        /\ status \in [Clients -> {"", "usage", "0", "1", "killed"}]
        /\ conn \in [Clients -> {"none", "open"} \cup Broken]
        /\ bev \in [Clients -> {"none", "open", "freed"}] /\ server \in {"up", "down"}
    BY DEF Init
  <2>2. idx \in [Clients -> Int] /\ max \in [Clients -> Int] /\ calls \in [Clients -> Nat]
    <3>1. 0 \in Int /\ 0 \in Nat
      OBVIOUS
    <3>2. idx = [c \in Clients |-> 0] /\ max = [c \in Clients |-> 0] /\ calls = [c \in Clients |-> 0]
      BY DEF Init
    <3> QED BY <3>1, <3>2, Zenon
  <2>3. <<>> \in Seq(Int) /\ <<>> \in Seq(LongLong)
    OBVIOUS
  <2>4. /\ operands \in [Clients -> Seq(LongLong)] /\ args \in [Clients -> Seq(Int)]
        /\ printed \in [Clients -> Seq(Int)]
    BY <2>3 DEF Init
  <2>5. DOMAIN toServer = Clients /\ DOMAIN toClient = Clients /\ DOMAIN inbuf = Clients
    BY DEF Init
  <2> QED BY <2>1, <2>2, <2>4, <2>5 DEF Typed
<1>2. ASSUME NEW c \in Clients PROVE Good(c)
  <2>1. /\ pc[c] = "start" /\ idx[c] = 0 /\ max[c] = 0 /\ calls[c] = 0 /\ operands[c] = <<>>
        /\ printed[c] = <<>> /\ conn[c] = "none"
        /\ toServer[c] = <<>> /\ toClient[c] = <<>> /\ inbuf[c] = <<>>
    BY DEF Init
  <2>2. Len(<<>>) = 0 /\ MAX_OPERANDS \in Nat /\ MAX_OPERANDS >= 1 /\ INT_MAX \in Nat
    BY SessionAssumption
  <2>3. Flow(c)
    BY <2>1 DEF Flow, Idle
  <2>4. Right(c)
    BY <2>1 DEF Right
  <2>5. Adds(c)
    BY <2>1, <2>2 DEF Adds
  <2>6. Counts(c)
    BY <2>1, <2>2 DEF Counts
  <2> QED BY <2>3, <2>4, <2>5, <2>6 DEF Good
<1> QED BY <1>1, <1>2 DEF IInv

LEMMA MovedInvariant ==
  ASSUME IInv, NEW c \in Clients, Moved(c)
  PROVE  IInv'
BY SameGood DEF IInv, Moved

LEMMA NextInvariant == IInv /\ [Next]_vars => IInv'
<1> SUFFICES ASSUME IInv, [Next]_vars PROVE IInv'
  OBVIOUS
<1>0. Typed /\ \A c \in Clients : Good(c)
  BY DEF IInv
<1>1. ASSUME NEW c \in Clients, NEW hp \in HostPorts, c \in SumClients, NEW ops \in SumArgs,
             SumMain(c, ops, hp)
      PROVE  IInv'
  BY <1>0, <1>1, SumMainMoves, MovedInvariant
<1>2. ASSUME NEW c \in Clients, NEW hp \in HostPorts, c \in BenchClients,
             NEW count \in CountArgs, BenchMain(c, count, hp)
      PROVE  IInv'
  BY <1>0, <1>2, BenchMainMoves, MovedInvariant
<1>3. ASSUME NEW c \in Clients, Client(c)
      PROVE  IInv'
  <2>1. CASE Connect(c)
    BY <1>0, <2>1, ConnectMoves, MovedInvariant
  <2>2. CASE FirstSum(c)
    BY <1>0, <2>2, FirstSumMoves, MovedInvariant
  <2>3. CASE FirstBench(c)
    BY <1>0, <2>3, FirstBenchMoves, MovedInvariant
  <2>4. CASE RecvFails(c)
    BY <1>0, <2>4, RecvFailsMoves, MovedInvariant
  <2>5. ASSUME NEW n \in 1 .. ReadMax, RecvPart(c, n) PROVE IInv'
    BY <1>0, <2>5, RecvPartMoves, MovedInvariant
  <2>6. ASSUME NEW n \in 1 .. ReadMax, SumReply(c, n) PROVE IInv'
    BY <1>0, <2>6, SumReplyMoves, MovedInvariant
  <2>7. ASSUME NEW n \in 1 .. ReadMax, BenchReply(c, n) PROVE IInv'
    BY <1>0, <2>7, BenchReplyMoves, MovedInvariant
  <2> QED BY <1>3, <2>1, <2>2, <2>3, <2>4, <2>5, <2>6, <2>7 DEF Client
<1>4. ASSUME NEW c \in Clients, Serve(c)
      PROVE  IInv'
  <2>1. CASE Accept(c) \/ EventCb(c)
    BY <1>0, <2>1, AcceptMoves, MovedInvariant
  <2>2. ASSUME NEW n \in 1 .. Len(toServer[c]), ReadCb(c, n) PROVE IInv'
    BY <1>0, <2>2, ReadCbMoves, MovedInvariant
  <2> QED BY <1>4, <2>1, <2>2 DEF Serve
<1>5. ASSUME NEW c \in Clients, Reset(c)
      PROVE  IInv'
  BY <1>0, <1>5, ResetMoves, MovedInvariant
<1>6. CASE UNCHANGED vars
  <2>1. UNCHANGED <<pc, status, idx, max, operands, printed, args, calls, conn, toServer,
                    toClient, inbuf, bev, server>>
    BY <1>6 DEF vars, clientVars, netVars
  <2>2. \A d \in Clients : Same(d)
    BY <2>1 DEF Same
  <2>3. Typed'
    BY <1>0, <2>1 DEF Typed
  <2> QED BY <1>0, <2>2, <2>3, SameGood DEF IInv
<1>7. ASSUME NEW c \in Clients, RecvEof(c)
      PROVE  IInv'
  BY <1>6, <1>7 DEF RecvEof
<1>8. CASE ServerEnds
  BY <1>8, ServerEndsMoves
<1> QED BY <1>1, <1>2, <1>3, <1>4, <1>5, <1>6, <1>7, <1>8 DEF Next

(* In every run the invariant holds, whatever the numbers of clients, calls *)
(* and operands, and however the stream is cut by the reads.                *)
THEOREM SessionInvariant == Spec => []IInv
BY InitInvariant, NextInvariant, PTL DEF Spec

LEMMA InvariantTyped == IInv => TypeOK
<1> SUFFICES ASSUME IInv PROVE TypeOK
  OBVIOUS
<1>1. Typed /\ \A c \in Clients : Good(c)
  BY DEF IInv
<1>2. INT_MAX \in Nat /\ MAX_OPERANDS \in Nat /\ MAX_OPERANDS <= INT_MAX + 1 /\ AnswerCells \in Nat
  BY SessionAssumption
<1>3. ASSUME NEW c \in SumClients
      PROVE  /\ operands[c] \in Seq(LLONG_MIN .. LLONG_MAX) /\ Len(operands[c]) <= MAX_OPERANDS
             /\ idx[c] <= max[c] /\ max[c] < MAX_OPERANDS
             /\ idx[c] \in -INT_MAX - 1 .. INT_MAX /\ max[c] \in -INT_MAX - 1 .. INT_MAX
  <2>1. c \in Clients /\ Adds(c)
    BY <1>1 DEF Clients, Good
  <2>2. operands[c] \in Seq(LLONG_MIN .. LLONG_MAX)
    BY <1>1, <2>1 DEF Typed, LongLong
  <2>3. max[c] \in Int /\ idx[c] \in Int
    BY <1>1, <2>1 DEF Typed
  <2>4. idx[c] \in 0 .. max[c] /\ max[c] < MAX_OPERANDS /\ Len(operands[c]) <= MAX_OPERANDS
    BY <2>1 DEF Adds
  <2> QED BY <1>2, <2>2, <2>3, <2>4
<1>4. ASSUME NEW c \in BenchClients
      PROVE  idx[c] \in -INT_MAX - 1 .. INT_MAX /\ max[c] \in -INT_MAX - 1 .. INT_MAX
  BY <1>1 DEF Clients, Good, Counts
<1>5. ASSUME NEW c \in Clients PROVE Len(toClient[c]) <= AnswerCells
  <2>1. CASE toClient[c] = <<>>
    <3>1. Len(<<>>) = 0
      OBVIOUS
    <3> QED BY <1>2, <2>1, <3>1
  <2>2. CASE Told(c)
    <3>1. PICK k \in 1 .. AnswerCells : toClient[c] = Cells(Answer(c), k)
      BY <2>2 DEF Told
    <3>2. k \in Nat /\ Len(Cells(Answer(c), k)) = k
      BY <1>2, <3>1, CellsAre
    <3> QED BY <1>2, <3>1, <3>2
  <2> QED BY <1>1, <2>1, <2>2 DEF Good, Flow, Idle, Asks
<1>6. idx \in [Clients -> -INT_MAX - 1 .. INT_MAX] /\ max \in [Clients -> -INT_MAX - 1 .. INT_MAX]
  <2>1. DOMAIN idx = Clients /\ DOMAIN max = Clients /\ idx \in [Clients -> Int] /\ max \in [Clients -> Int]
    BY <1>1 DEF Typed
  <2>2. \A c \in Clients : idx[c] \in -INT_MAX - 1 .. INT_MAX /\ max[c] \in -INT_MAX - 1 .. INT_MAX
    BY <1>3, <1>4 DEF Clients
  <2> QED BY <2>1, <2>2
<1>7. /\ pc \in [Clients -> {"start", "connecting", "calling", "waiting", "ended"}]
      /\ status \in [Clients -> {"", "usage", "0", "1", "killed"}]
      /\ conn \in [Clients -> {"none", "open", "eof", "reset"}]
      /\ bev \in [Clients -> {"none", "open", "freed"}] /\ server \in {"up", "down"}
  BY <1>1 DEF Typed, Broken
<1> QED BY <1>3, <1>5, <1>6, <1>7 DEF TypeOK

\* The variables keep their types, and the operand index its bounds:
\* do_sum_call of sumclient never indexes beyond its array of operands.
THEOREM SessionTyped == Spec => []TypeOK
<1>1. IInv => TypeOK
  BY InvariantTyped
<1> QED BY <1>1, SessionInvariant, PTL

\* What a client prints is the result, in as many answers as it had calls to
\* make, and a client that prints nothing has lost its connection: resp_cb of
\* both clients over any cuts of the stream and any failures of it.
THEOREM ResultsAreRight == Spec => []Results
<1>1. IInv => Results
  BY DEF IInv, Good, Right, Results
<1> QED BY <1>1, SessionInvariant, PTL

LEMMA InvariantLockstep == IInv => Lockstep
<1> SUFFICES ASSUME IInv, NEW c \in Clients, pc[c] = "waiting", conn[c] = "open"
             PROVE  Len(Boxes(toServer[c] \o inbuf[c] \o toClient[c])) = 1
  BY DEF Lockstep
<1>1. inbuf[c] = <<>> /\ (Asks(c) \/ Told(c))
  BY DEF IInv, Good, Flow, Idle
<1>2. RequestCells \in Nat /\ AnswerCells \in Nat
  BY SessionAssumption
<1>3. ASSUME NEW b, NEW k \in Nat, k >= 1
      PROVE  /\ Len(Boxes(Cells(b, k) \o <<>> \o <<>>)) = 1
             /\ Len(Boxes(<<>> \o <<>> \o Cells(b, k))) = 1
  <2>1. Cells(b, k) \in Seq(CellsOf(b))
    BY CellsAre
  <2>2. /\ Cells(b, k) \o <<>> = Cells(b, k) /\ <<>> \o Cells(b, k) = Cells(b, k)
        /\ <<>> \o <<>> = <<>>
    <3>1. <<>> \in Seq({})
      OBVIOUS
    <3> QED BY <2>1, <3>1, ConcatEmptySeq
  <2>3. Boxes(Cells(b, k)) = << [box |-> b, last |-> TRUE] >>
    BY <1>3, WholeHas
  <2>4. Len(<< [box |-> b, last |-> TRUE] >>) = 1
    OBVIOUS
  <2> QED BY <2>2, <2>3, <2>4
<1>4. CASE Asks(c)
  <2>1. PICK k \in 1 .. RequestCells : toServer[c] = Cells(Request(c), k)
    BY <1>4 DEF Asks
  <2>2. k \in Nat /\ k >= 1 /\ toClient[c] = <<>>
    BY <1>2, <1>4 DEF Asks
  <2> QED BY <1>1, <1>3, <2>1, <2>2
<1>5. CASE Told(c)
  <2>1. PICK k \in 1 .. AnswerCells : toClient[c] = Cells(Answer(c), k)
    BY <1>5 DEF Told
  <2>2. k \in Nat /\ k >= 1 /\ toServer[c] = <<>>
    BY <1>2, <1>5 DEF Told
  <2> QED BY <1>1, <1>3, <2>1, <2>2
<1> QED BY <1>1, <1>4, <1>5

\* A client that waits has one box under way, its request or the answer, so
\* no read of the server or of the client ever meets the end of a second one.
THEOREM OneBoxUnderWay == Spec => []Lockstep
<1>1. IInv => Lockstep
  BY InvariantLockstep
<1> QED BY <1>1, SessionInvariant, PTL

=============================================================================
