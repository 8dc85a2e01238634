-------------------------- MODULE RequestHeadProofs --------------------------
(***************************************************************************)
(* Proofs about RequestHead: the fragments of a hello, of any size, the    *)
(* content of a head and how much of it is written anew.                   *)
(***************************************************************************)
EXTENDS RequestHead, FiniteSetTheorems, SequenceTheorems, WellFoundedInduction, TLAPS

-----------------------------------------------------------------------------
(***************************************************************************)
(* FlattenSeq.  Its recursive function exists, and is unique: both by the  *)
(* least number for which they would fail.                                 *)
(***************************************************************************)
LEMMA LeastNumber ==
  ASSUME NEW T \in SUBSET Nat, T # {}
  PROVE  \E x \in T : \A y \in T : x <= y
<1>1. PICK x \in T : \A y \in T : <<y, x>> \notin OpToRel(<, Nat)
  BY WFMin, NatLessThanWellFounded
<1>2. \A y \in T : ~(y < x)
  BY <1>1 DEF OpToRel
<1>3. \A y \in T : x \in Nat /\ y \in Nat
  OBVIOUS
<1>4. \A y \in T : x <= y
  BY <1>2, <1>3
<1> QED
  BY <1>4

\* f[i] is the first i elements of s in one sequence.
Joins(f, s, n) == f = [i \in 1 .. n |-> IF i = 1 THEN s[i] ELSE f[i - 1] \o s[i]]

LEMMA JoinsStep ==
  ASSUME NEW f, NEW s, NEW n \in Nat, Joins(f, s, n), NEW i \in 1 .. n
  PROVE  f[i] = IF i = 1 THEN s[i] ELSE f[i - 1] \o s[i]
BY DEF Joins

LEMMA JoinsMore ==
  ASSUME NEW f, NEW s, NEW n \in Nat, Joins(f, s, n)
  PROVE  \E g : Joins(g, s, n + 1)
<1> DEFINE last == IF n = 0 THEN s[n + 1] ELSE f[n] \o s[n + 1]
           g == [i \in 1 .. n + 1 |-> IF i = n + 1 THEN last ELSE f[i]]
<1>1. ASSUME NEW i \in 1 .. n + 1
      PROVE  g[i] = IF i = 1 THEN s[i] ELSE g[i - 1] \o s[i]
  <2>1. CASE i = n + 1
    <3>1. g[i] = last /\ (n # 0 => n \in 1 .. n + 1 /\ g[n] = f[n] /\ n # n + 1)
      BY <2>1
    <3> HIDE DEF g
    <3> QED
      BY <2>1, <3>1
  <2>2. CASE i # n + 1
    <3>1. i \in 1 .. n /\ (i # 1 => i - 1 \in 1 .. n + 1 /\ i - 1 # n + 1)
      BY <2>2
    <3>2. g[i] = f[i] /\ (i # 1 => g[i - 1] = f[i - 1])
      BY <2>2, <3>1
    <3>3. f[i] = IF i = 1 THEN s[i] ELSE f[i - 1] \o s[i]
      BY <3>1, JoinsStep
    <3> HIDE DEF g
    <3> QED
      BY <3>2, <3>3
  <2> QED
    BY <2>1, <2>2
<1>2. g = [i \in 1 .. n + 1 |-> g[i]]
  OBVIOUS
<1> HIDE DEF g
<1>3. g = [i \in 1 .. n + 1 |-> IF i = 1 THEN s[i] ELSE g[i - 1] \o s[i]]
  BY <1>1, <1>2
<1> QED
  BY <1>3 DEF Joins

LEMMA JoinsExists ==
  ASSUME NEW s, NEW n \in Nat
  PROVE  \E f : Joins(f, s, n)
<1> DEFINE T == {m \in Nat : ~ \E f : Joins(f, s, m)}
<1> SUFFICES ASSUME T # {} PROVE FALSE
  OBVIOUS
<1>1. PICK m \in T : \A j \in T : m <= j
  <2>1. T \in SUBSET Nat /\ T # {}
    OBVIOUS
  <2> HIDE DEF T
  <2> QED
    BY <2>1, LeastNumber
<1>2. CASE m = 0
  <2>1. Joins([i \in 1 .. 0 |-> s[i]], s, 0)
    BY DEF Joins
  <2> QED
    BY <1>1, <1>2, <2>1
<1>3. CASE m # 0
  <2>1. m - 1 \in Nat /\ m - 1 \notin T /\ (m - 1) + 1 = m
    BY <1>1, <1>3
  <2>2. PICK f : Joins(f, s, m - 1)
    BY <2>1
  <2>3. \E g : Joins(g, s, (m - 1) + 1)
    BY <2>1, <2>2, JoinsMore
  <2> QED
    BY <1>1, <2>1, <2>3
<1> QED
  BY <1>2, <1>3

\* Two sequences that begin alike are joined alike, as far as they are.
LEMMA JoinsAlike ==
  ASSUME NEW f, NEW s, NEW g, NEW t, NEW n \in Nat, NEW m \in Nat, n <= m,
         Joins(f, s, n), Joins(g, t, m), \A i \in 1 .. n : s[i] = t[i]
  PROVE  \A i \in 1 .. n : f[i] = g[i]
<1> DEFINE T == {i \in 1 .. n : f[i] # g[i]}
<1> SUFFICES ASSUME T # {} PROVE FALSE
  OBVIOUS
<1>1. PICK i \in T : \A j \in T : i <= j
  <2>1. T \in SUBSET Nat /\ T # {}
    OBVIOUS
  <2> HIDE DEF T
  <2> QED
    BY <2>1, LeastNumber
<1>2. i \in 1 .. n /\ i \in 1 .. m /\ s[i] = t[i] /\ f[i] # g[i]
  BY <1>1
<1>3. /\ f[i] = IF i = 1 THEN s[i] ELSE f[i - 1] \o s[i]
      /\ g[i] = IF i = 1 THEN t[i] ELSE g[i - 1] \o t[i]
  BY <1>2, JoinsStep
<1>4. i # 1 => f[i - 1] = g[i - 1]
  <2>1. i # 1 => i - 1 \in 1 .. n /\ i - 1 \notin T
    BY <1>1
  <2> QED
    BY <2>1
<1> QED
  BY <1>2, <1>3, <1>4

LEMMA FlattenJoins ==
  ASSUME NEW s, Len(s) \in Nat \ {0}
  PROVE  \E f : Joins(f, s, Len(s)) /\ FlattenSeq(s) = f[Len(s)]
<1> DEFINE n == Len(s)
           f == CHOOSE h : h = [i \in 1 .. n |-> IF i = 1 THEN s[i] ELSE h[i - 1] \o s[i]]
<1>1. f = [i \in 1 .. n |-> IF i = 1 THEN s[i] ELSE f[i - 1] \o s[i]]
  BY JoinsExists DEF Joins
<1>2. FlattenSeq(s) = f[n]
  BY DEF FlattenSeq
<1> HIDE DEF f
<1> QED
  BY <1>1, <1>2 DEF Joins

LEMMA FlattenNone == FlattenSeq(<< >>) = << >>
BY DEF FlattenSeq

LEMMA FlattenAppend ==
  ASSUME NEW S, NEW p \in Seq(Seq(S)), NEW x \in Seq(S)
  PROVE  FlattenSeq(Append(p, x)) = IF p = << >> THEN x ELSE FlattenSeq(p) \o x
<1> DEFINE n == Len(p)
           q == Append(p, x)
<1>1. /\ n \in Nat /\ Len(q) = n + 1 /\ q[n + 1] = x /\ \A i \in 1 .. n : q[i] = p[i]
      /\ p = << >> <=> n = 0
  OBVIOUS
<1> HIDE DEF q
<1>2. PICK g : Joins(g, q, n + 1) /\ FlattenSeq(q) = g[n + 1]
  BY <1>1, FlattenJoins
<1>3. g[n + 1] = IF n + 1 = 1 THEN x ELSE g[n] \o x
  <2>1. n + 1 \in 1 .. n + 1 /\ n + 1 \in Nat /\ (n + 1) - 1 = n
    BY <1>1
  <2>2. g[n + 1] = IF n + 1 = 1 THEN q[n + 1] ELSE g[(n + 1) - 1] \o q[n + 1]
    BY <1>2, <2>1, JoinsStep
  <2> QED
    BY <1>1, <2>1, <2>2
<1>4. CASE n = 0
  BY <1>1, <1>2, <1>3, <1>4 DEF q
<1>5. CASE n # 0
  <2>1. PICK f : Joins(f, p, n) /\ FlattenSeq(p) = f[n]
    BY <1>1, <1>5, FlattenJoins
  <2>2. n \in Nat /\ n + 1 \in Nat /\ n <= n + 1 /\ \A i \in 1 .. n : p[i] = q[i]
    BY <1>1
  <2> DEFINE m == n + 1
  <2>3. Joins(g, q, m) /\ m \in Nat /\ n <= m
    BY <1>2, <2>2
  <2>4. n \in 1 .. n
    BY <1>1, <1>5
  <2> HIDE DEF m, n
  <2>5. \A i \in 1 .. n : f[i] = g[i]
    BY <2>1, <2>2, <2>3, JoinsAlike
  <2>6. f[n] = g[n]
    BY <2>4, <2>5
  <2>7. n + 1 # 1
    BY <1>1, <1>5
  <2> QED
    BY <1>1, <1>2, <1>3, <1>5, <2>1, <2>6, <2>7 DEF q
<1> QED
  BY <1>4, <1>5

-----------------------------------------------------------------------------
(***************************************************************************)
(* The fragments of a hello.                                               *)
(***************************************************************************)
LEMMA HelloFacts ==
  ASSUME NEW data \in Hellos
  PROVE  data \in Seq(HelloBytes) /\ Len(data) \in Nat /\ Len(data) >= 1
<1>1. data \in Seq(HelloBytes) /\ data # << >>
  BY RequestHeadAssumption
<1> HIDE DEF HelloBytes
<1> QED
  BY <1>1

\* Only the version is written over.
LEMMA StampedIs ==
  ASSUME NEW data \in Hellos, Len(data) >= 3
  PROVE  /\ Stamped(data) \in Seq(HelloBytes) /\ Len(Stamped(data)) = Len(data)
         /\ \A i \in 1 .. Len(data) :
              Stamped(data)[i] = IF i \in {2, 3} THEN TlsVersion[i - 1] ELSE data[i]
<1> DEFINE n == Len(data)
           b == SubSeq(data, 4, n)
           a == <<data[1]>> \o TlsVersion
<1>1. /\ data \in Seq(HelloBytes) /\ n \in Nat /\ n >= 3
      /\ TlsVersion \in Seq(HelloBytes) /\ Len(TlsVersion) = 2
  BY HelloFacts, RequestHeadAssumption
<1>2. \A i \in 1 .. n : data[i] \in HelloBytes
  BY <1>1
<1>3. /\ a \in Seq(HelloBytes) /\ Len(a) = 3
      /\ a[1] = data[1] /\ a[2] = TlsVersion[1] /\ a[3] = TlsVersion[2]
  <2> DEFINE c == <<data[1]>>
  <2>1. c \in Seq(HelloBytes) /\ Len(c) = 1 /\ c[1] = data[1]
    BY <1>1, <1>2
  <2> HIDE DEF c
  <2>2. /\ c \o TlsVersion \in Seq(HelloBytes) /\ Len(c \o TlsVersion) = 3
        /\ \A i \in 1 .. 3 : (c \o TlsVersion)[i] = IF i <= 1 THEN c[i] ELSE TlsVersion[i - 1]
    <3>1. Len(c) + Len(TlsVersion) = 3
      BY <1>1, <2>1
    <3>2. /\ c \o TlsVersion \in Seq(HelloBytes)
          /\ Len(c \o TlsVersion) = Len(c) + Len(TlsVersion)
          /\ \A i \in 1 .. Len(c) + Len(TlsVersion) :
               (c \o TlsVersion)[i] = IF i <= Len(c) THEN c[i] ELSE TlsVersion[i - Len(c)]
      BY <1>1, <2>1, ConcatProperties
    <3> QED
      BY <2>1, <3>1, <3>2
  <2> QED
    BY <2>1, <2>2 DEF c
<1>4. b \in Seq(HelloBytes) /\ Len(b) = n - 3 /\ \A i \in 1 .. n - 3 : b[i] = data[i + 3]
  <2>1. /\ b \in Seq(HelloBytes) /\ Len(b) = IF 4 <= n THEN n - 4 + 1 ELSE 0
        /\ \A i \in 1 .. n - 4 + 1 : b[i] = data[4 + i - 1]
    BY <1>1, <1>2, SubSeqProperties
  <2> HIDE DEF b
  <2>2. (IF 4 <= n THEN n - 4 + 1 ELSE 0) = n - 3 /\ n - 4 + 1 = n - 3
    <3>1. n \in Nat /\ n >= 3
      BY <1>1
    <3> HIDE DEF n
    <3> QED
      BY <3>1
  <2>3. \A i \in 1 .. n - 3 : 4 + i - 1 = i + 3
    OBVIOUS
  <2>4. \A i \in 1 .. n - 3 : b[i] = data[4 + i - 1]
    BY <2>1, <2>2
  <2> QED
    BY <2>1, <2>2, <2>3, <2>4
<1> HIDE DEF a, b
<1>5. /\ a \o b \in Seq(HelloBytes) /\ Len(a \o b) = n
      /\ \A i \in 1 .. n : (a \o b)[i] = IF i <= 3 THEN a[i] ELSE b[i - 3]
  <2>1. Len(a) + Len(b) = n
    BY <1>1, <1>3, <1>4
  <2>2. /\ a \o b \in Seq(HelloBytes) /\ Len(a \o b) = Len(a) + Len(b)
        /\ \A i \in 1 .. Len(a) + Len(b) :
             (a \o b)[i] = IF i <= Len(a) THEN a[i] ELSE b[i - Len(a)]
    <3>1. a \in Seq(HelloBytes) /\ b \in Seq(HelloBytes)
      BY <1>3, <1>4
    <3> QED
      BY <3>1, ConcatProperties
  <2> QED
    BY <1>3, <2>1, <2>2
<1>6. Stamped(data) = a \o b
  <2>1. Stamped(data) = <<data[1]>> \o TlsVersion \o SubSeq(data, 4, Len(data))
    BY DEF Stamped
  <2> QED
    BY <2>1 DEF a, b
<1>7. ASSUME NEW i \in 1 .. n
      PROVE  (a \o b)[i] = IF i \in {2, 3} THEN TlsVersion[i - 1] ELSE data[i]
  <2>1. CASE i <= 3
    BY <1>3, <1>5, <2>1
  <2>2. CASE i > 3
    <3>1. i - 3 \in 1 .. n - 3 /\ (i - 3) + 3 = i
      BY <1>1, <2>2
    <3>2. b[i - 3] = data[(i - 3) + 3]
      BY <1>4, <3>1
    <3> QED
      BY <1>5, <2>2, <3>1, <3>2
  <2>3. i <= 3 \/ i > 3
    BY <1>1
  <2> QED
    BY <2>1, <2>2, <2>3, Zenon
<1> QED
  BY <1>5, <1>6, <1>7

\* The fragment that begins behind the first c bytes.
LEMMA SubarrayIs ==
  ASSUME NEW s \in Seq(HelloBytes), NEW c \in Nat, c < Len(s), NEW k \in Nat \ {0}
  PROVE  LET e == IF c + k <= Len(s) THEN c + k ELSE Len(s)
             x == Subarray(s, c, c + k)
         IN  /\ x = SubSeq(s, c + 1, e)
             /\ x \in Seq(HelloBytes) /\ Len(x) = e - c
             /\ SubSeq(s, 1, c) \o x = SubSeq(s, 1, e)
<1> DEFINE n == Len(s)
           e == IF c + k <= n THEN c + k ELSE n
           x == SubSeq(s, c + 1, e)
<1>1. n \in Nat /\ e \in Nat /\ c + 1 <= e /\ e <= n
  OBVIOUS
<1>2. Min({c + k, n}) = e
  BY <1>1 DEF Min
<1>3. Subarray(s, c, c + k) = x
  BY <1>2 DEF Subarray
<1>4. \A i \in 1 .. n : s[i] \in HelloBytes
  OBVIOUS
<1> HIDE DEF e
<1>5. x \in Seq(HelloBytes) /\ Len(x) = e - c
  <2>1. /\ x \in Seq(HelloBytes) /\ Len(x) = IF c + 1 <= e THEN e - (c + 1) + 1 ELSE 0
    <3>1. c + 1 \in Int /\ e \in Int /\ \A i \in c + 1 .. e : s[i] \in HelloBytes
      BY <1>1, <1>4
    <3> QED
      BY <3>1, SubSeqProperties
  <2> HIDE DEF x
  <2> QED
    BY <1>1, <2>1
<1>6. SubSeq(s, 1, c) \o x = SubSeq(s, 1, e)
  BY <1>1, ConcatAdjacentSubSeq
<1> QED
  BY <1>3, <1>5, <1>6 DEF e

\* While the fragments go out, those written are the beginning of the stamped record,
\* all of the size asked for except the one that reaches its end.
Written ==
  /\ hello \in Hellos /\ IsHandshake(hello) /\ Len(hello) >= 3 /\ size > 0
  /\ cut \in Nat /\ pieces \in Seq(Seq(HelloBytes))
  /\ IF cut < Len(hello)
     THEN /\ FlattenSeq(pieces) = SubSeq(Stamped(hello), 1, cut)
          /\ \A i \in 1 .. Len(pieces) : Len(pieces[i]) = size
     ELSE /\ FlattenSeq(pieces) = Stamped(hello)
          /\ \A i \in 1 .. Len(pieces) - 1 : Len(pieces[i]) = size
          /\ pieces # << >> /\ Len(pieces[Len(pieces)]) \in 1 .. size

HelloInv ==
  /\ size \in Nat
  /\ step \in {"request", "hello"} => pieces = << >> /\ cut = 0
  /\ step \in {"headers", "rest", "done", "refused"} => pieces = << >>
  /\ step = "fragments" => Written
  /\ HelloIntact

LEMMA FragmentStep ==
  ASSUME Written, size \in Nat, cut < Len(hello),
         pieces' = Append(pieces, Subarray(Stamped(hello), cut, cut + size)),
         cut' = cut + size, hello' = hello, size' = size
  PROVE  Written'
<1> DEFINE st == Stamped(hello)
           n  == Len(hello)
           e  == IF cut + size <= Len(st) THEN cut + size ELSE Len(st)
           x  == Subarray(st, cut, cut + size)
           p  == pieces
           q  == Append(p, x)
<1>1. /\ hello \in Hellos /\ IsHandshake(hello) /\ n >= 3 /\ size \in Nat \ {0}
      /\ cut \in Nat /\ p \in Seq(Seq(HelloBytes))
      /\ FlattenSeq(p) = SubSeq(st, 1, cut)
      /\ \A i \in 1 .. Len(p) : Len(p[i]) = size
  BY DEF Written
<1>2. st \in Seq(HelloBytes) /\ Len(st) = n /\ n \in Nat
  BY <1>1, StampedIs, HelloFacts
<1> HIDE DEF st
<1>3. /\ x = SubSeq(st, cut + 1, e) /\ x \in Seq(HelloBytes) /\ Len(x) = e - cut
      /\ SubSeq(st, 1, cut) \o x = SubSeq(st, 1, e)
  <2>1. cut < Len(st)
    BY <1>2
  <2> QED
    BY <1>1, <1>2, <2>1, SubarrayIs
<1> HIDE DEF x
<1>4. FlattenSeq(q) = SubSeq(st, 1, e)
  <2>1. FlattenSeq(q) = IF p = << >> THEN x ELSE FlattenSeq(p) \o x
    BY <1>1, <1>3, FlattenAppend
  <2>2. CASE p = << >>
    <3>1. SubSeq(st, 1, cut) = << >>
      BY <1>1, <2>2, FlattenNone
    <3>2. << >> \o x = x
      BY <1>3, ConcatEmptySeq
    <3> QED
      BY <1>3, <2>1, <2>2, <3>1, <3>2
  <2>3. CASE p # << >>
    BY <1>1, <1>3, <2>1, <2>3
  <2> QED
    BY <2>2, <2>3
<1>5. /\ q \in Seq(Seq(HelloBytes)) /\ Len(q) = Len(p) + 1 /\ Len(p) \in Nat
      /\ q[Len(p) + 1] = x /\ \A i \in 1 .. Len(p) : q[i] = p[i]
  BY <1>1, <1>3
<1> HIDE DEF q, p
<1>6. cut + size \in Nat /\ \A i \in 1 .. Len(q) - 1 : Len(q[i]) = size
  <2>1. Len(q) - 1 = Len(p)
    BY <1>5
  <2> QED
    BY <1>1, <1>5, <2>1
<1>7. CASE cut + size < n
  <2>1. e = cut + size /\ Len(x) = size
    BY <1>1, <1>2, <1>3, <1>7
  <2>2. \A i \in 1 .. Len(q) : Len(q[i]) = size
    <3>1. \A i \in 1 .. Len(q) : i \in 1 .. Len(q) - 1 \/ i = Len(p) + 1
      BY <1>5
    <3> QED
      BY <1>5, <1>6, <2>1, <3>1
  <2> QED
    BY <1>1, <1>4, <1>5, <1>6, <1>7, <2>1, <2>2 DEF Written, IsHandshake, st, p, q, x
<1>8. CASE ~(cut + size < n)
  <2>1. e = n /\ Len(x) \in 1 .. size
    BY <1>1, <1>2, <1>3, <1>8
  <2>2. SubSeq(st, 1, n) = st
    BY <1>2, SubSeqFull
  <2>3. q # << >> /\ q[Len(q)] = x
    BY <1>5
  <2> QED
    BY <1>1, <1>4, <1>5, <1>6, <1>8, <2>1, <2>2, <2>3 DEF Written, IsHandshake, st, p, q, x
<1> QED
  BY <1>7, <1>8

\* The whole of what was written, when the loop over the fragments ends.
Whole ==
  /\ Len(FlattenSeq(pieces)) = Len(hello)
  /\ \A i \in DOMAIN hello :
       FlattenSeq(pieces)[i]
         = IF IsHandshake(hello) /\ i \in {2, 3} THEN TlsVersion[i - 1] ELSE hello[i]
  /\ IsHandshake(hello) /\ size > 0 =>
       /\ \A i \in 1 .. Len(pieces) - 1 : Len(pieces[i]) = size
       /\ Len(pieces[Len(pieces)]) \in 1 .. size

LEMMA AllWritten ==
  ASSUME Written, cut >= Len(hello)
  PROVE  Whole
<1>1. /\ hello \in Hellos /\ IsHandshake(hello) /\ Len(hello) >= 3 /\ Len(hello) \in Nat
      /\ cut \in Nat /\ hello \in Seq(HelloBytes)
  BY HelloFacts DEF Written
<1>2. /\ FlattenSeq(pieces) = Stamped(hello)
      /\ \A i \in 1 .. Len(pieces) - 1 : Len(pieces[i]) = size
      /\ Len(pieces[Len(pieces)]) \in 1 .. size
  BY <1>1 DEF Written
<1>3. /\ Len(Stamped(hello)) = Len(hello)
      /\ \A i \in 1 .. Len(hello) :
           Stamped(hello)[i] = IF i \in {2, 3} THEN TlsVersion[i - 1] ELSE hello[i]
  BY <1>1, StampedIs
<1>4. DOMAIN hello = 1 .. Len(hello)
  BY <1>1
<1> QED
  BY <1>1, <1>2, <1>3, <1>4 DEF Whole

\* What goes out in one write.
LEMMA OneWrite ==
  ASSUME NEW data \in Hellos, hello' = data, IsHandshake(data) => Len(data) >= 3 /\ ~(size' > 0),
         pieces' = <<IF IsHandshake(data) THEN Stamped(data) ELSE data>>
  PROVE  HelloIntact'
<1> DEFINE x == IF IsHandshake(data) THEN Stamped(data) ELSE data
<1>1. data \in Seq(HelloBytes) /\ Len(data) \in Nat /\ DOMAIN data = 1 .. Len(data)
  BY HelloFacts
<1>2. /\ x \in Seq(HelloBytes) /\ Len(x) = Len(data)
      /\ \A i \in 1 .. Len(data) :
           x[i] = IF IsHandshake(data) /\ i \in {2, 3} THEN TlsVersion[i - 1] ELSE data[i]
  BY <1>1, StampedIs
<1> HIDE DEF x
<1>3. FlattenSeq(<<x>>) = x
  <2>1. << >> \in Seq(Seq(HelloBytes)) /\ Append(<< >>, x) = <<x>>
    OBVIOUS
  <2> QED
    BY <1>2, <2>1, FlattenAppend
<1>4. pieces' = <<x>>
  BY DEF x
<1> QED
  BY <1>1, <1>2, <1>3, <1>4 DEF HelloIntact, IsHandshake

LEMMA HelloInit == Init => HelloInv
BY RequestHeadAssumption DEF Init, HelloInv, HelloIntact

\* Every step keeps the invariant; before the hello comes, nothing of it is written.
LEMMA HelloStep == HelloInv /\ [Next]_vars => HelloInv'
<1> SUFFICES ASSUME HelloInv, [Next]_vars PROVE HelloInv'
  OBVIOUS
<1>1. CASE Refuse \/ RequestLine \/ HeaderLine \/ Rest \/ Tunnel \/ HelloThrows
  <2>1. size' = size /\ pieces' = pieces /\ cut' = cut
    BY <1>1 DEF Refuse, RequestLine, HeaderLine, Rest, Tunnel, HelloThrows, helloVars
  <2>2. /\ step \in {"request", "headers", "rest", "hello"}
        /\ step' \in {"refused", "headers", "rest", "done", "hello", "relayed", "thrown"}
        /\ step' = "relayed" => ~obfuscate'
        /\ step' = "hello" => step = "request"
    BY <1>1 DEF Refuse, RequestLine, HeaderLine, Rest, Tunnel, HelloThrows
  <2>3. HelloIntact'
    BY <2>2 DEF HelloIntact
  <2> QED
    BY <2>1, <2>2, <2>3 DEF HelloInv
<1>2. CASE HelloData
  <2>1. PICK data \in Hellos :
          /\ IsHandshake(data) => Len(data) >= 3
          /\ hello' = data
          /\ IF IsHandshake(data) /\ size > 0
             THEN step' = "fragments" /\ UNCHANGED pieces
             ELSE /\ step' = "relayed"
                  /\ pieces' = <<IF IsHandshake(data) THEN Stamped(data) ELSE data>>
    BY <1>2 DEF HelloData
  <2>2. size' = size /\ cut' = 0 /\ pieces = << >> /\ size \in Nat
    BY <1>2 DEF HelloData, HelloInv
  <2>3. CASE IsHandshake(data) /\ size > 0
    <3>1. Len(data) >= 3 /\ Len(data) \in Nat /\ pieces' = << >> /\ step' = "fragments"
      BY <2>1, <2>2, <2>3, HelloFacts
    <3>2. FlattenSeq(pieces') = SubSeq(Stamped(data), 1, 0)
      <4>1. SubSeq(Stamped(data), 1, 0) = << >>
        BY SubSeqEmpty
      <4> QED
        BY <3>1, <4>1, FlattenNone
    <3>3. Written'
      BY <2>1, <2>2, <2>3, <3>1, <3>2 DEF Written, IsHandshake
    <3> QED
      BY <2>2, <3>1, <3>3 DEF HelloInv, HelloIntact
  <2>4. CASE ~(IsHandshake(data) /\ size > 0)
    <3>1. HelloIntact' /\ step' = "relayed"
      BY <2>1, <2>2, <2>4, OneWrite
    <3> QED
      BY <2>2, <3>1 DEF HelloInv
  <2> QED
    BY <2>3, <2>4
<1>3. CASE Fragment
  <2>1. step = "fragments" /\ Written /\ size \in Nat /\ size' = size /\ hello' = hello
    BY <1>3 DEF Fragment, HelloInv
  <2>2. Len(hello) \in Nat /\ cut \in Nat
    BY <2>1, HelloFacts DEF Written
  <2>3. CASE cut < Len(hello)
    <3>1. /\ pieces' = Append(pieces, Subarray(Stamped(hello), cut, cut + size))
          /\ cut' = cut + size /\ step' = "fragments"
      BY <1>3, <2>1, <2>3 DEF Fragment
    <3>2. Written'
      BY <2>1, <2>3, <3>1, FragmentStep
    <3> QED
      BY <2>1, <3>1, <3>2 DEF HelloInv, HelloIntact
  <2>4. CASE ~(cut < Len(hello))
    <3>1. step' = "relayed" /\ pieces' = pieces /\ cut' = cut
      BY <1>3, <2>1, <2>4 DEF Fragment
    <3>2. Whole
      BY <2>1, <2>2, <2>4, AllWritten
    <3>3. HelloIntact'
      BY <2>1, <3>1, <3>2 DEF HelloIntact, Whole, IsHandshake
    <3> QED
      BY <2>1, <3>1, <3>3 DEF HelloInv
  <2> QED
    BY <2>3, <2>4
<1>4. CASE UNCHANGED vars
  <2>1. /\ size' = size /\ step' = step /\ obfuscate' = obfuscate
        /\ hello' = hello /\ cut' = cut /\ pieces' = pieces
    BY <1>4 DEF vars, headVars, helloVars
  <2> QED
    BY <2>1 DEF HelloInv, HelloIntact, Written, IsHandshake
<1> QED
  BY <1>1, <1>2, <1>3, <1>4 DEF Next

\* Whatever the sizes of the hello and of a fragment, and also where the last fragment is
\* shorter or the version lies across two, the upstream gets the hello with its version
\* changed and nothing else (lines 266 to 280).
THEOREM FragmentsMakeUpTheHello == Spec => []HelloIntact
<1>1. HelloInv => HelloIntact
  BY DEF HelloInv
<1> QED
  BY <1>1, HelloInit, HelloStep, PTL DEF Spec

-----------------------------------------------------------------------------
(***************************************************************************)
(* The content of a sequence: that of its parts, one after the other.      *)
(***************************************************************************)
\* What a single byte adds to the content.
Kept(b) == IF IsContent(b) THEN <<b>> ELSE << >>

KeptOf(s) == [i \in DOMAIN s |-> Kept(s[i])]

LEMMA KeptIs == ASSUME NEW S, NEW b \in S PROVE Kept(b) \in Seq(S)
<1>1. <<b>> \in Seq(S) /\ << >> \in Seq(S)
  OBVIOUS
<1> QED
  BY <1>1 DEF Kept

LEMMA ContentIs == ASSUME NEW s PROVE Content(s) = FlattenSeq(KeptOf(s))
BY DEF Content, KeptOf, Kept

LEMMA KeptOfIs ==
  ASSUME NEW S, NEW s \in Seq(S)
  PROVE  KeptOf(s) \in Seq(Seq(S)) /\ Len(KeptOf(s)) = Len(s)
<1>1. Len(s) \in Nat /\ DOMAIN s = 1 .. Len(s) /\ \A i \in 1 .. Len(s) : s[i] \in S
  OBVIOUS
<1>2. \A i \in 1 .. Len(s) : Kept(s[i]) \in Seq(S)
  BY <1>1, KeptIs
<1>3. KeptOf(s) = [i \in 1 .. Len(s) |-> Kept(s[i])]
  BY <1>1 DEF KeptOf
<1> QED
  BY <1>1, <1>2, <1>3

LEMMA KeptOfAppend ==
  ASSUME NEW S, NEW s \in Seq(S), NEW b \in S
  PROVE  KeptOf(Append(s, b)) = Append(KeptOf(s), Kept(b))
<1> DEFINE t == Append(s, b)
           l == KeptOf(t)
           r == Append(KeptOf(s), Kept(b))
           n == Len(s)
<1>1. /\ n \in Nat /\ t \in Seq(S) /\ Len(t) = n + 1 /\ t[n + 1] = b
      /\ \A i \in 1 .. n : t[i] = s[i]
  BY AppendProperties
<1>2. KeptOf(s) \in Seq(Seq(S)) /\ Len(KeptOf(s)) = n /\ Kept(b) \in Seq(S)
  BY KeptOfIs, KeptIs
<1>3. /\ r \in Seq(Seq(S)) /\ Len(r) = n + 1 /\ r[n + 1] = Kept(b)
      /\ \A i \in 1 .. n : r[i] = KeptOf(s)[i]
  BY <1>2, AppendProperties
<1>4. l \in Seq(Seq(S)) /\ Len(l) = n + 1
  BY <1>1, KeptOfIs
<1>5. DOMAIN t = 1 .. n + 1 /\ DOMAIN s = 1 .. n
  BY <1>1
<1>6. \A i \in 1 .. n : KeptOf(s)[i] = Kept(s[i])
  BY <1>5 DEF KeptOf
<1>7. \A i \in 1 .. n + 1 : l[i] = Kept(t[i])
  BY <1>5 DEF KeptOf
<1> HIDE DEF t, l, r, n
<1>8. \A i \in 1 .. n + 1 : l[i] = r[i]
  <2>1. \A i \in 1 .. n + 1 : i \in 1 .. n \/ i = n + 1
    BY <1>1
  <2>2. n + 1 \in 1 .. n + 1 /\ \A i \in 1 .. n : i \in 1 .. n + 1
    BY <1>1
  <2> QED
    BY <1>1, <1>3, <1>6, <1>7, <2>1, <2>2
<1>9. l = r
  BY <1>3, <1>4, <1>8, SeqEqual
<1> QED
  BY <1>9 DEF l, r, t

LEMMA ContentNothing == Content(<< >>) = << >>
<1>1. KeptOf(<< >>) = << >>
  BY DEF KeptOf
<1> QED
  BY <1>1, ContentIs, FlattenNone

LEMMA ContentAppend ==
  ASSUME NEW S, NEW s \in Seq(S), NEW b \in S, Content(s) \in Seq(S)
  PROVE  Content(Append(s, b)) = Content(s) \o Kept(b)
<1>1. KeptOf(s) \in Seq(Seq(S)) /\ Kept(b) \in Seq(S)
  BY KeptOfIs, KeptIs
<1>2. FlattenSeq(Append(KeptOf(s), Kept(b)))
        = IF KeptOf(s) = << >> THEN Kept(b) ELSE FlattenSeq(KeptOf(s)) \o Kept(b)
  BY <1>1, FlattenAppend
<1>3. Content(Append(s, b)) = FlattenSeq(Append(KeptOf(s), Kept(b)))
  BY ContentIs, KeptOfAppend
<1>4. CASE KeptOf(s) = << >>
  <2>1. Content(s) = << >>
    BY <1>4, ContentIs, FlattenNone
  <2> QED
    BY <1>1, <1>2, <1>3, <1>4, <2>1, ConcatEmptySeq
<1>5. CASE KeptOf(s) # << >>
  BY <1>2, <1>3, <1>5, ContentIs
<1> QED
  BY <1>4, <1>5

\* The first n bytes, and one more.
LEMMA Further ==
  ASSUME NEW S, NEW s \in Seq(S), NEW n \in 1 .. Len(s)
  PROVE  /\ SubSeq(s, 1, n - 1) \in Seq(S) /\ s[n] \in S
         /\ SubSeq(s, 1, n) = Append(SubSeq(s, 1, n - 1), s[n])
<1> DEFINE r == SubSeq(s, 1, n - 1)
<1>1. r \in Seq(S) /\ s[n] \in S
  <2>1. \A i \in 1 .. n - 1 : s[i] \in S
    OBVIOUS
  <2> QED
    BY <2>1, SubSeqProperties
<1>2. SubSeq(s, 1, n) = r \o <<s[n]>>
  BY SubSeqRecursiveSecond
<1> HIDE DEF r
<1>3. Append(r, s[n]) = r \o <<s[n]>>
  BY <1>1, AppendIsConcat
<1> QED
  BY <1>1, <1>2, <1>3 DEF r

LEMMA ContentIsASeq ==
  ASSUME NEW S, NEW s \in Seq(S)
  PROVE  Content(s) \in Seq(S)
<1> DEFINE T == {n \in 0 .. Len(s) : Content(SubSeq(s, 1, n)) \notin Seq(S)}
<1>1. SUFFICES ASSUME T # {} PROVE FALSE
  <2>1. Len(s) \notin T /\ Len(s) \in 0 .. Len(s)
    BY <1>1
  <2> QED
    BY <2>1, SubSeqFull
<1>2. PICK n \in T : \A m \in T : n <= m
  <2>1. T \in SUBSET Nat
    OBVIOUS
  <2> HIDE DEF T
  <2> QED
    BY <1>1, <2>1, LeastNumber
<1>3. n # 0
  <2>1. SubSeq(s, 1, 0) = << >>
    BY SubSeqEmpty
  <2>2. Content(SubSeq(s, 1, 0)) \in Seq(S)
    BY <2>1, ContentNothing, EmptySeq
  <2> QED
    BY <1>2, <2>2
<1>4. n \in 1 .. Len(s) /\ n - 1 \in 0 .. Len(s) /\ n - 1 \notin T
  BY <1>2, <1>3
<1> DEFINE r == SubSeq(s, 1, n - 1)
<1>5. r \in Seq(S) /\ s[n] \in S /\ Content(r) \in Seq(S) /\ SubSeq(s, 1, n) = Append(r, s[n])
  BY <1>4, Further
<1> HIDE DEF r
<1>6. Content(SubSeq(s, 1, n)) = Content(r) \o Kept(s[n])
  BY <1>5, ContentAppend
<1>7. Content(r) \o Kept(s[n]) \in Seq(S)
  BY <1>5, KeptIs, ConcatProperties
<1> QED
  BY <1>2, <1>6, <1>7

LEMMA ContentConcat ==
  ASSUME NEW S, NEW a \in Seq(S), NEW b \in Seq(S)
  PROVE  Content(a \o b) = Content(a) \o Content(b)
<1> DEFINE T == {n \in 0 .. Len(b) :
                   Content(a \o SubSeq(b, 1, n)) # Content(a) \o Content(SubSeq(b, 1, n))}
<1>1. SUFFICES ASSUME T # {} PROVE FALSE
  <2>1. Len(b) \notin T /\ Len(b) \in 0 .. Len(b)
    BY <1>1
  <2> QED
    BY <2>1, SubSeqFull
<1>2. PICK n \in T : \A m \in T : n <= m
  <2>1. T \in SUBSET Nat
    OBVIOUS
  <2> HIDE DEF T
  <2> QED
    BY <1>1, <2>1, LeastNumber
<1>3. n # 0
  <2>1. SubSeq(b, 1, 0) = << >>
    BY SubSeqEmpty
  <2>2. a \o << >> = a /\ Content(a) \o << >> = Content(a)
    BY ContentIsASeq, ConcatEmptySeq
  <2> QED
    BY <1>2, <2>1, <2>2, ContentNothing
<1>4. n \in 1 .. Len(b) /\ n - 1 \in 0 .. Len(b) /\ n - 1 \notin T
  BY <1>2, <1>3
<1> DEFINE r == SubSeq(b, 1, n - 1)
           x == b[n]
<1>5. /\ r \in Seq(S) /\ x \in S /\ SubSeq(b, 1, n) = Append(r, x)
      /\ Content(a \o r) = Content(a) \o Content(r)
  BY <1>4, Further
<1>6. Content(a \o Append(r, x)) # Content(a) \o Content(Append(r, x))
  BY <1>2, <1>5
<1> HIDE DEF r, x
<1>7. /\ Content(a) \in Seq(S) /\ Content(r) \in Seq(S) /\ a \o r \in Seq(S)
      /\ Content(a \o r) \in Seq(S) /\ Kept(x) \in Seq(S)
  <2>1. a \o r \in Seq(S)
    BY <1>5, ConcatProperties
  <2> QED
    BY <1>5, <2>1, ContentIsASeq, KeptIs
<1>8. a \o Append(r, x) = Append(a \o r, x)
  <2>1. Append(r, x) = r \o <<x>> /\ Append(a \o r, x) = (a \o r) \o <<x>>
    BY <1>5, <1>7, AppendIsConcat
  <2>2. <<x>> \in Seq(S)
    BY <1>5
  <2> QED
    BY <1>5, <2>1, <2>2, ConcatAssociative
<1>9. /\ Content(Append(a \o r, x)) = Content(a \o r) \o Kept(x)
      /\ Content(Append(r, x)) = Content(r) \o Kept(x)
  BY <1>5, <1>7, ContentAppend
<1>10. (Content(a) \o Content(r)) \o Kept(x) = Content(a) \o (Content(r) \o Kept(x))
  <2> HIDE DEF T
  <2> DEFINE p == Content(a)
             q == Content(r)
             w == Kept(x)
  <2>1. p \in Seq(S) /\ q \in Seq(S) /\ w \in Seq(S)
    BY <1>7
  <2> HIDE DEF p, q, w
  <2>2. (p \o q) \o w = p \o (q \o w)
    BY <2>1, ConcatAssociative
  <2> QED
    BY <2>2 DEF p, q, w
<1> QED
  BY <1>5, <1>6, <1>8, <1>9, <1>10

LEMMA ContentNone ==
  ASSUME NEW S, NEW s \in Seq(S), \A i \in 1 .. Len(s) : ~IsContent(s[i])
  PROVE  Content(s) = << >>
<1> DEFINE T == {n \in 0 .. Len(s) : Content(SubSeq(s, 1, n)) # << >>}
<1>1. SUFFICES ASSUME T # {} PROVE FALSE
  <2>1. Len(s) \notin T /\ Len(s) \in 0 .. Len(s)
    BY <1>1
  <2> QED
    BY <2>1, SubSeqFull
<1>2. PICK n \in T : \A m \in T : n <= m
  <2>1. T \in SUBSET Nat
    OBVIOUS
  <2> HIDE DEF T
  <2> QED
    BY <1>1, <2>1, LeastNumber
<1>3. n # 0
  <2>1. SubSeq(s, 1, 0) = << >>
    BY SubSeqEmpty
  <2> QED
    BY <1>2, <2>1, ContentNothing
<1>4. n \in 1 .. Len(s) /\ n - 1 \in 0 .. Len(s) /\ n - 1 \notin T
  BY <1>2, <1>3
<1> DEFINE r == SubSeq(s, 1, n - 1)
<1>5. r \in Seq(S) /\ s[n] \in S /\ Content(r) = << >> /\ SubSeq(s, 1, n) = Append(r, s[n])
  BY <1>4, Further
<1> HIDE DEF r
<1>6. Content(SubSeq(s, 1, n)) = Content(r) \o Kept(s[n])
  BY <1>5, ContentAppend, ContentIsASeq
<1>7. Kept(s[n]) = << >>
  BY <1>4 DEF Kept
<1>8. Content(SubSeq(s, 1, n)) = << >>
  BY <1>5, <1>6, <1>7, ConcatEmptySeq, EmptySeq
<1> QED
  BY <1>2, <1>8

LEMMA PartIs ==
  ASSUME NEW S, NEW s \in Seq(S), NEW m \in Nat \ {0}, NEW n \in Int, n <= Len(s)
  PROVE  /\ SubSeq(s, m, n) \in Seq(S)
         /\ Len(SubSeq(s, m, n)) = IF m <= n THEN n - m + 1 ELSE 0
         /\ \A i \in 1 .. n - m + 1 : SubSeq(s, m, n)[i] = s[m + i - 1]
<1>1. \A i \in m .. n : s[i] \in S
  OBVIOUS
<1> QED
  BY <1>1, SubSeqProperties

LEMMA ContentSplit ==
  ASSUME NEW S, NEW s \in Seq(S), NEW m \in 1 .. Len(s) + 1, NEW k \in m - 1 .. Len(s),
         NEW n \in k .. Len(s)
  PROVE  Content(SubSeq(s, m, n)) = Content(SubSeq(s, m, k)) \o Content(SubSeq(s, k + 1, n))
<1> DEFINE a == SubSeq(s, m, k)
           b == SubSeq(s, k + 1, n)
<1>1. a \in Seq(S)
  <2>1. m \in Nat \ {0} /\ k \in Int /\ k <= Len(s)
    OBVIOUS
  <2> QED
    BY <2>1, PartIs
<1>2. b \in Seq(S)
  <2>1. k + 1 \in Nat \ {0} /\ n \in Int /\ n <= Len(s)
    OBVIOUS
  <2> QED
    BY <2>1, PartIs
<1>3. a \o b = SubSeq(s, m, n)
  BY ConcatAdjacentSubSeq
<1> HIDE DEF a, b
<1>4. Content(a \o b) = Content(a) \o Content(b)
  BY <1>1, <1>2, ContentConcat
<1> QED
  BY <1>3, <1>4 DEF a, b

LEMMA ContentQuiet ==
  ASSUME NEW S, NEW s \in Seq(S), NEW m \in Nat \ {0}, NEW n \in Int, n <= Len(s),
         \A i \in m .. n : ~IsContent(s[i])
  PROVE  Content(SubSeq(s, m, n)) = << >>
<1> DEFINE a == SubSeq(s, m, n)
<1>1. /\ a \in Seq(S) /\ Len(a) = IF m <= n THEN n - m + 1 ELSE 0
      /\ \A i \in 1 .. n - m + 1 : a[i] = s[m + i - 1]
  BY PartIs
<1>2. \A i \in 1 .. n - m + 1 : m + i - 1 \in m .. n
  OBVIOUS
<1> HIDE DEF a
<1>3. \A i \in 1 .. Len(a) : i \in 1 .. n - m + 1
  BY <1>1
<1>4. \A i \in 1 .. Len(a) : ~IsContent(a[i])
  BY <1>1, <1>2, <1>3
<1>5. Content(a) = << >>
  BY <1>1, <1>4, ContentNone
<1> QED
  BY <1>5 DEF a

LEMMA ContentOne ==
  ASSUME NEW S, NEW b \in S
  PROVE  <<b>> \in Seq(S) /\ Content(<<b>>) = Kept(b)
<1>1. <<b>> \in Seq(S) /\ << >> \in Seq(S)
  OBVIOUS
<1>2. Content(Append(<< >>, b)) = << >> \o Kept(b)
  BY <1>1, ContentAppend, ContentNothing
<1>3. Append(<< >>, b) = <<b>>
  OBVIOUS
<1> QED
  BY <1>1, <1>2, <1>3, KeptIs, ConcatEmptySeq

\* What lies outside adds nothing.
LEMMA ContentWithin ==
  ASSUME NEW S, NEW s \in Seq(S), NEW i \in 1 .. Len(s) + 1, NEW j \in i - 1 .. Len(s),
         \A k \in 1 .. Len(s) : k \notin i .. j => ~IsContent(s[k])
  PROVE  Content(s) = Content(SubSeq(s, i, j))
<1> DEFINE n == Len(s)
           a == Content(SubSeq(s, 1, i - 1))
           b == Content(SubSeq(s, i, j))
           c == Content(SubSeq(s, j + 1, n))
           d == Content(SubSeq(s, i, n))
<1>1. n \in Nat
  OBVIOUS
<1>2. a = << >>
  <2>1. /\ 1 \in Nat \ {0} /\ i - 1 \in Int /\ i - 1 <= Len(s)
        /\ \A k \in 1 .. i - 1 : ~IsContent(s[k])
    BY <1>1
  <2> QED
    BY <2>1, ContentQuiet
<1>3. c = << >>
  <2>1. /\ j + 1 \in Nat \ {0} /\ n \in Int /\ n <= Len(s)
        /\ \A k \in j + 1 .. n : ~IsContent(s[k])
    BY <1>1
  <2> QED
    BY <2>1, ContentQuiet
<1>4. b \in Seq(S) /\ d \in Seq(S)
  <2>1. i \in Nat \ {0} /\ j \in Int /\ n \in Int /\ j <= n /\ n <= n
    BY <1>1
  <2>2. SubSeq(s, i, j) \in Seq(S) /\ SubSeq(s, i, n) \in Seq(S)
    BY <2>1, PartIs
  <2> QED
    BY <2>2, ContentIsASeq
<1>5. Content(SubSeq(s, 1, n)) = a \o d
  <2>1. /\ i - 1 \in 1 - 1 .. Len(s) /\ n \in i - 1 .. Len(s)
        /\ (i - 1) + 1 = i /\ 1 \in 1 .. Len(s) + 1
    BY <1>1
  <2>2. Content(SubSeq(s, 1, n))
          = Content(SubSeq(s, 1, i - 1)) \o Content(SubSeq(s, (i - 1) + 1, n))
    BY <2>1, ContentSplit
  <2> QED
    BY <2>1, <2>2
<1>6. d = b \o c
  <2>1. n \in j .. Len(s)
    BY <1>1
  <2> QED
    BY <2>1, ContentSplit
<1>7. Content(s) = a \o d
  BY <1>5, SubSeqFull
<1> HIDE DEF a, b, c, d
<1>8. a \o d = d /\ b \o c = b
  BY <1>2, <1>3, <1>4, ConcatEmptySeq
<1> QED
  BY <1>6, <1>7, <1>8 DEF b

\* The next byte with content.
LEMMA ContentNext ==
  ASSUME NEW S, NEW s \in Seq(S), NEW i \in 0 .. Len(s), NEW j \in 1 .. Len(s), i < j,
         \A k \in i + 1 .. j - 1 : ~IsContent(s[k])
  PROVE  Content(SubSeq(s, 1, j)) = Content(SubSeq(s, 1, i)) \o Kept(s[j])
<1> DEFINE r == SubSeq(s, 1, j - 1)
           q == SubSeq(s, 1, i)
<1>1. r \in Seq(S) /\ s[j] \in S /\ SubSeq(s, 1, j) = Append(r, s[j])
  BY Further
<1>2. q \in Seq(S)
  BY PartIs
<1>3. Content(r) = Content(q)
  <2>1. /\ 1 \in 1 .. Len(s) + 1 /\ i \in 1 - 1 .. Len(s) /\ j - 1 \in i .. Len(s)
        /\ i + 1 \in Nat \ {0} /\ j - 1 \in Int /\ j - 1 <= Len(s)
    OBVIOUS
  <2>2. Content(SubSeq(s, 1, j - 1)) = Content(SubSeq(s, 1, i)) \o Content(SubSeq(s, i + 1, j - 1))
    BY <2>1, ContentSplit
  <2>3. Content(SubSeq(s, i + 1, j - 1)) = << >>
    BY <2>1, ContentQuiet
  <2>4. Content(q) \in Seq(S)
    BY <1>2, ContentIsASeq
  <2>5. Content(r) = Content(q) \o << >>
    BY <2>2, <2>3
  <2> HIDE DEF r, q
  <2> QED
    BY <2>4, <2>5, ConcatEmptySeq
<1> HIDE DEF r, q
<1>4. Content(Append(r, s[j])) = Content(r) \o Kept(s[j])
  BY <1>1, ContentAppend, ContentIsASeq
<1> QED
  BY <1>1, <1>3, <1>4 DEF q

-----------------------------------------------------------------------------
(***************************************************************************)
(* The helpers: what each of them keeps of the content.                    *)
(***************************************************************************)
LEMMA MinIs ==
  ASSUME NEW T \in SUBSET Nat, T # {}
  PROVE  Min(T) \in T /\ \A x \in T : Min(T) <= x
BY LeastNumber DEF Min

LEMMA MaxIs ==
  ASSUME NEW T \in SUBSET Nat, T # {}, NEW n \in Nat, \A x \in T : x <= n
  PROVE  Max(T) \in T /\ \A x \in T : x <= Max(T)
<1> DEFINE R == {n - x : x \in T}
<1>1. R \in SUBSET Nat /\ R # {}
  <2>1. \A x \in T : n - x \in Nat
    OBVIOUS
  <2>2. PICK x \in T : TRUE
    OBVIOUS
  <2> QED
    BY <2>1, <2>2
<1> HIDE DEF R
<1>2. PICK y \in R : \A z \in R : y <= z
  BY <1>1, LeastNumber
<1>3. PICK x \in T : y = n - x
  BY DEF R
<1>4. \A z \in T : n - x <= n - z
  BY <1>2, <1>3 DEF R
<1>5. \A z \in T : x >= z
  BY <1>4
<1> QED
  BY <1>5 DEF Max

LEMMA TrimIs ==
  ASSUME NEW S, NEW s \in Seq(S)
  PROVE  Trim(s) \in Seq(S) /\ Content(Trim(s)) = Content(s)
<1> DEFINE kept == {i \in DOMAIN s : s[i] \notin {SP, CR}}
<1>1. kept \in SUBSET Nat /\ \A i \in kept : i \in 1 .. Len(s)
  OBVIOUS
<1>2. \A i \in 1 .. Len(s) : i \notin kept => ~IsContent(s[i])
  BY DEF IsContent
<1>3. Trim(s) = IF kept = {} THEN << >> ELSE SubSeq(s, Min(kept), Max(kept))
  BY DEF Trim
<1> HIDE DEF kept
<1>4. CASE kept = {}
  <2>1. Content(s) = << >>
    BY <1>2, <1>4, ContentNone
  <2> QED
    BY <1>3, <1>4, <2>1, ContentNothing, EmptySeq
<1>5. CASE kept # {}
  <2> DEFINE i == Min(kept)
             j == Max(kept)
  <2>1. i \in kept /\ \A x \in kept : i <= x
    BY <1>1, <1>5, MinIs
  <2>2. j \in kept /\ \A x \in kept : x <= j
    <3>1. Len(s) \in Nat /\ \A x \in kept : x <= Len(s)
      BY <1>1
    <3> QED
      BY <1>1, <1>5, <3>1, MaxIs
  <2> HIDE DEF i, j
  <2>3. i \in 1 .. Len(s) /\ j \in 1 .. Len(s) /\ i <= j
    BY <1>1, <2>1, <2>2
  <2>4. \A k \in 1 .. Len(s) : k \notin i .. j => ~IsContent(s[k])
    BY <1>1, <1>2, <2>1, <2>2
  <2>5. /\ i \in 1 .. Len(s) + 1 /\ j \in i - 1 .. Len(s)
        /\ i \in Nat \ {0} /\ j \in Int /\ j <= Len(s)
    BY <2>3
  <2>6. Content(s) = Content(SubSeq(s, i, j)) /\ SubSeq(s, i, j) \in Seq(S)
    BY <2>4, <2>5, ContentWithin, PartIs
  <2> QED
    BY <1>3, <1>5, <2>6 DEF i, j
<1> QED
  BY <1>4, <1>5

Units == Bytes \cup {MIXED, SEP, NL}

\* A line read holds the content of what is read.
LEMMA ReadLineIs ==
  ASSUME chunk \in Seq(Bytes), NEW at \in 0 .. Len(chunk)
  PROVE  LET line == ReadLine(at)
         IN  /\ line.data \in Seq(Bytes)
             /\ line.size \in Nat /\ at + line.size \in 0 .. Len(chunk)
             /\ Content(SubSeq(chunk, at + 1, at + line.size)) = Content(line.data)
<1> DEFINE n == Len(chunk)
           eol == EndAfter(at)
           line == ReadLine(at)
<1>1. n \in Nat /\ at + 1 \in Nat \ {0}
  OBVIOUS
<1>2. CASE ~(eol > 1)
  <2>1. line.data = SubSeq(chunk, at + 1, n) /\ line.size = n - at
    BY <1>2 DEF ReadLine, Unended
  <2>2. SubSeq(chunk, at + 1, n) \in Seq(Bytes)
    BY <1>1, PartIs
  <2>3. at + (n - at) = n /\ n - at \in Nat
    BY <1>1
  <2> HIDE DEF n, line
  <2> QED
    BY <1>1, <2>1, <2>2, <2>3 DEF n, line
<1>3. CASE eol > 1
  <2> DEFINE e == IF chunk[eol - 1] = CR THEN eol - 2 ELSE eol - 1
  <2>1. line.data = SubSeq(chunk, at + 1, e) /\ line.size = eol - at
    BY <1>3 DEF ReadLine
  <2>2. eol \in at + 1 .. n /\ chunk[eol] = LF
    <3> DEFINE I == {i \in at + 1 .. n : chunk[i] = LF}
    <3>1. eol = IF I # {} THEN Min(I) ELSE 0
      BY DEF EndAfter, SelectInSubSeq
    <3>2. I # {} /\ I \in SUBSET Nat
      BY <1>3, <3>1
    <3>3. \A i \in I : i \in at + 1 .. n /\ chunk[i] = LF
      OBVIOUS
    <3> HIDE DEF I, eol
    <3>4. eol \in I
      BY <3>1, <3>2, MinIs
    <3> QED
      BY <3>3, <3>4
  <2> HIDE DEF eol
  <2>3. /\ e \in Int /\ e <= eol - 1 /\ e >= eol - 2 /\ e <= n
        /\ \A i \in e + 1 .. eol : ~IsContent(chunk[i])
    <3>1. e = eol - 1 \/ (e = eol - 2 /\ chunk[eol - 1] = CR)
      OBVIOUS
    <3>2. e \in Int /\ e <= eol - 1 /\ e >= eol - 2 /\ e <= n
      BY <1>1, <2>2
    <3> HIDE DEF e
    <3>3. \A i \in e + 1 .. eol : i = eol \/ (i = eol - 1 /\ chunk[eol - 1] = CR)
      BY <2>2, <3>1, <3>2
    <3> QED
      BY <2>2, <3>2, <3>3 DEF IsContent
  <2> HIDE DEF e, n
  <2>4. line.data \in Seq(Bytes)
    <3>1. SubSeq(chunk, at + 1, e) \in Seq(Bytes)
      BY <1>1, <2>3, PartIs DEF n
    <3> QED
      BY <2>1, <3>1
  <2>5. line.size \in Nat /\ at + line.size = eol /\ eol \in 0 .. n
    BY <1>1, <2>1, <2>2
  <2>6. Content(SubSeq(chunk, at + 1, eol)) = Content(line.data)
    <3>1. CASE e < at
      <4>1. SubSeq(chunk, at + 1, e) = << >>
        BY <2>3, <3>1, SubSeqEmpty
      <4>2. \A i \in at + 1 .. eol : ~IsContent(chunk[i])
        BY <2>2, <2>3, <3>1
      <4>3. Content(SubSeq(chunk, at + 1, eol)) = << >>
        <5>1. eol \in Int /\ eol <= Len(chunk)
          BY <1>1, <2>2 DEF n
        <5> QED
          BY <1>1, <4>2, <5>1, ContentQuiet
      <4> QED
        BY <2>1, <4>1, <4>3, ContentNothing
    <3>2. CASE ~(e < at)
      <4>1. /\ at + 1 \in 1 .. Len(chunk) + 1 /\ e \in (at + 1) - 1 .. Len(chunk)
            /\ eol \in e .. Len(chunk) /\ e + 1 \in Nat \ {0} /\ eol \in Int /\ eol <= Len(chunk)
        BY <1>1, <2>2, <2>3, <3>2 DEF n
      <4>2. Content(SubSeq(chunk, at + 1, eol))
              = Content(SubSeq(chunk, at + 1, e)) \o Content(SubSeq(chunk, e + 1, eol))
        BY <4>1, ContentSplit
      <4>3. Content(SubSeq(chunk, e + 1, eol)) = << >>
        BY <2>3, <4>1, ContentQuiet
      <4>4. Content(line.data) \in Seq(Bytes)
        BY <2>4, ContentIsASeq
      <4> HIDE DEF line
      <4>5. Content(SubSeq(chunk, at + 1, eol)) = Content(line.data) \o << >>
        BY <2>1, <4>2, <4>3
      <4> QED
        BY <4>4, <4>5, ConcatEmptySeq
    <3> QED
      BY <3>1, <3>2
  <2> HIDE DEF line
  <2> QED
    BY <2>4, <2>5, <2>6 DEF n, line
<1> QED
  BY <1>2, <1>3

LEMMA HeaderIs ==
  ASSUME NEW line \in Seq(Bytes), line # << >>
  PROVE  Header(line) \in Seq(Units) /\ Content(Header(line)) = Content(line)
<1>1. line \in Seq(Units) /\ <<NL>> \in Seq(Units) /\ <<MIXED, SEP>> \in Seq(Units)
  <2>1. Bytes \subseteq Units
    BY DEF Units
  <2>2. line \in Seq(Units)
    BY <2>1, SeqMonotonic
  <2>3. NL \in Units /\ MIXED \in Units /\ SEP \in Units
    BY DEF Units
  <2> QED
    BY <2>2, <2>3
<1>2. Content(<<NL>>) = << >>
  <2>1. \A i \in 1 .. Len(<<NL>>) : ~IsContent(<<NL>>[i])
    BY DEF IsContent
  <2> QED
    BY <1>1, <2>1, ContentNone
<1>3. Content(<<MIXED, SEP>>) = << >>
  <2>1. \A i \in 1 .. Len(<<MIXED, SEP>>) : ~IsContent(<<MIXED, SEP>>[i])
    BY DEF IsContent
  <2> QED
    BY <1>1, <2>1, ContentNone
<1>4. ASSUME NEW s \in Seq(Units)
      PROVE  s \o <<NL>> \in Seq(Units) /\ Content(s \o <<NL>>) = Content(s)
  <2>1. Content(s \o <<NL>>) = Content(s) \o << >> /\ s \o <<NL>> \in Seq(Units)
    BY <1>1, <1>2, <1>4, ContentConcat, ConcatProperties
  <2>2. Content(s) \in Seq(Units)
    BY <1>4, ContentIsASeq
  <2> QED
    BY <2>1, <2>2, ConcatEmptySeq
<1>5. CASE line[1] = HOST
  <2> DEFINE t == Tail(line)
             r == Trim(t)
  <2>1. t \in Seq(Units) /\ t = SubSeq(line, 2, Len(line))
    BY <1>1, HeadTailProperties, TailIsSubSeq
  <2>2. r \in Seq(Units) /\ Content(r) = Content(t)
    BY <2>1, TrimIs
  <2>3. Content(line) = Content(t)
    <3>1. /\ 2 \in 1 .. Len(line) + 1 /\ Len(line) \in 2 - 1 .. Len(line)
          /\ \A k \in 1 .. Len(line) : k \notin 2 .. Len(line) => k = 1
      BY <1>1
    <3>2. \A k \in 1 .. Len(line) : k \notin 2 .. Len(line) => ~IsContent(line[k])
      BY <1>5, <3>1 DEF IsContent
    <3> QED
      BY <1>1, <2>1, <3>1, <3>2, ContentWithin
  <2> HIDE DEF t, r
  <2>4. /\ <<MIXED, SEP>> \o r \in Seq(Units)
        /\ Content(<<MIXED, SEP>> \o r) = Content(line)
    <3>1. Content(<<MIXED, SEP>> \o r) = << >> \o Content(r) /\ <<MIXED, SEP>> \o r \in Seq(Units)
      BY <1>1, <1>3, <2>2, ContentConcat, ConcatProperties
    <3>2. Content(r) \in Seq(Units)
      BY <2>2, ContentIsASeq
    <3> QED
      BY <2>2, <2>3, <3>1, <3>2, ConcatEmptySeq
  <2>5. Header(line) = <<MIXED, SEP>> \o r \o <<NL>>
    BY <1>5 DEF Header, r, t
  <2> QED
    BY <1>4, <2>4, <2>5
<1>6. CASE line[1] # HOST
  BY <1>1, <1>4, <1>6 DEF Header
<1> QED
  BY <1>5, <1>6

\* Where the tokens of a line start, and where one ends.
Starts(line) == {i \in DOMAIN line : line[i] # SP /\ (i = 1 \/ line[i - 1] = SP)}
Start(starts, n) == CHOOSE i \in starts : Cardinality({j \in starts : j < i}) = n - 1
Run(line, i) == {j \in i .. Len(line) : \A k \in i .. j : line[k] # SP}

LEMMA TokensIs ==
  ASSUME NEW line
  PROVE  Tokens(line) = [n \in 1 .. Cardinality(Starts(line)) |->
                           LET i == Start(Starts(line), n)
                           IN  SubSeq(line, i, Max(Run(line, i)))]
BY DEF Tokens, Starts, Start, Run

\* The least of a set, and what is left of it.
LEMMA TakeLeast ==
  ASSUME NEW T \in SUBSET Nat, IsFiniteSet(T), NEW n \in Nat, Cardinality(T) = n + 1
  PROVE  \E x \in T : /\ \A y \in T \ {x} : x < y
                      /\ IsFiniteSet(T \ {x}) /\ Cardinality(T \ {x}) = n
<1>1. T # {}
  BY FS_EmptySet
<1>2. PICK x \in T : \A y \in T : x <= y
  BY <1>1, LeastNumber
<1>3. \A y \in T \ {x} : x < y
  BY <1>2
<1>4. IsFiniteSet(T \ {x}) /\ Cardinality(T \ {x}) = Cardinality(T) - 1
  BY FS_RemoveElement
<1>5. Cardinality(T \ {x}) = n
  BY <1>4
<1> QED
  BY <1>3, <1>4, <1>5

LEMMA ThreeStarts ==
  ASSUME NEW T \in SUBSET Nat, IsFiniteSet(T), Cardinality(T) = 3
  PROVE  /\ T = {Start(T, 1), Start(T, 2), Start(T, 3)}
         /\ Start(T, 1) < Start(T, 2) /\ Start(T, 2) < Start(T, 3)
<1>1. PICK a \in T : /\ \A y \in T \ {a} : a < y
                     /\ IsFiniteSet(T \ {a}) /\ Cardinality(T \ {a}) = 2
  <2>1. 2 \in Nat /\ 3 = 2 + 1
    OBVIOUS
  <2> QED
    BY <2>1, TakeLeast
<1>2. PICK b \in T \ {a} : /\ \A y \in (T \ {a}) \ {b} : b < y
                           /\ IsFiniteSet((T \ {a}) \ {b}) /\ Cardinality((T \ {a}) \ {b}) = 1
  <2>1. 1 \in Nat /\ 2 = 1 + 1 /\ T \ {a} \in SUBSET Nat
    OBVIOUS
  <2> QED
    BY <1>1, <2>1, TakeLeast
<1>3. PICK c \in (T \ {a}) \ {b} : Cardinality(((T \ {a}) \ {b}) \ {c}) = 0
                                   /\ IsFiniteSet(((T \ {a}) \ {b}) \ {c})
  <2>1. 0 \in Nat /\ 1 = 0 + 1 /\ (T \ {a}) \ {b} \in SUBSET Nat
    OBVIOUS
  <2> QED
    BY <1>2, <2>1, TakeLeast
<1>4. ((T \ {a}) \ {b}) \ {c} = {}
  BY <1>3, FS_EmptySet
<1>5. T = {a, b, c} /\ a < b /\ b < c /\ a \in Nat /\ b \in Nat /\ c \in Nat
  <2>1. a \in Nat /\ b \in Nat /\ c \in Nat
    OBVIOUS
  <2>2. T = {a, b, c}
    <3>1. \A x \in T : x = a \/ x = b \/ x = c
      BY <1>4
    <3>2. a \in T /\ b \in T /\ c \in T
      OBVIOUS
    <3> QED
      BY <3>1, <3>2
  <2>3. a < b
    BY <1>1
  <2>4. b < c
    BY <1>2
  <2> QED
    BY <2>1, <2>2, <2>3, <2>4
<1>6. /\ {j \in T : j < a} = {} /\ {j \in T : j < b} = {a} /\ {j \in T : j < c} = {a, b}
  BY <1>5
<1>7. Cardinality({}) = 0 /\ Cardinality({a}) = 1 /\ Cardinality({a, b}) = 2
  <2>1. IsFiniteSet({}) /\ Cardinality({}) = 0
    BY FS_EmptySet
  <2>2. IsFiniteSet({a}) /\ Cardinality({a}) = 1
    BY FS_Singleton
  <2>3. Cardinality({a} \cup {b}) = IF b \in {a} THEN Cardinality({a}) ELSE Cardinality({a}) + 1
    BY <2>2, FS_AddElement
  <2>4. {a, b} = {a} \cup {b} /\ b \notin {a}
    BY <1>5
  <2> QED
    BY <2>1, <2>2, <2>3, <2>4
<1>8. ASSUME NEW i \in T, NEW n \in 1 .. 3, Cardinality({j \in T : j < i}) = n - 1
      PROVE  i = IF n = 1 THEN a ELSE IF n = 2 THEN b ELSE c
  BY <1>5, <1>6, <1>7, <1>8
<1>9. Start(T, 1) = a
  <2>1. \E i \in T : Cardinality({j \in T : j < i}) = 1 - 1
    BY <1>5, <1>6, <1>7
  <2>2. \A i \in T : Cardinality({j \in T : j < i}) = 1 - 1 => i = a
    BY <1>8
  <2> QED
    BY <2>1, <2>2 DEF Start
<1>10. Start(T, 2) = b
  <2>1. \E i \in T : Cardinality({j \in T : j < i}) = 2 - 1
    BY <1>5, <1>6, <1>7
  <2>2. \A i \in T : Cardinality({j \in T : j < i}) = 2 - 1 => i = b
    BY <1>8
  <2> QED
    BY <2>1, <2>2 DEF Start
<1>11. Start(T, 3) = c
  <2>1. \E i \in T : Cardinality({j \in T : j < i}) = 3 - 1
    BY <1>5, <1>6, <1>7
  <2>2. \A i \in T : Cardinality({j \in T : j < i}) = 3 - 1 => i = c
    BY <1>8
  <2> QED
    BY <2>1, <2>2 DEF Start
<1> QED
  BY <1>5, <1>9, <1>10, <1>11

\* A token of length one ends where it starts.
LEMMA ShortRun ==
  ASSUME NEW S, NEW line \in Seq(S), NEW i \in Starts(line),
         Len(SubSeq(line, i, Max(Run(line, i)))) = 1
  PROVE  /\ SubSeq(line, i, Max(Run(line, i))) = <<line[i]>>
         /\ i + 1 \in 1 .. Len(line) => line[i + 1] = SP
<1> DEFINE R == Run(line, i)
           e == Max(R)
<1>1. i \in 1 .. Len(line) /\ line[i] # SP /\ Len(line) \in Nat
  <2>1. DOMAIN line = 1 .. Len(line) /\ Len(line) \in Nat
    BY LenProperties
  <2> QED
    BY <2>1 DEF Starts
<1>2. R \in SUBSET Nat /\ i \in R /\ \A x \in R : x <= Len(line) /\ x \in i .. Len(line)
  BY <1>1 DEF Run
<1>3. e \in R /\ \A x \in R : x <= e
  <2> HIDE DEF R
  <2>1. R # {} /\ \A x \in R : x <= Len(line)
    BY <1>2
  <2> QED
    BY <1>1, <1>2, <2>1, MaxIs
<1> HIDE DEF R
<1>4. e \in i .. Len(line)
  BY <1>2, <1>3
<1> HIDE DEF e
<1>5. e = i
  <2>1. i \in Nat \ {0} /\ e \in Int /\ e <= Len(line)
    BY <1>1, <1>4
  <2>2. Len(SubSeq(line, i, e)) = IF i <= e THEN e - i + 1 ELSE 0
    BY <2>1, PartIs
  <2>3. Len(SubSeq(line, i, e)) = 1
    BY DEF e, R
  <2> QED
    BY <1>1, <1>4, <2>2, <2>3
<1>6. SubSeq(line, i, i) = <<line[i]>>
  <2>1. /\ SubSeq(line, i, i) \in Seq(S) /\ Len(SubSeq(line, i, i)) = 1
        /\ \A j \in 1 .. 1 : SubSeq(line, i, i)[j] = line[i + j - 1]
    <3>1. i \in Nat \ {0} /\ i \in Int /\ i <= Len(line) /\ i - i + 1 = 1
      BY <1>1
    <3>2. /\ SubSeq(line, i, i) \in Seq(S)
          /\ Len(SubSeq(line, i, i)) = IF i <= i THEN i - i + 1 ELSE 0
          /\ \A j \in 1 .. i - i + 1 : SubSeq(line, i, i)[j] = line[i + j - 1]
      BY <3>1, PartIs
    <3> QED
      BY <3>1, <3>2
  <2>2. i + 1 - 1 = i
    BY <1>1
  <2>3. <<line[i]>> \in Seq(S) /\ Len(<<line[i]>>) = 1 /\ <<line[i]>>[1] = line[i]
    BY <1>1
  <2>4. \A j \in 1 .. 1 : SubSeq(line, i, i)[j] = <<line[i]>>[j]
    BY <2>1, <2>2, <2>3
  <2> QED
    BY <2>1, <2>3, <2>4, SeqEqual
<1>7. i + 1 \in 1 .. Len(line) => line[i + 1] = SP
  <2> SUFFICES ASSUME i + 1 \in 1 .. Len(line), line[i + 1] # SP PROVE FALSE
    OBVIOUS
  <2>1. \A k \in i .. i + 1 : k = i \/ k = i + 1
    BY <1>1
  <2>2. i + 1 \in Run(line, i)
    BY <1>1, <2>1 DEF Run
  <2> QED
    BY <1>1, <1>3, <1>5, <2>2 DEF R
<1> QED
  BY <1>5, <1>6, <1>7 DEF e, R

\* Where every token has length one, what is no start is a separator.
LEMMA OnlyStarts ==
  ASSUME NEW S, NEW line \in Seq(S),
         \A i \in Starts(line) : i + 1 \in 1 .. Len(line) => line[i + 1] = SP
  PROVE  \A i \in 1 .. Len(line) : i \notin Starts(line) => line[i] = SP
<1> SUFFICES ASSUME NEW i \in 1 .. Len(line), i \notin Starts(line), line[i] # SP PROVE FALSE
  OBVIOUS
<1> DEFINE T == {k \in 1 .. Len(line) : k \notin Starts(line) /\ line[k] # SP}
<1>1. PICK k \in T : \A j \in T : k <= j
  <2>1. T \in SUBSET Nat /\ T # {}
    OBVIOUS
  <2> HIDE DEF T
  <2> QED
    BY <2>1, LeastNumber
<1>2. k \in 1 .. Len(line) /\ k # 1 /\ line[k - 1] # SP /\ line[k] # SP
  BY <1>1 DEF Starts
<1>3. k - 1 \in 1 .. Len(line) /\ k - 1 \notin T /\ (k - 1) + 1 = k
  BY <1>1, <1>2
<1>4. k - 1 \in Starts(line)
  BY <1>2, <1>3
<1> QED
  BY <1>2, <1>3, <1>4

\* The three tokens of a request line hold its content.
LEMMA AcceptableIs ==
  ASSUME NEW line \in Seq(Bytes), Acceptable(Tokens(line))
  PROVE  \E a, b, c \in Bytes :
           /\ Tokens(line)[1] = <<a>> /\ Tokens(line)[2] = <<b>> /\ Tokens(line)[3] = <<c>>
           /\ Content(line) = (Kept(a) \o Kept(b)) \o Kept(c)
           /\ Len(line) >= 1 /\ \A i \in 1 .. Len(line) : line[i] \in {SP, a, b, c}
<1> DEFINE T == Starts(line)
           tokens == Tokens(line)
           End(i) == Max(Run(line, i))
           a == Start(T, 1)
           b == Start(T, 2)
           c == Start(T, 3)
           n == Len(line)
<1>1. n \in Nat /\ DOMAIN line = 1 .. n /\ \A i \in 1 .. n : line[i] \in Bytes
  BY LenProperties, ElementOfSeq
<1>2. T \in SUBSET Nat /\ IsFiniteSet(T) /\ \A i \in T : i \in 1 .. n
  <2>1. T \in SUBSET (1 .. n)
    BY <1>1 DEF Starts
  <2>2. IsFiniteSet(1 .. n)
    BY <1>1, FS_Interval
  <2> HIDE DEF T
  <2>3. IsFiniteSet(T)
    BY <2>1, <2>2, FS_Subset
  <2>4. T \in SUBSET Nat /\ \A i \in T : i \in 1 .. n
    BY <2>1
  <2> QED
    BY <2>3, <2>4
<1>3. tokens = [k \in 1 .. Cardinality(T) |-> SubSeq(line, Start(T, k), End(Start(T, k)))]
  BY TokensIs
<1>4. Cardinality(T) \in Nat
  BY <1>2, FS_CardinalityType
<1>5. Cardinality(T) = 3
  <2>1. Len(tokens) = 3
    BY DEF Acceptable
  <2> HIDE DEF tokens, T
  <2> QED
    BY <1>3, <1>4, <2>1
<1>6. /\ tokens[1] = SubSeq(line, a, End(a)) /\ tokens[2] = SubSeq(line, b, End(b))
      /\ tokens[3] = SubSeq(line, c, End(c))
  <2>1. 1 \in 1 .. Cardinality(T) /\ 2 \in 1 .. Cardinality(T) /\ 3 \in 1 .. Cardinality(T)
    BY <1>5
  <2> HIDE DEF T, tokens, End
  <2> QED
    BY <1>3, <2>1
<1>7. Len(tokens[1]) = 1 /\ Len(tokens[2]) = 1 /\ Len(tokens[3]) = 1
  BY DEF Acceptable
<1>8. T = {a, b, c} /\ a < b /\ b < c
  <2> HIDE DEF T
  <2> QED
    BY <1>2, <1>5, ThreeStarts
<1>9. a \in T /\ b \in T /\ c \in T
  BY <1>8
<1> HIDE DEF tokens, a, b, c
<1>10. \A i \in T : /\ SubSeq(line, i, End(i)) = <<line[i]>>
                    /\ i + 1 \in 1 .. n => line[i + 1] = SP
  <2> SUFFICES ASSUME NEW i \in T
               PROVE  /\ SubSeq(line, i, End(i)) = <<line[i]>>
                      /\ i + 1 \in 1 .. n => line[i + 1] = SP
    OBVIOUS
  <2>1. i = a \/ i = b \/ i = c
    BY <1>8
  <2>2. Len(SubSeq(line, i, Max(Run(line, i)))) = 1
    BY <1>6, <1>7, <2>1
  <2> QED
    BY <2>2, ShortRun
<1>11. tokens[1] = <<line[a]>> /\ tokens[2] = <<line[b]>> /\ tokens[3] = <<line[c]>>
  BY <1>6, <1>9, <1>10
<1>12. \A i \in 1 .. n : i \notin T => line[i] = SP
  BY <1>10, OnlyStarts
<1> HIDE DEF T, End
<1>13. \A i \in 1 .. n : i # a /\ i # b /\ i # c => ~IsContent(line[i])
  BY <1>8, <1>12 DEF IsContent
<1>14. a \in 1 .. n /\ b \in 1 .. n /\ c \in 1 .. n
  BY <1>2, <1>9
<1> DEFINE C(i) == Content(SubSeq(line, 1, i))
<1>15. C(a) = << >> \o Kept(line[a])
  <2>1. SubSeq(line, 1, 0) = << >>
    BY SubSeqEmpty
  <2>2. 0 \in 0 .. Len(line) /\ 0 < a /\ \A k \in 0 + 1 .. a - 1 : ~IsContent(line[k])
    BY <1>1, <1>8, <1>13, <1>14
  <2>3. C(a) = C(0) \o Kept(line[a])
    BY <1>14, <2>2, ContentNext
  <2> QED
    BY <2>1, <2>3, ContentNothing
<1>16. C(b) = C(a) \o Kept(line[b])
  <2>1. a \in 0 .. Len(line) /\ \A k \in a + 1 .. b - 1 : ~IsContent(line[k])
    BY <1>1, <1>8, <1>13, <1>14
  <2> QED
    BY <1>8, <1>14, <2>1, ContentNext
<1>17. C(c) = C(b) \o Kept(line[c])
  <2>1. b \in 0 .. Len(line) /\ \A k \in b + 1 .. c - 1 : ~IsContent(line[k])
    BY <1>1, <1>8, <1>13, <1>14
  <2> QED
    BY <1>8, <1>14, <2>1, ContentNext
<1>18. Content(line) = C(c)
  <2>1. /\ 1 \in 1 .. Len(line) + 1 /\ c \in 1 - 1 .. Len(line)
        /\ \A k \in 1 .. Len(line) : k \notin 1 .. c => ~IsContent(line[k])
    BY <1>1, <1>8, <1>13, <1>14
  <2> QED
    BY <2>1, ContentWithin
<1>19. line[a] \in Bytes /\ line[b] \in Bytes /\ line[c] \in Bytes
  BY <1>1, <1>14
<1>20. << >> \o Kept(line[a]) = Kept(line[a])
  <2>1. Kept(line[a]) \in Seq(Bytes)
    BY <1>19, KeptIs
  <2> QED
    BY <2>1, ConcatEmptySeq
<1>21. Content(line) = (Kept(line[a]) \o Kept(line[b])) \o Kept(line[c])
  BY <1>15, <1>16, <1>17, <1>18, <1>20
<1>22. n >= 1 /\ \A i \in 1 .. n : line[i] \in {SP, line[a], line[b], line[c]}
  BY <1>1, <1>8, <1>12, <1>14
<1> QED
  BY <1>11, <1>19, <1>21, <1>22 DEF tokens

\* A request line as it is written holds no more and no less.
LEMMA RequestLineIs ==
  ASSUME NEW a \in Bytes, NEW b \in Bytes, NEW c \in Bytes
  PROVE  LET x == <<a>> \o <<SEP>> \o <<b>> \o <<SEP>> \o <<c>> \o <<NL>>
         IN  x \in Seq(Units) /\ Content(x) = (Kept(a) \o Kept(b)) \o Kept(c)
<1>1. a \in Units /\ b \in Units /\ c \in Units /\ SEP \in Units /\ NL \in Units
  BY DEF Units
<1>2. ASSUME NEW s \in Seq(Units), NEW u \in Units
      PROVE  s \o <<u>> \in Seq(Units) /\ Content(s \o <<u>>) = Content(s) \o Kept(u)
  BY ContentConcat, ContentOne, ConcatProperties
<1>3. ASSUME NEW s \in Seq(Units), NEW u \in Units, ~IsContent(u)
      PROVE  s \o <<u>> \in Seq(Units) /\ Content(s \o <<u>>) = Content(s)
  <2>1. Content(s \o <<u>>) = Content(s) \o << >>
    BY <1>2, <1>3 DEF Kept
  <2>2. Content(s) \in Seq(Units)
    BY ContentIsASeq
  <2> QED
    BY <1>2, <2>1, <2>2, ConcatEmptySeq
<1>4. ~IsContent(SEP) /\ ~IsContent(NL)
  BY DEF IsContent
<1> DEFINE x1 == <<a>>
           x2 == x1 \o <<SEP>>
           x3 == x2 \o <<b>>
           x4 == x3 \o <<SEP>>
           x5 == x4 \o <<c>>
           x6 == x5 \o <<NL>>
<1>5. x1 \in Seq(Units) /\ Content(x1) = Kept(a)
  BY <1>1, ContentOne
<1> HIDE DEF x1
<1>6. x2 \in Seq(Units) /\ Content(x2) = Content(x1)
  BY <1>1, <1>3, <1>4, <1>5
<1> HIDE DEF x2
<1>7. x3 \in Seq(Units) /\ Content(x3) = Content(x2) \o Kept(b)
  BY <1>1, <1>2, <1>6
<1> HIDE DEF x3
<1>8. x4 \in Seq(Units) /\ Content(x4) = Content(x3)
  BY <1>1, <1>3, <1>4, <1>7
<1> HIDE DEF x4
<1>9. x5 \in Seq(Units) /\ Content(x5) = Content(x4) \o Kept(c)
  BY <1>1, <1>2, <1>8
<1> HIDE DEF x5
<1>10. x6 \in Seq(Units) /\ Content(x6) = Content(x5)
  BY <1>1, <1>3, <1>4, <1>9
<1>11. Content(x6) = (Kept(a) \o Kept(b)) \o Kept(c)
  BY <1>5, <1>6, <1>7, <1>8, <1>9, <1>10
<1> HIDE DEF x6
<1> QED
  BY <1>10, <1>11 DEF x1, x2, x3, x4, x5, x6

-----------------------------------------------------------------------------
(***************************************************************************)
(* The content of the head.                                                *)
(***************************************************************************)
\* Nothing is written before the request line is read, and of a tunnel's chunk never.
KeptInv ==
  /\ chunk \in Chunks /\ offset \in 0 .. Len(chunk) /\ out \in Seq(Units)
  /\ step \in {"request", "refused"} \cup TunnelSteps => out = << >> /\ offset = 0
  /\ ContentKept

LEMMA KeptInit == Init => KeptInv
<1> SUFFICES ASSUME Init PROVE KeptInv
  OBVIOUS
<1>1. chunk \in Chunks /\ chunk \in Seq(Bytes) /\ offset = 0 /\ out = << >> /\ step = "request"
  BY RequestHeadAssumption DEF Init
<1>2. SubSeq(chunk, 1, 0) = << >>
  BY SubSeqEmpty
<1>3. ContentKept
  BY <1>1, <1>2 DEF ContentKept, Reached, TunnelSteps
<1>4. 0 \in 0 .. Len(chunk) /\ << >> \in Seq(Units)
  <2> HIDE DEF Bytes
  <2> QED
    BY <1>1
<1> QED
  BY <1>1, <1>3, <1>4 DEF KeptInv

\* What is written of a part that follows is added to what was written.
LEMMA KeptMore ==
  ASSUME chunk \in Seq(Bytes), NEW to \in offset .. Len(chunk), offset \in 0 .. Len(chunk),
         NEW x \in Seq(Units), out \in Seq(Units),
         Content(out) = Content(SubSeq(chunk, 1, offset)),
         Content(x) = Content(SubSeq(chunk, offset + 1, to))
  PROVE  out \o x \in Seq(Units) /\ Content(out \o x) = Content(SubSeq(chunk, 1, to))
<1>1. Content(out \o x) = Content(out) \o Content(x) /\ out \o x \in Seq(Units)
  BY ContentConcat, ConcatProperties
<1>2. 1 \in 1 .. Len(chunk) + 1 /\ offset \in 1 - 1 .. Len(chunk)
  OBVIOUS
<1>3. Content(SubSeq(chunk, 1, to))
        = Content(SubSeq(chunk, 1, offset)) \o Content(SubSeq(chunk, offset + 1, to))
  BY <1>2, ContentSplit
<1> QED
  BY <1>1, <1>3

LEMMA KeptStep == KeptInv /\ [Next]_vars => KeptInv'
<1> SUFFICES ASSUME KeptInv, [Next]_vars PROVE KeptInv'
  OBVIOUS
<1>1. /\ chunk \in Chunks /\ chunk \in Seq(Bytes) /\ Len(chunk) \in Nat
      /\ offset \in 0 .. Len(chunk) /\ out \in Seq(Units)
  <2>1. chunk \in Chunks /\ chunk \in Seq(Bytes)
    BY RequestHeadAssumption DEF KeptInv
  <2> QED
    BY <2>1, LenProperties DEF KeptInv
<1>2. chunk' = chunk
  BY DEF Next, vars, headVars, Refuse, RequestLine, HeaderLine, Rest, Tunnel, HelloThrows,
         HelloData, Fragment
<1>3. step \notin TunnelSteps => Content(out) = Content(SubSeq(chunk, 1, Reached))
  BY DEF KeptInv, ContentKept
<1>4. CASE Refuse
  <2>1. /\ step = "request" /\ step' = "refused" /\ out' = out /\ offset' = offset
        /\ out = << >> /\ offset = 0
    BY <1>4 DEF Refuse, headVars, KeptInv
  <2>2. ContentKept'
    BY <1>2, <1>3, <2>1 DEF ContentKept, Reached, TunnelSteps
  <2> QED
    BY <1>1, <1>2, <2>1, <2>2 DEF KeptInv
<1>5. CASE RequestLine
  <2>1. step = "request" /\ out = << >> /\ offset = 0
    BY <1>5 DEF RequestLine, KeptInv
  <2> DEFINE line == ReadLine(0)
             tokens == Tokens(line.data)
  <2>2. Acceptable(tokens)
    BY <1>5 DEF RequestLine
  <2>3. /\ line.data \in Seq(Bytes) /\ line.size \in 0 .. Len(chunk)
        /\ Content(SubSeq(chunk, 1, line.size)) = Content(line.data)
    <3>1. 0 \in 0 .. Len(chunk)
      BY <1>1
    <3>2. /\ line.data \in Seq(Bytes)
          /\ line.size \in Nat /\ 0 + line.size \in 0 .. Len(chunk)
          /\ Content(SubSeq(chunk, 0 + 1, 0 + line.size)) = Content(line.data)
      BY <1>1, <3>1, ReadLineIs
    <3> HIDE DEF line
    <3>3. 0 + line.size = line.size /\ 0 + 1 = 1
      BY <3>2
    <3> QED
      BY <3>2, <3>3
  <2>4. PICK a, b, c \in Bytes :
          /\ tokens[1] = <<a>> /\ tokens[2] = <<b>> /\ tokens[3] = <<c>>
          /\ Content(line.data) = (Kept(a) \o Kept(b)) \o Kept(c)
    BY <2>2, <2>3, AcceptableIs
  <2>5. CASE obfuscate'
    <3>1. /\ out' = tokens[1] \o <<SEP>> \o tokens[2] \o <<SEP>> \o tokens[3] \o <<NL>>
          /\ offset' = line.size /\ step' = "headers"
      BY <1>5, <2>5 DEF RequestLine
    <3> HIDE DEF line, tokens
    <3>2. out' \in Seq(Units) /\ Content(out') = Content(line.data)
      <4>1. out' = <<a>> \o <<SEP>> \o <<b>> \o <<SEP>> \o <<c>> \o <<NL>>
        BY <2>4, <3>1
      <4>2. LET x == <<a>> \o <<SEP>> \o <<b>> \o <<SEP>> \o <<c>> \o <<NL>>
            IN  x \in Seq(Units) /\ Content(x) = (Kept(a) \o Kept(b)) \o Kept(c)
        BY RequestLineIs
      <4> QED
        BY <2>4, <4>1, <4>2
    <3>3. ContentKept'
      BY <1>2, <2>3, <3>1, <3>2 DEF ContentKept, Reached, TunnelSteps
    <3> QED
      BY <1>1, <1>2, <2>3, <3>1, <3>2, <3>3 DEF KeptInv, TunnelSteps
  <2>6. CASE ~obfuscate'
    <3>1. step' = "rest" /\ offset' = offset /\ out' = out
      BY <1>5, <2>6 DEF RequestLine
    <3>2. ContentKept'
      BY <1>2, <1>3, <2>1, <3>1 DEF ContentKept, Reached, TunnelSteps
    <3> QED
      BY <1>1, <1>2, <2>1, <3>1, <3>2 DEF KeptInv
  <2> QED
    BY <2>5, <2>6
<1>6. CASE HeaderLine
  <2> DEFINE line == ReadLine(offset)
  <2>1. step = "headers" /\ Content(out) = Content(SubSeq(chunk, 1, offset))
    BY <1>3, <1>6 DEF HeaderLine, Reached, TunnelSteps
  <2>2. CASE offset = Len(chunk) \/ line.data = << >>
    <3>1. step' = "rest" /\ offset' = offset /\ out' = out
      BY <1>6, <2>2 DEF HeaderLine
    <3>2. ContentKept'
      BY <1>2, <2>1, <3>1 DEF ContentKept, Reached, TunnelSteps
    <3> QED
      BY <1>1, <1>2, <3>1, <3>2 DEF KeptInv, TunnelSteps
  <2>3. CASE ~(offset = Len(chunk) \/ line.data = << >>)
    <3>1. /\ out' = out \o Header(line.data) /\ offset' = offset + line.size
          /\ step' = "headers" /\ line.data # << >>
      BY <1>6, <2>1, <2>3 DEF HeaderLine
    <3>2. /\ line.data \in Seq(Bytes)
          /\ line.size \in Nat /\ offset + line.size \in 0 .. Len(chunk)
          /\ Content(SubSeq(chunk, offset + 1, offset + line.size)) = Content(line.data)
      BY <1>1, ReadLineIs
    <3> HIDE DEF line
    <3>3. /\ Header(line.data) \in Seq(Units)
          /\ Content(Header(line.data)) = Content(SubSeq(chunk, offset + 1, offset + line.size))
      BY <3>1, <3>2, HeaderIs
    <3>4. offset + line.size \in offset .. Len(chunk)
      BY <1>1, <3>2
    <3>5. out' \in Seq(Units) /\ Content(out') = Content(SubSeq(chunk, 1, offset + line.size))
      BY <1>1, <2>1, <3>1, <3>3, <3>4, KeptMore
    <3>6. ContentKept'
      BY <1>2, <3>1, <3>5 DEF ContentKept, Reached, TunnelSteps
    <3> QED
      BY <1>1, <1>2, <3>1, <3>2, <3>5, <3>6 DEF KeptInv, TunnelSteps
  <2> QED
    BY <2>2, <2>3
<1>7. CASE Rest
  <2> DEFINE n == Len(chunk)
             x == SubSeq(chunk, offset + 1, n)
  <2>1. /\ step = "rest" /\ Content(out) = Content(SubSeq(chunk, 1, offset))
        /\ out' = out \o x /\ step' = "done" /\ offset' = offset
    BY <1>3, <1>7 DEF Rest, Reached, TunnelSteps
  <2>2. x \in Seq(Units)
    <3>1. offset + 1 \in Nat \ {0} /\ n \in Int /\ n <= Len(chunk)
      BY <1>1
    <3>2. x \in Seq(Bytes)
      BY <1>1, <3>1, PartIs
    <3>3. Bytes \subseteq Units
      BY DEF Units
    <3> QED
      BY <3>2, <3>3, SeqMonotonic
  <2>3. n \in offset .. Len(chunk)
    BY <1>1
  <2>4. out \o x \in Seq(Units) /\ Content(out \o x) = Content(SubSeq(chunk, 1, n))
    BY <1>1, <2>1, <2>2, <2>3, KeptMore
  <2>5. ContentKept'
    BY <1>2, <2>1, <2>4 DEF ContentKept, Reached, TunnelSteps
  <2> QED
    BY <1>1, <1>2, <2>1, <2>4, <2>5 DEF KeptInv, TunnelSteps
<1>8. CASE Tunnel
  <2>1. /\ step = "request" /\ out' = out /\ offset' = offset /\ out = << >> /\ offset = 0
        /\ step' \in TunnelSteps
    BY <1>8 DEF Tunnel, KeptInv, TunnelSteps
  <2>2. ContentKept'
    BY <2>1, ContentNothing DEF ContentKept
  <2> QED
    BY <1>1, <1>2, <2>1, <2>2 DEF KeptInv
<1>9. CASE HelloThrows \/ HelloData \/ Fragment
  <2>1. /\ step \in TunnelSteps /\ step' \in TunnelSteps /\ out' = out /\ offset' = offset
        /\ out = << >> /\ offset = 0
    BY <1>9 DEF HelloThrows, HelloData, Fragment, headVars, TunnelSteps, KeptInv
  <2>2. ContentKept'
    BY <2>1, ContentNothing DEF ContentKept
  <2> QED
    BY <1>1, <1>2, <2>1, <2>2 DEF KeptInv
<1>10. CASE UNCHANGED vars
  <2>1. step' = step /\ out' = out /\ offset' = offset
    BY <1>10 DEF vars, headVars
  <2> QED
    BY <1>2, <2>1 DEF KeptInv, ContentKept, Reached, TunnelSteps
<1> QED
  BY <1>4, <1>5, <1>6, <1>7, <1>8, <1>9, <1>10 DEF Next

\* Whatever the chunk holds, and wherever it is cut: a request line without an end, a
\* line that ends in LF alone or at its very first byte, blanks around a host or between
\* the tokens, an empty line too many.  At every step what was written has the content of
\* what was read of it (lines 184 to 198 and 308 to 361).
THEOREM ContentStaysWhole == Spec => []ContentKept
<1>1. KeptInv => ContentKept
  BY DEF KeptInv
<1> QED
  BY <1>1, KeptInit, KeptStep, PTL DEF Spec

-----------------------------------------------------------------------------
(***************************************************************************)
(* The head is rewritten up to its end, with a key for every host line.    *)
(***************************************************************************)
\* A line that ends at byte i is followed by an empty one.
IsBlank(i) ==
  /\ chunk[i] = LF
  /\ \/ chunk[i + 1] = LF
     \/ chunk[i + 1] = CR /\ i + 2 <= Len(chunk) /\ chunk[i + 2] = LF

\* The lines of a head, after the first.
LEMMA LineIs ==
  ASSUME chunk \in Seq(Bytes), NEW at \in 1 .. Len(chunk) - 1, chunk[at] = LF
  PROVE  LET line == ReadLine(at)
         IN  /\ line.size \in Nat /\ line.size >= 1 /\ at + line.size <= Len(chunk)
             /\ \A i \in at + 1 .. at + line.size - 1 : chunk[i] # LF
             /\ at + line.size = Len(chunk) \/ chunk[at + line.size] = LF
             /\ line.data = << >> <=> IsBlank(at)
             /\ line.data # << >> => line.data \in Seq(Bytes) /\ line.data[1] = chunk[at + 1]
<1> DEFINE n == Len(chunk)
           eol == EndAfter(at)
           line == ReadLine(at)
           I == {i \in at + 1 .. n : chunk[i] = LF}
<1>0. LF # CR
  BY RequestHeadAssumption
<1>1. n \in Nat /\ at \in 1 .. n - 1 /\ at + 1 \in Nat \ {0} /\ at \in Nat
  BY LenProperties
<1>2. eol = IF I # {} THEN Min(I) ELSE 0
  BY DEF EndAfter, SelectInSubSeq
<1>3. I \in SUBSET Nat /\ \A i \in I : i \in at + 1 .. n /\ chunk[i] = LF
  BY <1>1
<1>4. \A i \in at + 1 .. n : chunk[i] = LF => i \in I
  OBVIOUS
<1>5. line = IF eol > 1
             THEN [data |-> SubSeq(chunk, at + 1, IF chunk[eol - 1] = CR THEN eol - 2 ELSE eol - 1),
                   size |-> eol - at]
             ELSE [data |-> SubSeq(chunk, at + 1, n), size |-> n - at]
  BY DEF ReadLine, Unended
<1> HIDE DEF I, eol, line
<1>6. ASSUME NEW e \in Int, e <= n
      PROVE  /\ SubSeq(chunk, at + 1, e) = << >> <=> e < at + 1
             /\ e >= at + 1 => /\ SubSeq(chunk, at + 1, e) \in Seq(Bytes)
                               /\ SubSeq(chunk, at + 1, e)[1] = chunk[at + 1]
  <2> DEFINE d == SubSeq(chunk, at + 1, e)
  <2>1. /\ d \in Seq(Bytes) /\ Len(d) = IF at + 1 <= e THEN e - (at + 1) + 1 ELSE 0
        /\ \A i \in 1 .. e - (at + 1) + 1 : d[i] = chunk[(at + 1) + i - 1]
    BY <1>1, <1>6, PartIs
  <2> HIDE DEF d
  <2>2. (at + 1) + 1 - 1 = at + 1 /\ (e >= at + 1 => 1 \in 1 .. e - (at + 1) + 1)
    BY <1>1
  <2>3. e >= at + 1 => d[1] = chunk[at + 1]
    BY <2>1, <2>2
  <2>4. d = << >> <=> Len(d) = 0
    BY <2>1
  <2>5. Len(d) = 0 <=> e < at + 1
    BY <1>1, <2>1
  <2> QED
    BY <2>1, <2>3, <2>4, <2>5 DEF d
<1>7. CASE I = {}
  <2>1. line.data = SubSeq(chunk, at + 1, n) /\ line.size = n - at
    BY <1>2, <1>5, <1>7
  <2>2. at + line.size = n /\ line.size \in Nat /\ line.size >= 1
    BY <1>1, <2>1
  <2>3. \A i \in at + 1 .. n : chunk[i] # LF
    BY <1>4, <1>7
  <2>4. ~IsBlank(at)
    <3>1. at + 1 \in at + 1 .. n /\ (at + 2 <= n => at + 2 \in at + 1 .. n)
      BY <1>1
    <3> QED
      BY <2>3, <3>1 DEF IsBlank
  <2>5. line.data # << >> /\ line.data \in Seq(Bytes) /\ line.data[1] = chunk[at + 1]
    <3>1. n \in Int /\ n <= n /\ ~(n < at + 1) /\ n >= at + 1
      BY <1>1
    <3> QED
      BY <1>6, <2>1, <3>1
  <2>6. \A i \in at + 1 .. at + line.size - 1 : chunk[i] # LF
    BY <1>1, <2>2, <2>3
  <2> QED
    BY <2>2, <2>4, <2>5, <2>6 DEF line, n
<1>8. CASE I # {}
  <2>1. eol \in I /\ \A i \in I : eol <= i
    BY <1>2, <1>3, <1>8, MinIs
  <2>2. eol \in at + 1 .. n /\ chunk[eol] = LF /\ eol > 1
    BY <1>1, <1>3, <2>1
  <2> DEFINE e == IF chunk[eol - 1] = CR THEN eol - 2 ELSE eol - 1
  <2>3. line.data = SubSeq(chunk, at + 1, e) /\ line.size = eol - at
    BY <1>5, <2>2
  <2>4. line.size \in Nat /\ line.size >= 1 /\ at + line.size = eol /\ eol <= n
    BY <1>1, <2>2, <2>3
  <2>5. \A i \in at + 1 .. eol - 1 : chunk[i] # LF
    <3> SUFFICES ASSUME NEW i \in at + 1 .. eol - 1, chunk[i] = LF PROVE FALSE
      OBVIOUS
    <3>1. i \in at + 1 .. n /\ i < eol /\ eol \in Nat /\ i \in Nat
      BY <1>1, <2>2
    <3>2. eol <= i
      BY <1>4, <2>1, <3>1
    <3> QED
      BY <3>1, <3>2
  <2>6. e \in Int /\ e <= n
    BY <1>1, <2>2
  <2>7. e < at + 1 <=> IsBlank(at)
    <3>1. CASE eol = at + 1
      <4>1. eol - 1 = at
        BY <1>1, <3>1
      <4>2. e = at
        BY <1>0, <4>1
      <4> QED
        BY <1>1, <2>2, <3>1, <4>2 DEF IsBlank
    <3>2. CASE eol # at + 1
      <4>1. eol >= at + 2 /\ chunk[at + 1] # LF
        BY <1>1, <2>2, <2>5, <3>2
      <4>2. CASE chunk[eol - 1] = CR
        <5>1. e = eol - 2
          BY <4>2
        <5>2. CASE eol = at + 2
          <6>1. chunk[at + 1] = CR /\ at + 2 <= n /\ chunk[at + 2] = LF /\ e = at
            <7>1. eol - 1 = at + 1
              BY <1>1, <5>2
            <7> QED
              BY <1>1, <2>2, <4>2, <5>1, <5>2, <7>1
          <6> QED
            BY <1>1, <6>1 DEF IsBlank
        <5>3. CASE eol # at + 2
          <6>1. e >= at + 1 /\ at + 2 \in at + 1 .. eol - 1
            BY <1>1, <2>2, <4>1, <5>1, <5>3
          <6>2. chunk[at + 2] # LF
            BY <2>5, <6>1
          <6> HIDE DEF e
          <6> QED
            BY <1>1, <2>6, <4>1, <6>1, <6>2 DEF IsBlank
        <5> QED
          BY <5>2, <5>3
      <4>3. CASE chunk[eol - 1] # CR
        <5>1. e = eol - 1 /\ e >= at + 1
          BY <1>1, <2>2, <4>1, <4>3
        <5>2. ~(chunk[at + 1] = CR /\ at + 2 <= n /\ chunk[at + 2] = LF)
          <6> SUFFICES ASSUME chunk[at + 1] = CR, at + 2 <= n, chunk[at + 2] = LF PROVE FALSE
            OBVIOUS
          <6>1. at + 2 \notin at + 1 .. eol - 1
            BY <2>5
          <6>2. eol = at + 2
            BY <1>1, <2>2, <4>1, <6>1
          <6>3. eol - 1 = at + 1
            BY <1>1, <6>2
          <6> QED
            BY <4>3, <6>3
        <5> HIDE DEF e
        <5> QED
          BY <1>1, <2>6, <4>1, <5>1, <5>2 DEF IsBlank
      <4> QED
        BY <4>2, <4>3
    <3> QED
      BY <3>1, <3>2
  <2> HIDE DEF e
  <2>8. line.data = << >> <=> IsBlank(at)
    BY <1>6, <2>3, <2>6, <2>7
  <2>9. line.data # << >> => line.data \in Seq(Bytes) /\ line.data[1] = chunk[at + 1]
    <3>1. e < at + 1 \/ e >= at + 1
      BY <1>1, <2>6
    <3> QED
      BY <1>6, <2>3, <2>6, <3>1
  <2>10. at + line.size - 1 = eol - 1
    BY <2>4
  <2> QED
    BY <2>2, <2>4, <2>5, <2>8, <2>9, <2>10 DEF line, n
<1> QED
  BY <1>7, <1>8

\* The request line: a line end at the very first byte would leave no method.
LEMMA FirstLineIs ==
  ASSUME chunk \in Seq(Bytes), Acceptable(Tokens(ReadLine(0).data))
  PROVE  LET sz == ReadLine(0).size
         IN  /\ sz \in 1 .. Len(chunk)
             /\ \A i \in 1 .. sz - 1 : chunk[i] # LF
             /\ sz = Len(chunk) \/ chunk[sz] = LF
<1> DEFINE n == Len(chunk)
           eol == EndAfter(0)
           line == ReadLine(0)
           I == {i \in 0 + 1 .. n : chunk[i] = LF}
<1>1. n \in Nat
  BY LenProperties
<1>2. eol = IF I # {} THEN Min(I) ELSE 0
  BY DEF EndAfter, SelectInSubSeq
<1>3. I \in SUBSET Nat /\ \A i \in 1 .. n : i \in I <=> chunk[i] = LF
  BY <1>1
<1>4. \A i \in I : i \in 1 .. n
  OBVIOUS
<1>5. IF eol > 1 THEN line.size = eol - 0
      ELSE line.size = n - 0 /\ line.data = SubSeq(chunk, 0 + 1, n)
  BY DEF ReadLine, Unended
<1>6. line.data \in Seq(Bytes)
  <2>1. 0 \in 0 .. Len(chunk)
    BY <1>1
  <2> QED
    BY <2>1, ReadLineIs
<1> HIDE DEF line, eol, I
<1>7. PICK a, b, c \in Bytes :
        /\ Tokens(line.data)[1] = <<a>> /\ Tokens(line.data)[2] = <<b>>
        /\ Tokens(line.data)[3] = <<c>> /\ Len(line.data) >= 1
        /\ \A i \in 1 .. Len(line.data) : line.data[i] \in {SP, a, b, c}
  BY <1>6, AcceptableIs DEF line
<1>8. LF \notin {SP, a, b, c}
  <2>1. a \in Methods /\ b \in Targets /\ c \in Versions
    BY <1>7 DEF Acceptable, line
  <2> QED
    BY <2>1, RequestHeadAssumption
<1>9. CASE I = {}
  <2>1. line.size = n /\ line.data = SubSeq(chunk, 1, n)
    BY <1>1, <1>2, <1>5, <1>9
  <2>2. line.data = chunk
    BY <2>1, SubSeqFull
  <2>3. n >= 1
    BY <1>7, <2>2
  <2> QED
    BY <1>1, <1>3, <1>9, <2>1, <2>3 DEF line, n
<1>10. CASE I # {}
  <2>1. eol \in I /\ \A i \in I : eol <= i
    BY <1>2, <1>3, <1>10, MinIs
  <2>2. eol \in 1 .. n /\ chunk[eol] = LF
    BY <1>3, <1>4, <2>1
  <2>3. eol > 1
    <3> SUFFICES ASSUME ~(eol > 1) PROVE FALSE
      OBVIOUS
    <3>1. line.data = SubSeq(chunk, 1, n) /\ eol = 1
      BY <1>5, <2>2
    <3>2. line.data = chunk
      BY <3>1, SubSeqFull
    <3>3. chunk[1] = LF /\ 1 \in 1 .. n
      BY <2>2, <3>1
    <3> QED
      BY <1>7, <1>8, <3>2, <3>3
  <2>4. line.size = eol
    BY <1>5, <2>2, <2>3
  <2>5. \A i \in 1 .. eol - 1 : chunk[i] # LF
    <3> SUFFICES ASSUME NEW i \in 1 .. eol - 1, chunk[i] = LF PROVE FALSE
      OBVIOUS
    <3>1. i \in 1 .. n /\ ~(eol <= i)
      BY <1>1, <2>2
    <3> QED
      BY <1>3, <2>1, <3>1
  <2> QED
    BY <2>2, <2>4, <2>5 DEF line, n
<1> QED
  BY <1>9, <1>10

\* How many host keys were written, and what is written that is none.
Mixes(s) == {i \in DOMAIN s : s[i] = MIXED}
Mixed(s) == Cardinality(Mixes(s))
Plain    == Units \ {MIXED}

LEMMA PlainIs ==
  ASSUME NEW t \in Seq(Plain)
  PROVE  t \in Seq(Units) /\ \A i \in 1 .. Len(t) : t[i] # MIXED
<1>1. Plain \subseteq Units
  BY DEF Plain
<1>2. \A i \in 1 .. Len(t) : t[i] \in Plain
  BY ElementOfSeq
<1> QED
  BY <1>1, <1>2, SeqMonotonic DEF Plain

LEMMA BytesArePlain ==
  /\ \A t \in Seq(Bytes) : t \in Seq(Plain)
  /\ SEP \in Plain /\ NL \in Plain /\ MIXED \in Units /\ \A b \in Bytes : b \in Plain
<1>1. /\ \A b \in Bytes : b \in Plain
      /\ SEP \in Plain /\ NL \in Plain /\ MIXED \in Units
  BY RequestHeadAssumption DEF Units, Plain
<1>2. \A t \in Seq(Bytes) : t \in Seq(Plain)
  BY <1>1, SeqMonotonic
<1> QED
  BY <1>1, <1>2

LEMMA MixesIs ==
  ASSUME NEW s \in Seq(Units)
  PROVE  IsFiniteSet(Mixes(s)) /\ Mixes(s) \subseteq 1 .. Len(s)
<1>1. Mixes(s) \subseteq 1 .. Len(s) /\ Len(s) \in Nat
  BY LenProperties DEF Mixes
<1>2. IsFiniteSet(1 .. Len(s))
  BY <1>1, FS_Interval
<1> QED
  BY <1>1, <1>2, FS_Subset

LEMMA MixesConcat ==
  ASSUME NEW s \in Seq(Units), NEW t \in Seq(Plain)
  PROVE  Mixes(s \o t) = Mixes(s)
<1> DEFINE n == Len(s)
           m == Len(t)
           u == s \o t
<1>0. t \in Seq(Units) /\ \A i \in 1 .. m : t[i] # MIXED
  BY PlainIs
<1>1. n \in Nat /\ m \in Nat /\ DOMAIN s = 1 .. n
  BY <1>0, LenProperties
<1>2. /\ u \in Seq(Units) /\ Len(u) = n + m
      /\ \A i \in 1 .. n + m : u[i] = IF i <= n THEN s[i] ELSE t[i - n]
  BY <1>0, ConcatProperties
<1> HIDE DEF u
<1>3. DOMAIN u = 1 .. n + m
  BY <1>2, LenProperties
<1> HIDE DEF n
<1>4. \A i \in 1 .. n + m : u[i] = MIXED => i \in 1 .. n /\ s[i] = MIXED
  <2> SUFFICES ASSUME NEW i \in 1 .. n + m, u[i] = MIXED
               PROVE  i \in 1 .. n /\ s[i] = MIXED
    OBVIOUS
  <2>1. i <= n \/ i - n \in 1 .. m
    BY <1>1
  <2> QED
    BY <1>0, <1>1, <1>2, <2>1
<1>5. \A i \in 1 .. n : i \in 1 .. n + m /\ u[i] = s[i]
  BY <1>1, <1>2
<1>6. Mixes(u) = {i \in 1 .. n + m : u[i] = MIXED} /\ Mixes(s) = {i \in 1 .. n : s[i] = MIXED}
  BY <1>1, <1>3 DEF Mixes
<1> QED
  BY <1>4, <1>5, <1>6 DEF u

LEMMA MixesAppend ==
  ASSUME NEW s \in Seq(Units)
  PROVE  /\ s \o <<MIXED>> \in Seq(Units)
         /\ Mixes(s \o <<MIXED>>) = Mixes(s) \cup {Len(s) + 1} /\ Len(s) + 1 \notin Mixes(s)
<1> DEFINE n == Len(s)
           u == Append(s, MIXED)
<1>1. MIXED \in Units /\ n \in Nat /\ DOMAIN s = 1 .. n
  BY LenProperties DEF Units
<1>2. s \o <<MIXED>> = u
  BY <1>1, AppendIsConcat
<1>3. /\ u \in Seq(Units) /\ Len(u) = n + 1 /\ u[n + 1] = MIXED
      /\ \A i \in 1 .. n : u[i] = s[i]
  BY <1>1, AppendProperties
<1> HIDE DEF u
<1>4. DOMAIN u = 1 .. n + 1
  BY <1>3, LenProperties
<1> HIDE DEF n
<1>5. \A i \in 1 .. n + 1 : i \in 1 .. n \/ i = n + 1
  BY <1>1
<1>6. n + 1 \in 1 .. n + 1 /\ n + 1 \notin 1 .. n /\ \A i \in 1 .. n : i \in 1 .. n + 1
  BY <1>1
<1>7. Mixes(u) = {i \in 1 .. n + 1 : u[i] = MIXED} /\ Mixes(s) = {i \in 1 .. n : s[i] = MIXED}
  BY <1>1, <1>4 DEF Mixes
<1>8. Mixes(u) = Mixes(s) \cup {n + 1}
  BY <1>3, <1>5, <1>6, <1>7
<1> QED
  BY <1>2, <1>3, <1>6, <1>7, <1>8 DEF n

LEMMA MixedConcat ==
  ASSUME NEW s \in Seq(Units), NEW t \in Seq(Plain)
  PROVE  /\ Mixed(s \o t) = Mixed(s)
         /\ Mixed((s \o <<MIXED>>) \o t) = Mixed(s) + 1
<1>1. Mixed(s \o t) = Mixed(s)
  BY MixesConcat DEF Mixed
<1>2. s \o <<MIXED>> \in Seq(Units) /\ Mixes((s \o <<MIXED>>) \o t) = Mixes(s \o <<MIXED>>)
  BY MixesAppend, MixesConcat
<1>3. Mixes(s \o <<MIXED>>) = Mixes(s) \cup {Len(s) + 1} /\ Len(s) + 1 \notin Mixes(s)
  BY MixesAppend
<1>4. IsFiniteSet(Mixes(s))
  BY MixesIs
<1>5. Cardinality(Mixes(s) \cup {Len(s) + 1})
        = IF Len(s) + 1 \in Mixes(s) THEN Cardinality(Mixes(s)) ELSE Cardinality(Mixes(s)) + 1
  BY <1>4, FS_AddElement
<1> QED
  BY <1>1, <1>2, <1>3, <1>5 DEF Mixed

\* A header line has one if it is that of the host.
LEMMA HeaderMixed ==
  ASSUME NEW s \in Seq(Units), NEW line \in Seq(Bytes), line # << >>
  PROVE  Mixed(s \o Header(line)) = IF line[1] = HOST THEN Mixed(s) + 1 ELSE Mixed(s)
<1>1. /\ <<NL>> \in Seq(Plain) /\ <<SEP>> \in Seq(Plain)
      /\ MIXED \in Units /\ SEP \in Units
  BY BytesArePlain DEF Plain
<1>2. \A t, u \in Seq(Plain) : t \o u \in Seq(Plain)
  BY ConcatProperties
<1>3. CASE line[1] # HOST
  <2>1. line \o <<NL>> \in Seq(Plain)
    BY <1>1, <1>2, BytesArePlain
  <2>2. Header(line) = line \o <<NL>>
    BY <1>3 DEF Header
  <2>3. Mixed(s \o Header(line)) = Mixed(s)
    BY <2>1, <2>2, MixedConcat
  <2> QED
    BY <1>3, <2>3
<1>4. CASE line[1] = HOST
  <2> DEFINE r == Trim(Tail(line))
             t == <<SEP>> \o (r \o <<NL>>)
  <2>1. r \in Seq(Bytes)
    <3>1. Tail(line) \in Seq(Bytes)
      BY HeadTailProperties
    <3> QED
      BY <3>1, TrimIs
  <2>2. t \in Seq(Plain) /\ r \o <<NL>> \in Seq(Plain) /\ r \in Seq(Plain)
    <3>1. r \in Seq(Plain)
      BY <2>1, BytesArePlain
    <3>2. r \o <<NL>> \in Seq(Plain)
      BY <1>1, <1>2, <3>1
    <3> QED
      BY <1>1, <1>2, <3>1, <3>2
  <2>3. Header(line) = <<MIXED, SEP>> \o r \o <<NL>>
    BY <1>4 DEF Header
  <2> HIDE DEF r
  <2>4. s \o Header(line) = (s \o <<MIXED>>) \o t
    <3>1. <<MIXED, SEP>> = <<MIXED>> \o <<SEP>>
      <4>1. <<MIXED>> \in Seq(Units)
        BY <1>1
      <4> DEFINE p == Append(<<MIXED>>, SEP)
                 q == <<MIXED, SEP>>
      <4>2. p = <<MIXED>> \o <<SEP>>
        BY <1>1, <4>1, AppendIsConcat
      <4>3. p \in Seq(Units) /\ Len(p) = 2 /\ p[1] = MIXED /\ p[2] = SEP
        BY <1>1, <4>1
      <4>4. q \in Seq(Units) /\ Len(q) = 2 /\ q[1] = MIXED /\ q[2] = SEP
        BY <1>1
      <4> HIDE DEF p, q
      <4>5. \A i \in 1 .. Len(p) : p[i] = q[i]
        BY <4>3, <4>4
      <4>6. p = q
        BY <4>3, <4>4, <4>5, SeqEqual
      <4> QED
        BY <4>2, <4>6 DEF q
    <3>2. /\ <<MIXED>> \in Seq(Units) /\ <<SEP>> \in Seq(Units) /\ <<NL>> \in Seq(Units)
          /\ r \in Seq(Units) /\ r \o <<NL>> \in Seq(Units)
      <4>1. \A u \in Seq(Plain) : u \in Seq(Units)
        BY PlainIs
      <4>2. <<MIXED>> \in Seq(Units)
        BY <1>1
      <4> QED
        BY <1>1, <2>2, <4>1, <4>2, Zenon
    <3>3. (<<MIXED>> \o <<SEP>>) \o r = <<MIXED>> \o (<<SEP>> \o r)
      BY <3>2, ConcatAssociative
    <3>4. <<SEP>> \o r \in Seq(Units) /\ t \in Seq(Units)
      BY <3>2, ConcatProperties
    <3>5. (<<MIXED>> \o (<<SEP>> \o r)) \o <<NL>> = <<MIXED>> \o ((<<SEP>> \o r) \o <<NL>>)
      BY <3>2, <3>4, ConcatAssociative
    <3>6. (<<SEP>> \o r) \o <<NL>> = <<SEP>> \o (r \o <<NL>>)
      BY <3>2, ConcatAssociative
    <3>7. Header(line) = <<MIXED>> \o t
      BY <2>3, <3>1, <3>3, <3>5, <3>6
    <3> HIDE DEF t
    <3>8. s \o (<<MIXED>> \o t) = (s \o <<MIXED>>) \o t
      BY <3>2, <3>4, ConcatAssociative
    <3> QED
      BY <3>7, <3>8
  <2> HIDE DEF t
  <2>5. Mixed((s \o <<MIXED>>) \o t) = Mixed(s) + 1
    BY <2>2, MixedConcat
  <2> QED
    BY <1>4, <2>4, <2>5
<1> QED
  BY <1>3, <1>4

\* The host lines among the first bytes.
HostLines(to) == {i \in 2 .. to : chunk[i] = HOST /\ chunk[i - 1] = LF}

\* While the head is rewritten every line end up to the offset was followed by a line that
\* is not empty, and there is a host key written for every host line.
Rewritten ==
  /\ offset \in 1 .. Len(chunk) /\ (offset = Len(chunk) \/ chunk[offset] = LF)
  /\ \A i \in 1 .. offset - 1 : ~IsBlank(i)
  /\ Mixed(out) = Cardinality(HostLines(offset))

RewriteInv ==
  /\ KeptInv
  /\ step \in {"headers", "rest"} /\ obfuscate => Rewritten
  /\ step = "rest" /\ obfuscate => offset = HeadEnd
  /\ HeadRewritten

\* A line more.
LEMMA HostLinesMore ==
  ASSUME chunk \in Seq(Bytes), NEW at \in 1 .. Len(chunk) - 1, chunk[at] = LF,
         NEW to \in at + 1 .. Len(chunk), \A i \in at + 1 .. to - 1 : chunk[i] # LF
  PROVE  Cardinality(HostLines(to))
           = IF chunk[at + 1] = HOST THEN Cardinality(HostLines(at)) + 1
             ELSE Cardinality(HostLines(at))
<1>1. Len(chunk) \in Nat /\ at \in Nat /\ to \in Nat /\ at >= 1 /\ to >= at + 1
  BY LenProperties
<1>2. IsFiniteSet(HostLines(at))
  <2>1. IsFiniteSet(2 .. at) /\ HostLines(at) \subseteq 2 .. at
    BY <1>1, FS_Interval DEF HostLines
  <2> QED
    BY <2>1, FS_Subset
<1>3. at + 1 \notin HostLines(at)
  BY <1>1 DEF HostLines
<1>4. \A i \in 2 .. to : chunk[i - 1] = LF => i \in 2 .. at \/ i = at + 1
  <2> SUFFICES ASSUME NEW i \in 2 .. to, chunk[i - 1] = LF, i \notin 2 .. at, i # at + 1
               PROVE  FALSE
    OBVIOUS
  <2>1. i - 1 \in at + 1 .. to - 1
    BY <1>1
  <2> QED
    BY <2>1
<1>5. \A i \in 2 .. at : i \in 2 .. to
  BY <1>1
<1>6. at + 1 \in 2 .. to /\ (at + 1) - 1 = at
  BY <1>1
<1>7. CASE chunk[at + 1] = HOST
  <2>1. HostLines(to) = HostLines(at) \cup {at + 1}
    BY <1>4, <1>5, <1>6, <1>7 DEF HostLines
  <2>2. Cardinality(HostLines(at) \cup {at + 1})
          = IF at + 1 \in HostLines(at) THEN Cardinality(HostLines(at))
            ELSE Cardinality(HostLines(at)) + 1
    BY <1>2, FS_AddElement
  <2> QED
    BY <1>3, <1>7, <2>1, <2>2
<1>8. CASE chunk[at + 1] # HOST
  <2>1. HostLines(to) = HostLines(at)
    BY <1>4, <1>5, <1>6, <1>8 DEF HostLines
  <2> QED
    BY <1>8, <2>1
<1> QED
  BY <1>7, <1>8

\* The loop ends where the head does.
LEMMA HeadEndIs ==
  ASSUME chunk \in Seq(Bytes), Rewritten,
         offset = Len(chunk) \/ ReadLine(offset).data = << >>
  PROVE  offset = HeadEnd
<1> DEFINE blank == {i \in 1 .. Len(chunk) - 1 : IsBlank(i)}
<1>1. HeadEnd = IF blank = {} THEN Len(chunk) ELSE Min(blank)
  BY DEF HeadEnd, IsBlank
<1>2. /\ Len(chunk) \in Nat /\ offset \in 1 .. Len(chunk)
      /\ \A i \in 1 .. offset - 1 : ~IsBlank(i)
  BY LenProperties DEF Rewritten
<1>3. CASE offset = Len(chunk)
  <2>1. blank = {}
    BY <1>2, <1>3
  <2> QED
    BY <1>1, <1>3, <2>1
<1>4. CASE offset # Len(chunk)
  <2>1. offset \in 1 .. Len(chunk) - 1 /\ chunk[offset] = LF /\ ReadLine(offset).data = << >>
    BY <1>2, <1>4 DEF Rewritten
  <2>2. IsBlank(offset)
    BY <2>1, LineIs
  <2>3. offset \in blank /\ blank \in SUBSET Nat
    BY <1>2, <2>1, <2>2
  <2>4. \A i \in blank : i \in Nat /\ i \notin 1 .. offset - 1 /\ i >= 1
    BY <1>2
  <2>5. \A i \in blank : offset <= i
    BY <1>2, <2>4
  <2> HIDE DEF blank
  <2>6. Min(blank) \in blank /\ \A i \in blank : Min(blank) <= i
    BY <2>3, MinIs
  <2>7. Min(blank) <= offset /\ offset <= Min(blank) /\ Min(blank) \in Nat
    BY <2>3, <2>5, <2>6
  <2> QED
    BY <1>1, <1>2, <2>3, <2>7
<1> QED
  BY <1>3, <1>4

\* One header line.
LEMMA RewrittenMore ==
  ASSUME chunk \in Seq(Bytes), out \in Seq(Units), Rewritten, offset # Len(chunk),
         ReadLine(offset).data # << >>, chunk' = chunk,
         out' = out \o Header(ReadLine(offset).data),
         offset' = offset + ReadLine(offset).size
  PROVE  Rewritten'
<1> DEFINE line == ReadLine(offset)
           to == offset + line.size
<1>1. /\ Len(chunk) \in Nat /\ offset \in 1 .. Len(chunk) - 1 /\ chunk[offset] = LF
      /\ \A i \in 1 .. offset - 1 : ~IsBlank(i)
      /\ Mixed(out) = Cardinality(HostLines(offset))
  BY LenProperties DEF Rewritten
<1>2. /\ line.size \in Nat /\ line.size >= 1 /\ offset + line.size <= Len(chunk)
      /\ \A i \in offset + 1 .. offset + line.size - 1 : chunk[i] # LF
      /\ offset + line.size = Len(chunk) \/ chunk[offset + line.size] = LF
      /\ line.data = << >> <=> IsBlank(offset)
      /\ line.data # << >> => line.data \in Seq(Bytes) /\ line.data[1] = chunk[offset + 1]
  BY <1>1, LineIs
<1>3. line.data # << >> /\ offset' = to /\ out' = out \o Header(line.data)
  OBVIOUS
<1> HIDE DEF line
<1>4. /\ to \in offset + 1 .. Len(chunk) /\ to \in 1 .. Len(chunk)
      /\ \A i \in offset + 1 .. to - 1 : chunk[i] # LF
      /\ to = Len(chunk) \/ chunk[to] = LF
  BY <1>1, <1>2
<1> HIDE DEF to
<1>5. \A i \in 1 .. to - 1 : ~IsBlank(i)
  <2> SUFFICES ASSUME NEW i \in 1 .. to - 1 PROVE ~IsBlank(i)
    OBVIOUS
  <2>1. i \in 1 .. offset - 1 \/ i = offset \/ i \in offset + 1 .. to - 1
    BY <1>1, <1>4
  <2> QED
    BY <1>1, <1>2, <1>3, <1>4, <2>1 DEF IsBlank
<1>6. Mixed(out \o Header(line.data))
        = IF line.data[1] = HOST THEN Mixed(out) + 1 ELSE Mixed(out)
  BY <1>2, <1>3, HeaderMixed
<1>7. Cardinality(HostLines(to))
        = IF chunk[offset + 1] = HOST THEN Cardinality(HostLines(offset)) + 1
          ELSE Cardinality(HostLines(offset))
  BY <1>1, <1>2, <1>4, HostLinesMore
<1>8. Mixed(out') = Cardinality(HostLines(to))
  BY <1>1, <1>2, <1>3, <1>6, <1>7
<1>9. /\ \A i : IsBlank(i)' <=> IsBlank(i)
      /\ Mixed(out)' = Mixed(out') /\ HostLines(offset)' = HostLines(to)
  BY <1>3 DEF IsBlank, Mixed, Mixes, HostLines
<1> QED
  <2>1. offset' \in 1 .. Len(chunk') /\ (offset' = Len(chunk') \/ chunk'[offset'] = LF)
    BY <1>3, <1>4
  <2>2. \A i \in 1 .. offset' - 1 : ~IsBlank(i)'
    BY <1>3, <1>5, <1>9
  <2>3. Mixed(out)' = Cardinality(HostLines(offset)')
    BY <1>8, <1>9
  <2> QED
    BY <2>1, <2>2, <2>3 DEF Rewritten

LEMMA RewriteInit == Init => RewriteInv
BY KeptInit DEF Init, RewriteInv, HeadRewritten

\* The request line: no host key, and no line behind it yet.
LEMMA FirstLineRewritten ==
  ASSUME chunk \in Seq(Bytes), RequestLine, obfuscate'
  PROVE  Rewritten'
<1> DEFINE line == ReadLine(0)
           tokens == Tokens(line.data)
<1>1. /\ Acceptable(tokens) /\ offset' = line.size /\ chunk' = chunk
      /\ out' = tokens[1] \o <<SEP>> \o tokens[2] \o <<SEP>> \o tokens[3] \o <<NL>>
  BY DEF RequestLine
<1>2. /\ line.size \in 1 .. Len(chunk) /\ \A i \in 1 .. line.size - 1 : chunk[i] # LF
      /\ line.size = Len(chunk) \/ chunk[line.size] = LF
  BY <1>1, FirstLineIs
<1>3. tokens[1] \in Seq(Plain) /\ tokens[2] \in Seq(Plain) /\ tokens[3] \in Seq(Plain)
  <2>1. 0 \in 0 .. Len(chunk)
    BY LenProperties
  <2>2. line.data \in Seq(Bytes)
    BY <2>1, ReadLineIs
  <2>3. PICK a, b, c \in Bytes : tokens[1] = <<a>> /\ tokens[2] = <<b>> /\ tokens[3] = <<c>>
    BY <1>1, <2>2, AcceptableIs
  <2>4. <<a>> \in Seq(Plain) /\ <<b>> \in Seq(Plain) /\ <<c>> \in Seq(Plain)
    BY BytesArePlain
  <2> QED
    BY <2>3, <2>4
<1> HIDE DEF line, tokens
<1>4. out' \in Seq(Plain)
  <2>1. \A t, u \in Seq(Plain) : t \o u \in Seq(Plain)
    BY ConcatProperties
  <2>2. <<NL>> \in Seq(Plain) /\ <<SEP>> \in Seq(Plain)
    BY BytesArePlain
  <2> DEFINE x2 == tokens[1] \o <<SEP>>
             x3 == x2 \o tokens[2]
             x4 == x3 \o <<SEP>>
             x5 == x4 \o tokens[3]
  <2>3. x2 \in Seq(Plain)
    BY <1>3, <2>1, <2>2
  <2> HIDE DEF x2
  <2>4. x3 \in Seq(Plain)
    BY <1>3, <2>1, <2>3
  <2> HIDE DEF x3
  <2>5. x4 \in Seq(Plain)
    BY <2>1, <2>2, <2>4
  <2> HIDE DEF x4
  <2>6. x5 \in Seq(Plain)
    BY <1>3, <2>1, <2>5
  <2> HIDE DEF x5
  <2>7. x5 \o <<NL>> \in Seq(Plain)
    BY <2>1, <2>2, <2>6
  <2> QED
    BY <1>1, <2>7 DEF x2, x3, x4, x5
<1>5. Mixed(out)' = 0
  <2> DEFINE x == out'
  <2>1. x \in Seq(Plain)
    BY <1>4
  <2> HIDE DEF x
  <2>2. \A i \in 1 .. Len(x) : x[i] # MIXED
    BY <2>1, PlainIs
  <2>3. DOMAIN x = 1 .. Len(x)
    BY <2>1, LenProperties
  <2>4. {i \in DOMAIN x : x[i] = MIXED} = {}
    BY <2>2, <2>3
  <2>5. Cardinality({i \in DOMAIN x : x[i] = MIXED}) = 0
    BY <2>4, FS_EmptySet
  <2> QED
    BY <2>5 DEF x, Mixed, Mixes
<1>6. HostLines(offset)' = {}
  <2>1. \A i \in 2 .. line.size : i - 1 \in 1 .. line.size - 1
    BY <1>2
  <2>2. {i \in 2 .. line.size : chunk[i] = HOST /\ chunk[i - 1] = LF} = {}
    BY <1>2, <2>1
  <2> QED
    BY <1>1, <2>2 DEF HostLines
<1>7. Cardinality(HostLines(offset)') = 0
  BY <1>6, FS_EmptySet
<1>8. \A i \in 1 .. offset' - 1 : ~IsBlank(i)'
  BY <1>1, <1>2 DEF IsBlank
<1> QED
  BY <1>1, <1>2, <1>5, <1>7, <1>8 DEF Rewritten

\* The rest of the chunk is written as it is.
LEMMA RestRewritten ==
  ASSUME chunk \in Seq(Bytes), out \in Seq(Units), Rewritten, offset = HeadEnd, Rest
  PROVE  HeadRewritten'
<1> DEFINE n == Len(chunk)
           t == SubSeq(chunk, offset + 1, n)
           u == out \o t
<1>1. chunk' = chunk /\ offset' = offset /\ out' = u
  BY DEF Rest
<1>2. n \in Nat /\ offset \in 1 .. n
  BY LenProperties DEF Rewritten
<1>3. /\ t \in Seq(Bytes) /\ t \in Seq(Plain) /\ t \in Seq(Units)
      /\ Len(t) = n - offset /\ \A i \in 1 .. Len(t) : t[i] \in Bytes
  <2>1. offset + 1 \in Nat \ {0} /\ n \in Int /\ n <= Len(chunk)
    BY <1>2
  <2>2. t \in Seq(Bytes) /\ Len(t) = IF offset + 1 <= n THEN n - (offset + 1) + 1 ELSE 0
    BY <2>1, PartIs
  <2> HIDE DEF t, n
  <2>3. Len(t) = n - offset
    BY <1>2, <2>2
  <2>4. t \in Seq(Plain)
    BY <2>2, BytesArePlain
  <2>5. t \in Seq(Units)
    BY <2>4, PlainIs
  <2>6. \A i \in 1 .. Len(t) : t[i] \in Bytes
    BY <2>2, ElementOfSeq
  <2> QED
    BY <2>2, <2>3, <2>4, <2>5, <2>6
<1> HIDE DEF t, n
<1>4. Mixed(u) = Cardinality(HostLines(offset))
  BY <1>3, MixedConcat DEF Rewritten
<1>5. /\ u \in Seq(Units) /\ Len(u) = Len(out) + (n - offset) /\ Len(out) \in Nat
      /\ \A i \in 1 .. Len(u) : u[i] = IF i <= Len(out) THEN out[i] ELSE t[i - Len(out)]
  <2>1. /\ u \in Seq(Units) /\ Len(u) = Len(out) + Len(t)
        /\ \A i \in 1 .. Len(out) + Len(t) :
             u[i] = IF i <= Len(out) THEN out[i] ELSE t[i - Len(out)]
    BY <1>3, ConcatProperties
  <2> QED
    BY <1>3, <2>1, LenProperties
<1> HIDE DEF u
<1>6. DOMAIN u = 1 .. Len(u)
  BY <1>5, LenProperties
<1>7. \A i \in DOMAIN u : u[i] \in {MIXED, SEP, NL} => i <= Len(u) - (n - offset)
  <2> SUFFICES ASSUME NEW i \in 1 .. Len(u), u[i] \in {MIXED, SEP, NL}, ~(i <= Len(out))
               PROVE  FALSE
    BY <1>2, <1>5, <1>6
  <2>1. i - Len(out) \in 1 .. Len(t)
    BY <1>2, <1>3, <1>5
  <2>2. u[i] \in Bytes
    BY <1>3, <1>5, <2>1
  <2> QED
    BY <2>2, RequestHeadAssumption
<1>8. HeadEnd' = HeadEnd
  BY <1>1 DEF HeadEnd
<1>9. Cardinality({i \in DOMAIN u : u[i] = MIXED})
        = Cardinality({i \in 2 .. HeadEnd : chunk[i] = HOST /\ chunk[i - 1] = LF})
  BY <1>4 DEF Mixed, Mixes, HostLines
<1> QED
  BY <1>1, <1>7, <1>8, <1>9 DEF HeadRewritten, n

LEMMA RewriteStep == RewriteInv /\ [Next]_vars => RewriteInv'
<1> SUFFICES ASSUME RewriteInv, [Next]_vars PROVE RewriteInv'
  OBVIOUS
<1>1. KeptInv' /\ chunk \in Seq(Bytes) /\ out \in Seq(Units)
  BY KeptStep, RequestHeadAssumption DEF RewriteInv, KeptInv
<1>2. CASE RequestLine
  <2>1. step' \in {"headers", "rest"} /\ (step' = "rest" => ~obfuscate')
    BY <1>2 DEF RequestLine
  <2>2. obfuscate' => Rewritten'
    BY <1>1, <1>2, FirstLineRewritten
  <2> QED
    BY <1>1, <2>1, <2>2 DEF RewriteInv, HeadRewritten
<1>3. CASE HeaderLine
  <2>1. step = "headers" /\ obfuscate' = obfuscate /\ chunk' = chunk
    BY <1>3 DEF HeaderLine
  <2>2. CASE offset = Len(chunk) \/ ReadLine(offset).data = << >>
    <3>1. step' = "rest" /\ offset' = offset /\ out' = out
      BY <1>3, <2>2 DEF HeaderLine
    <3>2. obfuscate => Rewritten /\ offset = HeadEnd
      BY <1>1, <2>1, <2>2, HeadEndIs DEF RewriteInv
    <3>3. HeadEnd' = HeadEnd /\ (Rewritten => Rewritten')
      BY <2>1, <3>1 DEF HeadEnd, Rewritten, IsBlank, Mixed, Mixes, HostLines
    <3> QED
      BY <1>1, <2>1, <3>1, <3>2, <3>3 DEF RewriteInv, HeadRewritten
  <2>3. CASE ~(offset = Len(chunk) \/ ReadLine(offset).data = << >>)
    <3>1. /\ out' = out \o Header(ReadLine(offset).data)
          /\ offset' = offset + ReadLine(offset).size /\ step' = "headers"
      BY <1>3, <2>1, <2>3 DEF HeaderLine
    <3>2. obfuscate => Rewritten'
      BY <1>1, <2>1, <2>3, <3>1, RewrittenMore DEF RewriteInv
    <3> QED
      BY <1>1, <2>1, <3>1, <3>2 DEF RewriteInv, HeadRewritten
  <2> QED
    BY <2>2, <2>3
<1>4. CASE Rest
  <2>1. step = "rest" /\ step' = "done" /\ obfuscate' = obfuscate
    BY <1>4 DEF Rest
  <2>2. obfuscate => HeadRewritten'
    BY <1>1, <1>4, <2>1, RestRewritten DEF RewriteInv
  <2> QED
    BY <1>1, <2>1, <2>2 DEF RewriteInv, HeadRewritten
<1>5. CASE Refuse \/ Tunnel \/ HelloThrows \/ HelloData \/ Fragment
  <2>1. step' \notin {"headers", "rest", "done"}
    BY <1>5 DEF Refuse, Tunnel, HelloThrows, HelloData, Fragment
  <2> QED
    BY <1>1, <2>1 DEF RewriteInv, HeadRewritten
<1>6. CASE UNCHANGED vars
  <2>1. /\ step' = step /\ chunk' = chunk /\ obfuscate' = obfuscate
        /\ offset' = offset /\ out' = out
    BY <1>6 DEF vars, headVars
  <2>2. /\ HeadEnd' = HeadEnd /\ (Rewritten => Rewritten')
        /\ HeadRewritten => HeadRewritten'
    BY <2>1 DEF HeadEnd, Rewritten, IsBlank, Mixed, Mixes, HostLines, HeadRewritten
  <2> QED
    BY <1>1, <2>1, <2>2 DEF RewriteInv
<1> QED
  BY <1>2, <1>3, <1>4, <1>5, <1>6 DEF Next

\* Of a head to obfuscate, however many lines it has and wherever its chunk is cut, all is
\* written anew up to its empty line and nothing behind it, with a mixed key for every line
\* that begins with that of the host and for no other (lines 319 to 341 and 355).
THEOREM HeadIsRewritten == Spec => []HeadRewritten
<1>1. RewriteInv => HeadRewritten
  BY DEF RewriteInv
<1> QED
  BY <1>1, RewriteInit, RewriteStep, PTL DEF Spec

=============================================================================
