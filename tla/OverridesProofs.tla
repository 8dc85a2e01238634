-------------------------- MODULE OverridesProofs --------------------------
(***************************************************************************)
(* Proof about Overrides, for bytes of any number of bits, addresses of    *)
(* any size and options of any length: the rule that is found for an       *)
(* address is that of the smallest network it is in, as long as no address *)
(* of the option is written dotted.  The masks compare the first bits, the *)
(* parser reads what a text means, and the sort gives every accepted entry *)
(* a place of its own; the powers of two are defined by recursion, which   *)
(* takes the least number as its induction.                                *)
(***************************************************************************)
EXTENDS Overrides, FiniteSetTheorems, SequenceTheorems, WellFoundedInduction, TLAPS

-----------------------------------------------------------------------------
\* A set of numbers has a least one: the form in which these proofs use induction.
LEMMA LeastNumber ==
  ASSUME NEW T \in SUBSET Nat, T # {}
  PROVE  \E x \in T : \A y \in T : x <= y
<1>1. PICK x \in T : \A y \in T : <<y, x>> \notin OpToRel(<, Nat)
  BY WFMin, NatLessThanWellFounded
<1>2. \A y \in T : ~(y < x)
  BY <1>1 DEF OpToRel
<1>3. \A y \in T : x \in Nat /\ y \in Nat
  OBVIOUS
<1>4. \A y \in T : x <= y
  BY <1>2, <1>3
<1> QED
  BY <1>4

-----------------------------------------------------------------------------
(***************************************************************************)
(* The powers of two: their recursive function exists, by the least number *)
(* for which it would not.                                                 *)
(***************************************************************************)
Doubles(f, n) == f = [i \in 0 .. n |-> IF i = 0 THEN 1 ELSE 2 * f[i - 1]]

\* The function that Pow2 is defined as exists up to any number.
LEMMA DoublesExists ==
  ASSUME NEW n \in Nat
  PROVE  \E f : Doubles(f, n)
<1> DEFINE T == {m \in Nat : ~ \E f : Doubles(f, m)}
<1> SUFFICES ASSUME T # {} PROVE FALSE
  OBVIOUS
<1>1. PICK m \in T : \A j \in T : m <= j
  <2>1. T \in SUBSET Nat /\ T # {}
    OBVIOUS
  <2> HIDE DEF T
  <2> QED
    BY <2>1, LeastNumber
<1>2. CASE m = 0
  <2>1. Doubles([i \in 0 .. 0 |-> 1], 0)
    BY DEF Doubles
  <2> QED
    BY <1>1, <1>2, <2>1
<1>3. CASE m # 0
  <2>1. m - 1 \in Nat /\ m - 1 \notin T
    BY <1>1, <1>3
  <2>2. PICK f : Doubles(f, m - 1)
    BY <2>1
  <2>3. \A i \in 0 .. m - 1 : f[i] = IF i = 0 THEN 1 ELSE 2 * f[i - 1]
    BY <2>2 DEF Doubles
  <2> DEFINE g == [i \in 0 .. m |-> IF i = m THEN 2 * f[m - 1] ELSE f[i]]
  <2>4. ASSUME NEW i \in 0 .. m
        PROVE  g[i] = IF i = 0 THEN 1 ELSE 2 * g[i - 1]
    <3>1. CASE i = m
      <4>1. g[i] = 2 * f[m - 1] /\ i # 0 /\ i - 1 = m - 1 /\ m - 1 \in 0 .. m /\ m - 1 # m
        BY <1>3, <3>1
      <4>2. g[m - 1] = f[m - 1]
        BY <4>1
      <4> HIDE DEF g
      <4> QED
        BY <4>1, <4>2
    <3>2. CASE i # m
      <4>1. i \in 0 .. m - 1 /\ (i # 0 => i - 1 \in 0 .. m /\ i - 1 # m)
        BY <3>2
      <4>2. g[i] = f[i] /\ (i # 0 => g[i - 1] = f[i - 1])
        BY <3>2, <4>1
      <4> HIDE DEF g
      <4> QED
        BY <2>3, <4>1, <4>2
    <3> QED
      BY <3>1, <3>2
  <2>5. g = [i \in 0 .. m |-> g[i]]
    OBVIOUS
  <2> HIDE DEF g
  <2>6. Doubles(g, m)
    BY <2>4, <2>5 DEF Doubles
  <2> QED
    BY <1>1, <2>6
<1> QED
  BY <1>2, <1>3

\* Pow2 satisfies its recursive definition, ...
LEMMA Pow2Is ==
  /\ Bits \in Nat /\ Bits > 0
  /\ Pow2[0] = 1
  /\ \A n \in 1 .. Bits : Pow2[n] = 2 * Pow2[n - 1]
<1>1. Bits \in Nat /\ Bits > 0
  BY OverridesAssumption
<1>2. Pow2 = [n \in 0 .. Bits |-> IF n = 0 THEN 1 ELSE 2 * Pow2[n - 1]]
  BY <1>1, DoublesExists DEF Pow2, Doubles
<1> QED
  BY <1>1, <1>2

\* ... so its values are positive.
LEMMA Pow2Positive == \A n \in 0 .. Bits : Pow2[n] \in Nat /\ Pow2[n] > 0
<1> DEFINE T == {n \in 0 .. Bits : ~(Pow2[n] \in Nat /\ Pow2[n] > 0)}
<1> SUFFICES ASSUME T # {} PROVE FALSE
  OBVIOUS
<1>1. PICK n \in T : \A j \in T : n <= j
  <2>1. T \in SUBSET Nat /\ T # {}
    OBVIOUS
  <2> HIDE DEF T
  <2> QED
    BY <2>1, LeastNumber
<1>2. n # 0
  BY <1>1, Pow2Is
<1>3. n \in 1 .. Bits /\ n - 1 \in 0 .. Bits /\ n - 1 \notin T
  BY <1>1, <1>2, Pow2Is
<1>4. Pow2[n - 1] \in Nat /\ Pow2[n - 1] > 0 /\ Pow2[n] = 2 * Pow2[n - 1]
  BY <1>3, Pow2Is
<1> QED
  BY <1>1, <1>4

-----------------------------------------------------------------------------
(***************************************************************************)
(* Division.                                                               *)
(***************************************************************************)
\* A number is made of its quotient and its remainder, ...
LEMMA Division ==
  ASSUME NEW x \in Nat, NEW d \in Nat, d > 0
  PROVE  x \div d \in Nat /\ x % d \in 0 .. d - 1 /\ x % d = x - d * (x \div d)
<1>1. x \div d \in Nat
  OBVIOUS
<1>2. x % d \in 0 .. d - 1
  OBVIOUS
<1>3. x % d = x - d * (x \div d)
  OBVIOUS
<1> QED
  BY <1>1, <1>2, <1>3

\* ... and of no other ones.
LEMMA Quotient ==
  ASSUME NEW d \in Nat, d > 0, NEW q \in Nat, NEW r \in 0 .. d - 1
  PROVE  (d * q + r) \div d = q /\ (d * q + r) % d = r
<1> DEFINE x == d * q + r
           p == x \div d
           s == x % d
<1>1. x \in Nat
  OBVIOUS
<1>2. p \in Nat /\ s \in 0 .. d - 1 /\ s = x - d * p
  BY <1>1, Division
<1> HIDE DEF p, s
<1>3. d * p + s = d * q + r
  BY <1>2
<1> HIDE DEF x
<1>4. p = q
  <2>1. CASE p < q
    <3>1. d * (p + 1) <= d * q
      BY <1>2, <2>1
    <3>2. d * (p + 1) = d * p + d
      BY <1>2
    <3> QED
      BY <1>2, <1>3, <3>1, <3>2
  <2>2. CASE p > q
    <3>1. d * (q + 1) <= d * p
      BY <1>2, <2>2
    <3>2. d * (q + 1) = d * q + d
      BY <1>2
    <3> QED
      BY <1>2, <1>3, <3>1, <3>2
  <2> QED
    BY <1>2, <2>1, <2>2
<1>5. s = r
  BY <1>2, <1>3, <1>4
<1> QED
  BY <1>4, <1>5 DEF p, s, x

\* A byte without its last k bits, and bit k of it.
Part(x, k) == x \div Pow2[k]
Bit(x, k)  == Part(x, k) % 2

\* Both are numbers.
LEMMA PartIs ==
  ASSUME NEW x \in Nat, NEW k \in 0 .. Bits
  PROVE  Part(x, k) \in Nat /\ Bit(x, k) \in 0 .. 1
<1>1. Pow2[k] \in Nat /\ Pow2[k] > 0
  BY Pow2Positive
<1>2. Part(x, k) \in Nat
  BY <1>1, Division DEF Part
<1> QED
  BY <1>2 DEF Bit

\* A part without one bit more is half of it.
LEMMA Halving ==
  ASSUME NEW x \in Nat, NEW k \in 0 .. Bits - 1
  PROVE  Part(x, k) = 2 * Part(x, k + 1) + Bit(x, k)
<1> DEFINE p == Pow2[k]
           a == x \div p
           r == x % p
           b == a \div 2
           c == a % 2
<1>1. k + 1 \in 1 .. Bits /\ k \in 0 .. Bits /\ (k + 1) - 1 = k
  BY Pow2Is
<1>2. p \in Nat /\ p > 0 /\ Pow2[k + 1] = 2 * p
  <2>1. Pow2[k + 1] = 2 * Pow2[(k + 1) - 1]
    BY <1>1, Pow2Is
  <2> QED
    BY <1>1, <2>1, Pow2Positive
<1> HIDE DEF p
<1>3. a \in Nat /\ r \in 0 .. p - 1 /\ r = x - p * a
  BY <1>2, Division
<1>4. b \in Nat /\ c \in 0 .. 1 /\ c = a - 2 * b
  <2> HIDE DEF a
  <2> QED
    BY <1>3
<1> HIDE DEF a, r, b, c
<1> DEFINE d == 2 * p
           s == p * c + r
<1>5. d \in Nat /\ d > 0 /\ s \in 0 .. d - 1
  <2>1. c = 0 \/ c = 1
    BY <1>4
  <2>2. CASE c = 0
    BY <1>2, <1>3, <2>2
  <2>3. CASE c = 1
    BY <1>2, <1>3, <2>3
  <2> QED
    BY <2>1, <2>2, <2>3
<1>6. x = d * b + s
  <2>1. a = 2 * b + c /\ x = p * a + r
    BY <1>2, <1>3, <1>4
  <2>2. p * (2 * b + c) = (2 * p) * b + p * c
    BY <1>2, <1>4
  <2>3. p * a = (2 * p) * b + p * c
    BY <2>1, <2>2
  <2> QED
    BY <1>2, <1>3, <1>4, <2>1, <2>3
<1> HIDE DEF d, s
<1>7. x \div d = b
  BY <1>4, <1>5, <1>6, Quotient
<1>8. Part(x, k + 1) = b
  BY <1>2, <1>7 DEF Part, d
<1>9. Part(x, k) = a /\ Bit(x, k) = c
  BY DEF Part, Bit, a, c, p
<1> QED
  BY <1>3, <1>4, <1>8, <1>9

\* A byte has no more than its bits.
LEMMA ByteIsNat == \A x \in Byte : x \in Nat /\ x < Pow2[Bits]
<1>1. Bits \in 0 .. Bits
  BY Pow2Is
<1>2. Pow2[Bits] \in Nat
  BY <1>1, Pow2Positive
<1> QED
  BY <1>2 DEF Byte, Values

\* Bytes are the same but for their last k bits if all the others are.
LEMMA SameBits ==
  ASSUME NEW x \in Byte, NEW y \in Byte, NEW k \in 0 .. Bits
  PROVE  Part(x, k) = Part(y, k) <=> \A m \in k .. Bits - 1 : Bit(x, m) = Bit(y, m)
<1> DEFINE Same(j) == Part(x, j) = Part(y, j)
                        <=> \A m \in j .. Bits - 1 : Bit(x, m) = Bit(y, m)
           T == {e \in 0 .. Bits : ~Same(Bits - e)}
<1>0. Bits \in Nat /\ x \in Nat /\ y \in Nat
  BY Pow2Is, ByteIsNat
<1> SUFFICES ASSUME T # {} PROVE FALSE
  <2>1. Bits - k \in 0 .. Bits /\ Bits - (Bits - k) = k
    BY <1>0
  <2> HIDE DEF Same
  <2>2. Same(Bits - (Bits - k))
    BY <2>1, Zenon
  <2>3. Same(k)
    BY <2>1, <2>2
  <2> QED
    BY <2>3 DEF Same
<1>1. PICK e \in T : \A j \in T : e <= j
  <2>1. T \in SUBSET Nat
    BY <1>0
  <2> HIDE DEF T
  <2> QED
    BY <2>1, LeastNumber
<1> DEFINE j == Bits - e
<1>2. e \in 0 .. Bits /\ ~Same(j)
  BY <1>1
<1>3. e # 0
  <2> SUFFICES ASSUME e = 0 PROVE FALSE
    OBVIOUS
  <2>1. j = Bits /\ Pow2[Bits] \in Nat /\ Pow2[Bits] > 0
    BY <1>0, Pow2Positive
  <2>2. \A z \in Byte : Part(z, Bits) = 0
    <3> SUFFICES ASSUME NEW z \in Byte PROVE Part(z, Bits) = 0
      OBVIOUS
    <3> DEFINE d == Pow2[Bits]
    <3>1. z \in 0 .. d - 1 /\ d * 0 + z = z /\ d \in Nat /\ d > 0 /\ 0 \in Nat
      BY <2>1, ByteIsNat
    <3> HIDE DEF d
    <3>2. (d * 0 + z) \div d = 0
      BY <3>1, Quotient
    <3> QED
      BY <3>1, <3>2 DEF Part, d
  <2>3. Part(x, j) = Part(y, j) /\ \A m \in j .. Bits - 1 : FALSE
    BY <1>0, <2>1, <2>2
  <2> QED
    BY <1>2, <2>3
<1>4. j \in 0 .. Bits - 1 /\ j + 1 \in 0 .. Bits /\ Bits - (e - 1) = j + 1
  BY <1>0, <1>2, <1>3
<1>5. Same(j + 1)
  <2>1. e - 1 \in 0 .. Bits /\ e - 1 \notin T
    BY <1>0, <1>1, <1>2, <1>3
  <2> HIDE DEF Same
  <2> QED
    BY <1>4, <2>1
<1>6. /\ Part(x, j) = 2 * Part(x, j + 1) + Bit(x, j)
      /\ Part(y, j) = 2 * Part(y, j + 1) + Bit(y, j)
  BY <1>0, <1>4, Halving
<1>7. /\ Part(x, j + 1) \in Nat /\ Part(y, j + 1) \in Nat
      /\ Bit(x, j) \in 0 .. 1 /\ Bit(y, j) \in 0 .. 1
  BY <1>0, <1>4, PartIs
<1>8. \A m \in j .. Bits - 1 : m = j \/ m \in j + 1 .. Bits - 1
  BY <1>4
<1>9. \A m \in j + 1 .. Bits - 1 : m \in j .. Bits - 1
  BY <1>4
<1>10. j \in j .. Bits - 1
  BY <1>0, <1>4
<1> HIDE DEF j
<1>11. Part(x, j) = Part(y, j)
         <=> Part(x, j + 1) = Part(y, j + 1) /\ Bit(x, j) = Bit(y, j)
  BY <1>6, <1>7
<1>12. (\A m \in j .. Bits - 1 : Bit(x, m) = Bit(y, m))
         <=> Bit(x, j) = Bit(y, j) /\ \A m \in j + 1 .. Bits - 1 : Bit(x, m) = Bit(y, m)
  BY <1>8, <1>9, <1>10
<1> QED
  BY <1>2, <1>5, <1>11, <1>12

\* What the mask leaves of a byte.
LEMMA SameMasked ==
  ASSUME NEW x \in Byte, NEW y \in Byte, NEW k \in 0 .. Bits
  PROVE  x - (x % Pow2[k]) = y - (y % Pow2[k]) <=> Part(x, k) = Part(y, k)
<1> DEFINE d == Pow2[k]
           q(z) == z \div d
<1>1. x \in Nat /\ y \in Nat /\ d \in Nat /\ d > 0
  BY ByteIsNat, Pow2Positive
<1> HIDE DEF d
<1>2. /\ q(x) \in Nat /\ q(y) \in Nat
      /\ x % d = x - d * q(x) /\ y % d = y - d * q(y)
  BY <1>1, Division
<1> DEFINE a == q(x)
           b == q(y)
<1>3. a \in Nat /\ b \in Nat /\ x - (x % d) = d * a /\ y - (y % d) = d * b
  <2> DEFINE u == x % d
             v == y % d
  <2>1. a \in Nat /\ b \in Nat /\ u = x - d * a /\ v = y - d * b
    BY <1>2
  <2> HIDE DEF a, b, u, v
  <2>2. d * a \in Int /\ d * b \in Int
    BY <1>1, <2>1
  <2>3. x - u = d * a /\ y - v = d * b
    BY <1>1, <2>1, <2>2
  <2> QED
    BY <2>1, <2>3 DEF u, v
<1>4. Part(x, k) = a /\ Part(y, k) = b
  BY DEF Part, d
<1> HIDE DEF a, b
<1>5. d * a = d * b <=> a = b
  <2>1. CASE a < b
    <3>1. d * (a + 1) <= d * b /\ d * (a + 1) = d * a + d
      BY <1>1, <1>3, <2>1
    <3> QED
      BY <1>1, <1>3, <2>1, <3>1
  <2>2. CASE b < a
    <3>1. d * (b + 1) <= d * a /\ d * (b + 1) = d * b + d
      BY <1>1, <1>3, <2>2
    <3> QED
      BY <1>1, <1>3, <2>2, <3>1
  <2> QED
    BY <1>3, <2>1, <2>2
<1> QED
  BY <1>3, <1>4, <1>5 DEF d

-----------------------------------------------------------------------------
(***************************************************************************)
(* The full bytes and the mask of a rule compare the first bits.           *)
(***************************************************************************)
\* Numbers of two digits are ordered by the first, then by the second.
LEMMA Lexicographic ==
  ASSUME NEW d \in Nat, d > 0, NEW i \in Nat, NEW m \in 0 .. d - 1,
         NEW q \in Nat, NEW r \in 0 .. d - 1
  PROVE  d * i + m < d * q + r <=> i < q \/ (i = q /\ m < r)
<1>1. CASE i < q
  <2>1. d * (i + 1) <= d * q /\ d * (i + 1) = d * i + d
    BY <1>1
  <2>2. d * i \in Nat /\ d * q \in Nat
    OBVIOUS
  <2> QED
    BY <1>1, <2>1, <2>2
<1>2. CASE i = q
  <2>1. d * i = d * q /\ d * q \in Nat
    BY <1>2
  <2> QED
    BY <1>2, <2>1
<1>3. CASE i > q
  <2>1. d * (q + 1) <= d * i /\ d * (q + 1) = d * q + d
    BY <1>3
  <2>2. d * i \in Nat /\ d * q \in Nat
    OBVIOUS
  <2> QED
    BY <1>3, <2>1, <2>2
<1> QED
  BY <1>1, <1>2, <1>3

\* A prefix may be as long as an address has bits.
LEMMA Sizes ==
  ASSUME NEW f \in Families
  PROVE  Size(f) \in Nat /\ MaxPrefix(f) = Bits * Size(f) /\ Bits * Size(f) \in Nat
<1>1. Bytes4 \in Nat /\ Groups \in Nat /\ Bits \in Nat
  BY OverridesAssumption
<1>2. Size(f) \in Nat
  BY <1>1 DEF Size
<1>3. MaxPrefix(f) = Size(f) * Bits
  BY DEF MaxPrefix
<1> HIDE DEF Size
<1> QED
  BY <1>1, <1>2, <1>3

\* Bit m of the byte after the first i, counted as BitOf counts and as a shift does.
LEMMA BitIs ==
  ASSUME NEW bytes, NEW i \in Nat, NEW m \in 0 .. Bits - 1
  PROVE  BitOf(bytes, Bits * i + m) = Bit(bytes[i + 1], Bits - 1 - m)
<1>1. (Bits * i + m) \div Bits = i /\ (Bits * i + m) % Bits = m
  BY Pow2Is, Quotient
<1> QED
  BY <1>1 DEF BitOf, Bit, Part

\* #ipMatchesCidr compares as many first bits as the prefix says, no more and no fewer.
LEMMA SamePrefix ==
  ASSUME NEW f \in Families, NEW a \in [1 .. Size(f) -> Byte], NEW b \in [1 .. Size(f) -> Byte],
         NEW p \in 0 .. MaxPrefix(f), NEW ip
  PROVE  Matches(a, [bytes |-> b, prefix |-> p, ip |-> ip])
           <=> \A n \in 0 .. p - 1 : BitOf(a, n) = BitOf(b, n)
<1> DEFINE full == p \div Bits
           extra == p % Bits
           Same(i, k) == Part(a[i + 1], k) = Part(b[i + 1], k)
           Agree(i, m) == Bit(a[i + 1], Bits - 1 - m) = Bit(b[i + 1], Bits - 1 - m)
<1>0. Bits \in Nat /\ Bits > 0 /\ Pow2[0] = 1 /\ p \in Nat /\ Size(f) \in Nat
      /\ p <= Bits * Size(f)
  BY Pow2Is, Sizes
<1>1. full \in Nat /\ extra \in 0 .. Bits - 1 /\ p = Bits * full + extra
  <2>1. full \in Nat /\ extra \in 0 .. Bits - 1 /\ extra = p - Bits * full
    BY <1>0, Division
  <2> HIDE DEF full, extra
  <2> QED
    BY <1>0, <2>1
<1>2. full <= Size(f) /\ (extra # 0 => full < Size(f))
  <2>1. Bits * full + extra <= Bits * Size(f) + 0
    <3> HIDE DEF full, extra
    <3>1. Bits * Size(f) \in Nat
      BY <1>0
    <3> QED
      BY <1>0, <1>1, <3>1
  <2> HIDE DEF full, extra
  <2>2. ~(Bits * Size(f) + 0 < Bits * full + extra)
    <3>1. Bits * Size(f) \in Nat /\ Bits * full \in Nat
      BY <1>0, <1>1
    <3> QED
      BY <1>1, <2>1, <3>1
  <2>3. 0 \in 0 .. Bits - 1
    BY <1>0
  <2>4. ~(Size(f) < full \/ (Size(f) = full /\ 0 < extra))
    BY <1>0, <1>1, <2>2, <2>3, Lexicographic
  <2> QED
    BY <1>0, <1>1, <2>4
<1> HIDE DEF full, extra
<1>3. \A i \in 0 .. Size(f) - 1 : a[i + 1] \in Byte /\ b[i + 1] \in Byte
  BY <1>0
<1>4. \A i \in 0 .. Size(f) - 1 : \A k \in 0 .. Bits :
        Same(i, k) <=> \A m \in 0 .. Bits - k - 1 : Agree(i, m)
  <2> TAKE i \in 0 .. Size(f) - 1
  <2> TAKE k \in 0 .. Bits
  <2>1. Same(i, k) <=> \A m \in k .. Bits - 1 : Bit(a[i + 1], m) = Bit(b[i + 1], m)
    BY <1>3, SameBits
  <2>2. \A m \in 0 .. Bits - k - 1 : Bits - 1 - m \in k .. Bits - 1
    BY <1>0
  <2>3. \A m \in k .. Bits - 1 : Bits - 1 - m \in 0 .. Bits - k - 1
                                   /\ Bits - 1 - (Bits - 1 - m) = m
    BY <1>0
  <2>4. ASSUME Same(i, k), NEW m \in 0 .. Bits - k - 1
        PROVE  Agree(i, m)
    BY <2>1, <2>2, <2>4
  <2>5. ASSUME \A m \in 0 .. Bits - k - 1 : Agree(i, m), NEW m \in k .. Bits - 1
        PROVE  Bit(a[i + 1], m) = Bit(b[i + 1], m)
    <3>1. Agree(i, Bits - 1 - m)
      BY <2>3, <2>5
    <3> QED
      BY <2>3, <3>1
  <2> QED
    BY <2>1, <2>4, <2>5
<1>5. \A i \in 0 .. Size(f) - 1 : a[i + 1] = b[i + 1] <=> Same(i, 0)
  <2> TAKE i \in 0 .. Size(f) - 1
  <2>1. a[i + 1] \in Nat /\ b[i + 1] \in Nat
    BY <1>3, ByteIsNat
  <2>2. \A x \in Nat : Part(x, 0) = x
    BY <1>0 DEF Part
  <2> QED
    BY <2>1, <2>2
<1>6. \A i \in 0 .. Size(f) - 1 : \A k \in 0 .. Bits :
        a[i + 1] - (a[i + 1] % Pow2[k]) = b[i + 1] - (b[i + 1] % Pow2[k]) <=> Same(i, k)
  BY <1>3, SameMasked
<1> HIDE DEF Same
<1>7. Matches(a, [bytes |-> b, prefix |-> p, ip |-> ip])
        <=> /\ \A i \in 0 .. full - 1 : a[i + 1] = b[i + 1]
            /\ extra # 0 =>
                 a[full + 1] - (a[full + 1] % Pow2[Bits - extra])
                   = b[full + 1] - (b[full + 1] % Pow2[Bits - extra])
  <2>1. (\A i \in 1 .. full : a[i] = b[i]) <=> \A i \in 0 .. full - 1 : a[i + 1] = b[i + 1]
    <3>1. \A i \in 1 .. full : i - 1 \in 0 .. full - 1 /\ (i - 1) + 1 = i
      BY <1>1
    <3>2. \A i \in 0 .. full - 1 : i + 1 \in 1 .. full
      BY <1>1
    <3>3. ASSUME \A i \in 0 .. full - 1 : a[i + 1] = b[i + 1], NEW i \in 1 .. full
          PROVE  a[i] = b[i]
      <4>1. a[(i - 1) + 1] = b[(i - 1) + 1]
        BY <3>1, <3>3
      <4> QED
        BY <3>1, <4>1
    <3> QED
      BY <3>2, <3>3
  <2> QED
    BY <2>1 DEF Matches, full, extra
<1>8. Matches(a, [bytes |-> b, prefix |-> p, ip |-> ip])
        <=> /\ \A i \in 0 .. full - 1 : \A m \in 0 .. Bits - 1 : Agree(i, m)
            /\ \A m \in 0 .. extra - 1 : Agree(full, m)
  <2>1. \A i \in 0 .. full - 1 : i \in 0 .. Size(f) - 1
    BY <1>0, <1>1, <1>2
  <2>2. 0 \in 0 .. Bits /\ Bits - 0 - 1 = Bits - 1
    BY <1>0
  <2>3. \A i \in 0 .. full - 1 :
          a[i + 1] = b[i + 1] <=> \A m \in 0 .. Bits - 1 : Agree(i, m)
    <3> TAKE i \in 0 .. full - 1
    <3> HIDE DEF Agree
    <3>1. Same(i, 0) <=> \A m \in 0 .. Bits - 0 - 1 : Agree(i, m)
      BY <1>4, <2>1, <2>2
    <3> QED
      BY <1>5, <2>1, <2>2, <3>1
  <2>4. extra # 0 =>
          (a[full + 1] - (a[full + 1] % Pow2[Bits - extra])
               = b[full + 1] - (b[full + 1] % Pow2[Bits - extra])
             <=> \A m \in 0 .. extra - 1 : Agree(full, m))
    <3> SUFFICES ASSUME extra # 0 
                 PROVE  a[full + 1] - (a[full + 1] % Pow2[Bits - extra])
                            = b[full + 1] - (b[full + 1] % Pow2[Bits - extra])
                          <=> \A m \in 0 .. extra - 1 : Agree(full, m)
      OBVIOUS
    <3> HIDE DEF Agree
    <3>1. full \in 0 .. Size(f) - 1 /\ Bits - extra \in 0 .. Bits
          /\ Bits - (Bits - extra) - 1 = extra - 1
      BY <1>0, <1>1, <1>2
    <3> DEFINE k == Bits - extra
    <3>2. Same(full, k) <=> \A m \in 0 .. Bits - k - 1 : Agree(full, m)
      BY <1>4, <3>1
    <3>3. a[full + 1] - (a[full + 1] % Pow2[k]) = b[full + 1] - (b[full + 1] % Pow2[k])
            <=> Same(full, k)
      BY <1>6, <3>1
    <3> QED
      BY <3>1, <3>2, <3>3
  <2>5. extra = 0 => \A m \in 0 .. extra - 1 : FALSE
    BY <1>1
  <2> HIDE DEF Agree
  <2> QED
    BY <1>7, <2>3, <2>4, <2>5
<1>9. \A i \in Nat : \A m \in 0 .. Bits - 1 :
        BitOf(a, Bits * i + m) = BitOf(b, Bits * i + m) <=> Agree(i, m)
  BY BitIs
<1>10. \A i \in Nat : \A m \in 0 .. Bits - 1 :
         Bits * i + m \in 0 .. p - 1 <=> i < full \/ (i = full /\ m < extra)
  <2> TAKE i \in Nat
  <2> TAKE m \in 0 .. Bits - 1
  <2>1. Bits * i + m < Bits * full + extra <=> i < full \/ (i = full /\ m < extra)
    BY <1>0, <1>1, Lexicographic
  <2>2. Bits * i + m \in Nat
    <3>1. Bits * i \in Nat
      BY <1>0
    <3> QED
      BY <3>1
  <2> QED
    BY <1>0, <1>1, <2>1, <2>2
<1>11. \A n \in 0 .. p - 1 : \E i \in Nat : \E m \in 0 .. Bits - 1 : n = Bits * i + m
  <2> TAKE n \in 0 .. p - 1
  <2> DEFINE i == n \div Bits
             m == n % Bits
  <2>1. i \in Nat /\ m \in 0 .. Bits - 1 /\ m = n - Bits * i
    BY <1>0, Division
  <2> HIDE DEF i, m
  <2>2. n = Bits * i + m
    BY <1>0, <2>1
  <2> QED
    BY <2>1, <2>2
<1> HIDE DEF Agree
<1>12. ASSUME Matches(a, [bytes |-> b, prefix |-> p, ip |-> ip]), NEW n \in 0 .. p - 1
       PROVE  BitOf(a, n) = BitOf(b, n)
  <2>1. PICK i \in Nat, m \in 0 .. Bits - 1 : n = Bits * i + m
    BY <1>11
  <2>2. i < full \/ (i = full /\ m < extra)
    BY <1>10, <2>1
  <2>3. Agree(i, m)
    BY <1>0, <1>1, <1>8, <1>12, <2>2
  <2> QED
    BY <1>9, <2>1, <2>3
<1>13. ASSUME \A n \in 0 .. p - 1 : BitOf(a, n) = BitOf(b, n),
              NEW i \in Nat, NEW m \in 0 .. Bits - 1, i < full \/ (i = full /\ m < extra)
       PROVE  Agree(i, m)
  <2> DEFINE n == Bits * i + m
  <2>1. n \in 0 .. p - 1
    BY <1>10, <1>13
  <2>2. BitOf(a, n) = BitOf(b, n)
    BY <1>13, <2>1
  <2> QED
    BY <1>9, <2>2
<1>14. ASSUME \A n \in 0 .. p - 1 : BitOf(a, n) = BitOf(b, n)
       PROVE  Matches(a, [bytes |-> b, prefix |-> p, ip |-> ip])
  <2>1. ASSUME NEW i \in 0 .. full - 1, NEW m \in 0 .. Bits - 1
        PROVE  Agree(i, m)
    BY <1>1, <1>13, <1>14
  <2>2. ASSUME NEW m \in 0 .. extra - 1
        PROVE  Agree(full, m)
    <3>1. m \in 0 .. Bits - 1 /\ m < extra
      BY <1>0, <1>1
    <3> QED
      BY <1>1, <1>13, <1>14, <3>1
  <2> QED
    BY <1>8, <2>1, <2>2
<1> QED
  BY <1>12, <1>14

-----------------------------------------------------------------------------
(***************************************************************************)
(* The parser reads what a text means, unless the text is dotted.          *)
(***************************************************************************)
\* A byte has values.
LEMMA ValuesIs == Values \in Nat /\ Values > 0
<1>1. Bits \in 0 .. Bits
  BY Pow2Is
<1> QED
  BY <1>1, Pow2Positive DEF Values

\* A group is two bytes.
LEMMA GroupBytes ==
  ASSUME NEW g \in Group
  PROVE  g \div Values \in Byte /\ g % Values \in Byte
<1> DEFINE d == Values
           q == g \div d
           r == g % d
<1>0. d \in Nat /\ d > 0
  BY ValuesIs
<1>1. g \in Nat /\ g < d * d
  <2>1. g \in 0 .. d * d - 1
    BY DEF Group
  <2> HIDE DEF d
  <2>2. d * d \in Nat
    BY <1>0
  <2> QED
    BY <2>1, <2>2
<1> HIDE DEF d
<1>2. q \in Nat /\ r \in 0 .. d - 1 /\ r = g - d * q
  BY <1>0, <1>1, Division
<1> HIDE DEF q, r
<1>3. d * q + r < d * d + 0
  <2>1. d * q \in Nat /\ d * d \in Nat
    BY <1>0, <1>2
  <2> QED
    BY <1>1, <1>2, <2>1
<1>4. q < d
  BY <1>0, <1>2, <1>3, Lexicographic
<1>5. q \in 0 .. d - 1
  BY <1>0, <1>2, <1>4
<1> QED
  BY <1>2, <1>5 DEF Byte, d, q, r

\* Groups are twice as many bytes.
LEMMA BytesOfType ==
  ASSUME NEW s \in Seq(Group)
  PROVE  /\ BytesOf(s) \in Seq(Byte) /\ Len(BytesOf(s)) = 2 * Len(s)
         /\ BytesOf(s) \in [1 .. 2 * Len(s) -> Byte]
<1>1. Len(s) \in Nat /\ \A i \in 1 .. Len(s) : s[i] \in Group
  OBVIOUS
<1>2. \A j \in 1 .. 2 * Len(s) : BytesOf(s)[j] \in Byte
  <2> TAKE j \in 1 .. 2 * Len(s)
  <2>1. s[(j + 1) \div 2] \in Group
    BY <1>1
  <2> QED
    BY <2>1, GroupBytes DEF BytesOf
<1>3. BytesOf(s) \in [1 .. 2 * Len(s) -> Byte]
  BY <1>2 DEF BytesOf
<1>4. 2 * Len(s) \in Nat
  BY <1>1
<1>5. BytesOf(s) \in Seq(Byte)
  BY <1>3, <1>4
<1> QED
  BY <1>3, <1>4, <1>5

\* Two places further on in the bytes is one place further on in the groups.
LEMMA EvenShift ==
  ASSUME NEW k \in Nat, NEW n \in Nat
  PROVE  (k + 2 * n) % 2 = k % 2 /\ (k + 2 * n + 1) \div 2 = (k + 1) \div 2 + n
<1>1. ASSUME NEW x \in Nat
      PROVE  (x + 2 * n) \div 2 = x \div 2 + n /\ (x + 2 * n) % 2 = x % 2
  <2> DEFINE q == x \div 2
             r == x % 2
  <2>1. q \in Nat /\ r \in 0 .. 2 - 1 /\ r = x - 2 * q
    BY Division
  <2> HIDE DEF q, r
  <2>2. (2 * (q + n) + r) \div 2 = q + n /\ (2 * (q + n) + r) % 2 = r
    <3>1. q + n \in Nat
      BY <2>1
    <3> QED
      BY <2>1, <3>1, Quotient
  <2>3. 2 * (q + n) + r = x + 2 * n
    BY <2>1
  <2> QED
    BY <2>2, <2>3 DEF q, r
<1>2. (k + 2 * n) + 1 = (k + 1) + 2 * n /\ k + 1 \in Nat
  OBVIOUS
<1> QED
  BY <1>1, <1>2

\* The bytes of groups in two parts are those of the one and then those of the other.
LEMMA BytesOfConcat ==
  ASSUME NEW s \in Seq(Group), NEW t \in Seq(Group)
  PROVE  BytesOf(s \o t) = BytesOf(s) \o BytesOf(t)
<1> DEFINE u == s \o t
           b == BytesOf(s)
           c == BytesOf(t)
           v == b \o c
<1>1. /\ Len(s) \in Nat /\ Len(t) \in Nat /\ Len(u) = Len(s) + Len(t)
      /\ u \in Seq(Group)
      /\ \A i \in 1 .. Len(s) + Len(t) : u[i] = IF i <= Len(s) THEN s[i] ELSE t[i - Len(s)]
  BY ConcatProperties, LenProperties
<1>2. /\ b \in Seq(Byte) /\ Len(b) = 2 * Len(s) /\ c \in Seq(Byte) /\ Len(c) = 2 * Len(t)
  BY BytesOfType
<1>3. /\ v \in Seq(Byte) /\ Len(v) = 2 * Len(u)
      /\ \A j \in 1 .. 2 * Len(u) : v[j] = IF j <= 2 * Len(s) THEN b[j] ELSE c[j - 2 * Len(s)]
  <2> HIDE DEF b, c
  <2>1. v \in Seq(Byte) /\ Len(v) = Len(b) + Len(c)
        /\ \A j \in 1 .. Len(b) + Len(c) : v[j] = IF j <= Len(b) THEN b[j] ELSE c[j - Len(b)]
    BY <1>2, ConcatProperties
  <2> HIDE DEF u, v
  <2> QED
    BY <1>1, <1>2, <2>1
<1>4. BytesOf(u) \in Seq(Byte) /\ Len(BytesOf(u)) = 2 * Len(u)
  BY <1>1, BytesOfType
<1>5. ASSUME NEW j \in 1 .. 2 * Len(u)
      PROVE  BytesOf(u)[j] = v[j]
  <2> DEFINE i == (j + 1) \div 2
  <2>1. BytesOf(u)[j] = IF j % 2 = 1 THEN u[i] \div Values ELSE u[i] % Values
    BY DEF BytesOf
  <2>2. i \in 1 .. Len(s) + Len(t)
    <3> HIDE DEF u
    <3> QED
      BY <1>1
  <2>3. CASE j <= 2 * Len(s)
    <3>1. i <= Len(s) /\ j \in 1 .. 2 * Len(s)
      <4> HIDE DEF u
      <4> QED
        BY <1>1, <2>3
    <3>2. b[j] = IF j % 2 = 1 THEN s[i] \div Values ELSE s[i] % Values
      BY <3>1 DEF BytesOf
    <3>3. u[i] = s[i]
      BY <1>1, <2>2, <3>1
    <3>4. v[j] = b[j]
      BY <1>3, <2>3
    <3> HIDE DEF i, u, v, b
    <3> QED
      BY <2>1, <3>2, <3>3, <3>4
  <2>4. CASE ~(j <= 2 * Len(s))
    <3> DEFINE k == j - 2 * Len(s)
    <3>1. /\ ~(i <= Len(s)) /\ k \in 1 .. 2 * Len(t)
          /\ (k + 1) \div 2 = i - Len(s) /\ k % 2 = j % 2
      <4> HIDE DEF u
      <4>1. k \in 1 .. 2 * Len(t) /\ j = k + 2 * Len(s)
        BY <1>1, <2>4
      <4>2. ~(i <= Len(s))
        BY <1>1, <2>4
      <4> HIDE DEF k
      <4>3. (k + 1) \div 2 = i - Len(s) /\ k % 2 = j % 2
        <5>1. k \in Nat /\ Len(s) \in Nat
          BY <1>1, <4>1
        <5>2. /\ (k + 2 * Len(s)) % 2 = k % 2
              /\ (k + 2 * Len(s) + 1) \div 2 = (k + 1) \div 2 + Len(s)
          BY <5>1, EvenShift
        <5>3. j % 2 = k % 2 /\ i = (k + 1) \div 2 + Len(s)
          BY <4>1, <5>2
        <5>4. (k + 1) \div 2 \in Nat
          BY <5>1
        <5> HIDE DEF i
        <5> QED
          BY <5>1, <5>3, <5>4
      <4> QED
        BY <4>1, <4>2, <4>3 DEF k
    <3>2. c[k] = IF k % 2 = 1 THEN t[(k + 1) \div 2] \div Values
                 ELSE t[(k + 1) \div 2] % Values
      BY <3>1 DEF BytesOf
    <3>3. u[i] = t[i - Len(s)]
      BY <1>1, <2>2, <3>1
    <3>4. v[j] = c[k]
      BY <1>3, <2>4
    <3> HIDE DEF i, u, v, c, k
    <3> QED
      BY <2>1, <3>1, <3>2, <3>3, <3>4
  <2> QED
    BY <2>3, <2>4
<1> HIDE DEF u, v
<1>6. BytesOf(u) = v
  <2>1. 2 * Len(u) \in Nat /\ Len(v) = Len(BytesOf(u))
    BY <1>1, <1>3, <1>4
  <2> DEFINE w == BytesOf(u)
  <2>2. w \in Seq(Byte) /\ Len(w) = Len(v) /\ \A j \in 1 .. Len(w) : w[j] = v[j]
    BY <1>3, <1>4, <1>5, <2>1
  <2> HIDE DEF w
  <2>3. w = v
    BY <1>3, <2>2, SeqEqual
  <2> QED
    BY <2>3 DEF w
<1> QED
  BY <1>6 DEF u, v, b, c

\* Groups of zero are bytes of zero.
LEMMA ZerosType ==
  ASSUME NEW n \in Nat
  PROVE  /\ Zeros(n) \in Seq(Group) /\ Zeros(n) \in Seq(Byte) /\ Len(Zeros(n)) = n
         /\ BytesOf(Zeros(n)) = Zeros(2 * n)
<1>1. 0 \in Byte /\ 0 \in Group
  <2> DEFINE d == Values
  <2>1. d \in Nat /\ d > 0
    BY ValuesIs
  <2> HIDE DEF d
  <2>2. d * d \in Nat /\ d * d > 0
    BY <2>1
  <2>3. 0 \in 0 .. d - 1 /\ 0 \in 0 .. d * d - 1
    BY <2>1, <2>2
  <2> QED
    BY <2>3 DEF Byte, Group, d
<1>2. Zeros(n) \in Seq(Group) /\ Zeros(n) \in Seq(Byte) /\ Len(Zeros(n)) = n
  BY <1>1 DEF Zeros
<1>3. 0 \div Values = 0 /\ 0 % Values = 0
  BY ValuesIs
<1>4. \A j \in 1 .. 2 * n : Zeros(n)[(j + 1) \div 2] = 0
  BY DEF Zeros
<1> HIDE DEF Zeros
<1>5. BytesOf(Zeros(n)) = [j \in 1 .. 2 * n |-> 0]
  BY <1>2, <1>3, <1>4 DEF BytesOf
<1> QED
  BY <1>2, <1>5 DEF Zeros

\* #ipToBytes succeeds on any address that is not dotted, and reads what it means.
LEMMA ParserReads ==
  ASSUME NEW t, IsText(t), t.family = 6 => t.dotted = << >>
  PROVE  /\ t.family \in Families /\ Parses(t) /\ IpToBytes(t) = Meaning(t)
         /\ IpToBytes(t) \in [1 .. Size(t.family) -> Byte]
<1>1. CASE t.family = 4
  <2>1. t.bytes \in [1 .. Bytes4 -> Byte]
    BY <1>1 DEF IsText
  <2> QED
    BY <1>1, <2>1 DEF Families, Parses, IpToBytes, Meaning, Size
<1>2. CASE t.family # 4
  <2> DEFINE h == t.head
             e == t.tail
             m == Groups - (Len(h) + Len(e))
             z == Zeros(m)
  <2>1. /\ t.family = 6 /\ t.gap \in BOOLEAN /\ t.dotted = << >>
        /\ h \in Seq(Group) /\ e \in Seq(Group)
        /\ IF t.gap THEN 2 * (Len(h) + Len(e)) + Len(t.dotted) <= Size(6)
           ELSE 2 * (Len(h) + Len(e)) + Len(t.dotted) = Size(6) /\ e = << >>
    BY <1>2 DEF IsText
  <2>2. /\ Len(t.dotted) = 0 /\ Size(6) = 2 * Groups /\ Groups \in Nat
        /\ Len(h) \in Nat /\ Len(e) \in Nat
    <3>1. Len(t.dotted) = 0
      BY <2>1
    <3>2. Size(6) = 2 * Groups /\ Groups \in Nat
      BY OverridesAssumption DEF Size
    <3> QED
      BY <2>1, <3>1, <3>2, LenProperties
  <2>3. m \in Nat /\ (~t.gap => m = 0 /\ e = << >>)
    <3> HIDE DEF h, e
    <3> QED
      BY <2>1, <2>2
  <2>4. 2 * m = Size(6) - 2 * (Len(h) + Len(e)) - Len(t.dotted)
    <3> HIDE DEF h, e
    <3> QED
      BY <2>1, <2>2
  <2> DEFINE hz == h \o z
             all == hz \o e
  <2>5. z \in Seq(Group) /\ Len(z) = m /\ BytesOf(z) = Zeros(2 * m)
    <3> HIDE DEF m
    <3> QED
      BY <2>3, ZerosType
  <2>6. hz \in Seq(Group) /\ Len(hz) = Len(h) + m
    <3> HIDE DEF h, z, m
    <3> QED
      BY <2>1, <2>5, ConcatProperties
  <2>7. all \in Seq(Group) /\ Len(all) = Groups
    <3>1. all \in Seq(Group) /\ Len(all) = Len(hz) + Len(e)
      <4> HIDE DEF hz, e
      <4> QED
        BY <2>1, <2>6, ConcatProperties
    <3> HIDE DEF all, hz, h, e
    <3> QED
      BY <2>2, <2>3, <2>6, <3>1
  <2>8. GroupsOf(t) = all
    <3>1. Pieces(t) = << >>
      BY <2>1 DEF Pieces
    <3>2. h \o << >> = h /\ e \o << >> = e
      BY <2>1, ConcatEmptySeq
    <3>3. CASE t.gap
      <4>1. e \o Pieces(t) = e
        BY <3>1, <3>2
      <4>2. GroupsOf(t) = h \o Zeros(Groups - (Len(h) + Len(e \o Pieces(t)))) \o (e \o Pieces(t))
        BY <3>3 DEF GroupsOf
      <4> QED
        BY <4>1, <4>2
    <3>4. CASE ~t.gap
      <4>1. GroupsOf(t) = h
        BY <3>1, <3>2, <3>4 DEF GroupsOf
      <4>2. z = << >>
        <5>1. m = 0
          BY <2>3, <3>4
        <5> HIDE DEF m
        <5>2. z \in Seq(Group) /\ Len(z) = 0
          BY <2>5, <5>1
        <5> HIDE DEF z
        <5> QED
          BY <5>2, EmptySeq
      <4>3. all = h
        <5>1. hz = h
          BY <3>2, <4>2
        <5>2. h \o e = h
          BY <2>3, <3>2, <3>4
        <5> QED
          BY <5>1, <5>2
      <4> QED
        BY <4>1, <4>3
    <3> QED
      BY <3>3, <3>4
  <2>9. BytesOf(all) = (BytesOf(h) \o Zeros(2 * m)) \o BytesOf(e)
    <3>1. BytesOf(all) = BytesOf(hz) \o BytesOf(e)
      BY <2>1, <2>6, BytesOfConcat
    <3>2. BytesOf(hz) = BytesOf(h) \o BytesOf(z)
      BY <2>1, <2>5, BytesOfConcat
    <3> HIDE DEF all, hz, z, m
    <3> QED
      BY <2>5, <3>1, <3>2
  <2>10. BytesOf(all) \in Seq(Byte) /\ BytesOf(all) \in [1 .. Size(6) -> Byte]
    <3>1. /\ BytesOf(all) \in Seq(Byte)
          /\ BytesOf(all) \in [1 .. 2 * Len(all) -> Byte]
      BY <2>7, BytesOfType
    <3> HIDE DEF all
    <3> QED
      BY <2>2, <2>7, <3>1
  <2> HIDE DEF all
  <2>11. Meaning(t) = BytesOf(all)
    <3>1. Meaning(t) = ((BytesOf(h) \o Zeros(2 * m)) \o BytesOf(e)) \o << >>
      <4> DEFINE n == Size(6) - 2 * (Len(h) + Len(e)) - Len(t.dotted)
      <4>1. Meaning(t) = BytesOf(h) \o Zeros(n) \o BytesOf(e) \o t.dotted
        BY <1>2 DEF Meaning
      <4>2. n = 2 * m
        BY <2>4
      <4> HIDE DEF n, m, h, e
      <4> QED
        BY <2>1, <4>1, <4>2
    <3> DEFINE b == BytesOf(all)
    <3>2. b \in Seq(Byte)
      BY <2>10
    <3> HIDE DEF b
    <3>3. b \o << >> = b
      BY <3>2, ConcatEmptySeq
    <3> QED
      BY <2>9, <3>1, <3>3 DEF b
  <2>12. Parses(t) /\ IpToBytes(t) = BytesOf(all)
    BY <1>2, <2>7, <2>8 DEF Parses, IpToBytes
  <2> QED
    BY <2>1, <2>10, <2>11, <2>12 DEF Families
<1> QED
  BY <1>1, <1>2

-----------------------------------------------------------------------------
(***************************************************************************)
(* The rules are in order: every accepted entry has a place of its own.    *)
(***************************************************************************)
\* How many entries are before one, and the entry at a place.
Rank(m, S, i)  == Cardinality({j \in S : Before(m, j, i)})
Place(m, S, n) == CHOOSE i \in S : Rank(m, S, i) = n - 1

\* A set of entries that can be ordered.
Ordered(m, S) == IsFiniteSet(S) /\ S \subseteq Nat /\ \A i \in S : m[i].prefix \in Int

\* Fewer entries are before one than there are, ...
LEMMA RankIsNat ==
  ASSUME NEW m, NEW S, Ordered(m, S), NEW i \in S
  PROVE  Rank(m, S, i) \in 0 .. Cardinality(S) - 1
<1> DEFINE A == {j \in S : Before(m, j, i)}
<1>1. IsFiniteSet(S) /\ i \in Nat /\ m[i].prefix \in Int
  BY DEF Ordered
<1>2. IsFiniteSet(S \ {i}) /\ Cardinality(S \ {i}) = Cardinality(S) - 1
  BY <1>1, FS_RemoveElement
<1>3. Cardinality(S) \in Nat
  BY <1>1, FS_CardinalityType
<1>4. A \in SUBSET (S \ {i})
  BY <1>1 DEF Before
<1> HIDE DEF A
<1>5. IsFiniteSet(A) /\ Cardinality(A) <= Cardinality(S \ {i})
  BY <1>2, <1>4, FS_Subset
<1>6. Cardinality(A) \in Nat
  BY <1>5, FS_CardinalityType
<1> QED
  BY <1>2, <1>3, <1>5, <1>6 DEF Rank, A

\* ... fewer of them before an earlier one, ...
LEMMA RankGrows ==
  ASSUME NEW m, NEW S, Ordered(m, S), NEW i \in S, NEW k \in S, Before(m, i, k)
  PROVE  Rank(m, S, i) < Rank(m, S, k)
<1> DEFINE A == {j \in S : Before(m, j, i)}
           B == {j \in S : Before(m, j, k)}
<1>1. IsFiniteSet(S) /\ S \subseteq Nat /\ \A j \in S : m[j].prefix \in Int
  BY DEF Ordered
<1>2. i \notin A /\ A \cup {i} \in SUBSET B /\ A \in SUBSET S /\ B \in SUBSET S
  <2>1. i \notin A
    BY <1>1 DEF Before
  <2>2. i \in B
    OBVIOUS
  <2>3. ASSUME NEW j \in A
        PROVE  j \in B
    <3>1. j \in S /\ Before(m, j, i)
      OBVIOUS
    <3>2. j \in Nat /\ i \in Nat /\ k \in Nat
          /\ m[j].prefix \in Int /\ m[i].prefix \in Int /\ m[k].prefix \in Int
      BY <1>1, <3>1
    <3>3. Before(m, j, k)
      BY <3>1, <3>2 DEF Before
    <3> QED
      BY <3>1, <3>3
  <2> QED
    BY <2>1, <2>2, <2>3
<1>3. Rank(m, S, i) = Cardinality(A) /\ Rank(m, S, k) = Cardinality(B)
  BY DEF Rank
<1> HIDE DEF A, B
<1>4. IsFiniteSet(A) /\ IsFiniteSet(B)
  BY <1>1, <1>2, FS_Subset
<1>5. Cardinality(A \cup {i}) = Cardinality(A) + 1
  BY <1>2, <1>4, FS_AddElement
<1>6. Cardinality(A \cup {i}) <= Cardinality(B)
  BY <1>2, <1>4, FS_Subset
<1>7. Cardinality(A) \in Nat /\ Cardinality(B) \in Nat
  BY <1>4, FS_CardinalityType
<1> QED
  BY <1>3, <1>5, <1>6, <1>7

\* ... so that every place of the sorted rules has one entry, and every entry a place.
LEMMA Places ==
  ASSUME NEW m, NEW S, Ordered(m, S)
  PROVE  /\ Cardinality(S) \in Nat
         /\ \A n \in 1 .. Cardinality(S) : /\ Place(m, S, n) \in S
                                            /\ Rank(m, S, Place(m, S, n)) = n - 1
         /\ \A i \in S : /\ Rank(m, S, i) + 1 \in 1 .. Cardinality(S)
                         /\ Place(m, S, Rank(m, S, i) + 1) = i
<1> DEFINE N == Cardinality(S)
           f == [i \in S |-> Rank(m, S, i) + 1]
           T == 1 .. N
<1>1. IsFiniteSet(S) /\ S \subseteq Nat /\ \A j \in S : m[j].prefix \in Int
  BY DEF Ordered
<1>2. N \in Nat
  BY <1>1, FS_CardinalityType
<1>3. \A i \in S : Rank(m, S, i) \in 0 .. N - 1
  BY RankIsNat
<1>4. \A i, k \in S : Rank(m, S, i) = Rank(m, S, k) => i = k
  <2> SUFFICES ASSUME NEW i \in S, NEW k \in S, Rank(m, S, i) = Rank(m, S, k), i # k
               PROVE  FALSE
    OBVIOUS
  <2>1. Before(m, i, k) \/ Before(m, k, i)
    BY <1>1 DEF Before
  <2>2. Rank(m, S, i) < Rank(m, S, k) \/ Rank(m, S, k) < Rank(m, S, i)
    BY <2>1, RankGrows
  <2> HIDE DEF N
  <2> QED
    BY <1>3, <2>2
<1> HIDE DEF N
<1>5. \A i \in S : f[i] \in T
  BY <1>2, <1>3
<1>6. f \in [S -> T]
  BY <1>5
<1>7. \A i, k \in S : f[i] = f[k] => i = k
  BY <1>3, <1>4
<1> HIDE DEF f
<1>8. f \in Injection(S, T)
  BY <1>6, <1>7 DEF Injection, IsInjective
<1>9. IsFiniteSet(T) /\ Cardinality(T) = N
  BY <1>2, FS_Interval
<1>10. f \in Surjection(S, T)
  <2> HIDE DEF T
  <2>1. Cardinality(S) = Cardinality(T)
    BY <1>9 DEF N
  <2> QED
    BY <1>8, <1>9, <2>1, FS_Injection
<1>11. ASSUME NEW n \in T
       PROVE  Place(m, S, n) \in S /\ Rank(m, S, Place(m, S, n)) = n - 1
  <2>1. PICK i \in S : f[i] = n
    BY <1>10 DEF Surjection
  <2>2. Rank(m, S, i) = n - 1
    <3>1. f[i] = Rank(m, S, i) + 1
      BY DEF f
    <3> QED
      BY <1>2, <1>3, <2>1, <3>1
  <2> QED
    BY <2>2 DEF Place
<1>12. ASSUME NEW i \in S
       PROVE  Rank(m, S, i) + 1 \in T /\ Place(m, S, Rank(m, S, i) + 1) = i
  <2> DEFINE n == Rank(m, S, i) + 1
  <2>1. n \in T /\ n - 1 = Rank(m, S, i)
    BY <1>2, <1>3
  <2> HIDE DEF n
  <2>2. Place(m, S, n) \in S /\ Rank(m, S, Place(m, S, n)) = Rank(m, S, i)
    BY <1>11, <2>1
  <2>3. Place(m, S, n) = i
    BY <1>4, <2>2
  <2> QED
    BY <2>1, <2>3 DEF n
<1> QED
  BY <1>2, <1>11, <1>12 DEF N, T

-----------------------------------------------------------------------------
(***************************************************************************)
(* The rule that is found is that of the smallest network.                 *)
(***************************************************************************)
\* The entries that become rules of a family, and those whose network an address is in.
AcceptedIn(m, f) == {i \in DOMAIN m : m[i].ip.family = f /\ Accepted(m[i])}
Networks(m, text) == {i \in DOMAIN m : InNetwork(text, m[i])}

\* No address is written dotted.
Undotted ==
  /\ \A t \in Addresses : t.family = 6 => t.dotted = << >>
  /\ \A m \in Maps : \A i \in DOMAIN m :
       m[i].wellFormed /\ m[i].cidr.family = 6 => m[i].cidr.dotted = << >>

\* The rules, with the names of this module.
LEMMA CompileIs ==
  ASSUME NEW m, NEW f
  PROVE  Compile(m, f) = [n \in 1 .. Cardinality(AcceptedIn(m, f)) |->
                            RuleOf(m[Place(m, AcceptedIn(m, f), n)])]
BY DEF Compile, AcceptedIn, Place, Rank

\* The accepted entries can be ordered.
LEMMA AcceptedAreOrdered ==
  ASSUME NEW m \in Maps, NEW f \in Families
  PROVE  Ordered(m, AcceptedIn(m, f))
<1>1. Len(m) \in Nat /\ DOMAIN m = 1 .. Len(m)
  BY OverridesAssumption
<1>2. IsFiniteSet(1 .. Len(m))
  BY <1>1, FS_Interval
<1>3. AcceptedIn(m, f) \in SUBSET (1 .. Len(m))
  BY <1>1 DEF AcceptedIn
<1>4. IsFiniteSet(AcceptedIn(m, f))
  BY <1>2, <1>3, FS_Subset
<1>5. \A i \in AcceptedIn(m, f) : m[i].prefix \in Int
  <2> TAKE i \in AcceptedIn(m, f)
  <2>1. m[i].prefix \in 0 .. MaxPrefix(f)
    BY DEF AcceptedIn, Accepted
  <2>2. MaxPrefix(f) \in Nat
    BY Sizes
  <2> QED
    BY <2>1, <2>2
<1> QED
  BY <1>1, <1>3, <1>4, <1>5 DEF Ordered

\* An entry has a rule that matches an address if the address is in its network.
LEMMA NetworksMatch ==
  ASSUME Undotted, NEW m \in Maps, NEW text \in Addresses
  PROVE  Networks(m, text)
           = {i \in AcceptedIn(m, text.family) : Matches(IpToBytes(text), RuleOf(m[i]))}
<1> DEFINE f == text.family
           a == IpToBytes(text)
<1>1. f \in Families /\ a = Meaning(text) /\ a \in [1 .. Size(f) -> Byte]
  <2>1. IsText(text) /\ (text.family = 6 => text.dotted = << >>)
    BY OverridesAssumption DEF Undotted
  <2> QED
    BY <2>1, ParserReads
<1> HIDE DEF a, f
<1>2. ASSUME NEW i \in DOMAIN m
      PROVE  InNetwork(text, m[i])
               <=> m[i].ip.family = f /\ Accepted(m[i]) /\ Matches(a, RuleOf(m[i]))
  <2> DEFINE e == m[i]
             b == IpToBytes(e.cidr)
  <2> SUFFICES ASSUME e.wellFormed, e.cidr.family = e.ip.family, e.ip.family = f,
                      e.prefix \in 0 .. MaxPrefix(f)
               PROVE  InNetwork(text, e) <=> Accepted(e) /\ Matches(a, RuleOf(e))
    BY DEF InNetwork, Accepted, f
  <2>1. IsText(e.cidr) /\ (e.cidr.family = 6 => e.cidr.dotted = << >>)
    BY OverridesAssumption DEF Undotted
  <2>2. Parses(e.cidr) /\ b = Meaning(e.cidr) /\ b \in [1 .. Size(f) -> Byte]
    BY <2>1, ParserReads
  <2>3. Accepted(e)
    BY <2>2 DEF Accepted
  <2>4. RuleOf(e) = [bytes |-> b, prefix |-> e.prefix, ip |-> e.ip]
    BY DEF RuleOf
  <2> HIDE DEF e, b
  <2>5. Matches(a, RuleOf(e)) <=> \A n \in 0 .. e.prefix - 1 : BitOf(a, n) = BitOf(b, n)
    BY <1>1, <2>2, <2>4, SamePrefix
  <2>6. InNetwork(text, e) <=> \A n \in 0 .. e.prefix - 1 : BitOf(a, n) = BitOf(b, n)
    BY <1>1, <2>2 DEF InNetwork, f
  <2> QED
    BY <2>3, <2>5, <2>6
<1> QED
  BY <1>2 DEF Networks, AcceptedIn, f, a

\* What is found in the rules of a family.
Found(rs, text) ==
  LET I     == {n \in 1 .. Len(rs) : Matches(IpToBytes(text), rs[n])}
      first == IF I # {} THEN Min(I) ELSE 0
  IN  IF ~Parses(text) \/ first = 0 THEN None ELSE rs[first].ip.name

\* It is what #findIpOverride returns.
LEMMA FindIs ==
  ASSUME NEW text
  PROVE  FindIpOverride(text) = Found(rules[text.family], text)
BY Zenon DEF FindIpOverride, SelectInSeq, Found

\* The first rule that matches is found, and nothing if none does.
LEMMA FoundIs ==
  ASSUME NEW text, Parses(text), NEW rs, NEW N \in Nat, Len(rs) = N
  PROVE  LET I == {n \in 1 .. N : Matches(IpToBytes(text), rs[n])}
         IN  \/ I = {} /\ Found(rs, text) = None
             \/ \E n \in I : (\A k \in I : n <= k) /\ Found(rs, text) = rs[n].ip.name
<1> DEFINE I  == {n \in 1 .. N : Matches(IpToBytes(text), rs[n])}
           first == IF I # {} THEN Min(I) ELSE 0
<1>1. Found(rs, text) = IF first = 0 THEN None ELSE rs[first].ip.name
  BY Zenon DEF Found
<1>2. CASE I = {}
  <2>1. first = 0
    BY <1>2
  <2> HIDE DEF first
  <2> QED
    BY <1>1, <1>2, <2>1
<1>3. CASE I # {}
  <2>1. I \in SUBSET Nat
    OBVIOUS
  <2> HIDE DEF I
  <2>2. \E x \in I : \A y \in I : x <= y
    BY <1>3, <2>1, LeastNumber
  <2>3. Min(I) \in I /\ \A y \in I : Min(I) <= y
    BY <2>2 DEF Min
  <2>4. Min(I) # 0
    BY <2>3 DEF I
  <2>5. Found(rs, text) = rs[Min(I)].ip.name
    BY <1>1, <1>3, <2>4
  <2> QED
    BY <2>3, <2>5 DEF I
<1> QED
  BY <1>2, <1>3

-----------------------------------------------------------------------------
\* The rules stay what the constructor compiled; what was answered was found in them.
IInv ==
  /\ map \in Maps
  /\ rules = [f \in Families |-> Compile(map, f)]
  /\ asked # None => asked \in Addresses /\ answer = Found(rules[asked.family], asked)

\* It is inductive: a lookup changes neither the option nor the rules.
LEMMA IInvInductive == Spec => []IInv
<1>1. Init => IInv
  BY DEF Init, IInv
<1>2. IInv /\ [Next]_vars => IInv'
  <2> SUFFICES ASSUME IInv, [Next]_vars
               PROVE  IInv'
    OBVIOUS
  <2>1. CASE LookUp
    BY <2>1, FindIs DEF LookUp, IInv
  <2>2. CASE UNCHANGED vars
    BY <2>2 DEF vars, IInv
  <2> QED
    BY <2>1, <2>2 DEF Next
<1> QED
  BY <1>1, <1>2, PTL DEF Spec

\* What is found in those rules is the smallest network.
LEMMA FoundIsSmallest ==
  ASSUME Undotted, IInv
  PROVE  SmallestNetworkOverrides
<1> SUFFICES ASSUME asked # None
             PROVE  LET networks == Networks(map, asked)
                        best     == {i \in networks : \A j \in networks :
                                       \/ map[i].prefix > map[j].prefix
                                       \/ map[i].prefix = map[j].prefix /\ i <= j}
                    IN  IF networks = {} THEN answer = None
                        ELSE \E i \in best : answer = map[i].ip.name
  BY DEF SmallestNetworkOverrides, Networks
<1> DEFINE f == asked.family
           a == IpToBytes(asked)
           S == AcceptedIn(map, f)
           N == Cardinality(S)
           rs == rules[f]
           W == Networks(map, asked)
           I == {n \in 1 .. N : Matches(a, rs[n])}
<1>1. map \in Maps /\ asked \in Addresses /\ answer = Found(rules[asked.family], asked)
      /\ rules = [g \in Families |-> Compile(map, g)]
  BY DEF IInv
<1>2. f \in Families /\ Parses(asked)
  <2>1. IsText(asked) /\ (asked.family = 6 => asked.dotted = << >>)
    BY <1>1, OverridesAssumption DEF Undotted
  <2> QED
    BY <2>1, ParserReads
<1>3. W = {i \in S : Matches(a, RuleOf(map[i]))}
  BY <1>1, NetworksMatch
<1>4. Ordered(map, S)
  BY <1>1, <1>2, AcceptedAreOrdered
<1>5. rs = [n \in 1 .. N |-> RuleOf(map[Place(map, S, n)])]
  BY <1>1, <1>2, CompileIs
<1>6. N \in Nat
  BY <1>4, Places
<1>7. DOMAIN rs = 1 .. N /\ Len(rs) = N
  <2> HIDE DEF rs, N
  <2> QED
    BY <1>5, <1>6
<1>8. \/ I = {} /\ answer = None
      \/ \E n \in I : (\A k \in I : n <= k) /\ answer = rs[n].ip.name
  <2> HIDE DEF N
  <2> QED
    BY <1>1, <1>2, <1>6, <1>7, FoundIs
<1> HIDE DEF W, rs, S, f, a
<1>9. \A n \in 1 .. N : /\ Place(map, S, n) \in S
                        /\ Rank(map, S, Place(map, S, n)) = n - 1
                        /\ rs[n] = RuleOf(map[Place(map, S, n)])
  BY <1>4, <1>5, Places
<1>10. \A i \in S : Rank(map, S, i) + 1 \in 1 .. N /\ Place(map, S, Rank(map, S, i) + 1) = i
  BY <1>4, Places
<1>11. \A i \in W : Rank(map, S, i) + 1 \in I
  <2> TAKE i \in W
  <2> DEFINE n == Rank(map, S, i) + 1
  <2>1. i \in S /\ Matches(a, RuleOf(map[i])) /\ n \in 1 .. N /\ Place(map, S, n) = i
    BY <1>3, <1>10
  <2> HIDE DEF n, N
  <2>2. rs[n] = RuleOf(map[i])
    BY <1>9, <2>1
  <2> QED
    BY <2>1, <2>2 DEF n
<1>12. \A n \in I : Place(map, S, n) \in W
  BY <1>3, <1>9
<1>13. CASE I = {} /\ answer = None
  <2>1. W = {}
    BY <1>11, <1>13
  <2> QED
    BY <1>13, <2>1 DEF W
<1>14. ASSUME NEW n \in I, \A k \in I : n <= k, answer = rs[n].ip.name
       PROVE  \E i \in W : /\ answer = map[i].ip.name
                           /\ \A j \in W : \/ map[i].prefix > map[j].prefix
                                           \/ map[i].prefix = map[j].prefix /\ i <= j
  <2> DEFINE i == Place(map, S, n)
  <2>1. i \in W /\ i \in S /\ Rank(map, S, i) = n - 1 /\ answer = map[i].ip.name
    <3>1. i \in S /\ Rank(map, S, i) = n - 1 /\ rs[n] = RuleOf(map[i])
      BY <1>9
    <3> QED
      BY <1>12, <1>14, <3>1 DEF RuleOf
  <2>2. n \in 1 .. N
    OBVIOUS
  <2> HIDE DEF i, N
  <2>3. ASSUME NEW j \in W
        PROVE  \/ map[i].prefix > map[j].prefix
               \/ map[i].prefix = map[j].prefix /\ i <= j
    <3>1. j \in S /\ i \in Nat /\ j \in Nat /\ map[i].prefix \in Int /\ map[j].prefix \in Int
      BY <1>3, <1>4, <2>1 DEF Ordered
    <3>2. ~Before(map, j, i)
      <4>1. n <= Rank(map, S, j) + 1
        BY <1>11, <1>14
      <4>2. Rank(map, S, j) \in 0 .. N - 1
        BY <1>4, <3>1, RankIsNat DEF N
      <4>3. ~(Rank(map, S, j) < Rank(map, S, i))
        BY <1>6, <2>1, <2>2, <4>1, <4>2
      <4> QED
        BY <1>4, <2>1, <3>1, <4>3, RankGrows
    <3> QED
      BY <3>1, <3>2 DEF Before
  <2> QED
    BY <2>1, <2>3
<1> QED
  <2>1. CASE \E n \in I : (\A k \in I : n <= k) /\ answer = rs[n].ip.name
    <3>1. \E i \in W : /\ answer = map[i].ip.name
                       /\ \A j \in W : \/ map[i].prefix > map[j].prefix
                                       \/ map[i].prefix = map[j].prefix /\ i <= j
      BY <1>14, <2>1
    <3> QED
      BY <3>1 DEF W
  <2> QED
    BY <1>8, <1>13, <2>1

\* Whatever the option and the address, an address is overridden by the smallest network it
\* is in, or by nothing: the order of the rules, the masks and the parser of IPv6 together.
\* The hypothesis is needed: a run shows a dotted network that does not override.
THEOREM AddressesAreOverridden ==
  ASSUME Undotted
  PROVE  Spec => []SmallestNetworkOverrides
<1>1. IInv => SmallestNetworkOverrides
  BY FoundIsSmallest
<1> QED
  BY <1>1, IInvInductive, PTL
=============================================================================
