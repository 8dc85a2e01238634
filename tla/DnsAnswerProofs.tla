-------------------------- MODULE DnsAnswerProofs --------------------------
(***************************************************************************)
(* Proofs about DnsAnswer, for bytes of any number of values, any messages *)
(* and any bound on pointers: that the decoder never goes back, that it    *)
(* reads what was written and nothing else, and that it comes closer to    *)
(* the end with every step.                                                *)
(***************************************************************************)
EXTENDS DnsAnswer, SequenceTheorems, TLAPS

\* What a name has counted before its first pointer includes that pointer, and there is
\* a name to go on with only in a message that is one of those that may come.
IInv ==
  /\ ReaderTypeOK
  /\ message \in Messages
  /\ name.jumps > 0 => name.size >= 2

\* The bytes of a message are numbers, and so are two of them.
LEMMA BytesAreNumbers ==
  ASSUME message \in Messages, NEW i \in Nat, Holds(i, 1)
  PROVE  ByteAt(i) \in 0 .. Base - 1
<1>1. message.bytes \in Seq(Byte)
  BY DnsAnswerAssumption
<1>2. i + 1 \in 1 .. Len(message.bytes)
  BY <1>1 DEF Holds
<1> QED
  BY <1>1, <1>2, ElementOfSeq DEF ByteAt, Byte

LEMMA TwoBytesAreANumber ==
  ASSUME message \in Messages, NEW i \in Nat, Holds(i, 2)
  PROVE  /\ UInt16(i) \in Nat
         /\ ByteAt(i) >= Pointer => UInt16(i) - Pointer * Base \in Nat
<1>1. Len(message.bytes) \in Nat
  BY DnsAnswerAssumption
<1>2. Holds(i, 1) /\ Holds(i + 1, 1)
  BY <1>1 DEF Holds
<1>3. ByteAt(i) \in 0 .. Base - 1 /\ ByteAt(i + 1) \in 0 .. Base - 1
  BY <1>2, BytesAreNumbers
<1>4. Base \in Nat /\ Base > 5
  BY DnsAnswerAssumption
<1>5. Pointer \in Nat
  BY <1>4 DEF Pointer
<1>6. \A b, c, p, d \in Nat : b * d + c \in Nat /\ (b >= p => b * d + c - p * d \in Nat)
  <2> SUFFICES ASSUME NEW b \in Nat, NEW c \in Nat, NEW p \in Nat, NEW d \in Nat
               PROVE  b * d + c \in Nat /\ (b >= p => b * d + c - p * d \in Nat)
    OBVIOUS
  <2>1. b * d \in Nat /\ p * d \in Nat
    OBVIOUS
  <2>2. b >= p => (b - p) * d \in Nat /\ (b - p) * d = b * d - p * d
    OBVIOUS
  <2> QED
    BY <2>1, <2>2
<1> QED
  BY <1>3, <1>4, <1>5, <1>6 DEF UInt16

LEMMA Initially == Init => IInv
BY DnsAnswerAssumption DEF Init, IInv, ReaderTypeOK

-----------------------------------------------------------------------------
\* To throw, to return and to go on to a name keep the invariant.
LEMMA Leaving ==
  ASSUME IInv, Throw \/ \E address, ttl : Return(address, ttl)
  PROVE  IInv' /\ stage' # "fields"
BY DEF IInv, ReaderTypeOK, Throw, Return

LEMMA ReadingName ==
  ASSUME IInv, NEW from \in Nat, ReadName(from)
  PROVE  IInv' /\ stage' # "fields"
BY DnsAnswerAssumption DEF IInv, ReaderTypeOK, ReadName

LEMMA LabelStep ==
  ASSUME IInv, Label
  PROVE  IInv' /\ stage' # "fields"
<1>1. ByteAt(name.at) + 1 \in Nat
  BY BytesAreNumbers, DnsAnswerAssumption DEF IInv, ReaderTypeOK, Label
<1>2. PICK n \in Nat :
        name' = [at |-> name.at + n, size |-> Grown(n), jumps |-> name.jumps]
  BY <1>1 DEF Label
<1>3. Grown(n) \in Nat /\ (name.jumps > 0 => Grown(n) = name.size)
  BY DEF IInv, ReaderTypeOK, Grown
<1> QED
  BY <1>2, <1>3 DEF IInv, ReaderTypeOK, Label

LEMMA JumpStep ==
  ASSUME IInv, Jump
  PROVE  IInv' /\ stage' # "fields"
<1>1. UInt16(name.at) - Pointer * Base \in Nat
  BY TwoBytesAreANumber DEF IInv, ReaderTypeOK, Jump
<1>2. PICK p \in Nat : name' = [at |-> p, size |-> Grown(2), jumps |-> name.jumps + 1]
  BY <1>1 DEF Jump
<1>3. Grown(2) \in Nat /\ Grown(2) >= 2
  BY DEF IInv, ReaderTypeOK, Grown
<1> QED
  BY <1>2, <1>3, DnsAnswerAssumption DEF IInv, ReaderTypeOK, Jump

\* The end of a name is the one step to the fields: they are behind the name.
LEMMA NameEndStep ==
  ASSUME IInv, NameEnd
  PROVE  IInv' /\ at' > at
<1>1. Grown(1) \in Nat /\ Grown(1) >= 1
  BY DEF IInv, ReaderTypeOK, Grown
<1> QED
  BY <1>1 DEF IInv, ReaderTypeOK, NameEnd

LEMMA QuestionStep ==
  ASSUME IInv, Question
  PROVE  IInv' /\ stage' # "fields"
<1>1. CASE Throw
  BY <1>1, Leaving
<1>2. CASE ReadName(at + 4)
  BY <1>2, ReadingName DEF IInv, ReaderTypeOK
<1>3. CASE stage' = "done" /\ UNCHANGED <<message, at, name>>
  BY <1>3 DEF IInv, ReaderTypeOK
<1> QED
  BY <1>1, <1>2, <1>3 DEF Question

LEMMA OtherRecordStep ==
  ASSUME IInv, OtherRecord
  PROVE  IInv' /\ stage' # "fields"
<1>1. CASE stage' = "done" /\ UNCHANGED <<message, at, name>>
  BY <1>1 DEF IInv, ReaderTypeOK
<1>2. CASE ReadName(DataAt + DataSize)
  <2>1. at \in Nat /\ TtlSize \in Nat /\ Len(message.bytes) \in Nat
    BY DnsAnswerAssumption DEF IInv, ReaderTypeOK
  <2>2. Holds(at, 6 + TtlSize)
    BY DEF OtherRecord, Readable
  <2>3. DataAt - 2 \in Nat /\ Holds(DataAt - 2, 2)
    BY <2>1, <2>2 DEF DataAt, Holds
  <2>4. DataSize \in Nat
    BY <2>3, TwoBytesAreANumber DEF IInv, DataSize
  <2> QED
    BY <1>2, <2>1, <2>4, ReadingName DEF DataAt
<1> QED
  BY <1>1, <1>2 DEF OtherRecord

\* The invariant is kept, and the reader only ever moves on.
LEMMA Inductive ==
  ASSUME IInv, [Next]_vars
  PROVE  IInv' /\ (stage' = "fields" => at' > at \/ UNCHANGED vars)
<1>1. CASE Header
  <2>1. CASE Throw
    BY <2>1, Leaving
  <2>2. CASE ReadName(HeaderSize)
    BY <2>2, ReadingName, DnsAnswerAssumption
  <2> QED
    BY <1>1, <2>1, <2>2 DEF Header
<1>2. CASE Label
  BY <1>2, LabelStep
<1>3. CASE Jump
  BY <1>3, JumpStep
<1>4. CASE NameEnd
  BY <1>4, NameEndStep
<1>5. CASE Question
  BY <1>5, QuestionStep
<1>6. CASE OtherRecord
  BY <1>6, OtherRecordStep
<1>7. CASE BadName \/ BadRecord \/ AddressRecord \/ SoaRecord
  <2>1. Throw \/ \E address, ttl : Return(address, ttl)
    BY <1>7 DEF BadName, BadRecord, AddressRecord, SoaRecord
  <2> QED
    BY <2>1, Leaving
<1>8. CASE UNCHANGED vars
  BY <1>8 DEF vars, IInv, ReaderTypeOK
<1> QED
  BY <1>1, <1>2, <1>3, <1>4, <1>5, <1>6, <1>7, <1>8 DEF Next

\* The decoder is at some offset, and in a name behind at most as many pointers as it
\* may follow, whatever the message (the bound of line 455).
THEOREM ReaderTypeCorrect == Spec => []ReaderTypeOK
<1>1. Init => IInv
  BY Initially
<1>2. IInv /\ [Next]_vars => IInv'
  BY Inductive
<1>3. IInv => ReaderTypeOK
  BY DEF IInv
<1> QED
  BY <1>1, <1>2, <1>3, PTL DEF Spec

\* However names are compressed, the reader never goes back in the message: every name
\* ends behind the place where it began (lines 383, 392 and 454 to 486).
THEOREM ReaderNeverGoesBack == Spec => ReaderAdvances
<1>1. Init => IInv
  BY Initially
<1>2. IInv /\ [Next]_vars => IInv'
  BY Inductive
<1>3. IInv /\ [Next]_vars => [stage' = "fields" => at' > at]_vars
  BY Inductive
<1> QED
  BY <1>1, <1>2, <1>3, PTL DEF Spec, ReaderAdvances

-----------------------------------------------------------------------------
(***************************************************************************)
(* Numbers in two bytes.                                                   *)
(***************************************************************************)
\* A byte has enough values for pointers to be told from lengths.
LEMMA BaseIs == Base \in Nat /\ Base > 5 /\ Pointer \in Nat /\ 0 < Pointer /\ Pointer < Base
<1>1. Base \in Nat /\ Base > 5
  BY DnsAnswerAssumption
<1> QED
  BY <1>1 DEF Pointer

\* What a quotient and its remainder are.
LEMMA Division ==
  ASSUME NEW x \in Nat, NEW d \in Nat, d > 0
  PROVE  x \div d \in Nat /\ x % d \in 0 .. d - 1 /\ x % d = x - d * (x \div d)
<1>1. x \div d \in Nat
  OBVIOUS
<1>2. x % d \in 0 .. d - 1
  OBVIOUS
<1>3. x % d = x - d * (x \div d)
  OBVIOUS
<1> QED
  BY <1>1, <1>2, <1>3

\* A number in two bytes is the number that they are read as.
LEMMA TwoIs ==
  ASSUME NEW n \in Nat
  PROVE  /\ Two(n) \in Seq(Nat) /\ Len(Two(n)) = 2 
         /\ Two(n)[1] = n \div Base /\ Two(n)[2] = n % Base
         /\ Two(n)[1] * Base + Two(n)[2] = n
<1> DEFINE q == n \div Base
           r == n % Base
<1>1. q \in Nat /\ r \in Nat /\ r = n - Base * q
  BY BaseIs, Division
<1>2. Two(n) = <<q, r>>
  BY DEF Two
<1> HIDE DEF q, r
<1>3. <<q, r>> \in Seq(Nat) /\ Len(<<q, r>>) = 2
  BY <1>1
<1>4. q * Base + r = n
  <2>1. q * Base = Base * q /\ Base * q \in Nat
    BY <1>1, BaseIs
  <2> QED
    BY <1>1, <2>1
<1> QED
  BY <1>2, <1>3, <1>4 DEF q, r

-----------------------------------------------------------------------------
(***************************************************************************)
(* What came of a message that was written.                                *)
(***************************************************************************)
Written == message \in Messages /\ message.content # Null

\* Whether the first n bytes behind an offset were written.
Fits(from, n) == from + n <= Len(message.content.bytes)

\* What came of it is the beginning of what was written.
LEMMA Arrived ==
  ASSUME Written
  PROVE  /\ IsWritten(message.content) /\ message.accepted
         /\ message.count = Len(message.content.records)
         /\ message.bytes \in Seq(Byte) /\ message.content.bytes \in Seq(Byte)
         /\ Len(message.bytes) \in Nat /\ Len(message.content.bytes) \in Nat
         /\ Len(message.bytes) <= Len(message.content.bytes)
         /\ \A i \in 1 .. Len(message.bytes) : message.bytes[i] = message.content.bytes[i]
         /\ Len(message.bytes) = Len(message.content.bytes) => ~Cut
<1> DEFINE b == message.bytes
           w == message.content.bytes
           k == Len(b)
<1>1. /\ b \in Seq(Byte) /\ IsWritten(message.content) /\ message.accepted
      /\ message.count = Len(message.content.records) /\ IsPrefix(b, w)
  BY DnsAnswerAssumption DEF Written
<1>2. w \in Seq(Byte)
  BY <1>1 DEF IsWritten
<1>3. k \in Nat /\ Len(w) \in Nat /\ k <= Len(w) /\ SubSeq(b, 1, k) = SubSeq(w, 1, k)
  BY <1>1, <1>2, LenProperties DEF IsPrefix
<1> HIDE DEF b, w
<1>4. ASSUME NEW i \in 1 .. k
      PROVE  b[i] = w[i]
  <2>1. SubSeq(b, 1, k)[i] = b[i] /\ SubSeq(w, 1, k)[i] = w[i]
    BY <1>1, <1>2, <1>3
  <2> QED
    BY <1>3, <2>1
<1>5. k = Len(w) => b = w
  BY <1>1, <1>2, <1>4, SeqEqual
<1> QED
  BY <1>1, <1>2, <1>3, <1>4, <1>5 DEF Cut, b, w

\* What can be read is what was written, and what was written can be read unless it is lost.
LEMMA Reads ==
  ASSUME Written, NEW i \in Nat
  PROVE  /\ \A n \in Nat : Holds(i, n) => Fits(i, n)
         /\ \A n \in Nat : Fits(i, n) /\ ~Holds(i, n) => Cut
         /\ Holds(i, 1) => ByteAt(i) = message.content.bytes[i + 1] /\ ByteAt(i) \in Byte
<1>1. /\ Len(message.bytes) \in Nat /\ Len(message.content.bytes) \in Nat
      /\ Len(message.bytes) <= Len(message.content.bytes)
      /\ Len(message.bytes) = Len(message.content.bytes) => ~Cut
      /\ message.bytes \in Seq(Byte)
      /\ \A k \in 1 .. Len(message.bytes) : message.bytes[k] = message.content.bytes[k]
  BY Arrived
<1>2. Len(message.bytes) # Len(message.content.bytes) => Cut
  BY DEF Cut
<1>3. Holds(i, 1) => i + 1 \in 1 .. Len(message.bytes)
  BY <1>1 DEF Holds
<1> QED
  BY <1>1, <1>2, <1>3, ElementOfSeq DEF Holds, Fits, ByteAt

\* A number that was written in two bytes is read as that number.
LEMMA ReadsTwo ==
  ASSUME Written, NEW i \in Nat, NEW n \in Nat, Holds(i, 2),
         message.content.bytes[i + 1] = Two(n)[1], message.content.bytes[i + 2] = Two(n)[2]
  PROVE  UInt16(i) = n
<1>1. Len(message.bytes) \in Nat
  BY Arrived
<1>2. Holds(i, 1) /\ Holds(i + 1, 1) /\ i + 1 \in Nat /\ (i + 1) + 1 = i + 2
  BY <1>1 DEF Holds
<1>3. ByteAt(i) = Two(n)[1] /\ ByteAt(i + 1) = Two(n)[2]
  BY <1>2, Reads
<1> QED
  BY <1>3, TwoIs DEF UInt16

\* What is put behind something is found behind it.
LEMMA JoinIs ==
  ASSUME NEW s \in Seq(Nat), NEW t \in Seq(Nat)
  PROVE  /\ s \o t \in Seq(Nat) /\ Len(s \o t) = Len(s) + Len(t)
         /\ \A i \in 1 .. Len(s) : (s \o t)[i] = s[i]
         /\ \A i \in 1 .. Len(t) : (s \o t)[Len(s) + i] = t[i]
<1> DEFINE u == s \o t
           n == Len(s)
           k == Len(t)
<1>1. /\ u \in Seq(Nat) /\ Len(u) = n + k /\ n \in Nat /\ k \in Nat
      /\ \A i \in 1 .. n + k : u[i] = IF i <= n THEN s[i] ELSE t[i - n]
  BY ConcatProperties, LenProperties
<1> HIDE DEF u, n, k
<1>2. ASSUME NEW i \in 1 .. n
      PROVE  u[i] = s[i]
  <2>1. i \in 1 .. n + k /\ i <= n
    BY <1>1
  <2> QED
    BY <1>1, <2>1
<1>3. ASSUME NEW i \in 1 .. k
      PROVE  u[n + i] = t[i]
  <2>1. n + i \in 1 .. n + k /\ ~(n + i <= n) /\ (n + i) - n = i
    BY <1>1
  <2> QED
    BY <1>1, <2>1
<1> QED
  BY <1>1, <1>2, <1>3 DEF u, n, k

\* Where in a record its fields are.
LEMMA FieldsIs ==
  ASSUME NEW r \in RecordType
  PROVE  LET f == Fields(r)
             n == Len(r.data)
         IN  /\ r.type \in Nat /\ r.class \in Nat /\ n \in Nat
             /\ r.data \in Seq(Byte) /\ r.ttl \in Seq(Byte) /\ Len(r.ttl) = TtlSize
             /\ Len(f) = 6 + TtlSize + n
             /\ f[1] = Two(r.type)[1] /\ f[2] = Two(r.type)[2]
             /\ f[3] = Two(r.class)[1] /\ f[4] = Two(r.class)[2]
             /\ \A i \in 1 .. TtlSize : f[4 + i] = r.ttl[i]
             /\ f[5 + TtlSize] = Two(n)[1] /\ f[6 + TtlSize] = Two(n)[2]
             /\ \A i \in 1 .. n : f[6 + TtlSize + i] = r.data[i]
<1> DEFINE n == Len(r.data)
           a == Two(r.type)
           b == Two(r.class)
           c == r.ttl
           d == Two(n)
           e == r.data
           ab == a \o b
           abc == ab \o c
           abcd == abc \o d
           all == abcd \o e
<1>1. /\ r.type \in Nat /\ r.class \in Nat /\ c \in Seq(Byte) /\ e \in Seq(Byte)
      /\ Len(c) = TtlSize /\ TtlSize \in Nat
  BY DnsAnswerAssumption DEF RecordType
<1>2. n \in Nat
  BY <1>1, LenProperties
<1>3. \A s \in Seq(Byte) : s \in Seq(Nat)
  <2>1. Byte \subseteq Nat
    BY BaseIs DEF Byte
  <2> QED
    BY <2>1, SeqMonotonic
<1>4. c \in Seq(Nat) /\ e \in Seq(Nat)
  BY <1>1, <1>3
<1>5. /\ a \in Seq(Nat) /\ Len(a) = 2 /\ b \in Seq(Nat) /\ Len(b) = 2
      /\ d \in Seq(Nat) /\ Len(d) = 2
  BY <1>1, <1>2, TwoIs
<1> HIDE DEF a, b, c, d, e, n
<1>6. Len(e) = n
  BY DEF e, n
<1>7. /\ ab \in Seq(Nat) /\ Len(ab) = 2 + 2
      /\ \A i \in 1 .. 2 : ab[i] = a[i]
      /\ \A i \in 1 .. 2 : ab[2 + i] = b[i]
  <2>1. /\ a \o b \in Seq(Nat) /\ Len(a \o b) = Len(a) + Len(b)
        /\ \A i \in 1 .. Len(a) : (a \o b)[i] = a[i]
        /\ \A i \in 1 .. Len(b) : (a \o b)[Len(a) + i] = b[i]
    BY <1>5, JoinIs
  <2>2. Len(a) = 2 /\ Len(b) = 2
    BY <1>5
  <2> QED
    BY <2>1, <2>2
<1> HIDE DEF ab
<1>8. /\ abc \in Seq(Nat) /\ Len(abc) = 4 + TtlSize
      /\ \A i \in 1 .. 4 : abc[i] = ab[i]
      /\ \A i \in 1 .. TtlSize : abc[4 + i] = c[i]
  <2>1. /\ ab \o c \in Seq(Nat) /\ Len(ab \o c) = Len(ab) + Len(c)
        /\ \A i \in 1 .. Len(ab) : (ab \o c)[i] = ab[i]
        /\ \A i \in 1 .. Len(c) : (ab \o c)[Len(ab) + i] = c[i]
    BY <1>1, <1>4, <1>7, JoinIs
  <2>2. Len(ab) = 4 /\ Len(c) = TtlSize
    BY <1>1, <1>4, <1>7
  <2> QED
    BY <2>1, <2>2
<1> HIDE DEF abc
<1>9. /\ abcd \in Seq(Nat) /\ Len(abcd) = (4 + TtlSize) + 2
      /\ \A i \in 1 .. 4 + TtlSize : abcd[i] = abc[i]
      /\ \A i \in 1 .. 2 : abcd[(4 + TtlSize) + i] = d[i]
  <2>1. /\ abc \o d \in Seq(Nat) /\ Len(abc \o d) = Len(abc) + Len(d)
        /\ \A i \in 1 .. Len(abc) : (abc \o d)[i] = abc[i]
        /\ \A i \in 1 .. Len(d) : (abc \o d)[Len(abc) + i] = d[i]
    BY <1>5, <1>8, JoinIs
  <2>2. Len(abc) = 4 + TtlSize /\ Len(d) = 2
    BY <1>5, <1>8
  <2> QED
    BY <2>1, <2>2
<1> HIDE DEF abcd
<1>10. /\ Len(all) = (6 + TtlSize) + n
       /\ \A i \in 1 .. 6 + TtlSize : all[i] = abcd[i]
       /\ \A i \in 1 .. n : all[(6 + TtlSize) + i] = e[i]
  <2>1. /\ abcd \o e \in Seq(Nat) /\ Len(abcd \o e) = Len(abcd) + Len(e)
        /\ \A i \in 1 .. Len(abcd) : (abcd \o e)[i] = abcd[i]
        /\ \A i \in 1 .. Len(e) : (abcd \o e)[Len(abcd) + i] = e[i]
    BY <1>1, <1>4, <1>6, <1>9, JoinIs
  <2>2. Len(abcd) = 6 + TtlSize /\ Len(e) = n
    BY <1>1, <1>4, <1>6, <1>9
  <2> QED
    BY <2>1, <2>2
<1>11. all = Fields(r)
  BY DEF Fields, abcd, abc, ab, a, b, c, d, e, n
<1> HIDE DEF all
<1>12. \A i \in 1 .. 4 : all[i] = ab[i]
  <2> TAKE i \in 1 .. 4
  <2>1. i \in 1 .. 4 + TtlSize /\ i \in 1 .. 6 + TtlSize
    BY <1>1
  <2>2. all[i] = abcd[i]
    BY <1>10, <2>1
  <2>3. abcd[i] = abc[i]
    BY <1>9, <2>1
  <2> QED
    BY <1>8, <2>2, <2>3
<1>13. \A i \in 1 .. TtlSize : all[4 + i] = c[i]
  <2> TAKE i \in 1 .. TtlSize
  <2>1. 4 + i \in 1 .. 4 + TtlSize /\ 4 + i \in 1 .. 6 + TtlSize
    BY <1>1
  <2> QED
    BY <1>8, <1>9, <1>10, <2>1
<1>14. all[5 + TtlSize] = d[1] /\ all[6 + TtlSize] = d[2]
  <2>1. /\ 5 + TtlSize \in 1 .. 6 + TtlSize /\ 6 + TtlSize \in 1 .. 6 + TtlSize
        /\ 5 + TtlSize = (4 + TtlSize) + 1 /\ 6 + TtlSize = (4 + TtlSize) + 2
        /\ 1 \in 1 .. 2 /\ 2 \in 1 .. 2
    BY <1>1
  <2> QED
    BY <1>9, <1>10, <2>1
<1>15. all[1] = a[1] /\ all[2] = a[2] /\ all[3] = b[1] /\ all[4] = b[2]
  <2>1. /\ 1 \in 1 .. 4 /\ 2 \in 1 .. 4 /\ 3 \in 1 .. 4 /\ 4 \in 1 .. 4
        /\ 1 \in 1 .. 2 /\ 2 \in 1 .. 2 /\ 2 + 1 = 3 /\ 2 + 2 = 4
    OBVIOUS
  <2> QED
    BY <1>7, <1>12, <2>1
<1>16. \A i \in 1 .. n : all[6 + TtlSize + i] = e[i]
  BY <1>10
<1> QED
  BY <1>1, <1>2, <1>10, <1>11, <1>13, <1>14, <1>15, <1>16 DEF a, b, c, d, e, n

-----------------------------------------------------------------------------
End(p)   == message.content.names[p].end
Start(i) == message.content.starts[i]
Count    == Len(message.content.records)

\* A record whose name ends at an offset.
LEMMA RecordIs ==
  ASSUME Written, NEW i \in 1 .. Count
  PROVE  LET r == message.content.records[i]
             p == End(Start(i))
         IN  /\ r \in RecordType /\ Start(i) \in DOMAIN message.content.names /\ p \in Nat
             /\ Start(i + 1) = p + (6 + TtlSize + Len(r.data))
             /\ Fits(p, 6 + TtlSize + Len(r.data))
             /\ \A k \in 1 .. 6 + TtlSize + Len(r.data) :
                  message.content.bytes[p + k] = Fields(r)[k]
<1> DEFINE c == message.content
           r == c.records[i]
           f == Fields(r)
           p == End(Start(i))
<1>1. IsWritten(c)
  BY Arrived
<1>2. /\ c.records \in Seq(RecordType) /\ DOMAIN c.records = 1 .. Count /\ Count \in Nat
      /\ c.bytes \in Seq(Byte)
      /\ c.starts \in [1 .. Count + 1 -> 0 .. Len(c.bytes)]
      /\ NamesIn(c.bytes, c.names)
  BY <1>1, LenProperties DEF IsWritten, Count
<1>3. /\ Start(i) \in DOMAIN c.names /\ Start(i + 1) = p + Len(f)
      /\ SubSeq(c.bytes, p + 1, p + Len(f)) = f
  BY <1>1, <1>2 DEF IsWritten, Start, End
<1>4. r \in RecordType
  BY <1>2
<1>5. Len(f) = 6 + TtlSize + Len(r.data) /\ Len(r.data) \in Nat /\ TtlSize \in Nat
  BY <1>4, FieldsIs, DnsAnswerAssumption
<1>6. p \in Nat
  BY <1>2, <1>3 DEF NamesIn, End
<1>7. Start(i + 1) \in 0 .. Len(c.bytes) /\ Len(c.bytes) \in Nat
  BY <1>2, LenProperties DEF Start
<1>8. p + Len(f) <= Len(c.bytes)
  BY <1>3, <1>7
<1>9. ASSUME NEW k \in 1 .. Len(f)
      PROVE  c.bytes[p + k] = f[k]
  <2> HIDE DEF p, f, c
  <2>1. Len(f) \in Nat
    <3>1. \A x, y, z : x = 6 + y + z /\ y \in Nat /\ z \in Nat => x \in Nat
      OBVIOUS
    <3> QED
      BY <1>5, <3>1
  <2>2. SubSeq(c.bytes, p + 1, p + Len(f))[k] = c.bytes[(p + 1) + k - 1]
    <3>1. p + 1 \in Int /\ p + Len(f) \in Int /\ k \in 1 .. (1 + (p + Len(f)) - (p + 1))
      BY <1>6, <2>1
    <3> QED
      BY <3>1, <1>2, <1>6, <1>8, <2>1
  <2>3. (p + 1) + k - 1 = p + k
    BY <1>6, <2>1
  <2> QED
    BY <1>3, <2>2, <2>3
<1> HIDE DEF f
<1>10. /\ Start(i + 1) = p + (6 + TtlSize + Len(r.data))
       /\ Fits(p, 6 + TtlSize + Len(r.data))
       /\ \A k \in 1 .. 6 + TtlSize + Len(r.data) : c.bytes[p + k] = f[k]
  BY <1>3, <1>5, <1>8, <1>9 DEF Fits
<1> QED
  BY <1>3, <1>4, <1>6, <1>10 DEF f

\* What is read of it, as far as it can be.
LEMMA RecordReads ==
  ASSUME Written, NEW i \in 1 .. Count, at = End(Start(i))
  PROVE  LET r == message.content.records[i]
         IN  /\ r \in RecordType
             /\ ~Cut => Holds(at, 6 + TtlSize + Len(r.data))
             /\ Holds(at, 6 + TtlSize) =>
                  /\ Type = r.type /\ Class = r.class /\ DataSize = Len(r.data)
                  /\ Ttl = Value(r.ttl)
                  /\ DataAt + DataSize = Start(i + 1)
                  /\ \A k \in 1 .. Len(r.data) :
                       Holds(DataAt, k) => ByteAt(DataAt + k - 1) = r.data[k]
<1> DEFINE r == message.content.records[i]
           f == Fields(r)
           n == Len(r.data)
           w == message.content.bytes
<1>1. /\ r \in RecordType /\ at \in Nat
      /\ Start(i + 1) = at + (6 + TtlSize + n) /\ Fits(at, 6 + TtlSize + n)
      /\ \A k \in 1 .. 6 + TtlSize + n : w[at + k] = f[k]
  BY RecordIs
<1>2. /\ r.type \in Nat /\ r.class \in Nat /\ n \in Nat
      /\ r.data \in Seq(Byte) /\ r.ttl \in Seq(Byte) /\ Len(r.ttl) = TtlSize
      /\ Len(f) = 6 + TtlSize + n
      /\ f[1] = Two(r.type)[1] /\ f[2] = Two(r.type)[2]
      /\ f[3] = Two(r.class)[1] /\ f[4] = Two(r.class)[2]
      /\ \A k \in 1 .. TtlSize : f[4 + k] = r.ttl[k]
      /\ f[5 + TtlSize] = Two(n)[1] /\ f[6 + TtlSize] = Two(n)[2]
      /\ \A k \in 1 .. n : f[6 + TtlSize + k] = r.data[k]
  BY <1>1, FieldsIs
<1>3. TtlSize \in Nat /\ Len(message.bytes) \in Nat
  BY Arrived, DnsAnswerAssumption
<1> HIDE DEF r, f, n, w
<1>4. ~Cut => Holds(at, 6 + TtlSize + n)
  <2>1. 6 + TtlSize + n \in Nat
    BY <1>2, <1>3
  <2> QED
    BY <1>1, <2>1, Reads
<1>5. ASSUME Holds(at, 6 + TtlSize)
      PROVE  Type = r.type /\ Class = r.class /\ DataSize = n /\ DataAt + n = Start(i + 1)
  <2>1. Holds(at, 2) /\ Holds(at + 2, 2) /\ Holds(at + 4 + TtlSize, 2)
    BY <1>1, <1>3, <1>5 DEF Holds
  <2>2. /\ w[at + 1] = f[1] /\ w[at + 2] = f[2] /\ w[at + 3] = f[3] /\ w[at + 4] = f[4]
        /\ w[at + (5 + TtlSize)] = f[5 + TtlSize] /\ w[at + (6 + TtlSize)] = f[6 + TtlSize]
    <3>1. /\ 1 \in 1 .. 6 + TtlSize + n /\ 2 \in 1 .. 6 + TtlSize + n
          /\ 3 \in 1 .. 6 + TtlSize + n /\ 4 \in 1 .. 6 + TtlSize + n
          /\ 5 + TtlSize \in 1 .. 6 + TtlSize + n /\ 6 + TtlSize \in 1 .. 6 + TtlSize + n
      BY <1>2, <1>3
    <3> QED
      BY <1>1, <3>1
  <2>3. Type = r.type
    BY <1>1, <1>2, <2>1, <2>2, ReadsTwo DEF Type, w
  <2>4. Class = r.class
    <3>1. at + 2 \in Nat /\ (at + 2) + 1 = at + 3 /\ (at + 2) + 2 = at + 4
      BY <1>1
    <3> QED
      BY <1>2, <2>1, <2>2, <3>1, ReadsTwo DEF Class, w
  <2>5. DataSize = n
    <3> DEFINE q == at + 4 + TtlSize
    <3>1. /\ q \in Nat /\ q + 1 = at + (5 + TtlSize) /\ q + 2 = at + (6 + TtlSize)
          /\ DataAt - 2 = q
      BY <1>1, <1>3 DEF DataAt
    <3>2. Holds(q, 2)
      BY <2>1
    <3> HIDE DEF q
    <3>3. w[q + 1] = Two(n)[1] /\ w[q + 2] = Two(n)[2]
      BY <1>2, <2>2, <3>1
    <3>4. UInt16(q) = n
      BY <1>2, <3>1, <3>2, <3>3, ReadsTwo DEF w
    <3> QED
      BY <3>1, <3>4 DEF DataSize
  <2>6. DataAt + n = Start(i + 1)
    BY <1>1, <1>2, <1>3 DEF DataAt
  <2> QED
    BY <2>3, <2>4, <2>5, <2>6
<1>6. ASSUME NEW k \in 1 .. 6 + TtlSize + n, Holds(at, k)
      PROVE  ByteAt(at + k - 1) = f[k] /\ message.bytes[at + k] = f[k]
  <2> DEFINE j == at + k - 1
  <2>1. j \in Nat /\ Holds(j, 1) /\ j + 1 = at + k
    <3>1. at \in Nat /\ k \in Nat /\ k > 0 /\ at + k <= Len(message.bytes)
      <4>1. 6 + TtlSize + n \in Nat
        BY <1>2, <1>3
      <4> QED
        BY <1>1, <1>6, <4>1 DEF Holds
    <3> QED
      BY <1>3, <3>1 DEF Holds
  <2> HIDE DEF j
  <2>2. ByteAt(j) = w[j + 1]
    BY <2>1, Reads DEF w
  <2>3. ByteAt(j) = message.bytes[j + 1]
    BY DEF ByteAt
  <2>4. w[at + k] = f[k]
    BY <1>1, <1>6
  <2> QED
    BY <2>1, <2>2, <2>3, <2>4 DEF j
<1>7. ASSUME Holds(at, 6 + TtlSize)
      PROVE  Ttl = Value(r.ttl)
  <2> DEFINE s == Slice(at + 4, TtlSize)
             m == at + 4 + 1
             u == at + 4 + TtlSize
  <2>1. s = SubSeq(message.bytes, m, u)
    BY DEF Slice
  <2>2. message.bytes \in Seq(Byte) /\ m \in Int /\ u \in Int /\ 1 + u - m = TtlSize
    BY <1>1, <1>3, Arrived
  <2>3. \A k \in 1 .. TtlSize : m + k - 1 = at + (4 + k) /\ 4 + k \in 1 .. 6 + TtlSize + n
                                  /\ Holds(at, 4 + k) /\ m + k - 1 \in 1 .. Len(message.bytes)
    <3> SUFFICES ASSUME NEW k \in 1 .. TtlSize
                 PROVE  /\ m + k - 1 = at + (4 + k) /\ 4 + k \in 1 .. 6 + TtlSize + n
                        /\ Holds(at, 4 + k) /\ m + k - 1 \in 1 .. Len(message.bytes)
      OBVIOUS
    <3>1. /\ at \in Nat /\ n \in Nat /\ TtlSize \in Nat /\ k \in Nat /\ 1 <= k /\ k <= TtlSize
          /\ Len(message.bytes) \in Nat /\ at + (6 + TtlSize) <= Len(message.bytes)
      BY <1>1, <1>2, <1>3, <1>7 DEF Holds
    <3>2. m + k - 1 = at + (4 + k) /\ 4 + k \in 1 .. 6 + TtlSize + n
      BY <3>1
    <3>3. at + (4 + k) <= Len(message.bytes) /\ at + (4 + k) \in 1 .. Len(message.bytes)
      BY <3>1
    <3> QED
      BY <3>2, <3>3 DEF Holds
  <2> HIDE DEF m, u
  <2>4. s = [k \in 1 .. TtlSize |-> message.bytes[m + k - 1]]
    BY <2>1, <2>2
  <2>5. \A k \in 1 .. TtlSize : s[k] = r.ttl[k]
    <3> TAKE k \in 1 .. TtlSize
    <3>1. s[k] = message.bytes[at + (4 + k)]
      BY <2>3, <2>4
    <3>2. message.bytes[at + (4 + k)] = f[4 + k]
      BY <1>6, <2>3
    <3> QED
      BY <1>2, <3>1, <3>2
  <2>6. r.ttl = [k \in 1 .. TtlSize |-> r.ttl[k]]
    BY <1>2, LenProperties
  <2> HIDE DEF s
  <2>7. s = r.ttl
    BY <2>4, <2>5, <2>6
  <2> QED
    BY <2>7 DEF Ttl, s
<1>8. ASSUME NEW k \in 1 .. n, Holds(DataAt, k)
      PROVE  ByteAt(DataAt + k - 1) = r.data[k]
  <2> DEFINE j == 6 + TtlSize + k
  <2>1. j \in 1 .. 6 + TtlSize + n /\ Holds(at, j) /\ at + j - 1 = DataAt + k - 1
    <3>1. /\ at \in Nat /\ n \in Nat /\ TtlSize \in Nat /\ k \in Nat /\ 1 <= k /\ k <= n
          /\ Len(message.bytes) \in Nat /\ at + 6 + TtlSize + k <= Len(message.bytes)
      BY <1>1, <1>2, <1>3, <1>8 DEF Holds, DataAt
    <3>2. at + j <= Len(message.bytes) /\ j \in 1 .. 6 + TtlSize + n
      BY <3>1
    <3>3. at + j - 1 = DataAt + k - 1
      BY <3>1 DEF DataAt
    <3> QED
      BY <3>2, <3>3 DEF Holds
  <2> HIDE DEF j
  <2>2. ByteAt(at + j - 1) = f[j]
    BY <1>6, <2>1
  <2>3. f[j] = r.data[k]
    BY <1>2 DEF j
  <2> QED
    BY <2>1, <2>2, <2>3
<1>9. Holds(at, 6 + TtlSize) =>
        /\ Type = r.type /\ Class = r.class /\ DataSize = n /\ Ttl = Value(r.ttl)
        /\ DataAt + DataSize = Start(i + 1)
        /\ \A k \in 1 .. n : Holds(DataAt, k) => ByteAt(DataAt + k - 1) = r.data[k]
  BY <1>5, <1>7, <1>8
<1> QED
  BY <1>1, <1>4, <1>9 DEF r, n

\* The question of a message that was written, as far as it can be read.
LEMMA QuestionReads ==
  ASSUME Written, at = End(HeaderSize)
  PROVE  /\ HeaderSize \in DOMAIN message.content.names /\ at \in Nat
         /\ at + 4 = Start(1) /\ message.content.qtype \in {A, AAAA}
         /\ ~Cut => Holds(at, 4)
         /\ Holds(at, 4) => UInt16(at) = message.content.qtype /\ UInt16(at + 2) = Internet
<1> DEFINE c == message.content
           w == c.bytes
           q == c.qtype
<1>1. IsWritten(c) /\ w \in Seq(Byte) /\ Len(w) \in Nat /\ Len(message.bytes) \in Nat
  BY Arrived
<1>2. /\ HeaderSize \in DOMAIN c.names /\ NamesIn(w, c.names) /\ q \in {A, AAAA}
      /\ at + 4 = Start(1) /\ c.records \in Seq(RecordType)
      /\ c.starts \in [1 .. Count + 1 -> 0 .. Len(w)]
      /\ SubSeq(w, at + 1, at + 4) = Two(q) \o Two(Internet)
  BY <1>1 DEF IsWritten, End, Start, Count
<1>3. at \in Nat
  BY <1>2 DEF NamesIn, End
<1>4. Start(1) \in 0 .. Len(w)
  <2>1. Count \in Nat
    BY <1>2, LenProperties DEF Count
  <2>2. 1 \in 1 .. Count + 1
    BY <2>1
  <2> QED
    BY <1>2, <2>2 DEF Start
<1>5. Fits(at, 4)
  BY <1>1, <1>2, <1>3, <1>4 DEF Fits
<1>6. ~Cut => Holds(at, 4)
  BY <1>3, <1>5, Reads
<1>7. q \in Nat /\ Internet \in Nat
  BY <1>2 DEF A, AAAA, Internet
<1> DEFINE t == Two(q) \o Two(Internet)
<1>8. t[1] = Two(q)[1] /\ t[2] = Two(q)[2] /\ t[3] = Two(Internet)[1] /\ t[4] = Two(Internet)[2]
  <2> DEFINE x == Two(q)
             y == Two(Internet)
  <2>1. x \in Seq(Nat) /\ Len(x) = 2 /\ y \in Seq(Nat) /\ Len(y) = 2
    BY <1>7, TwoIs
  <2> HIDE DEF x, y
  <2>2. /\ \A i \in 1 .. Len(x) : (x \o y)[i] = x[i]
        /\ \A i \in 1 .. Len(y) : (x \o y)[Len(x) + i] = y[i]
    BY <2>1, JoinIs
  <2>3. 1 \in 1 .. 2 /\ 2 \in 1 .. 2 /\ 2 + 1 = 3 /\ 2 + 2 = 4
    OBVIOUS
  <2>4. (x \o y)[1] = x[1] /\ (x \o y)[2] = x[2] /\ (x \o y)[3] = y[1] /\ (x \o y)[4] = y[2]
    BY <2>1, <2>2, <2>3
  <2> QED
    BY <2>4 DEF x, y
<1>9. \A k \in 1 .. 4 : w[at + k] = t[k]
  <2> HIDE DEF t, w
  <2> TAKE k \in 1 .. 4
  <2>1. at + 1 \in Int /\ at + 4 \in Int /\ k \in 1 .. (1 + (at + 4) - (at + 1))
        /\ (at + 1) + k - 1 = at + k
    BY <1>3
  <2>2. SubSeq(w, at + 1, at + 4)[k] = w[(at + 1) + k - 1]
    BY <1>1, <2>1
  <2> QED
    BY <1>2, <2>1, <2>2 DEF t
<1> HIDE DEF t, w, q
<1>10. ASSUME Holds(at, 4)
       PROVE  UInt16(at) = q /\ UInt16(at + 2) = Internet
  <2>1. Holds(at, 2) /\ Holds(at + 2, 2) /\ at + 2 \in Nat
    BY <1>1, <1>3, <1>10 DEF Holds
  <2>2. w[at + 1] = t[1] /\ w[at + 2] = t[2] /\ w[at + 3] = t[3] /\ w[at + 4] = t[4]
    <3>1. 1 \in 1 .. 4 /\ 2 \in 1 .. 4 /\ 3 \in 1 .. 4 /\ 4 \in 1 .. 4
      OBVIOUS
    <3> QED
      BY <1>9, <3>1
  <2>3. UInt16(at) = q
    BY <1>3, <1>7, <1>8, <2>1, <2>2, ReadsTwo DEF w
  <2>4. (at + 2) + 1 = at + 3 /\ (at + 2) + 2 = at + 4
    BY <1>3
  <2>5. UInt16(at + 2) = Internet
    BY <1>7, <1>8, <2>1, <2>2, <2>4, ReadsTwo DEF w
  <2> QED
    BY <2>3, <2>5
<1> QED
  BY <1>2, <1>3, <1>6, <1>10 DEF q

-----------------------------------------------------------------------------
\* Records that tell what was asked for; the first of them is what is meant.
Telling(j) ==
  LET r == message.content.records[j]
  IN  r.class = Internet /\ r.type \in {message.content.qtype, SOA}

\* Without such a record, what is meant is that there is no address.
LEMMA NothingMeant ==
  ASSUME Written, \A j \in 1 .. Count : ~Telling(j)
  PROVE  Meant(message.content) = [address |-> Null, ttl |-> TtlMin]
<1>1. DOMAIN message.content.records = 1 .. Count
  BY Arrived, LenProperties DEF IsWritten, Count
<1> QED
  BY <1>1 DEF Meant, Telling

\* With one before which there is none, what is meant is what it says.
LEMMA FirstIsMeant ==
  ASSUME Written, NEW i \in 1 .. Count, Telling(i), \A j \in 1 .. i - 1 : ~Telling(j)
  PROVE  LET r == message.content.records[i]
         IN  Meant(message.content) = [address |-> IF r.type = SOA THEN Null ELSE r.data,
                                       ttl |-> Value(r.ttl)]
<1> DEFINE T == {j \in DOMAIN message.content.records : Telling(j)}
<1>1. DOMAIN message.content.records = 1 .. Count /\ Count \in Nat
  BY Arrived, LenProperties DEF IsWritten, Count
<1>2. i \in T /\ \A j \in T : j \in Nat /\ i <= j
  BY <1>1
<1>3. T # {} /\ Min(T) = i
  <2> HIDE DEF T
  <2>1. Min(T) \in T /\ \A j \in T : Min(T) <= j
    BY <1>2 DEF Min
  <2>2. Min(T) \in Nat /\ i \in Nat /\ i <= Min(T) /\ Min(T) <= i
    BY <1>2, <2>1
  <2> QED
    BY <1>2, <2>2
<1>4. T = {j \in DOMAIN message.content.records :
              message.content.records[j].class = Internet
                /\ message.content.records[j].type \in {message.content.qtype, SOA}}
  BY DEF Telling
<1> HIDE DEF T
<1>5. Meant(message.content) =
        IF T = {} THEN [address |-> Null, ttl |-> TtlMin]
        ELSE [address |-> IF message.content.records[Min(T)].type = SOA THEN Null
                          ELSE message.content.records[Min(T)].data,
              ttl |-> Value(message.content.records[Min(T)].ttl)]
  BY <1>4, Zenon DEF Meant
<1> QED
  BY <1>3, <1>5

-----------------------------------------------------------------------------
(***************************************************************************)
(* Where the decoder is in a message that was written: the invariant       *)
(* behind both theorems about them.  It relates the place of the reader to *)
(* the names and the records of the sender, which the code does not know.  *)
(***************************************************************************)
\* The reader is at the name in front of the question, or at that of the record whose turn
\* it is, and no record before that one told anything.
Sought(p) ==
  \/ qtype = Null /\ p = HeaderSize
  \/ /\ qtype = message.content.qtype
     /\ left \in 1 .. Count
     /\ p = Start(Count - left + 1)
     /\ \A j \in 1 .. Count - left : ~Telling(j)

\* It follows a name that was written; where it ends is known once it went to a pointer.
Following ==
  /\ name.at \in DOMAIN message.content.names
  /\ name.jumps + message.content.names[name.at].jumps <= MaxJumps
  /\ name.jumps = 0 => name.at = at + name.size /\ End(at) = End(name.at)
  /\ name.jumps > 0 => End(at) = at + name.size

\* What was returned is what was meant, but for zeros in place of lost bytes.
Told ==
  LET meant == Meant(message.content)
  IN  \/ result = meant
      \/ /\ Cut /\ qtype = AAAA /\ meant.address # Null
         /\ result.ttl = meant.ttl
         /\ \A i \in 1 .. AddressSize[AAAA] : result.address[i] \in {meant.address[i], 0}

\* At each step of a message that was written.
AsWritten ==
  Written =>
    /\ stage = "header" => qtype = Null
    /\ stage = "failed" => Cut
    /\ stage = "name"   => Sought(at) /\ Following
    /\ stage = "fields" => \E p \in DOMAIN message.content.names : Sought(p) /\ at = End(p)
    /\ stage = "done"   => Told

\* Only what is read changes, never the message.
LEMMA Unmoved ==
  ASSUME message' = message
  PROVE  /\ Written' = Written /\ Cut' = Cut /\ Count' = Count
         /\ \A p : End(p)' = End(p) /\ Start(p)' = Start(p) /\ Telling(p)' = Telling(p)
BY DEF Written, Cut, Count, End, Start, Telling

\* A name that was written, as far as it can be read.
LEMMA NameReads ==
  ASSUME Written, NEW q \in DOMAIN message.content.names
  PROVE  LET names == message.content.names
         IN  /\ q \in Nat /\ names[q].end \in Nat /\ names[q].jumps \in 0 .. MaxJumps
             /\ ~Cut => Holds(q, 1)
             /\ Holds(q, 1) =>
                  \/ ByteAt(q) = 0 /\ names[q].end = q + 1
                  \/ /\ ByteAt(q) \in 1 .. Pointer - 1
                     /\ q + (ByteAt(q) + 1) \in DOMAIN names
                     /\ names[q] = names[q + (ByteAt(q) + 1)]
                  \/ /\ ByteAt(q) \in Nat /\ ByteAt(q) >= Pointer /\ names[q].jumps > 0
                     /\ ~Cut => Holds(q, 2)
                     /\ Holds(q, 2) =>
                          \E target \in DOMAIN names :
                            /\ UInt16(q) - Pointer * Base = target
                            /\ names[q].end = q + 2
                            /\ names[q].jumps = names[target].jumps + 1
<1> DEFINE names == message.content.names
           w == message.content.bytes
<1>1. /\ NamesIn(w, names) /\ w \in Seq(Byte) /\ Len(w) \in Nat /\ Len(message.bytes) \in Nat
      /\ Len(message.bytes) <= Len(w)
  BY Arrived DEF IsWritten
<1>2. /\ names[q] \in [end : Nat, jumps : 0 .. MaxJumps]
      /\ q \in Nat /\ q < Len(w)
      /\ LET byte == w[q + 1]
         IN  \/ byte = 0 /\ names[q] = [end |-> q + 1, jumps |-> 0]
             \/ /\ byte \in 1 .. Pointer - 1
                /\ q + byte + 1 \in DOMAIN names /\ names[q] = names[q + byte + 1]
             \/ /\ q + 2 <= Len(w)
                /\ \E target \in DOMAIN names :
                     /\ <<byte, w[q + 2]>> = Two(Pointer * Base + target)
                     /\ names[q] = [end |-> q + 2, jumps |-> names[target].jumps + 1]
  BY <1>1 DEF NamesIn
<1>3. \A p \in DOMAIN names : p \in Nat /\ names[p] \in [end : Nat, jumps : 0 .. MaxJumps]
  BY <1>1 DEF NamesIn
<1>4. Fits(q, 1)
  BY <1>1, <1>2 DEF Fits
<1>5. ~Cut => Holds(q, 1)
  BY <1>2, <1>4, Reads
<1> HIDE DEF names, w
<1>6. ASSUME Holds(q, 1)
      PROVE  \/ ByteAt(q) = 0 /\ names[q].end = q + 1
             \/ /\ ByteAt(q) \in 1 .. Pointer - 1
                /\ q + (ByteAt(q) + 1) \in DOMAIN names
                /\ names[q] = names[q + (ByteAt(q) + 1)]
             \/ /\ ByteAt(q) \in Nat /\ ByteAt(q) >= Pointer /\ names[q].jumps > 0
                /\ ~Cut => Holds(q, 2)
                /\ Holds(q, 2) =>
                     \E target \in DOMAIN names :
                       /\ UInt16(q) - Pointer * Base = target
                       /\ names[q].end = q + 2
                       /\ names[q].jumps = names[target].jumps + 1
  <2> DEFINE b == ByteAt(q)
  <2>1. b = w[q + 1] /\ b \in Byte
    BY <1>2, <1>6, Reads DEF w
  <2>2. b \in Nat
    BY <2>1, BaseIs DEF Byte
  <2> HIDE DEF b
  <2>3. CASE b = 0 /\ names[q] = [end |-> q + 1, jumps |-> 0]
    BY <2>3 DEF b
  <2>4. CASE /\ b \in 1 .. Pointer - 1
             /\ q + b + 1 \in DOMAIN names /\ names[q] = names[q + b + 1]
    <3>1. q + b + 1 = q + (b + 1)
      BY <1>2, <2>2
    <3> QED
      BY <2>4, <3>1 DEF b
  <2>5. ASSUME q + 2 <= Len(w), NEW target \in DOMAIN names,
               <<b, w[q + 2]>> = Two(Pointer * Base + target),
               names[q] = [end |-> q + 2, jumps |-> names[target].jumps + 1]
        PROVE  /\ b >= Pointer /\ names[q].jumps > 0
               /\ ~Cut => Holds(q, 2)
               /\ Holds(q, 2) =>
                    /\ UInt16(q) - Pointer * Base = target
                    /\ names[q].end = q + 2
                    /\ names[q].jumps = names[target].jumps + 1
    <3> DEFINE n == Pointer * Base + target
               m == Pointer * Base
    <3>1. target \in Nat /\ names[target].jumps \in Nat
      BY <1>3, DnsAnswerAssumption
    <3>2. m \in Nat
      BY BaseIs
    <3>3. n \in Nat
      BY <3>1, <3>2
    <3>4. Two(n)[1] = b /\ Two(n)[2] = w[q + 2]
      BY <2>5
    <3>5. b >= Pointer
      <4>1. n \div Base \in Nat /\ n % Base \in 0 .. Base - 1 /\ n % Base = n - Base * (n \div Base)
        BY <3>3, BaseIs, Division
      <4>2. b = n \div Base
        BY <3>3, <3>4, TwoIs
      <4> DEFINE r == n % Base
      <4>3. r \in 0 .. Base - 1 /\ r = n - Base * b
        BY <4>1, <4>2
      <4>4. \A p, d, c \in Nat : c < p => d * c + d <= p * d
        <5> SUFFICES ASSUME NEW p \in Nat, NEW d \in Nat, NEW c \in Nat, c < p
                     PROVE  d * c + d <= p * d
          OBVIOUS
        <5>1. (p - (c + 1)) * d \in Nat /\ (p - (c + 1)) * d = p * d - (d * c + d)
          OBVIOUS
        <5>2. p * d \in Nat /\ d * c \in Nat
          OBVIOUS
        <5> QED
          BY <5>1, <5>2
      <4>5. b < Pointer => Base * b + Base <= m
        BY <2>2, <4>4, BaseIs
      <4>6. Base * b \in Nat /\ n = m + target
        BY <2>2, BaseIs
      <4> HIDE DEF r, m, n
      <4>7. n = r + Base * b /\ r < Base /\ r \in Nat
        BY <3>3, <4>3, <4>6, BaseIs
      <4>8. ~(Base * b + Base <= m)
        BY <3>1, <3>2, <4>6, <4>7, BaseIs
      <4> QED
        BY <2>2, <4>5, <4>8, BaseIs
    <3>6. ~Cut => Holds(q, 2)
      BY <1>2, <2>5, Reads DEF Fits, w
    <3>7. Holds(q, 2) => UInt16(q) - m = target
      <4> HIDE DEF n
      <4>1. Holds(q, 2) => UInt16(q) = n
        BY <1>2, <2>1, <3>3, <3>4, ReadsTwo DEF w
      <4>2. n - m = target
        <5> HIDE DEF m
        <5>1. n = m + target
          BY DEF n, m
        <5> QED
          BY <5>1, <3>1, <3>2
      <4> QED
        BY <4>1, <4>2
    <3>8. names[q].jumps > 0 /\ names[q].end = q + 2 /\ names[q].jumps = names[target].jumps + 1
      BY <2>5, <3>1
    <3> QED
      BY <3>5, <3>6, <3>7, <3>8
  <2>6. CASE /\ q + 2 <= Len(w)
             /\ \E target \in DOMAIN names :
                  /\ <<b, w[q + 2]>> = Two(Pointer * Base + target)
                  /\ names[q] = [end |-> q + 2, jumps |-> names[target].jumps + 1]
    BY <2>2, <2>5, <2>6 DEF b
  <2> QED
    BY <1>2, <2>1, <2>3, <2>4, <2>6
<1> QED
  BY <1>2, <1>5, <1>6 DEF names

\* Where the names of a message that was written are: in front of the question and of
\* each record.
LEMMA SoughtIsName ==
  ASSUME Written, NEW p, Sought(p)
  PROVE  p \in DOMAIN message.content.names
<1>1. Count \in Nat /\ DOMAIN message.content.records = 1 .. Count
  BY Arrived, LenProperties DEF IsWritten, Count
<1>2. HeaderSize \in DOMAIN message.content.names
  BY Arrived DEF IsWritten
<1>3. ASSUME left \in 1 .. Count
      PROVE  Start(Count - left + 1) \in DOMAIN message.content.names
  <2>1. Count - left + 1 \in 1 .. Count
    BY <1>1, <1>3
  <2> QED
    BY <1>1, <2>1, Arrived DEF IsWritten, Start
<1> QED
  BY <1>2, <1>3 DEF Sought

\* Only a message that lost its end is refused.
LEMMA RefusedIfCut ==
  ASSUME Written, Throw, Cut
  PROVE  AsWritten'
<1>1. stage' = "failed" /\ Cut'
  BY Unmoved DEF Throw
<1> QED
  BY <1>1 DEF AsWritten

\* To go on to the name whose turn it is keeps the invariant.
LEMMA ReadingOn ==
  ASSUME Written, NEW from \in DOMAIN message.content.names, ReadName(from), Sought(from)'
  PROVE  AsWritten'
<1>1. /\ message' = message /\ stage' = "name" /\ at' = from
      /\ name' = [at |-> from, size |-> 0, jumps |-> 0]
  BY DEF ReadName
<1>2. message.content.names[from].jumps \in 0 .. MaxJumps /\ from \in Nat
  BY NameReads
<1>3. Following'
  <2>1. /\ name'.at \in DOMAIN message'.content.names /\ name'.jumps = 0
        /\ name'.at = at' + name'.size /\ at' = name'.at
        /\ name'.jumps + message'.content.names[name'.at].jumps <= MaxJumps
    BY <1>1, <1>2, DnsAnswerAssumption
  <2> QED
    BY <2>1 DEF Following
<1> QED
  BY <1>1, <1>3 DEF AsWritten

\* The name in front of the question is behind the header.
LEMMA HeaderAsWritten ==
  ASSUME AsWritten, Written, Header
  PROVE  AsWritten'
<1>1. HeaderSize \in DOMAIN message.content.names /\ message.accepted
  BY Arrived DEF IsWritten
<1>2. CASE ~Holds(0, HeaderSize) /\ Throw
  <2>1. HeaderSize \in Nat /\ 0 \in Nat /\ Fits(0, HeaderSize)
    <3>1. HeaderSize < Len(message.content.bytes)
      BY <1>1, Arrived DEF IsWritten, NamesIn
    <3> QED
      BY <3>1, DnsAnswerAssumption, Arrived DEF Fits
  <2> QED
    BY <1>2, <2>1, Reads, RefusedIfCut
<1>3. CASE ReadName(HeaderSize) /\ UNCHANGED <<qtype, left>>
  <2>1. qtype' = Null
    BY <1>3 DEF AsWritten, Header
  <2> QED
    BY <1>1, <1>3, <2>1, ReadingOn DEF Sought
<1> QED
  BY <1>1, <1>2, <1>3 DEF Header

-----------------------------------------------------------------------------
\* In a name, nothing changes but the place in it.
LEMMA SameSought ==
  ASSUME message' = message, qtype' = qtype, left' = left
  PROVE  \A p : Sought(p)' = Sought(p)
<1>1. /\ Count' = Count
      /\ \A p : Start(p)' = Start(p) /\ Telling(p)' = Telling(p)
  BY Unmoved
<1> QED
  BY <1>1 DEF Sought

\* What is left of a name behind a label ends where the name ends.
LEMMA LabelAsWritten ==
  ASSUME IInv, AsWritten, Written, Label
  PROVE  AsWritten'
<1> DEFINE names == message.content.names
           q == name.at
           n == ByteAt(q) + 1
<1>1. /\ Sought(at) /\ Following /\ stage = "name" /\ stage' = "name"
      /\ message' = message /\ at' = at
      /\ name' = [at |-> q + n, size |-> Grown(n), jumps |-> name.jumps]
  BY DEF AsWritten, Label
<1>2. /\ q \in DOMAIN names /\ Holds(q, 1) /\ ByteAt(q) \in 1 .. Pointer - 1
      /\ q \in Nat /\ at \in Nat /\ name.size \in Nat /\ name.jumps \in Nat
  BY <1>1, DnsAnswerAssumption DEF Following, Label, IInv, ReaderTypeOK
<1>3. q + n \in DOMAIN names /\ names[q + n] = names[q] /\ n \in Nat
  BY <1>2, BaseIs, NameReads
<1>4. Sought(at)'
  <2>1. Sought(at') <=> Sought(at)
    BY <1>1
  <2> QED
    BY <1>1, SameSought DEF Label
<1> HIDE DEF n
<1>5. /\ name.jumps = 0 => q + n = at + Grown(n) /\ names[at].end = names[q + n].end
      /\ name.jumps > 0 => names[at].end = at + Grown(n)
  BY <1>1, <1>2, <1>3 DEF Following, End, Grown
<1>6. name.jumps + names[q + n].jumps <= MaxJumps
  BY <1>1, <1>3 DEF Following
<1> HIDE DEF q
<1>7. Following'
  <2>1. /\ name'.at = q + n /\ name'.size = Grown(n) /\ name'.jumps = name.jumps
    BY <1>1
  <2> QED
    BY <1>1, <1>3, <1>5, <1>6, <2>1 DEF Following, End
<1> QED
  BY <1>1, <1>4, <1>7 DEF AsWritten

\* Behind a pointer the name goes on elsewhere, and ends behind the first of its pointers.
LEMMA JumpAsWritten ==
  ASSUME IInv, AsWritten, Written, Jump
  PROVE  AsWritten'
<1> DEFINE names == message.content.names
           q == name.at
           t == UInt16(q) - Pointer * Base
<1>1. /\ Sought(at) /\ Following /\ stage = "name" /\ stage' = "name"
      /\ message' = message /\ at' = at
      /\ name' = [at |-> t, size |-> Grown(2), jumps |-> name.jumps + 1]
  BY DEF AsWritten, Jump
<1>2. /\ q \in DOMAIN names /\ Holds(q, 2) /\ ByteAt(q) >= Pointer
      /\ q \in Nat /\ at \in Nat /\ name.size \in Nat /\ name.jumps \in Nat
  BY <1>1, DnsAnswerAssumption DEF Following, Jump, IInv, ReaderTypeOK
<1>3. Holds(q, 1)
  BY <1>2, Arrived DEF Holds
<1>4. t \in DOMAIN names /\ names[q].end = q + 2 /\ names[q].jumps = names[t].jumps + 1
  BY <1>2, <1>3, BaseIs, NameReads
<1>5. names[t].jumps \in Nat
  BY <1>4, NameReads, DnsAnswerAssumption
<1>6. Sought(at)'
  BY <1>1, SameSought DEF Jump
<1> HIDE DEF t
<1>7. names[at].end = at + Grown(2)
  BY <1>1, <1>2, <1>4 DEF Following, End, Grown
<1>8. name.jumps + 1 + names[t].jumps <= MaxJumps /\ name.jumps + 1 > 0
  BY <1>1, <1>2, <1>4, <1>5, DnsAnswerAssumption DEF Following
<1> HIDE DEF q
<1>9. Following'
  <2>1. /\ name'.at = t /\ name'.size = Grown(2) /\ name'.jumps = name.jumps + 1
        /\ name'.jumps # 0
    BY <1>1, <1>2
  <2> QED
    BY <1>1, <1>4, <1>7, <1>8, <2>1 DEF Following, End
<1> QED
  BY <1>1, <1>6, <1>9 DEF AsWritten

\* The reader goes on where the name ends that it began with.
LEMMA NameEndAsWritten ==
  ASSUME IInv, AsWritten, Written, NameEnd
  PROVE  AsWritten'
<1> DEFINE q == name.at
<1>1. /\ Sought(at) /\ Following /\ stage' = "fields"
      /\ message' = message /\ at' = at + Grown(1)
  BY DEF AsWritten, NameEnd
<1>2. /\ q \in DOMAIN message.content.names /\ Holds(q, 1) /\ ByteAt(q) = 0
      /\ q \in Nat /\ at \in Nat /\ name.size \in Nat /\ name.jumps \in Nat
  BY <1>1, DnsAnswerAssumption DEF Following, NameEnd, IInv, ReaderTypeOK
<1>3. End(q) = q + 1
  BY <1>2, BaseIs, NameReads DEF End
<1>4. at' = End(at)
  BY <1>1, <1>2, <1>3 DEF Following, Grown
<1>5. at \in DOMAIN message.content.names
  BY <1>1, SoughtIsName
<1>6. \A p : Sought(p)' = Sought(p) /\ End(p)' = End(p)
  BY <1>1, SameSought, Unmoved DEF NameEnd
<1>7. \E p \in DOMAIN message'.content.names : Sought(p)' /\ at' = End(p)'
  BY <1>1, <1>4, <1>5, <1>6
<1> QED
  BY <1>1, <1>7 DEF AsWritten

\* A name that was written follows no more pointers than it may.
LEMMA BadNameAsWritten ==
  ASSUME IInv, AsWritten, Written, BadName
  PROVE  AsWritten'
<1> DEFINE names == message.content.names
           q == name.at
<1>1. Following /\ Throw /\ q \in DOMAIN names /\ name.jumps \in Nat
  BY DnsAnswerAssumption DEF AsWritten, BadName, Following, IInv, ReaderTypeOK
<1>2. CASE ~Holds(q, 1)
  BY <1>1, <1>2, NameReads, RefusedIfCut
<1>3. CASE Holds(q, 1) /\ ByteAt(q) >= Pointer /\ (~Holds(q, 2) \/ name.jumps = MaxJumps)
  <2>1. names[q].jumps > 0 /\ (~Cut => Holds(q, 2))
    BY <1>1, <1>3, BaseIs, NameReads
  <2>2. name.jumps # MaxJumps
    BY <1>1, <2>1, NameReads, DnsAnswerAssumption DEF Following
  <2> QED
    BY <1>1, <1>3, <2>1, <2>2, RefusedIfCut
<1> QED
  BY <1>2, <1>3 DEF BadName

-----------------------------------------------------------------------------
\* The question is the one that was written, and the first record is behind it.
LEMMA QuestionAsWritten ==
  ASSUME AsWritten, Written, Question
  PROVE  AsWritten'
<1> DEFINE q == message.content.qtype
<1>1. q \in {A, AAAA} /\ Null \notin {A, AAAA}
  BY Arrived, DnsAnswerAssumption DEF IsWritten
<1>2. at = End(HeaderSize)
  BY <1>1 DEF AsWritten, Question, Sought
<1>3. /\ at + 4 = Start(1)
      /\ ~Cut => Holds(at, 4)
      /\ Holds(at, 4) => UInt16(at) = q /\ UInt16(at + 2) = Internet
  BY <1>2, QuestionReads
<1>4. Count \in Nat /\ message.count = Count /\ DOMAIN message.content.records = 1 .. Count
  BY Arrived, LenProperties DEF IsWritten, Count
<1>5. CASE ~Holds(at, 4) /\ Throw
  BY <1>3, <1>5, RefusedIfCut
<1>6. CASE /\ Holds(at, 4) /\ qtype' = UInt16(at) /\ left' = message.count
           /\ message.count = 0
           /\ stage' = "done" /\ result' = [address |-> Null, ttl |-> TtlMin]
           /\ UNCHANGED <<message, at, name>>
  <2>1. \A j \in 1 .. Count : ~Telling(j)
    BY <1>4, <1>6
  <2>2. result' = Meant(message'.content)
    BY <1>6, <2>1, NothingMeant
  <2>3. Told'
    BY <2>2 DEF Told
  <2> QED
    BY <1>6, <2>3 DEF AsWritten
<1>7. CASE /\ Holds(at, 4) /\ qtype' = UInt16(at) /\ left' = message.count
           /\ message.count # 0 /\ ReadName(at + 4)
  <2>1. 1 \in 1 .. Count /\ Count - Count + 1 = 1 /\ Count - Count = 0
    BY <1>4, <1>7
  <2>2. at + 4 \in DOMAIN message.content.names
    BY <1>3, <1>4, <2>1, Arrived DEF IsWritten, Start
  <2>3. message' = message
    BY <1>7 DEF ReadName
  <2>4. qtype' = message'.content.qtype /\ left' = Count /\ Count' = Count
    BY <1>3, <1>4, <1>7, <2>3, Unmoved
  <2>5. /\ left' \in 1 .. Count' /\ at + 4 = Start(Count' - left' + 1)
        /\ \A j \in 1 .. Count' - left' : ~Telling(j)
    BY <1>3, <1>4, <2>1, <2>4
  <2>6. \A p : Start(p)' = Start(p) /\ Telling(p)' = Telling(p)
    BY <2>3, Unmoved
  <2> QED
    BY <1>7, <2>2, <2>4, <2>5, <2>6, ReadingOn DEF Sought
<1> QED
  BY <1>3, <1>1, <1>5, <1>6, <1>7 DEF Question

-----------------------------------------------------------------------------
\* The record whose turn it is.
LEMMA Turn ==
  ASSUME AsWritten, Written, Record
  PROVE  \E i \in 1 .. Count :
           /\ left = Count - i + 1 /\ qtype = message.content.qtype
           /\ at = End(Start(i))
           /\ \A j \in 1 .. i - 1 : ~Telling(j)
<1>1. Count \in Nat
  BY Arrived, LenProperties DEF IsWritten, Count
<1>2. PICK p : at = End(p) /\ Sought(p)
  BY DEF AsWritten, Record
<1>3. /\ qtype = message.content.qtype /\ left \in 1 .. Count
      /\ p = Start(Count - left + 1)
      /\ \A j \in 1 .. Count - left : ~Telling(j)
  BY <1>2 DEF Sought, Record
<1> DEFINE i == Count - left + 1
<1>4. i \in 1 .. Count /\ left = Count - i + 1 /\ i - 1 = Count - left
  BY <1>1, <1>3
<1> HIDE DEF i
<1>5. at = End(Start(i))
  BY <1>2, <1>3 DEF i
<1> QED
  BY <1>3, <1>4, <1>5

\* A record that was written is refused only if a part of it is lost.
LEMMA BadRecordAsWritten ==
  ASSUME AsWritten, Written, BadRecord
  PROVE  AsWritten'
<1>1. PICK i \in 1 .. Count : at = End(Start(i))
  BY Turn DEF BadRecord
<1> DEFINE r == message.content.records[i]
           n == Len(r.data)
<1>2. /\ r \in RecordType
      /\ ~Cut => Holds(at, 6 + TtlSize + n)
      /\ Holds(at, 6 + TtlSize) => Type = r.type /\ Class = r.class /\ DataSize = n
  BY <1>1, RecordReads
<1>3. at \in Nat /\ n \in Nat /\ TtlSize \in Nat /\ Len(message.bytes) \in Nat
  BY <1>1, <1>2, RecordIs, FieldsIs, Arrived, DnsAnswerAssumption
<1>4. ~Cut => Holds(at, 6 + TtlSize) /\ Holds(DataAt, n)
  <2> HIDE DEF n
  <2> QED
    BY <1>2, <1>3 DEF Holds, DataAt
<1>5. ~Cut => Readable /\ ~Wrong
  <2>1. r.class = Internet /\ r.type \in {A, AAAA} => n = AddressSize[r.type]
    BY <1>2 DEF RecordType
  <2> HIDE DEF r, n
  <2> QED
    BY <1>2, <1>4, <2>1 DEF BadRecord, Readable, Wrong, IsAddress
<1> QED
  BY <1>5, RefusedIfCut DEF BadRecord

\* The address is the one that was meant, or zeros stand for what was lost of it.
LEMMA AddressRecordAsWritten ==
  ASSUME AsWritten, Written, AddressRecord
  PROVE  AsWritten'
<1>1. PICK i \in 1 .. Count : /\ at = End(Start(i)) /\ qtype = message.content.qtype
                              /\ \A j \in 1 .. i - 1 : ~Telling(j)
  BY Turn DEF AddressRecord, Readable
<1> DEFINE r == message.content.records[i]
           n == Len(r.data)
           meant == Meant(message.content)
<1>2. /\ r \in RecordType
      /\ ~Cut => Holds(at, 6 + TtlSize + n)
      /\ Type = r.type /\ Class = r.class /\ DataSize = n /\ Ttl = Value(r.ttl)
      /\ \A k \in 1 .. n : Holds(DataAt, k) => ByteAt(DataAt + k - 1) = r.data[k]
  BY <1>1, RecordReads DEF AddressRecord, Readable
<1>3. /\ at \in Nat /\ n \in Nat /\ TtlSize \in Nat /\ Len(message.bytes) \in Nat
      /\ r.data \in Seq(Byte)
  BY <1>1, <1>2, RecordIs, FieldsIs, Arrived, DnsAnswerAssumption
<1>4. /\ r.class = Internet /\ r.type \in {A, AAAA} /\ r.type = message.content.qtype
      /\ n = AddressSize[r.type] /\ r.type # SOA
  BY <1>1, <1>2 DEF AddressRecord, IsAddress, Wrong, A, AAAA, SOA
<1>5. meant = [address |-> r.data, ttl |-> Value(r.ttl)]
  <2>1. Telling(i)
    BY <1>4 DEF Telling
  <2> QED
    BY <1>1, <1>4, <2>1, FirstIsMeant
<1>6. /\ stage' = "done" /\ message' = message /\ qtype' = qtype
      /\ result' = [address |-> Padded(n), ttl |-> Value(r.ttl)]
  BY <1>2 DEF AddressRecord, Return
<1>7. r.data = [k \in 1 .. n |-> r.data[k]]
  BY <1>3, LenProperties
<1>8. Padded(n) = [k \in 1 .. n |-> IF Holds(DataAt, k) THEN r.data[k] ELSE 0]
  BY <1>2 DEF Padded
<1> HIDE DEF n, r, meant
<1>9. CASE Holds(DataAt, n)
  <2>1. \A k \in 1 .. n : Holds(DataAt, k)
    <3> SUFFICES ASSUME NEW k \in 1 .. n
                 PROVE  Holds(DataAt, k)
      OBVIOUS
    <3>1. DataAt \in Nat /\ k \in Nat /\ k <= n
      BY <1>3 DEF DataAt
    <3> QED
      BY <1>3, <1>9, <3>1 DEF Holds
  <2>2. Padded(n) = r.data
    BY <1>7, <1>8, <2>1
  <2>3. result' = meant
    BY <1>5, <1>6, <2>2
  <2>4. Told'
    BY <1>6, <2>3 DEF Told, meant
  <2> QED
    BY <1>6, <2>4 DEF AsWritten
<1>10. CASE ~Holds(DataAt, n)
  <2>1. Cut
    BY <1>2, <1>3, <1>10 DEF Holds, DataAt
  <2>2. qtype = AAAA
    BY <1>1, <1>2, <1>4, <1>10 DEF AddressRecord, Wrong
  <2>3. meant.address = r.data /\ meant.address # Null /\ meant.ttl = Value(r.ttl)
    BY <1>3, <1>5, DnsAnswerAssumption
  <2>4. n = AddressSize[AAAA]
    BY <1>1, <1>4, <2>2
  <2>5. \A k \in 1 .. AddressSize[AAAA] : result'.address[k] \in {meant.address[k], 0}
    BY <1>6, <1>8, <2>3, <2>4
  <2>6. result'.ttl = meant.ttl
    BY <1>6, <2>3
  <2>7. Cut'
    BY <1>6, <2>1, Unmoved
  <2>8. Told'
    BY <1>6, <2>2, <2>3, <2>5, <2>6, <2>7 DEF Told, meant
  <2> QED
    BY <1>6, <2>8 DEF AsWritten
<1> QED
  BY <1>9, <1>10

\* A record that says that there is no address is taken for that.
LEMMA SoaRecordAsWritten ==
  ASSUME AsWritten, Written, SoaRecord
  PROVE  AsWritten'
<1>1. PICK i \in 1 .. Count : /\ at = End(Start(i))
                              /\ \A j \in 1 .. i - 1 : ~Telling(j)
  BY Turn DEF SoaRecord, Readable
<1> DEFINE r == message.content.records[i]
<1>2. Type = r.type /\ Class = r.class /\ Ttl = Value(r.ttl)
  BY <1>1, RecordReads DEF SoaRecord, Readable
<1>3. Telling(i) /\ r.type = SOA
  BY <1>2 DEF SoaRecord, IsSoa, Telling
<1>4. Meant(message.content) = [address |-> Null, ttl |-> Value(r.ttl)]
  BY <1>1, <1>3, FirstIsMeant
<1>5. /\ stage' = "done" /\ message' = message
      /\ result' = [address |-> Null, ttl |-> Value(r.ttl)]
  BY <1>2 DEF SoaRecord, Return
<1> HIDE DEF r
<1>6. Told'
  BY <1>4, <1>5 DEF Told
<1> QED
  BY <1>5, <1>6 DEF AsWritten

\* A record that tells nothing is passed by, and the next one begins where it ends.
LEMMA OtherRecordAsWritten ==
  ASSUME AsWritten, Written, OtherRecord
  PROVE  AsWritten'
<1>1. PICK i \in 1 .. Count : /\ left = Count - i + 1 /\ qtype = message.content.qtype
                              /\ at = End(Start(i))
                              /\ \A j \in 1 .. i - 1 : ~Telling(j)
  BY Turn DEF OtherRecord, Readable
<1> DEFINE r == message.content.records[i]
<1>2. Type = r.type /\ Class = r.class /\ DataAt + DataSize = Start(i + 1)
  BY <1>1, RecordReads DEF OtherRecord, Readable
<1>3. ~Telling(i)
  <2>1. message.content.qtype \in {A, AAAA}
    BY Arrived DEF IsWritten
  <2> QED
    BY <1>1, <1>2, <2>1 DEF OtherRecord, IsAddress, IsSoa, Telling
<1>4. Count \in Nat /\ DOMAIN message.content.records = 1 .. Count
  BY Arrived, LenProperties DEF IsWritten, Count
<1>5. \A j \in 1 .. i : ~Telling(j)
  <2> SUFFICES ASSUME NEW j \in 1 .. i
               PROVE  ~Telling(j)
    OBVIOUS
  <2>1. j \in 1 .. i - 1 \/ j = i
    BY <1>4
  <2> QED
    BY <1>1, <1>3, <2>1
<1>6. CASE left = 1 /\ stage' = "done" /\ result' = [address |-> Null, ttl |-> TtlMin]
             /\ UNCHANGED <<message, at, name, qtype>>
  <2>1. i = Count
    BY <1>1, <1>4, <1>6
  <2>2. result' = Meant(message.content)
    BY <1>5, <1>6, <2>1, NothingMeant
  <2>3. Told'
    BY <1>6, <2>2 DEF Told
  <2> QED
    BY <1>6, <2>3 DEF AsWritten
<1>7. CASE left # 1 /\ ReadName(DataAt + DataSize) /\ UNCHANGED qtype
  <2>1. left' = Count - i
    BY <1>1, <1>4 DEF OtherRecord
  <2>2. /\ left' \in 1 .. Count /\ Count - left' + 1 = i + 1 /\ Count - left' = i
        /\ i + 1 \in 1 .. Count
    BY <1>1, <1>4, <1>7, <2>1
  <2>3. message' = message
    BY <1>7 DEF ReadName
  <2>4. Start(i + 1) \in DOMAIN message.content.names
    BY <1>4, <2>2, Arrived DEF IsWritten, Start
  <2> QED
    BY <1>1, <1>2, <1>5, <1>7, <2>2, <2>3, <2>4, ReadingOn, Unmoved DEF Sought
<1> QED
  BY <1>6, <1>7 DEF OtherRecord

LEMMA AsWrittenInitially == Init => AsWritten
BY DEF Init, AsWritten

\* No step leaves what was written.
LEMMA AsWrittenInductive ==
  ASSUME IInv, AsWritten, [Next]_vars
  PROVE  AsWritten'
<1>1. message' = message
  BY DEF Next, vars, Header, Label, Jump, NameEnd, BadName, Question, BadRecord,
         AddressRecord, SoaRecord, OtherRecord, ReadName, Throw, Return
<1>2. CASE ~Written
  <2>1. ~Written'
    BY <1>1, <1>2, Unmoved
  <2> QED
    BY <2>1 DEF AsWritten
<1>3. CASE Written /\ Next
  BY <1>3, HeaderAsWritten, LabelAsWritten, JumpAsWritten, NameEndAsWritten,
     BadNameAsWritten, QuestionAsWritten, BadRecordAsWritten, AddressRecordAsWritten,
     SoaRecordAsWritten, OtherRecordAsWritten DEF Next
<1>4. CASE Written /\ UNCHANGED vars
  <2>1. /\ UNCHANGED <<message, stage, at, name, qtype, left, result>>
        /\ \A p : Sought(p)' = Sought(p) /\ End(p)' = End(p)
    BY <1>4, SameSought, Unmoved DEF vars
  <2>2. Following' = Following /\ Cut' = Cut /\ Told' = Told
    BY <2>1 DEF Following, End, Cut, Told
  <2> QED
    BY <1>4, <2>1, <2>2 DEF AsWritten
<1> QED
  BY <1>2, <1>3, <1>4

\* A message that follows the rules and came whole is never refused, and is understood as it
\* is meant, whatever its names are compressed to and whatever records stand in front of the
\* one that counts (lines 383 to 438 and 454 to 486).
THEOREM WellFormedAreDecoded == Spec => []WellFormedDecoded
<1>1. Init => IInv /\ AsWritten
  BY Initially, AsWrittenInitially
<1>2. IInv /\ AsWritten /\ [Next]_vars => (IInv /\ AsWritten)'
  BY Inductive, AsWrittenInductive
<1>3. IInv /\ AsWritten => WellFormedDecoded
  BY DEF IInv, AsWritten, Written, Told, WellFormedDecoded
<1> QED
  BY <1>1, <1>2, <1>3, PTL DEF Spec

\* A message that lost its end is refused or tells what the whole of it would have, but for
\* zeros in the place of lost bytes of an address of IPv6 (lines 396 to 435).
THEOREM CutShortAreNotMisread == Spec => []CutShortNotMisread
<1>1. Init => IInv /\ AsWritten
  BY Initially, AsWrittenInitially
<1>2. IInv /\ AsWritten /\ [Next]_vars => (IInv /\ AsWritten)'
  BY Inductive, AsWrittenInductive
<1>3. IInv /\ AsWritten => CutShortNotMisread
  BY DEF IInv, AsWritten, Written, Told, CutShortNotMisread
<1> QED
  BY <1>1, <1>2, <1>3, PTL DEF Spec

-----------------------------------------------------------------------------
(***************************************************************************)
(* The decoder ends: a number that every step brings down, whatever the    *)
(* message.                                                                *)
(***************************************************************************)
\* How much there is still to a name at most: the pointers that it may follow, and on the
\* way to each of them what is left of the message.
Ahead  == IF name.at <= Len(message.bytes) THEN Len(message.bytes) - name.at ELSE 0
InName == (MaxJumps - name.jumps) * (Len(message.bytes) + 1) + Ahead

\* More than a name and the fields behind it can take.
PerName == (MaxJumps + 1) * (Len(message.bytes) + 1) + 2

\* The names behind the one that is read.
Others == IF qtype = Null THEN message.count ELSE left - 1

\* How many steps are left at most.
StepsLeft ==
  CASE stage = "header" -> (message.count + 1) * PerName
    [] stage = "name"   -> Others * PerName + 2 + InName
    [] stage = "fields" -> Others * PerName + 1
    [] OTHER            -> 0

\* There is a name or there are fields to read only while there is something left.
Counted ==
  /\ stage = "header" => qtype = Null
  /\ stage \in {"name", "fields"} /\ qtype # Null => left \in Nat /\ left > 0

\* A name that is being read takes less than was counted for it.
LEMMA WeightIs ==
  ASSUME IInv
  PROVE  /\ PerName \in Nat /\ InName \in Nat /\ Ahead \in Nat
         /\ 2 + InName < PerName /\ Ahead <= Len(message.bytes)
         /\ message.count \in Nat /\ Len(message.bytes) \in Nat
<1> DEFINE size == Len(message.bytes) + 1
           j == MaxJumps - name.jumps
<1>1. /\ Len(message.bytes) \in Nat /\ message.count \in Nat /\ name.at \in Nat
      /\ MaxJumps \in Nat /\ name.jumps \in 0 .. MaxJumps
  BY DnsAnswerAssumption, LenProperties DEF IInv, ReaderTypeOK
<1>2. Ahead \in Nat /\ Ahead <= Len(message.bytes)
  BY <1>1 DEF Ahead
<1>3. j \in Nat /\ j <= MaxJumps /\ size \in Nat
  BY <1>1
<1>4. j * size \in Nat /\ MaxJumps * size \in Nat /\ j * size <= MaxJumps * size
      /\ (MaxJumps + 1) * size = MaxJumps * size + size
  <2> HIDE DEF j, size
  <2>1. j * size \in Nat /\ MaxJumps * size \in Nat
    BY <1>1, <1>3
  <2>2. (MaxJumps - j) * size \in Nat /\ (MaxJumps - j) * size = MaxJumps * size - j * size
    BY <1>1, <1>3
  <2>3. (MaxJumps + 1) * size = MaxJumps * size + size
    BY <1>1, <1>3
  <2>4. j * size <= MaxJumps * size
    BY <2>1, <2>2
  <2> QED
    BY <2>1, <2>3, <2>4
<1> DEFINE x == j * size
           y == MaxJumps * size
<1>5. InName = x + Ahead /\ PerName = y + size + 2
  BY <1>4 DEF InName, PerName
<1>6. x \in Nat /\ y \in Nat /\ x <= y /\ Ahead < size /\ size \in Nat
  BY <1>1, <1>2, <1>4
<1> HIDE DEF x, y, size
<1>7. PerName \in Nat /\ InName \in Nat /\ 2 + InName < PerName
  BY <1>2, <1>5, <1>6
<1> QED
  BY <1>1, <1>2, <1>7

\* What is left is a number, and less without the name than with it.
LEMMA Lighter ==
  ASSUME NEW n \in Nat, NEW w \in Nat
  PROVE  n * w \in Nat /\ (n + 1) * w = n * w + w
  OBVIOUS

\* The names behind the one that is read are counted.
LEMMA LeftIs ==
  ASSUME IInv, Counted, stage \in {"name", "fields"}
  PROVE  Others \in Nat /\ Others * PerName \in Nat
<1>1. Others \in Nat
  BY WeightIs DEF Counted, Others
<1> QED
  BY <1>1, WeightIs, Lighter

\* Two states of the same message have the same sizes.
LEMMA SameWeight ==
  ASSUME message' = message
  PROVE  PerName' = PerName /\ message'.count = message.count
BY DEF PerName

\* A label uses up bytes of the message, a pointer one of those that are allowed.
LEMMA CloserInName ==
  ASSUME IInv, IInv', Counted, Label \/ Jump
  PROVE  StepsLeft' \in Nat /\ StepsLeft' < StepsLeft
<1> DEFINE size == Len(message.bytes) + 1
<1>1. /\ stage = "name" /\ stage' = "name" /\ message' = message /\ qtype' = qtype
      /\ left' = left
  BY DEF Label, Jump
<1>2. /\ InName \in Nat /\ Ahead \in Nat /\ Ahead <= Len(message.bytes)
      /\ Len(message.bytes) \in Nat
  BY WeightIs
<1>3. Others * PerName \in Nat /\ Others' = Others /\ PerName' = PerName
  BY <1>1, LeftIs, SameWeight DEF Others
<1>4. InName' \in Nat /\ Ahead' \in Nat /\ Ahead' <= Len(message.bytes)
  <2>1. (InName \in Nat /\ Ahead \in Nat /\ Ahead <= Len(message.bytes))'
    BY ONLY IInv', WeightIs, PTL
  <2> QED
    BY <1>1, <2>1
<1> DEFINE j == MaxJumps - name.jumps
<1>5. j \in Nat /\ size \in Nat /\ j * size \in Nat /\ InName = j * size + Ahead
  <2>1. j \in Nat
    BY DnsAnswerAssumption DEF IInv, ReaderTypeOK
  <2>2. size \in Nat
    BY <1>2
  <2> QED
    BY <2>1, <2>2, Lighter DEF InName
<1>6. ASSUME Label
      PROVE  InName' < InName
  <2> DEFINE n == ByteAt(name.at) + 1
  <2>1. /\ name.at \in Nat /\ n \in Nat /\ n > 0 /\ name.at + 1 <= Len(message.bytes)
        /\ name'.at = name.at + n /\ name'.jumps = name.jumps
    BY <1>6, BaseIs DEF Label, Holds, IInv, ReaderTypeOK
  <2> HIDE DEF n
  <2>2. Ahead' < Ahead
    BY <1>1, <1>2, <2>1 DEF Ahead
  <2>3. InName' = j * size + Ahead'
    BY <1>1, <2>1 DEF InName
  <2> DEFINE x == j * size
  <2>4. InName = x + Ahead /\ InName' = x + Ahead' /\ x \in Nat
    BY <1>5, <2>3
  <2> HIDE DEF x
  <2>5. \A a, b, c \in Nat : b < a => c + b < c + a
    OBVIOUS
  <2> QED
    BY <1>2, <1>4, <2>2, <2>4, <2>5
<1>7. ASSUME Jump
      PROVE  InName' < InName
  <2>1. name'.jumps = name.jumps + 1 /\ name.jumps \in Nat /\ name.jumps < MaxJumps
    BY <1>7, DnsAnswerAssumption DEF Jump, IInv, ReaderTypeOK
  <2>2. j - 1 \in Nat /\ (j - 1) + 1 = j /\ MaxJumps - name'.jumps = j - 1
    BY <2>1, DnsAnswerAssumption
  <2>3. (j - 1) * size \in Nat /\ ((j - 1) + 1) * size = (j - 1) * size + size
    BY <1>5, <2>2, Lighter
  <2> DEFINE y == (j - 1) * size
  <2>4. InName' = y + Ahead'
    BY <1>1, <2>2 DEF InName
  <2>5. InName = y + size + Ahead
    BY <1>5, <2>2, <2>3
  <2>6. y \in Nat
    BY <2>3
  <2> HIDE DEF y
  <2> QED
    BY <1>2, <1>4, <2>4, <2>5, <2>6
<1>8. InName' < InName
  BY <1>6, <1>7
<1> DEFINE z == Others * PerName
<1>9. StepsLeft = z + 2 + InName /\ StepsLeft' = z + 2 + InName'
  BY <1>1, <1>3 DEF StepsLeft
<1> HIDE DEF z
<1>10. z \in Nat
  BY <1>3 DEF z
<1>11. \A a, b, c \in Nat : b < a => c + 2 + b \in Nat /\ c + 2 + b < c + 2 + a
  OBVIOUS
<1>12. z + 2 + InName' \in Nat /\ z + 2 + InName' < z + 2 + InName
  BY <1>2, <1>4, <1>8, <1>10, <1>11
<1> QED
  BY <1>9, <1>12

\* With the names behind it, a name takes less than what was counted for it in front.
LEMMA CloserToName ==
  ASSUME IInv, IInv', NEW from, ReadName(from), NEW n \in Nat, Others' = n,
         StepsLeft >= (n + 1) * PerName
  PROVE  StepsLeft' \in Nat /\ StepsLeft' < (n + 1) * PerName
<1>1. stage' = "name" /\ message' = message
  BY DEF ReadName
<1>2. PerName' = PerName /\ PerName \in Nat
  BY <1>1, SameWeight, WeightIs
<1>3. InName' \in Nat /\ 2 + InName' < PerName
  <2>1. (InName \in Nat /\ 2 + InName < PerName)'
    BY ONLY IInv', WeightIs, PTL
  <2> QED
    BY <1>2, <2>1
<1> DEFINE x == n * PerName
<1>4. x \in Nat /\ (n + 1) * PerName = x + PerName
  BY <1>2, Lighter
<1>5. StepsLeft' = x + 2 + InName'
  BY <1>1, <1>2 DEF StepsLeft
<1> HIDE DEF x
<1>6. \A b, c, w \in Nat : 2 + b < w => c + 2 + b \in Nat /\ c + 2 + b < c + w
  OBVIOUS
<1>7. x + 2 + InName' \in Nat /\ x + 2 + InName' < x + PerName
  BY <1>2, <1>3, <1>4, <1>6
<1> QED
  BY <1>4, <1>5, <1>7

LEMMA CountedInitially == Init => Counted
BY DEF Init, Counted

\* The records that are left are counted down to none, and no further.
LEMMA CountedInductive ==
  ASSUME IInv, Counted, [Next]_vars
  PROVE  Counted'
<1>1. message.count \in Nat
  BY WeightIs
<1>2. CASE Question
  BY <1>1, <1>2 DEF Question, Counted, ReadName, Throw
<1>3. CASE OtherRecord
  BY <1>3 DEF OtherRecord, Counted, ReadName, Readable, Record
<1>4. CASE Header
  BY <1>4 DEF Header, Counted, ReadName, Throw
<1>5. CASE Label \/ Jump \/ NameEnd
  BY <1>5 DEF Label, Jump, NameEnd, Counted
<1>6. CASE BadName \/ BadRecord \/ AddressRecord \/ SoaRecord
  BY <1>6 DEF BadName, BadRecord, AddressRecord, SoaRecord, Throw, Return, Counted
<1>7. CASE UNCHANGED vars
  BY <1>7 DEF vars, Counted
<1> QED
  BY <1>2, <1>3, <1>4, <1>5, <1>6, <1>7 DEF Next

\* Every step comes closer to the end.
LEMMA CloserToTheEnd ==
  ASSUME IInv, IInv', Counted, Next
  PROVE  StepsLeft' \in Nat /\ StepsLeft' < StepsLeft
<1>1. /\ PerName \in Nat /\ InName \in Nat /\ 2 + InName < PerName /\ message.count \in Nat
  BY WeightIs
<1>2. ASSUME stage = "header"
      PROVE  StepsLeft = (message.count + 1) * PerName /\ StepsLeft \in Nat /\ StepsLeft > 0
  <2>1. /\ (message.count + 1) * PerName = message.count * PerName + PerName
        /\ message.count * PerName \in Nat
    BY <1>1, Lighter
  <2> DEFINE x == message.count * PerName
  <2>2. StepsLeft = x + PerName /\ x \in Nat
    BY <1>2, <2>1 DEF StepsLeft
  <2> HIDE DEF x
  <2> QED
    BY <1>1, <1>2, <2>2 DEF StepsLeft
<1>3. ASSUME stage \in {"name", "fields"}
      PROVE  /\ StepsLeft > 0 /\ Others \in Nat /\ Others * PerName \in Nat
             /\ stage = "fields" => StepsLeft = Others * PerName + 1
             /\ stage = "name"   => StepsLeft = Others * PerName + 2 + InName
  <2>1. Others \in Nat /\ Others * PerName \in Nat
    BY <1>3, LeftIs
  <2>2. /\ stage = "fields" => StepsLeft = Others * PerName + 1
        /\ stage = "name"   => StepsLeft = Others * PerName + 2 + InName
    BY DEF StepsLeft
  <2> DEFINE x == Others * PerName
  <2>3. /\ x \in Nat
        /\ stage = "fields" => StepsLeft = x + 1
        /\ stage = "name"   => StepsLeft = x + 2 + InName
    BY <2>1, <2>2
  <2> HIDE DEF x
  <2>4. StepsLeft > 0
    BY <1>1, <1>3, <2>3
  <2> QED
    BY <2>1, <2>2, <2>4
<1>4. stage' \in {"done", "failed"} => StepsLeft' = 0
  BY DEF StepsLeft
<1>5. CASE Label \/ Jump
  BY <1>5, CloserInName
<1>6. CASE Throw \/ \E address, ttl : Return(address, ttl)
  <2>1. stage \in {"header", "name", "fields"}
    BY DEF Next, Header, Label, Jump, NameEnd, BadName, Question, BadRecord, AddressRecord,
           SoaRecord, OtherRecord, Readable, Record
  <2>2. stage' \in {"done", "failed"}
    BY <1>6 DEF Throw, Return
  <2> QED
    BY <1>2, <1>3, <1>4, <2>1, <2>2
<1>7. CASE BadName \/ BadRecord \/ AddressRecord \/ SoaRecord
  BY <1>6, <1>7 DEF BadName, BadRecord, AddressRecord, SoaRecord
<1>8. CASE Header
  <2>1. CASE ReadName(HeaderSize) /\ UNCHANGED <<qtype, left>>
    <3>1. stage = "header" /\ qtype' = Null /\ message' = message
      BY <1>8, <2>1 DEF Header, Counted, ReadName
    <3>2. Others' = message.count
      BY <3>1 DEF Others
    <3>3. StepsLeft = (message.count + 1) * PerName /\ StepsLeft \in Nat
      BY <1>2, <3>1
    <3>4. StepsLeft' \in Nat /\ StepsLeft' < (message.count + 1) * PerName
      BY <1>1, <2>1, <3>2, <3>3, CloserToName
    <3> QED
      BY <3>3, <3>4
  <2> QED
    BY <1>6, <1>8, <2>1 DEF Header
<1>9. CASE NameEnd
  <2>1. /\ stage = "name" /\ stage' = "fields" /\ message' = message /\ qtype' = qtype
        /\ left' = left
    BY <1>9 DEF NameEnd
  <2>2. Others' = Others /\ PerName' = PerName
    BY <2>1, SameWeight DEF Others
  <2>3. StepsLeft' = Others * PerName + 1
    BY <2>1, <2>2 DEF StepsLeft
  <2> DEFINE x == Others * PerName
  <2>4. StepsLeft = x + 2 + InName /\ StepsLeft' = x + 1 /\ x \in Nat
    BY <1>3, <2>1, <2>3
  <2> HIDE DEF x
  <2> QED
    BY <1>1, <2>4
<1>10. CASE Question
  <2>1. stage = "fields" /\ qtype = Null
    BY <1>10 DEF Question
  <2>2. CASE stage' = "done"
    BY <1>3, <1>4, <2>1, <2>2
  <2>3. CASE /\ UInt16(at) \in {A, AAAA} /\ qtype' = UInt16(at) /\ left' = message.count
             /\ message.count # 0 /\ ReadName(at + 4)
    <3> DEFINE n == message.count - 1
    <3>1. n \in Nat /\ n + 1 = message.count
      BY <1>1, <2>3
    <3>2. Others' = n /\ Others = message.count
      BY <2>1, <2>3, DnsAnswerAssumption DEF Others
    <3> HIDE DEF n
    <3> DEFINE x == (n + 1) * PerName
    <3>3. StepsLeft = x + 1 /\ x \in Nat
      BY <1>3, <2>1, <3>1, <3>2
    <3>4. StepsLeft' \in Nat /\ StepsLeft' < x
      <4>1. StepsLeft >= x
        <5> HIDE DEF x
        <5> QED
          BY <3>3
      <4> QED
        BY <2>3, <3>1, <3>2, <4>1, CloserToName
    <3> HIDE DEF x
    <3> QED
      BY <3>3, <3>4
  <2> QED
    BY <1>6, <1>10, <2>2, <2>3 DEF Question
<1>11. CASE OtherRecord
  <2>1. stage = "fields" /\ qtype # Null /\ left' = left - 1
    BY <1>11 DEF OtherRecord, Readable, Record
  <2>2. CASE stage' = "done"
    BY <1>3, <1>4, <2>1, <2>2
  <2>3. CASE left # 1 /\ ReadName(DataAt + DataSize) /\ UNCHANGED qtype
    <3> DEFINE n == left - 2
    <3>1. n \in Nat /\ n + 1 = left - 1 /\ (left - 1) - 1 = n
      BY <2>1, <2>3 DEF Counted
    <3>2. Others' = n /\ Others = n + 1
      BY <2>1, <2>3, <3>1 DEF Others
    <3> HIDE DEF n
    <3> DEFINE x == (n + 1) * PerName
    <3>3. StepsLeft = x + 1 /\ x \in Nat
      BY <1>3, <2>1, <3>1, <3>2
    <3>4. StepsLeft' \in Nat /\ StepsLeft' < x
      <4>1. StepsLeft >= x
        <5> HIDE DEF x
        <5> QED
          BY <3>3
      <4> QED
        BY <2>3, <3>1, <3>2, <4>1, CloserToName
    <3> HIDE DEF x
    <3> QED
      BY <3>3, <3>4
  <2> QED
    BY <1>11, <2>2, <2>3 DEF OtherRecord
<1> QED
  BY <1>5, <1>7, <1>8, <1>9, <1>10, <1>11 DEF Next

\* Whatever the bytes, every step of the decoder brings a natural number down that begins
\* with a bound of the number of records, the size of the message and the pointers a name
\* may follow: pointers in a circle and counts that are too high only use it up (lines 383,
\* 391 and 454 to 486).
THEOREM DecodingRunsOut == Spec => [][StepsLeft' \in Nat /\ StepsLeft' < StepsLeft]_vars
<1>1. Init => IInv /\ Counted
  BY Initially, CountedInitially
<1>2. IInv /\ Counted /\ [Next]_vars => (IInv /\ Counted)'
  BY Inductive, CountedInductive
<1>3. IInv /\ Counted /\ [Next]_vars => [StepsLeft' \in Nat /\ StepsLeft' < StepsLeft]_vars
  BY Inductive, CloserToTheEnd
<1> QED
  BY <1>1, <1>2, <1>3, PTL DEF Spec
=============================================================================
