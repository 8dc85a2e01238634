----------------------------- MODULE DnsAnswer -----------------------------
(***************************************************************************)
(* What a resolver makes of the bytes a DNS server sent (src/src/          *)
(* resolver.js, lines 320 to 486): #decodeAnswer reads the header, the     *)
(* question and one record after the other until one settles the matter;   *)
(* #decodeName follows compression pointers on the way.                    *)
(*                                                                         *)
(* The decoder is a state machine over a message that may be anything.  A  *)
(* byte has Base values, 256 in the code.  The header is kept as what is   *)
(* tested of it; its bytes are there for pointers into it.  Of a name only *)
(* its length is used, so its text is left out.                            *)
(***************************************************************************)
EXTENDS Integers, Sequences, FiniteSetsExt, SequencesExt

CONSTANTS
  Base,         \* values of a byte: 256
  HeaderSize,   \* bytes of a header: 12
  TtlSize,      \* bytes of a time to live: 4
  AddressSize,  \* bytes of an address, by the type of its record: 4 and 16
  MaxJumps,     \* how many pointers a name may go through: 100
  TtlMin,       \* #ttlMin: 30
  Messages,     \* what may come
  Null          \* the address of a name that has none, and other absences

A    == 1
SOA  == 6
AAAA == 28
Internet == 1

Byte    == 0 .. Base - 1
Pointer == Base - Base \div 4   \* 0xc0

\* A number in two bytes.
Two(n) == <<n \div Base, n % Base>>

(***************************************************************************)
(* What a server writes (RFC 1035): "names" are the offsets at which a     *)
(* name begins, or what is left of one, with the offset of what follows it *)
(* in the message and the number of pointers it goes through.              *)
(***************************************************************************)
NamesIn(bytes, names) ==
  /\ names \in [DOMAIN names -> [end : Nat, jumps : 0 .. MaxJumps]]
  /\ \A p \in DOMAIN names :
       /\ p \in Nat /\ p < Len(bytes)
       /\ LET byte == bytes[p + 1]
          IN  \/ byte = 0 /\ names[p] = [end |-> p + 1, jumps |-> 0]
              \/ /\ byte \in 1 .. Pointer - 1
                 /\ p + byte + 1 \in DOMAIN names /\ names[p] = names[p + byte + 1]
              \/ /\ p + 2 <= Len(bytes)
                 /\ \E target \in DOMAIN names :
                      /\ <<byte, bytes[p + 2]>> = Two(Pointer * Base + target)
                      /\ names[p] = [end |-> p + 2, jumps |-> names[target].jumps + 1]

\* A record behind its name.
Fields(r) == Two(r.type) \o Two(r.class) \o r.ttl \o Two(Len(r.data)) \o r.data

RecordType ==
  {r \in [type : Nat, class : Nat, ttl : Seq(Byte), data : Seq(Byte)] :
     /\ Len(r.ttl) = TtlSize
     /\ r.class = Internet /\ r.type \in {A, AAAA} => Len(r.data) = AddressSize[r.type]}

\* One field after the other, from the first name on.
IsWritten(content) ==
  LET bytes   == content.bytes
      records == content.records
      End(p)  == content.names[p].end
      From(p, size) == SubSeq(bytes, p + 1, p + size)
      \* Where the name of a record begins, and what comes behind the last one.
      Start(i) == content.starts[i]
  IN  /\ bytes \in Seq(Byte) /\ NamesIn(bytes, content.names)
      /\ content.qtype \in {A, AAAA}
      /\ records \in Seq(RecordType)
      /\ content.starts \in [1 .. Len(records) + 1 -> 0 .. Len(bytes)]
      /\ HeaderSize \in DOMAIN content.names
      /\ Start(1) = End(HeaderSize) + 4
      /\ From(End(HeaderSize), 4) = Two(content.qtype) \o Two(Internet)
      /\ \A i \in DOMAIN records :
           LET fields == Fields(records[i])
           IN  /\ Start(i) \in DOMAIN content.names
               /\ Start(i + 1) = End(Start(i)) + Len(fields)
               /\ From(End(Start(i)), Len(fields)) = fields

\* "accepted": the identifier, the flags and the number of questions are as they must.
\* "count": of the records in the three sections.  "content" is what a sender meant that
\* wrote the message, and how, Null if none did; what came may have lost the end of it.
\* The code has no access to that.
ASSUME DnsAnswerAssumption ==
  /\ Base \in Nat /\ Base > 5
  /\ HeaderSize \in Nat /\ TtlSize \in Nat /\ MaxJumps \in Nat /\ TtlMin \in Nat
  /\ AddressSize \in [{A, AAAA} -> Nat \ {0}]
  /\ Null \notin {A, AAAA} /\ Null \notin Seq(Byte)
  /\ \A m \in Messages :
       /\ m.bytes \in Seq(Byte) /\ m.accepted \in BOOLEAN /\ m.count \in Nat
       /\ m.content # Null =>
            /\ IsWritten(m.content) /\ m.accepted /\ m.count = Len(m.content.records)
            /\ IsPrefix(m.bytes, m.content.bytes)

VARIABLES
  message,  \* answer
  stage,    \* what is read next
  at,       \* offset: where that begins, or the name in front of it
  name,     \* #decodeName: where it is, the length so far, the pointers gone through
  qtype,    \* the type in the question of the answer
  left,     \* the records that are left
  result    \* what is returned

vars == <<message, stage, at, name, qtype, left, result>>

ReaderTypeOK ==
  /\ stage \in {"header", "name", "fields", "done", "failed"}
  /\ at \in Nat
  /\ name \in [at : Nat, size : Nat, jumps : 0 .. MaxJumps]

Init ==
  /\ message \in Messages
  /\ stage = "header" /\ at = 0 /\ name = [at |-> 0, size |-> 0, jumps |-> 0]
  /\ qtype = Null /\ left = 0 /\ result = Null

-----------------------------------------------------------------------------
\* #encodeName: every label with its size in front of it, but for the empty ones.
EncodeName(labels) ==
  FlattenSeq([i \in DOMAIN labels |->
                IF labels[i] = << >> THEN << >> ELSE <<Len(labels[i]) % Base>> \o labels[i]])
    \o <<0>>

\* #encodeQuestion behind the header; a server repeats it in front of its records.
EncodeQuestion(labels, type) == EncodeName(labels) \o Two(type) \o Two(Internet)

-----------------------------------------------------------------------------
\* Reading past the end throws, except where a slice is read: that is shorter then.
Holds(from, n)  == from + n <= Len(message.bytes)
ByteAt(from)    == message.bytes[from + 1]
Slice(from, n)  == SubSeq(message.bytes, from + 1, from + n)
UInt16(from)    == ByteAt(from) * Base + ByteAt(from + 1)
Value(bytes)    == FoldLeft(LAMBDA acc, b : acc * Base + b, 0, bytes)

Throw ==
  /\ stage' = "failed"
  /\ UNCHANGED <<message, at, name, qtype, left, result>>

Return(address, ttl) ==
  /\ stage' = "done"
  /\ result' = [address |-> address, ttl |-> ttl]
  /\ UNCHANGED <<message, at, name, qtype, left>>

\* On to the name at an offset.
ReadName(from) ==
  /\ stage' = "name"
  /\ at' = from
  /\ name' = [at |-> from, size |-> 0, jumps |-> 0]
  /\ UNCHANGED <<message, result>>

Header ==
  /\ stage = "header"
  /\ IF Holds(0, HeaderSize) /\ message.accepted
     THEN ReadName(HeaderSize) /\ UNCHANGED <<qtype, left>>
     ELSE Throw

(***************************************************************************)
(* #decodeName.  What comes behind a pointer counts for the text of the    *)
(* name, and not for its length.                                           *)
(***************************************************************************)
Grown(n) == IF name.jumps = 0 THEN name.size + n ELSE name.size

Label ==
  /\ stage = "name" /\ Holds(name.at, 1)
  /\ ByteAt(name.at) \in 1 .. Pointer - 1
  /\ LET n == ByteAt(name.at) + 1
     IN  name' = [at |-> name.at + n, size |-> Grown(n), jumps |-> name.jumps]
  /\ UNCHANGED <<message, stage, at, qtype, left, result>>

\* Mutant: the depth of the recursion is not passed on.
JumpUncounted ==
  /\ stage = "name" /\ Holds(name.at, 2)
  /\ ByteAt(name.at) >= Pointer
  /\ name' = [at |-> UInt16(name.at) - Pointer * Base, size |-> Grown(2), jumps |-> 1]
  /\ UNCHANGED <<message, stage, at, qtype, left, result>>

Jump ==
  /\ stage = "name" /\ Holds(name.at, 2)
  /\ ByteAt(name.at) >= Pointer
  /\ name.jumps < MaxJumps
  /\ name' = [at |-> UInt16(name.at) - Pointer * Base, size |-> Grown(2),
              jumps |-> name.jumps + 1]
  /\ UNCHANGED <<message, stage, at, qtype, left, result>>

\* Mutant: the reader goes on where the text of the name ended.
NameEndBehindPointer ==
  /\ stage = "name" /\ Holds(name.at, 1)
  /\ ByteAt(name.at) = 0
  /\ stage' = "fields"
  /\ at' = name.at + 1
  /\ UNCHANGED <<message, name, qtype, left, result>>

NameEnd ==
  /\ stage = "name" /\ Holds(name.at, 1)
  /\ ByteAt(name.at) = 0
  /\ stage' = "fields"
  /\ at' = at + Grown(1)
  /\ UNCHANGED <<message, name, qtype, left, result>>

\* The name runs out of the message, or is a chain of pointers too long.
BadName ==
  /\ stage = "name"
  /\ \/ ~Holds(name.at, 1)
     \/ /\ Holds(name.at, 1) /\ ByteAt(name.at) >= Pointer
        /\ ~Holds(name.at, 2) \/ name.jumps = MaxJumps
  /\ Throw

-----------------------------------------------------------------------------
Question ==
  /\ stage = "fields" /\ qtype = Null
  /\ IF Holds(at, 4) /\ UInt16(at) \in {A, AAAA} /\ UInt16(at + 2) = Internet
     THEN /\ qtype' = UInt16(at)
          /\ left' = message.count
          /\ IF message.count = 0
             THEN /\ stage' = "done" /\ result' = [address |-> Null, ttl |-> TtlMin]
                  /\ UNCHANGED <<message, at, name>>
             ELSE ReadName(at + 4)
     ELSE Throw

\* The fields of the record after its name.
Type     == UInt16(at)
Class    == UInt16(at + 2)
Ttl      == Value(Slice(at + 4, TtlSize))
DataAt   == at + 6 + TtlSize
DataSize == UInt16(DataAt - 2)

\* rdata[i] << 8 is zero for an i that rdata does not have.
Padded(n) == [i \in 1 .. n |-> IF Holds(DataAt, i) THEN ByteAt(DataAt + i - 1) ELSE 0]

IsAddress == Class = Internet /\ Type \in {A, AAAA} /\ Type = qtype
IsSoa     == Class = Internet /\ Type = SOA

\* A record is read to its data at least; an address is checked, and an address of IPv4
\* must be all there: undefined has no toString.
Record   == stage = "fields" /\ qtype # Null
Readable == Record /\ Holds(at, 6 + TtlSize)
Wrong    == IsAddress /\ \/ DataSize # AddressSize[Type]
                         \/ Type = A /\ ~Holds(DataAt, DataSize)

BadRecord ==
  /\ Record
  /\ Readable => Wrong
  /\ Throw

\* Mutant: an address of IPv4 that is cut short is completed like one of IPv6.
AddressRecordPadded ==
  /\ Readable /\ IsAddress /\ DataSize = AddressSize[Type]
  /\ Return(Padded(DataSize), Ttl)

AddressRecord ==
  /\ Readable /\ IsAddress /\ ~Wrong
  /\ Return(Padded(DataSize), Ttl)

SoaRecord ==
  /\ Readable /\ IsSoa
  /\ Return(Null, Ttl)

\* Mutant: the data of a record that is of no use is not skipped.
OtherRecordNoSkip ==
  /\ Readable /\ ~IsAddress /\ ~IsSoa
  /\ left' = left - 1
  /\ IF left = 1
     THEN /\ stage' = "done" /\ result' = [address |-> Null, ttl |-> TtlMin]
          /\ UNCHANGED <<message, at, name, qtype>>
     ELSE ReadName(DataAt) /\ UNCHANGED qtype

OtherRecord ==
  /\ Readable /\ ~IsAddress /\ ~IsSoa
  /\ left' = left - 1
  /\ IF left = 1
     THEN /\ stage' = "done" /\ result' = [address |-> Null, ttl |-> TtlMin]
          /\ UNCHANGED <<message, at, name, qtype>>
     ELSE ReadName(DataAt + DataSize) /\ UNCHANGED qtype

Next ==
  \/ Header \/ Label \/ Jump \/ NameEnd \/ BadName
  \/ Question \/ BadRecord \/ AddressRecord \/ SoaRecord \/ OtherRecord

\* The decoder is one call: it does not stop on the way.
Spec == Init /\ [][Next]_vars /\ WF_vars(Next)

-----------------------------------------------------------------------------
(***************************************************************************)
(* Properties.                                                             *)
(***************************************************************************)
\* What records mean to someone who asked for a type: the first of them that is an
\* address of that type or says that there is none.
Meant(content) ==
  LET records == content.records
      telling == {i \in DOMAIN records : records[i].class = Internet
                                          /\ records[i].type \in {content.qtype, SOA}}
  IN  IF telling = {} THEN [address |-> Null, ttl |-> TtlMin]
      ELSE LET r == records[Min(telling)]
           IN  [address |-> IF r.type = SOA THEN Null ELSE r.data, ttl |-> Value(r.ttl)]

\* A message that lost its end.
Cut == message.bytes # message.content.bytes

\* A message that follows the rules is understood as it is meant, wherever its names
\* are compressed and whatever other records stand in front of the one that counts.
WellFormedDecoded ==
  message.content # Null /\ ~Cut =>
    /\ stage # "failed"
    /\ stage = "done" => result = Meant(message.content)

\* A message that lost its end is refused, or what is left of it tells the same as the
\* whole did.  The exception is an address of IPv6, whose lost bytes are read as zeros
\* (line 426).
CutShortNotMisread ==
  message.content # Null /\ Cut /\ stage = "done" =>
    LET meant == Meant(message.content)
    IN  /\ result.ttl = meant.ttl
        /\ \/ result.address = meant.address
           \/ /\ qtype = AAAA /\ meant.address # Null
              /\ \A i \in 1 .. AddressSize[AAAA] : result.address[i] \in {meant.address[i], 0}

\* Pointers lead a name about in the message, never the reader: each name ends behind
\* the place where it began.
ReaderAdvances == [][stage' = "fields" => at' > at]_vars

\* Whatever the bytes, the decoder ends: names that point to themselves or to each
\* other, records that are missing or longer than the message.
Ends == <>(stage \in {"done", "failed"})
=============================================================================
