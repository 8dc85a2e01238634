---------------------------- MODULE MCDnsAnswer ----------------------------
(***************************************************************************)
(* Constants for model checking DnsAnswer.  With bytes of eight values the *)
(* codes of pointers are 6 and 7, and all types fit into two bytes.        *)
(***************************************************************************)
EXTENDS DnsAnswer, FiniteSets

Sizes == (A :> 2) @@ (AAAA :> 4)
Cname == 5

Names == {<< >>, <<<<1>>>>, <<<<1>>, <<2, 3>>>>}

PointerTo(offset) == Two(Pointer * Base + offset)

\* The owner of a record: the name in the question, one below it, one of its own.
Owners == {PointerTo(HeaderSize), <<1, 4>> \o PointerTo(HeaderSize), EncodeName(<<<<5>>>>)}

\* The second record may also repeat the name of the first one.
SecondOwner(question) == PointerTo(HeaderSize + Len(question))

Data(type) == CASE type = A     -> <<1, 2>>
                [] type = AAAA  -> <<3, 0, 5, 7>>
                [] type = Cname -> <<1, 6>> \o PointerTo(HeaderSize)
                [] type = SOA   -> <<7>>

Kinds == {<<A, Internet>>, <<AAAA, Internet>>, <<SOA, Internet>>, <<Cname, Internet>>, <<A, 3>>}

RecordOf(kind, ttl) == [type |-> kind[1], class |-> kind[2], ttl |-> <<ttl>>, data |-> Data(kind[1])]

\* The names that begin at an offset, or behind a label or a pointer of that name.
RECURSIVE NamesFrom(_, _)
NamesFrom(bytes, p) ==
  LET byte == bytes[p + 1]
      next == IF byte < Pointer THEN p + byte + 1
              ELSE (byte - Pointer) * Base + bytes[p + 2]
      rest == NamesFrom(bytes, next)
      here == IF byte < Pointer THEN rest[next]
              ELSE [end |-> p + 2, jumps |-> rest[next].jumps + 1]
  IN  IF byte = 0 THEN p :> [end |-> p + 1, jumps |-> 0] ELSE (p :> here) @@ rest

Message(type, question, owners, records) ==
  LET written == [i \in DOMAIN records |-> owners[i] \o Fields(records[i])]
      bytes == [i \in 1 .. HeaderSize |-> 0] \o question \o FlattenSeq(written)
      Start(i) == HeaderSize + Len(question) + Len(FlattenSeq(SubSeq(written, 1, i - 1)))
      starts == [i \in 1 .. Len(records) + 1 |-> Start(i)]
      names == FoldLeft(LAMBDA found, i : found @@ NamesFrom(bytes, Start(i)),
                        NamesFrom(bytes, HeaderSize), [i \in DOMAIN records |-> i])
  IN  [bytes |-> bytes, accepted |-> TRUE, count |-> Len(records),
       content |-> [qtype |-> type, records |-> records, bytes |-> bytes,
                    names |-> names, starts |-> starts]]

Written(n, types, names) ==
  UNION {LET question == EncodeQuestion(labels, type)
         IN  {Message(type, question, owners, [i \in 1 .. n |-> RecordOf(kinds[i], i + 2)]) :
                owners \in {o \in [1 .. n -> Owners \cup {SecondOwner(question)}] :
                             n > 0 => o[1] \in Owners},
                kinds \in [1 .. n -> Kinds]} :
         type \in types, labels \in names}

Whole == UNION {Written(n, {A, AAAA}, Names) : n \in 0 .. 2}

\* The last bytes are lost; one byte is another one; the bytes are arbitrary.
CutShort ==
  UNION {{[m EXCEPT !.bytes = SubSeq(@, 1, n)] : n \in 0 .. Len(m.bytes) - 1} :
         m \in UNION {Written(n, {A, AAAA}, {<<<<1>>>>}) : n \in 1 .. 2}}

Garbled ==
  UNION {{[m EXCEPT !.bytes[i] = b, !.content = Null] : i \in DOMAIN m.bytes, b \in Byte} :
         m \in Written(1, {A, AAAA}, {<<<<1>>>>})}

Arbitrary ==
  {[bytes |-> <<0, 0>> \o body, accepted |-> ok, count |-> 1, content |-> Null] :
     body \in BoundedSeq(Byte, 3), ok \in BOOLEAN}

AllMessages == Whole \cup CutShort \cup Garbled \cup Arbitrary
=============================================================================
