----------------------------- MODULE Overrides -----------------------------
(***************************************************************************)
(* dnsIpOverrides (src/src/resolver.js, lines 495 to 625): the constructor *)
(* compiles a map from CIDRs to addresses into rules, and every address    *)
(* that is resolved is looked up in them.                                  *)
(*                                                                         *)
(* The text of an address is kept as far as the parser sees it: the groups *)
(* on either side of "::", and whether the last two are written dotted, as *)
(* in 64:ff9b::192.0.2.0.                                                  *)
(***************************************************************************)
EXTENDS Integers, Sequences, FiniteSets, SequencesExt

CONSTANTS
  Bits,       \* of a byte: 8
  Bytes4,     \* of an IPv4 address: 4
  Groups,     \* of an IPv6 address, of two bytes each: 8
  Maps,       \* what the option may be: sequences of entries
  Addresses,  \* texts that may be looked up
  None        \* null

VARIABLES
  map,     \* the option, its entries in their order
  rules,   \* this.dnsIpOverrides, by family
  asked,   \* the address last looked up, if any
  answer   \* what #findIpOverride returned

vars == <<map, rules, asked, answer>>

Families == {4, 6}

Size(f)      == IF f = 4 THEN Bytes4 ELSE 2 * Groups
MaxPrefix(f) == Size(f) * Bits

\* The powers of two, as far as a byte has bits, and the values of bytes and groups.
Pow2[n \in 0 .. Bits] == IF n = 0 THEN 1 ELSE 2 * Pow2[n - 1]
Values == Pow2[Bits]
Byte   == 0 .. Values - 1
Group  == 0 .. Values * Values - 1

\* An address in text: a sequence of bytes, or groups before and after the gap.  The
\* dotted address stands for the last two groups of its side, as dotted bytes.
Text4(bytes)            == [family |-> 4, bytes |-> bytes]
Text6(head, gap, tail)  == [family |-> 6, head |-> head, gap |-> gap, tail |-> tail,
                            dotted |-> << >>]
Dotted(text, bytes)     == [text EXCEPT !.dotted = bytes]

\* What net.isIP accepts.
IsText(t) ==
  \/ t.family = 4 /\ t.bytes \in [1 .. Bytes4 -> Byte]
  \/ /\ t.family = 6 /\ t.gap \in BOOLEAN
     /\ t.head \in Seq(Group) /\ t.tail \in Seq(Group) /\ t.dotted \in Seq(Byte)
     /\ LET size == 2 * (Len(t.head) + Len(t.tail)) + Len(t.dotted)
        IN  IF t.gap THEN size <= Size(6) ELSE size = Size(6) /\ t.tail = << >>

\* The entries of the option are in order; one that is well formed has an address in it.
ASSUME OverridesAssumption ==
  /\ Bits \in Nat \ {0} /\ Bytes4 \in Nat \ {0} /\ Groups \in Nat \ {0}
  /\ \A t \in Addresses : IsText(t)
  /\ \A m \in Maps :
       /\ Len(m) \in Nat /\ DOMAIN m = 1 .. Len(m)
       /\ \A i \in DOMAIN m :
            m[i].wellFormed => m[i].prefix \in Int /\ IsText(m[i].cidr)

-----------------------------------------------------------------------------
(***************************************************************************)
(* Parsing: #ipToBytes.                                                    *)
(***************************************************************************)
Zeros(n)    == [i \in 1 .. n |-> 0]
BytesOf(gs) == [j \in 1 .. 2 * Len(gs) |->
                  LET group == gs[(j + 1) \div 2]
                  IN  IF j % 2 = 1 THEN group \div Values ELSE group % Values]

\* Number.parseInt(text, 16) of a dotted address reads the digits before the first dot.
ReadAsHex(byte) == (byte \div 100) * 256 + ((byte \div 10) % 10) * 16 + (byte % 10)

Pieces(text) == IF text.dotted = << >> THEN << >> ELSE <<ReadAsHex(text.dotted[1])>>

\* A text without "::" has no tail; the dotted address ends the text.
GroupsOf(text) ==
  IF text.gap
  THEN LET tail == text.tail \o Pieces(text)
       IN  text.head \o Zeros(Groups - (Len(text.head) + Len(tail))) \o tail
  ELSE text.head \o Pieces(text)

\* Whether #ipToBytes returns; it throws when the groups are not eight.
Parses(text)    == text.family = 4 \/ Len(GroupsOf(text)) = Groups
IpToBytes(text) == IF text.family = 4 THEN text.bytes ELSE BytesOf(GroupsOf(text))

-----------------------------------------------------------------------------
(***************************************************************************)
(* Compiling: #compileIpOverrides.  "wellFormed" stands for the tests on   *)
(* types and syntax, up to a prefix that is a number.                      *)
(***************************************************************************)
Accepted(e) ==
  /\ e.wellFormed
  /\ e.cidr.family = e.ip.family
  /\ e.prefix \in 0 .. MaxPrefix(e.ip.family)
  /\ Parses(e.cidr)

RuleOf(e) == [bytes |-> IpToBytes(e.cidr), prefix |-> e.prefix, ip |-> e.ip]

\* Longest prefix first; the sort is stable.
Before(m, i, j) == m[i].prefix > m[j].prefix \/ (m[i].prefix = m[j].prefix /\ i < j)

Compile(m, f) ==
  LET accepted == {i \in DOMAIN m : m[i].ip.family = f /\ Accepted(m[i])}
      Nth(n)   == CHOOSE i \in accepted :
                    Cardinality({j \in accepted : Before(m, j, i)}) = n - 1
  IN  [n \in 1 .. Cardinality(accepted) |-> RuleOf(m[Nth(n)])]

-----------------------------------------------------------------------------
(***************************************************************************)
(* Looking up: #ipMatchesCidr, #findIpOverride.                            *)
(***************************************************************************)
\* Mutant: the bits after the last full byte are not compared.
MatchesFullBytes(bytes, rule) ==
  \A i \in 1 .. rule.prefix \div Bits : bytes[i] = rule.bytes[i]

\* The mask of the last byte clears its low bits.
Matches(bytes, rule) ==
  LET full  == rule.prefix \div Bits
      extra == rule.prefix % Bits
      Masked(byte) == byte - (byte % Pow2[Bits - extra])
  IN  /\ \A i \in 1 .. full : bytes[i] = rule.bytes[i]
      /\ extra = 0 \/ Masked(bytes[full + 1]) = Masked(rule.bytes[full + 1])

FindIpOverride(text) ==
  LET rs    == rules[text.family]
      first == SelectInSeq(rs, LAMBDA r : Matches(IpToBytes(text), r))
  IN  IF ~Parses(text) \/ first = 0 THEN None ELSE rs[first].ip.name

Init ==
  /\ map \in Maps
  /\ rules = [f \in Families |-> Compile(map, f)]
  /\ asked = None
  /\ answer = None

LookUp ==
  /\ asked' \in Addresses
  /\ answer' = FindIpOverride(asked')
  /\ UNCHANGED <<map, rules>>

Next == LookUp

Spec == Init /\ [][Next]_vars

-----------------------------------------------------------------------------
(***************************************************************************)
(* Properties.                                                             *)
(***************************************************************************)
\* What an address means, by the notation of IPv6 and not by the parser.
Meaning(text) ==
  IF text.family = 4 THEN text.bytes
  ELSE LET missing == Size(6) - 2 * (Len(text.head) + Len(text.tail)) - Len(text.dotted)
       IN  BytesOf(text.head) \o Zeros(missing) \o BytesOf(text.tail) \o text.dotted

BitOf(bytes, n) == (bytes[n \div Bits + 1] \div Pow2[Bits - 1 - (n % Bits)]) % 2

\* The address is in the network of an entry: it has the same first bits.
InNetwork(text, e) ==
  /\ e.wellFormed /\ e.cidr.family = e.ip.family /\ e.ip.family = text.family
  /\ e.prefix \in 0 .. MaxPrefix(text.family)
  /\ \A n \in 0 .. e.prefix - 1 : BitOf(Meaning(text), n) = BitOf(Meaning(e.cidr), n)

\* An address is overridden by the smallest network it is in, the first of them in the
\* option if there are several, and by nothing if it is in none (lines 549-553, 598-625).
SmallestNetworkOverrides ==
  LET networks == {i \in DOMAIN map : InNetwork(asked, map[i])}
      best     == {i \in networks : \A j \in networks :
                     \/ map[i].prefix > map[j].prefix
                     \/ map[i].prefix = map[j].prefix /\ i <= j}
  IN  asked # None =>
        IF networks = {} THEN answer = None
        ELSE \E i \in best : answer = map[i].ip.name
=============================================================================
