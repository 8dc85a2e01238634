---------------------------- MODULE MCOverrides ----------------------------
(* Constants for model checking Overrides: bytes of two bits, three groups. *)
EXTENDS Overrides

Ip(f, n) == [family |-> f, name |-> n]

Entry(cidr, prefix, ip) ==
  [wellFormed |-> TRUE, cidr |-> cidr, prefix |-> prefix, ip |-> ip]

Malformed == [Entry(Text4(<<2, 1>>), 0, Ip(4, "a")) EXCEPT !.wellFormed = FALSE]

Networks4 ==
  {Entry(Text4(c), p, Ip(4, n)) : c \in {<<2, 1>>, <<2, 3>>}, p \in {-1, 0, 1, 3, 4, 5}, n \in {"a", "b"}}

\* 9:6:1, 9::, ::6 and ::
Texts6 == {Text6(<<9, 6, 1>>, FALSE, << >>), Text6(<<9>>, TRUE, << >>),
           Text6(<< >>, TRUE, <<6>>), Text6(<< >>, TRUE, << >>)}

Networks6  == {Entry(t, p, Ip(6, "c")) : t \in Texts6, p \in {0, 3, 9, 12}}
Mismatched == Entry(Text4(<<2, 1>>), 0, Ip(6, "c"))

AllMaps == BoundedSeq(Networks4 \cup {Mismatched, Malformed}, 3)
             \cup BoundedSeq(Networks4 \cup Networks6 \cup {Mismatched, Malformed}, 2)

AllAddresses == {Text4(<<x, y>>) : x \in {0, 2}, y \in 0 .. 3} \cup Texts6
                  \cup {Text6(<<9, 6>>, TRUE, << >>)}

\* ::1.2.1.2, as 64:ff9b::192.0.2.0 in an address of full size.
DottedText == Dotted(Text6(<< >>, TRUE, << >>), <<1, 2, 1, 2>>)

DottedMaps      == {<<Entry(DottedText, p, Ip(6, "c"))>> : p \in 0 .. 12}
DottedAddresses == {Text6(<< >>, TRUE, <<a, b>>) : a \in {0, 1, 6}, b \in {0, 1, 6}}
=============================================================================
