----------------------------- MODULE MCDemergi -----------------------------
(* Constants for model checking Demergi. *)
EXTENDS Demergi

Request(k, o, d) == [kind |-> k, obfuscate |-> o, dialable |-> d]

FetchOrNot == {Request("http", FALSE, TRUE), Request("connect", TRUE, FALSE)}

WholeHead == <<"head">>
NoSecure  == {}

TwoAddresses == {"a1", "a2"}

\* a1 is overridden by a2.
OneOverride == [a \in TwoAddresses |-> "a2"]

Option(m, p, q) == [mode |-> m, persistent |-> p, pinned |-> q]

\* A session of its own is never closed when its request fails, and would use up Links.
SomeConfigs == {Option("plain", TRUE, FALSE), Option("unknown", TRUE, FALSE),
                Option("doh", TRUE, TRUE), Option("dot", TRUE, TRUE)}
=============================================================================
