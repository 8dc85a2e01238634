------------------------------ MODULE MCProxy ------------------------------
(* Constants for model checking Proxy. *)
EXTENDS Proxy, TLC

Tunnel(o) == [kind |-> "connect", obfuscate |-> o, dialable |-> TRUE]
Fetch(o)  == [kind |-> "http", obfuscate |-> o, dialable |-> TRUE]
BadPort   == [kind |-> "connect", obfuscate |-> TRUE, dialable |-> FALSE]
Malformed == [kind |-> "bad", obfuscate |-> TRUE, dialable |-> TRUE]

WellFormed  == {Tunnel(TRUE), Tunnel(FALSE), Fetch(TRUE), Fetch(FALSE)}
AllRequests == WellFormed \cup {BadPort, Malformed}
Lifecycle   == {Tunnel(TRUE), Fetch(TRUE), BadPort, Malformed}

WholeHead == <<"head">>
SplitHead == <<"line", "headers">>

NoSecure     == {}
SecondSecure == {2}

ConnSymmetry == Permutations(Conns)
=============================================================================
