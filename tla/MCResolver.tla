----------------------------- MODULE MCResolver -----------------------------
(* Constants for model checking Resolver. *)
EXTENDS Resolver, TLC

Option(m, p, q) == [mode |-> m, persistent |-> p, pinned |-> q]

TwoAddresses == {"a1", "a2"}

\* a1 is overridden by a2.
OneOverride == [a \in TwoAddresses |-> "a2"]

AllConfigs == {Option("plain", TRUE, FALSE), Option("unknown", TRUE, FALSE),
               Option("doh", TRUE, TRUE), Option("doh", FALSE, TRUE),
               Option("doh", TRUE, FALSE), Option("dot", TRUE, TRUE)}

Symmetry == Permutations(Calls) \cup Permutations(Conns)
=============================================================================
