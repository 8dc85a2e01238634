------------------------------- MODULE MCLRU -------------------------------
(* Constants for model checking LRU: unbounded, no room at all, and two sizes. *)
EXTENDS LRU, TLC

MCTtls  == {-1, 0}
MCTimes == 0 .. 1
MCMaxes == {-1, 0, 1, 2}

\* No property names a key, a value or an element.
Symmetry == Permutations(Keys) \cup Permutations(Values) \cup Permutations(Nodes)
=============================================================================
