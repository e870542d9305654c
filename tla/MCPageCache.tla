---------------------------- MODULE MCPageCache ----------------------------
(* A small cache: every page can be wanted by two levels and two nodes. *)
EXTENDS PageCache

CONSTANTS h1, h2, h3

Minima == [l \in Levels |-> 1]

\* Hashes and nodes are only compared.
Symmetry == Permutations(Hashes) \cup Permutations(Nodes)
=============================================================================
