-------------------------------- MODULE MCLRU --------------------------------
(* Instances of LRU: the addresses of nodes are interchangeable.            *)
EXTENDS LRU, TLC

Symmetry == Permutations(Nodes)
==============================================================================
