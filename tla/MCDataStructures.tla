--------------------------- MODULE MCDataStructures ---------------------------
(* The instance of DataStructures that TLC checks. *)
EXTENDS DataStructures, TLC

\* Which node operator new returns makes no difference, except that the queue has
\* one less.  No node occurs in the SpinLock test, the one with a liveness property.
Symmetry == Permutations(NodeIds \ {CHOOSE n \in NodeIds : TRUE})
=============================================================================
