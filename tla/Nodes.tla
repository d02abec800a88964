-------------------------------- MODULE Nodes --------------------------------
(***************************************************************************)
(* The doubly linked nodes List.hpp and Queue.hpp are made of: a head node *)
(* without a value, nodes that operator new returns and delete takes back, *)
(* and walks along their pointers.  A memory is a record of the functions  *)
(* data, next and previous.                                                *)
(***************************************************************************)
EXTENDS SequenceHelpers, FiniteSets

CONSTANTS NodeIds,   \* addresses operator new may return
          m_head,    \* address of the head node
          Null,      \* nullptr
          Values     \* element values

\* A head node without successor; the other nodes are not allocated.
NoNodes ==
  [data     |-> [n \in NodeIds |-> CHOOSE v \in Values : TRUE],
   next     |-> [n \in NodeIds \cup {m_head} |-> Null],
   previous |-> [n \in NodeIds \cup {m_head} |-> Null]]

\* The nodes met from p along a pointer field f, at most n of them.
Path(f, p, n) ==
  LET walk[k \in 1..n] ==
        IF k = 1 THEN IF p = Null THEN <<>> ELSE <<p>>
        ELSE LET w == walk[k - 1]
             IN  IF w = <<>> \/ f[Last(w)] = Null THEN w ELSE Append(w, f[Last(w)])
  IN  walk[n]

\* All nodes behind the head, and one more than there are when next is cyclic.
ChainOf(mem) == Path(mem.next, mem.next[m_head], Cardinality(NodeIds) + 1)

\* The nodes from p to q along next.
Segment(mem, p, q) ==
  LET w == Path(mem.next, p, Cardinality(NodeIds))
  IN  ToSet(SubSeq(w, 1, SelectInSeq(w, LAMBDA n : n = q)))

\* Node n, with value v, follows node p and precedes node s, which may be Null.
linkBetween(mem, p, n, s, v) ==
  [data     |-> [mem.data EXCEPT ![n] = v],
   next     |-> [mem.next EXCEPT ![p] = n, ![n] = s],
   previous |-> [k \in DOMAIN mem.previous |->
                    IF k = n THEN p ELSE IF k = s THEN n ELSE mem.previous[k]]]
==============================================================================
