------------------------------ MODULE StaticList ------------------------------
(* MContainer::StaticList of Data Structure/DataStructure/List.hpp: a doubly    *)
(* linked list in one array.  m_head is index 0: its next is the first element, *)
(* its previous the last one.  An index whose previous is m_npos is free.       *)
(* removeOne, swap and the return of the assignments do not compile or are      *)
(* missing.  ref is what a container of the standard library would hold.        *)
(* careless becomes TRUE with the first call the code does not carry out:       *)
(*   - removeAt(0) of several elements, insert before the last element;         *)
(*   - removeAt(pos, len), unless it removes one element or all of them;        *)
(*   - an append without a free index: removeAt in the middle never gives its   *)
(*     index back, and the array grows only when all indices hold elements;     *)
(*   - a copy of a list that is not empty, which leaves its last node behind.   *)
(* append and insert store their element before the array is replaced, so that  *)
(* it may be one of the list's own.                                             *)
EXTENDS SequenceHelpers, FiniteSets

CONSTANTS Values, Junk, m_stepUint, m_maxSize

VARIABLES
  nodes,      \* m_head: the array, from 0
  m_size, m_capacity,
  kept,       \* indices taken since the array was made and not given back
  ref, careless, ub

staticVars == <<nodes, m_size, m_capacity, kept, ref, careless, ub>>
m_npos == -1

NoNode == [data |-> Junk, next |-> m_npos, previous |-> m_npos]
NewArray(n) == [i \in 0 .. n - 1 |-> NoNode]

StaticInit ==
  /\ nodes = NewArray(m_stepUint)
  /\ m_size = 0 /\ m_capacity = m_stepUint
  /\ kept = 0 /\ ref = <<>> /\ careless = FALSE /\ ub = FALSE

Callable == ~careless /\ ~ub

\* n steps along next, or previous, from index i; m_npos once that leaves the array.
Walk(field, i, n) ==
  LET step[k \in 0 .. n] ==
        IF k = 0 THEN i
        ELSE IF step[k - 1] \notin DOMAIN nodes THEN m_npos ELSE nodes[step[k - 1]][field]
  IN  step[n]

findNodeIndex(pos) ==
  IF pos > m_size \div 2
  THEN Walk("previous", nodes[0].previous, m_size - 1 - pos)
  ELSE Walk("next", nodes[0].next, pos)

at(pos) == nodes[findNodeIndex(pos)].data

getFreeIndex ==
  LET free == {i \in 1 .. m_capacity - 1 : nodes[i].previous = m_npos}
  IN  IF free = {} THEN m_npos ELSE CHOOSE i \in free : \A j \in free : i <= j

\* creatMemory copies as many nodes as there are elements: not the last index.
creatMemory(n, size, capacity) ==
  [i \in 0 .. capacity - 1 |-> IF i < size THEN n[i] ELSE NoNode]

\* append and insert end with this: make room when every index is taken.
SizeGrown(n) ==
  LET size == m_size + 1
      more == IF m_capacity + m_stepUint >= m_maxSize THEN m_maxSize ELSE m_capacity + m_stepUint
  IN  /\ m_size' = size
      /\ IF size >= m_capacity
         THEN m_capacity' = more /\ nodes' = creatMemory(n, size, more)
         ELSE UNCHANGED m_capacity /\ nodes' = n

append(t) ==
  /\ Callable /\ m_capacity <= m_maxSize
  /\ LET tail == nodes[0].previous
         i == IF m_size = 0 THEN 1 ELSE getFreeIndex
         linked == IF m_size = 0
                   THEN [nodes EXCEPT ![1] = [data |-> t, next |-> 2, previous |-> 1],
                                      ![0].next = 1, ![0].previous = 1]
                   ELSE [nodes EXCEPT ![i].data = t, ![i].previous = tail,
                                      ![tail].next = i, ![0].previous = i]
     IN  /\ ub' = (i = m_npos)
         /\ IF ub' THEN UNCHANGED <<nodes, m_size, m_capacity>> ELSE SizeGrown(linked)
  /\ careless' = (m_size > 0 /\ kept + 1 > m_stepUint - 1)
  /\ kept' = kept + 1
  /\ ref' = Append(ref, t)

\* removeAt(pos): the last index is given back, another one is not.
removeAt(pos) ==
  /\ Callable /\ pos < m_size
  /\ IF pos = m_size - 1
     THEN LET tail == nodes[0].previous
              before == nodes[tail].previous
          IN  /\ nodes' = [nodes EXCEPT ![before].next = m_npos,
                             ![0].previous = IF before = 0 THEN m_npos ELSE before,
                             ![tail].previous = m_npos]
              /\ kept' = kept - 1
     ELSE LET i == findNodeIndex(pos) IN
          /\ nodes' = [nodes EXCEPT ![nodes[i].previous].next = nodes[i].next,
                                    ![nodes[i].next].previous = nodes[i].previous]
          /\ UNCHANGED kept
  /\ m_size' = m_size - 1
  /\ ref' = RemoveAt(ref, pos + 1)
  /\ careless' = (pos = 0 /\ m_size > 1)
  /\ UNCHANGED <<m_capacity, ub>>

clear ==
  /\ Callable
  /\ nodes' = NewArray(m_stepUint)
  /\ m_size' = 0 /\ m_capacity' = m_stepUint
  /\ kept' = 0 /\ ref' = <<>>
  /\ UNCHANGED <<careless, ub>>

\* removeAt(pos, len) clears the whole list when it reaches the end, and
\* otherwise takes one node more out of the chain than it counts.
removeRange(pos, len) ==
  /\ Callable /\ pos < m_size /\ len # 1
  /\ IF pos + len >= m_size
     THEN /\ nodes' = NewArray(m_stepUint)
          /\ m_size' = 0 /\ m_capacity' = m_stepUint /\ kept' = 0
          /\ careless' = (pos > 0) /\ UNCHANGED ub
     ELSE LET i == findNodeIndex(pos)
              end == Walk("next", i, len)
              before == nodes[i].previous
              behind == nodes[end].next
              gone == {Walk("next", i, k) : k \in 0 .. len - 1}
          IN  /\ m_size' = m_size - len
              /\ careless' = TRUE
              /\ ub' = (behind # m_npos /\ behind \notin DOMAIN nodes)
              /\ nodes' = [k \in DOMAIN nodes |->
                    IF k \in gone THEN [nodes[k] EXCEPT !.next = m_npos, !.previous = m_npos]
                    ELSE IF k = before THEN [nodes[k] EXCEPT !.next = behind]
                    ELSE IF k = (IF behind = m_npos THEN 0 ELSE behind)
                    THEN [nodes[k] EXCEPT !.previous = before] ELSE nodes[k]]
              /\ UNCHANGED <<m_capacity, kept>>
  /\ ref' = SubSeq(ref, 1, pos) \o SubSeq(ref, pos + len + 1, Len(ref))

\* insert at the end is append; before it, the node at pos is made its own
\* predecessor.
insert(pos, t) ==
  /\ Callable /\ pos < m_size
  /\ LET i == findNodeIndex(pos)
         before == nodes[i].previous
         new == getFreeIndex
     IN  /\ ub' = (new = m_npos)
         /\ IF ub' THEN UNCHANGED <<nodes, m_size, m_capacity>>
            ELSE SizeGrown([nodes EXCEPT ![new] = [data |-> t, next |-> i, previous |-> before],
                                         ![before].next = new, ![i].previous = i])
  /\ careless' = TRUE
  /\ kept' = kept + 1
  /\ ref' = InsertAt(ref, pos + 1, t)

\* The copy constructor; the list is the copy from now on.
copy ==
  /\ Callable
  /\ nodes' = creatMemory(nodes, m_size, m_capacity)
  /\ careless' = (m_size > 0)
  /\ UNCHANGED <<m_size, m_capacity, kept, ref, ub>>

StaticNext ==
  \/ \E t \in Values : append(t)
  \/ \E pos \in 0 .. m_stepUint : removeAt(pos)
  \/ \E pos, len \in 0 .. m_stepUint : removeRange(pos, len)
  \/ \E pos \in 0 .. m_stepUint, t \in Values : insert(pos, t)
  \/ clear \/ copy

---------------------------------------------------------------------------
StaticAsReference ==
  ~careless =>
    /\ ~ub
    /\ m_size = Len(ref)
    /\ \A pos \in 0 .. m_size - 1 : at(pos) = ref[pos + 1]
=============================================================================
