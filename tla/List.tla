--------------------------------- MODULE List ---------------------------------
(***************************************************************************)
(* MContainer::List of Data Structure/DataStructure/List.hpp: a doubly     *)
(* linked list with a head node that carries no value.  Every member       *)
(* function is one action on the nodes and pointers.  ref is the container *)
(* of the standard library that verify() in DataStructure.cpp keeps beside *)
(* the list and compares it with.                                          *)
(*                                                                         *)
(* A careful caller avoids four calls that the code does not carry out     *)
(* properly: insert at 0 into a list with elements (m_head->next is not    *)
(* set), removeAt(pos, len) that ends before the last element (the loop    *)
(* that looks for the end does not advance), removeOne of the last element *)
(* (m_tail is not set) and removeOne of all elements that equal at(i), if  *)
(* it goes on behind that element: it compares with a node that was        *)
(* deleted.  append and insert read their argument before they change      *)
(* anything.  A pos + len that is more than a uint holds is not modelled.  *)
(***************************************************************************)
EXTENDS Nodes

CONSTANTS m_maxSize, \* the limit of ContainerBase, scaled down
          Calls,     \* member functions the caller uses
          Careful    \* TRUE: the caller avoids the calls named above

VARIABLES
  mem,    \* the fields of the nodes: [data, next, previous]
  heap,   \* nodes that are allocated
  m_tail, m_size,
  ub,     \* a node that is not allocated was read or written
  ref,    \* the reference container
  alive   \* the destructor has not run

vars == <<mem, heap, m_tail, m_size, ub, ref, alive>>

Init ==
  /\ mem = NoNodes
  /\ heap = {m_head}
  /\ m_tail = Null /\ m_size = 0
  /\ ub = FALSE /\ ref = <<>> /\ alive = TRUE

------------------------------------------------------------------------------
(* Walking and writing.                                                    *)

Chain == ChainOf(mem)
Contents == [i \in DOMAIN Chain |-> mem.data[Chain[i]]]

\* findNode walks from the nearer end; the nodes it visits end with the result.
findPath(pos) ==
  IF pos < m_size \div 2
  THEN Path(mem.next, mem.next[m_head], pos + 1)
  ELSE Path(mem.previous, m_tail, m_size - pos)
findNode(pos) == Last(findPath(pos))

\* The effect of ptr->previous->next = ptr->next and of the write back.
unlink(m, n) ==
  LET p == m.previous[n]
      s == m.next[n]
  IN  [m EXCEPT !.next[p] = s,
                !.previous = IF s = Null THEN @ ELSE [@ EXCEPT ![s] = p]]

Touch(nodes) == ub' = ~(nodes \subseteq heap)
May(call) == alive /\ ~ub /\ call \in Calls
Full == m_size + 1 >= m_maxSize

------------------------------------------------------------------------------
(* The member functions.                                                   *)

append(v) ==
  /\ May("append") /\ ~Full
  /\ \E n \in NodeIds \ heap :
        LET last == IF m_size = 0 THEN m_head ELSE m_tail
        IN  /\ Touch({last})
            /\ mem' = linkBetween(mem, last, n, Null, v)
            /\ heap' = heap \cup {n}
            /\ m_tail' = n
  /\ m_size' = m_size + 1
  /\ ref' = Append(ref, v)
  /\ UNCHANGED alive

\* append and insert give up when the list is full.
refused ==
  /\ May("append") \/ May("insert")
  /\ Full
  /\ UNCHANGED vars

removeAt(pos) ==
  /\ May("removeAt")
  /\ pos < m_size
  /\ LET n == findNode(pos)
     IN  /\ Touch(ToSet(findPath(pos)) \cup {mem.previous[n]})
         /\ m_tail' = IF n # m_tail THEN m_tail
                      ELSE IF mem.previous[n] # m_head THEN mem.previous[n] ELSE Null
         /\ mem' = unlink(mem, n)
         /\ heap' = heap \ {n}
  /\ m_size' = m_size - 1
  /\ ref' = RemoveAt(ref, pos + 1)
  /\ UNCHANGED alive

\* removeAt(pos, len): the loop looks at node->next however large len is.
removeRange(pos, len) ==
  /\ May("removeRange")
  /\ pos < m_size
  /\ Careful => pos + len >= m_size
  /\ LET count == IF pos + len >= m_size THEN m_size - pos ELSE len
         node == findNode(pos)
         tail == IF pos + count = m_size THEN m_tail
                 ELSE IF count = 0 THEN node ELSE mem.next[node]
         before == mem.previous[node]
         freed == Segment(mem, node, tail)
     IN  /\ Touch(ToSet(findPath(pos)) \cup {before, tail} \cup freed)
         /\ m_tail' = IF tail # m_tail THEN m_tail
                      ELSE IF before = m_head THEN Null ELSE before
         /\ mem' = [mem EXCEPT
              !.next[before] = mem.next[tail],
              !.previous = IF mem.next[tail] = Null THEN @ ELSE [@ EXCEPT ![tail] = before]]
         /\ heap' = heap \ freed
         /\ m_size' = m_size - count
         /\ ref' = SubSeq(ref, 1, pos) \o SubSeq(ref, pos + count + 1, Len(ref))
  /\ UNCHANGED alive

\* insert: at 0 the head keeps its old successor unless the list is empty.
insert(pos, v) ==
  /\ May("insert") /\ ~Full
  /\ pos <= m_size
  /\ Careful /\ m_size > 0 => pos > 0
  /\ \E n \in NodeIds \ heap :
        LET first == mem.next[m_head]
            at == IF pos = 0 THEN first ELSE IF pos = m_size THEN Null ELSE findNode(pos)
            before == IF pos = 0 THEN m_head ELSE IF pos = m_size THEN m_tail ELSE mem.previous[at]
            linked == linkBetween(mem, before, n, at, v)
        IN  /\ Touch({before} \cup (IF at = Null THEN {} ELSE {at})
                     \cup (IF pos \in 1..(m_size - 1) THEN ToSet(findPath(pos)) ELSE {}))
            /\ mem' = IF pos = 0 /\ first # Null
                      THEN [linked EXCEPT !.next[m_head] = first] ELSE linked
            /\ heap' = heap \cup {n}
            /\ m_tail' = IF at = Null THEN n ELSE m_tail
  /\ m_size' = m_size + 1
  /\ ref' = InsertAt(ref, pos + 1, v)
  /\ UNCHANGED alive

clear ==
  /\ May("clear")
  /\ Touch(ToSet(Chain))
  /\ heap' = heap \ ToSet(Chain)
  /\ mem' = [mem EXCEPT !.next[m_head] = Null]
  /\ m_tail' = Null /\ m_size' = 0
  /\ ref' = <<>>
  /\ UNCHANGED alive

\* removeOne: the elements equal to v from pos on, or only the first of them.
\* from: the position of the element that v refers to, from 1; 0 if none.
removeOne(v, pos, onlyOne, from) ==
  /\ May("removeOne")
  /\ pos < m_size
  /\ from # 0 => from <= m_size /\ v = Contents[from]
  /\ LET FirstOrAll(hits) == IF onlyOne /\ hits # {} THEN {Min(hits)} ELSE hits
         seen == Path(mem.next, findNode(pos), Cardinality(NodeIds) + 1)
         gone == FirstOrAll({i \in DOMAIN seen : mem.data[seen[i]] = v})
         left[i \in 0..Len(seen)] ==
           IF i = 0 THEN mem ELSE IF i \in gone THEN unlink(left[i - 1], seen[i]) ELSE left[i - 1]
         freed == {seen[i] : i \in gone}
         dangling == from # 0 /\ \E i \in gone : ~onlyOne /\ i < Len(seen) /\ seen[i] = Chain[from]
     IN  /\ Careful => m_tail \notin freed /\ ~dangling
         /\ ub' = (dangling \/ ~(ToSet(findPath(pos)) \cup ToSet(seen) \subseteq heap))
         /\ mem' = left[Len(seen)]
         /\ heap' = heap \ freed
         /\ m_size' = m_size - Cardinality(gone)
         /\ ref' = Without(ref, FirstOrAll({i \in DOMAIN ref : i > pos /\ ref[i] = v}))
  /\ UNCHANGED <<m_tail, alive>>

swap(first, second) ==
  /\ May("swap")
  /\ first < m_size /\ second < m_size
  /\ LET a == findNode(first)
         b == findNode(second)
     IN  /\ Touch(ToSet(findPath(first)) \cup ToSet(findPath(second)))
         /\ mem' = [mem EXCEPT !.data[a] = mem.data[b], !.data[b] = mem.data[a]]
  /\ ref' = [ref EXCEPT ![first + 1] = ref[second + 1], ![second + 1] = ref[first + 1]]
  /\ UNCHANGED <<heap, m_tail, m_size, alive>>

\* The destructor: clear() and delete m_head.
destroy ==
  /\ May("destroy")
  /\ Touch(ToSet(Chain))
  /\ heap' = heap \ (ToSet(Chain) \cup {m_head})
  /\ mem' = [mem EXCEPT !.next[m_head] = Null]
  /\ m_tail' = Null /\ m_size' = 0
  /\ ref' = <<>>
  /\ alive' = FALSE

Positions == 0..(m_maxSize - 1)

\* removeOne does not read v again once it has removed one element, unless it
\* goes on for more of them.
Next ==
  \/ \E v \in Values : append(v)
  \/ refused
  \/ \E pos \in Positions : removeAt(pos)
  \/ \E pos, len \in Positions : removeRange(pos, len)
  \/ \E pos \in Positions, v \in Values : insert(pos, v)
  \/ clear
  \/ \E v \in Values, pos \in Positions : removeOne(v, pos, TRUE, 0)
  \/ \E v \in Values, pos, from \in Positions : removeOne(v, pos, FALSE, from)
  \/ \E first, second \in Positions : swap(first, second)
  \/ destroy

Spec == Init /\ [][Next]_vars

------------------------------------------------------------------------------
\* The comparison at the end of verify(): after any sequence of calls the list
\* has the size and the elements of the reference container.
SameAsReference == alive => m_size = Len(ref) /\ Contents = ref

\* next and previous describe the same chain, m_tail is its last node and m_size
\* its length, so findNode finds the same node from both ends.
WellLinked ==
  alive =>
    /\ m_size = Len(Chain)
    /\ m_tail = IF Chain = <<>> THEN Null ELSE Last(Chain)
    /\ \A i \in DOMAIN Chain :
         /\ mem.previous[Chain[i]] = IF i = 1 THEN m_head ELSE Chain[i - 1]
         /\ findNode(i - 1) = Chain[i]

\* No member function touches a node that was deleted, every node that is
\* allocated can be reached, and the destructor frees all of them.
MemorySafe ==
  /\ ~ub
  /\ heap = IF alive THEN ToSet(Chain) \cup {m_head} ELSE {}

\* m_tail is what its declaration says, a data node of the list, or nullptr.
TailIsDataNode == m_tail = Null \/ m_tail \in ToSet(Chain)
==============================================================================
