--------------------------------- MODULE LRU ---------------------------------
(***************************************************************************)
(* Project/Cache/LRU.hpp at the level of its pointers: a circular doubly   *)
(* linked list with a sentry node, most recently used entry first, and a   *)
(* hash map from keys to nodes.  Every action is one call of LRUCache, the *)
(* whole of it, and the heap is the set of nodes that new has returned and *)
(* delete has not taken back.                                              *)
(*                                                                         *)
(* The pointer operations are operators on a pair of links                 *)
(* [pre |-> ..., next |-> ...] and follow the code's order of assignments. *)
(***************************************************************************)
EXTENDS Integers, Sequences, FiniteSets, Functions

CONSTANTS Keys, Values,
          Nodes,        \* the addresses new may return
          Sentry,       \* the address of the sentry node
          MaxCapacity,  \* bound: the largest capacity of a cache
          NoValue,      \* get found nothing
          Null,         \* nullptr
          PutPresent    \* TRUE: callers may put a key that is in the cache.
                        \* main.cpp puts a key only after get missed it.

ASSUME NodesAssumption ==
  /\ MaxCapacity \in Nat
  /\ IsFiniteSet(Nodes) /\ Cardinality(Nodes) > MaxCapacity
  /\ Sentry \notin Nodes
  /\ Null \notin Nodes \cup {Sentry}

Addr == Nodes \cup {Sentry}

VARIABLES
  m_capacity,  \* LRUCache::m_capacity
  m_nodeMap,   \* LRUContainers::m_nodeMap, a partial function on Keys
  m_size,      \* LRUContainers::m_size
  links,       \* links.pre[n], links.next[n]: preNode_ and nextNode_
  content,     \* content[n]: <<key_, value_>>
  heap,        \* allocated nodes, the sentry excepted
  result,      \* the value get stored, NoValue after a miss
  state        \* "alive", "destroyed", or "ub": a null or freed node was used

vars == <<m_capacity, m_nodeMap, m_size, links, content, heap, result, state>>

------------------------------------------------------------------------------
(* LRUContainers                                                           *)

insertToHead(l, n) ==
  LET n1 == [l EXCEPT !.next[n] = l.next[Sentry], !.pre[n] = Sentry]
      n2 == [n1 EXCEPT !.next[Sentry] = n]
  IN  [n2 EXCEPT !.pre[n2.next[n]] = n]

\* Mutant: the successor keeps its back pointer.
unlinkOneSided(l, n) == [l EXCEPT !.next[l.pre[n]] = l.next[n]]

\* The node is taken out of its place and inserted at the head.
unlink(l, n) ==
  LET u == [l EXCEPT !.next[l.pre[n]] = l.next[n]]
  IN  [u EXCEPT !.pre[u.next[n]] = u.pre[n]]

\* Mutant: a used node stays where it is (first in, first out).
keepPlace(l, n) == l

moveNodeToHead(l, n) ==
  IF l.pre[n] = Sentry THEN l ELSE insertToHead(unlink(l, n), n)

\* The last node and the links without it.
lastNode(l) == l.pre[Sentry]
dropLast(l) ==
  LET d == [l EXCEPT !.next[l.pre[lastNode(l)]] = Sentry]
  IN  [d EXCEPT !.pre[Sentry] = l.pre[lastNode(l)]]

\* Freed memory holds nothing that may be read.
free(l, n) == [l EXCEPT !.pre[n] = Null, !.next[n] = Null]

\* after[i]: the node reached from the sentry by following i next pointers.
Steps == Cardinality(Nodes) + 1
after[i \in 0..Steps] ==
  IF i = 0 THEN Sentry ELSE links.next[after[i - 1]]
\* The nodes that the loop of clear() visits, in order.
Visited ==
  LET n == CHOOSE i \in 1..Steps :
              after[i] = Sentry /\ \A j \in 1..(i - 1) : after[j] # Sentry
  IN  [i \in 1..(n - 1) |-> after[i]]

\* The state in which both caches' put and get start.
Callable == state = "alive"

Init ==
  /\ m_capacity \in 0..MaxCapacity
  /\ m_nodeMap = [k \in {} |-> Null]
  /\ m_size = 0
  /\ links = [pre |-> [a \in Addr |-> IF a = Sentry THEN Sentry ELSE Null],
              next |-> [a \in Addr |-> IF a = Sentry THEN Sentry ELSE Null]]
  /\ content = [n \in Nodes |-> <<NoValue, NoValue>>]
  /\ heap = {}
  /\ result = NoValue
  /\ state = "alive"

\* map[key] = n, for a partial function.
Assign(map, key, n) ==
  [k \in DOMAIN map \cup {key} |-> IF k = key THEN n ELSE map[k]]

\* Mutant: removeLast() does not erase the key from the map.
putNoErase(k, v) ==
  \E n \in Nodes \ heap :
    LET l == insertToHead(links, n)
        c == [content EXCEPT ![n] = <<k, v>>]
        last == lastNode(l)
        full == m_size + 1 > m_capacity
    IN  /\ links' = IF full THEN free(dropLast(l), last) ELSE l
        /\ content' = IF full THEN [c EXCEPT ![last] = <<NoValue, NoValue>>] ELSE c
        /\ m_nodeMap' = Assign(m_nodeMap, k, n)
        /\ m_size' = IF full THEN m_size ELSE m_size + 1
        /\ heap' = IF full THEN (heap \cup {n}) \ {last} ELSE heap \cup {n}
        /\ UNCHANGED <<m_capacity, result, state>>

\* LRUContainers::put of a key that the map does not have, then the check of
\* LRUCache::put: removeLast() when the size exceeds the capacity.
putNew(k, v) ==
  \E n \in Nodes \ heap :
    LET l == insertToHead(links, n)
        map == Assign(m_nodeMap, k, n)
        c == [content EXCEPT ![n] = <<k, v>>]
        last == lastNode(l)
    IN  /\ IF m_size + 1 > m_capacity
           THEN /\ links' = free(dropLast(l), last)
                /\ content' = [c EXCEPT ![last] = <<NoValue, NoValue>>]
                /\ m_nodeMap' = Restrict(map, DOMAIN map \ {c[last][1]})
                /\ m_size' = m_size
                /\ heap' = (heap \cup {n}) \ {last}
           ELSE /\ links' = l
                /\ content' = c
                /\ m_nodeMap' = map
                /\ m_size' = m_size + 1
                /\ heap' = heap \cup {n}
        /\ UNCHANGED <<m_capacity, result, state>>

\* The program is in undefined behaviour.
Undefined ==
  /\ state' = "ub"
  /\ UNCHANGED <<m_capacity, m_nodeMap, m_size, links, content, heap, result>>

\* put of a key that the map has: the node moves to the head, and the outer
\* variable node, which is still nullptr, is stored in the map; a second put
\* of the key dereferences it.
putPresent(k) ==
  IF m_nodeMap[k] = Null THEN Undefined ELSE
    /\ links' = moveNodeToHead(links, m_nodeMap[k])
    /\ m_nodeMap' = Assign(m_nodeMap, k, Null)
    /\ UNCHANGED <<m_capacity, m_size, content, heap, result, state>>

------------------------------------------------------------------------------
(* LRUCache                                                                *)

Put(k, v) ==
  /\ Callable
  /\ k \in DOMAIN m_nodeMap => PutPresent
  /\ IF k \in DOMAIN m_nodeMap THEN putPresent(k) ELSE putNew(k, v)

\* put(Key&&, Value&&): the key is used after std::move, which leaves the int
\* keys of main.cpp's LRUCache<int, std::string> as they were.
PutMove(k, v) == Put(k, v)

GetMiss(k) ==
  /\ Callable
  /\ k \notin DOMAIN m_nodeMap
  /\ result' = NoValue
  /\ UNCHANGED <<m_capacity, m_nodeMap, m_size, links, content, heap, state>>

\* A null pointer that putPresent left in the map is dereferenced.
GetHit(k) ==
  /\ Callable
  /\ k \in DOMAIN m_nodeMap
  /\ IF m_nodeMap[k] = Null THEN Undefined ELSE
       /\ result' = content[m_nodeMap[k]][2]
       /\ links' = moveNodeToHead(links, m_nodeMap[k])
       /\ UNCHANGED <<m_capacity, m_nodeMap, m_size, content, heap, state>>

\* The destructor: clear() goes around the ring and deletes what it has passed.
Destroy ==
  /\ Callable
  /\ LET deleted == [i \in DOMAIN Visited |-> links.pre[links.next[Visited[i]]]]
     IN  /\ heap' = heap \ Range(deleted)
         /\ state' = IF IsInjective(deleted) /\ Range(deleted) \subseteq heap
                     THEN "destroyed" ELSE "ub"
  /\ m_size' = 0
  /\ m_nodeMap' = [k \in {} |-> Null]
  /\ UNCHANGED <<m_capacity, links, content, result>>

\* The cache is gone, or the program is in undefined behaviour.
Stopped == ~Callable /\ UNCHANGED vars

Next ==
  \/ \E k \in Keys, v \in Values : Put(k, v) \/ PutMove(k, v)
  \/ \E k \in Keys : GetMiss(k) \/ GetHit(k)
  \/ Destroy
  \/ Stopped

Spec == Init /\ [][Next]_vars

------------------------------------------------------------------------------
\* "Circular doubly linked list + hashMap": the map has exactly the keys of the
\* list and leads to the node that holds the key.
MapIndexesList ==
  Callable =>
    /\ \A k \in DOMAIN m_nodeMap :
          m_nodeMap[k] \in heap /\ content[m_nodeMap[k]][1] = k
    /\ DOMAIN m_nodeMap = {content[n][1] : n \in heap}

\* Callers that put a key only after a miss never make the cache touch a null
\* or freed node, and its destruction frees every node exactly once.  Between
\* calls the allocated nodes form one ring through the sentry in which the two
\* pointers of neighbours agree: no splice of put, get or removeLast loses a
\* node, keeps a freed one or leaves a link one-sided.
MemorySafe ==
  /\ state # "ub"
  /\ state = "destroyed" => heap = {}
  /\ Callable =>
       /\ \A a \in heap \cup {Sentry} :
             /\ links.next[a] \in heap \cup {Sentry}
             /\ links.pre[links.next[a]] = a
       /\ Range(Visited) = heap
       /\ m_size = Cardinality(heap)
       /\ m_size <= m_capacity

\* Such a cache behaves as an LRU cache: it evicts the least recently used
\* entry and get returns the value put for the key.
Entries == [i \in DOMAIN Visited |-> content[Visited[i]]]
Abstract ==
  INSTANCE LRUSpec WITH capacity <- m_capacity,
                        order <- IF Callable THEN Entries ELSE <<>>
ImplementsLRU == Abstract!Spec
==============================================================================
