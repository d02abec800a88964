-------------------------------- MODULE Queue --------------------------------
(***************************************************************************)
(* MContainer::Queue and SQueue of Data Structure/DataStructure/Queue.hpp: *)
(* a double-ended queue of linked nodes.  enqueue and dequeue of SQueue    *)
(* are pushBack and popFront.  clear() deletes the nodes but leaves        *)
(* m_head->next pointing to the first of them.                             *)
(* A push stores its element before it changes anything, so that it may be *)
(* one of the queue's own; pushFront(const T&) does not compile.           *)
(***************************************************************************)
EXTENDS Nodes

CONSTANT MaxSize  \* bound on the size; the assertions allow 0xFF000000

VARIABLES
  mem,     \* the fields of the nodes: [data, next, previous]
  heap,    \* nodes that are allocated
  m_tail, m_size,
  ub,      \* a node that is not allocated was read, written or deleted
  ref,     \* what was pushed and not popped, front first
  popped,  \* what the last pop returned
  alive,   \* the destructor has not run
  stale    \* history: clear() was called and m_head->next not set since

vars == <<mem, heap, m_tail, m_size, ub, ref, popped, alive, stale>>

Init ==
  /\ mem = NoNodes
  /\ heap = {m_head}
  /\ m_tail = Null /\ m_size = 0
  /\ ub = FALSE /\ ref = <<>> /\ popped = <<>>
  /\ alive = TRUE /\ stale = FALSE

Chain == ChainOf(mem)
Callable == alive /\ ~ub
Touch(nodes) == ub' = ~(nodes \subseteq heap)

pushBack(v) ==
  /\ Callable
  /\ m_size + 1 <= MaxSize
  /\ \E n \in NodeIds \ heap :
        LET last == IF m_tail = Null THEN m_head ELSE m_tail
        IN  /\ Touch({last})
            /\ mem' = linkBetween(mem, last, n, Null, v)
            /\ heap' = heap \cup {n}
            /\ m_tail' = n
  /\ m_size' = m_size + 1
  /\ ref' = Append(ref, v)
  /\ stale' = FALSE
  /\ UNCHANGED <<popped, alive>>

\* pushFront(T&&); the overload for const T& names a variable that is not
\* declared and cannot be instantiated.
pushFront(v) ==
  /\ Callable
  /\ m_size + 1 <= MaxSize
  /\ \E n \in NodeIds \ heap :
        LET first == IF m_tail = Null THEN Null ELSE mem.next[m_head]
        IN  /\ Touch(IF first = Null THEN {} ELSE {first})
            /\ mem' = linkBetween(mem, m_head, n, first, v)
            /\ heap' = heap \cup {n}
            /\ m_tail' = IF m_tail = Null THEN n ELSE m_tail
  /\ m_size' = m_size + 1
  /\ ref' = <<v>> \o ref
  /\ stale' = FALSE
  /\ UNCHANGED <<popped, alive>>

popBack ==
  /\ Callable
  /\ m_size # 0
  /\ LET before == mem.previous[m_tail]
     IN  /\ Touch({m_tail, before})
         /\ popped' = <<mem.data[m_tail]>>
         /\ m_tail' = IF before = m_head THEN Null ELSE before
         /\ mem' = [mem EXCEPT !.next[before] = Null]
         /\ heap' = heap \ {m_tail}
  /\ m_size' = m_size - 1
  /\ ref' = Front(ref)
  /\ UNCHANGED <<alive, stale>>

\* Mutant: the value is read after the head was moved on.
popFrontLate ==
  /\ Callable
  /\ m_size # 0
  /\ LET n == mem.next[m_head]
         second == mem.next[n]
     IN  /\ Touch({n} \cup (IF n = m_tail THEN {} ELSE {second}))
         /\ IF n = m_tail
            THEN /\ m_tail' = Null /\ mem' = [mem EXCEPT !.next[m_head] = Null]
                 /\ popped' = <<mem.data[n]>>
            ELSE /\ mem' = [mem EXCEPT !.next[m_head] = second, !.previous[second] = m_head]
                 /\ popped' = <<mem.data[second]>>
                 /\ UNCHANGED m_tail
         /\ heap' = heap \ {n}
  /\ m_size' = m_size - 1
  /\ ref' = Tail(ref)
  /\ UNCHANGED <<alive, stale>>

popFront ==
  /\ Callable
  /\ m_size # 0
  /\ LET n == mem.next[m_head]
         second == mem.next[n]
     IN  /\ Touch({n} \cup (IF n = m_tail THEN {} ELSE {second}))
         /\ popped' = <<mem.data[n]>>
         /\ IF n = m_tail
            THEN m_tail' = Null /\ mem' = [mem EXCEPT !.next[m_head] = Null]
            ELSE /\ mem' = [mem EXCEPT !.next[m_head] = second, !.previous[second] = m_head]
                 /\ UNCHANGED m_tail
         /\ heap' = heap \ {n}
  /\ m_size' = m_size - 1
  /\ ref' = Tail(ref)
  /\ UNCHANGED <<alive, stale>>

\* popBack and popFront throw out_of_range.
popEmpty ==
  /\ Callable
  /\ m_size = 0
  /\ UNCHANGED vars

freeAll ==
  /\ Touch(ToSet(Chain))
  /\ m_tail' = Null /\ m_size' = 0
  /\ ref' = <<>>
  /\ UNCHANGED <<mem, popped>>

clear ==
  /\ Callable
  /\ freeAll
  /\ heap' = heap \ ToSet(Chain)
  /\ stale' = (ref # <<>> \/ stale)
  /\ UNCHANGED alive

\* The destructor: clear() and delete m_head.
destroy ==
  /\ Callable
  /\ freeAll
  /\ heap' = heap \ (ToSet(Chain) \cup {m_head})
  /\ alive' = FALSE
  /\ UNCHANGED stale

Next ==
  \/ \E v \in Values : pushBack(v) \/ pushFront(v)
  \/ popBack \/ popFront \/ popEmpty
  \/ clear \/ destroy

Spec == Init /\ [][Next]_vars

------------------------------------------------------------------------------
\* at(pos) finds every element that was pushed and not popped, in order, also
\* after clear() has left m_head->next behind.
HoldsWhatWasPushed ==
  alive /\ ~ub =>
    /\ m_size = Len(ref)
    /\ \A i \in 1..m_size : i \in DOMAIN Chain /\ mem.data[Chain[i]] = ref[i]

\* popFront returns the front of the queue and popBack its back, whatever pushes
\* and pops at both ends and clear() came before.
PopsTheEnds ==
  [][/\ popFront => popped' = <<ref[1]>>
     /\ popBack => popped' = <<Last(ref)>>]_vars

\* No deleted node is touched, none is lost, and the destructor frees every node
\* exactly once, unless clear() is followed by another clear() or by the
\* destructor before anything is pushed: those delete the old nodes again.
MemorySafe ==
  /\ ub => stale
  /\ ~stale => heap = IF alive THEN ToSet(Chain) \cup {m_head} ELSE {}
  /\ ~alive => heap = {}
==============================================================================
