-------------------------------- MODULE Vector --------------------------------
(* MContainer::Vector of Data Structure/DataStructure/Vector.hpp: vectors that  *)
(* grow by m_step elements, are copied and are moved.  ref is what a container  *)
(* of the standard library would hold after the same calls; careless becomes    *)
(* TRUE with the first call that the code does not carry out properly (what it  *)
(* leaves is mostly not described, and no call follows):                        *)
(*   - growing after setStep(0), or setStep(n) with n so large that capacity +  *)
(*     n is more than a uint holds; resize(0); insert(size() + 1, t);           *)
(*   - growing or resizing by a reference to an element of the vector itself:   *)
(*     its array is deleted first;                                              *)
(*   - insert(pos, v[i]) with i > pos, which has been moved when it is read, and*)
(*     removeOne of all that equal v[i], unless it is the last element;         *)
(*   - removeAt(pos, len) where pos + len is more than a uint holds;            *)
(*   - removeOne past an earlier match, or of all of two equal neighbours;      *)
(*   - assigning a copy to a vector that has memory; reverse().                 *)
(* insert, append, resize and removeOne take their element by reference: from   *)
(* is its position if it is one of the vector's own, from 1, and 0 otherwise.   *)
(* find does not compile: it returns m_nopos, which is not declared.            *)
EXTENDS SequenceHelpers, FiniteSets

CONSTANTS
  Vectors,
  Values, Zero,  \* the elements; T() is Zero
  Junk,          \* an element that was never set, or was removed
  nullptr,
  m_maxSize, m_stepUint,
  Wrap           \* uint counts modulo Wrap

VARIABLES
  vec,       \* vec[v]: [m_element, m_size, m_step, m_capacity], or nullptr if not alive
  arrays,    \* arrays[b]: the elements of block b, for every allocated block
  ref, careless,
  ub         \* an element outside of its array was touched

vectorVars == <<vec, arrays, ref, careless, ub>>
Blocks == 1 .. Cardinality(Vectors) + 2

VectorInit ==
  /\ vec = [v \in Vectors |-> nullptr]
  /\ arrays = <<>> /\ ref = [v \in Vectors |-> <<>>]
  /\ careless = FALSE /\ ub = FALSE

Fresh(h) == CHOOSE b \in Blocks : b \notin DOMAIN h
Put(h, b, e) == [x \in DOMAIN h \cup {b} |-> IF x = b THEN e ELSE h[x]]
freeMemory(h, b) == [x \in DOMAIN h \ {b} |-> h[x]]
Unset(n) == [i \in 1 .. n |-> Junk]

\* The array s with capacity n.
Copied(s, n) == [i \in 1 .. n |-> IF i \in DOMAIN s THEN s[i] ELSE Junk]

Alive(v) == vec[v] # nullptr
Callable(v) == Alive(v) /\ ~careless /\ ~ub
Size(v) == vec[v].m_size
Elements(v) == IF Size(v) = 0 THEN <<>> ELSE SubSeq(arrays[vec[v].m_element], 1, Size(v))
Refers(v, t, from) == from # 0 => from <= Size(v) /\ t = Elements(v)[from]
Object(b, size, step, capacity) ==
  [m_element |-> b, m_size |-> size, m_step |-> step, m_capacity |-> capacity]

---------------------------------------------------------------------------
(* Construction, copies, moves                                                *)

construct(v, capacity) ==
  /\ ~Alive(v) /\ ~careless /\ ~ub
  /\ LET b == Fresh(arrays) IN
     /\ arrays' = Put(arrays, b, Unset(capacity))
     /\ vec' = [vec EXCEPT ![v] = Object(b, 0, m_stepUint, capacity)]
  /\ ref' = [ref EXCEPT ![v] = <<>>]
  /\ UNCHANGED <<careless, ub>>

copy(v, t) ==
  /\ v # t /\ Callable(t)
  /\ LET b == Fresh(arrays) IN
     /\ arrays' = Put(arrays, b, Copied(Elements(t), vec[t].m_capacity))
     /\ vec' = [vec EXCEPT ![v] = [vec[t] EXCEPT !.m_element = b]]
  /\ ref' = [ref EXCEPT ![v] = ref[t]]
  /\ UNCHANGED ub

copyConstruct(v, t) == ~Alive(v) /\ copy(v, t) /\ UNCHANGED careless

\* operator= does not free the array v had.
assign(v, t) == Alive(v) /\ copy(v, t) /\ careless' = (vec[v].m_element # nullptr)

\* Mutant: the vector moved from keeps its array.
moveKeepsSource(v, t) ==
  /\ v # t /\ Callable(t)
  /\ arrays' = IF Alive(v) THEN freeMemory(arrays, vec[v].m_element) ELSE arrays
  /\ vec' = [vec EXCEPT ![v] = vec[t]]
  /\ ref' = [ref EXCEPT ![v] = ref[t]]
  /\ UNCHANGED <<careless, ub>>

move(v, t) ==
  /\ v # t /\ Callable(t)
  /\ arrays' = IF Alive(v) THEN freeMemory(arrays, vec[v].m_element) ELSE arrays
  /\ vec' = [vec EXCEPT ![v] = vec[t], ![t] = Object(nullptr, 0, @.m_step, 0)]
  /\ ref' = [ref EXCEPT ![v] = ref[t], ![t] = <<>>]
  /\ UNCHANGED <<careless, ub>>

moveConstruct(v, t) == ~Alive(v) /\ move(v, t)
moveAssign(v, t) == Alive(v) /\ move(v, t)

clear(v) ==
  /\ Callable(v)
  /\ arrays' = freeMemory(arrays, vec[v].m_element)
  /\ vec' = [vec EXCEPT ![v] = Object(nullptr, 0, m_stepUint, 0)]
  /\ ref' = [ref EXCEPT ![v] = <<>>]
  /\ UNCHANGED <<careless, ub>>

destroy(v) ==
  /\ Callable(v)
  /\ arrays' = freeMemory(arrays, vec[v].m_element)
  /\ vec' = [vec EXCEPT ![v] = nullptr]
  /\ ref' = [ref EXCEPT ![v] = <<>>]
  /\ UNCHANGED <<careless, ub>>

setStep(v, step) ==
  /\ Callable(v)
  /\ vec' = [vec EXCEPT ![v].m_step = step]
  /\ UNCHANGED <<arrays, ref, careless, ub>>

\* resize clears the vector first; only the first of the new elements is t.  An
\* array of no elements cannot take one: that throws out of a noexcept function.
resize(v, size, t, from) ==
  /\ Callable(v) /\ Refers(v, t, from)
  /\ careless' = (size = 0 \/ from # 0) /\ ub' = careless'
  /\ LET h == freeMemory(arrays, vec[v].m_element)
         b == Fresh(h)
         new == [i \in 1 .. size |-> IF i = 1 THEN t ELSE Zero]
     IN  IF careless' THEN UNCHANGED <<vec, arrays, ref>>
         ELSE /\ arrays' = Put(h, b, new)
              /\ vec' = [vec EXCEPT ![v] = Object(b, size, m_stepUint, size)]
              /\ ref' = [ref EXCEPT ![v] = new]

---------------------------------------------------------------------------
(* Elements                                                                   *)

\* The assertion that there is room for one more; a debug build stops at it.
HasRoom(v) == Size(v) + 1 > vec[v].m_capacity => vec[v].m_capacity + 1 <= m_maxSize

\* v, and the arrays, with room for one more element.
grown(v) ==
  IF Size(v) + 1 <= vec[v].m_capacity THEN [vec |-> vec[v], arrays |-> arrays]
  ELSE LET more == (vec[v].m_capacity + vec[v].m_step) % Wrap
           capacity == IF more > m_maxSize THEN m_maxSize ELSE more
           b == Fresh(arrays)
       IN  [vec |-> [vec[v] EXCEPT !.m_element = b, !.m_capacity = capacity],
            arrays |-> freeMemory(Put(arrays, b, Copied(Elements(v), capacity)), vec[v].m_element)]

\* append(t) is insert(size(), t): the loop that moves elements runs to
\* m_size - pos, which is not a number of elements for pos = m_size + 1.
insert(v, pos, t, from) ==
  /\ Callable(v) /\ HasRoom(v) /\ pos <= Size(v) + 1 /\ Refers(v, t, from)
  /\ LET g == grown(v)
         moved == (Size(v) - pos) % Wrap
         cramped == Size(v) + 1 > g.vec.m_capacity
         gone == from # 0 /\ Size(v) = vec[v].m_capacity
     IN
     /\ ub' = (cramped \/ moved > Size(v) \/ gone)
     /\ careless' = (pos > Size(v) \/ cramped \/ gone \/ from > pos + 1)
     /\ IF ub' \/ careless' THEN UNCHANGED <<vec, arrays, ref>>
        ELSE /\ vec' = [vec EXCEPT ![v] = [g.vec EXCEPT !.m_size = @ + 1]]
             /\ arrays' = [g.arrays EXCEPT ![g.vec.m_element] =
                  [i \in DOMAIN @ |-> IF i <= pos \/ i > Size(v) + 1 THEN @[i]
                                      ELSE IF i = pos + 1 THEN t ELSE @[i - 1]]]
             /\ ref' = [ref EXCEPT ![v] = InsertAt(@, pos + 1, t)]

append(v, t, from) == insert(v, Size(v), t, from)

\* removeAt(pos, len) on size elements: what it moves and how many it drops.
removal(size, pos, len) ==
  LET n == IF (pos + len) % Wrap > size THEN (size - pos) % Wrap ELSE len
      range == (pos + n) % Wrap
  IN  [dropped |-> n, from |-> range, moved |-> (size - range) % Wrap]

removeAt(v, pos, len) ==
  /\ Callable(v) /\ pos <= Size(v)
  /\ LET r == removal(Size(v), pos, len)
         size == (Size(v) - r.dropped) % Wrap
     IN
     /\ ub' = (r.moved # 0 /\ (pos + r.moved > vec[v].m_capacity \/ r.from + r.moved > vec[v].m_capacity))
     /\ careless' = (pos + len >= Wrap /\ pos > 0)
     /\ IF careless' THEN UNCHANGED <<vec, arrays, ref>>
        ELSE /\ vec' = [vec EXCEPT ![v].m_size = size]
             /\ arrays' = IF ub' \/ Size(v) = 0 THEN arrays
                          ELSE [arrays EXCEPT ![vec[v].m_element] =
                                  [i \in DOMAIN @ |->
                                     IF i > size THEN Junk
                                     ELSE IF i <= pos THEN @[i] ELSE @[i - pos + r.from]]]
             /\ ref' = [ref EXCEPT ![v] = SubSeq(@, 1, pos) \o SubSeq(@, pos + len + 1, Len(@))]

removeLast(v) == removeAt(v, (Size(v) - 1) % Wrap, 1)

\* removeOne looks from the front whatever pos is, and skips the element behind
\* one that it removed.  An element of the vector that t refers to is moved.
removeOne(v, t, pos, onlyOne, from) ==
  /\ Callable(v) /\ pos < Size(v) /\ Refers(v, t, from)
  /\ LET e == Elements(v)
         loop[i \in 0 .. Len(e)] ==
           IF i = 0 THEN e
           ELSE IF i <= Len(loop[i - 1]) /\ loop[i - 1][i] = t THEN RemoveAt(loop[i - 1], i) ELSE loop[i - 1]
         left == IF onlyOne THEN RemoveFirst(e, t) ELSE loop[Len(e)]
         hits == {i \in DOMAIN e : e[i] = t /\ i > pos}
         gone == IF onlyOne /\ hits # {} THEN {Min(hits)} ELSE hits
     IN  /\ careless' = \/ from \in 1 .. Len(e) - 1 /\ ~onlyOne
                        \/ \E i \in DOMAIN e :
                             e[i] = t /\ (i <= pos \/ (~onlyOne /\ i < Len(e) /\ e[i + 1] = t))
         /\ IF careless' THEN UNCHANGED <<vec, arrays, ref>>
            ELSE /\ vec' = [vec EXCEPT ![v].m_size = Len(left)]
                 /\ arrays' = [arrays EXCEPT ![vec[v].m_element] = Copied(left, Len(@))]
                 /\ ref' = [ref EXCEPT ![v] = Without(@, gone)]
  /\ UNCHANGED ub

swap(v, first, second) ==
  /\ Callable(v) /\ first < Size(v) /\ second < Size(v)
  /\ LET swapped(s) == [s EXCEPT ![first + 1] = s[second + 1], ![second + 1] = s[first + 1]] IN
     /\ arrays' = [arrays EXCEPT ![vec[v].m_element] = swapped(@)]
     /\ ref' = [ref EXCEPT ![v] = swapped(@)]
  /\ UNCHANGED <<vec, careless, ub>>

\* isEmpty() is TRUE for a vector with elements, and then reverse returns.
reverse(v) ==
  /\ Callable(v)
  /\ ref' = [ref EXCEPT ![v] = Reverse(@)]
  /\ careless' = (Size(v) # 0)
  /\ UNCHANGED <<vec, arrays, ub>>

Positions == 0 .. m_maxSize
Lengths == 0 .. m_maxSize \cup {Wrap - 1}

VectorNext ==
  \E v \in Vectors :
    \/ \E n \in {0, 1} : construct(v, n)
    \/ \E t \in Vectors : copyConstruct(v, t) \/ assign(v, t) \/ moveConstruct(v, t) \/ moveAssign(v, t)
    \/ clear(v) \/ destroy(v) \/ reverse(v) \/ removeLast(v)
    \/ \E n \in {0, m_stepUint, Wrap - 1} : setStep(v, n)
    \/ \E t \in Values, from \in Positions : append(v, t, from)
    \/ \E n, from \in Positions, t \in Values : insert(v, n, t, from) \/ resize(v, n, t, from)
    \/ \E pos \in Positions, len \in Lengths : removeAt(v, pos, len)
    \/ \E pos \in Positions, t \in Values : removeOne(v, t, pos, TRUE, 0)
    \/ \E pos, from \in Positions, t \in Values : removeOne(v, t, pos, FALSE, from)
    \/ \E first, second \in Positions : swap(v, first, second)

---------------------------------------------------------------------------
VectorsAsReference ==
  ~careless => \A v \in Vectors : Alive(v) => Elements(v) = ref[v]

\* Every array is owned by one vector and has its capacity; none is lost.
VectorsOwnArrays ==
  LET owners == {v \in Vectors : Alive(v) /\ vec[v].m_element # nullptr} IN
  ~careless =>
    /\ ~ub
    /\ DOMAIN arrays = {vec[v].m_element : v \in owners}
    /\ \A v, w \in owners : vec[v].m_element = vec[w].m_element => v = w
    /\ \A v \in owners : Len(arrays[vec[v].m_element]) = vec[v].m_capacity
    /\ \A v \in Vectors : Alive(v) => Size(v) <= vec[v].m_capacity /\ vec[v].m_capacity <= m_maxSize
=============================================================================
