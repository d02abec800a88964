------------------------ MODULE DataStructuresProofs ------------------------
(***************************************************************************)
(* What every call of List.hpp and of the list in one array keeps, what    *)
(* find and split of CMByteArray return, and with ContainerProofs what     *)
(* DataStructure.cpp tests: no structure leaks or uses memory that is not  *)
(* its own, each holds what a container of the standard library would, and *)
(* what is popped is what the reference has at that end.                   *)
(***************************************************************************)
EXTENDS ContainerProofs

---------------------------------------------------------------------------
(* The list.                                                                   *)

\* The c nodes r[1], .., r[c] behind the head r[0] are the list.
ListIs(r, c) ==
  /\ Linked(mem, NodeIds, r, c) /\ heap = Body(r, c) \cup {m_head} /\ m_size = c
  /\ m_tail = IF c = 0 THEN Null ELSE r[c]
  /\ Carries(mem, r, c, ref)

ListInv ==
  /\ ~ub
  /\ ~alive => heap = {}
  /\ alive => \E c \in Nat : \E r : ListIs(r, c)

\* The list's nodes, the head node and Null are different things.
LEMMA NodesApart == Apart(NodeIds) /\ IsFiniteSet(NodeIds)
BY ContainerAssumption DEF Apart

\* How a call ends: a chain, its last node in m_tail, its length in m_size.
LEMMA Listed ==
  ASSUME NEW c \in Nat, NEW r, alive', ~ub', Linked(mem', NodeIds, r, c),
         heap' = Body(r, c) \cup {m_head}, m_size' = c,
         m_tail' = IF c = 0 THEN Null ELSE r[c], Carries(mem', r, c, ref')
  PROVE  ListInv'
<1>1. ListIs(r, c)'
  BY DEF ListIs
<1> QED
  BY <1>1 DEF ListInv

\* What the invariant says, part by part.
LEMMA ListParts ==
  ASSUME NEW c \in Nat, NEW r, ListIs(r, c)
  PROVE  /\ IsChain(NodeIds, r, c) /\ mem \in Memories(NodeIds)
         /\ Linked(mem, NodeIds, r, c) /\ heap = Body(r, c) \cup {m_head} /\ m_size = c
         /\ m_tail = IF c = 0 THEN Null ELSE r[c]
         /\ Carries(mem, r, c, ref) /\ ref \in Seq({0, 1}) /\ Len(ref) = c
         /\ r[0] = m_head /\ r[c + 1] = Null /\ \A j \in 0..c : r[j] \in heap
<1>1. Linked(mem, NodeIds, r, c) /\ IsChain(NodeIds, r, c) /\ heap = Body(r, c) \cup {m_head}
  BY DEF ListIs, Linked
<1>2. \A j \in 0..c : j = 0 \/ j \in 1..c
  OBVIOUS
<1>3. \A j \in 0..c : r[j] \in heap
  BY <1>1, <1>2 DEF IsChain, Body
<1> QED
  BY <1>1, <1>3 DEF ListIs, Linked, Carries, IsChain

\* findNode finds the node at pos from the nearer end, over nodes of the list.
LEMMA ListFinds ==
  ASSUME NEW c \in Nat, NEW r, ListIs(r, c), NEW pos \in Nat, pos < c
  PROVE  L!findNode(pos) = r[pos + 1] /\ L!ToSet(L!findPath(pos)) \subseteq heap
<1>1. /\ IsChain(NodeIds, r, c) /\ Linked(mem, NodeIds, r, c) /\ m_size = c /\ m_tail = r[c]
      /\ heap = Body(r, c) \cup {m_head}
  BY ListParts
<1>2. /\ \A j \in 1..c : r[j] \in NodeIds
      /\ \A j \in 0..c : mem.next[r[j]] = r[j + 1]
      /\ \A j \in 1..c : mem.previous[r[j]] = r[j - 1]
      /\ r[0] = m_head /\ r[c + 1] = Null
  BY <1>1 DEF Linked, IsChain
<1>3. Null \notin NodeIds
  BY NodesApart DEF Apart
<1>4. CASE pos < m_size \div 2
  <2>1. PICK y : y = [j \in 1..c |-> r[j]]
    OBVIOUS
  <2>2. y \in [1..c -> NodeIds]
    BY <1>2, <2>1
  <2>3. PICK N \in Nat : N = pos + 1 /\ N # 0 /\ N <= c
    OBVIOUS
  <2>4. PICK p : p = mem.next[m_head]
    OBVIOUS
  <2>5. p = IF c = 0 THEN Null ELSE y[1]
    <3>1. 0 \in 0..c /\ 1 \in 1..c /\ 0 + 1 = 1
      OBVIOUS
    <3> QED
      BY <1>2, <2>1, <2>4, <3>1
  <2>6. \A j \in 1..c : j < N => mem.next[y[j]] = IF j = c THEN Null ELSE y[j + 1]
    <3>1. ASSUME NEW j \in 1..c, j < N PROVE mem.next[y[j]] = IF j = c THEN Null ELSE y[j + 1]
      <4>1. j # c /\ j \in 0..c /\ j + 1 \in 1..c
        BY <2>3, <3>1
      <4> QED
        BY <1>2, <2>1, <4>1
    <3> QED
      BY <3>1
  <2>7. PICK f : f = mem.next
    OBVIOUS
  <2>17. /\ Null \notin NodeIds /\ y \in [1..c -> NodeIds] /\ N \in Nat \ {0}
         /\ p = IF c = 0 THEN Null ELSE y[1]
         /\ \A j \in 1..c : j < N => f[y[j]] = IF j = c THEN Null ELSE y[j + 1]
    BY <1>3, <2>2, <2>3, <2>5, <2>6, <2>7
  <2>8. Chase(f, p, N) = Begin(y, c, N)
    <3>1. WalksOver(f, p, N, NodeIds, y, c) /\ N \in Nat \ {0} /\ c \in Nat
      BY <2>17 DEF WalksOver
    <3> QED
      BY <3>1, PathIs
  <2>9. L!findPath(pos) = Begin(y, c, N)
    <3>1. L!findPath(pos) = L!Path(mem.next, mem.next[m_head], pos + 1)
      BY <1>4 DEF L!findPath
    <3> QED
      BY <2>3, <2>4, <2>7, <2>8, <3>1, SamePaths
  <2>10. Begin(y, c, N) = [j \in 1..N |-> y[j]]
    BY <2>3 DEF Begin
  <2>11. PICK s : s = [j \in 1..N |-> y[j]]
    OBVIOUS
  <2>12. s \in Seq(NodeIds) /\ Len(s) = N /\ \A j \in 1..N : s[j] = r[j]
    <3>1. \A j \in 1..N : j \in 1..c
      BY <2>3
    <3>2. \A j \in 1..N : y[j] = r[j] /\ y[j] \in NodeIds
      BY <1>2, <2>1, <3>1
    <3>3. s \in [1..N -> NodeIds]
      BY <2>11, <3>2
    <3> QED
      BY <2>3, <2>11, <3>2, <3>3
  <2>13. L!findPath(pos) = s
    BY <2>9, <2>10, <2>11
  <2>14. L!findNode(pos) = r[pos + 1]
    <3>1. L!findNode(pos) = s[Len(s)]
      BY <2>13 DEF L!findNode, L!Last
    <3>2. N \in 1..N
      BY <2>3
    <3> QED
      BY <2>3, <2>12, <3>1, <3>2
  <2>15. L!ToSet(L!findPath(pos)) \subseteq heap
    <3>1. L!ToSet(s) = {s[j] : j \in 1..N}
      BY <2>12 DEF L!ToSet
    <3>2. \A j \in 1..N : r[j] \in heap
      <4>1. \A j \in 1..N : j \in 1..c
        BY <2>3
      <4> QED
        BY <1>1, <4>1 DEF Body
    <3> QED
      BY <2>12, <2>13, <3>1, <3>2
  <2> QED
    BY <2>14, <2>15
<1>5. CASE ~ (pos < m_size \div 2)
  <2>1. PICK y : y = [j \in 1..c |-> r[c + 1 - j]]
    OBVIOUS
  <2>16. \A j \in 1..c : c + 1 - j \in 1..c
    OBVIOUS
  <2>2. y \in [1..c -> NodeIds]
    BY <1>2, <2>1, <2>16
  <2>3. PICK N \in Nat : N = c - pos /\ N # 0 /\ N <= c
    OBVIOUS
  <2>4. PICK p : p = m_tail
    OBVIOUS
  <2>5. p = IF c = 0 THEN Null ELSE y[1]
    <3>1. c # 0 /\ 1 \in 1..c /\ c + 1 - 1 = c
      OBVIOUS
    <3> QED
      BY <1>1, <2>1, <2>4, <3>1
  <2>6. \A j \in 1..c : j < N => mem.previous[y[j]] = IF j = c THEN Null ELSE y[j + 1]
    <3>1. ASSUME NEW j \in 1..c, j < N PROVE mem.previous[y[j]] = IF j = c THEN Null ELSE y[j + 1]
      <4>1. j # c /\ j + 1 \in 1..c /\ c + 1 - j \in 1..c /\ c + 1 - (j + 1) = (c + 1 - j) - 1
        BY <2>3, <3>1
      <4>2. y[j] = r[c + 1 - j] /\ y[j + 1] = r[(c + 1 - j) - 1]
        BY <2>1, <4>1
      <4>3. mem.previous[r[c + 1 - j]] = r[(c + 1 - j) - 1]
        BY <1>2, <4>1
      <4> QED
        BY <4>1, <4>2, <4>3
    <3> QED
      BY <3>1
  <2>7. PICK f : f = mem.previous
    OBVIOUS
  <2>17. /\ Null \notin NodeIds /\ y \in [1..c -> NodeIds] /\ N \in Nat \ {0}
         /\ p = IF c = 0 THEN Null ELSE y[1]
         /\ \A j \in 1..c : j < N => f[y[j]] = IF j = c THEN Null ELSE y[j + 1]
    BY <1>3, <2>2, <2>3, <2>5, <2>6, <2>7
  <2>8. Chase(f, p, N) = Begin(y, c, N)
    <3>1. WalksOver(f, p, N, NodeIds, y, c) /\ N \in Nat \ {0} /\ c \in Nat
      BY <2>17 DEF WalksOver
    <3> QED
      BY <3>1, PathIs
  <2>9. L!findPath(pos) = Begin(y, c, N)
    <3>1. L!findPath(pos) = L!Path(mem.previous, m_tail, m_size - pos)
      BY <1>5 DEF L!findPath
    <3> QED
      BY <1>1, <2>3, <2>4, <2>7, <2>8, <3>1, SamePaths
  <2>10. Begin(y, c, N) = [j \in 1..N |-> y[j]]
    BY <2>3 DEF Begin
  <2>11. PICK s : s = [j \in 1..N |-> y[j]]
    OBVIOUS
  <2>12. s \in Seq(NodeIds) /\ Len(s) = N /\ \A j \in 1..N : s[j] = r[c + 1 - j]
    <3>1. \A j \in 1..N : j \in 1..c
      BY <2>3
    <3>2. \A j \in 1..N : y[j] = r[c + 1 - j] /\ y[j] \in NodeIds
      BY <1>2, <2>1, <2>16, <3>1
    <3>3. s \in [1..N -> NodeIds]
      BY <2>11, <3>2
    <3> QED
      BY <2>3, <2>11, <3>2, <3>3, SMTT(30)
  <2>13. L!findPath(pos) = s
    BY <2>9, <2>10, <2>11
  <2>14. L!findNode(pos) = r[pos + 1]
    <3>1. L!findNode(pos) = s[Len(s)]
      BY <2>13 DEF L!findNode, L!Last
    <3>2. N \in 1..N /\ c + 1 - N = pos + 1
      BY <2>3
    <3> QED
      BY <2>12, <3>1, <3>2
  <2>15. L!ToSet(L!findPath(pos)) \subseteq heap
    <3>1. L!ToSet(s) = {s[j] : j \in 1..N}
      BY <2>12 DEF L!ToSet
    <3>2. \A j \in 1..N : r[c + 1 - j] \in heap
      <4>1. \A j \in 1..N : c + 1 - j \in 1..c
        BY <2>3
      <4> QED
        BY <1>1, <4>1 DEF Body
    <3> QED
      BY <2>12, <2>13, <3>1, <3>2
  <2> QED
    BY <2>14, <2>15
<1> QED
  BY <1>4, <1>5

\* Node n with value v becomes the node at q.
LEMMA ListGrows ==
  ASSUME NEW c \in Nat, NEW r, ListIs(r, c), NEW q \in 1..(c + 1), NEW n \in NodeIds, n \notin heap,
         NEW v \in {0, 1}, mem' = L!linkBetween(mem, r[q - 1], n, r[q], v), heap' = heap \cup {n},
         m_tail' = IF q = c + 1 THEN n ELSE m_tail, m_size' = m_size + 1,
         ref' \in Seq({0, 1}), IsInserted(ref', ref, q, v), alive', ~ub'
  PROVE  ListInv'
<1>1. /\ Linked(mem, NodeIds, r, c) /\ Carries(mem, r, c, ref) /\ heap = Body(r, c) \cup {m_head}
      /\ m_size = c /\ m_tail = IF c = 0 THEN Null ELSE r[c]
  BY ListParts
<1>2. n \notin Body(r, c)
  BY <1>1
<1>3. PICK t \in Seq({0, 1}) : t = ref'
  OBVIOUS
<1>4. PICK e : e = Inserted(r, c, q, n)
  OBVIOUS
<1>5. PICK m2 : m2 = L!linkBetween(mem, r[q - 1], n, r[q], v)
  OBVIOUS
<1>6. Linked(m2, NodeIds, e, c + 1) /\ Body(e, c + 1) = Body(r, c) \cup {n} /\ Holds(m2, mem, r, c, n, v)
  <2>1. PICK X, m : X = NodeIds /\ m = mem
    OBVIOUS
  <2>2. Apart(X) /\ Linked(m, X, r, c) /\ n \in X /\ n \notin Body(r, c)
    BY <1>1, <1>2, <2>1, NodesApart
  <2>3. /\ Linked(L!linkBetween(m, r[q - 1], n, r[q], v), X, Inserted(r, c, q, n), c + 1)
        /\ Body(Inserted(r, c, q, n), c + 1) = Body(r, c) \cup {n}
        /\ Holds(L!linkBetween(m, r[q - 1], n, r[q], v), m, r, c, n, v)
    BY <2>2, InsertLinked, SMTT(30)
  <2> QED
    BY <1>4, <1>5, <2>1, <2>3
<1>7. Carries(m2, e, c + 1, t)
  <2>1. IsInserted(t, ref, q, v)
    BY <1>3
  <2>2. Carries(m2, Inserted(r, c, q, n), c + 1, t)
    BY <1>1, <1>6, <2>1, InsertCarries
  <2> QED
    BY <1>4, <2>2
<1>8. PICK d \in Nat : d = c + 1
  OBVIOUS
<1>9. m_tail' = IF d = 0 THEN Null ELSE e[d]
  <2>1. CASE q = c + 1
    <3>1. e[c + 1] = n
      BY <1>4, <2>1 DEF Inserted
    <3> QED
      BY <1>8, <2>1, <3>1
  <2>2. CASE q # c + 1
    <3>1. ~ (c + 1 < q) /\ c + 1 # q /\ c + 1 \in 0..(c + 2) /\ c + 1 - 1 = c /\ c # 0
      BY <2>2
    <3>2. e[c + 1] = r[c]
      BY <1>4, <3>1 DEF Inserted
    <3> QED
      BY <1>1, <1>8, <2>2, <3>1, <3>2
  <2> QED
    BY <2>1, <2>2
<1>10. /\ alive' /\ ~ub' /\ Linked(mem', NodeIds, e, d) /\ heap' = Body(e, d) \cup {m_head} /\ m_size' = d
       /\ m_tail' = (IF d = 0 THEN Null ELSE e[d]) /\ Carries(mem', e, d, ref')
  BY <1>1, <1>3, <1>5, <1>6, <1>7, <1>8, <1>9
<1> QED
  BY <1>10, Listed

\* The node at q goes.
LEMMA ListShrinks ==
  ASSUME NEW c \in Nat, NEW r, ListIs(r, c), NEW q \in 1..c, mem' = L!unlink(mem, r[q]), heap' = heap \ {r[q]},
         m_tail' = IF r[q] # m_tail THEN m_tail
                   ELSE IF mem.previous[r[q]] # m_head THEN mem.previous[r[q]] ELSE Null,
         m_size' = m_size - 1, ref' \in Seq({0, 1}), IsRemoved(ref', ref, q), alive', ~ub'
  PROVE  ListInv'
<1>1. /\ Linked(mem, NodeIds, r, c) /\ Carries(mem, r, c, ref) /\ heap = Body(r, c) \cup {m_head}
      /\ m_size = c /\ m_tail = r[c] /\ IsChain(NodeIds, r, c)
  BY ListParts
<1>2. mem.previous[r[q]] = r[q - 1] /\ mem.next[r[q]] = r[q + 1]
  <2>1. q \in 0..c
    OBVIOUS
  <2> QED
    BY <1>1, <2>1 DEF Linked
<1>3. UnlinkedIn(mem', mem, NodeIds, r, q)
  <2>1. PICK m2, X : m2 = mem' /\ X = NodeIds
    OBVIOUS
  <2>2. m2 = [mem EXCEPT !.next[r[q - 1]] = r[q + 1],
                         !.previous = IF r[q + 1] = Null THEN @ ELSE [@ EXCEPT ![r[q + 1]] = r[q - 1]]]
    BY <1>2, <2>1 DEF L!unlink
  <2>3. Apart(X) /\ Linked(mem, X, r, c)
    BY <1>1, <2>1, NodesApart
  <2>4. UnlinkedIn(m2, mem, X, r, q)
    BY <2>2, <2>3, Unlinks
  <2> QED
    BY <2>1, <2>4
<1>4. PICK e, d : e = Removed(r, c, q) /\ d = c - 1
  OBVIOUS
<1>5. Linked(mem', NodeIds, e, d) /\ d \in Nat /\ Body(e, d) = Body(r, c) \ {r[q]}
  <2>1. PICK m2, X : m2 = mem' /\ X = NodeIds
    OBVIOUS
  <2>2. Apart(X) /\ Linked(mem, X, r, c) /\ UnlinkedIn(m2, mem, X, r, q)
    BY <1>1, <1>3, <2>1, NodesApart
  <2>3. /\ Linked(m2, X, Removed(r, c, q), c - 1) /\ c - 1 \in Nat
        /\ BodyWithout(Removed(r, c, q), c - 1, r, c, q)
    BY <2>2, ShrinksAt
  <2> QED
    BY <1>4, <2>1, <2>3 DEF BodyWithout
<1>6. Carries(mem', e, d, ref')
  <2>1. PICK m2 : m2 = mem' /\ m2.data = mem.data
    BY <1>3 DEF UnlinkedIn
  <2>2. PICK t \in Seq({0, 1}) : t = ref' /\ IsRemoved(t, ref, q)
    OBVIOUS
  <2>3. Carries(m2, Removed(r, c, q), c - 1, t)
    BY <1>1, <2>1, <2>2, RemoveCarries
  <2> QED
    BY <1>4, <2>1, <2>2, <2>3
<1>7. m_head \notin NodeIds /\ r[q] \in NodeIds /\ r[0] = m_head /\ \A j \in 1..c : r[j] \in NodeIds
  BY <1>1, NodesApart DEF IsChain, Apart
<1>8. m_tail' = IF d = 0 THEN Null ELSE e[d]
  <2>1. CASE q = c
    <3>1. r[q] = m_tail /\ q - 1 = d /\ m_tail' = IF r[d] # m_head THEN r[d] ELSE Null
      BY <1>1, <1>2, <1>4, <2>1
    <3>2. CASE d = 0
      BY <1>7, <3>1, <3>2
    <3>3. CASE d # 0
      <4>1. d \in 1..c /\ d < q /\ d \in 0..c
        BY <1>4, <1>5, <2>1, <3>3
      <4>2. r[d] # m_head
        BY <1>7, <4>1
      <4>3. e[d] = r[d]
        BY <1>4, <4>1 DEF Removed
      <4> QED
        BY <3>1, <3>3, <4>2, <4>3
    <3> QED
      BY <3>2, <3>3
  <2>2. CASE q # c
    <3>1. d # 0 /\ ~ (d < q) /\ d \in 0..c /\ d + 1 = c /\ c \in 1..c
      BY <1>4, <2>2
    <3>2. e[d] = r[c]
      BY <1>4, <3>1 DEF Removed
    <3>3. r[q] # m_tail
      BY <1>1, <2>2, <3>1 DEF IsChain
    <3> QED
      BY <1>1, <3>1, <3>2, <3>3
  <2> QED
    BY <2>1, <2>2
<1>9. heap' = Body(e, d) \cup {m_head}
  BY <1>1, <1>5, <1>7
<1>10. /\ alive' /\ ~ub' /\ Linked(mem', NodeIds, e, d) /\ heap' = Body(e, d) \cup {m_head} /\ m_size' = d
       /\ m_tail' = (IF d = 0 THEN Null ELSE e[d]) /\ Carries(mem', e, d, ref') /\ d \in Nat
  BY <1>1, <1>4, <1>5, <1>6, <1>8, <1>9
<1> QED
  BY <1>10, Listed

\* append.
LEMMA ListAppends ==
  ASSUME ListInv, NEW v \in {0, 1}, L!append(v)
  PROVE  ListInv'
<1>1. alive /\ m_size' = m_size + 1 /\ ref' = Append(ref, v) /\ alive' = alive
  BY DEF L!append, L!May
<1>2. PICK c \in Nat : \E r : ListIs(r, c)
  BY <1>1 DEF ListInv
<1>3. PICK r : ListIs(r, c)
  BY <1>2
<1>4. /\ heap = Body(r, c) \cup {m_head} /\ m_size = c /\ m_tail = (IF c = 0 THEN Null ELSE r[c])
      /\ ref \in Seq({0, 1}) /\ Len(ref) = c /\ r[0] = m_head /\ r[c + 1] = Null /\ r[c] \in heap
  <2>1. c \in 0..c
    OBVIOUS
  <2> QED
    BY <1>3, <2>1, ListParts
<1>5. PICK n \in NodeIds : /\ n \notin heap /\ L!Touch({IF m_size = 0 THEN m_head ELSE m_tail})
                           /\ mem' = L!linkBetween(mem, IF m_size = 0 THEN m_head ELSE m_tail, n, Null, v)
                           /\ heap' = heap \cup {n} /\ m_tail' = n
  BY DEF L!append
<1>6. (IF m_size = 0 THEN m_head ELSE m_tail) = r[c]
  BY <1>4
<1>7. ~ub'
  BY <1>4, <1>5, <1>6 DEF L!Touch
<1>8. PICK q \in 1..(c + 1) : q = c + 1 /\ r[q - 1] = r[c] /\ r[q] = Null
  <2>1. c + 1 \in 1..(c + 1) /\ (c + 1) - 1 = c
    OBVIOUS
  <2> QED
    BY <1>4, <2>1
<1>9. ref' \in Seq({0, 1}) /\ IsInserted(ref', ref, q, v)
  BY <1>1, <1>4, <1>8, SeqEnds
<1>10. /\ ListIs(r, c) /\ n \notin heap /\ mem' = L!linkBetween(mem, r[q - 1], n, r[q], v)
       /\ heap' = heap \cup {n} /\ m_tail' = (IF q = c + 1 THEN n ELSE m_tail) /\ m_size' = m_size + 1
       /\ ref' \in Seq({0, 1}) /\ IsInserted(ref', ref, q, v) /\ alive' /\ ~ub'
  BY <1>1, <1>3, <1>5, <1>6, <1>7, <1>8, <1>9
<1> QED
  BY <1>10, ListGrows

\* insert.
LEMMA ListInserts ==
  ASSUME ListInv, NEW pos \in Nat, NEW v \in {0, 1}, L!insert(pos, v)
  PROVE  ListInv'
<1> DEFINE first == mem.next[m_head]
           at == IF pos = 0 THEN first ELSE IF pos = m_size THEN Null ELSE L!findNode(pos)
           before == IF pos = 0 THEN m_head ELSE IF pos = m_size THEN m_tail ELSE mem.previous[at]
           touched == {before} \cup (IF at = Null THEN {} ELSE {at})
                      \cup (IF pos \in 1..(m_size - 1) THEN L!ToSet(L!findPath(pos)) ELSE {})
<1>1. /\ alive /\ pos <= m_size /\ (m_size > 0 => pos > 0)
      /\ m_size' = m_size + 1 /\ ref' = L!InsertAt(ref, pos + 1, v) /\ alive' = alive
  BY DEF L!insert, L!May
<1>2. PICK c \in Nat : \E r : ListIs(r, c)
  BY <1>1 DEF ListInv
<1>3. PICK r : ListIs(r, c)
  BY <1>2
<1>4. /\ heap = Body(r, c) \cup {m_head} /\ m_size = c /\ m_tail = (IF c = 0 THEN Null ELSE r[c])
      /\ ref \in Seq({0, 1}) /\ Len(ref) = c /\ r[0] = m_head /\ r[c + 1] = Null
      /\ Linked(mem, NodeIds, r, c) /\ IsChain(NodeIds, r, c) /\ \A j \in 0..c : r[j] \in heap
  BY <1>3, ListParts
<1>5. PICK n \in NodeIds : /\ n \notin heap /\ L!Touch(touched)
                           /\ mem' = IF pos = 0 /\ first # Null
                                     THEN [L!linkBetween(mem, before, n, at, v) EXCEPT !.next[m_head] = first]
                                     ELSE L!linkBetween(mem, before, n, at, v)
                           /\ heap' = heap \cup {n} /\ m_tail' = IF at = Null THEN n ELSE m_tail
  BY DEF L!insert
<1>6. PICK q \in 1..(c + 1) : q = pos + 1
  BY <1>1, <1>4
<1>7. Null \notin NodeIds /\ m_head # Null /\ Null \notin heap
  BY <1>4, NodesApart DEF Apart, IsChain, Body
<1>8. before = r[q - 1] /\ at = r[q] /\ ~ (pos = 0 /\ first # Null) /\ touched \subseteq heap
  <2>1. CASE pos = 0
    <3>1. c = 0 /\ q - 1 = 0 /\ q = c + 1 /\ pos \notin 1..(m_size - 1)
      BY <1>1, <1>4, <1>6, <2>1
    <3>2. first = Null
      <4>1. 0 \in 0..c /\ mem.next[r[0]] = r[0 + 1]
        BY <1>4, <3>1 DEF Linked
      <4> QED
        BY <1>4, <3>1, <4>1
    <3>3. at = Null /\ before = m_head
      BY <2>1, <3>2
    <3>4. touched = {m_head}
      BY <3>1, <3>3
    <3> QED
      BY <1>4, <3>1, <3>2, <3>3, <3>4
  <2>2. CASE pos # 0 /\ pos = m_size
    <3>1. q - 1 = c /\ q = c + 1 /\ c # 0 /\ pos \notin 1..(m_size - 1) /\ c \in 0..c
      BY <1>4, <1>6, <2>2
    <3>2. at = Null /\ before = r[c]
      BY <1>4, <2>2, <3>1
    <3>3. touched = {r[c]}
      BY <3>1, <3>2
    <3> QED
      BY <1>4, <2>2, <3>1, <3>2, <3>3
  <2>3. CASE pos # 0 /\ pos # m_size
    <3>1. pos < c /\ q - 1 = pos /\ pos + 1 = q /\ q \in 1..c /\ q \in 0..c /\ pos \in 0..c
      BY <1>1, <1>4, <1>6, <2>3
    <3>2. at = r[q] /\ L!ToSet(L!findPath(pos)) \subseteq heap
      BY <1>3, <2>3, <3>1, ListFinds
    <3>3. before = r[q - 1]
      <4>1. mem.previous[r[q]] = r[q - 1]
        BY <1>4, <3>1 DEF Linked
      <4> QED
        BY <2>3, <3>2, <4>1
    <3>4. r[q] \in heap /\ r[q - 1] \in heap
      BY <1>4, <3>1
    <3> HIDE DEF at, before
    <3>5. touched \subseteq heap
      BY <3>2, <3>3, <3>4
    <3> QED
      BY <2>3, <3>2, <3>3, <3>5
  <2> QED
    BY <2>1, <2>2, <2>3
<1> HIDE DEF first, at, before, touched
<1>9. ~ub'
  BY <1>5, <1>8 DEF L!Touch
<1>10. mem' = L!linkBetween(mem, r[q - 1], n, r[q], v)
  BY <1>5, <1>8
<1>11. m_tail' = IF q = c + 1 THEN n ELSE m_tail
  <2>1. CASE q = c + 1
    BY <1>4, <1>5, <1>8, <2>1
  <2>2. CASE q # c + 1
    <3>1. q \in 0..c
      BY <2>2
    <3> QED
      BY <1>4, <1>5, <1>7, <1>8, <2>2, <3>1
  <2> QED
    BY <2>1, <2>2
<1>12. ref' \in Seq({0, 1}) /\ IsInserted(ref', ref, q, v)
  <2>1. ref' = SubSeq(ref, 1, q - 1) \o <<v>> \o SubSeq(ref, q, Len(ref))
    BY <1>1, <1>6 DEF L!InsertAt
  <2>2. q \in 1..(Len(ref) + 1)
    BY <1>4
  <2> QED
    BY <1>4, <2>1, <2>2, SeqInserted
<1>13. /\ ListIs(r, c) /\ n \notin heap /\ mem' = L!linkBetween(mem, r[q - 1], n, r[q], v)
       /\ heap' = heap \cup {n} /\ m_tail' = (IF q = c + 1 THEN n ELSE m_tail) /\ m_size' = m_size + 1
       /\ ref' \in Seq({0, 1}) /\ IsInserted(ref', ref, q, v) /\ alive' /\ ~ub'
  BY <1>1, <1>3, <1>5, <1>9, <1>10, <1>11, <1>12
<1> QED
  BY <1>13, ListGrows

\* removeAt.
LEMMA ListRemovesAt ==
  ASSUME ListInv, NEW pos \in Nat, L!removeAt(pos)
  PROVE  ListInv'
<1>1. /\ alive /\ pos < m_size /\ m_size' = m_size - 1 /\ ref' = L!RemoveAt(ref, pos + 1) /\ alive' = alive
  BY DEF L!removeAt, L!May
<1>2. PICK n : /\ n = L!findNode(pos)
               /\ L!Touch(L!ToSet(L!findPath(pos)) \cup {mem.previous[n]})
               /\ m_tail' = IF n # m_tail THEN m_tail
                            ELSE IF mem.previous[n] # m_head THEN mem.previous[n] ELSE Null
               /\ mem' = L!unlink(mem, n) /\ heap' = heap \ {n}
  BY DEF L!removeAt
<1>3. PICK c \in Nat : \E r : ListIs(r, c)
  BY <1>1 DEF ListInv
<1>4. PICK r : ListIs(r, c)
  BY <1>3
<1>5. /\ m_size = c /\ ref \in Seq({0, 1}) /\ Len(ref) = c /\ Linked(mem, NodeIds, r, c) /\ \A j \in 0..c : r[j] \in heap
  BY <1>4, ListParts
<1>6. PICK q \in 1..c : q = pos + 1
  BY <1>1, <1>5
<1>7. n = r[q] /\ L!ToSet(L!findPath(pos)) \subseteq heap
  BY <1>1, <1>2, <1>4, <1>5, <1>6, ListFinds
<1>8. mem.previous[n] \in heap
  <2>1. q - 1 \in 0..c /\ mem.previous[r[q]] = r[q - 1]
    BY <1>5 DEF Linked
  <2> QED
    BY <1>5, <1>7, <2>1
<1>9. ~ub'
  BY <1>2, <1>7, <1>8 DEF L!Touch
<1>10. ref' \in Seq({0, 1}) /\ IsRemoved(ref', ref, q)
  <2>1. ref' = SubSeq(ref, 1, q - 1) \o SubSeq(ref, q + 1, Len(ref))
    BY <1>1, <1>6 DEF L!RemoveAt
  <2>2. q \in 1..Len(ref)
    BY <1>5
  <2> QED
    BY <1>5, <2>1, <2>2, SeqRemoved
<1>11. /\ ListIs(r, c) /\ mem' = L!unlink(mem, r[q]) /\ heap' = heap \ {r[q]}
       /\ m_tail' = (IF r[q] # m_tail THEN m_tail
                     ELSE IF mem.previous[r[q]] # m_head THEN mem.previous[r[q]] ELSE Null)
       /\ m_size' = m_size - 1 /\ ref' \in Seq({0, 1}) /\ IsRemoved(ref', ref, q) /\ alive' /\ ~ub'
  BY <1>1, <1>2, <1>4, <1>7, <1>9, <1>10
<1> QED
  BY <1>11, ListShrinks

\* The first d nodes of a chain.
FrontOf(r, d) == [j \in 0..(d + 1) |-> IF j <= d THEN r[j] ELSE Null]

Fronts(e, r, d) == d \in Nat /\ e[d] = r[d] /\ \A j \in 1..d : e[j] = r[j]

EndsAt(m2, m, X, p) ==
  /\ m2 \in Memories(X) /\ m2.data = m.data /\ m2.previous = m.previous
  /\ \A x \in X \cup {m_head} : m2.next[x] = IF x = p THEN Null ELSE m.next[x]

\* A next pointer set to Null.
LEMMA EndsHere ==
  ASSUME NEW X, NEW m \in Memories(X), NEW p \in X \cup {m_head}, NEW m2,
         m2 = [m EXCEPT !.next[p] = Null]
  PROVE  EndsAt(m2, m, X, p)
<1>1. /\ m.next \in [X \cup {m_head} -> X \cup {m_head, Null}]
      /\ m.previous \in [X \cup {m_head} -> X \cup {m_head, Null}] /\ m.data \in [X -> {0, 1}]
      /\ m = [data |-> m.data, next |-> m.next, previous |-> m.previous]
  BY MemoryFields
<1>2. m2 = [data |-> m.data, next |-> [m.next EXCEPT ![p] = Null], previous |-> m.previous]
  BY <1>1
<1>3. PICK f : f = [m.next EXCEPT ![p] = Null]
  OBVIOUS
<1>4. f \in [X \cup {m_head} -> X \cup {m_head, Null}]
      /\ \A x \in X \cup {m_head} : f[x] = IF x = p THEN Null ELSE m.next[x]
  BY <1>1, <1>3
<1> QED
  BY <1>1, <1>2, <1>3, <1>4 DEF EndsAt, Memories

\* A chain that ends behind its node number d.
LEMMA TruncateLinked ==
  ASSUME NEW X, Apart(X), NEW m, NEW c \in Nat, NEW r, Linked(m, X, r, c), NEW d \in 0..c,
         NEW m2, EndsAt(m2, m, X, r[d]), NEW e, e = FrontOf(r, d)
  PROVE  Linked(m2, X, e, d) /\ Fronts(e, r, d)
<1>1. IsChain(X, r, c)
  BY DEF Linked
<1>2. /\ e \in [0..(d + 1) -> X \cup {m_head, Null}] /\ e[d + 1] = Null /\ \A j \in 0..d : e[j] = r[j] /\ j \in 0..(c + 1)
  <2>1. r \in [0..(c + 1) -> X \cup {m_head, Null}]
    BY <1>1 DEF IsChain
  <2>2. \A j \in 0..d : j <= d /\ j \in 0..(d + 1) /\ j \in 0..(c + 1)
    OBVIOUS
  <2>3. ~ (d + 1 <= d) /\ d + 1 \in 0..(d + 1)
    OBVIOUS
  <2> QED
    BY <2>1, <2>2, <2>3 DEF FrontOf
<1>3. \A j \in 1..d : j \in 0..d /\ j \in 1..c /\ j - 1 \in 0..d
  OBVIOUS
<1>4. IsChain(X, e, d)
  BY <1>1, <1>2, <1>3 DEF IsChain
<1>5. ASSUME NEW j \in 0..d PROVE m2.next[e[j]] = e[j + 1]
  <2>1. e[j] = r[j] /\ j \in 0..c /\ r[j] \in X \cup {m_head} /\ m.next[r[j]] = r[j + 1]
    <3>1. j \in 0..c
      OBVIOUS
    <3> QED
      BY <1>1, <1>2, <3>1, ChainApart DEF Linked
  <2>2. CASE j = d
    BY <1>2, <2>1, <2>2 DEF EndsAt
  <2>3. CASE j # d
    <3>1. j + 1 \in 0..d /\ j \in 0..(c + 1) /\ d \in 0..(c + 1)
      BY <2>3
    <3>4. \A a, b \in 0..(c + 1) : r[a] = r[b] => a = b
      BY <1>1, ChainApart
    <3>2. r[j] # r[d]
      BY <2>3, <3>1, <3>4
    <3>3. m2.next[r[j]] = r[j + 1]
      BY <2>1, <3>2 DEF EndsAt
    <3> QED
      BY <1>2, <2>1, <3>1, <3>3
  <2> QED
    BY <2>2, <2>3
<1>6. \A j \in 1..d : m2.previous[e[j]] = e[j - 1]
  BY <1>2, <1>3 DEF Linked, EndsAt
<1>7. d \in 0..d
  OBVIOUS
<1> QED
  BY <1>2, <1>3, <1>4, <1>5, <1>6, <1>7 DEF Linked, EndsAt, Fronts

\* The nodes behind the first d go.
LEMMA ListEnds ==
  ASSUME NEW c \in Nat, NEW r, ListIs(r, c), NEW d \in 0..c,
         mem' = [mem EXCEPT !.next[r[d]] = Null], heap' = heap \ {r[j] : j \in (d + 1)..c},
         m_tail' = IF d = 0 THEN Null ELSE r[d], m_size' = d,
         ref' \in Seq({0, 1}), IsCut(ref', ref, d, c - d), alive', ~ub'
  PROVE  ListInv'
<1>1. /\ IsChain(NodeIds, r, c) /\ mem \in Memories(NodeIds) /\ Linked(mem, NodeIds, r, c)
      /\ heap = Body(r, c) \cup {m_head} /\ Carries(mem, r, c, ref) /\ Len(ref) = c
  BY ListParts
<1>2. PICK m2, e : m2 = mem' /\ e = FrontOf(r, d)
  OBVIOUS
<1>3. EndsAt(m2, mem, NodeIds, r[d])
  <2>1. PICK X, m, p : X = NodeIds /\ m = mem /\ p = r[d]
    OBVIOUS
  <2>2. m \in Memories(X) /\ p \in X \cup {m_head} /\ m2 = [m EXCEPT !.next[p] = Null]
    <3>1. r[d] \in NodeIds \cup {m_head}
      BY <1>1, NodesApart, ChainApart
    <3> QED
      BY <1>1, <1>2, <2>1, <3>1
  <2>3. EndsAt(m2, m, X, p)
    BY <2>2, EndsHere
  <2> QED
    BY <2>1, <2>3
<1>4. Linked(m2, NodeIds, e, d) /\ d \in Nat /\ e[d] = r[d] /\ \A j \in 1..d : e[j] = r[j]
  <2>1. PICK X, m : X = NodeIds /\ m = mem
    OBVIOUS
  <2>2. Apart(X) /\ Linked(m, X, r, c) /\ EndsAt(m2, m, X, r[d])
    BY <1>1, <1>3, <2>1, NodesApart
  <2>3. Linked(m2, X, e, d) /\ Fronts(e, r, d)
    BY <1>2, <2>2, TruncateLinked
  <2> QED
    BY <2>1, <2>3 DEF Fronts
<1>5. Carries(m2, e, d, ref')
  <2>1. c - (c - d) = d
    OBVIOUS
  <2>2. Len(ref') = d /\ \A j \in 1..d : ref'[j] = ref[j]
    BY <1>1, <2>1 DEF IsCut
  <2>3. m2.data = mem.data /\ \A j \in 1..d : j \in 1..c
    BY <1>3 DEF EndsAt
  <2> QED
    BY <1>1, <1>4, <2>2, <2>3 DEF Carries
<1>6. heap' = Body(e, d) \cup {m_head}
  <2>1. Body(e, d) = {r[j] : j \in 1..d}
    BY <1>4 DEF Body
  <2>2. \A j \in 1..c : r[j] \in NodeIds /\ (j \in 1..d \/ j \in (d + 1)..c)
    BY <1>1 DEF IsChain
  <2>3. \A j \in 1..d : j \in 1..c /\ \A q \in (d + 1)..c : q \in 1..c /\ j # q
    OBVIOUS
  <2>4. \A j \in (d + 1)..c : j \in 1..c
    OBVIOUS
  <2>5. \A j \in 1..d : \A q \in (d + 1)..c : r[j] # r[q]
    BY <1>1, <2>3 DEF IsChain
  <2>6. m_head \notin NodeIds
    BY NodesApart DEF Apart
  <2>7. heap = {r[j] : j \in 1..c} \cup {m_head}
    BY <1>1 DEF Body
  <2> QED
    BY <2>1, <2>2, <2>3, <2>4, <2>5, <2>6, <2>7
<1>7. /\ alive' /\ ~ub' /\ Linked(mem', NodeIds, e, d) /\ heap' = Body(e, d) \cup {m_head} /\ m_size' = d
      /\ m_tail' = (IF d = 0 THEN Null ELSE e[d]) /\ Carries(mem', e, d, ref') /\ d \in Nat
  BY <1>2, <1>4, <1>5, <1>6
<1> QED
  BY <1>7, Listed

\* The chain, as the walk along next from the head finds it.
LEMMA ListChain ==
  ASSUME NEW c \in Nat, NEW r, Linked(mem, NodeIds, r, c)
  PROVE  L!Chain = [j \in 1..c |-> r[j]] /\ L!ToSet(L!Chain) = Body(r, c)
<1>1. L!Chain = L!Path(mem.next, mem.next[m_head], Cardinality(NodeIds) + 1)
  BY DEF L!Chain, L!ChainOf, L!Cardinality, Cardinality
<1>2. L!Chain = Chase(mem.next, mem.next[m_head], Cardinality(NodeIds) + 1)
  BY <1>1, SamePaths
<1>3. PICK X, m : X = NodeIds /\ m = mem
  OBVIOUS
<1>4. L!Chain = [j \in 1..c |-> r[j]]
  <2>1. Apart(X) /\ IsFiniteSet(X) /\ Linked(m, X, r, c)
    BY <1>3, NodesApart
  <2>2. Chase(m.next, m.next[m_head], Cardinality(X) + 1) = Listing(r, c)
    BY <2>1, WholeChain
  <2> QED
    BY <1>2, <1>3, <2>2 DEF Listing
<1> QED
  BY <1>4 DEF L!ToSet, Body

\* The least element of a set of one.
LEMMA OnlyMinimum ==
  ASSUME NEW x \in Nat
  PROVE  L!Min({x}) = x
BY DEF L!Min

\* The nodes from the one at q to the last.
Behind(r, q, c) == {r[j] : j \in q..c}

\* removeAt(pos, len) frees the nodes from the one at q to the last.
LEMMA ListSegment ==
  ASSUME NEW c \in Nat, NEW r, Linked(mem, NodeIds, r, c), NEW q \in 1..c
  PROVE  L!Segment(mem, r[q], r[c]) = Behind(r, q, c)
<1>1. /\ IsChain(NodeIds, r, c) /\ r[c + 1] = Null /\ \A j \in 0..c : mem.next[r[j]] = r[j + 1]
      /\ \A j \in 1..c : r[j] \in NodeIds
  BY DEF Linked, IsChain
<1>2. PICK M \in Nat : M = Cardinality(NodeIds) /\ c <= M /\ M # 0
  <2>1. PICK X : X = NodeIds
    OBVIOUS
  <2>2. IsFiniteSet(X) /\ IsChain(X, r, c)
    BY <1>1, <2>1, NodesApart
  <2>3. Cardinality(X) \in Nat /\ c <= Cardinality(X)
    BY <2>2, ChainFits
  <2> QED
    BY <2>1, <2>3
<1>3. PICK e \in Nat : e = c - q + 1 /\ e # 0 /\ e <= M
  BY <1>2
<1>4. PICK y : y = [j \in 1..e |-> r[q + j - 1]]
  OBVIOUS
<1>5. \A j \in 1..e : q + j - 1 \in 1..c /\ q + j - 1 \in 0..c
  BY <1>3
<1>6. y \in Seq(NodeIds) /\ Len(y) = e /\ y \in [1..e -> NodeIds] /\ \A j \in 1..e : y[j] = r[q + j - 1]
  <2>1. y \in [1..e -> NodeIds]
    BY <1>1, <1>4, <1>5
  <2>2. \A j \in 1..e : y[j] = r[q + j - 1]
    BY <1>4
  <2>3. y \in Seq(NodeIds) /\ Len(y) = e
    BY <2>1
  <2> QED
    BY <2>1, <2>2, <2>3
<1>7. Chase(mem.next, r[q], M) = Begin(y, e, M)
  <2>1. PICK f, p, X : f = mem.next /\ p = r[q] /\ X = NodeIds
    OBVIOUS
  <2>2. p = IF e = 0 THEN Null ELSE y[1]
    <3>1. 1 \in 1..e /\ q + 1 - 1 = q
      BY <1>3
    <3> QED
      BY <1>3, <1>6, <2>1, <3>1
  <2>3. ASSUME NEW j \in 1..e PROVE f[y[j]] = IF j = e THEN Null ELSE y[j + 1]
    <3>1. f[y[j]] = r[q + j]
      <4>1. (q + j - 1) + 1 = q + j
        OBVIOUS
      <4> QED
        BY <1>1, <1>5, <1>6, <2>1, <4>1
    <3>2. CASE j = e
      <4>1. q + j = c + 1
        BY <1>3, <3>2
      <4> QED
        BY <1>1, <3>1, <3>2, <4>1
    <3>3. CASE j # e
      <4>1. j + 1 \in 1..e /\ q + (j + 1) - 1 = q + j
        BY <1>3, <3>3
      <4> QED
        BY <1>6, <3>1, <3>3, <4>1
    <3> QED
      BY <3>2, <3>3
  <2>4. /\ Null \notin X /\ y \in [1..e -> X] /\ M \in Nat \ {0} /\ p = (IF e = 0 THEN Null ELSE y[1])
        /\ \A j \in 1..e : j < M => f[y[j]] = IF j = e THEN Null ELSE y[j + 1]
    BY <1>2, <1>6, <2>1, <2>2, <2>3, NodesApart DEF Apart
  <2>5. Chase(f, p, M) = Begin(y, e, M)
    <3>1. WalksOver(f, p, M, X, y, e)
      BY <2>4 DEF WalksOver
    <3>2. M \in Nat \ {0} /\ e \in Nat
      BY <1>2, <1>3
    <3> QED
      BY <3>1, <3>2, PathIs
  <2> QED
    BY <2>1, <2>5
<1>8. Begin(y, e, M) = y
  <2>1. (IF M <= e THEN M ELSE e) = e
    BY <1>2, <1>3
  <2>2. Begin(y, e, M) = [j \in 1..e |-> y[j]]
    BY <2>1 DEF Begin
  <2> QED
    BY <1>6, <2>2
<1>9. L!Path(mem.next, r[q], L!Cardinality(NodeIds)) = y
  <2>1. L!Cardinality(NodeIds) = M
    BY <1>2 DEF L!Cardinality, Cardinality
  <2> QED
    BY <1>7, <1>8, <2>1, SamePaths
<1>10. {j \in 1..Len(y) : y[j] = r[c]} = {e}
  <2>1. e \in 1..e /\ q + e - 1 = c
    BY <1>3
  <2>2. y[e] = r[c]
    BY <1>6, <2>1
  <2>3. ASSUME NEW j \in 1..e, y[j] = r[c] PROVE j = e
    <3>1. q + j - 1 \in 1..c /\ c \in 1..c /\ r[q + j - 1] = r[c]
      BY <1>5, <1>6, <2>3
    <3>2. q + j - 1 = c
      BY <1>1, <3>1 DEF IsChain
    <3> QED
      BY <1>3, <3>2
  <2> QED
    BY <1>6, <2>1, <2>2, <2>3
<1>11. L!SelectInSeq(y, LAMBDA n : n = r[c]) = e
  BY <1>10, OnlyMinimum DEF L!SelectInSeq
<1>12. SubSeq(y, 1, e) = y
  BY <1>6, WholeText
<1>13. L!Segment(mem, r[q], r[c]) = L!ToSet(y)
  BY <1>9, <1>11, <1>12 DEF L!Segment
<1>14. L!ToSet(y) = {r[q + j - 1] : j \in 1..e}
  BY <1>6 DEF L!ToSet
<1>15. {r[q + j - 1] : j \in 1..e} = {r[j] : j \in q..c}
  <2>1. \A j \in q..c : j - q + 1 \in 1..e /\ q + (j - q + 1) - 1 = j
    BY <1>3
  <2>2. \A j \in 1..e : q + j - 1 \in q..c
    BY <1>3
  <2> QED
    BY <2>1, <2>2
<1> QED
  BY <1>13, <1>14, <1>15 DEF Behind

\* removeRange.
LEMMA ListRemovesRange ==
  ASSUME ListInv, NEW pos \in Nat, NEW len \in Nat, L!removeRange(pos, len)
  PROVE  ListInv'
<1>1. alive /\ pos < m_size /\ pos + len >= m_size /\ alive' = alive
  BY DEF L!removeRange, L!May
<1>2. PICK c \in Nat : \E r : ListIs(r, c)
  BY <1>1 DEF ListInv
<1>3. PICK r : ListIs(r, c)
  BY <1>2
<1>4. /\ m_size = c /\ ref \in Seq({0, 1}) /\ Len(ref) = c /\ Linked(mem, NodeIds, r, c) /\ r[c + 1] = Null /\ r[0] = m_head
      /\ m_tail = (IF c = 0 THEN Null ELSE r[c]) /\ IsChain(NodeIds, r, c) /\ \A j \in 0..c : r[j] \in heap
  BY <1>3, ListParts
<1>5. PICK q \in 1..c : q = pos + 1
  BY <1>1, <1>4
<1>6. L!findNode(pos) = r[q] /\ L!ToSet(L!findPath(pos)) \subseteq heap
  BY <1>1, <1>3, <1>4, <1>5, ListFinds
<1>7. PICK n : n = m_size - pos
  OBVIOUS
<1>8. pos + n = m_size /\ n = c - pos /\ (IF pos + len >= m_size THEN m_size - pos ELSE len) = n
  BY <1>1, <1>4, <1>7
<1>9. PICK node : node = L!findNode(pos)
  OBVIOUS
<1>10. PICK tail : tail = m_tail
  OBVIOUS
<1>11. PICK before, freed : before = mem.previous[node] /\ freed = L!Segment(mem, node, tail)
  OBVIOUS
<1>12. /\ L!Touch(L!ToSet(L!findPath(pos)) \cup {before, tail} \cup freed)
       /\ m_tail' = (IF tail # m_tail THEN m_tail ELSE IF before = m_head THEN Null ELSE before)
       /\ mem' = [mem EXCEPT !.next[before] = mem.next[tail],
                             !.previous = IF mem.next[tail] = Null THEN @ ELSE [@ EXCEPT ![tail] = before]]
       /\ heap' = heap \ freed /\ m_size' = m_size - n
       /\ ref' = SubSeq(ref, 1, pos) \o SubSeq(ref, pos + n + 1, Len(ref))
  BY <1>8, <1>9, <1>10, <1>11 DEF L!removeRange
<1>13. c # 0 /\ c \in 0..c /\ q \in 1..c /\ q - 1 = pos /\ pos \in 0..c /\ q \in 0..c
  BY <1>1, <1>4, <1>5
<1>14. tail = r[c] /\ before = r[pos] /\ mem.next[tail] = Null
  BY <1>4, <1>6, <1>9, <1>10, <1>11, <1>13 DEF Linked
<1>15. freed = {r[j] : j \in q..c}
  <2>1. c \in Nat /\ Linked(mem, NodeIds, r, c) /\ q \in 1..c
    BY <1>4
  <2>2. L!Segment(mem, r[q], r[c]) = Behind(r, q, c)
    BY <2>1, ListSegment, ZenonT(60)
  <2>3. node = r[q] /\ tail = r[c]
    BY <1>6, <1>9, <1>14
  <2> QED
    BY <1>11, <2>2, <2>3 DEF Behind
<1>16. ~ub'
  <2>1. \A j \in q..c : j \in 0..c
    OBVIOUS
  <2>2. freed \subseteq heap /\ tail \in heap /\ before \in heap
    BY <1>4, <1>13, <1>14, <1>15, <2>1
  <2> QED
    BY <1>6, <1>12, <2>2 DEF L!Touch
<1>17. mem' = [mem EXCEPT !.next[r[pos]] = Null]
  <2>1. /\ mem.next \in [NodeIds \cup {m_head} -> NodeIds \cup {m_head, Null}]
        /\ mem = [data |-> mem.data, next |-> mem.next, previous |-> mem.previous]
    BY <1>4, MemoryFields DEF Linked
  <2> QED
    BY <1>12, <1>14, <2>1
<1>18. m_tail' = IF pos = 0 THEN Null ELSE r[pos]
  <2>1. pos # 0 => r[pos] # m_head
    <3>1. pos # 0 => pos \in 1..c
      BY <1>13
    <3> QED
      BY <1>4, <3>1, NodesApart DEF IsChain, Apart
  <2> QED
    BY <1>4, <1>10, <1>12, <1>14, <2>1
<1>19. ref' \in Seq({0, 1}) /\ IsCut(ref', ref, pos, n)
  <2>1. pos \in 0..Len(ref) /\ n \in Nat /\ pos + n <= Len(ref)
    BY <1>4, <1>8, <1>13
  <2> QED
    BY <1>4, <1>12, <2>1, SeqCut
<1>20. m_size' = pos
  BY <1>4, <1>8, <1>12
<1>21. {r[j] : j \in (pos + 1)..c} = freed
  BY <1>5, <1>15
<1>22. /\ ListIs(r, c) /\ pos \in 0..c /\ mem' = [mem EXCEPT !.next[r[pos]] = Null]
       /\ heap' = heap \ {r[j] : j \in (pos + 1)..c} /\ m_tail' = (IF pos = 0 THEN Null ELSE r[pos]) /\ m_size' = pos
       /\ ref' \in Seq({0, 1}) /\ IsCut(ref', ref, pos, c - pos) /\ alive' /\ ~ub'
  BY <1>1, <1>3, <1>8, <1>12, <1>13, <1>16, <1>17, <1>18, <1>19, <1>20, <1>21
<1> QED
  BY <1>22, ListEnds

\* clear and the destructor.
LEMMA ListFrees ==
  ASSUME ListInv, L!clear \/ L!destroy
  PROVE  ListInv'
<1>1. /\ alive /\ L!Touch(L!ToSet(L!Chain)) /\ mem' = [mem EXCEPT !.next[m_head] = Null]
      /\ m_tail' = Null /\ m_size' = 0 /\ ref' = <<>>
  BY DEF L!clear, L!destroy, L!May
<1>2. PICK c \in Nat : \E r : ListIs(r, c)
  BY <1>1 DEF ListInv
<1>3. PICK r : ListIs(r, c)
  BY <1>2
<1>4. /\ ref \in Seq({0, 1}) /\ Len(ref) = c /\ Linked(mem, NodeIds, r, c) /\ r[0] = m_head
      /\ heap = Body(r, c) \cup {m_head}
  BY <1>3, ListParts
<1>5. L!ToSet(L!Chain) = Body(r, c)
  BY <1>4, ListChain
<1>6. ~ub'
  BY <1>1, <1>4, <1>5 DEF L!Touch
<1>7. CASE L!destroy
  <2>1. alive' = FALSE /\ heap' = heap \ (Body(r, c) \cup {m_head})
    BY <1>5, <1>7 DEF L!destroy
  <2> QED
    BY <1>4, <1>6, <2>1 DEF ListInv
<1>8. CASE L!clear
  <2>1. alive' = alive /\ heap' = heap \ Body(r, c)
    BY <1>5, <1>8 DEF L!clear
  <2>2. PICK d \in 0..c : d = 0 /\ r[d] = m_head
    BY <1>4
  <2>3. {r[j] : j \in (d + 1)..c} = Body(r, c)
    BY <2>2 DEF Body
  <2>4. ref' \in Seq({0, 1}) /\ IsCut(ref', ref, d, c - d)
    <3>1. ref' \in Seq({0, 1}) /\ Len(ref') = 0
      BY <1>1
    <3>2. Len(ref) - (c - d) = 0
      BY <1>4, <2>2
    <3> QED
      BY <3>1, <3>2 DEF IsCut
  <2>5. /\ ListIs(r, c) /\ mem' = [mem EXCEPT !.next[r[d]] = Null]
        /\ heap' = heap \ {r[j] : j \in (d + 1)..c} /\ m_tail' = (IF d = 0 THEN Null ELSE r[d]) /\ m_size' = d
        /\ ref' \in Seq({0, 1}) /\ IsCut(ref', ref, d, c - d) /\ alive' /\ ~ub'
    BY <1>1, <1>3, <1>6, <2>1, <2>2, <2>3, <2>4
  <2> QED
    BY <2>5, ListEnds
<1> QED
  BY <1>7, <1>8

\* swap exchanges the values of two nodes.
LEMMA ListSwaps ==
  ASSUME ListInv, NEW x \in Nat, NEW y \in Nat, L!swap(x, y)
  PROVE  ListInv'
<1>1. /\ alive /\ x < m_size /\ y < m_size /\ UNCHANGED <<heap, m_tail, m_size, alive>>
      /\ ref' = [ref EXCEPT ![x + 1] = ref[y + 1], ![y + 1] = ref[x + 1]]
  BY DEF L!swap, L!May
<1>2. PICK c \in Nat : \E r : ListIs(r, c)
  BY <1>1 DEF ListInv
<1>3. PICK r : ListIs(r, c)
  BY <1>2
<1>4. /\ m_size = c /\ ref \in Seq({0, 1}) /\ Len(ref) = c /\ Linked(mem, NodeIds, r, c) /\ IsChain(NodeIds, r, c)
      /\ heap = Body(r, c) \cup {m_head} /\ Carries(mem, r, c, ref) /\ mem \in Memories(NodeIds)
      /\ m_tail = (IF c = 0 THEN Null ELSE r[c])
  BY <1>3, ListParts
<1>5. PICK p \in 1..c, q \in 1..c : p = x + 1 /\ q = y + 1
  BY <1>1, <1>4
<1>6. /\ L!findNode(x) = r[p] /\ L!findNode(y) = r[q]
      /\ L!ToSet(L!findPath(x)) \subseteq heap /\ L!ToSet(L!findPath(y)) \subseteq heap
  BY <1>1, <1>3, <1>4, <1>5, ListFinds
<1>7. PICK n, s : n = r[p] /\ s = r[q]
  OBVIOUS
<1>8. /\ L!Touch(L!ToSet(L!findPath(x)) \cup L!ToSet(L!findPath(y)))
      /\ mem' = [mem EXCEPT !.data[n] = mem.data[s], !.data[s] = mem.data[n]]
  BY <1>6, <1>7 DEF L!swap
<1>9. ~ub'
  BY <1>6, <1>8 DEF L!Touch
<1>10. /\ mem.data \in [NodeIds -> {0, 1}] /\ n \in NodeIds /\ s \in NodeIds
       /\ mem = [data |-> mem.data, next |-> mem.next, previous |-> mem.previous]
  BY <1>4, <1>7, MemoryFields DEF IsChain
<1>11. PICK d : d = [mem.data EXCEPT ![n] = mem.data[s], ![s] = mem.data[n]]
  OBVIOUS
<1>12. mem' = [data |-> d, next |-> mem.next, previous |-> mem.previous]
  BY <1>8, <1>10, <1>11
<1>13. d \in [NodeIds -> {0, 1}]
       /\ \A z \in NodeIds : d[z] = IF z = s THEN mem.data[n] ELSE IF z = n THEN mem.data[s] ELSE mem.data[z]
  BY <1>10, <1>11
<1>14. mem'.data = d /\ mem'.next = mem.next /\ mem'.previous = mem.previous
  BY <1>12
<1>15. Linked(mem', NodeIds, r, c)
  <2>1. mem' \in Memories(NodeIds)
    BY <1>4, <1>12, <1>13 DEF Memories
  <2> QED
    BY <1>4, <1>14, <2>1 DEF Linked
<1>16. PICK t : t = ref'
  OBVIOUS
<1>17. t \in Seq({0, 1}) /\ Len(t) = c /\ \A j \in 1..c : t[j] = IF j = q THEN ref[p] ELSE IF j = p THEN ref[q] ELSE ref[j]
  <2>1. t = [ref EXCEPT ![p] = ref[q], ![q] = ref[p]]
    BY <1>1, <1>5, <1>16
  <2>2. ref[p] \in {0, 1} /\ ref[q] \in {0, 1} /\ DOMAIN ref = 1..c
    BY <1>4
  <2> QED
    BY <1>4, <2>1, <2>2
<1>18. Carries(mem', r, c, t)
  <2>1. \A j \in 1..c : r[j] \in NodeIds /\ (r[j] = n <=> j = p) /\ (r[j] = s <=> j = q)
    BY <1>4, <1>7 DEF IsChain
  <2>2. \A j \in 1..c : mem.data[r[j]] = ref[j]
    BY <1>4 DEF Carries
  <2>3. ASSUME NEW j \in 1..c PROVE mem'.data[r[j]] = t[j]
    <3>1. d[r[j]] = IF j = q THEN mem.data[n] ELSE IF j = p THEN mem.data[s] ELSE mem.data[r[j]]
      BY <1>13, <2>1
    <3>2. mem.data[n] = ref[p] /\ mem.data[s] = ref[q] /\ mem.data[r[j]] = ref[j]
      BY <1>7, <2>2
    <3> QED
      BY <1>14, <1>17, <3>1, <3>2
  <2> QED
    BY <1>17, <2>3 DEF Carries
<1>19. /\ alive' /\ ~ub' /\ Linked(mem', NodeIds, r, c) /\ heap' = Body(r, c) \cup {m_head} /\ m_size' = c
       /\ m_tail' = (IF c = 0 THEN Null ELSE r[c]) /\ Carries(mem', r, c, ref')
  BY <1>1, <1>4, <1>9, <1>15, <1>16, <1>18
<1> QED
  BY <1>19, Listed

\* A call that is refused, and the steps of the other tests.
LEMMA ListStays ==
  ASSUME ListInv, L!refused \/ UNCHANGED L!vars
  PROVE  ListInv'
BY DEF L!refused, L!vars, ListInv, ListIs

\* The list's first state.
LEMMA ListStarts ==
  ASSUME L!Init
  PROVE  ListInv
<1>1. mem = L!NoNodes /\ heap = {m_head} /\ m_tail = Null /\ m_size = 0 /\ ub = FALSE /\ ref = <<>> /\ alive = TRUE
  BY DEF L!Init
<1>2. mem \in Memories(NodeIds) /\ mem.next[m_head] = Null
  <2>1. (CHOOSE v \in {0, 1} : TRUE) \in {0, 1}
    OBVIOUS
  <2>2. PICK d \in {0, 1} : d = CHOOSE v \in {0, 1} : TRUE
    BY <2>1
  <2> QED
    BY <1>1, <2>2 DEF Memories, L!NoNodes
<1>3. Linked(mem, NodeIds, Alone, 0) /\ Body(Alone, 0) = {} /\ Carries(mem, Alone, 0, <<>>)
  BY <1>2, AloneLinked, NodesApart
<1>4. ListIs(Alone, 0)
  BY <1>1, <1>3 DEF ListIs
<1> QED
  BY <1>1, <1>4 DEF ListInv

\* A walk from either end finds the same nodes, in the order of the elements.
LEMMA ListHolds ==
  ASSUME ListInv
  PROVE  L!WellLinked /\ L!MemorySafe /\ L!SameAsReference
<1>1. CASE ~alive
  BY <1>1 DEF ListInv, L!WellLinked, L!MemorySafe, L!SameAsReference
<1>2. CASE alive
  <2>1. PICK c \in Nat : \E r : ListIs(r, c)
    BY <1>2 DEF ListInv
  <2>2. PICK r : ListIs(r, c)
    BY <2>1
  <2>3. /\ m_size = c /\ ref \in Seq({0, 1}) /\ Len(ref) = c /\ Linked(mem, NodeIds, r, c) /\ IsChain(NodeIds, r, c)
        /\ heap = Body(r, c) \cup {m_head} /\ Carries(mem, r, c, ref) /\ r[0] = m_head
        /\ m_tail = (IF c = 0 THEN Null ELSE r[c])
    BY <2>2, ListParts
  <2>4. PICK s : s = [j \in 1..c |-> r[j]]
    OBVIOUS
  <2>5. L!Chain = s /\ L!ToSet(L!Chain) = Body(r, c)
    BY <2>3, <2>4, ListChain
  <2>6. s \in Seq(NodeIds) /\ Len(s) = c /\ DOMAIN s = 1..c /\ \A j \in 1..c : s[j] = r[j]
    <3>1. s \in [1..c -> NodeIds]
      BY <2>3, <2>4 DEF IsChain
    <3> QED
      BY <2>4, <3>1
  <2>7. L!MemorySafe
    BY <1>2, <2>3, <2>5 DEF ListInv, L!MemorySafe
  <2>8. L!SameAsReference
    <3>1. L!Contents = [j \in 1..c |-> mem.data[s[j]]]
      BY <2>5, <2>6 DEF L!Contents
    <3>2. \A j \in 1..c : mem.data[s[j]] = ref[j]
      BY <2>3, <2>6 DEF Carries
    <3>3. PICK t : t = L!Contents
      OBVIOUS
    <3>4. t = [j \in 1..c |-> ref[j]]
      BY <3>1, <3>2, <3>3
    <3>5. t = ref
      <4>1. t \in Seq({0, 1}) /\ Len(t) = c /\ \A j \in 1..c : t[j] = ref[j]
        <5>1. \A j \in 1..c : ref[j] \in {0, 1}
          BY <2>3
        <5>2. t \in [1..c -> {0, 1}]
          BY <3>4, <5>1
        <5> QED
          BY <3>4, <5>2
      <4> QED
        BY <2>3, <4>1, SeqEqual
    <3> QED
      BY <2>3, <3>3, <3>5 DEF L!SameAsReference
  <2>9. L!WellLinked
    <3>1. m_size = Len(L!Chain)
      BY <2>3, <2>5, <2>6
    <3>2. m_tail = IF L!Chain = <<>> THEN Null ELSE L!Last(L!Chain)
      <4>1. s = <<>> <=> c = 0
        BY <2>6, NoElements
      <4>2. c # 0 => s[Len(s)] = r[c]
        <5>1. c # 0 => c \in 1..c
          OBVIOUS
        <5> QED
          BY <2>6, <5>1
      <4> QED
        BY <2>3, <2>5, <4>1, <4>2 DEF L!Last
    <3>3. ASSUME NEW j \in 1..c
          PROVE  /\ mem.previous[s[j]] = IF j = 1 THEN m_head ELSE s[j - 1]
                 /\ L!findNode(j - 1) = s[j]
      <4>1. mem.previous[r[j]] = r[j - 1] /\ s[j] = r[j]
        BY <2>3, <2>6 DEF Linked
      <4>2. j # 1 => s[j - 1] = r[j - 1]
        <5>1. j # 1 => j - 1 \in 1..c
          OBVIOUS
        <5> QED
          BY <2>6, <5>1
      <4>3. PICK pos \in Nat : pos = j - 1 /\ pos < c /\ pos + 1 = j
        OBVIOUS
      <4>4. L!findNode(pos) = r[pos + 1]
        BY <2>2, <4>3, ListFinds
      <4>5. j = 1 => r[j - 1] = m_head
        BY <2>3
      <4> QED
        BY <4>1, <4>2, <4>3, <4>4, <4>5
    <3> QED
      BY <2>5, <2>6, <3>1, <3>2, <3>3 DEF L!WellLinked
  <2> QED
    BY <2>7, <2>8, <2>9
<1> QED
  BY <1>1, <1>2

\* What is left of a chain and of what it carries when unlink takes the node at q out.
LEMMA UnlinkAt ==
  ASSUME NEW X, Apart(X), NEW m, NEW c \in Nat, NEW r, Linked(m, X, r, c), NEW s, Carries(m, r, c, s),
         NEW q \in 1..c, NEW t \in Seq({0, 1}), IsRemoved(t, s, q), NEW m2, m2 = L!unlink(m, r[q]),
         NEW e, e = Removed(r, c, q), NEW d, d = c - 1
  PROVE  Linked(m2, X, e, d) /\ d \in Nat /\ BodyWithout(e, d, r, c, q) /\ Carries(m2, e, d, t)
<1>1. m.previous[r[q]] = r[q - 1] /\ m.next[r[q]] = r[q + 1]
  <2>1. q \in 0..c
    OBVIOUS
  <2> QED
    BY <2>1 DEF Linked
<1>2. m2 = [m EXCEPT !.next[r[q - 1]] = r[q + 1],
                     !.previous = IF r[q + 1] = Null THEN @ ELSE [@ EXCEPT ![r[q + 1]] = r[q - 1]]]
  BY <1>1 DEF L!unlink
<1>3. UnlinkedIn(m2, m, X, r, q)
  BY <1>2, Unlinks
<1>4. /\ Linked(m2, X, Removed(r, c, q), c - 1) /\ c - 1 \in Nat
      /\ BodyWithout(Removed(r, c, q), c - 1, r, c, q)
  BY <1>3, ShrinksAt
<1>5. m2.data = m.data
  BY <1>3 DEF UnlinkedIn
<1>6. Carries(m2, Removed(r, c, q), c - 1, t)
  BY <1>5, RemoveCarries
<1> QED
  BY <1>4, <1>6

\* removeOne has met the first p nodes of r, which carries s, and taken out those
\* at the positions gone: left are the nodes e, the first n of them with the
\* elements x, and behind them those that it has not met.
Passed(e, d, n, r, c, p) ==
  /\ d = n + (c - p) /\ d # 0 /\ e[d] = r[c]
  /\ \A a \in 1..(c - p) : e[n + a] = r[p + a]

Upto(gone, p) == {b \in gone : b <= p}
NodesAt(r, I) == {r[b] : b \in I}

Spared(e, d, r, c, gone, p) ==
  /\ Body(e, d) = Body(r, c) \ NodesAt(r, Upto(gone, p))
  /\ d = c - Cardinality(Upto(gone, p))

Half(X, m2, e, d, z, x, n, r, c, s, p, gone) ==
  /\ Linked(m2, X, e, d) /\ Carries(m2, e, d, z) /\ z \in Seq({0, 1}) /\ d \in Nat
  /\ Joined(z, x, s, p, n) /\ Passed(e, d, n, r, c, p) /\ Spared(e, d, r, c, gone, p)

\* One more of the positions is behind the loop.
LEMMA UptoNext ==
  ASSUME NEW c \in Nat, NEW gone, gone \subseteq 1..c, NEW p \in Nat, p + 1 \in gone
  PROVE  /\ Cardinality(Upto(gone, p)) \in Nat
         /\ Upto(gone, p + 1) = Upto(gone, p) \cup {p + 1}
         /\ Cardinality(Upto(gone, p + 1)) = Cardinality(Upto(gone, p)) + 1
<1>1. Upto(gone, p) \subseteq 1..c /\ IsFiniteSet(1..c)
  <2>1. Upto(gone, p) \subseteq 1..c
    BY DEF Upto
  <2>2. IsFiniteSet(1..c)
    <3>1. 1 \in Int /\ c \in Int
      OBVIOUS
    <3> QED
      BY <3>1, FS_Interval
  <2> QED
    BY <2>1, <2>2
<1>2. IsFiniteSet(Upto(gone, p))
  BY <1>1, FS_Subset
<1>3. Cardinality(Upto(gone, p)) \in Nat
  BY <1>2, FS_CardinalityType
<1>4. \A b \in gone : b <= p + 1 <=> (b <= p \/ b = p + 1)
  OBVIOUS
<1>6. Upto(gone, p + 1) = Upto(gone, p) \cup {p + 1}
  BY <1>4 DEF Upto
<1>7. p + 1 \notin Upto(gone, p)
  BY DEF Upto
<1>8. Cardinality(Upto(gone, p) \cup {p + 1}) = Cardinality(Upto(gone, p)) + 1
  BY <1>2, <1>7, FS_AddElement
<1> QED
  BY <1>3, <1>6, <1>8

\* A turn of removeOne's loop that keeps its node.
LEMMA HalfKept ==
  ASSUME NEW X, NEW m2, NEW e, NEW d, NEW z, NEW x \in Seq({0, 1}), NEW n \in Nat, NEW c \in Nat, NEW r,
         NEW s \in Seq({0, 1}), Len(s) = c, NEW p \in Nat, p < c, NEW gone, gone \subseteq 1..c, p + 1 \notin gone,
         Half(X, m2, e, d, z, x, n, r, c, s, p, gone)
  PROVE  Half(X, m2, e, d, z, Append(x, s[p + 1]), n + 1, r, c, s, p + 1, gone)
<1>1. /\ Linked(m2, X, e, d) /\ Carries(m2, e, d, z) /\ z \in Seq({0, 1}) /\ d \in Nat
      /\ Joined(z, x, s, p, n) /\ Passed(e, d, n, r, c, p) /\ Spared(e, d, r, c, gone, p)
  BY DEF Half
<1>2. Joined(z, Append(x, s[p + 1]), s, p + 1, n + 1)
  BY <1>1, JoinedGrows
<1>3. Upto(gone, p + 1) = Upto(gone, p)
  <2>1. \A b \in gone : b <= p + 1 <=> b <= p
    OBVIOUS
  <2> QED
    BY <2>1 DEF Upto
<1>4. Spared(e, d, r, c, gone, p + 1)
  BY <1>1, <1>3 DEF Spared
<1>5. d = n + (c - p) /\ d # 0 /\ e[d] = r[c] /\ \A a \in 1..(c - p) : e[n + a] = r[p + a]
  BY <1>1 DEF Passed
<1>6. d = (n + 1) + (c - (p + 1))
  BY <1>5
<1>7. ASSUME NEW a \in 1..(c - (p + 1)) PROVE e[(n + 1) + a] = r[(p + 1) + a]
  <2>1. a + 1 \in 1..(c - p) /\ n + (a + 1) = (n + 1) + a /\ p + (a + 1) = (p + 1) + a
    OBVIOUS
  <2>2. e[n + (a + 1)] = r[p + (a + 1)]
    BY <1>5, <2>1
  <2> QED
    BY <2>1, <2>2
<1>8. Passed(e, d, n + 1, r, c, p + 1)
  BY <1>5, <1>6, <1>7 DEF Passed
<1> QED
  BY <1>1, <1>2, <1>4, <1>8 DEF Half

HalfLeft(X, m2, x, n, r, c, s, p, gone) == \E e, d, z : Half(X, m2, e, d, z, x, n, r, c, s, p, gone)

\* A turn that unlinks its node.
LEMMA HalfGone ==
  ASSUME NEW X, Apart(X), NEW m2, NEW e, NEW d, NEW z, NEW x \in Seq({0, 1}), NEW n \in Nat, NEW c \in Nat, NEW r,
         NEW s \in Seq({0, 1}), Len(s) = c, NEW p \in Nat, p + 1 < c, NEW gone, gone \subseteq 1..c, p + 1 \in gone,
         Half(X, m2, e, d, z, x, n, r, c, s, p, gone)
  PROVE  HalfLeft(X, L!unlink(m2, r[p + 1]), x, n, r, c, s, p + 1, gone)
<1>1. /\ Linked(m2, X, e, d) /\ Carries(m2, e, d, z) /\ z \in Seq({0, 1}) /\ d \in Nat
      /\ Joined(z, x, s, p, n) /\ Passed(e, d, n, r, c, p) /\ Spared(e, d, r, c, gone, p)
  BY DEF Half
<1>2. d = n + (c - p) /\ d # 0 /\ e[d] = r[c] /\ \A a \in 1..(c - p) : e[n + a] = r[p + a]
  BY <1>1 DEF Passed
<1>3. PICK q \in 1..d : q = n + 1
  BY <1>1, <1>2
<1>4. e[q] = r[p + 1] /\ q # d
  <2>1. 1 \in 1..(c - p) /\ n + 1 # d
    BY <1>2
  <2> QED
    BY <1>2, <1>3, <2>1
<1>5. Len(z) = d /\ z[q] = s[p + 1]
  <2>1. Len(x) = n /\ Len(z) = n + c - p /\ \A a \in 1..(c - p) : z[a + n] = s[a + p]
    BY <1>1 DEF Joined
  <2>2. 1 \in 1..(c - p) /\ 1 + n = n + 1 /\ 1 + p = p + 1
    OBVIOUS
  <2>3. z[1 + n] = s[1 + p] /\ n + c - p = n + (c - p)
    BY <2>1, <2>2
  <2> QED
    BY <1>2, <1>3, <2>1, <2>2, <2>3
<1>6. PICK z2 : z2 = CutAt(z, n + 1, s[p + 1])
  OBVIOUS
<1>7. z2 \in Seq({0, 1}) /\ Joined(z2, x, s, p + 1, n)
  <2>1. p < Len(s) /\ z[n + 1] = s[p + 1]
    BY <1>3, <1>5
  <2> QED
    BY <1>1, <1>6, <2>1, JoinedShrinks
<1>8. IsRemoved(z2, z, q)
  <2>1. z2 = SubSeq(z, 1, q - 1) \o SubSeq(z, q + 1, Len(z))
    <3>1. q <= Len(z)
      BY <1>5
    <3> QED
      BY <1>3, <1>5, <1>6, <3>1 DEF CutAt, V!RemoveAt
  <2>2. q \in 1..Len(z)
    BY <1>5
  <2> QED
    BY <1>1, <2>1, <2>2, SeqRemoved
<1>9. PICK m3, e2, d2 : m3 = L!unlink(m2, e[q]) /\ e2 = Removed(e, d, q) /\ d2 = d - 1
  OBVIOUS
<1>10. Linked(m3, X, e2, d2) /\ d2 \in Nat /\ BodyWithout(e2, d2, e, d, q) /\ Carries(m3, e2, d2, z2)
  BY <1>1, <1>7, <1>8, <1>9, UnlinkAt
<1>11. \A j \in 0..d : e2[j] = IF j < q THEN e[j] ELSE e[j + 1]
  BY <1>9 DEF Removed
<1>12. Passed(e2, d2, n, r, c, p + 1)
  <2>1. d2 = n + (c - (p + 1)) /\ d2 # 0
    BY <1>2, <1>9
  <2>2. e2[d2] = r[c]
    <3>1. d2 \in 0..d /\ ~ (d2 < q) /\ d2 + 1 = d
      BY <1>1, <1>3, <1>4, <1>9
    <3> QED
      BY <1>2, <1>11, <3>1
  <2>3. ASSUME NEW a \in 1..(c - (p + 1)) PROVE e2[n + a] = r[(p + 1) + a]
    <3>1. n + a \in 0..d /\ ~ (n + a < q) /\ a + 1 \in 1..(c - p)
      BY <1>2, <1>3
    <3>2. (n + a) + 1 = n + (a + 1) /\ (p + 1) + a = p + (a + 1)
      OBVIOUS
    <3>3. e2[n + a] = e[(n + a) + 1]
      BY <1>11, <3>1
    <3>4. e[n + (a + 1)] = r[p + (a + 1)]
      BY <1>2, <3>1
    <3> QED
      BY <3>2, <3>3, <3>4
  <2> QED
    BY <2>1, <2>2, <2>3 DEF Passed
<1>13. Spared(e2, d2, r, c, gone, p + 1)
  <2>1. /\ Upto(gone, p + 1) = Upto(gone, p) \cup {p + 1} /\ Cardinality(Upto(gone, p)) \in Nat
        /\ Cardinality(Upto(gone, p + 1)) = Cardinality(Upto(gone, p)) + 1
    <3>1. c \in Nat /\ gone \subseteq 1..c /\ p \in Nat /\ p + 1 \in gone
      OBVIOUS
    <3> QED
      BY <3>1, UptoNext, ZenonT(60)
  <2>2. Body(e, d) = Body(r, c) \ NodesAt(r, Upto(gone, p)) /\ d = c - Cardinality(Upto(gone, p))
    BY <1>1 DEF Spared
  <2>3. NodesAt(r, Upto(gone, p + 1)) = NodesAt(r, Upto(gone, p)) \cup {r[p + 1]}
    BY <2>1 DEF NodesAt
  <2>4. Body(e2, d2) = Body(e, d) \ {r[p + 1]}
    BY <1>4, <1>10 DEF BodyWithout
  <2>5. Body(e2, d2) = Body(r, c) \ NodesAt(r, Upto(gone, p + 1))
    BY <2>2, <2>3, <2>4
  <2>6. d2 = c - Cardinality(Upto(gone, p + 1))
    BY <1>9, <2>1, <2>2
  <2> QED
    BY <2>5, <2>6 DEF Spared
<1>14. m3 = L!unlink(m2, r[p + 1])
  BY <1>4, <1>9
<1>15. Half(X, m3, e2, d2, z2, x, n, r, c, s, p + 1, gone)
  BY <1>7, <1>10, <1>12, <1>13 DEF Half
<1> QED
  BY <1>14, <1>15 DEF HalfLeft

\* The loop of removeOne: it takes the nodes seen at the positions gone out of m.
Unlinked(m, seen, gone) ==
  LET left[j \in 0..Len(seen)] ==
        IF j = 0 THEN m ELSE IF j \in gone THEN L!unlink(left[j - 1], seen[j]) ELSE left[j - 1]
  IN  left[Len(seen)]

TakesOut(f, m, seen, gone) ==
  f[0] = m /\ \A j \in 1..Len(seen) : f[j] = IF j \in gone THEN L!unlink(f[j - 1], seen[j]) ELSE f[j - 1]

\* unlink keeps the memory's type.
LEMMA UnlinkTyped ==
  ASSUME NEW X, m_head \notin X, NEW m \in Memories(X), NEW n \in X
  PROVE  L!unlink(m, n) \in Memories(X)
<1>1. /\ m.next \in [X \cup {m_head} -> X \cup {m_head, Null}]
      /\ m.previous \in [X \cup {m_head} -> X \cup {m_head, Null}]
      /\ m.data \in [X -> {0, 1}]
      /\ m = [data |-> m.data, next |-> m.next, previous |-> m.previous]
  BY MemoryFields
<1>2. PICK p, s : p = m.previous[n] /\ s = m.next[n]
  OBVIOUS
<1>3. p \in X \cup {m_head, Null} /\ s \in X \cup {m_head, Null}
  BY <1>1, <1>2
<1>4. PICK f, g : f = [m.next EXCEPT ![p] = s] /\ g = IF s = Null THEN m.previous ELSE [m.previous EXCEPT ![s] = p]
  OBVIOUS
<1>5. f \in [X \cup {m_head} -> X \cup {m_head, Null}]
  BY <1>1, <1>3, <1>4
<1>6. g \in [X \cup {m_head} -> X \cup {m_head, Null}]
  BY <1>1, <1>3, <1>4
<1>7. L!unlink(m, n) = [m EXCEPT !.next = f, !.previous = g]
  BY <1>2, <1>4 DEF L!unlink
<1>8. L!unlink(m, n) = [data |-> m.data, next |-> f, previous |-> g]
  BY <1>1, <1>7
<1> QED
  BY <1>1, <1>5, <1>6, <1>8 DEF Memories

\* removeOne's loop and the memory after each turn.
LEMMA UnlinkedTakesOut ==
  ASSUME NEW X, m_head \notin X, NEW m \in Memories(X), NEW seen \in Seq(X), NEW gone
  PROVE  \E f : TakesOut(f, m, seen, gone) /\ Unlinked(m, seen, gone) = f[Len(seen)]
<1> DEFINE Step(w, j) == IF j \in gone THEN L!unlink(w, seen[j]) ELSE w
           Fun(w) == w = [j \in 0..Len(seen) |-> IF j = 0 THEN m ELSE Step(w[j - 1], j)]
<1>1. Unlinked(m, seen, gone) = (CHOOSE w : Fun(w))[Len(seen)]
  BY DEF Unlinked
<1>2. PICK n \in Nat : n = Len(seen)
  OBVIOUS
<1>3. PICK W : W = Memories(X)
  OBVIOUS
<1>4. PICK g : g = [j \in 1..n |-> [w \in W |-> Step(w, j)]]
  OBVIOUS
<1>5. g \in [1..n -> [W -> W]]
  <2>1. ASSUME NEW j \in 1..n, NEW w \in W PROVE Step(w, j) \in W
    <3>1. seen[j] \in X
      BY <1>2
    <3> QED
      BY <1>3, <3>1, UnlinkTyped
  <2> HIDE DEF Step
  <2>2. \A j \in 1..n : [w \in W |-> Step(w, j)] \in [W -> W]
    BY <2>1
  <2> QED
    BY <1>4, <2>2
<1>6. PICK f : f \in [0..n -> W] /\ LoopOf(f, m, g, n)
  BY <1>3, <1>5, Loops
<1>7. f[0] = m /\ \A j \in 1..n : f[j] = Step(f[j - 1], j)
  <2>1. \A j \in 1..n : j - 1 \in 0..n
    OBVIOUS
  <2>2. f[0] = m /\ \A j \in 1..n : f[j] = g[j][f[j - 1]]
    BY <1>6 DEF LoopOf
  <2> HIDE DEF Step
  <2> QED
    BY <1>4, <1>6, <2>1, <2>2
<1>8. Fun(f)
  <2>1. \A j \in 0..n : j # 0 => j \in 1..n
    OBVIOUS
  <2>2. f = [j \in 0..n |-> IF j = 0 THEN m ELSE f[j]]
    BY <1>6, <1>7
  <2> HIDE DEF Step
  <2> QED
    BY <1>2, <1>7, <2>1, <2>2
<1>9. PICK w : w = CHOOSE z : Fun(z)
  OBVIOUS
<1>10. Fun(w)
  BY <1>8, <1>9
<1>11. w[0] = m /\ \A j \in 1..n : w[j] = Step(w[j - 1], j)
  <2>1. \A j \in 1..n : j \in 0..n /\ j # 0
    OBVIOUS
  <2> HIDE DEF Step
  <2> QED
    BY <1>2, <1>10, <2>1
<1>12. TakesOut(w, m, seen, gone)
  BY <1>2, <1>11 DEF TakesOut
<1> QED
  BY <1>1, <1>9, <1>12

\* The erase of the list's reference is that of the vector's.
LEMMA SameWithout == \A s, gone : L!Without(s, gone) = V!Without(s, gone)
BY DEF L!Without, V!Without

\* Positions from pos on are as many as the same positions from 0 on.
Shifted(pos, gone) == {pos + j : j \in gone}

\* As many positions of the list as of the part that was walked.
LEMMA ShiftedCount ==
  ASSUME NEW n \in Nat, NEW gone, gone \subseteq 1..n, NEW pos \in Nat
  PROVE  Cardinality(Shifted(pos, gone)) = Cardinality(gone)
<1>1. PICK f : f = [j \in gone |-> pos + j]
  OBVIOUS
<1>2. f \in [gone -> Shifted(pos, gone)]
  BY <1>1 DEF Shifted
<1>3. \A a, b \in gone : f[a] = f[b] => a = b
  BY <1>1
<1>4. \A t \in Shifted(pos, gone) : \E a \in gone : f[a] = t
  BY <1>1 DEF Shifted
<1>5. f \in Injection(gone, Shifted(pos, gone)) /\ f \in Surjection(gone, Shifted(pos, gone))
  BY <1>2, <1>3, <1>4 DEF Injection, IsInjective, Surjection
<1>6. IsFiniteSet(gone)
  <2>1. IsFiniteSet(1..n)
    BY FS_Interval
  <2> QED
    BY <2>1, FS_Subset
<1> QED
  BY <1>5, <1>6, FS_Surjection

\* Before the first turn the whole chain is there.
LEMMA HalfStarts ==
  ASSUME NEW X, NEW m, NEW c \in Nat, c # 0, NEW r, Linked(m, X, r, c), NEW s, Carries(m, r, c, s),
         NEW gone, gone \subseteq 1..c
  PROVE  Half(X, m, r, c, s, <<>>, 0, r, c, s, 0, gone)
<1>1. s \in Seq({0, 1}) /\ Len(s) = c
  BY DEF Carries
<1>2. Joined(s, <<>>, s, 0, 0)
  <2>1. Len(<<>>) = 0 /\ 1..0 = {} /\ Len(s) = 0 + Len(s) - 0 /\ \A a \in 1..(Len(s) - 0) : s[a + 0] = s[a + 0]
    BY <1>1
  <2> QED
    BY <2>1 DEF Joined
<1>3. Passed(r, c, 0, r, c, 0)
  BY DEF Passed
<1>4. Upto(gone, 0) = {}
  <2>1. \A b \in gone : ~ (b <= 0)
    OBVIOUS
  <2> QED
    BY <2>1 DEF Upto
<1>5. Cardinality(Upto(gone, 0)) = 0 /\ NodesAt(r, Upto(gone, 0)) = {}
  BY <1>4, FS_EmptySet DEF NodesAt
<1>6. Spared(r, c, r, c, gone, 0)
  BY <1>5 DEF Spared
<1> QED
  BY <1>1, <1>2, <1>3, <1>6 DEF Half

\* removeOne's loop when it keeps the last node.
LEMMA HalfPasses ==
  ASSUME NEW X, Apart(X), NEW m, NEW c \in Nat, NEW r, Linked(m, X, r, c), NEW s, Carries(m, r, c, s),
         NEW pos \in Nat, NEW n \in Nat, n # 0, pos + n = c,
         NEW seen \in Seq(X), Len(seen) = n, \A j \in 1..n : seen[j] = r[pos + j],
         NEW gone, gone \subseteq 1..n, n \notin gone
  PROVE  \E e, d, z : \E y \in Nat :
           Half(X, Unlinked(m, seen, gone), e, d, z, V!Without(s, Shifted(pos, gone)), y, r, c, s, c, Shifted(pos, gone))
<1>1. s \in Seq({0, 1}) /\ Len(s) = c /\ c # 0 /\ m \in Memories(X) /\ m_head \notin X
  BY DEF Carries, Linked, Apart
<1>2. PICK f : TakesOut(f, m, seen, gone) /\ Unlinked(m, seen, gone) = f[n]
  BY <1>1, UnlinkedTakesOut, SMTT(30)
<1>3. f[0] = m /\ \A j \in 1..n : f[j] = IF j \in gone THEN L!unlink(f[j - 1], seen[j]) ELSE f[j - 1]
  BY <1>2 DEF TakesOut
<1>4. PICK away : away = Shifted(pos, gone)
  OBVIOUS
<1>5. away \subseteq 1..c /\ \A j \in 1..n : pos + j \in away <=> j \in gone
  BY <1>4 DEF Shifted
<1>6. \A b \in away : b - pos \in gone /\ b > pos /\ b # c
  BY <1>4 DEF Shifted
<1>7. PICK h : Rests(h, {0, 1}, s, away) /\ V!Without(s, away) = h[c]
  BY <1>1, WithoutRests
<1>8. /\ h \in [0..c -> Seq({0, 1})] /\ h[0] = <<>>
      /\ \A j \in 1..c : h[j] = IF j \in away THEN h[j - 1] ELSE Append(h[j - 1], s[j])
  BY <1>1, <1>7 DEF Rests
<1> DEFINE At(p) == IF p <= pos THEN m ELSE f[p - pos]
           Good(p) == \E e, d, z : \E y \in Nat : Half(X, At(p), e, d, z, h[p], y, r, c, s, p, away)
           C == {p \in 0..c : Good(p)}
<1>9. 0 \in C
  <2>1. At(0) = m /\ h[0] = <<>> /\ 0 \in 0..c /\ 0 \in Nat
    BY <1>8
  <2>2. Half(X, m, r, c, s, <<>>, 0, r, c, s, 0, away)
    BY <1>1, <1>5, HalfStarts
  <2> HIDE DEF At
  <2>3. Good(0)
    BY <2>1, <2>2
  <2> HIDE DEF Good
  <2> QED
    BY <2>1, <2>3
<1>10. ASSUME NEW j \in (0 + 1)..c, j - 1 \in C PROVE j \in C
  <2>1. PICK p \in 0..c : p = j - 1 /\ p + 1 = j /\ p \in Nat /\ p < c
    BY <1>10
  <2>2. Good(p)
    BY <1>10, <2>1
  <2>3. PICK e, d, z : \E y \in Nat : Half(X, At(p), e, d, z, h[p], y, r, c, s, p, away)
    BY <2>2
  <2>4. PICK y \in Nat : Half(X, At(p), e, d, z, h[p], y, r, c, s, p, away)
    BY <2>3
  <2>5. h[p] \in Seq({0, 1}) /\ j \in 1..c /\ h[j] = IF j \in away THEN h[p] ELSE Append(h[p], s[j])
    <3>1. j \in 1..c
      OBVIOUS
    <3> QED
      BY <1>8, <2>1, <3>1
  <2>15. PICK x \in Seq({0, 1}) : x = h[p]
    BY <2>5
  <2>16. PICK m2 : m2 = At(p)
    OBVIOUS
  <2>6. x = h[p] /\ m2 = At(p)
    BY <2>15, <2>16
  <2>7. Half(X, m2, e, d, z, x, y, r, c, s, p, away)
    BY <2>4, <2>6
  <2>8. p >= pos => p - pos + 1 \in 1..n /\ (p - pos + 1) - 1 = p - pos /\ pos + (p - pos + 1) = j /\ j - pos = p - pos + 1
    BY <2>1
  <2>9. ~ (p <= pos) => m2 = f[p - pos]
    BY <2>6
  <2>10. p <= pos => m2 = m
    BY <2>6
  <2>11. p >= pos => m2 = f[p - pos]
    <3>1. CASE p = pos
      <4>1. p - pos = 0
        BY <3>1
      <4> QED
        BY <1>3, <2>10, <3>1, <4>1
    <3> QED
      BY <2>9, <3>1
  <2>12. CASE j \notin away
    <3>1. At(j) = m2
      <4>1. CASE j <= pos
        BY <2>1, <2>10, <4>1
      <4>2. CASE ~ (j <= pos)
        <5>1. p >= pos
          BY <2>1, <4>2
        <5>2. PICK q \in 1..n : q = p - pos + 1
          BY <2>8, <5>1
        <5>3. q \notin gone /\ q - 1 = p - pos /\ j - pos = q
          BY <1>5, <2>8, <2>12, <5>1, <5>2
        <5>4. f[q] = f[q - 1]
          BY <1>3, <5>3
        <5> QED
          BY <2>11, <4>2, <5>1, <5>3, <5>4
      <4> QED
        BY <4>1, <4>2
    <3>2. Half(X, m2, e, d, z, Append(x, s[p + 1]), y + 1, r, c, s, p + 1, away)
      BY <1>1, <1>5, <2>1, <2>7, <2>12, HalfKept
    <3>3. h[j] = Append(x, s[p + 1]) /\ y + 1 \in Nat
      BY <2>1, <2>5, <2>6, <2>12
    <3>4. Half(X, At(j), e, d, z, h[j], y + 1, r, c, s, j, away)
      BY <2>1, <3>1, <3>2, <3>3
    <3> HIDE DEF At
    <3>5. Good(j)
      BY <3>3, <3>4
    <3> HIDE DEF Good
    <3> QED
      BY <2>5, <3>5
  <2>13. CASE j \in away
    <3>1. j - pos \in gone /\ j > pos /\ j # c /\ p >= pos /\ p + 1 < c
      <4>1. j - pos \in gone /\ j > pos /\ j # c
        BY <1>6, <2>13
      <4> QED
        BY <2>1, <4>1
    <3>2. PICK q \in 1..n : q = p - pos + 1
      BY <2>8, <3>1
    <3>3. q \in gone /\ q - 1 = p - pos /\ seen[q] = r[p + 1] /\ j - pos = q
      BY <2>1, <2>8, <3>1, <3>2
    <3>4. f[q] = L!unlink(f[q - 1], seen[q])
      BY <1>3, <3>3
    <3>5. At(j) = L!unlink(m2, r[p + 1])
      <4>1. m2 = f[q - 1] /\ ~ (j <= pos)
        BY <2>11, <3>1, <3>3
      <4> QED
        BY <3>3, <3>4, <4>1
    <3>6. HalfLeft(X, L!unlink(m2, r[p + 1]), x, y, r, c, s, p + 1, away)
      <4>1. /\ Apart(X) /\ x \in Seq({0, 1}) /\ y \in Nat /\ c \in Nat /\ s \in Seq({0, 1}) /\ Len(s) = c
            /\ p \in Nat /\ p + 1 < c /\ away \subseteq 1..c /\ p + 1 \in away
            /\ Half(X, m2, e, d, z, x, y, r, c, s, p, away)
        BY <1>1, <1>5, <2>1, <2>7, <2>13, <3>1
      <4> QED
        BY <4>1, HalfGone, ZenonT(60)
    <3>7. h[j] = x
      BY <2>5, <2>6, <2>13
    <3>8. \E e2, d2, z2 : Half(X, At(j), e2, d2, z2, h[j], y, r, c, s, j, away)
      BY <2>1, <3>5, <3>6, <3>7 DEF HalfLeft
    <3> HIDE DEF At
    <3>9. Good(j)
      BY <3>8
    <3> HIDE DEF Good
    <3> QED
      BY <2>5, <3>9
  <2> QED
    BY <2>12, <2>13
<1>11. Good(c)
  <2> HIDE DEF Good
  <2>1. \A j \in 0..c : j \in C
    <3> HIDE DEF C
    <3> QED
      BY <1>9, <1>10, GoesOn
  <2>2. c \in 0..c
    OBVIOUS
  <2> QED
    BY <2>1, <2>2
<1>12. At(c) = Unlinked(m, seen, gone)
  <2>1. ~ (c <= pos) /\ c - pos = n
    OBVIOUS
  <2> QED
    BY <1>2, <2>1
<1> HIDE DEF At
<1> QED
  BY <1>4, <1>7, <1>11, <1>12

\* The nodes of r behind the first pos, as the walk along next meets them.
Onward(r, pos, n) == [j \in 1..n |-> r[pos + j]]

\* The nodes removeOne walks along.
LEMMA ListOnward ==
  ASSUME NEW c \in Nat, NEW r, Linked(mem, NodeIds, r, c), NEW pos \in Nat, NEW n \in Nat, n # 0, pos + n = c
  PROVE  L!Path(mem.next, r[pos + 1], L!Cardinality(NodeIds) + 1) = Onward(r, pos, n)
<1>1. /\ IsChain(NodeIds, r, c) /\ r[c + 1] = Null /\ \A j \in 0..c : mem.next[r[j]] = r[j + 1]
      /\ \A j \in 1..c : r[j] \in NodeIds
  BY DEF Linked, IsChain
<1>2. PICK M \in Nat : M = Cardinality(NodeIds) + 1 /\ c <= M /\ M # 0 /\ n <= M
  <2>1. PICK X : X = NodeIds
    OBVIOUS
  <2>2. IsFiniteSet(X) /\ IsChain(X, r, c)
    BY <1>1, <2>1, NodesApart
  <2>3. Cardinality(X) \in Nat /\ c <= Cardinality(X)
    BY <2>2, ChainFits
  <2> QED
    BY <2>1, <2>3
<1>4. PICK y : y = Onward(r, pos, n)
  OBVIOUS
<1>5. \A j \in 1..n : pos + j \in 1..c /\ pos + j \in 0..c
  OBVIOUS
<1>6. y \in Seq(NodeIds) /\ Len(y) = n /\ y \in [1..n -> NodeIds] /\ \A j \in 1..n : y[j] = r[pos + j]
  <2>1. y \in [1..n -> NodeIds]
    BY <1>1, <1>4, <1>5 DEF Onward
  <2>2. \A j \in 1..n : y[j] = r[pos + j]
    BY <1>4 DEF Onward
  <2>3. y \in Seq(NodeIds) /\ Len(y) = n
    BY <2>1
  <2> QED
    BY <2>1, <2>2, <2>3
<1>7. Chase(mem.next, r[pos + 1], M) = Begin(y, n, M)
  <2>1. PICK f, p, X : f = mem.next /\ p = r[pos + 1] /\ X = NodeIds
    OBVIOUS
  <2>2. p = IF n = 0 THEN Null ELSE y[1]
    <3>1. 1 \in 1..n
      OBVIOUS
    <3> QED
      BY <1>6, <2>1, <3>1
  <2>3. ASSUME NEW j \in 1..n PROVE f[y[j]] = IF j = n THEN Null ELSE y[j + 1]
    <3>1. f[y[j]] = r[(pos + j) + 1]
      BY <1>1, <1>5, <1>6, <2>1
    <3>2. CASE j = n
      BY <1>1, <3>1, <3>2
    <3>3. CASE j # n
      <4>1. j + 1 \in 1..n /\ (pos + j) + 1 = pos + (j + 1)
        BY <3>3
      <4> QED
        BY <1>6, <3>1, <3>3, <4>1
    <3> QED
      BY <3>2, <3>3
  <2>4. /\ Null \notin X /\ y \in [1..n -> X] /\ M \in Nat \ {0} /\ p = (IF n = 0 THEN Null ELSE y[1])
        /\ \A j \in 1..n : j < M => f[y[j]] = IF j = n THEN Null ELSE y[j + 1]
    BY <1>2, <1>6, <2>1, <2>2, <2>3, NodesApart DEF Apart
  <2>5. Chase(f, p, M) = Begin(y, n, M)
    <3>1. WalksOver(f, p, M, X, y, n)
      BY <2>4 DEF WalksOver
    <3>2. M \in Nat \ {0} /\ n \in Nat
      BY <1>2
    <3> QED
      BY <3>1, <3>2, PathIs
  <2> QED
    BY <2>1, <2>5
<1>8. Begin(y, n, M) = y
  <2>1. (IF M <= n THEN M ELSE n) = n
    BY <1>2
  <2>2. Begin(y, n, M) = [j \in 1..n |-> y[j]]
    BY <2>1 DEF Begin
  <2> QED
    BY <1>6, <2>2
<1>9. L!Cardinality(NodeIds) + 1 = M
  BY <1>2 DEF L!Cardinality, Cardinality
<1> QED
  BY <1>4, <1>7, <1>8, <1>9, SamePaths

\* removeOne takes out all the hits, or the first of them.
FirstOrAll(hits, onlyOne) == IF onlyOne /\ hits # {} THEN {V!Min(hits)} ELSE hits

FirstsAt(pos, hits, onlyOne) == FirstOrAll(Shifted(pos, hits), onlyOne) = Shifted(pos, FirstOrAll(hits, onlyOne))
Within(I, n) == I \subseteq 1..n

\* The first hit, or all of them, as positions of the list.
LEMMA FirstShifted ==
  ASSUME NEW n \in Nat, NEW hits, Within(hits, n), NEW pos \in Nat, NEW onlyOne
  PROVE  Within(FirstOrAll(hits, onlyOne), n) /\ FirstsAt(pos, hits, onlyOne)
<1>0. hits \subseteq 1..n
  BY DEF Within
<1>1. CASE onlyOne /\ hits # {}
  <2>1. hits \subseteq Nat
    BY <1>0
  <2>2. PICK q \in 1..n : q = V!Min(hits) /\ q \in hits /\ \A j \in hits : q <= j
    BY <1>0, <1>1, <2>1, LeastOf
  <2>3. PICK away : away = Shifted(pos, hits)
    OBVIOUS
  <2>4. away \subseteq Nat /\ away # {} /\ pos + q \in away /\ \A b \in away : pos + q <= b
    BY <2>2, <2>3 DEF Shifted
  <2>5. V!Min(away) \in away /\ \A b \in away : V!Min(away) <= b
    BY <2>4, LeastOf
  <2>6. V!Min(away) = pos + q
    <3>1. PICK t \in Nat : t = V!Min(away) /\ t \in away /\ \A b \in away : t <= b
      BY <2>4, <2>5
    <3>2. t <= pos + q /\ pos + q <= t
      BY <2>4, <3>1
    <3>3. t = pos + q
      BY <3>2
    <3> QED
      BY <3>1, <3>3
  <2>7. FirstOrAll(hits, onlyOne) = {q} /\ FirstOrAll(away, onlyOne) = {pos + q}
    BY <1>1, <2>2, <2>4, <2>6 DEF FirstOrAll
  <2>8. Shifted(pos, {q}) = {pos + q}
    BY DEF Shifted
  <2> QED
    BY <2>3, <2>7, <2>8 DEF FirstsAt, Within
<1>2. CASE ~ (onlyOne /\ hits # {})
  <2>1. FirstOrAll(hits, onlyOne) = hits
    BY <1>2 DEF FirstOrAll
  <2>2. onlyOne => hits = {}
    BY <1>2
  <2>3. Shifted(pos, {}) = {}
    BY DEF Shifted
  <2>4. FirstOrAll(Shifted(pos, hits), onlyOne) = Shifted(pos, hits)
    BY <2>2, <2>3 DEF FirstOrAll
  <2> QED
    BY <1>0, <2>1, <2>4 DEF FirstsAt, Within
<1> QED
  BY <1>1, <1>2

\* The least hit of the list is that of the vector.
LEMMA SameFirst == \A hits : L!Min(hits) = V!Min(hits)
BY DEF L!Min, V!Min

ListSeen(pos) == L!Path(mem.next, L!findNode(pos), L!Cardinality(NodeIds) + 1)
ListHits(seen, v) == {j \in DOMAIN seen : mem.data[seen[j]] = v}
FirstOf(hits, onlyOne) == IF onlyOne /\ hits # {} THEN {L!Min(hits)} ELSE hits

Remains(X, m2, e, d, x, r, c, gone) ==
  /\ Linked(m2, X, e, d) /\ d \in Nat /\ d # 0 /\ e[d] = r[c] /\ Carries(m2, e, d, x)
  /\ Body(e, d) = Body(r, c) \ NodesAt(r, gone) /\ d = c - Cardinality(gone)

\* What the loop leaves of a list whose last node stays.
LEMMA HalfEnds ==
  ASSUME NEW X, NEW m2, NEW e, NEW d, NEW z, NEW x \in Seq({0, 1}), NEW y \in Nat, NEW c \in Nat, NEW r,
         NEW s \in Seq({0, 1}), Len(s) = c, NEW gone, Within(gone, c),
         Half(X, m2, e, d, z, x, y, r, c, s, c, gone)
  PROVE  Remains(X, m2, e, d, x, r, c, gone)
<1>1. /\ Linked(m2, X, e, d) /\ Carries(m2, e, d, z) /\ z \in Seq({0, 1}) /\ d \in Nat
      /\ Joined(z, x, s, c, y) /\ Passed(e, d, y, r, c, c) /\ Spared(e, d, r, c, gone, c)
  BY DEF Half
<1>2. d = y + (c - c) /\ d # 0 /\ e[d] = r[c]
  BY <1>1 DEF Passed
<1>3. Upto(gone, c) = gone
  <2>1. \A b \in gone : b <= c
    BY DEF Within
  <2> QED
    BY <2>1 DEF Upto
<1>4. Len(z) = Len(x) /\ \A a \in 1..Len(z) : z[a] = x[a]
  <2>1. Len(x) = y /\ Len(z) = y + Len(s) - c /\ \A a \in 1..y : z[a] = x[a]
    BY <1>1 DEF Joined
  <2>2. Len(z) = y
    BY <2>1
  <2> QED
    BY <2>1, <2>2
<1>5. z = x
  BY <1>1, <1>4, SeqEqual
<1> QED
  BY <1>1, <1>2, <1>3, <1>5 DEF Spared, Remains

\* removeOne.
LEMMA ListRemovesOne ==
  ASSUME ListInv, NEW v \in {0, 1}, NEW pos \in Nat, NEW onlyOne \in BOOLEAN, NEW from \in Nat, L!removeOne(v, pos, onlyOne, from)
  PROVE  ListInv'
<1>1. alive /\ pos < m_size /\ m_tail' = m_tail /\ alive' = alive
  BY DEF L!removeOne, L!May
<1>2. PICK c \in Nat : \E r : ListIs(r, c)
  BY <1>1 DEF ListInv
<1>3. PICK r : ListIs(r, c)
  BY <1>2
<1>4. /\ m_size = c /\ ref \in Seq({0, 1}) /\ Len(ref) = c /\ Linked(mem, NodeIds, r, c) /\ IsChain(NodeIds, r, c)
      /\ Carries(mem, r, c, ref) /\ heap = Body(r, c) \cup {m_head} /\ r[0] = m_head
      /\ m_tail = (IF c = 0 THEN Null ELSE r[c]) /\ \A j \in 0..c : r[j] \in heap
  BY <1>3, ListParts
<1>5. PICK n \in Nat : n # 0 /\ pos + n = c /\ n = c - pos
  BY <1>1, <1>4
<1>6. L!findNode(pos) = r[pos + 1] /\ L!ToSet(L!findPath(pos)) \subseteq heap
  BY <1>1, <1>3, <1>4, ListFinds
<1>7. PICK seen : seen = L!Path(mem.next, L!findNode(pos), L!Cardinality(NodeIds) + 1)
  OBVIOUS
<1>8. seen = Onward(r, pos, n)
  BY <1>4, <1>5, <1>6, <1>7, ListOnward
<1>9. \A j \in 1..n : pos + j \in 1..c /\ pos + j \in 0..c
  BY <1>5
<1>10. seen \in Seq(NodeIds) /\ Len(seen) = n /\ DOMAIN seen = 1..n
       /\ \A j \in 1..n : seen[j] = r[pos + j] /\ seen[j] \in NodeIds
  <2>1. \A j \in 1..n : r[pos + j] \in NodeIds
    BY <1>4, <1>9 DEF IsChain
  <2>2. seen \in [1..n -> NodeIds]
    BY <1>8, <2>1 DEF Onward
  <2>3. seen \in Seq(NodeIds) /\ Len(seen) = n /\ DOMAIN seen = 1..n
    BY <2>2
  <2> QED
    BY <1>8, <2>1, <2>3 DEF Onward
<1>11. PICK hits : hits = {j \in DOMAIN seen : mem.data[seen[j]] = v}
  OBVIOUS
<1>12. PICK gone : gone = FirstOrAll(hits, onlyOne)
  OBVIOUS
<1>13. PICK freed : freed = {seen[j] : j \in gone}
  OBVIOUS
<1>14. PICK equal : equal = {j \in DOMAIN ref : j > pos /\ ref[j] = v}
  OBVIOUS
<1>15. /\ m_tail \notin freed
       /\ \E dangling \in BOOLEAN : ~dangling /\ ub' = (dangling \/ ~(L!ToSet(L!findPath(pos)) \cup L!ToSet(seen) \subseteq heap))
       /\ heap' = heap \ freed /\ m_size' = m_size - L!Cardinality(gone)
       /\ ref' = L!Without(ref, FirstOrAll(equal, onlyOne))
  BY <1>7, <1>11, <1>12, <1>13, <1>14, SameFirst DEF L!removeOne, FirstOrAll
<1>16. mem' = Unlinked(mem, seen, gone)
  <2>1. mem' = Unlinked(mem, ListSeen(pos), FirstOf(ListHits(ListSeen(pos), v), onlyOne))
    BY DEF L!removeOne, Unlinked, ListSeen, ListHits, FirstOf
  <2>2. ListSeen(pos) = seen
    BY <1>7 DEF ListSeen
  <2>3. ListHits(seen, v) = hits
    BY <1>11 DEF ListHits
  <2>4. FirstOf(hits, onlyOne) = gone
    BY <1>12, SameFirst DEF FirstOf, FirstOrAll
  <2> QED
    BY <2>1, <2>2, <2>3, <2>4
<1>17. hits \subseteq 1..n
  BY <1>10, <1>11
<1>18. equal = Shifted(pos, hits)
  <2>1. \A j \in 1..n : mem.data[seen[j]] = ref[pos + j]
    BY <1>4, <1>9, <1>10 DEF Carries
  <2>2. DOMAIN ref = 1..c
    BY <1>4
  <2>3. \A j \in 1..c : j > pos => j - pos \in 1..n /\ pos + (j - pos) = j
    BY <1>5
  <2>4. \A j \in 1..n : pos + j > pos
    OBVIOUS
  <2>5. ASSUME NEW j \in equal PROVE j \in Shifted(pos, hits)
    <3>1. j \in 1..c /\ j > pos /\ ref[j] = v
      BY <1>14, <2>2, <2>5
    <3>2. PICK b \in 1..n : b = j - pos /\ pos + b = j
      BY <2>3, <3>1
    <3>3. b \in hits
      BY <1>10, <1>11, <2>1, <3>1, <3>2
    <3> QED
      BY <3>2, <3>3 DEF Shifted
  <2>6. ASSUME NEW b \in hits PROVE pos + b \in equal
    <3>1. b \in 1..n /\ mem.data[seen[b]] = v
      BY <1>10, <1>11, <2>6
    <3> QED
      BY <1>9, <1>14, <2>1, <2>2, <2>4, <3>1
  <2> QED
    BY <2>5, <2>6 DEF Shifted
<1>19. gone \subseteq 1..n /\ FirstOrAll(equal, onlyOne) = Shifted(pos, gone)
  <2>1. n \in Nat /\ Within(hits, n) /\ pos \in Nat
    BY <1>17 DEF Within
  <2>2. Within(FirstOrAll(hits, onlyOne), n) /\ FirstsAt(pos, hits, onlyOne)
    BY <2>1, FirstShifted, ZenonT(60)
  <2> QED
    BY <1>12, <1>18, <2>2 DEF Within, FirstsAt
<1>20. n \notin gone
  <2>1. n \in 1..n /\ seen[n] = r[c] /\ m_tail = r[c]
    BY <1>4, <1>5, <1>10
  <2> QED
    BY <1>13, <1>15, <2>1
<1>21. PICK X, m : X = NodeIds /\ m = mem
  OBVIOUS
<1>22. PICK m2, away, s, x : m2 = Unlinked(m, seen, gone) /\ away = Shifted(pos, gone) /\ s = ref /\ x = V!Without(s, away)
  OBVIOUS
<1>23. PICK e, d, z : \E y \in Nat : Half(X, m2, e, d, z, x, y, r, c, s, c, away)
  <2>1. /\ Apart(X) /\ Linked(m, X, r, c) /\ Carries(m, r, c, s) /\ n # 0 /\ pos + n = c /\ seen \in Seq(X) /\ Len(seen) = n
        /\ \A j \in 1..n : seen[j] = r[pos + j]
        /\ gone \subseteq 1..n /\ n \notin gone
    BY <1>4, <1>5, <1>10, <1>19, <1>20, <1>21, <1>22, NodesApart
  <2>2. \E e, d, z : \E y \in Nat :
          Half(X, Unlinked(m, seen, gone), e, d, z, V!Without(s, Shifted(pos, gone)), y, r, c, s, c, Shifted(pos, gone))
    BY <2>1, HalfPasses
  <2> QED
    BY <1>22, <2>2
<1>24. PICK y \in Nat : Half(X, m2, e, d, z, x, y, r, c, s, c, away)
  BY <1>23
<1>25. x \in Seq({0, 1}) /\ away \subseteq 1..c /\ s \in Seq({0, 1}) /\ Len(s) = c
  BY <1>4, <1>9, <1>19, <1>22, WithoutFits DEF Shifted
<1>26. /\ Linked(m2, X, e, d) /\ d \in Nat /\ d # 0 /\ e[d] = r[c] /\ Carries(m2, e, d, x)
       /\ Body(e, d) = Body(r, c) \ NodesAt(r, away) /\ d = c - Cardinality(away)
  <2>1. /\ x \in Seq({0, 1}) /\ y \in Nat /\ c \in Nat /\ s \in Seq({0, 1}) /\ Len(s) = c /\ Within(away, c)
        /\ Half(X, m2, e, d, z, x, y, r, c, s, c, away)
    BY <1>24, <1>25 DEF Within
  <2>2. Remains(X, m2, e, d, x, r, c, away)
    BY <2>1, HalfEnds, ZenonT(60)
  <2> QED
    BY <2>2 DEF Remains
<1>27. freed = NodesAt(r, away)
  <2>1. \A j \in gone : seen[j] = r[pos + j]
    BY <1>10, <1>19
  <2>2. NodesAt(r, Shifted(pos, gone)) = {r[pos + j] : j \in gone}
    BY DEF NodesAt, Shifted
  <2> QED
    BY <1>13, <1>22, <2>1, <2>2
<1>28. heap' = Body(e, d) \cup {m_head}
  <2>1. m_head \notin freed
    <3>1. \A j \in gone : seen[j] \in NodeIds
      BY <1>10, <1>19
    <3> QED
      BY <1>13, <3>1, NodesApart DEF Apart
  <2> QED
    BY <1>4, <1>15, <1>26, <1>27, <2>1
<1>29. m_size' = d
  <2>1. Cardinality(away) = Cardinality(gone)
    BY <1>19, <1>22, ShiftedCount
  <2>2. L!Cardinality(gone) = Cardinality(gone)
    BY DEF L!Cardinality, Cardinality
  <2> QED
    BY <1>4, <1>15, <1>26, <2>1, <2>2
<1>30. ~ub'
  <2>1. L!ToSet(seen) \subseteq heap
    <3>1. \A j \in 1..n : seen[j] \in heap
      BY <1>4, <1>9, <1>10
    <3> QED
      BY <1>10, <3>1 DEF L!ToSet
  <2> QED
    BY <1>6, <1>15, <2>1
<1>31. ref' = x /\ mem' = m2
  BY <1>15, <1>16, <1>19, <1>21, <1>22, SameWithout
<1>32. /\ alive' /\ ~ub' /\ Linked(mem', NodeIds, e, d) /\ heap' = Body(e, d) \cup {m_head} /\ m_size' = d
       /\ m_tail' = (IF d = 0 THEN Null ELSE e[d]) /\ Carries(mem', e, d, ref') /\ d \in Nat
  <2>1. m_tail' = e[d]
    BY <1>1, <1>4, <1>5, <1>26
  <2> QED
    BY <1>1, <1>21, <1>26, <1>28, <1>29, <1>30, <1>31, <2>1
<1> QED
  BY <1>32, Listed

\* Every call of the list.
LEMMA ListGoesOn ==
  ASSUME ListInv, L!Next
  PROVE  ListInv'
<1>1. L!Positions = 0..MaxSize /\ L!Positions \subseteq Nat
  BY Bounds DEF L!Positions
<1>2. \/ \E v \in {0, 1} : L!append(v)
      \/ L!refused
      \/ \E pos \in L!Positions : L!removeAt(pos)
      \/ \E pos, len \in L!Positions : L!removeRange(pos, len)
      \/ \E pos \in L!Positions, v \in {0, 1} : L!insert(pos, v)
      \/ L!clear
      \/ \E v \in {0, 1}, pos \in L!Positions : L!removeOne(v, pos, TRUE, 0)
      \/ \E v \in {0, 1}, pos, from \in L!Positions : L!removeOne(v, pos, FALSE, from)
      \/ \E first, second \in L!Positions : L!swap(first, second)
      \/ L!destroy
  BY DEF L!Next
<1>3. CASE \E v \in {0, 1} : L!append(v)
  BY <1>3, ListAppends
<1>4. CASE L!refused
  BY <1>4, ListStays
<1>5. CASE \E pos \in L!Positions : L!removeAt(pos)
  BY <1>1, <1>5, ListRemovesAt
<1>6. CASE \E pos, len \in L!Positions : L!removeRange(pos, len)
  BY <1>1, <1>6, ListRemovesRange
<1>7. CASE \E pos \in L!Positions, v \in {0, 1} : L!insert(pos, v)
  BY <1>1, <1>7, ListInserts
<1>8. CASE \/ \E v \in {0, 1}, pos \in L!Positions : L!removeOne(v, pos, TRUE, 0)
           \/ \E v \in {0, 1}, pos, from \in L!Positions : L!removeOne(v, pos, FALSE, from)
  <2>1. PICK v \in {0, 1}, pos \in Nat, onlyOne \in BOOLEAN, from \in Nat : L!removeOne(v, pos, onlyOne, from)
    BY <1>1, <1>8
  <2> QED
    BY <2>1, ListRemovesOne
<1>9. CASE \E first, second \in L!Positions : L!swap(first, second)
  BY <1>1, <1>9, ListSwaps
<1>10. CASE L!clear \/ L!destroy
  BY <1>10, ListFrees
<1> QED
  BY <1>2, <1>3, <1>4, <1>5, <1>6, <1>7, <1>8, <1>9, <1>10

\* The steps that leave the byte arrays alone.
LEMMA BytesStutters ==
  ASSUME BytesInv, UNCHANGED <<mem, heap, ref, stale, ub>>
  PROVE  BytesInv'
BY DEF BytesInv, BytesSound, Keeps

\* The text t is found in s behind its first n characters.
Occurs(s, n, t) == n + Len(t) <= Len(s) /\ \A j \in 1..Len(t) : s[n + j] = t[j]

HitsIn(s, t, p, m) == {n \in p..(m - 1) : Occurs(s, n, t)}
FindIn(s, t, p, m) == IF HitsIn(s, t, p, m) = {} THEN -1 ELSE V!Min(HitsIn(s, t, p, m))

\* The text a string should hold, and the zeros behind it.
Told(a) == B!Zeroed(ref[a], mem[a]._capacity)

\* The text, behind which are zeros up to the capacity.
LEMMA ToldIs ==
  ASSUME BytesInv, ~stale, NEW a \in {1, 2}
  PROVE  /\ Told(a) \in Seq(Byte) /\ ref[a] \in Seq(Byte) /\ mem[a]._size = Len(ref[a]) /\ Len(ref[a]) <= Len(Told(a))
         /\ Len(Told(a)) = mem[a]._capacity
         /\ \A j \in 1..Len(Told(a)) : Told(a)[j] = IF j <= Len(ref[a]) THEN ref[a][j] ELSE 0
         /\ mem[a]._data = Null => Len(Told(a)) = 0
         /\ mem[a]._data # Null => Told(a) = heap[mem[a]._data]
<1>1. PICK w \in {1, 2} : w # a
  OBVIOUS
<1>2. mem[a] \in Strings /\ ref[a] \in Seq(Byte) /\ Keeps(mem[a], heap[mem[a]._data], ref[a])
  BY <1>1, BytesParts
<1>3. PICK e : e = heap[mem[a]._data]
  OBVIOUS
<1>4. PICK c \in Nat, x \in Seq(Byte) : c = mem[a]._capacity /\ x = ref[a]
  BY <1>2 DEF Strings
<1>0. PICK y : y = Told(a)
  OBVIOUS
<1>5. y \in Seq(Byte) /\ Len(y) = c /\ \A j \in 1..c : y[j] = IF j <= Len(x) THEN x[j] ELSE 0
  BY <1>0, <1>4, ZeroedBuffer DEF Told
<1>6. /\ mem[a]._size = Len(x) /\ Len(x) <= c
      /\ mem[a]._data = Null => c = 0
      /\ mem[a]._data # Null => e \in Seq(Byte) /\ Len(e) = c /\ \A j \in 1..c : e[j] = IF j <= Len(x) THEN x[j] ELSE 0
  BY <1>2, <1>3, <1>4 DEF Keeps
<1>7. mem[a]._data # Null => y = e
  <2>1. ASSUME mem[a]._data # Null PROVE y = e
    <3>1. \A j \in 1..c : y[j] = e[j]
      BY <1>5, <1>6, <2>1
    <3> QED
      BY <1>5, <1>6, <2>1, <3>1, SeqEqual
  <2> QED
    BY <2>1
<1>8. mem[a]._data # Null => Told(a) = heap[mem[a]._data]
  BY <1>0, <1>3, <1>7
<1>9. mem[a]._size = Len(x) /\ Len(x) <= c
  BY <1>6
<1>10. mem[a]._data = Null => c = 0
  BY <1>6
<1>11. Len(y) = c
  BY <1>5
<1>12. y \in Seq(Byte) /\ \A j \in 1..c : y[j] = IF j <= Len(x) THEN x[j] ELSE 0
  BY <1>5
<1> QED
  BY <1>0, <1>4, <1>8, <1>9, <1>10, <1>11, <1>12, Zenon

\* find searches the bytes of the buffer, which are those of the reference and zeros.
LEMMA FindIs ==
  ASSUME BytesInv, ~stale, NEW a \in {1, 2}, NEW t \in Seq(Byte), Len(t) # 0, NEW p \in Nat
  PROVE  B!find(a, t, p) = FindIn(Told(a), t, p, Len(ref[a]))
<1>1. PICK s \in Seq(Byte), m \in Nat :
        /\ s = Told(a) /\ m = Len(ref[a]) /\ m = mem[a]._size /\ m <= Len(s)
        /\ mem[a]._data = Null => Len(s) = 0
        /\ mem[a]._data # Null => s = heap[mem[a]._data]
  <2>1. Len(ref[a]) \in Nat
    BY ToldIs
  <2> QED
    BY <2>1, ToldIs
<1>2. PICK c \in Nat : c = Len(s) /\ m <= c /\ DOMAIN s = 1..c
  BY <1>1
<1>3. ASSUME NEW n \in p..(m - 1) PROVE B!Matches(a, n, t) <=> Occurs(s, n, t)
  <2>1. mem[a]._data # Null /\ n \in Nat
    BY <1>1, <1>2
  <2>2. PICK len \in Nat : len = Len(t) /\ len # 0 /\ DOMAIN t = 1..len
    OBVIOUS
  <2>3. B!Matches(a, n, t) <=> \A j \in 1..len : n + j \in 1..c /\ s[n + j] = t[j]
    BY <1>1, <1>2, <2>1, <2>2 DEF B!Matches
  <2>4. ASSUME \A j \in 1..len : n + j \in 1..c /\ s[n + j] = t[j] PROVE Occurs(s, n, t)
    <3>1. len \in 1..len
      BY <2>2
    <3>2. n + len \in 1..c
      BY <2>4, <3>1
    <3> QED
      BY <1>2, <2>2, <2>4, <3>2 DEF Occurs
  <2>5. ASSUME Occurs(s, n, t), NEW j \in 1..len PROVE n + j \in 1..c /\ s[n + j] = t[j]
    <3>1. n + len <= c /\ s[n + j] = t[j]
      BY <1>2, <2>2, <2>5 DEF Occurs
    <3> QED
      BY <2>1, <2>2, <3>1
  <2> QED
    BY <2>3, <2>4, <2>5
<1>4. {n \in p..(m - 1) : B!Matches(a, n, t)} = HitsIn(s, t, p, m)
  BY <1>3 DEF HitsIn
<1>5. B!find(a, t, p) = IF HitsIn(s, t, p, m) = {} THEN -1 ELSE B!Min(HitsIn(s, t, p, m))
  BY <1>1, <1>4 DEF B!find
<1>6. B!Min(HitsIn(s, t, p, m)) = V!Min(HitsIn(s, t, p, m))
  BY DEF B!Min, V!Min
<1> QED
  BY <1>1, <1>5, <1>6 DEF FindIn

\* find returns the first place at or behind p where t occurs, or -1.
LEMMA FindFinds ==
  ASSUME NEW s \in Seq(Byte), NEW t \in Seq(Byte), NEW p \in Nat, NEW m \in Nat
  PROVE  /\ FindIn(s, t, p, m) = -1 => \A n \in p..(m - 1) : ~ Occurs(s, n, t)
         /\ FindIn(s, t, p, m) # -1 => /\ FindIn(s, t, p, m) \in p..(m - 1) /\ FindIn(s, t, p, m) \in Nat
                                       /\ Occurs(s, FindIn(s, t, p, m), t)
<1>1. PICK hits : hits = HitsIn(s, t, p, m)
  OBVIOUS
<1>2. hits \subseteq p..(m - 1) /\ p..(m - 1) \subseteq Nat
  BY <1>1 DEF HitsIn
<1>3. CASE hits = {}
  BY <1>1, <1>3 DEF HitsIn, FindIn
<1>4. CASE hits # {}
  <2>1. hits \subseteq Nat
    BY <1>2
  <2>2. V!Min(hits) \in hits
    BY <1>4, <2>1, LeastOf
  <2>3. FindIn(s, t, p, m) = V!Min(hits)
    BY <1>1, <1>4 DEF FindIn
  <2>4. PICK n \in Nat : n = V!Min(hits) /\ n \in p..(m - 1) /\ Occurs(s, n, t)
    BY <1>1, <1>2, <2>2 DEF HitsIn
  <2>5. n # -1
    OBVIOUS
  <2> QED
    BY <2>3, <2>4, <2>5
<1> QED
  BY <1>3, <1>4

\* An occurrence as a prefix of the rest.
LEMMA PrefixOccurs ==
  ASSUME NEW s \in Seq(Byte), NEW t \in Seq(Byte), NEW n \in 0..Len(s)
  PROVE  B!IsPrefix(t, SubSeq(s, n + 1, Len(s))) <=> Occurs(s, n, t)
<1>1. PICK x : x = SubSeq(s, n + 1, Len(s))
  OBVIOUS
<1>2. n + 1 \in 1..(Len(s) + 1) /\ Len(s) \in (n + 1 - 1)..Len(s)
  OBVIOUS
<1>3. x \in Seq(Byte) /\ Len(x) = Len(s) - (n + 1) + 1 /\ \A j \in 1..(Len(s) - (n + 1) + 1) : x[j] = s[n + 1 + j - 1]
  BY <1>1, <1>2, PartOf
<1>4. Len(x) = Len(s) - n
  BY <1>3
<1>5. \A j \in 1..Len(x) : x[j] = s[n + j]
  <2>1. \A j \in 1..Len(x) : j \in 1..(Len(s) - (n + 1) + 1) /\ n + 1 + j - 1 = n + j
    BY <1>4
  <2> QED
    BY <1>3, <2>1
<1>6. Len(t) <= Len(x) <=> n + Len(t) <= Len(s)
  BY <1>4
<1>7. ASSUME Len(t) <= Len(x) PROVE SubSeq(t, 1, Len(t)) = SubSeq(x, 1, Len(t)) <=> \A j \in 1..Len(t) : s[n + j] = t[j]
  <2>1. SubSeq(t, 1, Len(t)) = t
    OBVIOUS
  <2>2. PICK y : y = SubSeq(x, 1, Len(t))
    OBVIOUS
  <2>3. y \in Seq(Byte) /\ Len(y) = Len(t) /\ \A j \in 1..Len(t) : y[j] = x[j]
    BY <1>3, <1>7, <2>2
  <2>4. \A j \in 1..Len(t) : y[j] = s[n + j]
    <3>1. \A j \in 1..Len(t) : j \in 1..Len(x)
      BY <1>3, <1>7
    <3> QED
      BY <1>5, <2>3, <3>1
  <2>5. t = y <=> \A j \in 1..Len(t) : t[j] = y[j]
    BY <2>3, SeqEqual
  <2> QED
    BY <2>1, <2>2, <2>4, <2>5
<1> QED
  BY <1>1, <1>6, <1>7 DEF B!IsPrefix, Occurs

\* The bytes of s behind the first p, up to the one at q.
Part(s, p, q) == SubSeq(s, p + 1, q)

\* x holds the n values of s behind the first p.
IsPart(x, s, p, n, W) == x \in Seq(W) /\ Len(x) = n /\ \A j \in 1..n : x[j] = s[p + j]

\* z is x followed by y.
IsCat(z, x, y, W) ==
  /\ z \in Seq(W) /\ Len(z) = Len(x) + Len(y)
  /\ \A j \in 1..(Len(x) + Len(y)) : z[j] = IF j <= Len(x) THEN x[j] ELSE y[j - Len(x)]

\* CatOf in one word.
LEMMA CatFact ==
  ASSUME NEW W, NEW s \in Seq(W), NEW t \in Seq(W)
  PROVE  IsCat(s \o t, s, t, W)
BY CatOf DEF IsCat

\* PartOf with its bounds spelt out.
LEMMA PartFact ==
  ASSUME NEW W, NEW s \in Seq(W), NEW a \in 1..(Len(s) + 1), NEW b \in (a - 1)..Len(s)
  PROVE  /\ SubSeq(s, a, b) \in Seq(W) /\ Len(SubSeq(s, a, b)) = b - a + 1
         /\ \A j \in 1..(b - a + 1) : SubSeq(s, a, b)[j] = s[a + j - 1]
BY PartOf

\* The bytes p + 1 .. q of a text.
LEMMA PartIs ==
  ASSUME NEW W, NEW s \in Seq(W), NEW p \in Nat, NEW q \in Nat, p <= q, q <= Len(s)
  PROVE  IsPart(Part(s, p, q), s, p, q - p, W)
<1>1. PICK a : a = p + 1
  OBVIOUS
<1>2. a \in 1..(Len(s) + 1) /\ q \in (a - 1)..Len(s) /\ q - a + 1 = q - p
  BY <1>1
<1>3. /\ SubSeq(s, a, q) \in Seq(W) /\ Len(SubSeq(s, a, q)) = q - a + 1
      /\ \A j \in 1..(q - a + 1) : SubSeq(s, a, q)[j] = s[a + j - 1]
  BY <1>2, PartFact
<1>4. PICK x : x = SubSeq(s, a, q)
  OBVIOUS
<1>5. \A j \in 1..(q - p) : a + j - 1 = p + j
  BY <1>1
<1>6. \A j \in 1..(q - p) : x[j] = s[p + j]
  BY <1>2, <1>3, <1>4, <1>5
<1>7. x \in Seq(W) /\ Len(x) = q - p
  BY <1>2, <1>3, <1>4
<1>8. Part(s, p, q) = x
  BY <1>1, <1>4 DEF Part
<1> QED
  BY <1>6, <1>7, <1>8 DEF IsPart

\* Two neighbouring parts are a part.
LEMMA PartsJoin ==
  ASSUME NEW W, NEW s \in Seq(W), NEW p \in Nat, NEW n \in Nat, NEW q \in Nat, p <= n, n <= q, q <= Len(s)
  PROVE  Part(s, p, n) \o Part(s, n, q) = Part(s, p, q)
<1>0. n <= Len(s) /\ p <= q
  OBVIOUS
<1>1. IsPart(Part(s, p, n), s, p, n - p, W)
  BY <1>0, PartIs
<1>2. IsPart(Part(s, n, q), s, n, q - n, W)
  BY <1>0, PartIs
<1>3. IsPart(Part(s, p, q), s, p, q - p, W)
  BY <1>0, PartIs
<1>4. PICK a \in Nat, b \in Nat : a = n - p /\ b = q - n /\ a + b = q - p
  OBVIOUS
<1>5. PICK x : x = Part(s, p, n)
  OBVIOUS
<1>6. PICK y : y = Part(s, n, q)
  OBVIOUS
<1>7. PICK z : z = Part(s, p, q)
  OBVIOUS
<1>8. x \in Seq(W) /\ Len(x) = a /\ \A j \in 1..a : x[j] = s[p + j]
  BY <1>1, <1>4, <1>5 DEF IsPart
<1>9. y \in Seq(W) /\ Len(y) = b /\ \A j \in 1..b : y[j] = s[n + j]
  BY <1>2, <1>4, <1>6 DEF IsPart
<1>10. z \in Seq(W) /\ Len(z) = a + b /\ \A j \in 1..(a + b) : z[j] = s[p + j]
  BY <1>3, <1>4, <1>7 DEF IsPart
<1>11. IsCat(x \o y, x, y, W)
  <2>1. x \in Seq(W) /\ y \in Seq(W)
    BY <1>8, <1>9
  <2> QED
    BY <2>1, CatFact, ZenonT(60)
<1>12. PICK u : u = x \o y
  OBVIOUS
<1>13. u \in Seq(W) /\ Len(u) = a + b /\ \A j \in 1..(a + b) : u[j] = IF j <= a THEN x[j] ELSE y[j - a]
  BY <1>8, <1>9, <1>11, <1>12 DEF IsCat
<1>14. ASSUME NEW j \in 1..(a + b) PROVE u[j] = z[j]
  <2>1. CASE j <= a
    <3>1. j \in 1..a
      BY <2>1
    <3> QED
      BY <1>8, <1>10, <1>13, <2>1, <3>1
  <2>2. CASE ~ (j <= a)
    <3>1. PICK e \in 1..b : e = j - a /\ n + e = p + j
      BY <1>4, <2>2
    <3> QED
      BY <1>9, <1>10, <1>13, <2>2, <3>1
  <2> QED
    BY <2>1, <2>2
<1>15. u = z
  BY <1>10, <1>13, <1>14, SeqEqual
<1> QED
  BY <1>5, <1>6, <1>7, <1>12, <1>15

\* Where t occurs the text has a part equal to t.
LEMMA OccursPart ==
  ASSUME NEW W, NEW s \in Seq(W), NEW t \in Seq(W), NEW n \in Nat, Occurs(s, n, t)
  PROVE  t = Part(s, n, n + Len(t))
<1>1. PICK q \in Nat : q = n + Len(t) /\ q <= Len(s) /\ n <= q /\ q - n = Len(t)
  <2>1. Len(t) \in Nat /\ n + Len(t) <= Len(s)
    BY DEF Occurs
  <2> QED
    BY <2>1
<1>0. IsPart(Part(s, n, q), s, n, q - n, W)
  BY <1>1, PartIs
<1>2. PICK x : x = Part(s, n, q)
  OBVIOUS
<1>5. x \in Seq(W) /\ Len(x) = q - n /\ \A j \in 1..(q - n) : x[j] = s[n + j]
  BY <1>0, <1>2 DEF IsPart
<1>3. Len(x) = Len(t) /\ \A j \in 1..Len(t) : t[j] = x[j]
  BY <1>1, <1>5 DEF Occurs
<1>4. t = x
  BY <1>3, <1>5, SeqEqual
<1> QED
  BY <1>1, <1>2, <1>4

\* f[j] is what the first j of the n sequences of q are, one behind the other.
SumsUp(f, q, n) == Len(q) = n /\ f[1] = q[1] /\ \A j \in 2..n : f[j] = f[j - 1] \o q[j]

\* FlattenSeq joins the sequences from the first on.
LEMMA FlattenIs ==
  ASSUME NEW W, NEW n \in Nat, n # 0, NEW q, NEW f \in [1..n -> W], SumsUp(f, q, n)
  PROVE  B!FlattenSeq(q) = f[n]
<1>0. Len(q) = n /\ f[1] = q[1] /\ \A j \in 2..n : f[j] = f[j - 1] \o q[j]
  BY DEF SumsUp
<1> DEFINE Fun(w) == w = [j \in 1..Len(q) |-> IF j = 1 THEN q[j] ELSE w[j - 1] \o q[j]]
<1>1. B!FlattenSeq(q) = (CHOOSE w : Fun(w))[Len(q)]
  BY <1>0 DEF B!FlattenSeq
<1>2. Fun(f)
  <2>1. \A j \in 1..n : j # 1 => j \in 2..n
    OBVIOUS
  <2>2. f = [j \in 1..n |-> f[j]]
    OBVIOUS
  <2> QED
    BY <1>0, <2>1, <2>2
<1>3. PICK w : w = CHOOSE z : Fun(z)
  OBVIOUS
<1>4. Fun(w)
  BY <1>2, <1>3
<1>5. \A j \in 1..n : w[j] = IF j = 1 THEN q[j] ELSE w[j - 1] \o q[j]
  BY <1>0, <1>4
<1>6. \A j \in 1..n : w[j] = f[j]
  <2> DEFINE C == {j \in 1..n : w[j] = f[j]}
  <2>1. 1 \in C
    <3>1. 1 \in 1..n
      OBVIOUS
    <3> QED
      BY <1>0, <1>5, <3>1
  <2>2. ASSUME NEW j \in (1 + 1)..n, j - 1 \in C PROVE j \in C
    <3>1. j \in 1..n /\ j # 1 /\ j \in 2..n
      OBVIOUS
    <3>2. w[j] = w[j - 1] \o q[j] /\ f[j] = f[j - 1] \o q[j] /\ w[j - 1] = f[j - 1]
      BY <1>0, <1>5, <2>2, <3>1
    <3> QED
      BY <3>1, <3>2
  <2> HIDE DEF C
  <2>3. \A j \in 1..n : j \in C
    <3>1. 1 \in Nat
      OBVIOUS
    <3> QED
      BY <2>1, <2>2, <3>1, GoesOn
  <2> QED
    BY <2>3 DEF C
<1>7. n \in 1..n
  OBVIOUS
<1> QED
  BY <1>0, <1>1, <1>3, <1>6, <1>7

Cut == [pos : Nat, fields : Seq(Seq(Byte))]
Uncut == [pos |-> 0, fields |-> <<>>]

\* One more field is cut off, if t is found behind the last one.
CutNext(s, t, f, m) ==
  LET q == FindIn(s, t, f.pos, m)
  IN  IF q = -1 THEN f ELSE [pos |-> q + Len(t), fields |-> Append(f.fields, Part(s, f.pos, q))]

\* Field j with a t behind it is what s has from p[j - 1] to p[j].
CutsAt(s, t, e, num, p) ==
  /\ p \in [0..num -> 0..Len(s)] /\ p[0] = 0
  /\ \A j \in 1..num : p[j - 1] <= p[j] /\ e[j] \o t = Part(s, p[j - 1], p[j])

CutsTo(s, t, e, num, m) == \E p : CutsAt(s, t, e, num, p) /\ p[num] = m
CutUp(s, t, f) == \E num \in Nat : Len(f.fields) = num /\ CutsTo(s, t, f.fields, num, f.pos)

\* split's loop before its first turn.
LEMMA UncutIsCut ==
  ASSUME NEW s \in Seq(Byte), NEW t \in Seq(Byte)
  PROVE  Uncut \in Cut /\ CutUp(s, t, Uncut)
<1>1. Uncut \in Cut
  <2>1. <<>> \in Seq(Seq(Byte))
    OBVIOUS
  <2> QED
    BY <2>1 DEF Uncut, Cut
<1>2. PICK p : p = [j \in 0..0 |-> 0]
  OBVIOUS
<1>3. CutsAt(s, t, Uncut.fields, 0, p) /\ p[0] = Uncut.pos
  <2>1. 0 \in 0..Len(s) /\ 1..0 = {} /\ 0 \in 0..0
    OBVIOUS
  <2> QED
    BY <1>2, <2>1 DEF CutsAt, Uncut
<1>4. Len(Uncut.fields) = 0 /\ 0 \in Nat
  BY DEF Uncut
<1> QED
  BY <1>1, <1>3, <1>4 DEF CutUp, CutsTo

\* A field and its separator are the part of the text up to the next field.
LEMMA FieldFits ==
  ASSUME NEW s \in Seq(Byte), NEW t \in Seq(Byte), NEW n \in Nat, NEW q \in Nat, n <= q, q <= Len(s), Occurs(s, q, t)
  PROVE  Part(s, n, q) \in Seq(Byte) /\ Part(s, n, q) \o t = Part(s, n, q + Len(t)) /\ q + Len(t) <= Len(s)
<1>1. PICK W : W = Byte
  OBVIOUS
<1>2. PICK m \in Nat : m = q + Len(t) /\ m <= Len(s) /\ q <= m
  <2>1. Len(t) \in Nat /\ q + Len(t) <= Len(s)
    BY DEF Occurs
  <2> QED
    BY <2>1
<1>3. s \in Seq(W) /\ t \in Seq(W)
  BY <1>1
<1>4. IsPart(Part(s, n, q), s, n, q - n, W)
  BY <1>3, PartIs
<1>5. t = Part(s, q, q + Len(t))
  BY <1>3, OccursPart
<1>6. Part(s, n, q) \o Part(s, q, m) = Part(s, n, m)
  BY <1>2, <1>3, PartsJoin
<1> QED
  BY <1>1, <1>2, <1>4, <1>5, <1>6 DEF IsPart

\* One field more.
LEMMA CutsGrow ==
  ASSUME NEW s \in Seq(Byte), NEW t \in Seq(Byte), NEW num \in Nat, NEW e \in Seq(Seq(Byte)), Len(e) = num,
         NEW p, CutsAt(s, t, e, num, p), NEW x \in Seq(Byte), NEW m \in 0..Len(s),
         p[num] <= m, x \o t = Part(s, p[num], m)
  PROVE  CutsTo(s, t, Append(e, x), num + 1, m)
<1>1. PICK n \in Nat : n = Len(s)
  OBVIOUS
<1>2. PICK r : r = [j \in 0..(num + 1) |-> IF j = num + 1 THEN m ELSE p[j]]
  OBVIOUS
<1>3. p \in [0..num -> 0..n] /\ p[0] = 0 /\ m \in 0..n
  BY <1>1 DEF CutsAt
<1>4. \A j \in 0..(num + 1) : j # num + 1 => j \in 0..num
  OBVIOUS
<1>5. r \in [0..(num + 1) -> 0..n]
  BY <1>2, <1>3, <1>4
<1>6. num + 1 \in 0..(num + 1) /\ 0 \in 0..(num + 1) /\ 0 # num + 1 /\ num \in 0..(num + 1) /\ num # num + 1
  OBVIOUS
<1>7. r[0] = 0 /\ r[num + 1] = m /\ r[num] = p[num]
  BY <1>2, <1>3, <1>6
<1>8. PICK z : z = Append(e, x)
  OBVIOUS
<1>9. z[num + 1] = x /\ \A j \in 1..num : z[j] = e[j]
  BY <1>8
<1>10. ASSUME NEW j \in 1..(num + 1) PROVE r[j - 1] <= r[j] /\ z[j] \o t = Part(s, r[j - 1], r[j])
  <2>1. CASE j = num + 1
    <3>1. j - 1 = num
      BY <2>1
    <3> QED
      BY <1>7, <1>9, <2>1, <3>1
  <2>2. CASE j # num + 1
    <3>1. j \in 1..num /\ j \in 0..(num + 1) /\ j - 1 \in 0..(num + 1) /\ j - 1 # num + 1
      BY <2>2
    <3>2. r[j] = p[j] /\ r[j - 1] = p[j - 1] /\ z[j] = e[j]
      BY <1>2, <1>9, <2>2, <3>1
    <3>3. p[j - 1] <= p[j] /\ e[j] \o t = Part(s, p[j - 1], p[j])
      BY <3>1 DEF CutsAt
    <3> QED
      BY <3>2, <3>3
  <2> QED
    BY <2>1, <2>2
<1>11. CutsAt(s, t, z, num + 1, r)
  BY <1>1, <1>5, <1>7, <1>10 DEF CutsAt
<1> QED
  BY <1>7, <1>8, <1>11 DEF CutsTo

\* A turn of split's loop cuts off one field, or ends it.
LEMMA CutGoesOn ==
  ASSUME NEW s \in Seq(Byte), NEW t \in Seq(Byte), Len(t) # 0, NEW f \in Cut, CutUp(s, t, f), NEW lim \in Nat, lim <= Len(s)
  PROVE  /\ CutNext(s, t, f, lim) \in Cut /\ CutUp(s, t, CutNext(s, t, f, lim))
         /\ FindIn(s, t, f.pos, lim) = -1 => CutNext(s, t, f, lim) = f
         /\ FindIn(s, t, f.pos, lim) # -1 => CutNext(s, t, f, lim).pos > f.pos
<1>1. PICK n \in Nat, e \in Seq(Seq(Byte)) : n = f.pos /\ e = f.fields
  BY DEF Cut
<1>2. CASE FindIn(s, t, n, lim) = -1
  BY <1>1, <1>2 DEF CutNext
<1>3. CASE FindIn(s, t, n, lim) # -1
  <2>1. PICK q \in Nat : q = FindIn(s, t, n, lim) /\ q \in n..(lim - 1) /\ Occurs(s, q, t)
    BY <1>3, FindFinds
  <2>2. PICK m \in Nat : m = q + Len(t) /\ m > n /\ n <= q /\ q <= Len(s) /\ n <= m
    BY <2>1
  <2>0. Part(s, n, q) \in Seq(Byte) /\ Part(s, n, q) \o t = Part(s, n, q + Len(t)) /\ q + Len(t) <= Len(s)
    <3>1. s \in Seq(Byte) /\ t \in Seq(Byte) /\ n \in Nat /\ q \in Nat /\ n <= q /\ q <= Len(s) /\ Occurs(s, q, t)
      BY <2>1, <2>2
    <3> QED
      BY <3>1, FieldFits, ZenonT(60)
  <2>3. PICK x \in Seq(Byte) : x = Part(s, n, q) /\ x \o t = Part(s, n, m) /\ m <= Len(s)
    BY <2>0, <2>2
  <2>4. PICK num \in Nat : Len(e) = num /\ CutsTo(s, t, e, num, n)
    BY <1>1 DEF CutUp
  <2>13. PICK p : CutsAt(s, t, e, num, p) /\ p[num] = n
    BY <2>4 DEF CutsTo
  <2>5. PICK z : z = Append(e, x)
    OBVIOUS
  <2>6. z \in Seq(Seq(Byte)) /\ Len(z) = num + 1 /\ num + 1 \in Nat
    BY <2>4, <2>5
  <2>7. CutsTo(s, t, z, num + 1, m)
    <3>1. m \in 0..Len(s) /\ p[num] <= m /\ x \o t = Part(s, p[num], m)
      BY <2>2, <2>3, <2>13
    <3>2. /\ s \in Seq(Byte) /\ t \in Seq(Byte) /\ num \in Nat /\ e \in Seq(Seq(Byte)) /\ Len(e) = num
          /\ CutsAt(s, t, e, num, p) /\ x \in Seq(Byte) /\ m \in 0..Len(s) /\ p[num] <= m /\ x \o t = Part(s, p[num], m)
      BY <2>4, <2>13, <3>1
    <3>3. CutsTo(s, t, Append(e, x), num + 1, m)
      BY <3>2, CutsGrow, ZenonT(60)
    <3> QED
      BY <2>5, <3>3
  <2>8. PICK g : g = [pos |-> m, fields |-> z]
    OBVIOUS
  <2>9. g \in Cut
    BY <2>6, <2>8 DEF Cut
  <2>10. g.pos = m /\ g.fields = z
    BY <2>8
  <2>11. CutUp(s, t, g)
    BY <2>6, <2>7, <2>10 DEF CutUp
  <2>12. CutNext(s, t, f, lim) = g
    BY <1>1, <1>3, <2>1, <2>2, <2>3, <2>5, <2>8 DEF CutNext
  <2> QED
    BY <1>1, <1>3, <2>2, <2>9, <2>10, <2>11, <2>12
<1> QED
  BY <1>1, <1>2, <1>3

\* All fields, each with the t behind it, make up the text to the end of the last one.
LEMMA CutJoins ==
  ASSUME NEW s \in Seq(Byte), NEW t \in Seq(Byte), NEW f \in Cut, CutUp(s, t, f)
  PROVE  /\ f.pos \in 0..Len(s)
         /\ B!FlattenSeq([j \in DOMAIN f.fields |-> f.fields[j] \o t]) = SubSeq(s, 1, f.pos)
<1>1. PICK n \in Nat, e \in Seq(Seq(Byte)) : n = f.pos /\ e = f.fields
  BY DEF Cut
<1>0. PICK num \in Nat : Len(e) = num /\ CutsTo(s, t, e, num, n)
  BY <1>1 DEF CutUp
<1>2. PICK p : Len(e) = num /\ CutsAt(s, t, e, num, p) /\ p[num] = n
  BY <1>0 DEF CutsTo
<1>3. p \in [0..num -> 0..Len(s)] /\ p[0] = 0
  BY <1>2 DEF CutsAt
<1>4. n \in 0..Len(s)
  <2>1. num \in 0..num
    OBVIOUS
  <2> QED
    BY <1>2, <1>3, <2>1
<1>5. PICK q : q = [j \in 1..num |-> e[j] \o t]
  OBVIOUS
<1>6. [j \in DOMAIN f.fields |-> f.fields[j] \o t] = q
  <2>1. DOMAIN e = 1..num
    BY <1>2
  <2> QED
    BY <1>1, <1>5, <2>1
<1>7. PICK W : W = Byte
  OBVIOUS
<1>8. s \in Seq(W)
  BY <1>7
<1>9. CASE num = 0
  <2>1. n = 0
    BY <1>2, <1>3, <1>9
  <2>2. SubSeq(s, 1, n) = <<>>
    BY <2>1
  <2>3. q = <<>>
    BY <1>5, <1>9
  <2>4. B!FlattenSeq(q) = <<>>
    BY <2>3 DEF B!FlattenSeq
  <2> QED
    BY <1>1, <1>4, <1>6, <2>2, <2>4
<1>10. CASE num # 0
  <2>1. PICK g : g = [j \in 1..num |-> Part(s, 0, p[j])]
    OBVIOUS
  <2>2. ASSUME NEW j \in 1..num PROVE p[j] \in Nat /\ p[j] <= Len(s) /\ p[j - 1] \in Nat /\ p[j - 1] <= p[j] /\ q[j] = Part(s, p[j - 1], p[j])
    <3>1. j \in 0..num /\ j - 1 \in 0..num
      OBVIOUS
    <3>2. p[j - 1] <= p[j] /\ e[j] \o t = Part(s, p[j - 1], p[j])
      BY <1>2 DEF CutsAt
    <3>3. p[j] \in 0..Len(s) /\ p[j - 1] \in 0..Len(s)
      BY <1>3, <3>1
    <3> QED
      BY <1>5, <3>2, <3>3, SMTT(30)
  <2>3. \A j \in 1..num : Part(s, 0, p[j]) \in Seq(W)
    <3>1. ASSUME NEW j \in 1..num PROVE Part(s, 0, p[j]) \in Seq(W)
      <4>0. PICK b \in Nat : b = p[j] /\ b <= Len(s)
        BY <2>2
      <4>1. b = p[j] /\ b <= Len(s) /\ 0 <= b /\ 0 \in Nat
        BY <4>0
      <4>2. IsPart(Part(s, 0, b), s, 0, b - 0, W)
        BY <1>8, <4>1, PartIs
      <4> QED
        BY <4>1, <4>2 DEF IsPart
    <3> QED
      BY <3>1
  <2>4. g \in [1..num -> Seq(W)]
    BY <2>1, <2>3
  <2>5. g[1] = q[1]
    <3>1. 1 \in 1..num /\ 1 - 1 = 0
      BY <1>10
    <3>2. q[1] = Part(s, p[0], p[1])
      BY <2>2, <3>1
    <3> QED
      BY <1>3, <2>1, <3>1, <3>2
  <2>6. ASSUME NEW j \in 2..num PROVE g[j] = g[j - 1] \o q[j]
    <3>1. j \in 1..num /\ j - 1 \in 1..num
      OBVIOUS
    <3>2. PICK b \in Nat, c \in Nat : b = p[j - 1] /\ c = p[j] /\ b <= c /\ c <= Len(s) /\ q[j] = Part(s, b, c)
      BY <2>2, <3>1
    <3>3. s \in Seq(W) /\ 0 \in Nat /\ b \in Nat /\ c \in Nat /\ 0 <= b /\ b <= c /\ c <= Len(s)
      BY <1>8, <3>2
    <3>4. Part(s, 0, b) \o Part(s, b, c) = Part(s, 0, c)
      BY <3>3, PartsJoin, ZenonT(60)
    <3> QED
      BY <2>1, <3>1, <3>2, <3>4
  <2>7. PICK z : z = Seq(W)
    OBVIOUS
  <2>8. g \in [1..num -> z]
    BY <2>4, <2>7
  <2>9. Len(q) = num
    BY <1>5
  <2>10. B!FlattenSeq(q) = g[num]
    <3>1. SumsUp(g, q, num)
      BY <2>5, <2>6, <2>9 DEF SumsUp
    <3>2. num \in Nat /\ num # 0 /\ g \in [1..num -> z] /\ SumsUp(g, q, num)
      BY <1>10, <2>8, <3>1
    <3> QED
      BY <3>2, FlattenIs, ZenonT(60)
  <2>11. g[num] = Part(s, 0, n)
    <3>1. num \in 1..num
      BY <1>10
    <3> QED
      BY <1>2, <2>1, <3>1
  <2>12. Part(s, 0, n) = SubSeq(s, 1, n)
    <3>1. 0 + 1 = 1
      OBVIOUS
    <3> QED
      BY <3>1 DEF Part
  <2> QED
    BY <1>1, <1>4, <1>6, <2>10, <2>11, <2>12
<1> QED
  BY <1>9, <1>10

\* What split does in its step behind f.
SplitAt(a, t, f) ==
  LET q == B!find(a, t, f.pos)
  IN  IF q = -1 THEN f ELSE [pos |-> q + Len(t), fields |-> Append(f.fields, SubSeq(B!Text(a), f.pos + 1, q))]

\* split's loop in the buffer is the loop over the reference.
LEMMA SplitCuts ==
  ASSUME BytesInv, ~stale, NEW a \in {1, 2}, NEW t \in Seq(Byte), Len(t) # 0, NEW f \in Cut
  PROVE  SplitAt(a, t, f) = CutNext(Told(a), t, f, Len(ref[a]))
<1>1. PICK n \in Nat : n = f.pos
  BY DEF Cut
<1>2. PICK s \in Seq(Byte), r \in Seq(Byte), m \in Nat :
        /\ s = Told(a) /\ r = ref[a] /\ m = Len(r) /\ m <= Len(s)
        /\ \A j \in 1..Len(s) : s[j] = IF j <= m THEN r[j] ELSE 0
  <2>1. Len(ref[a]) \in Nat
    BY ToldIs
  <2> QED
    BY <2>1, ToldIs
<1>3. B!find(a, t, n) = FindIn(s, t, n, m)
  BY <1>2, FindIs
<1>4. B!Text(a) = r
  BY <1>2, TextIs
<1>5. CASE FindIn(s, t, n, m) = -1
  BY <1>1, <1>2, <1>3, <1>5 DEF SplitAt, CutNext
<1>6. CASE FindIn(s, t, n, m) # -1
  <2>1. PICK q \in Nat : q = FindIn(s, t, n, m) /\ n <= q /\ q <= m /\ q <= Len(s)
    <3>1. PICK q \in Nat : q = FindIn(s, t, n, m) /\ q \in n..(m - 1)
      BY <1>2, <1>6, FindFinds
    <3>2. n <= q /\ q <= m /\ q <= Len(s)
      BY <1>2, <3>1
    <3> QED
      BY <3>1, <3>2
  <2>2. IsPart(Part(s, n, q), s, n, q - n, Byte) /\ IsPart(Part(r, n, q), r, n, q - n, Byte)
    BY <1>2, <2>1, PartIs
  <2>3. PICK x, y : x = Part(s, n, q) /\ y = Part(r, n, q)
    OBVIOUS
  <2>4. PICK l \in Nat : l = q - n /\ \A j \in 1..l : n + j \in 1..Len(s) /\ n + j <= m
    BY <1>2, <2>1
  <2>5. /\ x \in Seq(Byte) /\ Len(x) = l /\ \A j \in 1..l : x[j] = s[n + j]
        /\ y \in Seq(Byte) /\ Len(y) = l /\ \A j \in 1..l : y[j] = r[n + j]
    BY <2>2, <2>3, <2>4 DEF IsPart
  <2>6. \A j \in 1..l : x[j] = y[j]
    BY <1>2, <2>4, <2>5
  <2>7. x = y
    BY <2>5, <2>6, SeqEqual
  <2>8. SubSeq(B!Text(a), n + 1, q) = Part(s, n, q)
    BY <1>4, <2>3, <2>7 DEF Part
  <2>9. SplitAt(a, t, f) = [pos |-> q + Len(t), fields |-> Append(f.fields, Part(s, n, q))]
    <3>1. q # -1 /\ B!find(a, t, f.pos) = q
      BY <1>1, <1>3, <2>1
    <3> QED
      BY <1>1, <2>8, <3>1 DEF SplitAt
  <2>10. CutNext(s, t, f, m) = [pos |-> q + Len(t), fields |-> Append(f.fields, Part(s, n, q))]
    BY <1>1, <1>6, <2>1 DEF CutNext
  <2> QED
    BY <1>2, <2>9, <2>10
<1> QED
  BY <1>5, <1>6

\* As far as j steps get: the rest is searched, or nothing more is found.
CutBy(s, t, f, j, lim) == f \in Cut /\ CutUp(s, t, f) /\ (j <= f.pos \/ FindIn(s, t, f.pos, lim) = -1)

\* The turns of split's loop, counted.
LEMMA CutByOneMore ==
  ASSUME NEW s \in Seq(Byte), NEW t \in Seq(Byte), Len(t) # 0, NEW j \in Nat, NEW f, NEW lim \in Nat,
         lim <= Len(s), CutBy(s, t, f, j, lim)
  PROVE  CutBy(s, t, CutNext(s, t, f, lim), j + 1, lim)
<1>1. PICK g \in Cut : g = f
  BY DEF CutBy
<1>2. CutUp(s, t, g) /\ (j <= g.pos \/ FindIn(s, t, g.pos, lim) = -1)
  BY <1>1 DEF CutBy
<1>3. /\ CutNext(s, t, g, lim) \in Cut /\ CutUp(s, t, CutNext(s, t, g, lim))
      /\ FindIn(s, t, g.pos, lim) = -1 => CutNext(s, t, g, lim) = g
      /\ FindIn(s, t, g.pos, lim) # -1 => CutNext(s, t, g, lim).pos > g.pos
  BY <1>2, CutGoesOn
<1>4. PICK h \in Cut : h = CutNext(s, t, g, lim)
  BY <1>3
<1>5. PICK n \in Nat, m \in Nat : n = g.pos /\ m = h.pos
  BY DEF Cut
<1>6. CASE FindIn(s, t, n, lim) = -1
  <2>1. h = g
    BY <1>3, <1>4, <1>5, <1>6
  <2> QED
    BY <1>1, <1>2, <1>4, <1>5, <1>6, <2>1 DEF CutBy
<1>7. CASE FindIn(s, t, n, lim) # -1
  <2>1. j <= n /\ m > n
    BY <1>2, <1>3, <1>4, <1>5, <1>7
  <2>2. j + 1 <= m
    BY <2>1
  <2> QED
    BY <1>1, <1>3, <1>4, <1>5, <2>2 DEF CutBy
<1> QED
  BY <1>6, <1>7

\* split has found all fields after as many turns as there are bytes.
LEMMA SplitEnds ==
  ASSUME BytesInv, ~stale, NEW a \in {1, 2}, NEW t \in Seq(Byte), Len(t) # 0
  PROVE  CutBy(Told(a), t, B!split(a, t), Len(ref[a]) + 1, Len(ref[a]))
<1> DEFINE Fun(w) == w = [j \in 0..(mem[a]._size + 1) |-> IF j = 0 THEN Uncut ELSE SplitAt(a, t, w[j - 1])]
<1>1. B!split(a, t) = (CHOOSE w : Fun(w))[mem[a]._size + 1]
  BY DEF B!split, SplitAt, Uncut
<1>2. PICK s \in Seq(Byte), lim \in Nat : s = Told(a) /\ lim = Len(ref[a]) /\ lim = mem[a]._size /\ lim <= Len(s)
  <2>1. Len(ref[a]) \in Nat
    BY ToldIs
  <2> QED
    BY <2>1, ToldIs
<1>3. PICK n \in Nat : n = mem[a]._size + 1 /\ n = lim + 1
  BY <1>2
<1>4. \A f \in Cut : SplitAt(a, t, f) = CutNext(s, t, f, lim)
  BY <1>2, SplitCuts
<1>5. ASSUME NEW j \in Nat, NEW f, CutBy(s, t, f, j, lim) PROVE CutBy(s, t, SplitAt(a, t, f), j + 1, lim) /\ f \in Cut
  <2>1. f \in Cut
    BY <1>5 DEF CutBy
  <2>2. CutBy(s, t, CutNext(s, t, f, lim), j + 1, lim)
    BY <1>2, <1>5, CutByOneMore
  <2> QED
    BY <1>4, <2>1, <2>2
<1>6. CutBy(s, t, Uncut, 0, lim)
  <2>1. Uncut.pos = 0 /\ 0 <= 0
    BY DEF Uncut
  <2> QED
    BY <2>1, UncutIsCut DEF CutBy
<1> DEFINE X == {f \in Cut : CutUp(s, t, f)}
<1>7. \A f \in X : SplitAt(a, t, f) \in X
  <2>1. ASSUME NEW f \in X PROVE SplitAt(a, t, f) \in X
    <3>1. f \in Cut /\ CutUp(s, t, f)
      OBVIOUS
    <3>2. CutNext(s, t, f, lim) \in Cut /\ CutUp(s, t, CutNext(s, t, f, lim))
      BY <1>2, <3>1, CutGoesOn
    <3> QED
      BY <1>4, <3>1, <3>2
  <2> QED
    BY <2>1
<1>8. PICK x : x = X
  OBVIOUS
<1>9. Uncut \in x /\ \A f \in x : SplitAt(a, t, f) \in x
  BY <1>6, <1>7, <1>8 DEF CutBy
<1>10. PICK g : g = [j \in 1..n |-> [f \in x |-> SplitAt(a, t, f)]]
  OBVIOUS
<1>11. g \in [1..n -> [x -> x]]
  BY <1>9, <1>10
<1>12. \E w : w \in [0..n -> x] /\ LoopOf(w, Uncut, g, n)
  BY <1>9, <1>11, Loops
<1>13. PICK w : w \in [0..n -> x] /\ w[0] = Uncut /\ \A j \in 1..n : w[j] = g[j][w[j - 1]]
  BY <1>12 DEF LoopOf
<1>14. \A j \in 1..n : w[j] = SplitAt(a, t, w[j - 1])
  <2>1. \A j \in 1..n : j - 1 \in 0..n
    OBVIOUS
  <2> QED
    BY <1>10, <1>13, <2>1
<1>15. Fun(w)
  <2>1. \A j \in 0..n : j # 0 => j \in 1..n
    OBVIOUS
  <2>2. w = [j \in 0..n |-> IF j = 0 THEN Uncut ELSE w[j]]
    BY <1>13
  <2> QED
    BY <1>3, <1>14, <2>1, <2>2
<1>16. PICK v : v = CHOOSE z : Fun(z)
  OBVIOUS
<1>17. Fun(v)
  BY <1>15, <1>16
<1>18. v[0] = Uncut /\ \A j \in 1..n : v[j] = SplitAt(a, t, v[j - 1])
  <2>1. 0 \in 0..n /\ \A j \in 1..n : j \in 0..n /\ j # 0
    OBVIOUS
  <2> QED
    BY <1>3, <1>17, <2>1
<1>19. \A j \in 0..n : CutBy(s, t, v[j], j, lim)
  <2> DEFINE C == {j \in 0..n : CutBy(s, t, v[j], j, lim)}
  <2>1. 0 \in C
    BY <1>6, <1>18
  <2>2. ASSUME NEW j \in (0 + 1)..n, j - 1 \in C PROVE j \in C
    <3>1. PICK b \in Nat : b = j - 1 /\ j \in 1..n /\ j \in 0..n /\ b + 1 = j
      OBVIOUS
    <3>2. CutBy(s, t, v[b], b, lim)
      BY <2>2, <3>1
    <3>3. CutBy(s, t, SplitAt(a, t, v[b]), b + 1, lim)
      BY <1>5, <3>2
    <3>4. v[j] = SplitAt(a, t, v[b])
      BY <1>18, <3>1
    <3> QED
      BY <3>1, <3>3, <3>4
  <2> HIDE DEF C
  <2>3. \A j \in 0..n : j \in C
    <3>1. 0 \in Nat
      OBVIOUS
    <3> QED
      BY <2>1, <2>2, <3>1, GoesOn
  <2> QED
    BY <2>3 DEF C
<1>20. CutBy(s, t, v[n], n, lim)
  BY <1>19
<1>21. B!split(a, t) = v[n]
  BY <1>1, <1>3, <1>16
<1> QED
  BY <1>2, <1>3, <1>20, <1>21

\* find and split tell the caller the truth about the reference.
LEMMA BytesTold ==
  ASSUME BytesInv, ~stale, NEW a \in {1, 2}, NEW t \in Seq(Byte), Len(t) # 0
  PROVE  /\ B!find(a, t, 0) # -1 =>
              B!find(a, t, 0) < Len(ref[a]) /\ B!IsPrefix(t, SubSeq(Told(a), B!find(a, t, 0) + 1, Len(Told(a))))
         /\ LET s == B!split(a, t) IN
            /\ B!FlattenSeq([j \in DOMAIN s.fields |-> s.fields[j] \o t]) = SubSeq(Told(a), 1, s.pos)
            /\ ~\E j \in s.pos .. Len(ref[a]) - Len(t) : B!IsPrefix(t, SubSeq(ref[a], j + 1, Len(ref[a])))
            /\ B!Last(t) # 0 => s.pos <= Len(ref[a])
<1>1. PICK s \in Seq(Byte), r \in Seq(Byte), m \in Nat :
        /\ s = Told(a) /\ r = ref[a] /\ m = Len(r) /\ m <= Len(s)
        /\ \A j \in 1..Len(s) : s[j] = IF j <= m THEN r[j] ELSE 0
  <2>1. Len(ref[a]) \in Nat
    BY ToldIs
  <2> QED
    BY <2>1, ToldIs
<1>2. ASSUME B!find(a, t, 0) # -1
      PROVE  B!find(a, t, 0) < m /\ B!IsPrefix(t, SubSeq(s, B!find(a, t, 0) + 1, Len(s)))
  <2>1. 0 \in Nat
    OBVIOUS
  <2>2. B!find(a, t, 0) = FindIn(s, t, 0, m)
    BY <1>1, <2>1, FindIs
  <2>3. PICK q \in Nat : q = B!find(a, t, 0) /\ q \in 0..(m - 1) /\ Occurs(s, q, t)
    BY <1>2, <2>1, <2>2, FindFinds
  <2>4. q \in 0..Len(s) /\ q < m
    BY <1>1, <2>3
  <2> QED
    BY <2>3, <2>4, PrefixOccurs
<1>3. PICK f \in Cut : f = B!split(a, t) /\ CutBy(s, t, f, m + 1, m)
  BY <1>1, SplitEnds DEF CutBy
<1>4. CutUp(s, t, f) /\ (m + 1 <= f.pos \/ FindIn(s, t, f.pos, m) = -1)
  BY <1>3 DEF CutBy
<1>5. PICK n \in 0..Len(s) : n = f.pos /\ B!FlattenSeq([j \in DOMAIN f.fields |-> f.fields[j] \o t]) = SubSeq(s, 1, n)
  BY <1>4, CutJoins
<1>6. ASSUME NEW j \in n..(m - Len(t)) PROVE ~ B!IsPrefix(t, SubSeq(r, j + 1, m))
  <2>1. n \in Nat /\ j \in n..(m - 1) /\ j \in 0..m /\ ~ (m + 1 <= n)
    <3>1. Len(t) \in Nat /\ Len(t) # 0 /\ n \in Nat
      OBVIOUS
    <3> QED
      BY <3>1
  <2>2. ~ Occurs(s, j, t)
    BY <1>4, <1>5, <2>1, FindFinds
  <2>3. ASSUME Occurs(r, j, t) PROVE Occurs(s, j, t)
    <3>1. PICK l \in Nat : l = Len(t) /\ j + l <= m
      BY <1>1, <2>3 DEF Occurs
    <3>2. \A u \in 1..l : r[j + u] = t[u]
      BY <2>3, <3>1 DEF Occurs
    <3>3. \A u \in 1..l : j + u \in 1..Len(s) /\ j + u <= m
      BY <1>1, <2>1, <3>1
    <3>4. \A u \in 1..l : s[j + u] = t[u]
      BY <1>1, <3>2, <3>3
    <3> QED
      BY <1>1, <3>1, <3>4 DEF Occurs
  <2> QED
    BY <1>1, <2>1, <2>2, <2>3, PrefixOccurs
<1>7. ASSUME B!Last(t) # 0 PROVE n <= m
  <2>1. PICK num \in Nat : Len(f.fields) = num /\ CutsTo(s, t, f.fields, num, n)
    BY <1>4, <1>5 DEF CutUp
  <2>2. PICK p : CutsAt(s, t, f.fields, num, p) /\ p[num] = n
    BY <2>1 DEF CutsTo
  <2>3. CASE num = 0
    BY <2>2, <2>3 DEF CutsAt
  <2>4. CASE num # 0
    <3>1. num \in 1..num /\ num - 1 \in 0..num
      BY <2>4
    <3>2. PICK b \in Nat : b = p[num - 1] /\ b <= n /\ f.fields[num] \o t = Part(s, b, n)
      <4>1. p[num - 1] \in 0..Len(s) /\ p[num - 1] <= p[num] /\ f.fields[num] \o t = Part(s, p[num - 1], p[num])
        BY <2>2, <3>1 DEF CutsAt
      <4>2. p[num - 1] \in Nat
        BY <4>1
      <4> QED
        BY <2>2, <4>1, <4>2
    <3>3. PICK x \in Seq(Byte) : x = f.fields[num]
      BY <2>1, <3>1 DEF Cut
    <3>4. IsPart(Part(s, b, n), s, b, n - b, Byte)
      BY <1>5, <3>2, PartIs
    <3>5. IsCat(x \o t, x, t, Byte)
      BY CatFact
    <3>6. PICK y : y = x \o t /\ y = Part(s, b, n)
      BY <3>2, <3>3
    <3>7. PICK l \in Nat, lim \in Nat : l = Len(t) /\ lim = Len(x) /\ l # 0
      OBVIOUS
    <3>8. Len(y) = lim + l /\ y[lim + l] = t[l]
      <4>1. lim + l \in 1..(lim + l) /\ ~ (lim + l <= lim) /\ lim + l - lim = l
        BY <3>7
      <4> QED
        BY <3>5, <3>6, <3>7, <4>1 DEF IsCat
    <3>9. Len(y) = n - b /\ \A j \in 1..(n - b) : y[j] = s[b + j]
      BY <3>4, <3>6 DEF IsPart
    <3>10. lim + l \in 1..(n - b) /\ b + (lim + l) = n /\ n \in 1..Len(s)
      <4>1. PICK z \in Nat : z = n /\ z <= Len(s)
        BY <1>5
      <4>2. lim + l = z - b
        BY <3>8, <3>9, <4>1
      <4> QED
        BY <3>2, <3>7, <4>1, <4>2
    <3>11. s[n] = t[l]
      BY <3>8, <3>9, <3>10
    <3>12. t[l] # 0
      BY <1>7, <3>7 DEF B!Last
    <3> QED
      BY <1>1, <3>10, <3>11, <3>12
  <2> QED
    BY <2>3, <2>4
<1> QED
  BY <1>1, <1>2, <1>3, <1>5, <1>6, <1>7

\* What the invariant means to the byte arrays' caller.
LEMMA BytesTellTheReference ==
  BytesInv => B!BytesAsReference
<1> SUFFICES ASSUME BytesInv, ~stale PROVE B!BytesAsReference
  BY DEF B!BytesAsReference
<1>1. ASSUME NEW a \in {1, 2} PROVE B!Text(a) = ref[a]
  BY TextIs
<1>2. \A t \in Samples : t \in Seq(Byte) /\ Len(t) # 0
  <2>1. Len(<<1>>) # 0 /\ Len(<<1, 0>>) # 0 /\ Len(<<0, 1>>) # 0
    OBVIOUS
  <2> QED
    BY <2>1, TextsAreStrings DEF Samples
<1>3. ASSUME NEW a \in {1, 2}, NEW t \in Samples
      PROVE  LET padded == B!Zeroed(ref[a], mem[a]._capacity)
                 first == B!find(a, t, 0)
                 s == B!split(a, t)
             IN  /\ first # -1 => first < Len(ref[a]) /\ B!IsPrefix(t, SubSeq(padded, first + 1, Len(padded)))
                 /\ B!FlattenSeq([j \in DOMAIN s.fields |-> s.fields[j] \o t]) = SubSeq(padded, 1, s.pos)
                 /\ ~\E j \in s.pos .. Len(ref[a]) - Len(t) : B!IsPrefix(t, SubSeq(ref[a], j + 1, Len(ref[a])))
                 /\ B!Last(t) # 0 => s.pos <= Len(ref[a])
  <2>1. t \in Seq(Byte) /\ Len(t) # 0
    BY <1>2
  <2> QED
    BY <2>1, BytesTold DEF Told
<1> QED
  BY <1>1, <1>3, Zenon DEF B!BytesAsReference, Samples

---------------------------------------------------------------------------
(* The list in one array: its elements are at the indices c[1], ..., c[n].     *)

Index == -1..MaxSize
StaticNode == [data : {0, 1, Junk}, next : Index, previous : Index]
StaticArray == [0..MaxSize -> StaticNode]

Indices(c, n) ==
  /\ c \in [1..n -> 1..MaxSize] /\ \A a, b \in 1..n : c[a] = c[b] => a = b

\* The first element is at index 1, the last one is the previous of index 0.
Rowed(m, c, n) ==
  /\ n = 0 => m[1].previous = -1
  /\ n # 0 => c[1] = 1 /\ m[1].previous = 1 /\ m[0].next = 1 /\ m[0].previous = c[n]
  /\ \A j \in 1..n : m[c[j]].previous # -1
  /\ \A j \in 2..n : m[c[j]].previous = c[j - 1] /\ m[c[j - 1]].next = c[j]

Taken(m) == {j \in 1..MaxSize : m[j].previous # -1}

StaticIs(c, n) ==
  /\ ~ub /\ m_capacity = MaxSize + 1 /\ m_size = n
  /\ mem \in StaticArray /\ Indices(c, n) /\ Rowed(mem, c, n)
  /\ ref \in Seq({0, 1}) /\ Len(ref) = n /\ \A j \in 1..n : mem[c[j]].data = ref[j]
  /\ m_tail \in Int /\ Cardinality(Taken(mem)) <= m_tail

StaticInv == ~stale => \E n \in Nat : \E c : StaticIs(c, n)

\* The n steps along the field from index e come by f[1], ..., f[n].
Walks(field, f, e, n) ==
  f \in [0..n -> 0..MaxSize] /\ f[0] = e /\ \A j \in 1..n : mem[f[j - 1]][field] = f[j]

\* n steps along a field of the indices.
LEMMA WalkIs ==
  ASSUME NEW n \in Nat, NEW field, NEW f, NEW e, DOMAIN mem = 0..MaxSize, Walks(field, f, e, n)
  PROVE  T!Walk(field, e, n) = f[n]
<1> DEFINE Fun(w) == w = [j \in 0..n |-> IF j = 0 THEN e
                            ELSE IF w[j - 1] \notin DOMAIN mem THEN T!m_npos ELSE mem[w[j - 1]][field]]
<1>0. f \in [0..n -> 0..MaxSize] /\ f[0] = e /\ \A j \in 1..n : mem[f[j - 1]][field] = f[j]
  BY DEF Walks
<1>1. T!Walk(field, e, n) = (CHOOSE w : Fun(w))[n]
  BY DEF T!Walk
<1>2. Fun(f)
  <2>1. \A j \in 0..n : j # 0 => j \in 1..n /\ j - 1 \in 0..n
    OBVIOUS
  <2>2. f = [j \in 0..n |-> f[j]]
    BY <1>0
  <2>3. \A j \in 1..n : f[j - 1] \in DOMAIN mem /\ mem[f[j - 1]][field] = f[j]
    BY <1>0, <2>1
  <2> QED
    BY <1>0, <2>1, <2>2, <2>3
<1>3. PICK w : w = CHOOSE z : Fun(z)
  OBVIOUS
<1>4. Fun(w)
  BY <1>2, <1>3
<1>5. w[0] = e /\ \A j \in 1..n : w[j] = IF w[j - 1] \notin DOMAIN mem THEN T!m_npos ELSE mem[w[j - 1]][field]
  <2>1. 0 \in 0..n /\ \A j \in 1..n : j \in 0..n /\ j # 0
    OBVIOUS
  <2> QED
    BY <1>4, <2>1
<1>6. \A j \in 0..n : w[j] = f[j]
  <2> DEFINE C == {j \in 0..n : w[j] = f[j]}
  <2>1. 0 \in C
    BY <1>0, <1>5
  <2>2. ASSUME NEW j \in (0 + 1)..n, j - 1 \in C PROVE j \in C
    <3>1. j \in 1..n /\ j \in 0..n /\ j - 1 \in 0..n
      OBVIOUS
    <3>2. w[j - 1] = f[j - 1] /\ f[j - 1] \in DOMAIN mem /\ mem[f[j - 1]][field] = f[j]
      BY <1>0, <2>2, <3>1
    <3> QED
      BY <1>5, <3>1, <3>2
  <2> HIDE DEF C
  <2>3. \A j \in 0..n : j \in C
    <3>1. 0 \in Nat
      OBVIOUS
    <3> QED
      BY <2>1, <2>2, <3>1, GoesOn
  <2> QED
    BY <2>3 DEF C
<1> QED
  BY <1>1, <1>3, <1>6

\* What the invariant says, part by part.
LEMMA StaticParts ==
  ASSUME NEW n \in Nat, NEW c, StaticIs(c, n)
  PROVE  /\ DOMAIN mem = 0..MaxSize /\ m_size = n
         /\ c \in [1..n -> 1..MaxSize] /\ \A j \in 1..n : c[j] \in 0..MaxSize
         /\ n # 0 => c[1] = 1 /\ mem[0].next = 1 /\ mem[0].previous = c[n]
         /\ \A j \in 2..n : mem[c[j]].previous = c[j - 1] /\ mem[c[j - 1]].next = c[j]
         /\ \A j \in 1..n : mem[c[j]].data = ref[j]
<1>1. MaxSize \in Nat
  BY Bounds
<1>2. c \in [1..n -> 1..MaxSize] /\ DOMAIN mem = 0..MaxSize
  BY DEF StaticIs, Indices, StaticArray
<1>3. \A j \in 1..n : c[j] \in 0..MaxSize
  BY <1>1, <1>2
<1>4. m_size = n /\ Rowed(mem, c, n) /\ \A j \in 1..n : mem[c[j]].data = ref[j]
  BY DEF StaticIs
<1>5. /\ n # 0 => c[1] = 1 /\ mem[0].next = 1 /\ mem[0].previous = c[n]
      /\ \A j \in 2..n : mem[c[j]].previous = c[j - 1] /\ mem[c[j - 1]].next = c[j]
  BY <1>4 DEF Rowed
<1> QED
  BY <1>2, <1>3, <1>4, <1>5

\* The element behind the first pos ones is found from either end.
LEMMA StaticFinds ==
  ASSUME NEW n \in Nat, NEW c, StaticIs(c, n), NEW pos \in 0..(n - 1)
  PROVE  T!findNodeIndex(pos) = c[pos + 1]
<1>1. /\ DOMAIN mem = 0..MaxSize /\ m_size = n /\ n # 0
      /\ \A j \in 1..n : c[j] \in 0..MaxSize
      /\ c[1] = 1 /\ mem[0].next = 1 /\ mem[0].previous = c[n]
      /\ \A j \in 2..n : mem[c[j]].previous = c[j - 1] /\ mem[c[j - 1]].next = c[j]
  BY StaticParts
<1>2. T!Walk("next", mem[0].next, pos) = c[pos + 1]
  <2>1. PICK f : f = [j \in 0..pos |-> c[j + 1]]
    OBVIOUS
  <2>2. \A j \in 0..pos : j + 1 \in 1..n
    OBVIOUS
  <2>3. f \in [0..pos -> 0..MaxSize]
    BY <1>1, <2>1, <2>2
  <2>4. ASSUME NEW j \in 1..pos PROVE mem[f[j - 1]]["next"] = f[j]
    <3>1. j \in 0..pos /\ j - 1 \in 0..pos /\ (j - 1) + 1 = j /\ j + 1 \in 2..n /\ (j + 1) - 1 = j
      OBVIOUS
    <3>2. f[j] = c[j + 1] /\ f[j - 1] = c[j]
      BY <2>1, <3>1
    <3>3. mem[c[j]].next = c[j + 1]
      BY <1>1, <3>1
    <3> QED
      BY <3>2, <3>3
  <2>5. f[0] = mem[0].next /\ f[pos] = c[pos + 1]
    <3>1. 0 \in 0..pos /\ 0 + 1 = 1 /\ pos \in 0..pos
      OBVIOUS
    <3> QED
      BY <1>1, <2>1, <3>1
  <2>6. PICK e : e = mem[0].next
    OBVIOUS
  <2>7. pos \in Nat /\ DOMAIN mem = 0..MaxSize /\ Walks("next", f, e, pos)
    BY <1>1, <2>3, <2>4, <2>5, <2>6 DEF Walks
  <2>8. T!Walk("next", e, pos) = f[pos]
    BY <2>7, WalkIs
  <2> QED
    BY <2>5, <2>6, <2>8
<1>3. T!Walk("previous", mem[0].previous, n - 1 - pos) = c[pos + 1]
  <2>0. PICK m \in Nat : m = n - 1 - pos /\ n - m = pos + 1
    OBVIOUS
  <2>1. PICK f : f = [j \in 0..m |-> c[n - j]]
    OBVIOUS
  <2>2. \A j \in 0..m : n - j \in 1..n
    BY <2>0
  <2>3. f \in [0..m -> 0..MaxSize]
    BY <1>1, <2>1, <2>2
  <2>4. ASSUME NEW j \in 1..m PROVE mem[f[j - 1]]["previous"] = f[j]
    <3>1. j \in 0..m /\ j - 1 \in 0..m /\ n - (j - 1) \in 2..n /\ n - (j - 1) - 1 = n - j
      BY <2>0
    <3>2. f[j] = c[n - j] /\ f[j - 1] = c[n - (j - 1)]
      BY <2>1, <3>1
    <3>3. PICK b \in 2..n : b = n - (j - 1) /\ b - 1 = n - j
      BY <3>1
    <3>4. mem[c[b]].previous = c[b - 1]
      BY <1>1
    <3> QED
      BY <3>2, <3>3, <3>4
  <2>5. f[0] = mem[0].previous /\ f[m] = c[pos + 1]
    <3>1. 0 \in 0..m /\ n - 0 = n /\ m \in 0..m
      OBVIOUS
    <3> QED
      BY <1>1, <2>0, <2>1, <3>1
  <2>6. PICK e : e = mem[0].previous
    OBVIOUS
  <2>7. m \in Nat /\ DOMAIN mem = 0..MaxSize /\ Walks("previous", f, e, m)
    BY <1>1, <2>3, <2>4, <2>5, <2>6 DEF Walks
  <2>8. T!Walk("previous", e, m) = f[m]
    BY <2>7, WalkIs
  <2> QED
    BY <2>0, <2>5, <2>6, <2>8
<1> QED
  BY <1>1, <1>2, <1>3 DEF T!findNodeIndex

\* What the invariant means to the list's caller.
LEMMA StaticTells ==
  ASSUME StaticInv
  PROVE  T!StaticAsReference
<1> SUFFICES ASSUME ~stale PROVE ~ub /\ m_size = Len(ref) /\ \A pos \in 0..(m_size - 1) : T!at(pos) = ref[pos + 1]
  BY DEF T!StaticAsReference
<1>1. PICK n \in Nat : \E c : StaticIs(c, n)
  BY DEF StaticInv
<1>2. PICK c : StaticIs(c, n)
  BY <1>1
<1>3. ~ub /\ m_size = n /\ Len(ref) = n /\ \A j \in 1..n : mem[c[j]].data = ref[j]
  BY <1>2 DEF StaticIs
<1>4. ASSUME NEW pos \in 0..(n - 1) PROVE T!at(pos) = ref[pos + 1]
  <2>1. T!findNodeIndex(pos) = c[pos + 1]
    BY <1>2, StaticFinds
  <2>2. pos + 1 \in 1..n
    OBVIOUS
  <2> QED
    BY <1>3, <2>1, <2>2 DEF T!at
<1> QED
  BY <1>3, <1>4

\* The steps that leave the list alone.
LEMMA StaticStays ==
  ASSUME StaticInv, UNCHANGED <<mem, m_size, m_capacity, m_tail, ref, stale, ub>>
  PROVE  StaticInv'
BY DEF StaticInv, StaticIs

\* A new array holds the list of no elements.
LEMMA NewStatic ==
  ASSUME mem' = T!NewArray(MaxSize + 1), m_size' = 0, m_capacity' = MaxSize + 1, m_tail' = 0, ref' = <<>>, ~ub'
  PROVE  StaticInv'
<1>1. MaxSize \in Nat /\ MaxSize > 2
  BY Bounds
<1>2. PICK m : m = mem'
  OBVIOUS
<1>3. m = [j \in 0..MaxSize |-> [data |-> Junk, next |-> -1, previous |-> -1]]
  <2>1. PICK n : n = MaxSize + 1
    OBVIOUS
  <2>2. m = T!NewArray(n)
    BY <1>2, <2>1
  <2>3. m = [j \in 0..(n - 1) |-> T!NoNode]
    BY <2>2 DEF T!NewArray
  <2>4. n - 1 = MaxSize
    BY <1>1, <2>1
  <2>5. T!NoNode = [data |-> Junk, next |-> -1, previous |-> -1]
    BY DEF T!NoNode, T!m_npos
  <2> QED
    BY <2>3, <2>4, <2>5
<1>4. m \in StaticArray
  BY <1>1, <1>3 DEF StaticArray, StaticNode, Index
<1>5. Taken(m) = {} /\ m[1].previous = -1
  BY <1>1, <1>3 DEF Taken
<1>6. PICK c : c = [j \in 1..0 |-> 1]
  OBVIOUS
<1>7. Indices(c, 0) /\ Rowed(m, c, 0)
  <2>1. 1..0 = {} /\ 2..0 = {}
    OBVIOUS
  <2> QED
    BY <1>5, <1>6, <2>1 DEF Indices, Rowed
<1>8. Cardinality(Taken(m)) = 0
  BY <1>5, FS_EmptySet
<1>9. PICK s : s = ref'
  OBVIOUS
<1>10. s \in Seq({0, 1}) /\ Len(s) = 0 /\ 1..0 = {}
  <2>1. <<>> \in Seq({0, 1})
    OBVIOUS
  <2> QED
    BY <1>9, <2>1
<1>11. StaticIs(c, 0)'
  BY <1>2, <1>4, <1>7, <1>8, <1>9, <1>10 DEF StaticIs
<1> QED
  BY <1>11 DEF StaticInv

Lengthened(c, n, x) == [j \in 1..(n + 1) |-> IF j = n + 1 THEN x ELSE c[j]]

\* Array m2 has one more element, v at index x, than m has.
Longer(m2, m, c, n, x, v) ==
  /\ m2 \in StaticArray /\ Indices(Lengthened(c, n, x), n + 1) /\ Rowed(m2, Lengthened(c, n, x), n + 1)
  /\ Taken(m2) = Taken(m) \cup {x}
  /\ m2[x].data = v /\ \A j \in 1..n : m2[c[j]].data = m[c[j]].data

\* append to the list of no elements.
LEMMA FirstAppended ==
  ASSUME NEW m \in StaticArray, NEW c, Rowed(m, c, 0), NEW v \in {0, 1}
  PROVE  Longer([m EXCEPT ![1] = [data |-> v, next |-> 2, previous |-> 1], ![0].next = 1, ![0].previous = 1],
                m, c, 0, 1, v)
<1>1. MaxSize \in Nat /\ MaxSize > 2
  BY Bounds
<1>2. m \in [0..MaxSize -> StaticNode] /\ 0 \in 0..MaxSize /\ 1 \in 0..MaxSize /\ 1 \in Index /\ 2 \in Index
  BY <1>1 DEF StaticArray, Index
<1>3. PICK x \in StaticNode : x = [data |-> v, next |-> 2, previous |-> 1]
  BY <1>2 DEF StaticNode
<1>4. PICK y \in StaticNode : y = [[m[0] EXCEPT !.next = 1] EXCEPT !.previous = 1]
  BY <1>2 DEF StaticNode
<1>5. y.next = 1 /\ y.previous = 1
  BY <1>2, <1>4 DEF StaticNode
<1>6. PICK m2 : m2 = [m EXCEPT ![1] = [data |-> v, next |-> 2, previous |-> 1], ![0].next = 1, ![0].previous = 1]
  OBVIOUS
<1>7. m2 \in StaticArray /\ m2[1] = x /\ m2[0] = y /\ \A j \in 0..MaxSize : j # 0 /\ j # 1 => m2[j] = m[j]
  BY <1>2, <1>3, <1>4, <1>6 DEF StaticArray
<1>8. x.data = v /\ x.previous = 1
  BY <1>3
<1>9. PICK e : e = Lengthened(c, 0, 1)
  OBVIOUS
<1>10. e \in [1..1 -> 1..MaxSize] /\ e[1] = 1
  BY <1>1, <1>9 DEF Lengthened
<1>11. Indices(e, 1)
  BY <1>10 DEF Indices
<1>12. Rowed(m2, e, 1)
  <2>1. 2..1 = {} /\ \A j \in 1..1 : j = 1
    OBVIOUS
  <2> QED
    BY <1>5, <1>7, <1>8, <1>10, <2>1 DEF Rowed
<1>13. Taken(m2) = Taken(m) \cup {1}
  <2>1. \A j \in 1..MaxSize : j \in 0..MaxSize /\ j # 0
    OBVIOUS
  <2>2. 1 \in 1..MaxSize /\ m2[1].previous # -1
    BY <1>1, <1>7, <1>8
  <2> QED
    BY <1>7, <2>1, <2>2 DEF Taken
<1>14. 0 + 1 = 1 /\ 1..0 = {}
  OBVIOUS
<1> QED
  BY <1>6, <1>7, <1>8, <1>9, <1>11, <1>12, <1>13, <1>14 DEF Longer

\* Index x gets v and is linked behind index b.
LinkedBehind(m2, m, b, x, v) ==
  /\ m2 \in StaticArray
  /\ m2[x].data = v /\ m2[x].previous = b
  /\ m2[b].next = x /\ m2[b].previous = m[b].previous /\ m2[b].data = m[b].data
  /\ m2[0].previous = x /\ m2[0].next = m[0].next
  /\ \A j \in 0..MaxSize : j \notin {x, b, 0} => m2[j] = m[j]

\* append links index x behind index b.
LEMMA LinksBehind ==
  ASSUME NEW m \in StaticArray, NEW b \in 1..MaxSize, NEW x \in 1..MaxSize, x # b, NEW v \in {0, 1},
         NEW m2, m2 = [m EXCEPT ![x].data = v, ![x].previous = b, ![b].next = x, ![0].previous = x]
  PROVE  LinkedBehind(m2, m, b, x, v)
<1>1. MaxSize \in Nat /\ MaxSize > 2
  BY Bounds
<1>2. /\ m \in [0..MaxSize -> StaticNode] /\ 0 \in 0..MaxSize /\ b \in 0..MaxSize /\ x \in 0..MaxSize
      /\ b # 0 /\ x # 0 /\ b \in Index /\ x \in Index
  BY <1>1 DEF StaticArray, Index
<1>3. m[0] \in StaticNode /\ m[b] \in StaticNode /\ m[x] \in StaticNode
  BY <1>2
<1>4. PICK p \in StaticNode : p = [[m[x] EXCEPT !.data = v] EXCEPT !.previous = b]
  BY <1>2, <1>3 DEF StaticNode
<1>5. PICK q \in StaticNode : q = [m[b] EXCEPT !.next = x]
  BY <1>2, <1>3 DEF StaticNode
<1>6. PICK r \in StaticNode : r = [m[0] EXCEPT !.previous = x]
  BY <1>2, <1>3 DEF StaticNode
<1>7. p.data = v /\ p.previous = b
  BY <1>3, <1>4 DEF StaticNode
<1>8. q.next = x /\ q.previous = m[b].previous /\ q.data = m[b].data
  BY <1>3, <1>5 DEF StaticNode
<1>9. r.previous = x /\ r.next = m[0].next
  BY <1>3, <1>6 DEF StaticNode
<1>11. m2 = [m EXCEPT ![x] = p, ![b] = q, ![0] = r]
  BY <1>2, <1>4, <1>5, <1>6
<1>13. PICK z : z = [m EXCEPT ![x] = p, ![b] = q, ![0] = r]
  OBVIOUS
<1>14. z \in StaticArray /\ z[x] = p /\ z[b] = q /\ z[0] = r /\ \A j \in 0..MaxSize : j \notin {x, b, 0} => z[j] = m[j]
  BY <1>2, <1>13 DEF StaticArray
<1>12. m2 \in StaticArray /\ m2[x] = p /\ m2[b] = q /\ m2[0] = r /\ \A j \in 0..MaxSize : j \notin {x, b, 0} => m2[j] = m[j]
  BY <1>11, <1>13, <1>14
<1> QED
  BY <1>7, <1>8, <1>9, <1>12 DEF LinkedBehind

\* append to a list with elements.
LEMMA NextAppended ==
  ASSUME NEW n \in Nat, n # 0, NEW m \in StaticArray, NEW m2, NEW c, Indices(c, n), Rowed(m, c, n), NEW v \in {0, 1},
         NEW x \in 1..MaxSize, m[x].previous = -1, LinkedBehind(m2, m, c[n], x, v)
  PROVE  Longer(m2, m, c, n, x, v)
<1>1. MaxSize \in Nat /\ MaxSize > 2
  BY Bounds
<1>2. PICK e : e = Lengthened(c, n, x)
  OBVIOUS
<1>3. /\ c \in [1..n -> 1..MaxSize] /\ (\A a, b \in 1..n : c[a] = c[b] => a = b)
      /\ c[1] = 1 /\ m[1].previous = 1 /\ m[0].next = 1 /\ m[0].previous = c[n]
      /\ \A j \in 1..n : m[c[j]].previous # -1
      /\ \A j \in 2..n : m[c[j]].previous = c[j - 1] /\ m[c[j - 1]].next = c[j]
  BY DEF Indices, Rowed
<1>4. PICK b : b = c[n]
  OBVIOUS
<1>5. /\ m2 \in StaticArray
      /\ m2[x].data = v /\ m2[x].previous = b
      /\ m2[b].next = x /\ m2[b].previous = m[b].previous /\ m2[b].data = m[b].data
      /\ m2[0].previous = x /\ m2[0].next = m[0].next
      /\ \A j \in 0..MaxSize : j \notin {x, b, 0} => m2[j] = m[j]
  BY <1>4 DEF LinkedBehind
<1>6. n \in 1..n /\ 1 \in 1..n /\ n + 1 # 1
  OBVIOUS
<1>7. \A j \in 1..n : c[j] \in 1..MaxSize /\ c[j] \in 0..MaxSize /\ c[j] # x /\ c[j] # 0 /\ (c[j] = b => j = n)
  <2>1. \A j \in 1..n : c[j] \in 1..MaxSize /\ c[j] # x
    BY <1>3
  <2>2. \A j \in 1..MaxSize : j \in 0..MaxSize /\ j # 0
    OBVIOUS
  <2> QED
    BY <1>3, <1>4, <1>6, <2>1, <2>2
<1>8. e[n + 1] = x /\ \A j \in 1..n : e[j] = c[j]
  <2>1. n + 1 \in 1..(n + 1) /\ \A j \in 1..n : j \in 1..(n + 1) /\ j # n + 1
    OBVIOUS
  <2> QED
    BY <1>2, <2>1 DEF Lengthened
<1>9. \A j \in 1..(n + 1) : j = n + 1 \/ j \in 1..n
  OBVIOUS
<1>10. Indices(e, n + 1)
  <2>1. e = [j \in 1..(n + 1) |-> e[j]]
    BY <1>2 DEF Lengthened
  <2>2. \A j \in 1..(n + 1) : e[j] \in 1..MaxSize
    BY <1>7, <1>8, <1>9
  <2>3. e \in [1..(n + 1) -> 1..MaxSize]
    BY <2>1, <2>2
  <2>4. ASSUME NEW p \in 1..(n + 1), NEW q \in 1..(n + 1), e[p] = e[q] PROVE p = q
    <3>1. (p = n + 1 /\ e[p] = x) \/ (p \in 1..n /\ e[p] = c[p] /\ c[p] # x)
      BY <1>7, <1>8, <1>9
    <3>2. (q = n + 1 /\ e[q] = x) \/ (q \in 1..n /\ e[q] = c[q] /\ c[q] # x)
      BY <1>7, <1>8, <1>9
    <3> QED
      BY <1>3, <2>4, <3>1, <3>2
  <2> QED
    BY <2>3, <2>4 DEF Indices
<1>11. \A j \in 1..n : m2[c[j]].previous = m[c[j]].previous /\ m2[c[j]].data = m[c[j]].data /\ (j # n => m2[c[j]].next = m[c[j]].next)
  <2>1. ASSUME NEW j \in 1..n
        PROVE  m2[c[j]].previous = m[c[j]].previous /\ m2[c[j]].data = m[c[j]].data /\ (j # n => m2[c[j]].next = m[c[j]].next)
    <3>1. CASE c[j] = b
      BY <1>5, <1>7, <3>1
    <3>2. CASE c[j] # b
      <4>1. m2[c[j]] = m[c[j]]
        BY <1>5, <1>7, <3>2
      <4> QED
        BY <4>1
    <3> QED
      BY <3>1, <3>2
  <2> QED
    BY <2>1
<1>12. Rowed(m2, e, n + 1)
  <2>1. e[1] = 1 /\ m2[0].next = 1 /\ m2[0].previous = e[n + 1] /\ m2[1].previous = 1
    BY <1>3, <1>5, <1>6, <1>8, <1>11
  <2>2. ASSUME NEW j \in 1..(n + 1) PROVE m2[e[j]].previous # -1
    <3>1. CASE j = n + 1
      <4>1. b \in 1..MaxSize /\ m2[e[j]].previous = b
        BY <1>4, <1>5, <1>6, <1>7, <1>8, <3>1
      <4> QED
        BY <4>1
    <3>2. CASE j \in 1..n
      <4>1. e[j] = c[j] /\ m2[c[j]].previous = m[c[j]].previous
        BY <1>8, <1>11, <3>2
      <4>2. m[c[j]].previous # -1
        BY <1>3, <3>2
      <4> QED
        BY <4>1, <4>2
    <3> QED
      BY <1>9, <3>1, <3>2
  <2>3. ASSUME NEW j \in 2..(n + 1) PROVE m2[e[j]].previous = e[j - 1] /\ m2[e[j - 1]].next = e[j]
    <3>1. CASE j = n + 1
      <4>1. j - 1 = n
        BY <3>1
      <4> QED
        BY <1>4, <1>5, <1>6, <1>8, <3>1, <4>1
    <3>2. CASE j # n + 1
      <4>1. j \in 2..n /\ j \in 1..n /\ j - 1 \in 1..n /\ j - 1 # n
        BY <3>2
      <4>2. m[c[j]].previous = c[j - 1] /\ m[c[j - 1]].next = c[j]
        BY <1>3, <4>1
      <4> QED
        BY <1>8, <1>11, <4>1, <4>2
    <3> QED
      BY <3>1, <3>2
  <2>4. n + 1 # 0
    OBVIOUS
  <2> QED
    BY <2>1, <2>2, <2>3, <2>4 DEF Rowed
<1>13. Taken(m2) = Taken(m) \cup {x}
  <2>1. b \in 1..MaxSize
    BY <1>4, <1>6, <1>7
  <2>2. m2[x].previous # -1
    BY <1>5, <2>1
  <2>3. ASSUME NEW j \in 1..MaxSize, j # x PROVE m2[j].previous = m[j].previous
    <3>1. j \in 0..MaxSize /\ j # 0
      OBVIOUS
    <3> QED
      BY <1>5, <2>3, <3>1
  <2> QED
    BY <2>2, <2>3 DEF Taken
<1> QED
  BY <1>2, <1>5, <1>10, <1>11, <1>12, <1>13 DEF Longer

\* The elements are at different indices, hence no more than there are.
LEMMA IndicesFit ==
  ASSUME NEW n \in Nat, NEW c, Indices(c, n)
  PROVE  n <= MaxSize
<1>1. MaxSize \in Nat
  BY Bounds
<1>2. c \in Injection(1..n, 1..MaxSize)
  BY DEF Indices, Injection, IsInjective
<1>3. IsFiniteSet(1..MaxSize) /\ Cardinality(1..MaxSize) = MaxSize /\ Cardinality(1..n) = n
  <2>1. 1 \in Int /\ MaxSize \in Int /\ n \in Int
    BY <1>1
  <2>2. IsFiniteSet(1..MaxSize) /\ Cardinality(1..MaxSize) = IF 1 > MaxSize THEN 0 ELSE MaxSize - 1 + 1
    BY <2>1, FS_Interval
  <2>3. Cardinality(1..n) = IF 1 > n THEN 0 ELSE n - 1 + 1
    BY <2>1, FS_Interval
  <2> QED
    BY <1>1, <2>2, <2>3
<1>4. Cardinality(1..n) <= Cardinality(1..MaxSize)
  BY <1>2, <1>3, FS_Injection
<1> QED
  BY <1>3, <1>4

\* The indices in use are finitely many.
LEMMA TakenFits ==
  ASSUME NEW m
  PROVE  IsFiniteSet(Taken(m)) /\ Cardinality(Taken(m)) \in Nat
<1>1. MaxSize \in Nat
  BY Bounds
<1>2. IsFiniteSet(1..MaxSize)
  <2>1. 1 \in Int /\ MaxSize \in Int
    BY <1>1
  <2> QED
    BY <2>1, FS_Interval
<1>3. Taken(m) \in SUBSET (1..MaxSize)
  BY DEF Taken
<1>4. IsFiniteSet(Taken(m))
  BY <1>2, <1>3, FS_Subset
<1> QED
  BY <1>4, FS_CardinalityType

\* getFreeIndex finds an index that is not in use.
LEMMA FreeIndex ==
  ASSUME m_capacity = MaxSize + 1, Cardinality(Taken(mem)) < MaxSize
  PROVE  T!getFreeIndex \in 1..MaxSize /\ mem[T!getFreeIndex].previous = -1
<1>1. MaxSize \in Nat
  BY Bounds
<1>2. PICK free : free = {j \in 1..MaxSize : mem[j].previous = -1}
  OBVIOUS
<1>3. free # {}
  <2>1. SUFFICES ASSUME free = {} PROVE FALSE
    OBVIOUS
  <2>2. Taken(mem) = 1..MaxSize
    BY <1>2, <2>1 DEF Taken
  <2>3. 1 \in Int /\ MaxSize \in Int
    BY <1>1
  <2>4. Cardinality(1..MaxSize) = IF 1 > MaxSize THEN 0 ELSE MaxSize - 1 + 1
    BY <2>3, FS_Interval
  <2> QED
    BY <1>1, <2>2, <2>4
<1>4. PICK q \in free : \A j \in free : q <= j
  <2>1. free \subseteq Nat
    BY <1>2
  <2> QED
    BY <1>3, <2>1, LeastNumber
<1>5. PICK x : x = CHOOSE y \in free : \A j \in free : y <= j
  OBVIOUS
<1>6. x \in free
  BY <1>4, <1>5
<1>7. T!getFreeIndex = x
  <2>1. 1..(m_capacity - 1) = 1..MaxSize
    BY <1>1
  <2>2. {j \in 1..(m_capacity - 1) : mem[j].previous = T!m_npos} = free
    BY <1>2, <2>1 DEF T!m_npos
  <2> QED
    BY <1>3, <1>5, <2>2 DEF T!getFreeIndex
<1> QED
  BY <1>2, <1>6, <1>7

\* The list with one element more.
LEMMA StaticLengthens ==
  ASSUME NEW n \in Nat, NEW c, StaticIs(c, n), NEW x \in 1..MaxSize, NEW v \in {0, 1}, Longer(mem', mem, c, n, x, v),
         ~ub', m_capacity' = m_capacity, m_size' = n + 1, m_tail' = m_tail + 1, ref' = Append(ref, v)
  PROVE  StaticInv'
<1>1. /\ m_capacity = MaxSize + 1 /\ Indices(c, n) /\ ref \in Seq({0, 1}) /\ Len(ref) = n
      /\ \A j \in 1..n : mem[c[j]].data = ref[j]
      /\ m_tail \in Int /\ Cardinality(Taken(mem)) <= m_tail
  BY DEF StaticIs
<1>0. PICK m, e : m = mem' /\ e = Lengthened(c, n, x)
  OBVIOUS
<1>9. PICK a \in Nat : a = n + 1
  OBVIOUS
<1>2. m = mem' /\ e = Lengthened(c, n, x) /\ a = n + 1
  BY <1>0, <1>9
<1>3. /\ m \in StaticArray /\ Indices(e, a) /\ Rowed(m, e, a) /\ Taken(m) = Taken(mem) \cup {x}
      /\ m[x].data = v /\ \A j \in 1..n : m[c[j]].data = mem[c[j]].data
  BY <1>2 DEF Longer
<1>4. PICK s : s = ref'
  OBVIOUS
<1>5. s \in Seq({0, 1}) /\ Len(s) = a /\ s[a] = v /\ \A j \in 1..n : s[j] = ref[j]
  BY <1>1, <1>2, <1>4
<1>6. ASSUME NEW j \in 1..a PROVE m[e[j]].data = s[j]
  <2>1. CASE j = a
    <3>1. e[j] = x
      BY <1>2, <2>1 DEF Lengthened
    <3> QED
      BY <1>3, <1>5, <2>1, <3>1
  <2>2. CASE j # a
    <3>1. j \in 1..n /\ j \in 1..(n + 1) /\ j # n + 1
      BY <1>2, <2>2
    <3>2. e[j] = c[j]
      BY <1>2, <3>1 DEF Lengthened
    <3> QED
      BY <1>1, <1>3, <1>5, <3>1, <3>2
  <2> QED
    BY <2>1, <2>2
<1>7. Cardinality(Taken(m)) <= m_tail + 1 /\ m_tail + 1 \in Int
  <2>1. IsFiniteSet(Taken(mem)) /\ Cardinality(Taken(mem)) \in Nat
    BY TakenFits
  <2>2. Cardinality(Taken(mem) \cup {x}) = IF x \in Taken(mem) THEN Cardinality(Taken(mem)) ELSE Cardinality(Taken(mem)) + 1
    BY <2>1, FS_AddElement
  <2>3. PICK y \in Nat : y = Cardinality(Taken(mem))
    BY <2>1
  <2> QED
    BY <1>1, <1>3, <2>2, <2>3
<1>8. StaticIs(e, a)'
  BY <1>1, <1>2, <1>3, <1>4, <1>5, <1>6, <1>7 DEF StaticIs
<1> QED
  BY <1>8 DEF StaticInv

\* append.
LEMMA StaticAppends ==
  ASSUME StaticInv, NEW v \in {0, 1}, T!append(v)
  PROVE  StaticInv'
<1>16. stale' = (m_size > 0 /\ m_tail + 1 > (MaxSize + 1) - 1) /\ m_tail' = m_tail + 1 /\ ref' = Append(ref, v)
  BY DEF T!append
<1>15. CASE stale'
  BY <1>15 DEF StaticInv
<1> SUFFICES ASSUME ~stale' PROVE StaticInv'
  BY <1>15
<1>6. ~ (m_size > 0 /\ m_tail + 1 > (MaxSize + 1) - 1) /\ m_tail' = m_tail + 1 /\ ref' = Append(ref, v)
  BY <1>16
<1>1. MaxSize \in Nat /\ MaxSize > 2
  BY Bounds
<1>2. ~stale
  BY DEF T!append, T!Callable
<1>3. PICK n \in Nat : \E c : StaticIs(c, n)
  BY <1>2 DEF StaticInv
<1>4. PICK c : StaticIs(c, n)
  BY <1>3
<1>5. /\ m_capacity = MaxSize + 1 /\ m_size = n /\ mem \in StaticArray /\ Indices(c, n) /\ Rowed(mem, c, n)
      /\ m_tail \in Int /\ Cardinality(Taken(mem)) <= m_tail
  BY <1>4 DEF StaticIs
<1>7. PICK x : x = IF m_size = 0 THEN 1 ELSE T!getFreeIndex
  OBVIOUS
<1>8. x \in 1..MaxSize /\ mem[x].previous = -1
  <2>1. CASE n = 0
    BY <1>1, <1>5, <1>7, <2>1 DEF Rowed
  <2>2. CASE n # 0
    <3>1. Cardinality(Taken(mem)) < MaxSize
      <4>1. Cardinality(Taken(mem)) \in Nat
        BY TakenFits
      <4>2. PICK y \in Nat : y = Cardinality(Taken(mem))
        BY <4>1
      <4>3. m_size > 0
        BY <1>5, <2>2
      <4>4. ~ (m_tail + 1 > (MaxSize + 1) - 1)
        BY <1>6, <4>3
      <4>5. m_tail < MaxSize
        BY <1>1, <1>5, <4>4
      <4> QED
        BY <1>1, <1>5, <4>2, <4>5
    <3> QED
      BY <1>5, <1>7, <2>2, <3>1, FreeIndex
  <2> QED
    BY <2>1, <2>2
<1>9. PICK m2 : m2 = IF m_size = 0
                     THEN [mem EXCEPT ![1] = [data |-> v, next |-> 2, previous |-> 1], ![0].next = 1, ![0].previous = 1]
                     ELSE [mem EXCEPT ![x].data = v, ![x].previous = mem[0].previous,
                                      ![mem[0].previous].next = x, ![0].previous = x]
  OBVIOUS
<1>10. ub' = (x = -1) /\ (IF ub' THEN UNCHANGED <<mem, m_size, m_capacity>> ELSE T!SizeGrown(m2))
  BY <1>7, <1>9 DEF T!append, T!m_npos
<1>11. ~ub' /\ T!SizeGrown(m2)
  <2>1. x # -1
    BY <1>1, <1>8
  <2> QED
    BY <1>10, <2>1
<1>12. Longer(m2, mem, c, n, x, v)
  <2>1. CASE n = 0
    <3>1. x = 1
      BY <1>5, <1>7, <2>1
    <3> QED
      BY <1>5, <1>9, <2>1, <3>1, FirstAppended
  <2>2. CASE n # 0
    <3>1. n \in 1..n
      BY <2>2
    <3>2. mem[0].previous = c[n] /\ c[n] \in 1..MaxSize /\ mem[c[n]].previous # -1
      BY <1>5, <2>2, <3>1 DEF Rowed, Indices
    <3>3. PICK b \in 1..MaxSize : b = c[n] /\ b = mem[0].previous /\ b # x
      BY <1>8, <3>2
    <3>4. m2 = [mem EXCEPT ![x].data = v, ![x].previous = b, ![b].next = x, ![0].previous = x]
      BY <1>5, <1>9, <2>2, <3>3
    <3>5. LinkedBehind(m2, mem, b, x, v)
      <4>1. mem \in StaticArray /\ b \in 1..MaxSize /\ x \in 1..MaxSize /\ x # b /\ v \in {0, 1}
        BY <1>5, <1>8, <3>3
      <4> QED
        BY <3>4, <4>1, LinksBehind
    <3> QED
      BY <1>5, <1>8, <2>2, <3>3, <3>5, NextAppended
  <2> QED
    BY <2>1, <2>2
<1>13. n + 1 <= MaxSize
  <2>1. Indices(Lengthened(c, n, x), n + 1) /\ n + 1 \in Nat
    BY <1>12 DEF Longer
  <2> QED
    BY <2>1, IndicesFit
<1>14. m_size' = n + 1 /\ m_capacity' = m_capacity /\ mem' = m2
  <2>1. ~ (m_size + 1 >= m_capacity)
    BY <1>1, <1>5, <1>13
  <2> QED
    BY <1>5, <1>11, <2>1 DEF T!SizeGrown
<1> QED
  BY <1>4, <1>6, <1>8, <1>11, <1>12, <1>14, StaticLengthens

Shortened(c, n, q) == [j \in 1..(n - 1) |-> IF j < q THEN c[j] ELSE c[j + 1]]

\* Array m2 has the elements of m but the one at c[q].
Shorter(m2, m, c, n, q) ==
  /\ m2 \in StaticArray /\ Indices(Shortened(c, n, q), n - 1) /\ Rowed(m2, Shortened(c, n, q), n - 1)
  /\ \A j \in 1..n : j # q => m2[c[j]].data = m[c[j]].data

\* The indices without number q.
LEMMA ShortenedIs ==
  ASSUME NEW n \in Nat, NEW c, Indices(c, n), NEW q \in 1..n
  PROVE  /\ Indices(Shortened(c, n, q), n - 1)
         /\ \A j \in 1..(n - 1) : /\ j < q => Shortened(c, n, q)[j] = c[j]
                                  /\ ~ (j < q) => Shortened(c, n, q)[j] = c[j + 1]
<1>1. PICK e : e = Shortened(c, n, q)
  OBVIOUS
<1>2. c \in [1..n -> 1..MaxSize] /\ \A a, b \in 1..n : c[a] = c[b] => a = b
  BY DEF Indices
<1>3. \A j \in 1..(n - 1) : j \in 1..n /\ j + 1 \in 1..n
  OBVIOUS
<1>4. \A j \in 1..(n - 1) : (j < q => e[j] = c[j]) /\ (~ (j < q) => e[j] = c[j + 1])
  BY <1>1 DEF Shortened
<1>5. e \in [1..(n - 1) -> 1..MaxSize]
  BY <1>1, <1>2, <1>3 DEF Shortened
<1>6. ASSUME NEW a \in 1..(n - 1), NEW b \in 1..(n - 1), e[a] = e[b] PROVE a = b
  <2>1. PICK p \in 1..n : e[a] = c[p] /\ p = IF a < q THEN a ELSE a + 1
    BY <1>3, <1>4
  <2>2. PICK r \in 1..n : e[b] = c[r] /\ r = IF b < q THEN b ELSE b + 1
    BY <1>3, <1>4
  <2>3. p = r
    BY <1>2, <1>6, <2>1, <2>2
  <2> QED
    BY <2>1, <2>2, <2>3
<1> QED
  BY <1>1, <1>4, <1>5, <1>6 DEF Indices

\* The chain ends at index b: x behind it is given back.
StopsAt(m2, m, b, x) ==
  /\ m2 \in StaticArray
  /\ m2[0].previous = b /\ m2[0].next = m[0].next
  /\ m2[x].previous = -1
  /\ m2[b].data = m[b].data /\ (b # x => m2[b].previous = m[b].previous)
  /\ \A j \in 0..MaxSize : j \notin {x, b, 0} => m2[j] = m[j]

\* removeAt makes index b the last one.
LEMMA CutsLast ==
  ASSUME NEW m \in StaticArray, NEW b \in 1..MaxSize, NEW x \in 1..MaxSize
  PROVE  StopsAt([m EXCEPT ![b].next = -1, ![0].previous = IF b = 0 THEN -1 ELSE b, ![x].previous = -1], m, b, x)
<1>1. MaxSize \in Nat /\ MaxSize > 2
  BY Bounds
<1>2. /\ m \in [0..MaxSize -> StaticNode] /\ 0 \in 0..MaxSize /\ b \in 0..MaxSize /\ x \in 0..MaxSize
      /\ b # 0 /\ x # 0 /\ b \in Index /\ x \in Index /\ -1 \in Index
  BY <1>1 DEF StaticArray, Index
<1>3. m[0] \in StaticNode /\ m[b] \in StaticNode /\ m[x] \in StaticNode
  BY <1>2
<1>4. PICK q \in StaticNode : q = [m[b] EXCEPT !.next = -1]
  BY <1>2, <1>3 DEF StaticNode
<1>5. PICK r \in StaticNode : r = [m[0] EXCEPT !.previous = b]
  BY <1>2, <1>3 DEF StaticNode
<1>6. q.data = m[b].data /\ q.previous = m[b].previous /\ r.previous = b /\ r.next = m[0].next
  BY <1>3, <1>4, <1>5 DEF StaticNode
<1>7. PICK m2 : m2 = [m EXCEPT ![b].next = -1, ![0].previous = IF b = 0 THEN -1 ELSE b, ![x].previous = -1]
  OBVIOUS
<1>8. PICK m3 : m3 = [m EXCEPT ![b] = q, ![0] = r]
  OBVIOUS
<1>9. m3 \in StaticArray /\ m3[b] = q /\ m3[0] = r /\ \A j \in 0..MaxSize : j \notin {b, 0} => m3[j] = m[j]
  BY <1>2, <1>8 DEF StaticArray
<1>10. m2 = [m3 EXCEPT ![x].previous = -1]
  BY <1>2, <1>4, <1>5, <1>7, <1>8
<1>11. m3 \in [0..MaxSize -> StaticNode] /\ m3[x] \in StaticNode
  BY <1>2, <1>9 DEF StaticArray
<1>12. PICK p \in StaticNode : p = [m3[x] EXCEPT !.previous = -1]
  BY <1>2, <1>11 DEF StaticNode
<1>13. p.previous = -1 /\ p.data = m3[x].data
  BY <1>11, <1>12 DEF StaticNode
<1>14. m2 \in StaticArray /\ m2[x] = p /\ \A j \in 0..MaxSize : j # x => m2[j] = m3[j]
  BY <1>2, <1>10, <1>11, <1>12 DEF StaticArray
<1>15. m2[0] = r /\ (b # x => m2[b] = q) /\ m2[b].data = m[b].data
  BY <1>2, <1>6, <1>9, <1>13, <1>14
<1> QED
  BY <1>2, <1>6, <1>7, <1>9, <1>13, <1>14, <1>15 DEF StopsAt

LastGone(m2, m, c, n) ==
  Shorter(m2, m, c, n, n) /\ Taken(m2) = Taken(m) \ {c[n]} /\ c[n] \in Taken(m)

\* removeAt of the last element.
LEMMA LastRemoved ==
  ASSUME NEW n \in Nat, n # 0, NEW m \in StaticArray, NEW m2, NEW c, Indices(c, n), Rowed(m, c, n),
         NEW b, b = m[c[n]].previous, StopsAt(m2, m, b, c[n])
  PROVE  LastGone(m2, m, c, n)
<1>1. MaxSize \in Nat /\ MaxSize > 2
  BY Bounds
<1>2. /\ c \in [1..n -> 1..MaxSize] /\ (\A a, q \in 1..n : c[a] = c[q] => a = q)
      /\ c[1] = 1 /\ m[1].previous = 1 /\ m[0].next = 1 /\ m[0].previous = c[n]
      /\ \A j \in 1..n : m[c[j]].previous # -1
      /\ \A j \in 2..n : m[c[j]].previous = c[j - 1] /\ m[c[j - 1]].next = c[j]
  BY DEF Indices, Rowed
<1>3. PICK x : x = c[n]
  OBVIOUS
<1>4. n \in 1..n /\ 1 \in 1..n /\ \A j \in 1..MaxSize : j \in 0..MaxSize /\ j # 0
  OBVIOUS
<1>5. x \in 1..MaxSize /\ \A j \in 1..n : c[j] \in 1..MaxSize /\ (j # n => c[j] # x)
  BY <1>2, <1>3, <1>4
<1>6. (n = 1 => b = 1 /\ x = 1) /\ (n # 1 => n \in 2..n /\ n - 1 \in 1..n /\ b = c[n - 1] /\ b # x)
  <2>1. n # 1 => n \in 2..n /\ n - 1 \in 1..n /\ n - 1 # n
    OBVIOUS
  <2> QED
    BY <1>2, <1>3, <1>5, <2>1
<1>7. /\ m2 \in StaticArray
      /\ m2[0].previous = b /\ m2[0].next = m[0].next
      /\ m2[x].previous = -1
      /\ m2[b].data = m[b].data /\ (b # x => m2[b].previous = m[b].previous)
      /\ \A j \in 0..MaxSize : j \notin {x, b, 0} => m2[j] = m[j]
  BY <1>3 DEF StopsAt
<1>8. PICK e : e = Shortened(c, n, n)
  OBVIOUS
<1>9. Indices(e, n - 1) /\ \A j \in 1..(n - 1) : e[j] = c[j]
  <2>1. /\ Indices(Shortened(c, n, n), n - 1)
        /\ \A j \in 1..(n - 1) : /\ j < n => Shortened(c, n, n)[j] = c[j]
                                 /\ ~ (j < n) => Shortened(c, n, n)[j] = c[j + 1]
    BY <1>4, ShortenedIs
  <2>2. \A j \in 1..(n - 1) : j < n
    OBVIOUS
  <2> QED
    BY <1>8, <2>1, <2>2
<1>10. ASSUME NEW j \in 1..MaxSize, j # x PROVE m2[j].previous = m[j].previous /\ m2[j].data = m[j].data /\ (j # b => m2[j] = m[j])
  BY <1>4, <1>7, <1>10
<1>11. \A j \in 1..n : j # n => m2[c[j]].data = m[c[j]].data
  BY <1>5, <1>10
<1>12. Rowed(m2, e, n - 1)
  <2>1. ASSUME n - 1 = 0 PROVE m2[1].previous = -1
    BY <1>6, <1>7, <2>1
  <2>2. ASSUME n - 1 # 0 PROVE e[1] = 1 /\ m2[1].previous = 1 /\ m2[0].next = 1 /\ m2[0].previous = e[n - 1]
    <3>1. n # 1 /\ 1 \in 1..(n - 1) /\ n - 1 \in 1..(n - 1) /\ 1 # n
      BY <2>2
    <3>2. c[1] # x /\ c[1] \in 1..MaxSize
      BY <1>4, <1>5, <3>1
    <3> QED
      BY <1>2, <1>6, <1>7, <1>9, <1>10, <3>1, <3>2
  <2>3. ASSUME NEW j \in 1..(n - 1) PROVE m2[e[j]].previous # -1
    <3>1. j \in 1..n /\ j # n
      OBVIOUS
    <3>2. m2[c[j]].previous = m[c[j]].previous /\ m[c[j]].previous # -1
      BY <1>2, <1>5, <1>10, <3>1
    <3> QED
      BY <1>9, <3>2
  <2>4. ASSUME NEW j \in 2..(n - 1) PROVE m2[e[j]].previous = e[j - 1] /\ m2[e[j - 1]].next = e[j]
    <3>1. j \in 1..n /\ j # n /\ j \in 2..n /\ j - 1 \in 1..n /\ j - 1 # n /\ j \in 1..(n - 1) /\ j - 1 \in 1..(n - 1) /\ j - 1 # n - 1 /\ n # 1
      OBVIOUS
    <3>2. m[c[j]].previous = c[j - 1] /\ m[c[j - 1]].next = c[j]
      BY <1>2, <3>1
    <3>3. m2[c[j]].previous = m[c[j]].previous
      BY <1>5, <1>10, <3>1
    <3>4. c[j - 1] # b
      BY <1>2, <1>6, <3>1
    <3>5. m2[c[j - 1]] = m[c[j - 1]]
      BY <1>5, <1>10, <3>1, <3>4
    <3> QED
      BY <1>9, <3>1, <3>2, <3>3, <3>5
  <2> QED
    BY <2>1, <2>2, <2>3, <2>4 DEF Rowed
<1>13. Taken(m2) = Taken(m) \ {x}
  BY <1>7, <1>10 DEF Taken
<1>14. x \in Taken(m)
  BY <1>2, <1>3, <1>4, <1>5 DEF Taken
<1> QED
  BY <1>3, <1>7, <1>8, <1>9, <1>11, <1>12, <1>13, <1>14 DEF Shorter, LastGone

\* Index b comes behind index a.
Bypassed(m2, m, a, b) ==
  /\ m2 \in StaticArray
  /\ m2[a].next = b /\ m2[a].previous = m[a].previous /\ m2[a].data = m[a].data
  /\ m2[b].previous = a /\ m2[b].next = m[b].next /\ m2[b].data = m[b].data
  /\ \A j \in 0..MaxSize : j \notin {a, b} => m2[j] = m[j]

\* removeAt links the neighbours.
LEMMA Bypasses ==
  ASSUME NEW m \in StaticArray, NEW a \in 1..MaxSize, NEW b \in 1..MaxSize, a # b
  PROVE  Bypassed([m EXCEPT ![a].next = b, ![b].previous = a], m, a, b)
<1>1. MaxSize \in Nat /\ MaxSize > 2
  BY Bounds
<1>2. /\ m \in [0..MaxSize -> StaticNode] /\ a \in 0..MaxSize /\ b \in 0..MaxSize /\ a \in Index /\ b \in Index
  BY <1>1 DEF StaticArray, Index
<1>3. m[a] \in StaticNode /\ m[b] \in StaticNode
  BY <1>2
<1>4. PICK p \in StaticNode : p = [m[a] EXCEPT !.next = b]
  BY <1>2, <1>3 DEF StaticNode
<1>5. PICK q \in StaticNode : q = [m[b] EXCEPT !.previous = a]
  BY <1>2, <1>3 DEF StaticNode
<1>6. p.next = b /\ p.previous = m[a].previous /\ p.data = m[a].data
  BY <1>3, <1>4 DEF StaticNode
<1>7. q.previous = a /\ q.next = m[b].next /\ q.data = m[b].data
  BY <1>3, <1>5 DEF StaticNode
<1>8. PICK m2 : m2 = [m EXCEPT ![a].next = b, ![b].previous = a]
  OBVIOUS
<1>9. m2 = [m EXCEPT ![a] = p, ![b] = q]
  BY <1>2, <1>4, <1>5, <1>8
<1>10. PICK z : z = [m EXCEPT ![a] = p, ![b] = q]
  OBVIOUS
<1>11. z \in StaticArray /\ z[a] = p /\ z[b] = q /\ \A j \in 0..MaxSize : j \notin {a, b} => z[j] = m[j]
  BY <1>2, <1>10 DEF StaticArray
<1>12. m2 = z
  BY <1>9, <1>10
<1>13. Bypassed(z, m, a, b)
  BY <1>6, <1>7, <1>11 DEF Bypassed
<1> QED
  BY <1>8, <1>12, <1>13

\* removeAt of an element between two others; its index stays marked as used.
LEMMA MiddleRemoved ==
  ASSUME NEW n \in Nat, NEW m \in StaticArray, NEW m2, NEW c, Indices(c, n), Rowed(m, c, n),
         NEW q \in 2..(n - 1), Bypassed(m2, m, c[q - 1], c[q + 1])
  PROVE  Shorter(m2, m, c, n, q) /\ Taken(m2) \subseteq Taken(m)
<1>1. MaxSize \in Nat /\ MaxSize > 2
  BY Bounds
<1>0. n # 0
  OBVIOUS
<1>2. /\ c \in [1..n -> 1..MaxSize] /\ (\A x, y \in 1..n : c[x] = c[y] => x = y)
      /\ c[1] = 1 /\ m[1].previous = 1 /\ m[0].next = 1 /\ m[0].previous = c[n]
      /\ \A j \in 1..n : m[c[j]].previous # -1
      /\ \A j \in 2..n : m[c[j]].previous = c[j - 1] /\ m[c[j - 1]].next = c[j]
  BY <1>0 DEF Indices, Rowed
<1>3. PICK a, b : a = c[q - 1] /\ b = c[q + 1]
  OBVIOUS
<1>4. n \in 1..n /\ 1 \in 1..n /\ q - 1 \in 1..n /\ q + 1 \in 1..n /\ q + 1 # 1 /\ \A j \in 1..MaxSize : j \in 0..MaxSize /\ j # 0
  OBVIOUS
<1>5. a \in 1..MaxSize /\ b \in 1..MaxSize /\ \A j \in 1..n : c[j] \in 1..MaxSize /\ (c[j] = a => j = q - 1) /\ (c[j] = b => j = q + 1)
  BY <1>2, <1>3, <1>4
<1>6. /\ m2 \in StaticArray
      /\ m2[a].next = b /\ m2[a].previous = m[a].previous /\ m2[a].data = m[a].data
      /\ m2[b].previous = a /\ m2[b].next = m[b].next /\ m2[b].data = m[b].data
      /\ \A j \in 0..MaxSize : j \notin {a, b} => m2[j] = m[j]
  BY <1>3 DEF Bypassed
<1>7. ASSUME NEW j \in 1..MaxSize
      PROVE  /\ m2[j].data = m[j].data /\ (j # b => m2[j].previous = m[j].previous) /\ (j # a => m2[j].next = m[j].next)
  <2>1. j \in 0..MaxSize
    OBVIOUS
  <2> QED
    BY <1>6, <2>1
<1>8. PICK e : e = Shortened(c, n, q)
  OBVIOUS
<1>9. Indices(e, n - 1) /\ \A j \in 1..(n - 1) : (j < q => e[j] = c[j]) /\ (~ (j < q) => e[j] = c[j + 1])
  <2>1. q \in 1..n
    OBVIOUS
  <2> QED
    BY <1>8, <2>1, ShortenedIs
<1>10. \A j \in 1..n : j # q => m2[c[j]].data = m[c[j]].data
  BY <1>5, <1>7
<1>11. \A j \in 1..n : m2[c[j]].previous # -1
  <2>1. ASSUME NEW j \in 1..n PROVE m2[c[j]].previous # -1
    <3>1. CASE c[j] = b
      <4>1. m2[c[j]].previous = a
        BY <1>6, <3>1
      <4> QED
        BY <1>5, <4>1
    <3>2. CASE c[j] # b
      <4>1. m2[c[j]].previous = m[c[j]].previous
        BY <1>5, <1>7, <3>2
      <4>2. m[c[j]].previous # -1
        BY <1>2
      <4> QED
        BY <4>1, <4>2
    <3> QED
      BY <3>1, <3>2
  <2> QED
    BY <2>1
<1>12. Rowed(m2, e, n - 1)
  <2>1. e[1] = 1 /\ m2[1].previous = 1 /\ m2[0].next = 1 /\ m2[0].previous = e[n - 1]
    <3>1. 1 \in 1..(n - 1) /\ 1 < q /\ n - 1 \in 1..(n - 1) /\ ~ (n - 1 < q) /\ (n - 1) + 1 = n
      OBVIOUS
    <3>2. e[1] = c[1] /\ e[n - 1] = c[n]
      BY <1>9, <3>1
    <3>3. c[1] # b
      BY <1>4, <1>5
    <3>4. m2[1].previous = m[1].previous
      BY <1>2, <1>4, <1>5, <1>7, <3>3
    <3>5. 0 \in 0..MaxSize /\ 0 \notin {a, b}
      BY <1>1, <1>5
    <3>6. m2[0] = m[0]
      BY <1>6, <3>5
    <3> QED
      BY <1>2, <3>2, <3>4, <3>6
  <2>2. ASSUME NEW j \in 1..(n - 1) PROVE m2[e[j]].previous # -1
    <3>1. j \in 1..n /\ j + 1 \in 1..n
      OBVIOUS
    <3>2. e[j] = c[j] \/ e[j] = c[j + 1]
      BY <1>9
    <3> QED
      BY <1>11, <3>1, <3>2
  <2>3. ASSUME NEW j \in 2..(n - 1) PROVE m2[e[j]].previous = e[j - 1] /\ m2[e[j - 1]].next = e[j]
    <3>0. j \in 1..(n - 1) /\ j - 1 \in 1..(n - 1)
      OBVIOUS
    <3>1. CASE j < q
      <4>1. j - 1 < q /\ j \in 1..n /\ j \in 2..n /\ j - 1 \in 1..n /\ j # q + 1 /\ j - 1 # q - 1
        BY <3>1
      <4>2. e[j] = c[j] /\ e[j - 1] = c[j - 1]
        BY <1>9, <3>0, <3>1, <4>1
      <4>3. m[c[j]].previous = c[j - 1] /\ m[c[j - 1]].next = c[j]
        BY <1>2, <4>1
      <4>4. c[j] \in 1..MaxSize /\ c[j] # b /\ c[j - 1] \in 1..MaxSize /\ c[j - 1] # a
        BY <1>5, <4>1
      <4>5. m2[c[j]].previous = m[c[j]].previous /\ m2[c[j - 1]].next = m[c[j - 1]].next
        BY <1>7, <4>4
      <4> QED
        BY <4>2, <4>3, <4>5
    <3>2. CASE j = q
      <4>1. j - 1 < q /\ ~ (j < q)
        BY <3>2
      <4>2. e[j] = b /\ e[j - 1] = a
        BY <1>3, <1>9, <3>0, <3>2, <4>1
      <4> QED
        BY <1>6, <4>2
    <3>3. CASE j > q
      <4>1. /\ ~ (j < q) /\ ~ (j - 1 < q) /\ (j - 1) + 1 = j /\ j + 1 \in 2..n /\ j + 1 \in 1..n /\ j \in 1..n /\ (j + 1) - 1 = j
            /\ j + 1 # q + 1 /\ j # q - 1
        BY <3>3
      <4>2. e[j] = c[j + 1] /\ e[j - 1] = c[j]
        BY <1>9, <3>0, <4>1
      <4>3. m[c[j + 1]].previous = c[j] /\ m[c[j]].next = c[j + 1]
        BY <1>2, <4>1
      <4>4. c[j + 1] \in 1..MaxSize /\ c[j + 1] # b /\ c[j] \in 1..MaxSize /\ c[j] # a
        BY <1>5, <4>1
      <4>5. m2[c[j + 1]].previous = m[c[j + 1]].previous /\ m2[c[j]].next = m[c[j]].next
        BY <1>7, <4>4
      <4> QED
        BY <4>2, <4>3, <4>5
    <3> QED
      BY <3>1, <3>2, <3>3
  <2>4. n - 1 # 0
    OBVIOUS
  <2> QED
    BY <2>1, <2>2, <2>3, <2>4 DEF Rowed
<1>13. Taken(m2) \subseteq Taken(m)
  <2>1. m[b].previous # -1
    BY <1>2, <1>3, <1>4
  <2> QED
    BY <1>7, <2>1 DEF Taken
<1> QED
  BY <1>6, <1>8, <1>9, <1>10, <1>12, <1>13 DEF Shorter

\* The list with one element less.
LEMMA StaticShortens ==
  ASSUME NEW n \in Nat, NEW c, StaticIs(c, n), NEW q \in 1..n, Shorter(mem', mem, c, n, q),
         ~ub', m_capacity' = m_capacity, m_size' = n - 1, ref' = T!RemoveAt(ref, q),
         m_tail' \in Int, Cardinality(Taken(mem')) <= m_tail'
  PROVE  StaticInv'
<1>1. /\ m_capacity = MaxSize + 1 /\ Indices(c, n) /\ ref \in Seq({0, 1}) /\ Len(ref) = n
      /\ \A j \in 1..n : mem[c[j]].data = ref[j]
  BY DEF StaticIs
<1>2. PICK m, e : m = mem' /\ e = Shortened(c, n, q)
  OBVIOUS
<1>3. PICK a \in Nat : a = n - 1
  OBVIOUS
<1>4. /\ m \in StaticArray /\ Indices(e, a) /\ Rowed(m, e, a)
      /\ \A j \in 1..n : j # q => m[c[j]].data = mem[c[j]].data
  BY <1>2, <1>3 DEF Shorter
<1>5. \A j \in 1..a : (j < q => e[j] = c[j]) /\ (~ (j < q) => e[j] = c[j + 1])
  BY <1>1, <1>2, <1>3, ShortenedIs
<1>6. PICK s \in Seq({0, 1}) : s = ref' /\ Len(s) = a /\ \A j \in 1..a : s[j] = IF j < q THEN ref[j] ELSE ref[j + 1]
  <2>1. PICK z \in Seq({0, 1}) : z = SubSeq(ref, 1, q - 1) \o SubSeq(ref, q + 1, Len(ref)) /\ IsRemoved(z, ref, q)
    <3>1. q \in 1..Len(ref)
      BY <1>1
    <3> QED
      BY <1>1, <3>1, SeqRemoved
  <2>2. ref' = z
    BY <2>1 DEF T!RemoveAt
  <2> QED
    BY <1>1, <1>3, <2>1, <2>2 DEF IsRemoved
<1>7. ASSUME NEW j \in 1..a PROVE m[e[j]].data = s[j]
  <2>1. CASE j < q
    <3>1. j \in 1..n /\ j # q
      BY <1>3, <2>1
    <3> QED
      BY <1>1, <1>4, <1>5, <1>6, <2>1, <3>1, SMTT(30)
  <2>2. CASE ~ (j < q)
    <3>1. j + 1 \in 1..n /\ j + 1 # q
      BY <1>3, <2>2
    <3> QED
      BY <1>1, <1>4, <1>5, <1>6, <2>2, <3>1
  <2> QED
    BY <2>1, <2>2
<1>8. StaticIs(e, a)'
  BY <1>1, <1>2, <1>3, <1>4, <1>6, <1>7 DEF StaticIs
<1> QED
  BY <1>8 DEF StaticInv

\* removeAt; taking the first of several elements leaves the list out of order.
LEMMA StaticRemoves ==
  ASSUME StaticInv, NEW pos \in Nat, T!removeAt(pos)
  PROVE  StaticInv'
<1>1. /\ ~stale /\ pos < m_size
      /\ m_size' = m_size - 1 /\ ref' = T!RemoveAt(ref, pos + 1)
      /\ m_capacity' = m_capacity /\ ub' = ub
  BY DEF T!removeAt, T!Callable
<1>2. stale' = (pos = 0 /\ m_size > 1)
  BY DEF T!removeAt
<1>3. IF pos = m_size - 1
      THEN /\ mem' = [mem EXCEPT ![mem[mem[0].previous].previous].next = -1,
                        ![0].previous = IF mem[mem[0].previous].previous = 0 THEN -1 ELSE mem[mem[0].previous].previous,
                        ![mem[0].previous].previous = -1]
           /\ m_tail' = m_tail - 1
      ELSE /\ mem' = [mem EXCEPT ![mem[T!findNodeIndex(pos)].previous].next = mem[T!findNodeIndex(pos)].next,
                                 ![mem[T!findNodeIndex(pos)].next].previous = mem[T!findNodeIndex(pos)].previous]
           /\ m_tail' = m_tail
  BY DEF T!removeAt, T!m_npos
<1>4. CASE stale'
  BY <1>4 DEF StaticInv
<1>5. CASE ~stale'
  <2>1. PICK n \in Nat : \E c : StaticIs(c, n)
    BY <1>1 DEF StaticInv
  <2>2. PICK c : StaticIs(c, n)
    BY <2>1
  <2>3. /\ ~ub /\ m_size = n /\ mem \in StaticArray /\ Indices(c, n) /\ Rowed(mem, c, n)
        /\ m_tail \in Int /\ Cardinality(Taken(mem)) <= m_tail
    BY <2>2 DEF StaticIs
  <2>4. PICK q \in 1..n : q = pos + 1
    BY <1>1, <2>3
  <2>5. n # 0 /\ m_size' = n - 1 /\ ref' = T!RemoveAt(ref, q) /\ ~ub'
    BY <1>1, <2>3, <2>4
  <2>6. PICK y \in Nat : y = Cardinality(Taken(mem))
    BY TakenFits
  <2>7. /\ c \in [1..n -> 1..MaxSize] /\ mem[0].previous = c[n] /\ c[1] = 1 /\ mem[1].previous = 1
        /\ \A j \in 2..n : mem[c[j]].previous = c[j - 1] /\ mem[c[j - 1]].next = c[j]
    BY <2>3, <2>5 DEF Indices, Rowed
  <2>8. CASE pos = n - 1
    <3>1. q = n
      BY <2>4, <2>8
    <3>2. PICK x \in 1..MaxSize : x = c[n] /\ x = mem[0].previous
      <4>1. n \in 1..n
        BY <2>5
      <4> QED
        BY <2>7, <4>1
    <3>3. PICK b \in 1..MaxSize : b = mem[x].previous
      <4>1. CASE n = 1
        <5>1. x = 1 /\ mem[x].previous = x
          BY <2>7, <3>2, <4>1
        <5> QED
          BY <5>1
      <4>2. CASE n # 1
        <5>1. n \in 2..n /\ n - 1 \in 1..n
          BY <2>5, <4>2
        <5> QED
          BY <2>7, <3>2, <5>1
      <4> QED
        BY <4>1, <4>2
    <3>4. PICK m : m = mem'
      OBVIOUS
    <3>5. m = [mem EXCEPT ![b].next = -1, ![0].previous = IF b = 0 THEN -1 ELSE b, ![x].previous = -1]
      BY <1>3, <2>3, <2>8, <3>2, <3>3, <3>4
    <3>6. StopsAt(m, mem, b, x)
      BY <2>3, <3>5, CutsLast
    <3>7. Shorter(m, mem, c, n, n) /\ Taken(m) = Taken(mem) \ {c[n]} /\ c[n] \in Taken(mem)
      <4>1. b = mem[c[n]].previous /\ StopsAt(m, mem, b, c[n])
        BY <3>2, <3>3, <3>6
      <4>2. PICK z : z = mem
        OBVIOUS
      <4>3. n \in Nat /\ n # 0 /\ z \in StaticArray /\ Indices(c, n) /\ Rowed(z, c, n) /\ b = z[c[n]].previous /\ StopsAt(m, z, b, c[n])
        BY <2>3, <2>5, <4>1, <4>2
      <4>4. LastGone(m, z, c, n)
        BY <4>3, LastRemoved, ZenonT(60)
      <4> QED
        BY <4>2, <4>4 DEF LastGone
    <3>8. Cardinality(Taken(m)) = y - 1
      <4>1. IsFiniteSet(Taken(mem))
        BY TakenFits
      <4>2. Cardinality(Taken(mem) \ {x}) = IF x \in Taken(mem) THEN Cardinality(Taken(mem)) - 1 ELSE Cardinality(Taken(mem))
        BY <4>1, FS_RemoveElement
      <4> QED
        BY <2>6, <3>2, <3>7, <4>2
    <3>9. m_tail' = m_tail - 1
      BY <1>3, <2>3, <2>8
    <3>10. m_tail' \in Int /\ Cardinality(Taken(mem')) <= m_tail'
      BY <2>3, <2>6, <3>4, <3>8, <3>9
    <3>11. Shorter(mem', mem, c, n, q)
      BY <3>1, <3>4, <3>7
    <3> QED
      BY <1>1, <2>2, <2>5, <3>10, <3>11, StaticShortens
  <2>9. CASE pos # n - 1
    <3>1. pos # 0
      <4>1. ~ (pos = 0 /\ m_size > 1)
        BY <1>2, <1>5
      <4> QED
        BY <1>1, <2>3, <2>9, <4>1
    <3>2. q \in 2..(n - 1)
      BY <1>1, <2>3, <2>4, <2>9, <3>1
    <3>3. T!findNodeIndex(pos) = c[q]
      <4>1. pos \in 0..(n - 1)
        BY <1>1, <2>3
      <4> QED
        BY <2>2, <2>4, <4>1, StaticFinds
    <3>4. PICK a \in 1..MaxSize, b \in 1..MaxSize : a = c[q - 1] /\ b = c[q + 1] /\ a # b
      <4>1. q - 1 \in 1..n /\ q + 1 \in 1..n /\ q - 1 # q + 1
        BY <3>2
      <4>2. c[q - 1] # c[q + 1]
        BY <2>3, <4>1 DEF Indices
      <4> QED
        BY <2>7, <4>1, <4>2
    <3>5. mem[c[q]].previous = a /\ mem[c[q]].next = b
      <4>1. q \in 2..n /\ q + 1 \in 2..n /\ (q + 1) - 1 = q
        BY <3>2
      <4> QED
        BY <2>7, <3>4, <4>1
    <3>6. PICK m : m = mem'
      OBVIOUS
    <3>7. m = [mem EXCEPT ![a].next = b, ![b].previous = a] /\ m_tail' = m_tail
      BY <1>3, <2>3, <2>9, <3>3, <3>5, <3>6
    <3>8. Bypassed(m, mem, a, b)
      BY <2>3, <3>4, <3>7, Bypasses
    <3>9. Shorter(m, mem, c, n, q) /\ Taken(m) \subseteq Taken(mem)
      BY <2>3, <3>2, <3>4, <3>8, MiddleRemoved
    <3>10. Cardinality(Taken(m)) <= y
      <4>1. IsFiniteSet(Taken(mem)) /\ Taken(m) \in SUBSET Taken(mem)
        BY <3>9, TakenFits
      <4> QED
        BY <2>6, <4>1, FS_Subset
    <3>11. m_tail' \in Int /\ Cardinality(Taken(mem')) <= m_tail'
      <4>1. PICK w \in Nat : w = Cardinality(Taken(m))
        BY TakenFits
      <4> QED
        BY <2>3, <2>6, <3>6, <3>7, <3>10, <4>1
    <3> QED
      BY <1>1, <2>2, <2>5, <3>6, <3>9, <3>11, StaticShortens
  <2> QED
    BY <2>8, <2>9
<1> QED
  BY <1>4, <1>5

\* clear.
LEMMA StaticClears ==
  ASSUME StaticInv, T!clear
  PROVE  StaticInv'
<1>1. /\ ~stale /\ ub' = ub /\ mem' = T!NewArray(MaxSize + 1) /\ m_size' = 0 /\ m_capacity' = MaxSize + 1
      /\ m_tail' = 0 /\ ref' = <<>>
  BY DEF T!clear, T!Callable
<1>2. ~ub
  BY <1>1 DEF StaticInv, StaticIs
<1> QED
  BY <1>1, <1>2, NewStatic

\* removeRange of all elements; after any other range the list is out of order.
LEMMA StaticRemovesRange ==
  ASSUME StaticInv, NEW pos \in Nat, NEW len \in Nat, T!removeRange(pos, len)
  PROVE  StaticInv'
<1>1. ~stale /\ pos < m_size /\ ref' = SubSeq(ref, 1, pos) \o SubSeq(ref, pos + len + 1, Len(ref))
  BY DEF T!removeRange, T!Callable
<1>2. CASE pos + len >= m_size
  <2>1. /\ mem' = T!NewArray(MaxSize + 1) /\ m_size' = 0 /\ m_capacity' = MaxSize + 1 /\ m_tail' = 0 /\ ub' = ub
    BY <1>2 DEF T!removeRange
  <2>2. stale' = (pos > 0)
    BY <1>2 DEF T!removeRange
  <2>3. CASE stale'
    BY <2>3 DEF StaticInv
  <2>4. CASE ~stale'
    <3>1. pos = 0
      <4>1. ~ (pos > 0)
        BY <2>2, <2>4
      <4> QED
        BY <4>1
    <3>2. ~ub /\ Len(ref) = m_size /\ ref \in Seq({0, 1}) /\ m_size \in Nat
      BY <1>1 DEF StaticInv, StaticIs
    <3>3. ref' = <<>>
      <4>1. PICK a \in Nat : a = pos + len + 1 /\ a > Len(ref)
        BY <1>2, <3>1, <3>2
      <4>2. SubSeq(ref, a, Len(ref)) = <<>>
        BY <3>2, <4>1
      <4>3. SubSeq(ref, 1, pos) = <<>>
        BY <3>1, <3>2
      <4>4. <<>> \o <<>> = <<>>
        OBVIOUS
      <4> QED
        BY <1>1, <4>1, <4>2, <4>3, <4>4
    <3> QED
      BY <2>1, <3>2, <3>3, NewStatic
  <2> QED
    BY <2>3, <2>4
<1>3. CASE ~ (pos + len >= m_size)
  <2>1. stale' = TRUE
    BY <1>3 DEF T!removeRange
  <2> QED
    BY <2>1 DEF StaticInv
<1> QED
  BY <1>2, <1>3

\* The copy of a list.
LEMMA StaticCopies ==
  ASSUME StaticInv, T!copy
  PROVE  StaticInv'
<1>1. /\ ~stale /\ mem' = T!creatMemory(mem, m_size, m_capacity)
      /\ m_size' = m_size /\ m_capacity' = m_capacity /\ m_tail' = m_tail /\ ref' = ref /\ ub' = ub
  BY DEF T!copy, T!Callable
<1>2. stale' = (m_size > 0)
  BY DEF T!copy
<1>3. CASE stale'
  BY <1>3 DEF StaticInv
<1>4. CASE ~stale'
  <2>1. PICK n \in Nat : \E c : StaticIs(c, n)
    BY <1>1 DEF StaticInv
  <2>2. PICK c : StaticIs(c, n)
    BY <2>1
  <2>3. n = 0
    <3>1. ~ (m_size > 0)
      BY <1>2, <1>4
    <3>2. m_size = n
      BY <2>2 DEF StaticIs
    <3> QED
      BY <3>1, <3>2
  <2>4. /\ ~ub /\ m_capacity = MaxSize + 1 /\ m_size = n /\ mem \in StaticArray /\ Indices(c, n)
        /\ ref \in Seq({0, 1}) /\ Len(ref) = n /\ m_tail \in Int /\ Cardinality(Taken(mem)) <= m_tail
    BY <2>2 DEF StaticIs
  <2>5. MaxSize \in Nat /\ MaxSize > 2
    BY Bounds
  <2>6. PICK m : m = mem'
    OBVIOUS
  <2>7. m = [j \in 0..MaxSize |-> [data |-> Junk, next |-> -1, previous |-> -1]]
    <3>1. PICK b : b = m_capacity
      OBVIOUS
    <3>2. m = T!creatMemory(mem, 0, b)
      BY <1>1, <2>3, <2>4, <2>6, <3>1
    <3>3. m = [j \in 0..(b - 1) |-> IF j < 0 THEN mem[j] ELSE T!NoNode]
      BY <3>2 DEF T!creatMemory
    <3>4. b - 1 = MaxSize
      BY <2>4, <2>5, <3>1
    <3>5. T!NoNode = [data |-> Junk, next |-> -1, previous |-> -1]
      BY DEF T!NoNode, T!m_npos
    <3>6. \A j \in 0..MaxSize : ~ (j < 0)
      BY <2>5
    <3> QED
      BY <3>3, <3>4, <3>5, <3>6
  <2>8. m \in StaticArray
    BY <2>5, <2>7 DEF StaticArray, StaticNode, Index
  <2>9. Taken(m) = {} /\ m[1].previous = -1
    BY <2>5, <2>7 DEF Taken
  <2>10. Rowed(m, c, 0)
    <3>1. 1..0 = {} /\ 2..0 = {}
      OBVIOUS
    <3> QED
      BY <2>9, <3>1 DEF Rowed
  <2>11. Cardinality(Taken(m)) <= m_tail
    <3>1. Cardinality(Taken(m)) = 0
      BY <2>9, FS_EmptySet
    <3>2. PICK y \in Nat : y = Cardinality(Taken(mem))
      BY TakenFits
    <3> QED
      BY <2>4, <3>1, <3>2
  <2>12. 1..0 = {}
    OBVIOUS
  <2>13. StaticIs(c, 0)'
    BY <1>1, <2>3, <2>4, <2>6, <2>8, <2>10, <2>11, <2>12 DEF StaticIs
  <2> QED
    BY <2>13 DEF StaticInv
<1> QED
  BY <1>3, <1>4

\* Every call of the list in one array.
LEMMA StaticGoesOn ==
  ASSUME StaticInv, T!StaticNext
  PROVE  StaticInv'
<1>0. 0..(MaxSize + 1) \subseteq Nat
  BY Bounds
<1>1. ASSUME NEW v \in {0, 1}, T!append(v) PROVE StaticInv'
  BY <1>1, StaticAppends
<1>2. ASSUME NEW pos \in 0..(MaxSize + 1), T!removeAt(pos) PROVE StaticInv'
  <2>1. pos \in Nat
    BY <1>0
  <2> QED
    BY <1>2, <2>1, StaticRemoves
<1>3. ASSUME NEW pos \in 0..(MaxSize + 1), NEW len \in 0..(MaxSize + 1), T!removeRange(pos, len) PROVE StaticInv'
  <2>1. pos \in Nat /\ len \in Nat
    BY <1>0
  <2> QED
    BY <1>3, <2>1, StaticRemovesRange
<1>4. ASSUME NEW pos \in 0..(MaxSize + 1), NEW v \in {0, 1}, T!insert(pos, v) PROVE StaticInv'
  <2>1. stale' = TRUE
    BY <1>4 DEF T!insert
  <2> QED
    BY <2>1 DEF StaticInv
<1>5. ASSUME T!clear PROVE StaticInv'
  BY <1>5, StaticClears
<1>6. ASSUME T!copy PROVE StaticInv'
  BY <1>6, StaticCopies
<1> QED
  BY <1>1, <1>2, <1>3, <1>4, <1>5, <1>6 DEF T!StaticNext

\* Its first state.
LEMMA StaticStarts ==
  ASSUME T!StaticInit
  PROVE  StaticInv
<1>1. MaxSize \in Nat /\ MaxSize > 2
  BY Bounds
<1>2. mem = T!NewArray(MaxSize + 1) /\ m_size = 0 /\ m_capacity = MaxSize + 1 /\ m_tail = 0 /\ ref = <<>> /\ ub = FALSE
  BY DEF T!StaticInit
<1>3. PICK n : n = MaxSize + 1
  OBVIOUS
<1>4. mem = [j \in 0..MaxSize |-> [data |-> Junk, next |-> -1, previous |-> -1]]
  <2>1. mem = [j \in 0..(n - 1) |-> T!NoNode]
    BY <1>2, <1>3 DEF T!NewArray
  <2>2. n - 1 = MaxSize
    BY <1>1, <1>3
  <2>3. T!NoNode = [data |-> Junk, next |-> -1, previous |-> -1]
    BY DEF T!NoNode, T!m_npos
  <2> QED
    BY <2>1, <2>2, <2>3
<1>5. mem \in StaticArray
  BY <1>1, <1>4 DEF StaticArray, StaticNode, Index
<1>6. Taken(mem) = {} /\ mem[1].previous = -1
  BY <1>1, <1>4 DEF Taken
<1>7. PICK c : c = [j \in 1..0 |-> 1]
  OBVIOUS
<1>8. Indices(c, 0) /\ Rowed(mem, c, 0)
  <2>1. 1..0 = {} /\ 2..0 = {}
    OBVIOUS
  <2> QED
    BY <1>6, <1>7, <2>1 DEF Indices, Rowed
<1>9. Cardinality(Taken(mem)) = 0
  BY <1>6, FS_EmptySet
<1>10. ref \in Seq({0, 1}) /\ Len(ref) = 0 /\ 1..0 = {}
  <2>1. <<>> \in Seq({0, 1})
    OBVIOUS
  <2> QED
    BY <1>2, <2>1
<1>11. StaticIs(c, 0)
  BY <1>2, <1>5, <1>8, <1>9, <1>10 DEF StaticIs
<1> QED
  BY <1>11 DEF StaticInv

---------------------------------------------------------------------------
(* All of them.                                                                *)

\* What holds between the calls, for the structure that is under test.
ContainersInv ==
  /\ test = "List" => ListInv
  /\ test = "Queue" => QueueInv
  /\ test = "Vector" => VectorInv
  /\ test = "Stack" => StackInv
  /\ test = "StaticList" => StaticInv
  /\ test = "CMByteArray" => BytesInv

\* The first state of every test.
LEMMA ContainersStart == MCInit => ContainersInv
<1> SUFFICES ASSUME MCInit PROVE ContainersInv
  OBVIOUS
<1>1. /\ test = "List" => L!Init
      /\ test = "Queue" => Q!Init
      /\ test = "Vector" => V!VectorInit
      /\ test = "Stack" => S!StackInit
      /\ test = "StaticList" => T!StaticInit
      /\ test = "CMByteArray" => B!BytesInit
  BY DEF MCInit
<1>2. L!Init => ListInv
  BY ListStarts
<1>3. Q!Init => QueueInv
  BY QueueStarts
<1>4. V!VectorInit => VectorInv
  BY VectorStarts DEF V!VectorInit
<1>5. S!StackInit => StackInv
  BY StackStarts
<1>6. B!BytesInit => BytesInv
  BY BytesStarts
<1>7. T!StaticInit => StaticInv
  BY StaticStarts
<1> QED
  BY <1>1, <1>2, <1>3, <1>4, <1>5, <1>6, <1>7 DEF ContainersInv

\* A step that changes nothing.
LEMMA ContainersStutter ==
  ASSUME ContainersInv, UNCHANGED allVars
  PROVE  ContainersInv'
<1>1. ListInv => ListInv'
  BY ListStays DEF allVars, L!vars
<1>2. QueueInv => QueueInv'
  BY QueueStutters DEF allVars, Q!vars
<1>3. VectorInv => VectorInv'
  BY DEF allVars, VectorInv
<1>4. StackInv => StackInv'
  BY StackStutters DEF allVars
<1>5. BytesInv => BytesInv'
  BY BytesStutters DEF allVars
<1>6. StaticInv => StaticInv'
  BY StaticStays DEF allVars
<1> QED
  BY <1>1, <1>2, <1>3, <1>4, <1>5, <1>6 DEF allVars, ContainersInv

\* Every call of every container.
LEMMA ContainersGoOn == ContainersInv /\ [MCNext]_allVars => ContainersInv'
<1> SUFFICES ASSUME ContainersInv, [MCNext]_allVars PROVE ContainersInv'
  OBVIOUS
<1>1. CASE MCNext
  <2>1. /\ test' = test
        /\ test = "List" => L!Next
        /\ test = "Queue" => Q!Next
        /\ test = "Vector" => V!VectorNext
        /\ test = "Stack" => S!StackNext
        /\ test = "StaticList" => T!StaticNext
        /\ test = "CMByteArray" => B!BytesNext
    BY <1>1 DEF MCNext
  <2> QED
    BY <2>1, ListGoesOn, QueueGoesOn, VectorGoesOn, StackGoesOn, StaticGoesOn, BytesGoesOn DEF ContainersInv
<1>2. CASE UNCHANGED allVars
  BY <1>2, ContainersStutter
<1> QED
  BY <1>1, <1>2

\* The inductive invariant of all structures, for every number of nodes and any
\* sequence of calls of List.hpp, Vector.hpp, Stack.hpp and CMByteArray.cpp up to
\* the first that their modules name as one the code does not carry out: for the
\* arrays and strings such a call sets careless, the list's are left out.
THEOREM ContainersKept == MCSpec => []ContainersInv
BY ContainersStart, ContainersGoOn, PTL DEF MCSpec

\* No call touches memory that it does not own and none is lost, as long as no
\* call was careless: nodes are reached once from their list, arrays and buffers
\* from those who own them.  The careless ones are those that read an element of
\* the container itself from an array or node that is gone, or behind a buffer.
THEOREM ContainersAreMemorySafe == MCSpec => []MemorySafe
<1>1. ContainersInv => MemorySafe
  BY ListHolds, QueueHolds, VectorsOwn, BytesOwned DEF ContainersInv, MemorySafe, StackInv
<1> QED
  BY <1>1, ContainersKept, PTL

\* What verify() of DataStructure.cpp compares: each structure holds, in order,
\* what a container of the standard library would after the same calls, up to the
\* first careless one; find and split tell the truth about strings that hold 0.
THEOREM ContainersAsReference == MCSpec => []SameAsReference
<1>1. ASSUME ContainersInv PROVE SameAsReference
  <2>1. ListInv => L!SameAsReference
    BY ListHolds
  <2>2. QueueInv => Q!HoldsWhatWasPushed
    BY QueueHolds
  <2>3. VectorInv => V!VectorsAsReference
    BY VectorsHold
  <2>4. StackInv => V!VectorsAsReference /\ S!StacksTopped
    BY VectorsHold, StacksTop DEF StackInv
  <2>5. StaticInv => T!StaticAsReference
    BY StaticTells
  <2>6. BytesInv => B!BytesAsReference
    BY BytesTellTheReference
  <2>7. test \in {"Vector", "Stack"} => test = "Vector" \/ test = "Stack"
    OBVIOUS
  <2> QED
    BY <1>1, <2>1, <2>2, <2>3, <2>4, <2>5, <2>6, <2>7 DEF ContainersInv, SameAsReference
<1> QED
  BY <1>1, ContainersKept, PTL

\* popFront, popBack and pop return what the reference has at that end.
THEOREM EndsArePopped == MCSpec => PopsTheEnds
<1>1. ASSUME ContainersInv
      PROVE  /\ test = "Queue" => (Q!popFront => popped' = <<ref[1]>>) /\ (Q!popBack => popped' = <<ref[Len(ref)]>>)
             /\ test = "Stack" => S!StackPopsLast
  BY <1>1, QueuePopFront, QueuePopBack, StackPops DEF ContainersInv, S!StackPopsLast
<1>2. ContainersInv => [/\ test = "Queue" => (Q!popFront => popped' = <<ref[1]>>) /\ (Q!popBack => popped' = <<ref[Len(ref)]>>)
                        /\ test = "Stack" => S!StackPopsLast]_allVars
  BY <1>1
<1> QED
  BY <1>2, ContainersKept, PTL DEF PopsTheEnds

=============================================================================
