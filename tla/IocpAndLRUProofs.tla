-------------------------- MODULE IocpAndLRUProofs --------------------------
(***************************************************************************)
(* Proofs about two programs that share nothing but this file.             *)
(*                                                                         *)
(* The Windows server, SafeWhenSerial for any number of workers, clients   *)
(* and handles: while the handlers do not overlap, the completion of an    *)
(* operation finds its socket, its place in clntSocketVec and its          *)
(* SocketContext, whatever the kernel completes first and whichever handle *)
(* it gives out again.                                                     *)
(*                                                                         *)
(* The LRU cache, for any number of keys, values and nodes and any         *)
(* capacity, for callers that put a key only after a miss.  The list is    *)
(* described by a function r that numbers the ring: the sentry is at 0 and *)
(* at c + 1, the nodes at 1 .. c.  Every pointer operation is shown to turn *)
(* one numbering into another, and the walk of clear() along the next      *)
(* pointers to visit the nodes in the order of the numbering.              *)
(***************************************************************************)
EXTENDS Iocp, LRU, SequenceTheorems, FiniteSetTheorems, WellFoundedInduction, TLAPS

---------------------------------------------------------------------------
(* The inductive invariant.  It holds until something happens that excuses the *)
(* rest of the execution.                                                      *)

Stations == {"wait", "exit"} \cup Inside
SocketKeys == Clients \cup {Listen}
Kinds == {"accept", "read", "write"}
Ops == [kind : Kinds, h : Handles, c : SocketKeys]
Dones == [kind : Kinds, h : Handles, c : SocketKeys, ok : BOOLEAN, size : 0 .. 1]

Typed ==
  /\ client \in [Clients -> {"idle", "backlog", "up", "left", "reset"}]
  /\ owner \in [Handles -> Clients \cup {Listen, Free}]
  /\ ops \subseteq Ops /\ IsFiniteSet(ops)
  /\ queue \in Seq(Dones)
  /\ pc \in [Workers -> Stations]
  /\ got \in [Workers -> Dones \cup {Idle}]
  /\ clntSocketVec \in Seq(Handles) /\ contexts \subseteq Clients
  /\ main \in {"run", "clear", "sleep", "join", "closed"}

\* One worker at a time handles a completion, and none while the vector is
\* cleared; inVec is who changes the vector.
Alone ==
  /\ \A v, w \in Workers : pc[v] \in Inside /\ pc[w] \in Inside => v = w
  /\ main = "clear" => \A w \in Workers : pc[w] \notin Inside
  /\ inVec = {w \in Workers : pc[w] \in {"push", "erase"}}
               \cup (IF main = "clear" THEN {"main"} ELSE {})

\* The handle is where find looks for it.
InVector(h) == \E i \in DOMAIN clntSocketVec : clntSocketVec[i] = h

\* A worker has closed the handle of c and not yet deleted its context.
Closing(c) ==
  \E w \in Workers : pc[w] \in {"closed", "erase", "delete"} /\ got[w].c = c

\* A completion finds its handle and, but for the first, its context.
Backed(x) ==
  /\ x.c \in Clients
  /\ x.kind = "accept" => x.ok /\ x.c \notin contexts /\ owner[x.h] = x.c
  /\ x.kind # "accept" =>
       /\ x.c \in contexts
       /\ x.kind = "read" => InVector(x.h)
       /\ owner[x.h] = x.c \/ (owner[x.h] = Free /\ Closing(x.c))

\* An operation in progress: its handle is open and is its connection's.
Operation(op) ==
  IF op.kind = "accept" THEN op.c = Listen /\ owner[op.h] = Listen
  ELSE /\ op.c \in contexts /\ owner[op.h] = op.c
       /\ op.kind = "read" => InVector(op.h)

\* A handle belongs to one client, a client in the backlog has nothing yet, and
\* operations are in progress on the handles of their connections.
Owned ==
  /\ \A g, h \in Handles : owner[g] = owner[h] /\ owner[g] \in Clients => g = h
  /\ \A c \in Clients : client[c] \in {"idle", "backlog"} =>
       c \notin contexts /\ \A h \in Handles : owner[h] # c
  /\ \A op \in ops : Operation(op)

\* What waits in the port, and what the workers have in hand.
Waiting == \A i \in DOMAIN queue : Backed(queue[i])

InHand ==
  \A w \in Workers :
    IF pc[w] \in Inside
    THEN /\ got[w] \in Dones /\ Backed(got[w])
         /\ pc[w] = "push" => got[w].kind = "accept"
         /\ pc[w] \in {"closed", "erase"} => got[w].kind = "read" /\ owner[got[w].h] = Free
         /\ pc[w] = "delete" => got[w].kind # "accept" /\ owner[got[w].h] = Free
    ELSE got[w] = Idle

\* An AcceptEx or a read: of these a connection has one at a time.
Token(x, y) == x.c = y.c /\ x.kind # "write" /\ y.kind # "write"

OneToken ==
  /\ \A i, j \in DOMAIN queue : Token(queue[i], queue[j]) => i = j
  /\ \A i \in DOMAIN queue : \A op \in ops : ~Token(queue[i], op)
  /\ \A w \in Workers : pc[w] \in Inside =>
       /\ \A op \in ops : ~Token(got[w], op)
       /\ \A i \in DOMAIN queue : ~Token(got[w], queue[i])

Sound == Typed /\ Alone /\ Owned /\ Waiting /\ InHand /\ OneToken
IocpInv == ~excused => ub = "none" /\ Sound

---------------------------------------------------------------------------
(* Sequences and sets.                                                         *)

\* SetToSeq lists members of the set, none twice.
LEMMA SetToSeqLists ==
  ASSUME NEW S, IsFiniteSet(S)
  PROVE  /\ SetToSeq(S) \in Seq(S)
         /\ \A i, j \in DOMAIN SetToSeq(S) : SetToSeq(S)[i] = SetToSeq(S)[j] => i = j
<1>1. PICK f \in Bijection(1 .. Cardinality(S), S) : TRUE
  BY FS_CardinalityType DEF ExistsBijection
<1>2. f \in [1 .. Cardinality(S) -> S] /\ IsInjective(f)
  BY <1>1 DEF Bijection, Injection
<1>3. SetToSeq(S) \in [1 .. Cardinality(S) -> S] /\ IsInjective(SetToSeq(S))
  BY <1>2 DEF SetToSeq
<1>4. SetToSeq(S) \in Seq(S)
  BY <1>3, FS_CardinalityType, IsASeq
<1> QED
  BY <1>3, <1>4 DEF IsInjective

\* A set of indices has a least one.
LEMMA LeastIndex ==
  ASSUME NEW B, B \subseteq Nat, B # {}
  PROVE  \E k \in B : \A j \in B : k <= j
<1>1. PICK k \in B : \A j \in B : <<j, k>> \notin OpToRel(<, Nat)
  BY NatLessThanWellFounded, WFMin
<1>2. ASSUME NEW j \in B PROVE k <= j
  <2>1. j \in Nat /\ k \in Nat /\ ~ (j < k)
    BY <1>1 DEF OpToRel
  <2> QED
    BY <2>1
<1> QED
  BY <1>2

\* RemoveFirst takes one handle out and leaves the others in.
LEMMA RemoveFirstKeeps ==
  ASSUME NEW S, NEW s \in Seq(S), NEW e \in S
  PROVE  /\ RemoveFirst(s, e) \in Seq(S)
         /\ \A i \in DOMAIN s : s[i] # e =>
              \E j \in DOMAIN RemoveFirst(s, e) : RemoveFirst(s, e)[j] = s[i]
<1>1. CASE ~ \E i \in 1 .. Len(s) : s[i] = e
  <2>1. RemoveFirst(s, e) = s
    BY <1>1 DEF RemoveFirst
  <2> QED
    BY <2>1
<1>2. CASE \E i \in 1 .. Len(s) : s[i] = e
  <2> DEFINE k == SelectInSeq(s, LAMBDA v : v = e)
             I == {i \in 1 .. Len(s) : s[i] = e}
  <2>1. k \in I
    <3>1. k = Min(I)
      BY <1>2 DEF SelectInSeq
    <3>2. \E x \in I : \A y \in I : x <= y
      <4>1. PICK n \in 1 .. Len(s) : s[n] = e
        BY <1>2
      <4>2. I \in SUBSET Nat /\ n \in I
        BY <4>1
      <4> QED
        BY <4>2, LeastIndex
    <3>3. Min(I) \in I
      BY <3>2 DEF Min
    <3> QED
      BY <3>1, <3>3
  <2>2. RemoveFirst(s, e) = SubSeq(s, 1, k - 1) \o SubSeq(s, k + 1, Len(s))
    BY <1>2 DEF RemoveFirst, RemoveAt
  <2> DEFINE a == SubSeq(s, 1, k - 1)
             b == SubSeq(s, k + 1, Len(s))
  <2> HIDE DEF k
  <2>3. k \in 1 .. Len(s) /\ s[k] = e /\ Len(s) \in Nat
    BY <2>1, LenProperties
  <2>4. /\ a \in Seq(S) /\ Len(a) = k - 1
        /\ \A i \in 1 .. k - 1 : a[i] = s[i]
    BY <2>3
  <2>5. /\ b \in Seq(S) /\ Len(b) = Len(s) - k
        /\ \A i \in 1 .. Len(s) - k : b[i] = s[k + i]
    BY <2>3
  <2> HIDE DEF a, b
  <2>6. /\ a \o b \in Seq(S) /\ Len(a \o b) = Len(a) + Len(b)
        /\ \A i \in 1 .. Len(a) + Len(b) :
             (a \o b)[i] = IF i <= Len(a) THEN a[i] ELSE b[i - Len(a)]
    BY <2>4, <2>5, ConcatProperties
  <2>7. RemoveFirst(s, e) = a \o b
    BY <2>2 DEF a, b
  <2>8. ASSUME NEW i \in DOMAIN s, s[i] # e
        PROVE  \E j \in DOMAIN RemoveFirst(s, e) : RemoveFirst(s, e)[j] = s[i]
    <3>1. i \in 1 .. Len(s) /\ i # k
      BY <2>3, <2>8, LenProperties
    <3>2. DOMAIN (a \o b) = 1 .. Len(a) + Len(b)
      BY <2>6, LenProperties
    <3>3. CASE i < k
      <4>1. i \in 1 .. k - 1 /\ i \in 1 .. Len(a) + Len(b) /\ i <= Len(a)
        BY <3>1, <3>3, <2>3, <2>4, <2>5
      <4>2. (a \o b)[i] = s[i]
        BY <4>1, <2>4, <2>6
      <4> QED
        BY <4>1, <4>2, <3>2, <2>7
    <3>4. CASE i > k
      <4>1. /\ i - 1 \in 1 .. Len(a) + Len(b) /\ ~(i - 1 <= Len(a))
            /\ i - k \in 1 .. Len(s) - k /\ i - 1 - Len(a) = i - k /\ k + (i - k) = i
        BY <3>1, <3>4, <2>3, <2>4, <2>5
      <4>2. (a \o b)[i - 1] = b[i - k]
        BY <4>1, <2>6
      <4>3. b[i - k] = s[i]
        BY <4>1, <2>5
      <4> QED
        BY <4>1, <4>2, <4>3, <3>2, <2>7
    <3> QED
      BY <3>1, <3>3, <3>4, <2>3
  <2> QED
    BY <2>6, <2>7, <2>8
<1> QED
  BY <1>1, <1>2

\* What concatenation and Append leave in place and what they add.
LEMMA Longer ==
  ASSUME NEW S, NEW s \in Seq(S), NEW t \in Seq(S)
  PROVE  /\ s \o t \in Seq(S)
         /\ \A i \in DOMAIN (s \o t) :
              \/ i \in DOMAIN s /\ (s \o t)[i] = s[i]
              \/ /\ i \notin DOMAIN s /\ i - Len(s) \in DOMAIN t
                 /\ (s \o t)[i] = t[i - Len(s)]
<1>1. /\ s \o t \in Seq(S) /\ Len(s \o t) = Len(s) + Len(t)
      /\ \A i \in 1 .. Len(s) + Len(t) :
           (s \o t)[i] = IF i <= Len(s) THEN s[i] ELSE t[i - Len(s)]
  BY ConcatProperties
<1>2. /\ DOMAIN (s \o t) = 1 .. Len(s) + Len(t) /\ Len(s) \in Nat /\ Len(t) \in Nat
      /\ DOMAIN s = 1 .. Len(s) /\ DOMAIN t = 1 .. Len(t)
  BY <1>1, LenProperties
<1>3. ASSUME NEW i \in 1 .. Len(s) + Len(t), ~(i <= Len(s))
      PROVE  i \notin 1 .. Len(s) /\ i - Len(s) \in 1 .. Len(t)
  BY <1>2, <1>3
<1>4. ASSUME NEW i \in 1 .. Len(s) + Len(t), i <= Len(s)
      PROVE  i \in 1 .. Len(s)
  BY <1>2, <1>4
<1> QED
  BY <1>1, <1>2, <1>3, <1>4

LEMMA LongerByOne ==
  ASSUME NEW S, NEW s \in Seq(S), NEW e \in S
  PROVE  /\ Append(s, e) \in Seq(S)
         /\ \A i \in DOMAIN Append(s, e) :
              \/ i \in DOMAIN s /\ Append(s, e)[i] = s[i]
              \/ i = Len(s) + 1 /\ i \notin DOMAIN s /\ Append(s, e)[i] = e
  OBVIOUS

\* The completion port receives the operations R, each once.
Same(x, op) == x.kind = op.kind /\ x.h = op.h /\ x.c = op.c
Posts(R) ==
  /\ queue' \in Seq(Dones)
  /\ \A i \in DOMAIN queue' :
       \/ i \in DOMAIN queue /\ queue'[i] = queue[i]
       \/ i \notin DOMAIN queue /\ \E op \in R : Same(queue'[i], op)
  /\ \A i, j \in DOMAIN queue' :
       i \notin DOMAIN queue /\ j \notin DOMAIN queue /\ Same(queue'[i], queue'[j]) => i = j

\* Complete, a step without completions and CloseAll, in terms of Posts.
LEMMA PostsOne ==
  ASSUME Typed, NEW op \in ops, NEW ok \in BOOLEAN, NEW size \in 0 .. 1,
         queue' = Append(queue, Done(op, ok, size))
  PROVE  Posts({op})
<1>1. Done(op, ok, size) \in Dones /\ Same(Done(op, ok, size), op)
  BY DEF Typed, Ops, Dones, Done, Same
<1> QED
  BY <1>1, LongerByOne DEF Typed, Posts

LEMMA PostsNone ==
  ASSUME Typed, UNCHANGED queue
  PROVE  Posts({})
  BY DEF Typed, Posts

LEMMA Closes ==
  ASSUME Typed, NEW hs, CloseAll(hs)
  PROVE  /\ ops' = {op \in ops : op.h \notin hs}
         /\ owner' = [h \in Handles |-> IF h \in hs THEN Free ELSE owner[h]]
         /\ Posts({op \in ops : op.h \in hs})
<1> DEFINE R == {op \in ops : op.h \in hs}
           D == {Done(op, FALSE, 0) : op \in R}
           t == SetToSeq(D)
<1>1. IsFiniteSet(D)
  <2> DEFINE f == [op \in R |-> Done(op, FALSE, 0)]
  <2>1. f \in Surjection(R, D)
    BY DEF Surjection
  <2>2. IsFiniteSet(R)
    BY FS_Subset DEF Typed
  <2> QED
    BY <2>1, <2>2, FS_Surjection
<1>2. D \subseteq Dones
  <2>1. ASSUME NEW op \in ops PROVE Done(op, FALSE, 0) \in Dones
    BY DEF Typed, Ops, Dones, Done
  <2> QED
    BY <2>1
<1>3. /\ t \in Seq(D) /\ \A i, j \in DOMAIN t : t[i] = t[j] => i = j
  BY <1>1, SetToSeqLists
<1>4. ops' = {op \in ops : op.h \notin hs}
      /\ owner' = [h \in Handles |-> IF h \in hs THEN Free ELSE owner[h]]
      /\ queue' = queue \o t
  BY DEF CloseAll
<1> HIDE DEF D, t
<1>5. t \in Seq(Dones)
  BY <1>2, <1>3, SeqMonotonic
<1>6. /\ queue' \in Seq(Dones)
      /\ \A i \in DOMAIN queue' :
           \/ i \in DOMAIN queue /\ queue'[i] = queue[i]
           \/ /\ i \notin DOMAIN queue /\ i - Len(queue) \in DOMAIN t
              /\ queue'[i] = t[i - Len(queue)]
  BY <1>4, <1>5, Longer DEF Typed
<1>7. \A k \in DOMAIN t : \E op \in R : t[k] = Done(op, FALSE, 0)
  <2>1. \A k \in DOMAIN t : t[k] \in D
    BY <1>3, ElementOfSeq, LenProperties
  <2> QED
    BY <2>1 DEF D
<1>8. \A i \in DOMAIN queue' :
        \/ i \in DOMAIN queue /\ queue'[i] = queue[i]
        \/ i \notin DOMAIN queue /\ \E op \in R : Same(queue'[i], op)
  BY <1>6, <1>7 DEF Same, Done
<1>9. ASSUME NEW i \in DOMAIN queue', NEW j \in DOMAIN queue',
             i \notin DOMAIN queue, j \notin DOMAIN queue, Same(queue'[i], queue'[j])
      PROVE  i = j
  <2>1. /\ i - Len(queue) \in DOMAIN t /\ queue'[i] = t[i - Len(queue)]
        /\ j - Len(queue) \in DOMAIN t /\ queue'[j] = t[j - Len(queue)]
    BY <1>6, <1>9
  <2>2. PICK o \in R : t[i - Len(queue)] = Done(o, FALSE, 0)
    BY <1>7, <2>1
  <2>3. PICK p \in R : t[j - Len(queue)] = Done(p, FALSE, 0)
    BY <1>7, <2>1
  <2>4. t[i - Len(queue)] = t[j - Len(queue)]
    <3>1. o.kind = p.kind /\ o.h = p.h /\ o.c = p.c
      BY <1>9, <2>1, <2>2, <2>3 DEF Same, Done
    <3> QED
      BY <3>1, <2>2, <2>3 DEF Done
  <2>5. i - Len(queue) = j - Len(queue)
    BY <1>3, <2>1, <2>4
  <2>6. i \in Int /\ j \in Int /\ Len(queue) \in Int
    BY <1>6, LenProperties DEF Typed
  <2> QED
    BY <2>5, <2>6
<1> QED
  BY <1>4, <1>6, <1>8, <1>9 DEF Posts

---------------------------------------------------------------------------
(* What steps of several kinds keep.                                           *)

\* Reads of one connection in progress are one read.
LEMMA OneRead ==
  ASSUME PortAssumption, Typed, Owned, NEW o \in ops, NEW p \in ops, Token(o, p),
         o.kind # "accept"
  PROVE  o = p
<1>1. /\ o \in Ops /\ p \in Ops /\ o.c = p.c /\ o.kind = "read"
      /\ o.c \in Clients /\ owner[o.h] = o.c
  BY DEF Typed, Owned, Operation, Token, Ops, Kinds
<1>2. p.kind = "read" /\ owner[p.h] = p.c
  BY <1>1 DEF PortAssumption, Typed, Owned, Operation, Token, Ops, Kinds
<1>3. o.h = p.h
  BY <1>1, <1>2 DEF Owned, Ops
<1> QED
  BY <1>1, <1>2, <1>3 DEF Ops

\* Operations that complete take their token from the operations to the port.
LEMMA TokenKept ==
  ASSUME PortAssumption, Typed, Owned, OneToken, NEW R \in SUBSET ops,
         \A op \in R : op.kind # "accept",
         ops' \subseteq ops \ R, Posts(R),
         \A w \in Workers : pc'[w] \in Inside => pc[w] \in Inside /\ got'[w] = got[w]
  PROVE  OneToken'
<1> DEFINE New(i) == i \notin DOMAIN queue
<1>1. ASSUME NEW i \in DOMAIN queue', New(i)
      PROVE  \E op \in R : Same(queue'[i], op)
  BY <1>1 DEF Posts
<1>2. ASSUME NEW i \in DOMAIN queue', ~New(i)
      PROVE  i \in DOMAIN queue /\ queue'[i] = queue[i]
  BY <1>2 DEF Posts
<1> HIDE DEF New
<1>3. ASSUME NEW i \in DOMAIN queue', NEW j \in DOMAIN queue', Token(queue'[i], queue'[j])
      PROVE  i = j
  <2>1. CASE ~New(i) /\ ~New(j)
    BY <1>2, <1>3, <2>1 DEF OneToken
  <2>2. CASE ~New(i) /\ New(j)
    <3>1. PICK op \in R : Same(queue'[j], op)
      BY <1>1, <2>2
    <3>2. Token(queue[i], op)
      BY <1>2, <1>3, <2>2, <3>1 DEF Token, Same
    <3> QED
      BY <1>2, <2>2, <3>2 DEF OneToken
  <2>3. CASE New(i) /\ ~New(j)
    <3>1. PICK op \in R : Same(queue'[i], op)
      BY <1>1, <2>3
    <3>2. Token(queue[j], op)
      BY <1>2, <1>3, <2>3, <3>1 DEF Token, Same
    <3> QED
      BY <1>2, <2>3, <3>2 DEF OneToken
  <2>4. CASE New(i) /\ New(j)
    <3>1. PICK o \in R : Same(queue'[i], o)
      BY <1>1, <2>4
    <3>2. PICK p \in R : Same(queue'[j], p)
      BY <1>1, <2>4
    <3>3. Token(o, p)
      BY <1>3, <3>1, <3>2 DEF Token, Same
    <3>4. o = p
      BY <3>3, OneRead
    <3> QED
      BY <2>4, <3>1, <3>2, <3>4 DEF Posts, Same, New
  <2> QED
    BY <2>1, <2>2, <2>3, <2>4
<1>4. ASSUME NEW i \in DOMAIN queue', NEW op \in ops', Token(queue'[i], op)
      PROVE  FALSE
  <2>1. CASE ~New(i)
    BY <1>2, <1>4, <2>1 DEF OneToken
  <2>2. CASE New(i)
    <3>1. PICK o \in R : Same(queue'[i], o)
      BY <1>1, <2>2
    <3>2. Token(o, op) /\ op \in ops /\ op \notin R
      BY <1>4, <3>1 DEF Token, Same
    <3> QED
      BY <3>2, OneRead
  <2> QED
    BY <2>1, <2>2
<1>5. ASSUME NEW w \in Workers, pc'[w] \in Inside
      PROVE  /\ \A op \in ops' : ~Token(got'[w], op)
             /\ \A i \in DOMAIN queue' : ~Token(got'[w], queue'[i])
  <2>1. /\ got'[w] = got[w]
        /\ \A op \in ops : ~Token(got[w], op)
        /\ \A i \in DOMAIN queue : ~Token(got[w], queue[i])
    BY <1>5 DEF OneToken
  <2>2. ASSUME NEW i \in DOMAIN queue', New(i) PROVE ~Token(got[w], queue'[i])
    <3>1. PICK op \in R : Same(queue'[i], op)
      BY <1>1, <2>2
    <3> QED
      BY <2>1, <3>1 DEF Token, Same
  <2>3. ASSUME NEW i \in DOMAIN queue', ~New(i) PROVE ~Token(got[w], queue'[i])
    BY <1>2, <2>1, <2>3
  <2> QED
    BY <2>1, <2>2, <2>3
<1> QED
  BY <1>3, <1>4, <1>5 DEF OneToken, Token

\* What the port receives is backed as the operation was.
LEMMA WaitingKept ==
  ASSUME PortAssumption, Typed, Owned, Waiting, NEW R \in SUBSET ops,
         \A op \in R : op.kind # "accept", Posts(R),
         UNCHANGED <<owner, contexts, clntSocketVec>>,
         \A c \in Clients : Closing(c) => Closing(c)'
  PROVE  Waiting'
<1> SUFFICES ASSUME NEW i \in DOMAIN queue' PROVE Backed(queue[i])'
  BY DEF Waiting
<1>1. CASE i \in DOMAIN queue /\ queue'[i] = queue[i]
  <2>1. Backed(queue[i])
    BY <1>1 DEF Waiting
  <2> QED
    BY <1>1, <2>1 DEF Backed, InVector
<1>2. CASE \E op \in R : Same(queue'[i], op)
  <2>1. PICK op \in R : Same(queue'[i], op)
    BY <1>2
  <2>2. op.kind # "accept" /\ op.c \in Clients /\ Operation(op)
    BY DEF Typed, Owned, Operation
  <2> QED
    BY <2>1, <2>2 DEF Backed, Operation, InVector, Same
<1> QED
  BY <1>1, <1>2 DEF Posts

\* Owned and InHand look at little of the state.
LEMMA OwnedKept ==
  ASSUME Owned, UNCHANGED <<owner, contexts, clntSocketVec>>, ops' \subseteq ops,
         \A c \in Clients : client'[c] \in {"idle", "backlog"}
                              => client[c] \in {"idle", "backlog"}
  PROVE  Owned'
  BY DEF Owned, Operation, InVector

LEMMA InHandKept ==
  ASSUME InHand, UNCHANGED <<pc, got, owner, contexts, clntSocketVec>>
  PROVE  InHand'
  BY DEF InHand, Backed, InVector, Closing

\* A step that leaves workers, sockets and contexts alone.
LEMMA QuietStep ==
  ASSUME PortAssumption, Sound, NEW R \in SUBSET ops, \A op \in R : op.kind # "accept",
         ops' = ops \ R, Posts(R),
         client' \in [Clients -> {"idle", "backlog", "up", "left", "reset"}],
         \A c \in Clients : client'[c] \in {"idle", "backlog"}
                              => client[c] \in {"idle", "backlog"},
         UNCHANGED <<owner, workerVars, main>>
  PROVE  Sound'
<1>1. Typed'
  <2>1. IsFiniteSet(ops')
    BY FS_Subset DEF Sound, Typed
  <2> QED
    BY <2>1 DEF Sound, Typed, Posts, workerVars
<1>2. Alone'
  BY DEF Sound, Alone, workerVars
<1>3. Owned'
  BY OwnedKept DEF Sound, workerVars
<1>4. Waiting'
  <2>1. \A c \in Clients : Closing(c) => Closing(c)'
    BY DEF Closing, workerVars
  <2> QED
    BY <2>1, WaitingKept DEF Sound, workerVars
<1>5. InHand'
  BY InHandKept DEF Sound, workerVars
<1>6. OneToken'
  BY TokenKept DEF Sound, workerVars
<1> QED
  BY <1>1, <1>2, <1>3, <1>4, <1>5, <1>6 DEF Sound

---------------------------------------------------------------------------
(* Clients and kernel.                                                         *)

\* A client in the backlog has no handle, context, operation or completion yet.
LEMMA Unknown ==
  ASSUME PortAssumption, Sound, NEW c \in Clients, client[c] \in {"idle", "backlog"}
  PROVE  /\ c \notin contexts /\ \A h \in Handles : owner[h] # c
         /\ \A i \in DOMAIN queue : queue[i].c # c
         /\ \A op \in ops : op.c # c
         /\ \A w \in Workers : pc[w] \in Inside => got[w].c # c
<1>1. c \notin contexts /\ \A h \in Handles : owner[h] # c
  BY DEF Sound, Owned
<1>2. ASSUME NEW x \in Dones, Backed(x) PROVE x.c # c
  BY <1>1, <1>2 DEF Backed, Dones
<1>3. \A i \in DOMAIN queue : queue[i] \in Dones
  BY ElementOfSeq, LenProperties DEF Sound, Typed
<1> QED
  BY <1>1, <1>2, <1>3 DEF Sound, Waiting, InHand, Owned, Operation, PortAssumption

\* The kernel connects a client to a waiting handle; a failed AcceptEx excuses.
LEMMA AcceptedSound ==
  ASSUME PortAssumption, Sound, ~excused', NEW c \in Clients, KernelAccept(c),
         UNCHANGED <<workerVars, main>>
  PROVE  Sound'
<1>1. PICK op \in ops :
        /\ op.kind = "accept" /\ client[c] = "backlog"
        /\ ops' = ops \ {op} /\ queue' = Append(queue, Done([op EXCEPT !.c = c], TRUE, 0))
        /\ client' = [client EXCEPT ![c] = "up"]
        /\ owner' = [owner EXCEPT ![op.h] = c]
  BY DEF KernelAccept
<1> DEFINE x == Done([op EXCEPT !.c = c], TRUE, 0)
<1>2. /\ op \in Ops /\ op.h \in Handles /\ op.c = Listen /\ owner[op.h] = Listen
  BY <1>1 DEF Sound, Typed, Owned, Operation, Ops
<1>3. /\ x \in Dones /\ x.kind = "accept" /\ x.h = op.h /\ x.c = c /\ x.ok
  BY <1>1, <1>2 DEF Done, Dones, Ops, Kinds, SocketKeys
<1> HIDE DEF x
<1>4. /\ queue' \in Seq(Dones)
      /\ \A i \in DOMAIN queue' :
           \/ i \in DOMAIN queue /\ queue'[i] = queue[i]
           \/ i = Len(queue) + 1 /\ i \notin DOMAIN queue /\ queue'[i] = x
  <2>1. queue \in Seq(Dones) /\ queue' = Append(queue, x)
    BY <1>1 DEF Sound, Typed, x
  <2> QED
    BY <1>3, <2>1, LongerByOne
<1>5. /\ c \notin contexts /\ \A h \in Handles : owner[h] # c
      /\ \A i \in DOMAIN queue : queue[i].c # c
      /\ \A o \in ops : o.c # c
      /\ \A w \in Workers : pc[w] \in Inside => got[w].c # c
  BY <1>1, Unknown
<1>6. owner \in [Handles -> Clients \cup {Listen, Free}] /\ Listen \notin Clients
      /\ Free \notin Clients /\ Free # Listen
  BY DEF Sound, Typed, PortAssumption
<1>7. /\ owner' \in [Handles -> Clients \cup {Listen, Free}]
      /\ owner'[op.h] = c /\ \A h \in Handles : h # op.h => owner'[h] = owner[h]
  BY <1>1, <1>2, <1>6
<1>8. UNCHANGED <<contexts, clntSocketVec, pc, got, main, inVec>>
  BY DEF workerVars
<1>9. Typed'
  <2>1. IsFiniteSet(ops')
    BY <1>1, FS_Subset DEF Sound, Typed
  <2> QED
    BY <1>1, <1>4, <1>7, <1>8, <2>1 DEF Sound, Typed
<1>10. Alone'
  BY <1>8 DEF Sound, Alone
<1>11. Owned'
  <2>1. ASSUME NEW g \in Handles, NEW h \in Handles, owner'[g] = owner'[h], owner'[g] \in Clients
        PROVE  g = h
    BY <1>5, <1>7, <2>1 DEF Sound, Owned
  <2>2. ASSUME NEW d \in Clients, client'[d] \in {"idle", "backlog"}
        PROVE  d \notin contexts' /\ \A h \in Handles : owner'[h] # d
    <3>1. d # c /\ client'[d] = client[d]
      BY <1>1, <2>2 DEF Sound, Typed
    <3> QED
      BY <1>7, <1>8, <2>2, <3>1 DEF Sound, Owned
  <2>3. ASSUME NEW o \in ops' PROVE Operation(o)'
    <3>1. o \in ops /\ o # op /\ o \in Ops /\ o.h \in Handles /\ Operation(o)
      BY <1>1 DEF Sound, Typed, Owned, Ops
    <3>2. CASE o.kind = "accept"
      <4>1. o.h # op.h
        BY <1>1, <1>2, <3>1, <3>2 DEF Operation, Ops
      <4> QED
        BY <1>7, <3>1, <3>2, <4>1 DEF Operation
    <3>3. CASE o.kind # "accept"
      <4>1. o.h # op.h
        BY <1>2, <1>6, <3>1, <3>3 DEF Operation, Sound, Typed
      <4> QED
        BY <1>7, <1>8, <3>1, <3>3, <4>1 DEF Operation, InVector
    <3> QED
      BY <3>2, <3>3
  <2> QED
    BY <2>1, <2>2, <2>3 DEF Owned
<1>12. ASSUME NEW y \in Dones, Backed(y) PROVE Backed(y)'
  <2>1. y.h \in Handles /\ owner[y.h] \in {y.c, Free} /\ y.c \in Clients
    BY <1>12 DEF Backed, Dones
  <2>2. owner'[y.h] = owner[y.h]
    BY <1>2, <1>6, <1>7, <2>1
  <2> QED
    BY <1>8, <1>12, <2>2 DEF Backed, InVector, Closing
<1>13. Waiting'
  <2> SUFFICES ASSUME NEW i \in DOMAIN queue' PROVE Backed(queue[i])'
    BY DEF Waiting
  <2>1. CASE i \in DOMAIN queue /\ queue'[i] = queue[i]
    <3>1. queue[i] \in Dones /\ Backed(queue[i])
      BY <2>1, ElementOfSeq, LenProperties DEF Sound, Typed, Waiting
    <3> QED
      BY <1>12, <2>1, <3>1 DEF Backed, InVector, Closing
  <2>2. CASE queue'[i] = x
    BY <1>3, <1>5, <1>7, <1>8, <2>2 DEF Backed
  <2> QED
    BY <1>4, <2>1, <2>2
<1>14. InHand'
  <2> SUFFICES ASSUME NEW w \in Workers
               PROVE  (IF pc[w] \in Inside
    THEN /\ got[w] \in Dones /\ Backed(got[w])
         /\ pc[w] = "push" => got[w].kind = "accept"
         /\ pc[w] \in {"closed", "erase"} => got[w].kind = "read" /\ owner[got[w].h] = Free
         /\ pc[w] = "delete" => got[w].kind # "accept" /\ owner[got[w].h] = Free
    ELSE got[w] = Idle)'
    BY DEF InHand
  <2>1. CASE pc[w] \in Inside
    <3>1. got[w] \in Dones /\ Backed(got[w]) /\ got[w].h \in Handles
      BY <2>1 DEF Sound, InHand, Dones
    <3>2. Backed(got[w])'
      BY <1>8, <1>12, <3>1 DEF Backed, InVector, Closing
    <3>3. owner[got[w].h] = Free => owner'[got[w].h] = Free
      BY <1>2, <1>6, <1>7, <3>1
    <3> QED
      BY <1>8, <2>1, <3>1, <3>2, <3>3 DEF Sound, InHand
  <2>2. CASE pc[w] \notin Inside
    BY <1>8, <2>2 DEF Sound, InHand
  <2> QED
    BY <2>1, <2>2
<1>15. OneToken'
  <2>1. ASSUME NEW i \in DOMAIN queue', NEW j \in DOMAIN queue', Token(queue'[i], queue'[j])
        PROVE  i = j
    BY <1>3, <1>4, <1>5, <2>1 DEF Sound, OneToken, Token
  <2>2. ASSUME NEW i \in DOMAIN queue', NEW o \in ops' PROVE ~Token(queue'[i], o)
    <3>1. o \in ops /\ o.c # c
      BY <1>1, <1>5
    <3>2. CASE i \in DOMAIN queue /\ queue'[i] = queue[i]
      BY <3>1, <3>2 DEF Sound, OneToken
    <3>3. CASE queue'[i] = x
      BY <1>3, <3>1, <3>3 DEF Token
    <3> QED
      BY <1>4, <3>2, <3>3
  <2>3. ASSUME NEW w \in Workers, pc'[w] \in Inside
        PROVE  /\ \A o \in ops' : ~Token(got'[w], o)
               /\ \A i \in DOMAIN queue' : ~Token(got'[w], queue'[i])
    <3>1. /\ pc[w] \in Inside /\ got'[w] = got[w] /\ got[w].c # c
          /\ \A o \in ops : ~Token(got[w], o)
          /\ \A i \in DOMAIN queue : ~Token(got[w], queue[i])
      BY <1>5, <1>8, <2>3 DEF Sound, OneToken
    <3>2. ~Token(got[w], x)
      BY <1>3, <3>1 DEF Token
    <3> QED
      BY <1>1, <1>4, <3>1, <3>2
  <2> QED
    BY <2>1, <2>2, <2>3 DEF OneToken, Token
<1> QED
  BY <1>9, <1>10, <1>11, <1>13, <1>14, <1>15 DEF Sound

\* What clients and kernel do between two steps of the server.
LEMMA WorldSound ==
  ASSUME PortAssumption, ub = "none" /\ Sound, ~excused', World
  PROVE  ub' = "none" /\ Sound'
<1>1. UNCHANGED <<workerVars, main>> /\ ub = "none"
  BY DEF World, closeVars
<1>2. CASE KernelRead
  <2>1. PICK op \in ops :
          /\ op.kind = "read" /\ UNCHANGED <<client, owner, ub>>
          /\ Complete(op, FALSE, 0) \/ Complete(op, TRUE, 1) \/ Complete(op, TRUE, 0)
    BY <1>2 DEF KernelRead
  <2>2. Posts({op}) /\ ops' = ops \ {op}
    <3>1. ASSUME NEW ok \in BOOLEAN, NEW size \in 0 .. 1, Complete(op, ok, size)
          PROVE  Posts({op}) /\ ops' = ops \ {op}
      BY <3>1, PostsOne DEF Complete, Sound
    <3>2. 0 \in 0 .. 1 /\ 1 \in 0 .. 1 /\ TRUE \in BOOLEAN /\ FALSE \in BOOLEAN
      OBVIOUS
    <3> QED
      BY <2>1, <3>1, <3>2
  <2> QED
    BY <1>1, <2>1, <2>2, QuietStep DEF Sound, Typed
<1>3. CASE KernelWrite
  <2>1. PICK op \in ops : /\ op.kind = "write" /\ Complete(op, client[op.c] # "reset", 1)
                          /\ UNCHANGED <<client, owner, ub>>
    BY <1>3 DEF KernelWrite
  <2>2. PICK ok \in BOOLEAN : Complete(op, ok, 1)
    BY <2>1
  <2>3. Posts({op}) /\ ops' = ops \ {op}
    BY <2>2, PostsOne DEF Complete, Sound
  <2> QED
    BY <1>1, <2>1, <2>3, QuietStep DEF Sound, Typed
<1>4. ASSUME NEW c \in Clients, Connect(c) \/ Say(c) \/ Leave(c)
      PROVE  ub' = "none" /\ Sound'
  <2>1. UNCHANGED <<owner, ops, queue, ub>>
    BY <1>4 DEF Connect, Say, Leave
  <2>2. /\ client' \in [Clients -> {"idle", "backlog", "up", "left", "reset"}]
        /\ \A d \in Clients : client'[d] \in {"idle", "backlog"}
                                => client[d] \in {"idle", "backlog"}
    <3>1. CASE Connect(c)
      BY <3>1 DEF Connect, Sound, Typed
    <3>2. CASE Say(c)
      BY <3>2 DEF Say, Sound, Typed
    <3>3. CASE Leave(c)
      <4>1. PICK s \in {"left", "reset"} : client' = [client EXCEPT ![c] = s]
        BY <3>3 DEF Leave
      <4> QED
        BY <4>1 DEF Sound, Typed
    <3> QED
      BY <1>4, <3>1, <3>2, <3>3
  <2>3. Posts({}) /\ ops' = ops \ {}
    BY <2>1, PostsNone DEF Sound
  <2> QED
    BY <1>1, <2>1, <2>2, <2>3, QuietStep
<1>5. ASSUME NEW c \in Clients, KernelAccept(c) PROVE ub' = "none" /\ Sound'
  BY <1>1, <1>5, AcceptedSound DEF KernelAccept
<1> QED
  BY <1>2, <1>3, <1>4, <1>5 DEF World

---------------------------------------------------------------------------
(* The workers, and close().                                                   *)

\* While a worker handles a completion it is alone.
LEMMA Lone ==
  ASSUME PortAssumption, Sound, NEW w \in Workers, pc[w] \in Inside
  PROVE  /\ \A v \in Workers : v # w => pc[v] \notin Inside /\ got[v] = Idle
         /\ main # "clear" /\ got[w] \in Dones /\ Backed(got[w])
         /\ got[w].c \in Clients /\ got[w].h \in Handles
         /\ \A c \in Clients : Closing(c) => c = got[w].c
         /\ pc[w] = "handle" => owner[got[w].h] = got[w].c /\ \A c \in Clients : ~Closing(c)
         /\ pc[w] \notin {"push", "erase"} => inVec = {}
<1>1. \A v \in Workers : v # w => pc[v] \notin Inside /\ got[v] = Idle
  BY DEF Sound, Alone, InHand
<1>2. main # "clear" /\ got[w] \in Dones /\ Backed(got[w])
  BY DEF Sound, Alone, InHand
<1>3. \A c \in Clients : Closing(c) => c = got[w].c /\ pc[w] # "handle"
  BY <1>1 DEF Closing, Inside
<1>4. inVec = {v \in Workers : pc[v] \in {"push", "erase"}}
  BY <1>2 DEF Sound, Alone
<1>5. pc[w] \notin {"push", "erase"} => inVec = {}
  BY <1>1, <1>4 DEF Inside
<1>6. got[w].c \in Clients /\ got[w].h \in Handles
  BY <1>2 DEF Backed, Dones
<1>7. pc[w] = "handle" => owner[got[w].h] = got[w].c
  BY <1>2, <1>3, <1>6 DEF Backed
<1> QED
  BY <1>1, <1>2, <1>3, <1>5, <1>6, <1>7

\* The workers that stand still keep what they have.
LEMMA Moves ==
  ASSUME Sound, NEW w \in Workers, NEW from, NEW to \in Stations, At(w, from, to)
  PROVE  /\ pc[w] = from /\ pc' \in [Workers -> Stations] /\ pc'[w] = to
         /\ \A v \in Workers : v # w => pc'[v] = pc[v]
  BY DEF At, Sound, Typed

\* After a completion a worker waits for the next one or leaves its loop.
LEMMA TopIs == Top \in {"wait", "exit"}
  BY DEF Top

\* A worker takes a completion: of the serial executions, when no other has one.
LEMMA DequeueSound ==
  ASSUME PortAssumption, Sound, ub = "none", ~excused', NEW w \in Workers, Dequeue(w),
         UNCHANGED main
  PROVE  ub' = "none" /\ Sound'
<1>1. main # "clear" /\ \A v \in Workers : pc[v] \notin Inside
  BY DEF Dequeue
<1>2. /\ pc[w] = "wait" /\ pc' \in [Workers -> Stations] /\ pc'[w] = "handle"
      /\ \A v \in Workers : v # w => pc'[v] = pc[v]
  BY Moves DEF Dequeue, Stations, Inside
<1>3. /\ queue # <<>> /\ got' = [got EXCEPT ![w] = Head(queue)] /\ queue' = Tail(queue)
      /\ UNCHANGED <<client, owner, ops, clntSocketVec, inVec, contexts, ub>>
  BY DEF Dequeue, clientVars
<1>4. /\ queue \in Seq(Dones) /\ Head(queue) = queue[1] /\ 1 \in DOMAIN queue
      /\ queue' \in Seq(Dones) /\ queue[1] \in Dones
      /\ \A i \in DOMAIN queue' :
           i + 1 \in DOMAIN queue /\ i \in Nat \ {0} /\ queue'[i] = queue[i + 1]
  <2>1. queue \in Seq(Dones) /\ queue # <<>>
    BY <1>3 DEF Sound, Typed
  <2> QED
    BY <1>3, <2>1
<1>5. got' \in [Workers -> Dones \cup {Idle}] /\ got'[w] = queue[1]
      /\ \A v \in Workers : v # w => got'[v] = got[v]
  BY <1>3, <1>4 DEF Sound, Typed
<1>6. Typed'
  BY <1>2, <1>3, <1>4, <1>5 DEF Sound, Typed
<1>7. Alone'
  <2>1. {v \in Workers : pc'[v] \in {"push", "erase"}} = {v \in Workers : pc[v] \in {"push", "erase"}}
    BY <1>2
  <2>2. main' # "clear" /\ main' = main
    BY <1>1
  <2>3. \A v \in Workers : pc'[v] \in Inside => v = w
    BY <1>1, <1>2
  <2> QED
    BY <1>3, <2>1, <2>2, <2>3 DEF Sound, Alone
<1>8. Owned'
  BY <1>3, OwnedKept DEF Sound
<1>9. \A c \in Clients : ~Closing(c)
  BY <1>1 DEF Closing, Inside
<1>10. ASSUME NEW x \in Dones, Backed(x) PROVE Backed(x)'
  BY <1>3, <1>9, <1>10 DEF Backed, InVector
<1>11. \A i \in DOMAIN queue : queue[i] \in Dones /\ Backed(queue[i])
  BY <1>4, ElementOfSeq, LenProperties DEF Sound, Waiting
<1>12. Waiting'
  <2> SUFFICES ASSUME NEW i \in DOMAIN queue' PROVE Backed(queue[i])'
    BY DEF Waiting
  <2>1. queue[i + 1] \in Dones /\ Backed(queue[i + 1]) /\ queue'[i] = queue[i + 1]
    BY <1>4, <1>11
  <2> QED
    BY <1>3, <1>9, <2>1 DEF Backed, InVector
<1>13. InHand'
  <2>1. got'[w] \in Dones /\ Backed(got[w])'
    <3>1. queue[1] \in Dones /\ Backed(queue[1]) /\ got'[w] = queue[1]
      BY <1>4, <1>5, <1>11
    <3> QED
      BY <1>3, <1>9, <3>1 DEF Backed, InVector
  <2>2. ASSUME NEW v \in Workers, v # w PROVE pc'[v] \notin Inside /\ got'[v] = Idle
    BY <1>1, <1>2, <1>5, <2>2 DEF Sound, InHand
  <2> QED
    BY <1>2, <2>1, <2>2 DEF InHand, Inside
<1>14. OneToken'
  <2>1. ASSUME NEW i \in DOMAIN queue', NEW j \in DOMAIN queue', Token(queue'[i], queue'[j])
        PROVE  i = j
    <3>1. i + 1 = j + 1
      BY <1>4, <2>1 DEF Sound, OneToken
    <3> QED
      BY <1>4, <3>1
  <2>2. ASSUME NEW i \in DOMAIN queue', NEW o \in ops' PROVE ~Token(queue'[i], o)
    BY <1>3, <1>4 DEF Sound, OneToken
  <2>3. ASSUME NEW v \in Workers, pc'[v] \in Inside
        PROVE  /\ \A o \in ops' : ~Token(got'[v], o)
               /\ \A i \in DOMAIN queue' : ~Token(got'[v], queue'[i])
    <3>1. v = w /\ got'[v] = queue[1]
      BY <1>1, <1>2, <1>5, <2>3
    <3>2. ASSUME NEW i \in DOMAIN queue' PROVE ~Token(queue[1], queue'[i])
      <4>1. i + 1 \in DOMAIN queue /\ 1 # i + 1 /\ queue'[i] = queue[i + 1]
        BY <1>4
      <4> QED
        BY <1>4, <4>1 DEF Sound, OneToken
    <3> QED
      BY <1>3, <1>4, <3>1, <3>2 DEF Sound, OneToken
  <2> QED
    BY <2>1, <2>2, <2>3 DEF OneToken, Token
<1> QED
  BY <1>3, <1>6, <1>7, <1>8, <1>12, <1>13, <1>14 DEF Sound

\* A worker enters the vector, before push_back and before erase.
LEMMA EnterSound ==
  ASSUME PortAssumption, Sound, ub = "none", ~excused', NEW w \in Workers,
         AcceptPush(w) \/ EraseBegin(w), UNCHANGED main
  PROVE  ub' = "none" /\ Sound'
<1>1. PICK from \in {"handle", "closed"}, to \in {"push", "erase"} :
        /\ At(w, from, to) /\ EnterVec(w)
        /\ from = "handle" => to = "push" /\ got[w].kind = "accept"
        /\ from = "closed" => to = "erase"
        /\ UNCHANGED <<client, owner, ops, queue, got, clntSocketVec, contexts>>
  BY DEF AcceptPush, EraseBegin, clientVars
<1>2. /\ pc[w] = from /\ pc' \in [Workers -> Stations] /\ pc'[w] = to
      /\ \A v \in Workers : v # w => pc'[v] = pc[v]
  BY <1>1, Moves DEF Stations, Inside
<1>3. pc[w] \in Inside /\ pc'[w] \in Inside
  BY <1>2 DEF Inside
<1>4. /\ \A v \in Workers : v # w => pc[v] \notin Inside /\ got[v] = Idle
      /\ main # "clear" /\ inVec = {} /\ got[w] \in Dones /\ Backed(got[w])
      /\ from = "handle" => owner[got[w].h] = got[w].c
  BY <1>2, <1>3, Lone
<1>5. ub' = "none" /\ inVec' = {w}
  BY <1>1, <1>4 DEF EnterVec
<1>6. Typed'
  BY <1>1, <1>2 DEF Sound, Typed
<1>7. Alone'
  <2>1. {v \in Workers : pc'[v] \in {"push", "erase"}} = {w}
    BY <1>2, <1>4 DEF Inside
  <2>2. \A v \in Workers : pc'[v] \in Inside => v = w
    BY <1>2, <1>4
  <2> QED
    BY <1>4, <1>5, <2>1, <2>2 DEF Alone
<1>8. Owned'
  BY <1>1, OwnedKept DEF Sound
<1>9. \A c \in Clients : Closing(c) => Closing(c)'
  BY <1>1, <1>2, <1>4 DEF Closing, Inside
<1>10. Waiting'
  <2>1. Posts({})
    BY <1>1, PostsNone DEF Sound
  <2> QED
    BY <1>1, <1>9, <2>1, WaitingKept DEF Sound
<1>11. InHand'
  <2>1. Backed(got[w])'
    BY <1>1, <1>4, <1>9 DEF Backed, InVector
  <2>2. ASSUME NEW v \in Workers, v # w PROVE pc'[v] \notin Inside /\ got'[v] = Idle
    BY <1>1, <1>2, <1>4, <2>2
  <2>3. to = "erase" => got[w].kind = "read" /\ owner[got[w].h] = Free
    BY <1>1, <1>2, <1>3 DEF Sound, InHand
  <2> QED
    BY <1>1, <1>2, <1>3, <1>4, <2>1, <2>2, <2>3 DEF InHand
<1>12. OneToken'
  <2>1. Posts({}) /\ ops' \subseteq ops \ {}
    BY <1>1, PostsNone DEF Sound
  <2>2. \A v \in Workers : pc'[v] \in Inside => pc[v] \in Inside /\ got'[v] = got[v]
    BY <1>1, <1>2, <1>3
  <2> QED
    BY <2>1, <2>2, TokenKept DEF Sound
<1> QED
  BY <1>5, <1>6, <1>7, <1>8, <1>10, <1>11, <1>12 DEF Sound

\* A worker that has handled its completion leaves the others where they are.
LEMMA Leaves ==
  ASSUME PortAssumption, Sound, NEW w \in Workers, pc[w] \in Inside,
         NEW to \in {"wait", "exit"}, Handled(w, pc[w], to), UNCHANGED main,
         inVec' = inVec \ {w} \/ (pc[w] \notin {"push", "erase"} /\ inVec' = inVec)
  PROVE  /\ pc' \in [Workers -> Stations] /\ got' \in [Workers -> Dones \cup {Idle}]
         /\ \A v \in Workers : pc'[v] \notin Inside
         /\ \A c \in Clients : ~Closing(c)'
         /\ Alone' /\ InHand'
<1>1. /\ pc' \in [Workers -> Stations] /\ pc'[w] = to
      /\ \A v \in Workers : v # w => pc'[v] = pc[v]
  BY Moves DEF Handled, Stations
<1>2. /\ got' \in [Workers -> Dones \cup {Idle}] /\ got'[w] = Idle
      /\ \A v \in Workers : v # w => got'[v] = got[v]
  BY DEF Handled, Sound, Typed
<1>3. /\ \A v \in Workers : v # w => pc[v] \notin Inside /\ got[v] = Idle
      /\ main # "clear" /\ (pc[w] \notin {"push", "erase"} => inVec = {})
  BY Lone
<1>4. \A v \in Workers : pc'[v] \notin Inside /\ got'[v] = Idle
  BY <1>1, <1>2, <1>3 DEF Inside
<1>5. \A c \in Clients : ~Closing(c)'
  BY <1>4 DEF Closing, Inside
<1>6. inVec' = {}
  <2>1. inVec \subseteq {w}
    BY <1>3 DEF Sound, Alone, Inside
  <2> QED
    BY <1>3, <2>1
<1>7. Alone'
  <2>1. {v \in Workers : pc'[v] \in {"push", "erase"}} = {}
    BY <1>4 DEF Inside
  <2> QED
    BY <1>3, <1>4, <1>6, <2>1 DEF Alone
<1>8. InHand'
  BY <1>4 DEF InHand
<1> QED
  BY <1>1, <1>2, <1>4, <1>5, <1>7, <1>8

\* The end of an answer changes nothing.
LEMMA WriteSound ==
  ASSUME PortAssumption, Sound, ub = "none", ~excused', NEW w \in Workers, Write(w),
         UNCHANGED main
  PROVE  ub' = "none" /\ Sound'
<1>1. /\ pc[w] = "handle" /\ Handled(w, pc[w], Top)
      /\ UNCHANGED <<client, owner, ops, queue, clntSocketVec, inVec, contexts, ub>>
  BY DEF Write, Handled, At, clientVars
<1>2. pc[w] \in Inside /\ pc[w] \notin {"push", "erase"}
  BY <1>1 DEF Inside
<1>3. /\ pc' \in [Workers -> Stations] /\ got' \in [Workers -> Dones \cup {Idle}]
      /\ \A v \in Workers : pc'[v] \notin Inside
      /\ Alone' /\ InHand'
  BY <1>1, <1>2, Leaves, TopIs
<1>4. \A c \in Clients : ~Closing(c)
  BY <1>1, <1>2, Lone
<1>5. Posts({}) /\ ops' \subseteq ops \ {}
  BY <1>1, PostsNone DEF Sound
<1>6. Typed'
  BY <1>1, <1>3 DEF Sound, Typed
<1>7. Owned' /\ Waiting' /\ OneToken'
  BY <1>1, <1>3, <1>4, <1>5, OwnedKept, WaitingKept, TokenKept DEF Sound
<1> QED
  BY <1>1, <1>3, <1>6, <1>7 DEF Sound

\* The operations posted by a worker for the connection whose token it holds.
LEMMA TokenGiven ==
  ASSUME PortAssumption, Sound, NEW w \in Workers, pc[w] \in Inside, UNCHANGED queue,
         got[w].kind # "write", NEW A, ops' \subseteq ops \cup A,
         \A op \in A : op.c = got[w].c \/ op.c \notin Clients,
         \A v \in Workers : pc'[v] \notin Inside
  PROVE  OneToken'
<1>1. \A i \in DOMAIN queue : ~Token(got[w], queue[i]) /\ queue[i].c \in Clients
  BY DEF Sound, OneToken, Waiting, Backed
<1>2. ASSUME NEW i \in DOMAIN queue', NEW o \in ops' PROVE ~Token(queue'[i], o)
  <2>1. CASE o \in ops
    BY <2>1 DEF Sound, OneToken
  <2>2. CASE o \in A
    BY <1>1, <2>2 DEF Token
  <2> QED
    BY <2>1, <2>2
<1> QED
  BY <1>2 DEF Sound, OneToken, Token

\* Two operations are finitely many.
LEMMA PairIsFinite ==
  ASSUME NEW a, NEW b
  PROVE  IsFiniteSet({a, b})
<1>1. IsFiniteSet({} \cup {a})
  BY FS_EmptySet, FS_AddElement
<1>2. IsFiniteSet(({} \cup {a}) \cup {b})
  BY <1>1, FS_AddElement
<1>3. ({} \cup {a}) \cup {b} = {a, b}
  OBVIOUS
<1> QED
  BY <1>2, <1>3

\* The answer is sent and the read armed again on a socket that is still open.
LEMMA ReadSound ==
  ASSUME PortAssumption, Sound, ub = "none", ~excused', NEW w \in Workers, Read(w),
         UNCHANGED main
  PROVE  ub' = "none" /\ Sound'
<1> DEFINE h == got[w].h
           c == got[w].c
           Both == {Op("read", h, c), Op("write", h, c)}
<1>1. /\ pc[w] = "handle" /\ Handled(w, pc[w], Top) /\ got[w].kind = "read"
      /\ UNCHANGED <<client, owner, queue, clntSocketVec, inVec, contexts>>
  BY DEF Read, Handled, At, clientVars
<1>2. pc[w] \in Inside /\ pc[w] \notin {"push", "erase"}
  BY <1>1 DEF Inside
<1>3. /\ pc' \in [Workers -> Stations] /\ got' \in [Workers -> Dones \cup {Idle}]
      /\ \A v \in Workers : pc'[v] \notin Inside
      /\ Alone' /\ InHand'
  BY <1>1, <1>2, Leaves, TopIs
<1>4. /\ \A d \in Clients : ~Closing(d)
      /\ c \in Clients /\ h \in Handles /\ owner[h] = c /\ Backed(got[w])
  BY <1>1, <1>2, Lone
<1>5. c \in contexts /\ InVector(h)
  BY <1>1, <1>4 DEF Backed
<1>6. PICK A \in SUBSET Both : ub' = "none" /\ ops' = ops \cup A
  BY <1>4, <1>5 DEF Read, Posted
<1>7. A \subseteq Ops /\ \A op \in A : op.h = h /\ op.c = c /\ op.kind \in {"read", "write"}
  BY <1>4 DEF Op, Ops, Kinds, SocketKeys
<1> HIDE DEF Both
<1>8. Typed'
  <2>1. IsFiniteSet(ops')
    <3>1. IsFiniteSet(Both)
      BY PairIsFinite DEF Both
    <3>2. IsFiniteSet(A)
      BY <3>1, FS_Subset
    <3> QED
      BY <1>6, <3>2, FS_Union DEF Sound, Typed
  <2> QED
    BY <1>1, <1>3, <1>6, <1>7, <2>1 DEF Sound, Typed
<1>9. Owned'
  <2>1. ASSUME NEW op \in ops' PROVE Operation(op)'
    <3>1. Operation(op)
      BY <1>4, <1>5, <1>6, <1>7 DEF Sound, Owned, Operation
    <3> QED
      BY <1>1, <3>1 DEF Operation, InVector
  <2> QED
    BY <1>1, <2>1 DEF Sound, Owned
<1>10. Waiting'
  <2>1. Posts({})
    BY <1>1, PostsNone DEF Sound
  <2> QED
    BY <1>1, <1>4, <2>1, WaitingKept DEF Sound
<1>11. OneToken'
  BY <1>1, <1>2, <1>3, <1>6, <1>7, TokenGiven
<1> QED
  BY <1>3, <1>6, <1>8, <1>9, <1>10, <1>11 DEF Sound

\* A new connection gets its context, its place in the vector and its first read.
LEMMA AcceptSound ==
  ASSUME PortAssumption, Sound, ub = "none", ~excused', NEW w \in Workers, Accept(w),
         UNCHANGED main
  PROVE  ub' = "none" /\ Sound'
<1>0. PICK h, c : h = got[w].h /\ c = got[w].c
  OBVIOUS
<1>1. /\ pc[w] = "push" /\ Handled(w, pc[w], Top) /\ inVec' = inVec \ {w}
      /\ clntSocketVec' = Append(clntSocketVec, h) /\ contexts' = contexts \cup {c}
      /\ UNCHANGED <<client, queue>>
  BY <1>0 DEF Accept, Handled, At, clientVars
<1>2. pc[w] \in Inside
  BY <1>1 DEF Inside
<1>3. /\ pc' \in [Workers -> Stations] /\ got' \in [Workers -> Dones \cup {Idle}]
      /\ \A v \in Workers : pc'[v] \notin Inside
      /\ Alone' /\ InHand'
  BY <1>1, <1>2, Leaves, TopIs
<1>4. /\ \A v \in Workers : v # w => pc[v] \notin Inside
      /\ got[w] \in Dones /\ Backed(got[w]) /\ c \in Clients /\ h \in Handles
  BY <1>0, <1>2, Lone
<1>5. got[w].kind = "accept" /\ c \notin contexts /\ owner[h] = c
  BY <1>0, <1>1, <1>2, <1>4 DEF Sound, InHand, Backed
<1>6. \A d \in Clients : ~Closing(d)
  BY <1>1, <1>4 DEF Closing, Inside
<1>7. PICK new \in Handles, armed \in SUBSET {Op("read", h, c)} :
        /\ owner[new] = Free /\ owner' = [owner EXCEPT ![new] = Listen]
        /\ ops' = ops \cup {Op("accept", new, Listen)} \cup armed
        /\ ub' = "none"
  BY <1>0, <1>4, <1>5 DEF Accept, Posted
<1> DEFINE Both == {Op("accept", new, Listen), Op("read", h, c)}
           A == {Op("accept", new, Listen)} \cup armed
<1>8. ops' = ops \cup A /\ A \subseteq Both
  BY <1>7
<1>9. A \subseteq Ops /\ \A op \in A : op.c = c \/ op.c \notin Clients
  BY <1>4 DEF Op, Ops, Kinds, SocketKeys, PortAssumption
<1>10. /\ owner \in [Handles -> Clients \cup {Listen, Free}] /\ Listen \notin Clients
       /\ Free \notin Clients /\ Free # Listen
       /\ owner' \in [Handles -> Clients \cup {Listen, Free}] /\ owner'[new] = Listen
       /\ \A g \in Handles : g # new => owner'[g] = owner[g]
  BY <1>7 DEF Sound, Typed, PortAssumption
<1>11. /\ clntSocketVec' \in Seq(Handles) /\ \A g : InVector(g) => InVector(g)'
       /\ InVector(h)'
  <2>1. /\ clntSocketVec' \in Seq(Handles)
        /\ \A i \in DOMAIN clntSocketVec : i \in DOMAIN clntSocketVec' /\ clntSocketVec'[i] = clntSocketVec[i]
        /\ Len(clntSocketVec) + 1 \in DOMAIN clntSocketVec'
        /\ clntSocketVec'[Len(clntSocketVec) + 1] = h
    BY <1>1, <1>4 DEF Sound, Typed
  <2> QED
    BY <2>1 DEF InVector
<1>12. Typed'
  <2>1. IsFiniteSet(ops')
    <3>1. IsFiniteSet(Both)
      BY PairIsFinite
    <3>2. IsFiniteSet(A)
      BY <1>8, <3>1, FS_Subset
    <3> QED
      BY <1>8, <3>2, FS_Union DEF Sound, Typed
  <2> QED
    BY <1>1, <1>3, <1>4, <1>8, <1>9, <1>10, <1>11, <2>1 DEF Sound, Typed
<1>13. Owned'
  <2>1. ASSUME NEW op \in ops' PROVE Operation(op)'
    <3>1. CASE op \in ops
      <4>1. op \in Ops /\ op.h \in Handles /\ Operation(op)
        BY <3>1 DEF Sound, Typed, Owned, Ops
      <4>2. owner[op.h] # Free
        BY <1>10, <4>1 DEF Operation, Sound, Typed
      <4>3. owner'[op.h] = owner[op.h]
        BY <1>7, <1>10, <4>1, <4>2
      <4> QED
        BY <1>1, <1>11, <4>1, <4>3 DEF Operation
    <3>2. CASE op = Op("accept", new, Listen)
      BY <1>10, <3>2 DEF Op, Operation
    <3>3. CASE op = Op("read", h, c)
      <4>1. owner'[h] = c
        BY <1>4, <1>5, <1>7, <1>10
      <4> QED
        BY <1>1, <1>11, <3>3, <4>1 DEF Op, Operation
    <3> QED
      BY <1>8, <3>1, <3>2, <3>3
  <2>2. ASSUME NEW f \in Handles, NEW g \in Handles, owner'[f] = owner'[g], owner'[f] \in Clients
        PROVE  f = g
    BY <1>10, <2>2 DEF Sound, Owned
  <2>3. ASSUME NEW d \in Clients, client'[d] \in {"idle", "backlog"}
        PROVE  d \notin contexts' /\ \A g \in Handles : owner'[g] # d
    BY <1>1, <1>4, <1>5, <1>10, <2>3 DEF Sound, Owned
  <2> QED
    BY <2>1, <2>2, <2>3 DEF Owned
<1>14. Waiting'
  <2> SUFFICES ASSUME NEW i \in DOMAIN queue' PROVE Backed(queue[i])'
    BY DEF Waiting
  <2>1. queue[i] \in Dones /\ Backed(queue[i]) /\ queue'[i] = queue[i] /\ i \in DOMAIN queue
    BY <1>1, ElementOfSeq, LenProperties DEF Sound, Typed, Waiting
  <2>2. queue[i].h \in Handles /\ owner[queue[i].h] = queue[i].c /\ queue[i].c \in Clients
    BY <1>6, <2>1 DEF Backed, Dones
  <2>3. owner'[queue[i].h] = queue[i].c
    BY <1>7, <1>10, <2>2
  <2>4. queue[i].kind = "accept" => queue[i].c # c
    BY <1>0, <1>2, <1>5, <2>1 DEF Sound, OneToken, Token
  <2> QED
    BY <1>1, <1>11, <2>1, <2>3, <2>4 DEF Backed
<1>15. OneToken'
  <2> HIDE DEF A
  <2>1. /\ UNCHANGED queue /\ got[w].kind # "write" /\ ops' \subseteq ops \cup A
        /\ \A op \in A : op.c = got[w].c \/ op.c \notin Clients
    BY <1>0, <1>1, <1>5, <1>8, <1>9
  <2> QED
    BY <1>2, <1>3, <2>1, TokenGiven
<1> QED
  BY <1>3, <1>7, <1>12, <1>13, <1>14, <1>15 DEF Sound

\* A worker closes the handle of its completion: the client left, or an operation
\* failed.  Everything in progress on the handle belongs to the connection.
LEMMA CloseSound ==
  ASSUME PortAssumption, Sound, ub = "none", ~excused', NEW w \in Workers,
         ReadEnd(w) \/ Failed(w), UNCHANGED main
  PROVE  ub' = "none" /\ Sound'
<1>1. pc[w] = "handle" /\ pc[w] \in Inside
  BY DEF ReadEnd, Failed, At, Inside
<1>2. PICK h, c : h = got[w].h /\ c = got[w].c
  OBVIOUS
<1>3. /\ \A v \in Workers : v # w => pc[v] \notin Inside /\ got[v] = Idle
      /\ main # "clear" /\ got[w] \in Dones /\ Backed(got[w])
      /\ c \in Clients /\ h \in Handles /\ owner[h] = c
      /\ \A d \in Clients : ~Closing(d)
      /\ inVec = {}
  BY <1>1, <1>2, Lone
<1>4. PICK to \in {"closed", "delete"} :
        /\ At(w, "handle", to) /\ closesocket(h, c) /\ got[w].kind # "accept"
        /\ c \in contexts /\ (to = "closed" => got[w].kind = "read")
        /\ UNCHANGED <<client, got, clntSocketVec, inVec, contexts>>
  <2>1. CASE ReadEnd(w)
    BY <1>2, <1>3, <2>1 DEF ReadEnd, clientVars, Backed
  <2>2. CASE Failed(w)
    BY <1>2, <1>3, <2>2 DEF Failed, clientVars, Backed
  <2> QED
    BY <2>1, <2>2
<1>5. /\ pc' \in [Workers -> Stations] /\ pc'[w] = to
      /\ \A v \in Workers : v # w => pc'[v] = pc[v]
  BY <1>4, Moves DEF Stations, Inside
<1> DEFINE R == {op \in ops : op.h \in {h}}
<1>6. /\ ops' = {op \in ops : op.h \notin {h}} /\ Posts(R) /\ ub' = "none"
      /\ owner' = [g \in Handles |-> IF g \in {h} THEN Free ELSE owner[g]]
  BY <1>3, <1>4, Closes DEF closesocket, Sound
<1>7. /\ owner \in [Handles -> Clients \cup {Listen, Free}] /\ Listen \notin Clients
      /\ Free \notin Clients /\ Free # Listen
      /\ owner' \in [Handles -> Clients \cup {Listen, Free}] /\ owner'[h] = Free
      /\ \A g \in Handles : g # h => owner'[g] = owner[g]
  BY <1>3, <1>6 DEF Sound, Typed, PortAssumption
<1>8. \A op \in R : op.kind # "accept" /\ op.h = h /\ op.c = c /\ Operation(op)
  <2> SUFFICES ASSUME NEW op \in R
               PROVE  op.kind # "accept" /\ op.h = h /\ op.c = c /\ Operation(op)
    OBVIOUS
  <2>1. op.h = h /\ Operation(op)
    BY DEF Sound, Owned
  <2> QED
    BY <1>3, <1>7, <2>1 DEF Operation
<1>9. R \in SUBSET ops /\ ops' \subseteq ops \ R
  BY <1>6
<1> HIDE DEF R
<1>10. Closing(c)'
  BY <1>2, <1>4, <1>5 DEF Closing
<1>11. Typed'
  <2>1. IsFiniteSet(ops') /\ ops' \subseteq Ops
    BY <1>9, FS_Subset DEF Sound, Typed
  <2> QED
    BY <1>4, <1>5, <1>6, <1>7, <2>1 DEF Sound, Typed, Posts
<1>12. Alone'
  <2>1. {v \in Workers : pc'[v] \in {"push", "erase"}} = {}
    BY <1>3, <1>5 DEF Inside
  <2>2. \A v \in Workers : pc'[v] \in Inside => v = w
    BY <1>3, <1>5
  <2> QED
    BY <1>3, <1>4, <2>1, <2>2 DEF Alone
<1>13. Owned'
  <2>1. ASSUME NEW op \in ops' PROVE Operation(op)'
    <3>1. op \in ops /\ op.h # h /\ op.h \in Handles /\ Operation(op)
      BY <1>6 DEF Sound, Typed, Owned, Ops
    <3> QED
      BY <1>4, <1>7, <3>1 DEF Operation, InVector
  <2>2. ASSUME NEW f \in Handles, NEW g \in Handles, owner'[f] = owner'[g], owner'[f] \in Clients
        PROVE  f = g
    BY <1>7, <2>2 DEF Sound, Owned
  <2>3. ASSUME NEW d \in Clients, client'[d] \in {"idle", "backlog"}
        PROVE  d \notin contexts' /\ \A g \in Handles : owner'[g] # d
    BY <1>4, <1>7, <2>3 DEF Sound, Owned
  <2> QED
    BY <2>1, <2>2, <2>3 DEF Owned
<1>14. Waiting'
  <2> SUFFICES ASSUME NEW i \in DOMAIN queue' PROVE Backed(queue[i])'
    BY DEF Waiting
  <2>1. CASE i \in DOMAIN queue /\ queue'[i] = queue[i]
    <3>1. queue[i] \in Dones /\ Backed(queue[i])
      BY <2>1, ElementOfSeq, LenProperties DEF Sound, Typed, Waiting
    <3>2. queue[i].h \in Handles /\ owner[queue[i].h] = queue[i].c /\ queue[i].c \in Clients
      BY <1>3, <3>1 DEF Backed, Dones
    <3>3. CASE queue[i].h = h
      BY <1>3, <1>4, <1>7, <1>10, <2>1, <3>1, <3>2, <3>3 DEF Backed, InVector
    <3>4. CASE queue[i].h # h
      BY <1>4, <1>7, <2>1, <3>1, <3>2, <3>4 DEF Backed, InVector
    <3> QED
      BY <3>3, <3>4
  <2>2. CASE \E op \in R : Same(queue'[i], op)
    <3>1. PICK op \in R : Same(queue'[i], op)
      BY <2>2
    <3>2. op.kind # "accept" /\ op.h = h /\ op.c = c /\ Operation(op)
      BY <1>8
    <3> QED
      BY <1>3, <1>4, <1>7, <1>10, <3>1, <3>2 DEF Backed, Operation, InVector, Same
  <2> QED
    BY <1>6, <2>1, <2>2 DEF Posts
<1>15. InHand'
  <2>1. Backed(got[w])'
    BY <1>2, <1>3, <1>4, <1>7, <1>10 DEF Backed, InVector
  <2>2. ASSUME NEW v \in Workers, v # w PROVE pc'[v] \notin Inside /\ got'[v] = Idle
    BY <1>3, <1>4, <1>5, <2>2
  <2> QED
    BY <1>2, <1>3, <1>4, <1>5, <1>7, <2>1, <2>2 DEF InHand, Inside
<1>16. OneToken'
  <2>1. \A v \in Workers : pc'[v] \in Inside => pc[v] \in Inside /\ got'[v] = got[v]
    BY <1>1, <1>4, <1>5
  <2> QED
    BY <1>6, <1>8, <1>9, <2>1, TokenKept DEF Sound
<1> QED
  BY <1>6, <1>11, <1>12, <1>13, <1>14, <1>15, <1>16 DEF Sound

\* A worker deletes the context of the read it holds; nothing else refers to it.
LEMMA DeleteSound ==
  ASSUME PortAssumption, Sound, ub = "none", ~excused', NEW w \in Workers,
         Erase(w) \/ FailedDelete(w), UNCHANGED main
  PROVE  ub' = "none" /\ Sound'
<1>1. pc[w] \in {"erase", "delete"} /\ pc[w] \in Inside
  BY DEF Erase, FailedDelete, Handled, At, Inside
<1>2. PICK h, c : h = got[w].h /\ c = got[w].c
  OBVIOUS
<1>3. /\ got[w] \in Dones /\ Backed(got[w])
      /\ c \in Clients /\ h \in Handles /\ \A d \in Clients : Closing(d) => d = c
  BY <1>1, <1>2, Lone
<1>4. owner[h] = Free /\ got[w].kind # "accept" /\ c \in contexts
  BY <1>1, <1>2, <1>3 DEF Sound, InHand, Backed
<1>5. /\ DeleteContext(w)
      /\ Erase(w) => clntSocketVec' = RemoveFirst(clntSocketVec, h)
      /\ FailedDelete(w) => UNCHANGED clntSocketVec
      /\ UNCHANGED client
  <2>1. CASE Erase(w)
    <3>1. got[w].kind = "read"
      BY <2>1 DEF Erase, Handled, At, Sound, InHand, Inside
    <3>2. got[w].c \in contexts /\ \E i \in DOMAIN clntSocketVec : clntSocketVec[i] = got[w].h
      BY <1>3, <3>1 DEF Backed, InVector
    <3>3. ~FailedDelete(w)
      BY <2>1 DEF Erase, FailedDelete, Handled, At
    <3> QED
      BY <1>2, <2>1, <3>2, <3>3 DEF Erase, clientVars
  <2>2. CASE FailedDelete(w)
    <3>1. ~Erase(w)
      BY <2>2 DEF Erase, FailedDelete, Handled, At
    <3> QED
      BY <2>2, <3>1 DEF FailedDelete, clientVars
  <2> QED
    BY <2>1, <2>2
<1>6. /\ contexts' = contexts \ {c} /\ closesocket(h, c) /\ got[w].kind # "write"
      /\ \A op \in ops : ~(op.c = c /\ op.kind = "write")
      /\ \A i \in DOMAIN queue : ~(queue[i].c = c /\ queue[i].kind = "write")
  BY <1>2, <1>5 DEF DeleteContext
<1>7. PICK to \in {"wait", "exit"} : Handled(w, pc[w], to)
  BY TopIs DEF Erase, FailedDelete, Handled, At
<1>8. /\ pc' \in [Workers -> Stations] /\ got' \in [Workers -> Dones \cup {Idle}]
      /\ \A v \in Workers : pc'[v] \notin Inside
      /\ Alone' /\ InHand'
  <2>1. inVec' = inVec \ {w} \/ (pc[w] \notin {"push", "erase"} /\ inVec' = inVec)
    BY DEF Erase, FailedDelete, Handled, At
  <2> QED
    BY <1>1, <1>7, <2>1, Leaves
<1>9. /\ ops' = {op \in ops : op.h \notin {h}} /\ Posts({op \in ops : op.h \in {h}})
      /\ owner' = [g \in Handles |-> IF g \in {h} THEN Free ELSE owner[g]] /\ ub' = "none"
  BY <1>4, <1>6, Closes DEF closesocket, Sound
<1>10. \A op \in ops : op.h # h
  BY <1>4 DEF Sound, Typed, Owned, Operation, PortAssumption
<1>11. ops' = ops /\ Posts({}) /\ owner' = owner
  <2>1. {op \in ops : op.h \in {h}} = {}
    BY <1>10
  <2> QED
    BY <1>4, <1>9, <1>10, <2>1 DEF Sound, Typed
<1>12. clntSocketVec' \in Seq(Handles) /\ \A g \in Handles : g # h /\ InVector(g) => InVector(g)'
  <2>1. CASE Erase(w)
    BY <1>3, <1>5, <2>1, RemoveFirstKeeps DEF Sound, Typed, InVector
  <2>2. CASE FailedDelete(w)
    BY <1>5, <2>2 DEF Sound, Typed, InVector
  <2> QED
    BY <2>1, <2>2
<1>13. Typed'
  BY <1>5, <1>6, <1>8, <1>11, <1>12 DEF Sound, Typed, Posts
<1>14. \A i \in DOMAIN queue : queue[i].c # c
  <2>1. ASSUME NEW i \in DOMAIN queue, queue[i].c = c PROVE FALSE
    BY <1>1, <1>2, <1>4, <1>6, <2>1 DEF Sound, OneToken, Token
  <2> QED
    BY <2>1
<1>15. \A op \in ops : op.c # c
  <2>1. ASSUME NEW op \in ops, op.c = c PROVE FALSE
    BY <1>1, <1>2, <1>3, <1>4, <1>6, <2>1 DEF Sound, OneToken, Token, Owned, Operation, PortAssumption
  <2> QED
    BY <2>1
<1>16. Owned'
  <2>1. ASSUME NEW op \in ops' PROVE Operation(op)'
    <3>1. op \in ops /\ op.h # h /\ op.c # c /\ op.h \in Handles /\ Operation(op)
      BY <1>10, <1>11, <1>15 DEF Sound, Typed, Owned, Ops
    <3> QED
      BY <1>6, <1>11, <1>12, <3>1 DEF Operation
  <2> QED
    BY <1>5, <1>6, <1>11, <2>1 DEF Sound, Owned
<1>17. Waiting'
  <2> SUFFICES ASSUME NEW i \in DOMAIN queue' PROVE Backed(queue[i])'
    BY DEF Waiting
  <2>1. i \in DOMAIN queue /\ queue'[i] = queue[i]
    BY <1>11 DEF Posts
  <2>2. queue[i] \in Dones /\ Backed(queue[i]) /\ queue[i].c # c
    BY <1>14, <2>1, ElementOfSeq, LenProperties DEF Sound, Typed, Waiting
  <2>3. queue[i].h \in Handles /\ owner[queue[i].h] = queue[i].c /\ queue[i].c \in Clients
    BY <1>3, <2>2 DEF Backed, Dones
  <2>4. queue[i].h # h
    BY <1>4, <2>3 DEF PortAssumption
  <2> QED
    BY <1>6, <1>11, <1>12, <2>1, <2>2, <2>3, <2>4 DEF Backed
<1>18. OneToken'
  BY <1>8, <1>11, TokenKept DEF Sound
<1> QED
  BY <1>8, <1>9, <1>13, <1>16, <1>17, <1>18 DEF Sound

\* close() touches the vector while no worker does.
LEMMA MainSound ==
  ASSUME PortAssumption, Sound, ub = "none", ~excused', ClearBegin \/ Close
  PROVE  ub' = "none" /\ Sound'
<1>1. /\ UNCHANGED <<client, pc, got, contexts>> /\ ub' = "none"
      /\ main' \in {"run", "clear", "sleep", "join", "closed"}
      /\ UNCHANGED <<ops, owner, clntSocketVec>> /\ Posts({}) /\ Alone'
  <2>1. CASE ClearBegin
    <3>1. \A w \in Workers : pc[w] \notin Inside
      BY <2>1 DEF ClearBegin
    <3>2. inVec = {} /\ {w \in Workers : pc[w] \in {"push", "erase"}} = {}
      BY <2>1, <3>1 DEF ClearBegin, Sound, Alone, Inside
    <3>3. /\ UNCHANGED <<client, pc, got, contexts, ops, owner, clntSocketVec, queue>>
          /\ main' = "clear" /\ inVec' = {"main"} /\ ub' = "none"
      BY <2>1, <3>2 DEF ClearBegin, EnterVec, clientVars
    <3>4. Alone'
      BY <3>1, <3>2, <3>3 DEF Alone
    <3> QED
      BY <3>3, <3>4, PostsNone DEF Sound
  <2>2. CASE clearConnected
    <3>1. /\ main = "clear" /\ main' = "sleep" /\ clntSocketVec = <<>> /\ clntSocketVec' = <<>>
          /\ UNCHANGED <<client, pc, got, contexts, ub>> /\ inVec' = inVec \ {"main"}
          /\ CloseAll(ToSet(clntSocketVec))
      BY <2>2 DEF clearConnected, clientVars
    <3>2. \A w \in Workers : pc[w] \notin Inside
      BY <3>1 DEF Sound, Alone
    <3>3. {w \in Workers : pc[w] \in {"push", "erase"}} = {} /\ inVec = {"main"}
      BY <3>1, <3>2 DEF Sound, Alone, Inside
    <3>4. Alone'
      BY <3>1, <3>2, <3>3 DEF Alone
    <3>5. ToSet(clntSocketVec) = {}
      BY <3>1 DEF ToSet
    <3>6. /\ ops' = {op \in ops : op.h \notin {}} /\ Posts({op \in ops : op.h \in {}})
          /\ owner' = [h \in Handles |-> IF h \in {} THEN Free ELSE owner[h]]
      <4>1. CloseAll({})
        BY <3>1, <3>5
      <4> QED
        BY <4>1, Closes DEF Sound
    <3>7. ops' = ops /\ owner' = owner /\ {op \in ops : op.h \in {}} = {}
      BY <3>6 DEF Sound, Typed
    <3> QED
      BY <3>1, <3>4, <3>6, <3>7
  <2>3. CASE StopWorkers \/ Joined
    <3>1. /\ UNCHANGED <<client, pc, got, contexts, ops, owner, clntSocketVec, queue, inVec, ub>>
          /\ main # "clear" /\ main' \in {"join", "closed"}
      BY <2>3 DEF StopWorkers, Joined, clientVars, workerVars
    <3>2. Alone'
      BY <3>1 DEF Sound, Alone
    <3> QED
      BY <3>1, <3>2, PostsNone DEF Sound
  <2> QED
    BY <2>1, <2>2, <2>3 DEF Close
<1>2. Typed'
  BY <1>1 DEF Sound, Typed, Posts
<1>3. Owned'
  BY <1>1, OwnedKept DEF Sound
<1>4. Waiting'
  <2>1. \A c \in Clients : Closing(c) => Closing(c)'
    BY <1>1 DEF Closing
  <2> QED
    BY <1>1, <2>1, WaitingKept DEF Sound
<1>5. InHand'
  BY <1>1, InHandKept DEF Sound
<1>6. OneToken'
  BY <1>1, TokenKept DEF Sound
<1> QED
  BY <1>1, <1>2, <1>3, <1>4, <1>5, <1>6 DEF Sound

---------------------------------------------------------------------------
(* The specification.                                                          *)

\* The accepts of startIocp, and no connection.
LEMMA InitSound == PortAssumption /\ IocpInit => ub = "none" /\ Sound
<1> SUFFICES ASSUME PortAssumption, IocpInit PROVE ub = "none" /\ Sound
  OBVIOUS
<1> DEFINE accepts == 1 .. Cardinality(Workers) \div 2
           A == {Op("accept", h, Listen) : h \in accepts}
<1>1. accepts \subseteq Handles
  BY DEF PortAssumption
<1>2. IsFiniteSet(accepts)
  BY FS_CardinalityType, FS_Interval DEF PortAssumption
<1>3. /\ client = [c \in Clients |-> "idle"] /\ ops = A /\ queue = <<>>
      /\ owner = [h \in Handles |-> IF h \in accepts THEN Listen ELSE Free]
      /\ pc = [w \in Workers |-> "wait"] /\ got = [w \in Workers |-> Idle]
      /\ clntSocketVec = <<>> /\ inVec = {} /\ contexts = {} /\ main = "run" /\ ub = "none"
  BY DEF IocpInit
<1>4. \A op \in A : op \in Ops /\ op.kind = "accept" /\ op.c = Listen /\ op.h \in accepts
  BY <1>1 DEF Op, Ops, Kinds, SocketKeys
<1>5. IsFiniteSet(A)
  <2> DEFINE f == [h \in accepts |-> Op("accept", h, Listen)]
  <2>1. f \in Surjection(accepts, A)
    BY DEF Surjection
  <2> HIDE DEF f, A, accepts
  <2> QED
    BY <1>2, <2>1, FS_Surjection
<1> HIDE DEF accepts, A
<1>6. Typed
  BY <1>3, <1>4, <1>5 DEF Typed, Stations
<1>7. Alone
  BY <1>3 DEF Alone, Inside
<1>8. Owned
  BY <1>1, <1>3, <1>4 DEF Owned, Operation, PortAssumption
<1>9. Waiting /\ OneToken
  BY <1>3 DEF Waiting, OneToken, Inside
<1>10. InHand
  BY <1>3 DEF InHand, Inside
<1> QED
  BY <1>3, <1>6, <1>7, <1>8, <1>9, <1>10 DEF Sound

\* What has happened stays in the history.
LEMMA ExcusedStays == excused /\ [IocpNext]_iocpVars => excused'
<1> SUFFICES ASSUME excused, [IocpNext]_iocpVars PROVE excused'
  OBVIOUS
<1>1. CASE World
  BY <1>1 DEF World, KernelRead, KernelWrite, Connect, Say, Leave, KernelAccept
<1>2. ASSUME NEW w \in Workers, Worker(w) PROVE excused'
  BY <1>2 DEF Worker, Dequeue, AcceptPush, Accept, Read, ReadEnd, EraseBegin, Erase,
              Write, Failed, FailedDelete, DeleteContext
<1>3. CASE ClearBegin \/ Close
  BY <1>3 DEF ClearBegin, Close, clearConnected, StopWorkers, Joined
<1>4. CASE UNCHANGED iocpVars
  BY <1>4 DEF iocpVars
<1> QED
  BY <1>1, <1>2, <1>3, <1>4 DEF IocpNext

\* The invariant is inductive.
LEMMA NextSound == PortAssumption /\ IocpInv /\ [IocpNext]_iocpVars => IocpInv'
<1> SUFFICES ASSUME PortAssumption, IocpInv, [IocpNext]_iocpVars, ~excused'
             PROVE  ub' = "none" /\ Sound'
  BY DEF IocpInv
<1>1. ub = "none" /\ Sound
  BY ExcusedStays DEF IocpInv
<1>2. CASE World
  BY <1>1, <1>2, WorldSound
<1>3. ASSUME NEW w \in Workers, Worker(w) PROVE ub' = "none" /\ Sound'
  <2>1. UNCHANGED main
    BY <1>3 DEF Worker, closeVars
  <2> QED
    BY <1>1, <1>3, <2>1, DequeueSound, EnterSound, AcceptSound, ReadSound, CloseSound,
       DeleteSound, WriteSound DEF Worker
<1>4. CASE ClearBegin \/ Close
  BY <1>1, <1>4, MainSound
<1>5. CASE UNCHANGED iocpVars
  <2>1. UNCHANGED <<client, owner, ops, queue, ub>> /\ UNCHANGED <<workerVars, main>>
    BY <1>5 DEF iocpVars, workerVars
  <2>2. Posts({}) /\ ops' = ops \ {}
    BY <1>1, <2>1, PostsNone DEF Sound
  <2> QED
    BY <1>1, <2>1, <2>2, QuietStep DEF Sound, Typed
<1> QED
  BY <1>2, <1>3, <1>4, <1>5 DEF IocpNext

\* SafeWhenSerial for every number of workers, clients and handles: nothing
\* undefined happens in CMIOCP and it closes no foreign socket unless handlers
\* overlapped, an answer was under way when its connection ended, an AcceptEx
\* failed, or close() met a worker at work or a connection.
THEOREM SoundWhileSerial == IocpSpec => []SafeWhenSerial
<1>1. IocpInit => IocpInv
  BY InitSound, PortAssumption DEF IocpInv
<1>2. IocpInv /\ [IocpNext]_iocpVars => IocpInv'
  BY NextSound, PortAssumption
<1>3. IocpInv => SafeWhenSerial
  BY DEF IocpInv, SafeWhenSerial
<1> QED
  BY <1>1, <1>2, <1>3, PTL DEF IocpSpec

---------------------------------------------------------------------------
(* Rings of nodes.                                                             *)

Links == [pre : [Addr -> Addr \cup {Null}], next : [Addr -> Addr \cup {Null}]]

Ring(l, h, r, c) ==
  /\ h \subseteq Nodes
  /\ r[0] = Sentry /\ r[c + 1] = Sentry
  /\ \A i \in 1..c : r[i] \in h
  /\ \A a \in h : \E i \in 1..c : r[i] = a
  /\ \A i, j \in 1..c : r[i] = r[j] => i = j
  /\ \A i \in 0..c : l.next[r[i]] = r[i + 1] /\ l.pre[r[i + 1]] = r[i]

\* The numbering with n at the head, and the one without the node at p.
Pushed(r, c, n) == [i \in 0..(c + 2) |-> IF i = 0 THEN Sentry ELSE IF i = 1 THEN n ELSE r[i - 1]]
Without(r, c, p) == [i \in 0..c |-> IF i < p THEN r[i] ELSE r[i + 1]]

\* What insertToHead assigns, pointer by pointer.
LEMMA InsertLinks ==
  ASSUME NEW l \in Links, NEW n \in Nodes, l.next[Sentry] \in Addr \ {n}
  PROVE  /\ insertToHead(l, n) \in Links
         /\ \A a \in Addr : insertToHead(l, n).next[a] =
              IF a = n THEN l.next[Sentry] ELSE IF a = Sentry THEN n ELSE l.next[a]
         /\ \A a \in Addr : insertToHead(l, n).pre[a] =
              IF a = l.next[Sentry] THEN n ELSE IF a = n THEN Sentry ELSE l.pre[a]
<1> DEFINE n1 == [l EXCEPT !.next[n] = l.next[Sentry], !.pre[n] = Sentry]
           n2 == [n1 EXCEPT !.next[Sentry] = n]
           n3 == [n2 EXCEPT !.pre[n2.next[n]] = n]
<1>1. n \in Addr /\ Sentry \in Addr /\ n # Sentry
  BY NodesAssumption DEF Addr
<1>2. /\ n1 \in Links
      /\ n1.next = [l.next EXCEPT ![n] = l.next[Sentry]]
      /\ n1.pre = [l.pre EXCEPT ![n] = Sentry]
  BY <1>1 DEF Links
<1> HIDE DEF n1
<1>3. n2 \in Links /\ n2.next = [n1.next EXCEPT ![Sentry] = n] /\ n2.pre = n1.pre
  BY <1>1, <1>2 DEF Links
<1>4. n2.next[n] = l.next[Sentry]
  BY <1>1, <1>2, <1>3 DEF Links
<1> HIDE DEF n2
<1>5. n3 \in Links /\ n3.next = n2.next /\ n3.pre = [n2.pre EXCEPT ![n2.next[n]] = n]
  BY <1>1, <1>3, <1>4 DEF Links
<1>6. insertToHead(l, n) = n3
  BY DEF insertToHead, n1, n2
<1> HIDE DEF n3
<1>7. /\ \A a \in Addr : n3.next[a] =
           IF a = n THEN l.next[Sentry] ELSE IF a = Sentry THEN n ELSE l.next[a]
      /\ \A a \in Addr : n3.pre[a] =
           IF a = l.next[Sentry] THEN n ELSE IF a = n THEN Sentry ELSE l.pre[a]
  BY <1>1, <1>2, <1>3, <1>4, <1>5 DEF Links
<1> QED
  BY <1>5, <1>6, <1>7

\* What unlink assigns.
LEMMA UnlinkLinks ==
  ASSUME NEW l \in Links, NEW n \in Nodes, l.next[n] \in Addr \ {n}, l.pre[n] \in Addr \ {n}
  PROVE  /\ unlink(l, n) \in Links
         /\ \A a \in Addr : unlink(l, n).next[a] = IF a = l.pre[n] THEN l.next[n] ELSE l.next[a]
         /\ \A a \in Addr : unlink(l, n).pre[a] = IF a = l.next[n] THEN l.pre[n] ELSE l.pre[a]
<1> DEFINE u == [l EXCEPT !.next[l.pre[n]] = l.next[n]]
           v == [u EXCEPT !.pre[u.next[n]] = u.pre[n]]
<1>1. n \in Addr
  BY DEF Addr
<1>2. u \in Links /\ u.next = [l.next EXCEPT ![l.pre[n]] = l.next[n]] /\ u.pre = l.pre
  BY <1>1 DEF Links
<1>3. u.next[n] = l.next[n]
  BY <1>1, <1>2 DEF Links
<1> HIDE DEF u
<1>4. v \in Links /\ v.next = u.next /\ v.pre = [u.pre EXCEPT ![l.next[n]] = l.pre[n]]
  BY <1>1, <1>2, <1>3 DEF Links
<1>5. unlink(l, n) = v
  BY DEF unlink, u
<1> HIDE DEF v
<1> QED
  BY <1>1, <1>2, <1>4, <1>5 DEF Links

\* The numbers of a ring name addresses, the sentry only at its two ends.
LEMMA RingAddresses ==
  ASSUME NEW l, NEW h, NEW r, NEW c \in Nat, Ring(l, h, r, c)
  PROVE  /\ \A i \in 0..(c + 1) : r[i] \in h \cup {Sentry} /\ r[i] \in Addr
         /\ \A i \in 1..c : r[i] \in Nodes /\ r[i] # Sentry
         /\ \A i \in 1..c, k \in 0..(c + 1) : r[i] = r[k] => i = k
<1>1. \A i \in 1..c : r[i] \in Nodes /\ r[i] # Sentry /\ r[i] \in Addr
  BY NodesAssumption DEF Ring, Addr
<1>2. r[0] = Sentry /\ r[c + 1] = Sentry /\ Sentry \in Addr
  BY DEF Ring, Addr
<1>3. \A i \in 0..(c + 1) : i = 0 \/ i = c + 1 \/ i \in 1..c
  OBVIOUS
<1>4. \A i \in 0..(c + 1) : r[i] \in h \cup {Sentry} /\ r[i] \in Addr
  BY <1>1, <1>2, <1>3 DEF Ring
<1>5. \A i \in 1..c, k \in 0..(c + 1) : r[i] = r[k] => i = k
  BY <1>1, <1>2, <1>3 DEF Ring
<1> QED
  BY <1>1, <1>4, <1>5

\* insertToHead puts a new node in front.
LEMMA InsertRing ==
  ASSUME NEW l \in Links, NEW h, NEW r, NEW c \in Nat, Ring(l, h, r, c),
         NEW n \in Nodes, n \notin h
  PROVE  insertToHead(l, n) \in Links /\ Ring(insertToHead(l, n), h \cup {n}, Pushed(r, c, n), c + 1)
<1> DEFINE m == insertToHead(l, n)
           q == Pushed(r, c, n)
<1>1. /\ \A i \in 0..(c + 1) : r[i] \in Addr /\ r[i] # n
      /\ \A i \in 1..c : r[i] # Sentry
      /\ \A i \in 1..c, k \in 0..(c + 1) : r[i] = r[k] => i = k
      /\ n # Sentry /\ n \in Addr /\ Sentry \in Addr
  <2>1. n # Sentry /\ n \in Addr /\ Sentry \in Addr
    BY NodesAssumption DEF Addr
  <2>2. /\ \A i \in 0..(c + 1) : r[i] \in h \cup {Sentry} /\ r[i] \in Addr
        /\ \A i \in 1..c : r[i] \in Nodes /\ r[i] # Sentry
        /\ \A i \in 1..c, k \in 0..(c + 1) : r[i] = r[k] => i = k
    BY RingAddresses
  <2> QED
    BY <2>1, <2>2
<1>2. r[0] = Sentry /\ r[c + 1] = Sentry /\ l.next[Sentry] = r[1]
      /\ \A i \in 0..c : l.next[r[i]] = r[i + 1] /\ l.pre[r[i + 1]] = r[i]
  BY DEF Ring
<1>3. /\ m \in Links
      /\ \A a \in Addr : m.next[a] = IF a = n THEN r[1] ELSE IF a = Sentry THEN n ELSE l.next[a]
      /\ \A a \in Addr : m.pre[a] = IF a = r[1] THEN n ELSE IF a = n THEN Sentry ELSE l.pre[a]
  BY <1>1, <1>2, InsertLinks
<1> HIDE DEF m
<1>4. /\ q[0] = Sentry /\ q[1] = n
      /\ \A i \in 2..(c + 2) : q[i] = r[i - 1]
  BY DEF Pushed
<1> HIDE DEF q
<1>5. \A i \in 0..(c + 1) : m.next[q[i]] = q[i + 1] /\ m.pre[q[i + 1]] = q[i]
  <2>1. m.next[q[0]] = q[1] /\ m.pre[q[1]] = q[0]
    BY <1>1, <1>3, <1>4
  <2>2. m.next[q[1]] = q[2] /\ m.pre[q[2]] = q[1]
    BY <1>1, <1>3, <1>4
  <2>3. ASSUME NEW i \in 2..(c + 1) PROVE m.next[q[i]] = q[i + 1] /\ m.pre[q[i + 1]] = q[i]
    <3>1. q[i] = r[i - 1] /\ q[i + 1] = r[i] /\ i - 1 \in 1..c /\ i \in 0..(c + 1) /\ (i - 1) + 1 = i
      <4>1. i \in 2..(c + 2) /\ i + 1 \in 2..(c + 2) /\ (i + 1) - 1 = i
        OBVIOUS
      <4>2. i - 1 \in 1..c /\ i \in 0..(c + 1) /\ (i - 1) + 1 = i
        OBVIOUS
      <4>3. q[i] = r[i - 1]
        BY <1>4, <4>1, Zenon
      <4>4. q[i + 1] = r[(i + 1) - 1]
        BY <1>4, <4>1, Zenon
      <4> QED
        BY <4>1, <4>2, <4>3, <4>4, Zenon
    <3>2. r[i] # r[1]
      BY <1>1, <3>1
    <3>3. l.next[r[i - 1]] = r[i] /\ l.pre[r[i]] = r[i - 1]
      BY <1>2, <3>1
    <3> QED
      BY <1>1, <1>3, <3>1, <3>2, <3>3
  <2> QED
    BY <2>1, <2>2, <2>3
<1>6. q[c + 2] = Sentry
  BY <1>2, <1>4
<1>7. \A i \in 1..(c + 1) : i = 1 \/ (i \in 2..(c + 2) /\ i - 1 \in 1..c /\ q[i] = r[i - 1])
  BY <1>4
<1>8. /\ \A i \in 1..(c + 1) : q[i] \in h \cup {n}
      /\ \A i, j \in 1..(c + 1) : q[i] = q[j] => i = j
  BY <1>1, <1>4, <1>7 DEF Ring
<1>9. ASSUME NEW a \in h \cup {n} PROVE \E i \in 1..(c + 1) : q[i] = a
  <2>1. CASE a = n
    BY <1>4, <2>1
  <2>2. CASE a # n
    <3>1. PICK i \in 1..c : r[i] = a
      BY <2>2 DEF Ring
    <3>2. i + 1 \in 2..(c + 2) /\ i + 1 \in 1..(c + 1) /\ (i + 1) - 1 = i
      OBVIOUS
    <3>3. q[i + 1] = a
      BY <1>4, <3>1, <3>2
    <3> QED
      BY <3>2, <3>3
  <2> QED
    BY <2>1, <2>2
<1> QED
  BY <1>3, <1>4, <1>5, <1>6, <1>8, <1>9 DEF Ring, m, q

\* unlink takes a node out of its place.
LEMMA UnlinkRing ==
  ASSUME NEW l \in Links, NEW h, NEW r, NEW c \in Nat, Ring(l, h, r, c),
         NEW p \in 1..c
  PROVE  unlink(l, r[p]) \in Links /\ Ring(unlink(l, r[p]), h \ {r[p]}, Without(r, c, p), c - 1)
<1> DEFINE m == unlink(l, r[p])
           q == Without(r, c, p)
<1>1. /\ \A i \in 0..(c + 1) : r[i] \in Addr
      /\ \A i \in 1..c : r[i] # Sentry /\ r[i] \in Nodes /\ r[i] \in h
      /\ \A i \in 1..c, k \in 0..(c + 1) : r[i] = r[k] => i = k
      /\ p - 1 \in 0..(c + 1) /\ p + 1 \in 0..(c + 1) /\ p \in 1..c /\ p - 1 # p /\ p + 1 # p
  <2>1. /\ \A i \in 0..(c + 1) : r[i] \in Addr
        /\ \A i \in 1..c : r[i] # Sentry /\ r[i] \in Nodes
        /\ \A i \in 1..c, k \in 0..(c + 1) : r[i] = r[k] => i = k
    BY RingAddresses
  <2>2. \A i \in 1..c : r[i] \in h
    BY DEF Ring
  <2> QED
    BY <2>1, <2>2
<1>2. r[0] = Sentry /\ r[c + 1] = Sentry
      /\ \A i \in 0..c : l.next[r[i]] = r[i + 1] /\ l.pre[r[i + 1]] = r[i]
  BY DEF Ring
<1>3. l.next[r[p]] = r[p + 1] /\ l.pre[r[p]] = r[p - 1]
  <2>1. p \in 0..c /\ p - 1 \in 0..c /\ (p - 1) + 1 = p
    OBVIOUS
  <2> QED
    BY <1>2, <2>1
<1>4. /\ m \in Links
      /\ \A a \in Addr : m.next[a] = IF a = r[p - 1] THEN r[p + 1] ELSE l.next[a]
      /\ \A a \in Addr : m.pre[a] = IF a = r[p + 1] THEN r[p - 1] ELSE l.pre[a]
  <2>1. r[p] \in Nodes /\ r[p - 1] \in Addr \ {r[p]} /\ r[p + 1] \in Addr \ {r[p]}
    BY <1>1
  <2> QED
    BY <1>3, <2>1, UnlinkLinks
<1> HIDE DEF m
<1>5. \A i \in 0..c : (i < p => q[i] = r[i]) /\ (i >= p => q[i] = r[i + 1])
  BY DEF Without
<1> HIDE DEF q
<1>6. ASSUME NEW i \in 0..(c - 1) PROVE m.next[q[i]] = q[i + 1] /\ m.pre[q[i + 1]] = q[i]
  <2>0. i \in 0..c /\ i + 1 \in 0..c /\ i + 2 \in 0..(c + 1)
    OBVIOUS
  <2>1. CASE i + 1 < p
    <3>1. q[i] = r[i] /\ q[i + 1] = r[i + 1]
      BY <1>5, <2>0, <2>1
    <3>2. i + 1 \in 1..c /\ p - 1 \in 1..c /\ i \in 0..(c + 1) /\ i # p - 1 /\ i + 1 # p + 1
      BY <2>1
    <3>3. r[i] # r[p - 1] /\ r[i + 1] # r[p + 1]
      BY <1>1, <3>2
    <3> QED
      BY <1>1, <1>2, <1>4, <2>0, <3>1, <3>2, <3>3
  <2>2. CASE i + 1 = p
    <3>1. q[i] = r[p - 1] /\ q[i + 1] = r[p + 1]
      BY <1>5, <2>0, <2>2
    <3> QED
      BY <1>1, <1>4, <3>1
  <2>3. CASE i + 1 > p
    <3>1. q[i] = r[i + 1] /\ q[i + 1] = r[i + 2]
      BY <1>5, <2>0, <2>3
    <3>2. i + 1 \in 1..c /\ i + 1 # p - 1 /\ i + 2 # p + 1 /\ i + 2 \in 0..(c + 1) /\ p + 1 \in 1..c
      BY <2>3
    <3>3. r[i + 1] # r[p - 1] /\ r[i + 2] # r[p + 1]
      BY <1>1, <3>2
    <3>4. i + 1 \in 0..c /\ (i + 1) + 1 = i + 2
      OBVIOUS
    <3>5. l.next[r[i + 1]] = r[i + 2] /\ l.pre[r[i + 2]] = r[i + 1]
      BY <1>2, <3>4
    <3>6. r[i + 1] \in Addr /\ r[i + 2] \in Addr
      BY <1>1, <2>0, <3>2
    <3> QED
      BY <1>4, <3>1, <3>3, <3>5, <3>6
  <2> QED
    BY <2>1, <2>2, <2>3
<1>7. q[0] = Sentry /\ q[c] = Sentry
  BY <1>2, <1>5
<1>8. \A i \in 1..(c - 1) : \/ i < p /\ q[i] = r[i] /\ i \in 1..c
                            \/ i >= p /\ q[i] = r[i + 1] /\ i + 1 \in 1..c
  BY <1>5
<1>9. /\ \A i \in 1..(c - 1) : q[i] \in h \ {r[p]}
      /\ \A i, j \in 1..(c - 1) : q[i] = q[j] => i = j
  BY <1>1, <1>8
<1>10. ASSUME NEW a \in h \ {r[p]} PROVE \E i \in 1..(c - 1) : q[i] = a
  <2>1. PICK i \in 1..c : r[i] = a
    BY DEF Ring
  <2>2. CASE i < p
    <3>1. i \in 1..(c - 1) /\ q[i] = a
      BY <1>5, <2>1, <2>2
    <3> QED
      BY <3>1
  <2>3. CASE i > p
    <3>1. i - 1 \in 1..(c - 1) /\ i - 1 \in 0..c /\ i - 1 >= p /\ (i - 1) + 1 = i
      BY <2>3
    <3>2. q[i - 1] = a
      BY <1>5, <2>1, <3>1
    <3> QED
      BY <3>1, <3>2
  <2> QED
    BY <2>1, <2>2, <2>3
<1>11. (c - 1) + 1 = c
  OBVIOUS
<1> QED
  BY <1>4, <1>6, <1>7, <1>9, <1>10, <1>11 DEF Ring, m, q

\* What moveNodeToHead does to the ring: the node at p becomes the first.
Moved(r, c, p) == IF p = 1 THEN r ELSE Pushed(Without(r, c, p), c - 1, r[p])

LEMMA MoveRing ==
  ASSUME NEW l \in Links, NEW h, NEW r, NEW c \in Nat, Ring(l, h, r, c), NEW p \in 1..c
  PROVE  /\ moveNodeToHead(l, r[p]) \in Links
         /\ Ring(moveNodeToHead(l, r[p]), h, Moved(r, c, p), c)
<1>1. p - 1 \in 0..(c + 1) /\ p - 1 \in 0..c /\ (p - 1) + 1 = p
  OBVIOUS
<1>2. l.pre[r[p]] = r[p - 1] /\ r[0] = Sentry /\ r[p] \in h /\ h \subseteq Nodes
  BY <1>1 DEF Ring
<1>3. CASE p = 1
  BY <1>2, <1>3 DEF Moved, moveNodeToHead
<1>4. CASE p # 1
  <2>1. r[p - 1] # Sentry
    <3>1. p - 1 \in 1..c
      BY <1>4
    <3> QED
      BY <3>1, RingAddresses
  <2> DEFINE m == unlink(l, r[p])
             g == h \ {r[p]}
             q == Without(r, c, p)
  <2>2. m \in Links /\ Ring(m, g, q, c - 1) /\ c - 1 \in Nat
    BY UnlinkRing
  <2>3. r[p] \in Nodes /\ r[p] \notin g /\ g \cup {r[p]} = h
    BY <1>2
  <2> HIDE DEF m, g, q
  <2>4. /\ insertToHead(m, r[p]) \in Links
        /\ Ring(insertToHead(m, r[p]), g \cup {r[p]}, Pushed(q, c - 1, r[p]), (c - 1) + 1)
    BY <2>2, <2>3, InsertRing
  <2>5. moveNodeToHead(l, r[p]) = insertToHead(m, r[p])
    BY <1>2, <2>1 DEF moveNodeToHead, m
  <2>6. Moved(r, c, p) = Pushed(q, c - 1, r[p])
    BY <1>4 DEF Moved, q
  <2>7. (c - 1) + 1 = c
    OBVIOUS
  <2> QED
    BY <2>3, <2>4, <2>5, <2>6, <2>7
<1> QED
  BY <1>3, <1>4

\* removeLast takes out the last node, and freeing it disturbs no other.
LEMMA DropRing ==
  ASSUME NEW l \in Links, NEW h, NEW r, NEW c \in Nat \ {0}, Ring(l, h, r, c)
  PROVE  /\ lastNode(l) = r[c] /\ r[c] \in h /\ h \subseteq Nodes
         /\ free(dropLast(l), r[c]) \in Links
         /\ Ring(free(dropLast(l), r[c]), h \ {r[c]}, Without(r, c, c), c - 1)
<1>1. c \in 0..c /\ c - 1 \in 0..c /\ (c - 1) + 1 = c /\ c - 1 \in 0..(c + 1) /\ c \in 1..c
  OBVIOUS
<1>2. lastNode(l) = r[c] /\ l.next[r[c]] = Sentry /\ l.pre[r[c]] = r[c - 1] /\ r[c] \in h /\ h \subseteq Nodes
  BY <1>1 DEF Ring, lastNode
<1>3. r[c - 1] # r[c] /\ r[c - 1] \in Addr /\ r[c] \in Addr
  <2>1. /\ \A i \in 0..(c + 1) : r[i] \in Addr
        /\ \A i \in 1..c, k \in 0..(c + 1) : r[i] = r[k] => i = k
    BY RingAddresses
  <2> QED
    BY <1>1, <2>1
<1> DEFINE d == [l EXCEPT !.next[r[c - 1]] = Sentry]
<1>4. dropLast(l) = unlink(l, r[c])
  <2>1. dropLast(l) = [d EXCEPT !.pre[Sentry] = r[c - 1]]
    BY <1>2 DEF dropLast
  <2>2. unlink(l, r[c]) = [d EXCEPT !.pre[d.next[r[c]]] = d.pre[r[c]]]
    BY <1>2 DEF unlink
  <2>3. d.next[r[c]] = Sentry /\ d.pre[r[c]] = r[c - 1]
    BY <1>2, <1>3 DEF Links
  <2> QED
    BY <2>1, <2>2, <2>3
<1> DEFINE m == unlink(l, r[c])
           g == h \ {r[c]}
           q == Without(r, c, c)
<1>5. m \in Links /\ Ring(m, g, q, c - 1)
  BY <1>1, UnlinkRing
<1>6. PICK x : x = r[c]
  OBVIOUS
<1>7. x \in Nodes /\ x # Sentry /\ x \notin g
  BY <1>2, <1>6, NodesAssumption
<1> HIDE DEF m, g, q
<1> DEFINE f == free(m, x)
<1>8. f \in Links
  BY <1>5 DEF Links, free
<1>9. \A a : a # x => f.next[a] = m.next[a] /\ f.pre[a] = m.pre[a]
  BY <1>5 DEF Links, free
<1> HIDE DEF f
<1>10. \A i \in 0..((c - 1) + 1) : q[i] # x
  <2>1. \A i \in 0..((c - 1) + 1) : q[i] \in g \cup {Sentry}
    BY <1>1, <1>5, RingAddresses
  <2> QED
    BY <1>7, <2>1
<1>11. Ring(f, g, q, c - 1)
  BY <1>5, <1>9, <1>10 DEF Ring
<1> QED
  BY <1>2, <1>4, <1>6, <1>8, <1>11 DEF f, m, g, q

---------------------------------------------------------------------------
(* The walk along the next pointers.                                           *)

\* A set of natural numbers has a least element.
LEMMA LeastNumber ==
  ASSUME NEW B, B \subseteq Nat, B # {}
  PROVE  \E k \in B : \A j \in B : k <= j
<1>1. PICK k \in B : \A j \in B : <<j, k>> \notin OpToRel(<, Nat)
  BY NatLessThanWellFounded, WFMin
<1>2. ASSUME NEW j \in B PROVE k <= j
  <2>1. j \in Nat /\ k \in Nat /\ ~ (j < k)
    BY <1>1 DEF OpToRel
  <2> QED
    BY <2>1
<1> QED
  BY <1>2

LEMMA NodesAreFinite == IsFiniteSet(Nodes) /\ Cardinality(Nodes) \in Nat /\ Steps \in Nat \ {0}
  BY NodesAssumption, FS_CardinalityType DEF Steps

\* A walk of k steps exists, whatever the pointers are.
LEMMA WalkExists ==
  ASSUME NEW next, NEW N \in Nat
  PROVE  \E f : f = [i \in 0..N |-> IF i = 0 THEN Sentry ELSE next[f[i - 1]]]
<1> DEFINE Walk(f, k) == f = [i \in 0..k |-> IF i = 0 THEN Sentry ELSE next[f[i - 1]]]
           B == {k \in Nat : ~ \E f : Walk(f, k)}
<1>1. SUFFICES ASSUME B # {} PROVE FALSE
  OBVIOUS
<1>2. PICK k \in B : \A j \in B : k <= j
  BY <1>1, LeastNumber
<1>3. CASE k = 0
  <2> DEFINE f == [i \in 0..0 |-> Sentry]
  <2>1. f = [i \in 0..0 |-> IF i = 0 THEN Sentry ELSE next[f[i - 1]]]
    OBVIOUS
  <2> QED
    BY <1>2, <1>3, <2>1
<1>4. CASE k # 0
  <2>1. k \in Nat /\ k - 1 \in Nat /\ k - 1 \notin B
    <3>1. k \in Nat
      OBVIOUS
    <3> HIDE DEF B
    <3>2. k - 1 \notin B
      BY <1>2, <3>1
    <3> QED
      BY <1>4, <3>1, <3>2
  <2>2. PICK g : Walk(g, k - 1)
    <3> HIDE DEF Walk
    <3> QED
      BY <2>1
  <2> DEFINE f == [i \in 0..k |-> IF i = 0 THEN Sentry
                                  ELSE IF i = k THEN next[g[k - 1]] ELSE g[i]]
             e == [i \in 0..k |-> IF i = 0 THEN Sentry ELSE next[f[i - 1]]]
  <2>3. ASSUME NEW i \in 0..k PROVE f[i] = e[i]
    <3>1. CASE i = 0
      BY <3>1
    <3>2. CASE i = k /\ i # 0
      <4>1. k - 1 \in 0..k /\ k - 1 # k
        BY <2>1
      <4>2. f[k - 1] = g[k - 1]
        <5>1. k - 1 = 0 => g[k - 1] = Sentry
          BY <2>1, <2>2
        <5> QED
          BY <4>1, <5>1
      <4> QED
        BY <3>2, <4>2
    <3>3. CASE i \in 1..(k - 1)
      <4>1. i - 1 \in 0..k /\ i - 1 # k /\ i - 1 \in 0..(k - 1) /\ i \in 0..(k - 1)
        BY <2>1, <3>3
      <4>2. f[i - 1] = g[i - 1]
        <5>1. i - 1 = 0 => g[i - 1] = Sentry
          BY <2>1, <2>2, <4>1
        <5> QED
          BY <4>1, <5>1
      <4>3. g[i] = next[g[i - 1]]
        BY <2>2, <3>3, <4>1
      <4> QED
        BY <2>1, <3>3, <4>2, <4>3
    <3> QED
      BY <2>1, <3>1, <3>2, <3>3
  <2>4. f = e
    BY <2>3
  <2>5. Walk(f, k)
    BY <2>4
  <2> QED
    BY <1>2, <2>5
<1> QED
  BY <1>3, <1>4

\* after follows the next pointers.
LEMMA AfterSteps ==
  /\ after[0] = Sentry
  /\ \A i \in 1..Steps : after[i] = links.next[after[i - 1]]
<1>1. PICK next : next = links.next
  OBVIOUS
<1>2. Steps \in Nat
  BY NodesAreFinite
<1>3. \E f : f = [i \in 0..Steps |-> IF i = 0 THEN Sentry ELSE next[f[i - 1]]]
  BY <1>2, WalkExists
<1>4. after = [i \in 0..Steps |-> IF i = 0 THEN Sentry ELSE next[after[i - 1]]]
  BY <1>1, <1>3 DEF after
<1> QED
  BY <1>1, <1>2, <1>4

\* Along a ring the walk visits the nodes in the order of their numbers.
LEMMA WalkFollowsRing ==
  ASSUME NEW h, NEW r, NEW c \in Nat, Ring(links, h, r, c), c + 1 <= Steps
  PROVE  \A i \in 0..(c + 1) : after[i] = r[i]
<1> DEFINE B == {i \in 0..(c + 1) : after[i] # r[i]}
<1>1. SUFFICES ASSUME B # {} PROVE FALSE
  OBVIOUS
<1>2. PICK k \in B : \A j \in B : k <= j
  <2>1. B \subseteq Nat
    OBVIOUS
  <2> HIDE DEF B
  <2> QED
    BY <1>1, <2>1, LeastNumber
<1>3. k # 0
  BY <1>2, AfterSteps DEF Ring
<1>4. k - 1 \in 0..c /\ k - 1 \in 0..(c + 1) /\ k \in 1..Steps /\ (k - 1) + 1 = k
  BY <1>2, <1>3, NodesAreFinite
<1>5. after[k - 1] = r[k - 1]
  BY <1>2, <1>4
<1>6. after[k] = links.next[r[k - 1]]
  BY <1>4, <1>5, AfterSteps
<1>7. links.next[r[k - 1]] = r[(k - 1) + 1]
  BY <1>4 DEF Ring
<1> QED
  BY <1>2, <1>4, <1>6, <1>7

\* clear() visits every node of the ring, once and in order.
LEMMA VisitsRing ==
  ASSUME NEW h, NEW r, NEW c \in Nat, Ring(links, h, r, c), c + 1 <= Steps
  PROVE  Visited = [i \in 1..c |-> r[i]]
<1> DEFINE Back(i) == after[i] = Sentry /\ \A j \in 1..(i - 1) : after[j] # Sentry
<1>1. \A i \in 0..(c + 1) : after[i] = r[i]
  BY WalkFollowsRing
<1>2. \A i \in 1..c : r[i] # Sentry
  BY RingAddresses
<1>3. c + 1 \in 1..Steps /\ Back(c + 1)
  BY <1>1, <1>2, NodesAreFinite DEF Ring
<1>4. ASSUME NEW i \in 1..Steps, Back(i) PROVE i = c + 1
  <2>1. i \in Nat \ {0}
    BY NodesAreFinite
  <2>2. ~ (i > c + 1)
    BY <1>3, <1>4, <2>1
  <2>3. ~ (i < c + 1)
    BY <1>1, <1>2, <1>4, <2>1
  <2> QED
    BY <2>1, <2>2, <2>3
<1>5. (CHOOSE i \in 1..Steps : Back(i)) = c + 1
  <2>1. \E i \in 1..Steps : Back(i)
    BY <1>3
  <2> HIDE DEF Back
  <2> QED
    BY <1>4, <2>1
<1>6. Visited = [i \in 1..((c + 1) - 1) |-> after[i]]
  BY <1>5 DEF Visited
<1> QED
  BY <1>1, <1>6

---------------------------------------------------------------------------
(* The map and the list.                                                       *)

\* The map has the keys of the nodes in h and leads to the node of each.
Index(map, con, h) ==
  /\ DOMAIN map = {con[a][1] : a \in h}
  /\ \A a \in h : map[con[a][1]] = a

Entry == (Keys \cup {NoValue}) \X (Values \cup {NoValue})

LEMMA IndexAdd ==
  ASSUME NEW map, NEW con \in [Nodes -> Entry], NEW h, h \subseteq Nodes, Index(map, con, h),
         NEW n \in Nodes, n \notin h, NEW k, k \notin DOMAIN map, NEW v
  PROVE  Index(Assign(map, k, n), [con EXCEPT ![n] = <<k, v>>], h \cup {n})
<1> DEFINE con2 == [con EXCEPT ![n] = <<k, v>>]
<1>1. con2[n][1] = k /\ \A a \in h : con2[a] = con[a]
  OBVIOUS
<1> HIDE DEF con2
<1>2. \A a \in h : con[a][1] \in DOMAIN map /\ con[a][1] # k
  BY DEF Index
<1>3. DOMAIN Assign(map, k, n) = DOMAIN map \cup {k}
  BY DEF Assign
<1>4. {con2[a][1] : a \in h \cup {n}} = {con[a][1] : a \in h} \cup {k}
  BY <1>1
<1>5. \A a \in h \cup {n} : Assign(map, k, n)[con2[a][1]] = a
  BY <1>1, <1>2 DEF Assign, Index
<1> QED
  BY <1>3, <1>4, <1>5 DEF Index, con2

LEMMA IndexDrop ==
  ASSUME NEW map, NEW con \in [Nodes -> Entry], NEW h, h \subseteq Nodes, Index(map, con, h),
         NEW x \in h, NEW e
  PROVE  Index(Restrict(map, DOMAIN map \ {con[x][1]}), [con EXCEPT ![x] = e], h \ {x})
<1> DEFINE con2 == [con EXCEPT ![x] = e]
           map2 == Restrict(map, DOMAIN map \ {con[x][1]})
<1>1. \A a \in h \ {x} : con2[a] = con[a]
  OBVIOUS
<1>2. /\ DOMAIN map2 = DOMAIN map \ {con[x][1]}
      /\ \A k \in DOMAIN map \ {con[x][1]} : map2[k] = map[k]
  BY DEF Restrict
<1> HIDE DEF con2, map2
<1>3. \A a \in h \ {x} : con[a][1] \in DOMAIN map /\ con[a][1] # con[x][1]
  BY DEF Index
<1>4. {con2[a][1] : a \in h \ {x}} = {con[a][1] : a \in h} \ {con[x][1]}
  BY <1>1, <1>3
<1> QED
  BY <1>1, <1>2, <1>3, <1>4 DEF Index, con2, map2

---------------------------------------------------------------------------
(* The invariant.                                                              *)

TypeInv ==
  /\ m_capacity \in 0..MaxCapacity /\ m_size \in Nat
  /\ heap \subseteq Nodes
  /\ links \in Links
  /\ content \in [Nodes -> Entry]
  /\ state \in {"alive", "destroyed"}

AliveInv ==
  /\ m_size <= m_capacity
  /\ m_size = Cardinality(heap)
  /\ \E r : Ring(links, heap, r, m_size)
  /\ Index(m_nodeMap, content, heap)

Inv == TypeInv /\ (Callable => AliveInv) /\ (state = "destroyed" => heap = {})

LEMMA InitInv == Init => Inv
<1> SUFFICES ASSUME Init PROVE Inv
  OBVIOUS
<1> DEFINE r == [i \in 0..1 |-> Sentry]
<1>1. TypeInv
  BY DEF Init, TypeInv, Links, Entry, Addr
<1>2. links.next[Sentry] = Sentry /\ links.pre[Sentry] = Sentry /\ heap = {} /\ m_size = 0
  BY DEF Init, Addr
<1>3. Ring(links, heap, r, m_size)
  BY <1>2 DEF Ring
<1>4. m_size = Cardinality(heap) /\ m_size <= m_capacity
  BY <1>1, <1>2, FS_EmptySet, NodesAssumption DEF TypeInv
<1>5. Index(m_nodeMap, content, heap)
  BY <1>2 DEF Init, Index
<1>6. AliveInv
  BY <1>3, <1>4, <1>5 DEF AliveInv
<1> QED
  BY <1>1, <1>2, <1>6 DEF Inv

\* Numbers of nodes.
LEMMA HeapCounts ==
  ASSUME TypeInv
  PROVE  /\ IsFiniteSet(heap) /\ Cardinality(heap) \in Nat /\ Cardinality(heap) < Steps
         /\ \A n \in Nodes \ heap : /\ Cardinality(heap \cup {n}) = Cardinality(heap) + 1
                                    /\ IsFiniteSet(heap \cup {n})
         /\ \A n \in Nodes \ heap : \A x \in heap \cup {n} :
               Cardinality((heap \cup {n}) \ {x}) = Cardinality(heap)
<1>1. IsFiniteSet(heap) /\ Cardinality(heap) <= Cardinality(Nodes)
  BY NodesAreFinite, FS_Subset DEF TypeInv
<1>2. Cardinality(heap) \in Nat /\ Cardinality(heap) < Steps
  BY <1>1, NodesAreFinite, FS_CardinalityType DEF Steps
<1>3. ASSUME NEW n \in Nodes \ heap
      PROVE  Cardinality(heap \cup {n}) = Cardinality(heap) + 1 /\ IsFiniteSet(heap \cup {n})
  BY <1>1, FS_AddElement
<1>4. ASSUME NEW n \in Nodes \ heap, NEW x \in heap \cup {n}
      PROVE  Cardinality((heap \cup {n}) \ {x}) = Cardinality(heap)
  <2>1. Cardinality((heap \cup {n}) \ {x}) = Cardinality(heap \cup {n}) - 1
    BY <1>3, FS_RemoveElement
  <2> QED
    BY <1>2, <1>3, <2>1
<1> QED
  BY <1>1, <1>2, <1>3, <1>4

\* A put of a new key: the ring that is there afterwards.
PutRing(r, n) ==
  IF m_size + 1 > m_capacity THEN Without(Pushed(r, m_size, n), m_size + 1, m_size + 1)
                             ELSE Pushed(r, m_size, n)

\* What is known of such a put: its node, the ring before and the ring after.
LEMMA PutNewRing ==
  ASSUME Inv, Callable, NEW k \in Keys, NEW v \in Values, k \notin DOMAIN m_nodeMap,
         NEW n \in Nodes \ heap, NEW r, Ring(links, heap, r, m_size)
  PROVE  LET l == insertToHead(links, n)
             last == lastNode(l)
             h == heap \cup {n}
             q == Pushed(r, m_size, n)
             c == [content EXCEPT ![n] = <<k, v>>]
             map == Assign(m_nodeMap, k, n)
         IN  /\ l \in Links /\ Ring(l, h, q, m_size + 1)
             /\ last = q[m_size + 1] /\ last \in h
             /\ free(dropLast(l), last) \in Links
             /\ Ring(free(dropLast(l), last), h \ {last}, Without(q, m_size + 1, m_size + 1), m_size)
             /\ c \in [Nodes -> Entry] /\ h \subseteq Nodes
             /\ Index(map, c, h)
             /\ [c EXCEPT ![last] = <<NoValue, NoValue>>] \in [Nodes -> Entry]
             /\ Index(Restrict(map, DOMAIN map \ {c[last][1]}),
                      [c EXCEPT ![last] = <<NoValue, NoValue>>], h \ {last})
<1> DEFINE l == insertToHead(links, n)
           last == lastNode(l)
           h == heap \cup {n}
           q == Pushed(r, m_size, n)
           c == [content EXCEPT ![n] = <<k, v>>]
           map == Assign(m_nodeMap, k, n)
           e == <<NoValue, NoValue>>
<1>1. TypeInv /\ Index(m_nodeMap, content, heap)
  BY DEF Inv, AliveInv
<1>2. links \in Links /\ m_size \in Nat /\ n \in Nodes /\ n \notin heap
  BY <1>1 DEF TypeInv
<1>3. l \in Links /\ Ring(l, h, q, m_size + 1)
  BY <1>2, InsertRing
<1>4. content \in [Nodes -> Entry] /\ heap \subseteq Nodes /\ h \subseteq Nodes
  BY <1>1 DEF TypeInv
<1>5. c \in [Nodes -> Entry]
  BY <1>4 DEF Entry
<1>6. Index(map, c, h)
  BY <1>1, <1>2, <1>4, IndexAdd
<1>7. e \in Entry
  BY DEF Entry
<1> HIDE DEF l, last, h, q, c, map, e
<1>8. m_size + 1 \in Nat \ {0} /\ (m_size + 1) - 1 = m_size
  BY <1>2
<1>9. /\ last = q[m_size + 1] /\ last \in h
      /\ free(dropLast(l), last) \in Links
      /\ Ring(free(dropLast(l), last), h \ {last}, Without(q, m_size + 1, m_size + 1), m_size)
  <2>1. PICK s : s = m_size + 1
    OBVIOUS
  <2>2. s \in Nat \ {0} /\ s - 1 = m_size /\ l \in Links /\ Ring(l, h, q, s)
    BY <1>3, <1>8, <2>1
  <2>3. /\ lastNode(l) = q[s] /\ q[s] \in h
        /\ free(dropLast(l), q[s]) \in Links
        /\ Ring(free(dropLast(l), q[s]), h \ {q[s]}, Without(q, s, s), s - 1)
    BY <2>2, DropRing
  <2> QED
    BY <2>1, <2>2, <2>3 DEF last
<1>10. [c EXCEPT ![last] = e] \in [Nodes -> Entry]
  BY <1>5, <1>7
<1>11. Index(Restrict(map, DOMAIN map \ {c[last][1]}), [c EXCEPT ![last] = e], h \ {last})
  BY <1>4, <1>5, <1>6, <1>9, IndexDrop
<1> QED
  BY <1>3, <1>4, <1>5, <1>6, <1>9, <1>10, <1>11 DEF l, last, h, q, c, map, e

LEMMA PutInv ==
  ASSUME Inv, ~PutPresent, NEW k \in Keys, NEW v \in Values, Put(k, v)
  PROVE  Inv' /\ state' = "alive"
<1>1. Callable /\ k \notin DOMAIN m_nodeMap /\ putNew(k, v)
  BY DEF Put
<1>2. PICK r : Ring(links, heap, r, m_size)
  BY <1>1 DEF Inv, AliveInv
<1>3. PICK n \in Nodes \ heap :
        LET l == insertToHead(links, n)
            map == Assign(m_nodeMap, k, n)
            c == [content EXCEPT ![n] = <<k, v>>]
            last == lastNode(l)
        IN  /\ IF m_size + 1 > m_capacity
               THEN /\ links' = free(dropLast(l), last)
                    /\ content' = [c EXCEPT ![last] = <<NoValue, NoValue>>]
                    /\ m_nodeMap' = Restrict(map, DOMAIN map \ {c[last][1]})
                    /\ m_size' = m_size
                    /\ heap' = (heap \cup {n}) \ {last}
               ELSE /\ links' = l
                    /\ content' = c
                    /\ m_nodeMap' = map
                    /\ m_size' = m_size + 1
                    /\ heap' = heap \cup {n}
            /\ UNCHANGED <<m_capacity, result, state>>
  BY <1>1 DEF putNew
<1> DEFINE l == insertToHead(links, n)
           last == lastNode(l)
           h == heap \cup {n}
           q == Pushed(r, m_size, n)
           c == [content EXCEPT ![n] = <<k, v>>]
           map == Assign(m_nodeMap, k, n)
<1>4. /\ l \in Links /\ Ring(l, h, q, m_size + 1)
      /\ last \in h
      /\ free(dropLast(l), last) \in Links
      /\ Ring(free(dropLast(l), last), h \ {last}, Without(q, m_size + 1, m_size + 1), m_size)
      /\ c \in [Nodes -> Entry] /\ h \subseteq Nodes
      /\ Index(map, c, h)
      /\ [c EXCEPT ![last] = <<NoValue, NoValue>>] \in [Nodes -> Entry]
      /\ Index(Restrict(map, DOMAIN map \ {c[last][1]}),
               [c EXCEPT ![last] = <<NoValue, NoValue>>], h \ {last})
  BY <1>1, <1>2, PutNewRing
<1>5. TypeInv /\ AliveInv
  BY <1>1 DEF Inv
<1>6. state' = "alive" /\ m_capacity' = m_capacity
  BY <1>1, <1>3 DEF Callable
<1>7. /\ m_size \in Nat /\ m_capacity \in Nat /\ m_capacity' \in 0..MaxCapacity
      /\ m_size <= m_capacity /\ m_size = Cardinality(heap)
  BY <1>5, <1>6, NodesAssumption DEF TypeInv, AliveInv
<1>8. Cardinality(h) = m_size + 1 /\ Cardinality(h \ {last}) = m_size
  BY <1>4, <1>5, <1>7, HeapCounts
<1>9. CASE m_size + 1 > m_capacity
  <2>1. /\ links' = free(dropLast(l), last)
        /\ content' = [c EXCEPT ![last] = <<NoValue, NoValue>>]
        /\ m_nodeMap' = Restrict(map, DOMAIN map \ {c[last][1]})
        /\ m_size' = m_size
        /\ heap' = h \ {last}
    BY <1>3, <1>9
  <2> HIDE DEF l, last, h, q, c, map
  <2>2. TypeInv'
    BY <1>4, <1>6, <1>7, <2>1 DEF TypeInv
  <2>3. AliveInv'
    BY <1>4, <1>6, <1>7, <1>8, <2>1 DEF AliveInv
  <2> QED
    BY <1>6, <2>2, <2>3 DEF Inv
<1>10. CASE ~ (m_size + 1 > m_capacity)
  <2>1. links' = l /\ content' = c /\ m_nodeMap' = map /\ m_size' = m_size + 1 /\ heap' = h
    BY <1>3, <1>10
  <2> HIDE DEF l, last, h, q, c, map
  <2>2. TypeInv'
    BY <1>4, <1>6, <1>7, <2>1 DEF TypeInv
  <2>3. AliveInv'
    BY <1>4, <1>6, <1>7, <1>8, <1>10, <2>1 DEF AliveInv
  <2> QED
    BY <1>6, <2>2, <2>3 DEF Inv
<1> QED
  BY <1>9, <1>10

\* The node the map leads to has a number in the ring.
LEMMA HitAt ==
  ASSUME Inv, Callable, NEW k \in DOMAIN m_nodeMap, NEW r, Ring(links, heap, r, m_size)
  PROVE  /\ m_nodeMap[k] # Null /\ m_nodeMap[k] \in heap /\ content[m_nodeMap[k]][1] = k
         /\ \E p \in 1..m_size : m_nodeMap[k] = r[p]
<1>1. Index(m_nodeMap, content, heap) /\ heap \subseteq Nodes
  BY DEF Inv, AliveInv, TypeInv
<1>2. PICK a \in heap : content[a][1] = k
  BY <1>1 DEF Index
<1>3. m_nodeMap[k] = a
  BY <1>1, <1>2 DEF Index
<1>4. a # Null
  BY <1>1, NodesAssumption
<1>5. \E p \in 1..m_size : r[p] = a
  BY DEF Ring
<1> QED
  BY <1>2, <1>3, <1>4, <1>5

LEMMA GetHitInv ==
  ASSUME Inv, NEW k \in Keys, GetHit(k)
  PROVE  Inv' /\ state' = "alive"
<1>1. Callable /\ k \in DOMAIN m_nodeMap /\ TypeInv /\ AliveInv
  BY DEF GetHit, Inv
<1>2. PICK r : Ring(links, heap, r, m_size)
  BY <1>1 DEF AliveInv
<1>3. m_nodeMap[k] # Null /\ \E p \in 1..m_size : m_nodeMap[k] = r[p]
  BY <1>1, <1>2, HitAt
<1>4. PICK p \in 1..m_size : m_nodeMap[k] = r[p]
  BY <1>3
<1>5. /\ links' = moveNodeToHead(links, r[p])
      /\ UNCHANGED <<m_capacity, m_nodeMap, m_size, content, heap, state>>
  BY <1>1, <1>3, <1>4 DEF GetHit
<1>6. links \in Links /\ m_size \in Nat
  BY <1>1 DEF TypeInv
<1>7. links' \in Links /\ Ring(links', heap, Moved(r, m_size, p), m_size)
  BY <1>2, <1>5, <1>6, MoveRing
<1>8. TypeInv'
  BY <1>1, <1>5, <1>7 DEF TypeInv
<1>9. AliveInv'
  BY <1>1, <1>5, <1>7 DEF AliveInv
<1> QED
  BY <1>1, <1>5, <1>8, <1>9 DEF Inv, Callable

\* The destructor visits every node and deletes each of them once.
LEMMA DestroyInv ==
  ASSUME Inv, Destroy
  PROVE  Inv' /\ state' = "destroyed"
<1>1. TypeInv /\ AliveInv
  BY DEF Destroy, Inv
<1>2. PICK r : Ring(links, heap, r, m_size)
  BY <1>1 DEF AliveInv
<1>3. m_size \in Nat /\ m_size + 1 <= Steps
  BY <1>1, HeapCounts, NodesAreFinite DEF TypeInv, AliveInv
<1>4. Visited = [i \in 1..m_size |-> r[i]]
  BY <1>2, <1>3, VisitsRing
<1> DEFINE deleted == [i \in DOMAIN Visited |-> links.pre[links.next[Visited[i]]]]
<1>5. deleted = [i \in 1..m_size |-> r[i]]
  <2>1. \A i \in 1..m_size : links.pre[links.next[r[i]]] = r[i]
    BY <1>2, <1>3 DEF Ring
  <2> QED
    BY <1>4, <2>1
<1>6. Range(deleted) = heap /\ IsInjective(deleted)
  BY <1>2, <1>5 DEF Ring, Range, IsInjective
<1>7. /\ heap' = heap \ Range(deleted)
      /\ state' = IF IsInjective(deleted) /\ Range(deleted) \subseteq heap
                  THEN "destroyed" ELSE "ub"
      /\ m_size' = 0 /\ UNCHANGED <<m_capacity, links, content>>
  BY DEF Destroy
<1> HIDE DEF deleted
<1>8. heap' = {} /\ state' = "destroyed"
  BY <1>6, <1>7
<1>9. TypeInv'
  BY <1>1, <1>7, <1>8 DEF TypeInv
<1> QED
  BY <1>8, <1>9 DEF Inv, Callable

\* The invariant is kept as long as no key is put that is there.
LEMMA Invariant == ASSUME ~PutPresent PROVE Spec => []Inv
<1>1. Inv /\ [Next]_vars => Inv'
  <2> SUFFICES ASSUME Inv, [Next]_vars PROVE Inv'
    OBVIOUS
  <2>1. ASSUME NEW k \in Keys, NEW v \in Values, Put(k, v) \/ PutMove(k, v) PROVE Inv'
    BY <2>1, PutInv DEF PutMove
  <2>2. ASSUME NEW k \in Keys, GetHit(k) PROVE Inv'
    BY <2>2, GetHitInv
  <2>3. CASE Destroy
    BY <2>3, DestroyInv
  <2>4. CASE UNCHANGED <<m_capacity, m_nodeMap, m_size, links, content, heap, state>>
    BY <2>4 DEF Inv, TypeInv, AliveInv, Callable
  <2> QED
    BY <2>1, <2>2, <2>3, <2>4 DEF Next, GetMiss, Stopped, vars
<1> QED
  BY <1>1, InitInv, PTL DEF Spec

\* The map has exactly the keys of the list and leads to the node that holds the
\* key: put, get, removeLast and the destructor of LRU.hpp, for callers that put
\* a key only after a miss.
THEOREM MapAndListAgree == ASSUME ~PutPresent PROVE Spec => []MapIndexesList
<1>1. Inv => MapIndexesList
  <2> SUFFICES ASSUME Inv, Callable PROVE MapIndexesList
    BY DEF MapIndexesList
  <2>1. Index(m_nodeMap, content, heap)
    BY DEF Inv, AliveInv
  <2>2. \A k \in DOMAIN m_nodeMap : m_nodeMap[k] \in heap /\ content[m_nodeMap[k]][1] = k
    BY <2>1 DEF Index
  <2> QED
    BY <2>1, <2>2 DEF Index, MapIndexesList
<1> QED
  BY <1>1, Invariant, PTL

\* The nodes form one ring through the sentry with agreeing pointers, the cache
\* is never larger than its capacity, no null or freed node is touched, and the
\* destructor frees every node once: the splices of insertToHead, moveNodeToHead,
\* removeLast and clear.
THEOREM CacheIsMemorySafe == ASSUME ~PutPresent PROVE Spec => []MemorySafe
<1>1. Inv => MemorySafe
  <2> SUFFICES ASSUME Inv, Callable
               PROVE  /\ \A a \in heap \cup {Sentry} :
                            /\ links.next[a] \in heap \cup {Sentry}
                            /\ links.pre[links.next[a]] = a
                      /\ Range(Visited) = heap
                      /\ m_size = Cardinality(heap)
                      /\ m_size <= m_capacity
    BY DEF MemorySafe, Inv, TypeInv
  <2>1. TypeInv /\ AliveInv
    BY DEF Inv
  <2>2. PICK r : Ring(links, heap, r, m_size)
    BY <2>1 DEF AliveInv
  <2>3. m_size \in Nat /\ m_size + 1 <= Steps /\ m_size = Cardinality(heap) /\ m_size <= m_capacity
    BY <2>1, HeapCounts, NodesAreFinite DEF TypeInv, AliveInv
  <2>4. Visited = [i \in 1..m_size |-> r[i]]
    BY <2>2, <2>3, VisitsRing
  <2>5. Range(Visited) = heap
    BY <2>2, <2>4 DEF Ring, Range
  <2>6. ASSUME NEW a \in heap \cup {Sentry}
        PROVE  links.next[a] \in heap \cup {Sentry} /\ links.pre[links.next[a]] = a
    <3>1. PICK i \in 0..m_size : r[i] = a
      BY <2>2, <2>3 DEF Ring
    <3>2. links.next[a] = r[i + 1] /\ links.pre[r[i + 1]] = a
      BY <2>2, <3>1 DEF Ring
    <3>3. i + 1 \in 0..(m_size + 1)
      BY <2>3
    <3>4. r[i + 1] \in heap \cup {Sentry}
      BY <2>2, <2>3, <3>3, RingAddresses
    <3> QED
      BY <3>2, <3>4
  <2> QED
    BY <2>3, <2>5, <2>6
<1> QED
  BY <1>1, Invariant, PTL

---------------------------------------------------------------------------
(* The cache implements LRUSpec: the entries in the order of the ring.         *)

Order(r, c, con) == [i \in 1..c |-> con[r[i]]]

OrderOfRing ==
  \A r : Inv /\ Callable /\ Ring(links, heap, r, m_size)
           => /\ Entries = Order(r, m_size, content)
              /\ Order(r, m_size, content) \in Seq(Entry)
              /\ Len(Order(r, m_size, content)) = m_size
              /\ m_size \in Nat

LEMMA OrderNow == OrderOfRing
<1> SUFFICES ASSUME NEW r, Inv, Callable, Ring(links, heap, r, m_size)
             PROVE  /\ Entries = Order(r, m_size, content)
                    /\ Order(r, m_size, content) \in Seq(Entry)
                    /\ Len(Order(r, m_size, content)) = m_size
                    /\ m_size \in Nat
  BY DEF OrderOfRing
<1>1. m_size \in Nat /\ m_size + 1 <= Steps
  BY HeapCounts, NodesAreFinite DEF Inv, TypeInv, AliveInv
<1>2. Visited = [i \in 1..m_size |-> r[i]]
  BY <1>1, VisitsRing
<1>3. Entries = Order(r, m_size, content)
  BY <1>1, <1>2 DEF Entries, Order
<1>4. \A i \in 1..m_size : content[r[i]] \in Entry
  <2>1. \A i \in 1..m_size : r[i] \in Nodes
    BY <1>1, RingAddresses
  <2> QED
    BY <2>1 DEF Inv, TypeInv
<1>5. Order(r, m_size, content) \in Seq(Entry) /\ Len(Order(r, m_size, content)) = m_size
  BY <1>1, <1>4 DEF Order
<1> QED
  BY <1>1, <1>3, <1>5

LEMMA OrderNext == OrderOfRing'
  BY OrderNow, PTL

\* The sequences that LRUSpec builds, element by element.
LEMMA FirstThen ==
  ASSUME NEW S, NEW e \in S, NEW s \in Seq(S)
  PROVE  /\ <<e>> \o s \in Seq(S) /\ Len(<<e>> \o s) = Len(s) + 1
         /\ <<e>> \o s = [i \in 1..(Len(s) + 1) |-> IF i = 1 THEN e ELSE s[i - 1]]
  OBVIOUS

LEMMA WithoutAt ==
  ASSUME NEW S, NEW s \in Seq(S), NEW p \in 1..Len(s)
  PROVE  /\ Abstract!RemoveAt(s, p) \in Seq(S)
         /\ Len(Abstract!RemoveAt(s, p)) = Len(s) - 1
         /\ Abstract!RemoveAt(s, p) = [i \in 1..(Len(s) - 1) |-> IF i < p THEN s[i] ELSE s[i + 1]]
<1> DEFINE u == SubSeq(s, 1, p - 1)
           v == SubSeq(s, p + 1, Len(s))
<1>1. u \in Seq(S) /\ Len(u) = p - 1 /\ \A i \in 1..(p - 1) : u[i] = s[i]
  OBVIOUS
<1>2. v \in Seq(S) /\ Len(v) = Len(s) - p /\ \A i \in 1..(Len(s) - p) : v[i] = s[p + i]
  OBVIOUS
<1>3. Abstract!RemoveAt(s, p) = u \o v
  BY DEF Abstract!RemoveAt
<1> HIDE DEF u, v
<1>4. u \o v \in Seq(S) /\ Len(u \o v) = Len(s) - 1
  BY <1>1, <1>2
<1>5. ASSUME NEW i \in 1..(Len(s) - 1) PROVE (u \o v)[i] = IF i < p THEN s[i] ELSE s[i + 1]
  <2>1. CASE i < p
    BY <1>1, <1>2, <2>1
  <2>2. CASE ~ (i < p)
    <3>1. i - (p - 1) \in 1..(Len(s) - p) /\ p + (i - (p - 1)) = i + 1
      BY <2>2
    <3>2. (u \o v)[i] = v[i - (p - 1)]
      BY <1>1, <1>2, <2>2
    <3> QED
      BY <1>2, <2>2, <3>1, <3>2
  <2> QED
    BY <2>1, <2>2
<1> DEFINE w == u \o v
<1>6. w \in Seq(S) /\ Len(w) = Len(s) - 1
      /\ \A i \in 1..(Len(s) - 1) : w[i] = IF i < p THEN s[i] ELSE s[i + 1]
  BY <1>4, <1>5
<1> HIDE DEF w
<1>7. w = [i \in 1..(Len(s) - 1) |-> w[i]]
  BY <1>6
<1>8. w = [i \in 1..(Len(s) - 1) |-> IF i < p THEN s[i] ELSE s[i + 1]]
  BY <1>6, <1>7
<1> QED
  BY <1>3, <1>6, <1>8 DEF w

LEMMA AllButLast ==
  ASSUME NEW S, NEW s \in Seq(S), Len(s) > 0
  PROVE  Abstract!Front(s) = [i \in 1..(Len(s) - 1) |-> s[i]]
  BY DEF Abstract!Front

\* An entry before the others; two contents that agree on the nodes of a ring.
Ahead(e, s) == <<e>> \o s
SameAt(r, c, con, con2) == \A i \in 1..c : con2[r[i]] = con[r[i]]

\* The order of the ring after a node is put in front, and after one moves there.
LEMMA OrderPushed ==
  ASSUME NEW S, NEW c \in Nat, NEW r, NEW con, NEW con2, NEW n,
         Order(r, c, con) \in Seq(S), con2[n] \in S, SameAt(r, c, con, con2)
  PROVE  Order(Pushed(r, c, n), c + 1, con2) = Ahead(con2[n], Order(r, c, con))
<1> DEFINE e == con2[n]
           s == Order(r, c, con)
           t == Order(Pushed(r, c, n), c + 1, con2)
<1>1. Len(s) = c /\ \A i \in 1..c : s[i] = con[r[i]]
  BY DEF Order
<1>2. \A i \in 1..(c + 1) : Pushed(r, c, n)[i] = IF i = 1 THEN n ELSE r[i - 1]
  BY DEF Pushed
<1>3. t = [i \in 1..(c + 1) |-> con2[Pushed(r, c, n)[i]]]
  BY DEF Order
<1> HIDE DEF s, t
<1>4. ASSUME NEW i \in 1..(c + 1) PROVE t[i] = IF i = 1 THEN e ELSE s[i - 1]
  <2>1. t[i] = con2[Pushed(r, c, n)[i]] /\ Pushed(r, c, n)[i] = IF i = 1 THEN n ELSE r[i - 1]
    BY <1>2, <1>3, Zenon
  <2>2. ASSUME i # 1 PROVE con2[r[i - 1]] = s[i - 1]
    <3>1. i - 1 \in 1..c
      BY <2>2
    <3> QED
      BY <1>1, <3>1, Zenon DEF SameAt
  <2> QED
    BY <2>1, <2>2, Zenon
<1>5. <<e>> \o s = [i \in 1..(c + 1) |-> IF i = 1 THEN e ELSE s[i - 1]]
  BY <1>1, FirstThen DEF s
<1>6. t = [i \in 1..(c + 1) |-> IF i = 1 THEN e ELSE s[i - 1]]
  BY <1>3, <1>4
<1> QED
  BY <1>5, <1>6 DEF s, t, Ahead

LEMMA OrderMoved ==
  ASSUME NEW S, NEW c \in Nat, NEW r, NEW con, NEW p \in 1..c, Order(r, c, con) \in Seq(S)
  PROVE  Order(Moved(r, c, p), c, con)
           = <<Order(r, c, con)[p]>> \o Abstract!RemoveAt(Order(r, c, con), p)
<1> DEFINE s == Order(r, c, con)
           t == Order(Moved(r, c, p), c, con)
           w == Abstract!RemoveAt(s, p)
<1>1. s \in Seq(S) /\ Len(s) = c /\ \A i \in 1..c : s[i] = con[r[i]]
  BY DEF Order
<1>2. t = [i \in 1..c |-> con[Moved(r, c, p)[i]]]
  BY DEF Order
<1>3. \A i \in 1..c : Moved(r, c, p)[i] = IF i = 1 THEN r[p] ELSE IF i - 1 < p THEN r[i - 1] ELSE r[i]
  <2>1. CASE p = 1
    BY <2>1 DEF Moved
  <2>2. CASE p # 1
    <3>1. Moved(r, c, p) = Pushed(Without(r, c, p), c - 1, r[p])
      BY <2>2 DEF Moved
    <3>2. \A i \in 1..c : Pushed(Without(r, c, p), c - 1, r[p])[i]
                            = IF i = 1 THEN r[p] ELSE Without(r, c, p)[i - 1]
      BY DEF Pushed
    <3>3. \A i \in 2..c : Without(r, c, p)[i - 1] = IF i - 1 < p THEN r[i - 1] ELSE r[i]
      BY DEF Without
    <3> QED
      BY <3>1, <3>2, <3>3
  <2> QED
    BY <2>1, <2>2
<1> HIDE DEF s, t
<1>4. /\ w \in Seq(S) /\ Len(w) = c - 1
      /\ w = [i \in 1..(c - 1) |-> IF i < p THEN s[i] ELSE s[i + 1]]
  BY <1>1, WithoutAt
<1> HIDE DEF w
<1>5. ASSUME NEW i \in 1..c PROVE t[i] = IF i = 1 THEN s[p] ELSE w[i - 1]
  <2>1. CASE i = 1
    BY <1>1, <1>2, <1>3, <2>1
  <2>2. CASE i # 1
    <3>1. i - 1 \in 1..(c - 1) /\ i - 1 \in 1..c /\ (i - 1) + 1 = i
      BY <2>2
    <3>2. w[i - 1] = IF i - 1 < p THEN s[i - 1] ELSE s[i]
      BY <1>4, <3>1
    <3>3. t[i] = con[IF i - 1 < p THEN r[i - 1] ELSE r[i]]
      BY <1>2, <1>3, <2>2
    <3> QED
      BY <1>1, <2>2, <3>1, <3>2, <3>3
  <2> QED
    BY <2>1, <2>2
<1>6. s[p] \in S
  BY <1>1
<1>7. <<s[p]>> \o w = [i \in 1..((c - 1) + 1) |-> IF i = 1 THEN s[p] ELSE w[i - 1]]
  BY <1>4, <1>6, FirstThen
<1>8. t = [i \in 1..c |-> IF i = 1 THEN s[p] ELSE w[i - 1]]
  BY <1>2, <1>5
<1>9. (c - 1) + 1 = c
  OBVIOUS
<1> QED
  BY <1>7, <1>8, <1>9 DEF s, t, w

\* Initially the ring is empty, and so is the order.
LEMMA AbstractInit == Init => Abstract!Init
<1> SUFFICES ASSUME Init PROVE Abstract!Init
  OBVIOUS
<1>1. Inv /\ Callable /\ m_size = 0
  BY InitInv DEF Init, Callable
<1>2. PICK r : Ring(links, heap, r, m_size)
  BY <1>1 DEF Inv, AliveInv
<1>3. Entries = Order(r, 0, content)
  BY <1>1, <1>2, OrderNow DEF OrderOfRing
<1>4. Order(r, 0, content) = <<>>
  BY DEF Order
<1> QED
  BY <1>1, <1>3, <1>4 DEF Init, Abstract!Init

\* A put enters the entry and, in a full cache, leaves the last one out.
LEMMA AbstractPut ==
  ASSUME Inv, Inv', ~PutPresent, NEW k \in Keys, NEW v \in Values, Put(k, v)
  PROVE  Abstract!Next
<1>1. Callable /\ k \notin DOMAIN m_nodeMap /\ putNew(k, v) /\ TypeInv /\ AliveInv
  BY DEF Put, Inv
<1>2. PICK r : Ring(links, heap, r, m_size)
  BY <1>1 DEF AliveInv
<1>3. PICK n \in Nodes \ heap :
        LET l == insertToHead(links, n)
            map == Assign(m_nodeMap, k, n)
            c == [content EXCEPT ![n] = <<k, v>>]
            last == lastNode(l)
        IN  /\ IF m_size + 1 > m_capacity
               THEN /\ links' = free(dropLast(l), last)
                    /\ content' = [c EXCEPT ![last] = <<NoValue, NoValue>>]
                    /\ m_nodeMap' = Restrict(map, DOMAIN map \ {c[last][1]})
                    /\ m_size' = m_size
                    /\ heap' = (heap \cup {n}) \ {last}
               ELSE /\ links' = l
                    /\ content' = c
                    /\ m_nodeMap' = map
                    /\ m_size' = m_size + 1
                    /\ heap' = heap \cup {n}
            /\ UNCHANGED <<m_capacity, result, state>>
  BY <1>1 DEF putNew
<1> DEFINE l == insertToHead(links, n)
           last == lastNode(l)
           h == heap \cup {n}
           q == Pushed(r, m_size, n)
           c == [content EXCEPT ![n] = <<k, v>>]
           s == Order(r, m_size, content)
           e == <<k, v>>
<1>4. /\ Ring(l, h, q, m_size + 1) /\ last = q[m_size + 1]
      /\ Ring(free(dropLast(l), last), h \ {last}, Without(q, m_size + 1, m_size + 1), m_size)
  BY <1>1, <1>2, PutNewRing
<1>5. Entries = s /\ s \in Seq(Entry) /\ Len(s) = m_size /\ m_size \in Nat
  BY <1>1, <1>2, OrderNow DEF OrderOfRing
<1>6. Callable' /\ UNCHANGED <<m_capacity, result>>
  BY <1>1, <1>3 DEF Callable
<1>7. e \in Entry /\ content \in [Nodes -> Entry] /\ heap \subseteq Nodes /\ m_capacity \in Nat
  BY <1>1, NodesAssumption DEF Entry, TypeInv
<1>8. c[n] = e /\ \A a \in heap : c[a] = content[a]
  BY <1>7
<1>9. \A i \in 1..m_size : r[i] \in heap /\ c[r[i]] = content[r[i]]
  BY <1>2, <1>8 DEF Ring
<1>10. \A i \in DOMAIN s : s[i][1] # k
  <2>1. \A i \in 1..m_size : content[r[i]][1] \in DOMAIN m_nodeMap
    BY <1>1, <1>9 DEF AliveInv, Index
  <2> QED
    BY <1>1, <1>5, <2>1 DEF Order
<1>11. Order(q, m_size + 1, c) = <<e>> \o s
  <2>1. SameAt(r, m_size, content, c)
    BY <1>9 DEF SameAt
  <2> HIDE DEF c, e
  <2>2. c[n] \in Entry
    BY <1>7, <1>8
  <2>3. Order(q, m_size + 1, c) = Ahead(c[n], s)
    BY <1>5, <2>1, <2>2, OrderPushed
  <2> QED
    BY <1>8, <2>3 DEF Ahead
<1>12. <<e>> \o s \in Seq(Entry) /\ Len(<<e>> \o s) = m_size + 1
  <2> HIDE DEF e, s
  <2> QED
    BY <1>5, <1>7, FirstThen
<1> DEFINE entries == <<e>> \o s
<1>13. Abstract!Has(k) = FALSE
  BY <1>1, <1>5, <1>10 DEF Abstract!Has
<1>14. Entries' = IF Len(entries) > m_capacity THEN Abstract!Front(entries) ELSE entries
  <2>1. CASE m_size + 1 > m_capacity
    <3>1. /\ links' = free(dropLast(l), last) /\ m_size' = m_size /\ heap' = h \ {last}
          /\ content' = [c EXCEPT ![last] = <<NoValue, NoValue>>]
      BY <1>3, <2>1
    <3> DEFINE q2 == Without(q, m_size + 1, m_size + 1)
    <3> HIDE DEF l, last, h, q, s, e
    <3>2. Entries' = Order(q2, m_size, content')
      BY <1>4, <1>6, <3>1, OrderNext DEF OrderOfRing
    <3>3. \A i \in 1..m_size : q2[i] = q[i] /\ q[i] # last /\ q[i] \in Nodes
      <4>1. \A i \in 1..m_size : q2[i] = q[i]
        BY <1>5 DEF Without
      <4>2. \A i \in 1..m_size : i \in 1..(m_size + 1) /\ m_size + 1 \in 1..(m_size + 1) /\ i # m_size + 1
        BY <1>5
      <4>3. \A i \in 1..m_size : q[i] # last /\ q[i] \in Nodes
        BY <1>4, <4>2 DEF Ring
      <4> QED
        BY <4>1, <4>3
    <3> HIDE DEF q2
    <3>4. \A i \in 1..m_size : content'[q2[i]] = c[q[i]]
      BY <1>7, <3>1, <3>3
    <3>5. Abstract!Front(entries) = [i \in 1..m_size |-> entries[i]]
      <4> HIDE DEF entries
      <4>1. entries \in Seq(Entry) /\ Len(entries) = m_size + 1 /\ (m_size + 1) - 1 = m_size
            /\ m_size + 1 > 0
        BY <1>5, <1>12 DEF entries
      <4>2. Abstract!Front(entries) = [i \in 1..((m_size + 1) - 1) |-> entries[i]]
        BY <4>1, AllButLast
      <4> QED
        BY <4>1, <4>2
    <3> HIDE DEF c
    <3>6. \A i \in 1..m_size : entries[i] = c[q[i]]
      <4>1. entries = [i \in 1..(m_size + 1) |-> c[q[i]]]
        BY <1>11 DEF Order
      <4> HIDE DEF entries
      <4> QED
        BY <1>5, <4>1
    <3> HIDE DEF entries
    <3>7. Order(q2, m_size, content') = [i \in 1..m_size |-> entries[i]]
      BY <3>4, <3>6 DEF Order
    <3> QED
      BY <1>12, <2>1, <3>2, <3>5, <3>7 DEF entries
  <2>2. CASE ~ (m_size + 1 > m_capacity)
    <3>1. links' = l /\ m_size' = m_size + 1 /\ heap' = h /\ content' = c
      BY <1>3, <2>2
    <3> HIDE DEF l, last, h, q, c, s, e
    <3>2. Entries' = Order(q, m_size + 1, c)
      BY <1>4, <1>6, <3>1, OrderNext DEF OrderOfRing
    <3> QED
      BY <1>11, <1>12, <2>2, <3>2
  <2> QED
    BY <2>1, <2>2
<1> HIDE DEF s
<1>15. Abstract!Put(k, v)
  BY <1>1, <1>5, <1>6, <1>13, <1>14 DEF Abstract!Put, Abstract!Enter
<1> QED
  BY <1>15 DEF Abstract!Next

\* A hit moves the entry to the front.
LEMMA AbstractGetHit ==
  ASSUME Inv, Inv', NEW k \in Keys, GetHit(k)
  PROVE  Abstract!Next
<1>1. Callable /\ k \in DOMAIN m_nodeMap /\ TypeInv /\ AliveInv
  BY DEF GetHit, Inv
<1>2. PICK r : Ring(links, heap, r, m_size)
  BY <1>1 DEF AliveInv
<1>3. /\ m_nodeMap[k] # Null /\ content[m_nodeMap[k]][1] = k
      /\ \E p \in 1..m_size : m_nodeMap[k] = r[p]
  BY <1>1, <1>2, HitAt
<1>4. PICK p \in 1..m_size : m_nodeMap[k] = r[p]
  BY <1>3
<1>5. /\ links' = moveNodeToHead(links, r[p]) /\ result' = content[r[p]][2]
      /\ UNCHANGED <<m_capacity, m_size, content, heap, state>>
  BY <1>1, <1>3, <1>4 DEF GetHit
<1>6. links \in Links /\ m_size \in Nat
  BY <1>1 DEF TypeInv
<1>7. Ring(links', heap', Moved(r, m_size, p), m_size')
  BY <1>2, <1>5, <1>6, MoveRing
<1> DEFINE s == Order(r, m_size, content)
<1>8. Entries = s /\ s \in Seq(Entry) /\ Len(s) = m_size
  BY <1>1, <1>2, OrderNow DEF OrderOfRing
<1>9. Callable' /\ Entries' = Order(Moved(r, m_size, p), m_size, content)
  BY <1>1, <1>5, <1>7, OrderNext DEF OrderOfRing, Callable
<1>10. s[p] = content[r[p]] /\ p \in DOMAIN s
  BY DEF Order
<1>11. Order(Moved(r, m_size, p), m_size, content) = <<s[p]>> \o Abstract!RemoveAt(s, p)
  BY <1>6, <1>8, OrderMoved
<1> HIDE DEF s
<1>12. s[p][1] = k /\ result' = s[p][2]
  BY <1>3, <1>4, <1>5, <1>10
<1>13. Abstract!Get(k)
  BY <1>1, <1>5, <1>8, <1>9, <1>10, <1>11, <1>12 DEF Abstract!Get
<1> QED
  BY <1>13 DEF Abstract!Next

LEMMA AbstractGetMiss ==
  ASSUME Inv, Inv', NEW k \in Keys, GetMiss(k)
  PROVE  Abstract!Next
<1>1. /\ Callable /\ k \notin DOMAIN m_nodeMap /\ AliveInv /\ result' = NoValue
      /\ UNCHANGED <<m_capacity, m_size, links, content, heap, state>>
  BY DEF GetMiss, Inv
<1>2. PICK r : Ring(links, heap, r, m_size)
  BY <1>1 DEF AliveInv
<1> DEFINE s == Order(r, m_size, content)
<1>3. Entries = s /\ s \in Seq(Entry) /\ Len(s) = m_size
  BY <1>1, <1>2, OrderNow DEF OrderOfRing
<1>4. Callable' /\ Entries' = s
  BY <1>1, <1>2, OrderNext DEF OrderOfRing, Callable
<1>5. \A i \in DOMAIN s : s[i][1] # k
  <2>1. \A i \in 1..m_size : content[r[i]][1] \in DOMAIN m_nodeMap
    BY <1>1, <1>2 DEF AliveInv, Index, Ring
  <2> QED
    BY <1>1, <1>3, <2>1 DEF Order
<1> HIDE DEF s
<1>6. Abstract!Get(k)
  BY <1>1, <1>3, <1>4, <1>5 DEF Abstract!Get, Abstract!Has
<1> QED
  BY <1>6 DEF Abstract!Next

\* Every step of the cache is a step of LRUSpec or leaves its state alone.
LEMMA AbstractStep ==
  ASSUME Inv, Inv', ~PutPresent, [Next]_vars
  PROVE  [Abstract!Next]_(Abstract!vars)
<1>1. ASSUME NEW k \in Keys, NEW v \in Values, Put(k, v) \/ PutMove(k, v) PROVE Abstract!Next
  BY <1>1, AbstractPut DEF PutMove
<1>2. ASSUME NEW k \in Keys, GetHit(k) PROVE Abstract!Next
  BY <1>2, AbstractGetHit
<1>3. ASSUME NEW k \in Keys, GetMiss(k) PROVE Abstract!Next
  BY <1>3, AbstractGetMiss
<1>4. CASE Destroy
  <2>1. ~Callable' /\ UNCHANGED <<m_capacity, result>>
    BY <1>4, DestroyInv DEF Destroy, Callable
  <2> QED
    BY <2>1 DEF Abstract!Next, Abstract!Destroy
<1>5. CASE UNCHANGED vars
  <2>1. Entries' = Entries
    BY <1>5 DEF vars, Entries, Visited, after
  <2> QED
    BY <1>5, <2>1 DEF vars, Abstract!vars, Callable
<1> QED
  BY <1>1, <1>2, <1>3, <1>4, <1>5 DEF Next, Stopped

\* The cache behaves as an LRU cache: put enters an entry at the front and drops
\* the entry unused for the longest time, get returns what was put and moves the
\* entry to the front.
THEOREM CacheImplementsLRU == ASSUME ~PutPresent PROVE Spec => ImplementsLRU
<1>1. Inv /\ Inv' /\ [Next]_vars => [Abstract!Next]_(Abstract!vars)
  BY AbstractStep
<1> QED
  BY <1>1, AbstractInit, Invariant, PTL DEF Spec, ImplementsLRU, Abstract!Spec

=============================================================================
