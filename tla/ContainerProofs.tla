-------------------------- MODULE ContainerProofs ---------------------------
(***************************************************************************)
(* What every call of Queue.hpp, Vector.hpp, Stack.hpp and CMByteArray.cpp *)
(* keeps, for any number of nodes and any length of a vector, and the spin *)
(* lock for every number of threads and rounds: it excludes, no increment  *)
(* is lost and main prints the number of all increments.                   *)
(*                                                                         *)
(* Nodes that are linked are described by a function r that numbers them:  *)
(* the head node is at 0, the nodes are at 1 .. c and Null is at c + 1.    *)
(* A vector or a byte array is one of two that call each other; what a call *)
(* leaves of them is the same for all calls: one object changed, with its  *)
(* memory, and the other one as it was.                                    *)
(***************************************************************************)
EXTENDS DataStructures, FiniteSetTheorems, SequenceTheorems, WellFoundedInduction, TLAPS

---------------------------------------------------------------------------
(* The spin lock.                                                              *)

\* What a thread knows where it is: the value it read is current while it holds
\* the lock, and it is done only after its last round.
ThreadInv ==
  \A t \in Threads :
    /\ pc[t] = "write" => reg[t] = sum
    /\ pc[t] \in {"lock"} \cup Inside => i[t] < Rounds
    /\ pc[t] = "done" => i[t] = Rounds

\* main has joined the first k threads, and all of them before it prints.
MainInv ==
  /\ main = "join" => \A t \in 1..k : pc[t] = "done"
  /\ main = "printed" => \A t \in Threads : pc[t] = "done"

LockInv == TypeOK /\ MutualExclusion /\ ThreadInv /\ MainInv /\ NoLostIncrement

LEMMA IncrementsFinite == IsFiniteSet(Increments)
<1>1. IsFiniteSet(Threads) /\ IsFiniteSet(1..Rounds)
  BY SpinLockAssumption, FS_Interval DEF Threads
<1>2. IsFiniteSet(Threads \X (1..Rounds))
  BY <1>1, FS_Product
<1>3. Increments \in SUBSET (Threads \X (1..Rounds))
  BY DEF Increments
<1> QED
  BY <1>2, <1>3, FS_Subset

LEMMA LockInvInit == Init => LockInv
<1> SUFFICES ASSUME Init PROVE LockInv
  OBVIOUS
<1> USE SpinLockAssumption DEF Init
<1>1. TypeOK
  <2>1. 0 \in 0..(m_count - 1) /\ 0 \in 0..Rounds /\ 0 \in 0..ThreadCount
    OBVIOUS
  <2>2. pc \in [Threads -> {"new", "loop", "lock", "done"} \cup Inside]
    OBVIOUS
  <2>3. count \in [Threads -> 0..(m_count - 1)]
    BY <2>1
  <2> QED
    BY <2>1, <2>2, <2>3 DEF TypeOK
<1>2. MutualExclusion
  BY DEF MutualExclusion, Inside
<1>5. ThreadInv
  BY DEF ThreadInv, Inside
<1>6. MainInv
  BY DEF MainInv
<1>3. Increments = {}
  BY DEF Increments
<1>4. NoLostIncrement
  BY <1>3, FS_EmptySet DEF NoLostIncrement
<1> QED
  BY <1>1, <1>2, <1>4, <1>5, <1>6 DEF LockInv

LEMMA TypeStep == LockInv /\ [Next]_vars => TypeOK'
<1> SUFFICES ASSUME LockInv, [Next]_vars PROVE TypeOK'
  OBVIOUS
<1> USE SpinLockAssumption DEF LockInv, TypeOK, Goto, Inside
<1>1. CASE UNCHANGED vars
  BY <1>1 DEF vars
<1>2. CASE Main
  BY <1>2 DEF Main, Start, Started, Join, PrintSum
<1>3. ASSUME NEW t \in Threads, Thread(t) PROVE TypeOK'
  <2>1. CASE Loop(t)
    BY <2>1 DEF Loop
  <2>2. CASE Acquire(t)
    BY <2>2 DEF Acquire
  <2>3. CASE Spin(t)
    BY <2>3 DEF Spin
  <2>4. CASE Read(t)
    BY <2>4 DEF Read
  <2>5. CASE Write(t)
    BY <2>5 DEF Write
  <2>6. CASE Unlock(t)
    <3>1. i[t] < Rounds /\ i[t] \in 0..Rounds
      BY <2>6 DEF Unlock, ThreadInv
    <3>2. i[t] + 1 \in 0..Rounds
      BY <3>1
    <3> QED
      BY <2>6, <3>2 DEF Unlock
  <2> QED
    BY <1>3, <2>1, <2>2, <2>3, <2>4, <2>5, <2>6 DEF Thread
<1> QED
  BY <1>1, <1>2, <1>3 DEF Next

\* Entering and leaving keep the lock exclusive.
LEMMA ExclusionStep == LockInv /\ [Next]_vars => MutualExclusion'
<1> SUFFICES ASSUME LockInv, [Next]_vars PROVE MutualExclusion'
  OBVIOUS
<1> USE SpinLockAssumption DEF LockInv, TypeOK, MutualExclusion, Goto, Inside
<1>1. CASE UNCHANGED vars
  BY <1>1 DEF vars
<1>2. CASE Main
  <2>1. CASE Start
    <3>1. k + 1 \in Threads
      BY <2>1 DEF Start, Threads
    <3> QED
      BY <2>1, <3>1 DEF Start
  <2> QED
    BY <1>2, <2>1 DEF Main, Started, Join, PrintSum
<1>3. ASSUME NEW t \in Threads, Thread(t) PROVE MutualExclusion'
  <2>1. CASE Loop(t)
    BY <2>1 DEF Loop
  <2>2. CASE Acquire(t)
    BY <2>2 DEF Acquire
  <2>3. CASE Spin(t)
    BY <2>3 DEF Spin
  <2>4. CASE Read(t)
    BY <2>4 DEF Read
  <2>5. CASE Write(t)
    BY <2>5 DEF Write
  <2>6. CASE Unlock(t)
    BY <2>6 DEF Unlock
  <2> QED
    BY <1>3, <2>1, <2>2, <2>3, <2>4, <2>5, <2>6 DEF Thread
<1> QED
  BY <1>1, <1>2, <1>3 DEF Next

LEMMA ThreadStep == LockInv /\ [Next]_vars => ThreadInv'
<1> SUFFICES ASSUME LockInv, [Next]_vars PROVE ThreadInv'
  OBVIOUS
<1> USE SpinLockAssumption DEF LockInv, TypeOK, ThreadInv, Goto, Inside
<1>1. CASE UNCHANGED vars
  BY <1>1 DEF vars
<1>2. CASE Main
  BY <1>2 DEF Main, Start, Started, Join, PrintSum
<1>3. ASSUME NEW t \in Threads, Thread(t) PROVE ThreadInv'
  <2>1. CASE Loop(t)
    BY <2>1 DEF Loop
  <2>2. CASE Acquire(t)
    BY <2>2 DEF Acquire
  <2>3. CASE Spin(t)
    BY <2>3 DEF Spin
  <2>4. CASE Read(t)
    BY <2>4 DEF Read
  <2>5. CASE Write(t)
    BY <2>5 DEF Write, MutualExclusion
  <2>6. CASE Unlock(t)
    BY <2>6 DEF Unlock
  <2> QED
    BY <1>3, <2>1, <2>2, <2>3, <2>4, <2>5, <2>6 DEF Thread
<1> QED
  BY <1>1, <1>2, <1>3 DEF Next

LEMMA MainStep == LockInv /\ [Next]_vars => MainInv'
<1> SUFFICES ASSUME LockInv, [Next]_vars PROVE MainInv'
  OBVIOUS
<1> USE SpinLockAssumption DEF LockInv, TypeOK, MainInv, Goto, Threads
<1>1. CASE UNCHANGED vars
  BY <1>1 DEF vars
<1>2. CASE Main
  <2>1. CASE Start
    BY <2>1 DEF Start
  <2>2. CASE Started
    BY <2>2 DEF Started
  <2>3. CASE Join
    BY <2>3 DEF Join
  <2>4. CASE PrintSum
    BY <2>4 DEF PrintSum
  <2> QED
    BY <1>2, <2>1, <2>2, <2>3, <2>4 DEF Main
<1>3. ASSUME NEW t \in Threads, Thread(t) PROVE MainInv'
  <2>1. main' = main /\ k' = k /\ pc[t] # "done"
    BY <1>3 DEF Thread, Loop, Acquire, Spin, Read, Write, Unlock
  <2>2. \A s \in Threads : s # t => pc'[s] = pc[s]
    BY <1>3 DEF Thread, Loop, Acquire, Spin, Read, Write, Unlock
  <2>3. 1..k \subseteq Threads
    OBVIOUS
  <2>4. ASSUME main' = "join", NEW s \in 1..k' PROVE pc'[s] = "done"
    <3>1. s \in Threads /\ pc[s] = "done"
      BY <2>1, <2>3, <2>4, Zenon
    <3> QED
      BY <2>1, <2>2, <3>1, Zenon
  <2>5. ASSUME main' = "printed", NEW s \in Threads PROVE pc'[s] = "done"
    <3>1. pc[s] = "done"
      BY <2>1, <2>5, Zenon
    <3> QED
      BY <2>1, <2>2, <3>1, Zenon
  <2> QED
    BY <2>4, <2>5, Zenon
<1> QED
  BY <1>1, <1>2, <1>3 DEF Next

\* Only the write changes sum and the set of increments, by one.
LEMMA CountStep == LockInv /\ [Next]_vars => NoLostIncrement'
<1> SUFFICES ASSUME LockInv, [Next]_vars PROVE NoLostIncrement'
  OBVIOUS
<1> USE SpinLockAssumption DEF LockInv, TypeOK, Goto
<1>1. ASSUME sum' = sum, i' = i,
             \A t \in Threads : pc'[t] = "unlock" <=> pc[t] = "unlock"
      PROVE  NoLostIncrement'
  <2>1. Increments' = Increments
    BY <1>1 DEF Increments
  <2> QED
    BY <1>1, <2>1 DEF NoLostIncrement
<1>2. CASE UNCHANGED vars
  BY <1>1, <1>2 DEF vars
<1>3. CASE Main
  BY <1>1, <1>3 DEF Main, Start, Started, Join, PrintSum
<1>4. ASSUME NEW t \in Threads, Thread(t) PROVE NoLostIncrement'
  <2>1. CASE Write(t)
    <3> DEFINE p == <<t, i[t] + 1>>
    <3>1. p \in Threads \X (1..Rounds) /\ p \notin Increments
      BY <2>1 DEF Write, Increments, ThreadInv, Inside
    <3>2. Increments' = Increments \cup {p}
      BY <2>1, <3>1 DEF Write, Increments
    <3>3. Cardinality(Increments') = Cardinality(Increments) + 1
      BY <3>1, <3>2, IncrementsFinite, FS_AddElement
    <3>4. sum' = sum + 1
      BY <2>1 DEF Write, ThreadInv
    <3> QED
      BY <3>3, <3>4 DEF NoLostIncrement
  <2>2. CASE Unlock(t)
    <3>1. Increments' = Increments
      BY <2>2 DEF Unlock, Increments
    <3> QED
      BY <2>2, <3>1 DEF Unlock, NoLostIncrement
  <2> QED
    BY <1>1, <1>4, <2>1, <2>2 DEF Thread, Loop, Acquire, Spin, Read
<1> QED
  BY <1>2, <1>3, <1>4 DEF Next

LEMMA LockInvAlways == Spec => []LockInv
<1>1. LockInv /\ [Next]_vars => LockInv'
  BY TypeStep, ExclusionStep, ThreadStep, MainStep, CountStep DEF LockInv
<1> QED
  BY <1>1, LockInvInit, PTL DEF Spec

\* SpinLock excludes: for any number of threads at most one is between lock()
\* and unlock().
THEOREM LockExcludes == Spec => []MutualExclusion
<1>1. LockInv => MutualExclusion
  BY DEF LockInv
<1> QED
  BY <1>1, LockInvAlways, PTL

\* sum counts the increments that the threads have carried out.
THEOREM NoIncrementIsLost == Spec => []NoLostIncrement
<1>1. LockInv => NoLostIncrement
  BY DEF LockInv
<1> QED
  BY <1>1, LockInvAlways, PTL

\* What main prints is the number of threads times the number of rounds.
THEOREM PrintedSumIsExact == Spec => []PrintsExactSum
<1>1. LockInv => PrintsExactSum
  <2> SUFFICES ASSUME LockInv, main = "printed" PROVE sum = ThreadCount * Rounds
    BY DEF PrintsExactSum
  <2> USE SpinLockAssumption
  <2>1. \A t \in Threads : i[t] = Rounds
    BY DEF LockInv, MainInv, ThreadInv
  <2>2. Increments = Threads \X (1..Rounds)
    BY <2>1 DEF Increments
  <2>3. /\ IsFiniteSet(Threads) /\ Cardinality(Threads) = ThreadCount
        /\ IsFiniteSet(1..Rounds) /\ Cardinality(1..Rounds) = Rounds
    BY FS_Interval DEF Threads
  <2>4. Cardinality(Threads \X (1..Rounds)) = ThreadCount * Rounds
    BY <2>3, FS_Product
  <2> QED
    BY <2>2, <2>4 DEF LockInv, NoLostIncrement
<1> QED
  BY <1>1, LockInvAlways, PTL

---------------------------------------------------------------------------
(* Induction on natural numbers; walks along pointers.                        *)

\* A set of natural numbers has a least element.
LEMMA LeastNumber ==
  ASSUME NEW C, C \subseteq Nat, C # {}
  PROVE  \E q \in C : \A j \in C : q <= j
<1>1. PICK q \in C : \A j \in C : <<j, q>> \notin OpToRel(<, Nat)
  BY NatLessThanWellFounded, WFMin
<1>2. ASSUME NEW j \in C PROVE q <= j
  <2>1. j \in Nat /\ q \in Nat /\ ~ (j < q)
    BY <1>1 DEF OpToRel
  <2> QED
    BY <2>1
<1> QED
  BY <1>2

\* A set with a number that goes on from each of its numbers to the next, up to
\* N, has them all.
LEMMA GoesOn ==
  ASSUME NEW b \in Nat, NEW N \in Nat, NEW C, b \in C,
         \A j \in (b + 1)..N : j - 1 \in C => j \in C
  PROVE  \A j \in b..N : j \in C
<1> DEFINE D == {j \in b..N : j \notin C}
<1>1. SUFFICES ASSUME D # {} PROVE FALSE
  OBVIOUS
<1>2. PICK q \in D : \A j \in D : q <= j
  <2>1. D \subseteq Nat
    OBVIOUS
  <2> HIDE DEF D
  <2> QED
    BY <1>1, <2>1, LeastNumber
<1>3. q \in (b + 1)..N /\ q - 1 \in b..N /\ q - 1 < q /\ q \in Nat
  BY <1>2
<1>4. q - 1 \in C
  BY <1>2, <1>3
<1> QED
  BY <1>2, <1>3, <1>4

\* Path of Nodes, which both lists use.
Chase(f, p, n) ==
  LET walk[j \in 1..n] ==
        IF j = 1 THEN IF p = Null THEN <<>> ELSE <<p>>
        ELSE LET w == walk[j - 1]
             IN  IF w = <<>> \/ f[w[Len(w)]] = Null THEN w ELSE Append(w, f[w[Len(w)]])
  IN  walk[n]

\* The walks of the list and of the queue are one function.
LEMMA SamePaths == \A f, p, n : L!Path(f, p, n) = Chase(f, p, n) /\ Q!Path(f, p, n) = Chase(f, p, n)
BY DEF L!Path, Q!Path, Chase, L!Last, Q!Last

\* The first n of y[1] .. y[c].
Begin(y, c, n) == [j \in 1..(IF n <= c THEN n ELSE c) |-> y[j]]

\* The first n of y[1] .. y[c] form a sequence, of c elements at most.
LEMMA BeginSeq ==
  ASSUME NEW X, NEW c \in Nat, NEW y \in [1..c -> X], NEW n \in Nat
  PROVE  Begin(y, c, n) \in Seq(X) /\ Len(Begin(y, c, n)) = IF n <= c THEN n ELSE c
BY DEF Begin

\* One step more adds one node, as long as there is one.
LEMMA BeginGrows ==
  ASSUME NEW X, NEW c \in Nat, NEW y \in [1..c -> X], NEW n \in Nat, n < c
  PROVE  Begin(y, c, n + 1) = Append(Begin(y, c, n), y[n + 1])
<1> DEFINE s == Begin(y, c, n)
<1>1. s \in Seq(X) /\ Len(s) = n
  BY BeginSeq
<1>2. s = [j \in 1..n |-> y[j]] /\ Begin(y, c, n + 1) = [j \in 1..(n + 1) |-> y[j]]
  BY DEF Begin
<1>3. y[n + 1] \in X
  OBVIOUS
<1> QED
  BY <1>1, <1>2, <1>3

\* Behind the last node the walk stays as it is.
LEMMA BeginStays ==
  ASSUME NEW c \in Nat, NEW y, NEW n \in Nat, c <= n
  PROVE  Begin(y, c, n + 1) = Begin(y, c, n)
BY DEF Begin

\* f leads from each of y[1] .. y[c] to the next and from the last one nowhere,
\* as far as N steps go from p.
WalksOver(f, p, N, X, y, c) ==
  /\ Null \notin X /\ c \in Nat /\ y \in [1..c -> X] /\ N \in Nat \ {0}
  /\ p = IF c = 0 THEN Null ELSE y[1]
  /\ \A j \in 1..c : j < N => f[y[j]] = IF j = c THEN Null ELSE y[j + 1]

\* The walk then meets y[1], y[2] and so on.
LEMMA PathIs ==
  ASSUME NEW f, NEW p, NEW N \in Nat \ {0}, NEW X, NEW y, NEW c \in Nat, WalksOver(f, p, N, X, y, c)
  PROVE  Chase(f, p, N) = Begin(y, c, N)
<1>0. /\ Null \notin X /\ y \in [1..c -> X] /\ p = IF c = 0 THEN Null ELSE y[1]
      /\ \A j \in 1..c : j < N => f[y[j]] = IF j = c THEN Null ELSE y[j + 1]
  BY DEF WalksOver
<1> USE <1>0
<1> DEFINE base == IF p = Null THEN <<>> ELSE <<p>>
           Longer(w) == IF w = <<>> \/ f[w[Len(w)]] = Null THEN w ELSE Append(w, f[w[Len(w)]])
           Walks(w) == w = [j \in 1..N |-> IF j = 1 THEN base ELSE Longer(w[j - 1])]
           h == [j \in 1..N |-> Begin(y, c, j)]
<1>1. Chase(f, p, N) = (CHOOSE w : Walks(w))[N]
  BY DEF Chase
<1>2. base = Begin(y, c, 1)
  <2>1. CASE c = 0
    BY <2>1 DEF Begin
  <2>2. CASE c # 0
    <3>1. y[1] \in X /\ 1 <= c
      BY <2>2
    <3>2. base = <<y[1]>>
      BY <2>2, <3>1
    <3>3. Begin(y, c, 1) = [j \in 1..1 |-> y[j]]
      BY <3>1 DEF Begin
    <3> QED
      BY <3>2, <3>3
  <2> QED
    BY <2>1, <2>2
<1>3. ASSUME NEW j \in 2..N PROVE Begin(y, c, j) = Longer(Begin(y, c, j - 1))
  <2> DEFINE s == Begin(y, c, j - 1)
  <2>0. PICK n \in Nat : n = j - 1
    BY <1>3
  <2>1. n >= 1 /\ n < N /\ n + 1 = j /\ s = Begin(y, c, n)
    BY <1>3, <2>0
  <2>2. /\ s \in Seq(X) /\ Len(s) = IF n <= c THEN n ELSE c
        /\ n < c => Begin(y, c, j) = Append(s, y[n + 1])
        /\ c <= n => Begin(y, c, j) = s
    <3>1. Begin(y, c, n) \in Seq(X) /\ Len(Begin(y, c, n)) = IF n <= c THEN n ELSE c
      BY BeginSeq, SMTT(30)
    <3>2. n < c => Begin(y, c, n + 1) = Append(Begin(y, c, n), y[n + 1])
      BY BeginGrows
    <3>3. c <= n => Begin(y, c, n + 1) = Begin(y, c, n)
      BY BeginStays
    <3> HIDE DEF s
    <3> QED
      BY <2>1, <3>1, <3>2, <3>3, Zenon
  <2>3. CASE n < c
    <3>1. Len(s) = n /\ s # <<>> /\ s[n] = y[n] /\ n \in 1..c
      BY <2>1, <2>2, <2>3 DEF Begin
    <3>2. f[y[n]] = y[n + 1] /\ y[n + 1] \in X
      BY <2>1, <2>3, <3>1
    <3> HIDE DEF s
    <3>3. f[s[Len(s)]] = y[n + 1] /\ f[s[Len(s)]] # Null
      BY <3>1, <3>2
    <3> QED
      BY <2>2, <2>3, <3>1, <3>3 DEF s
  <2>4. CASE c <= n /\ c # 0
    <3>1. Len(s) = c /\ s[c] = y[c] /\ c \in 1..c /\ c < N
      BY <2>1, <2>2, <2>4 DEF Begin
    <3>2. f[y[c]] = Null
      BY <3>1
    <3> HIDE DEF s
    <3>3. f[s[Len(s)]] = Null
      BY <3>1, <3>2
    <3> QED
      BY <2>2, <2>4, <3>3 DEF s
  <2>5. CASE c = 0
    <3>1. s = <<>>
      BY <2>1, <2>2, <2>5
    <3>2. c <= n
      BY <2>1, <2>5
    <3> HIDE DEF s
    <3> QED
      BY <2>2, <3>1, <3>2 DEF s
  <2> QED
    BY <2>1, <2>3, <2>4, <2>5
<1> HIDE DEF Longer, base
<1>4. Walks(h)
  <2> DEFINE g == [j \in 1..N |-> IF j = 1 THEN base ELSE Longer(h[j - 1])]
  <2>1. ASSUME NEW j \in 1..N PROVE h[j] = g[j]
    <3>1. CASE j = 1
      BY <1>2, <3>1
    <3>2. CASE j # 1
      <4>1. j \in 2..N /\ j - 1 \in 1..N
        BY <3>2
      <4>2. h[j - 1] = Begin(y, c, j - 1) /\ h[j] = Begin(y, c, j)
        BY <4>1
      <4>3. g[j] = Longer(h[j - 1])
        BY <3>2
      <4> QED
        BY <1>3, <4>1, <4>2, <4>3
    <3> QED
      BY <3>1, <3>2
  <2>2. h = g
    <3>1. DOMAIN h = 1..N /\ DOMAIN g = 1..N /\ h = [j \in 1..N |-> h[j]] /\ g = [j \in 1..N |-> g[j]]
      OBVIOUS
    <3> HIDE DEF h, g
    <3> QED
      BY <2>1, <3>1
  <2> QED
    BY <2>2
<1>5. PICK w : w = (CHOOSE v : Walks(v))
  OBVIOUS
<1>6. Walks(w)
  <2> HIDE DEF Walks
  <2> QED
    BY <1>4, <1>5
<1>7. \A j \in 1..N : w[j] = Begin(y, c, j)
  <2> DEFINE C == {j \in 1..N : w[j] = Begin(y, c, j)}
  <2>1. 1 \in C
    BY <1>2, <1>6
  <2>2. ASSUME NEW j \in (1 + 1)..N, j - 1 \in C PROVE j \in C
    <3>1. j \in 2..N /\ j \in 1..N /\ j # 1
      BY <2>2
    <3>2. w[j] = Longer(w[j - 1])
      BY <1>6, <3>1
    <3>3. w[j - 1] = Begin(y, c, j - 1)
      BY <2>2
    <3> QED
      BY <1>3, <3>1, <3>2, <3>3
  <2> HIDE DEF C
  <2>3. \A j \in 1..N : j \in C
    BY <2>1, <2>2, GoesOn
  <2> QED
    BY <2>3 DEF C
<1> QED
  BY <1>1, <1>5, <1>7

---------------------------------------------------------------------------
(* Chains of nodes: r[0] is the head node, r[1] .. r[c] are the nodes behind   *)
(* it and r[c + 1] is Null.                                                    *)

Apart(X) == m_head \notin X /\ Null \notin X /\ Null # m_head

Memories(X) ==
  [data : [X -> {0, 1}], next : [X \cup {m_head} -> X \cup {m_head, Null}],
   previous : [X \cup {m_head} -> X \cup {m_head, Null}]]

IsChain(X, r, c) ==
  /\ r \in [0..(c + 1) -> X \cup {m_head, Null}]
  /\ r[0] = m_head /\ r[c + 1] = Null
  /\ \A j \in 1..c : r[j] \in X
  /\ \A a, b \in 1..c : r[a] = r[b] => a = b

Linked(m, X, r, c) ==
  /\ m \in Memories(X) /\ IsChain(X, r, c)
  /\ \A j \in 0..c : m.next[r[j]] = r[j + 1]
  /\ \A j \in 1..c : m.previous[r[j]] = r[j - 1]

Carries(m, r, c, s) == s \in Seq({0, 1}) /\ Len(s) = c /\ \A j \in 1..c : m.data[r[j]] = s[j]

Body(r, c) == {r[j] : j \in 1..c}

Inserted(r, c, q, n) == [j \in 0..(c + 2) |-> IF j < q THEN r[j] ELSE IF j = q THEN n ELSE r[j - 1]]
Removed(r, c, q) == [j \in 0..c |-> IF j < q THEN r[j] ELSE r[j + 1]]

\* No two places of a chain hold the same.
LEMMA ChainApart ==
  ASSUME NEW X, Apart(X), NEW c \in Nat, NEW r, IsChain(X, r, c)
  PROVE  /\ \A a, b \in 0..(c + 1) : r[a] = r[b] => a = b
         /\ \A a \in 0..c : r[a] # Null
         /\ \A a \in 0..c : r[a] \in X \cup {m_head}
<1>1. ASSUME NEW a \in 0..(c + 1) PROVE a = 0 \/ a = c + 1 \/ a \in 1..c
  OBVIOUS
<1>2. \A a \in 0..(c + 1) : /\ a = 0 => r[a] = m_head
                            /\ a = c + 1 => r[a] = Null
                            /\ a \in 1..c => r[a] \in X
  BY DEF IsChain
<1>3. \A a, b \in 0..(c + 1) : r[a] = r[b] => a = b
  BY <1>1, <1>2, Zenon DEF Apart, IsChain
<1>4. ASSUME NEW a \in 0..c PROVE r[a] # Null /\ r[a] \in X \cup {m_head}
  <2>1. a \in 0..(c + 1) /\ a # c + 1
    OBVIOUS
  <2>2. CASE a = 0
    BY <1>2, <2>1, <2>2 DEF Apart
  <2>3. CASE a \in 1..c
    BY <1>2, <2>1, <2>3 DEF Apart
  <2> QED
    BY <1>1, <2>1, <2>2, <2>3, Zenon
<1> QED
  BY <1>3, <1>4, Zenon

\* A chain with a node put in at place q is a chain.
LEMMA InsertChain ==
  ASSUME NEW X, Apart(X), NEW c \in Nat, NEW r, IsChain(X, r, c),
         NEW q \in 1..(c + 1), NEW n \in X, n \notin Body(r, c)
  PROVE  /\ IsChain(X, Inserted(r, c, q, n), c + 1)
         /\ Body(Inserted(r, c, q, n), c + 1) = Body(r, c) \cup {n}
<1> DEFINE e == Inserted(r, c, q, n)
<1>1. \A j \in 0..(c + 2) : e[j] = IF j < q THEN r[j] ELSE IF j = q THEN n ELSE r[j - 1]
  BY DEF Inserted
<1>2. DOMAIN e = 0..((c + 1) + 1) /\ e = [j \in 0..((c + 1) + 1) |-> e[j]]
  BY DEF Inserted
<1> HIDE DEF e
<1>3. e[0] = m_head /\ e[(c + 1) + 1] = Null
  BY <1>1 DEF IsChain
<1>4. ASSUME NEW j \in 1..(c + 1)
      PROVE  \/ j < q /\ j \in 1..c /\ e[j] = r[j]
             \/ j = q /\ e[j] = n
             \/ j > q /\ j - 1 \in 1..c /\ e[j] = r[j - 1]
  BY <1>1
<1>5. \A j \in 1..c : r[j] \in X /\ r[j] # n
  BY DEF IsChain, Body
<1>6. \A j \in 1..(c + 1) : e[j] \in X
  BY <1>4, <1>5, Zenon
<1>7. e \in [0..((c + 1) + 1) -> X \cup {m_head, Null}]
  <2>1. ASSUME NEW j \in 0..((c + 1) + 1) PROVE e[j] \in X \cup {m_head, Null}
    <3>1. j = 0 \/ j = (c + 1) + 1 \/ j \in 1..(c + 1)
      OBVIOUS
    <3> QED
      BY <1>3, <1>6, <3>1, Zenon
  <2> QED
    BY <1>2, <2>1
<1>8. ASSUME NEW a \in 1..(c + 1), NEW b \in 1..(c + 1), e[a] = e[b] PROVE a = b
  <2>1. CASE a = q \/ b = q
    BY <1>4, <1>5, <1>8, <2>1
  <2>2. CASE a < q /\ b < q
    BY <1>4, <1>8, <2>2 DEF IsChain
  <2>3. CASE a > q /\ b > q
    <3>1. a - 1 \in 1..c /\ b - 1 \in 1..c /\ r[a - 1] = r[b - 1]
      BY <1>4, <1>8, <2>3
    <3>2. a - 1 = b - 1
      BY <3>1 DEF IsChain
    <3> QED
      BY <3>2
  <2>4. CASE a < q /\ b > q
    <3>1. b - 1 \in 1..c /\ a \in 1..c /\ r[a] = r[b - 1]
      BY <1>4, <1>8, <2>4
    <3>2. a = b - 1
      BY <3>1 DEF IsChain
    <3> QED
      BY <2>4, <3>2
  <2>5. CASE a > q /\ b < q
    <3>1. a - 1 \in 1..c /\ b \in 1..c /\ r[b] = r[a - 1]
      BY <1>4, <1>8, <2>5
    <3>2. b = a - 1
      BY <3>1 DEF IsChain
    <3> QED
      BY <2>5, <3>2
  <2> QED
    BY <2>1, <2>2, <2>3, <2>4, <2>5
<1>9. Body(e, c + 1) = Body(r, c) \cup {n}
  <2>1. ASSUME NEW x \in Body(e, c + 1) PROVE x \in Body(r, c) \cup {n}
    <3>1. PICK j \in 1..(c + 1) : x = e[j]
      BY <2>1 DEF Body
    <3> QED
      BY <1>4, <3>1 DEF Body
  <2>2. n \in Body(e, c + 1)
    BY <1>1 DEF Body
  <2>3. ASSUME NEW x \in Body(r, c) PROVE x \in Body(e, c + 1)
    <3>1. PICK j \in 1..c : x = r[j]
      BY <2>3 DEF Body
    <3>2. CASE j < q
      <4>1. j \in 1..(c + 1) /\ e[j] = r[j]
        BY <1>1, <3>2
      <4> QED
        BY <3>1, <4>1 DEF Body
    <3>3. CASE j >= q
      <4>1. j + 1 \in 1..(c + 1) /\ e[j + 1] = r[(j + 1) - 1] /\ (j + 1) - 1 = j
        BY <1>1, <3>3
      <4> QED
        BY <3>1, <4>1 DEF Body
    <3> QED
      BY <3>2, <3>3
  <2> QED
    BY <2>1, <2>2, <2>3
<1> QED
  BY <1>3, <1>6, <1>7, <1>8, <1>9 DEF IsChain, e

\* A chain with its node number q taken out is a chain.
LEMMA RemoveChain ==
  ASSUME NEW X, Apart(X), NEW c \in Nat, NEW r, IsChain(X, r, c), NEW q \in 1..c
  PROVE  /\ IsChain(X, Removed(r, c, q), c - 1) /\ c - 1 \in Nat
         /\ Body(Removed(r, c, q), c - 1) = Body(r, c) \ {r[q]}
<1> DEFINE e == Removed(r, c, q)
<1>1. \A j \in 0..c : e[j] = IF j < q THEN r[j] ELSE r[j + 1]
  BY DEF Removed
<1>2. c - 1 \in Nat /\ (c - 1) + 1 = c /\ DOMAIN e = 0..((c - 1) + 1) /\ e = [j \in 0..((c - 1) + 1) |-> e[j]]
  BY DEF Removed
<1> HIDE DEF e
<1>3. e[0] = m_head /\ e[(c - 1) + 1] = Null
  <2>1. e[0] = r[0] /\ e[c] = r[c + 1]
    BY <1>1
  <2> QED
    BY <1>2, <2>1 DEF IsChain
<1>4. ASSUME NEW j \in 1..(c - 1)
      PROVE  \/ j < q /\ j \in 1..c /\ e[j] = r[j]
             \/ j >= q /\ j + 1 \in 1..c /\ e[j] = r[j + 1]
  BY <1>1
<1>5. \A j \in 1..c : r[j] \in X
  BY DEF IsChain
<1>6. \A j \in 1..(c - 1) : e[j] \in X
  BY <1>4, <1>5, Zenon
<1>7. e \in [0..((c - 1) + 1) -> X \cup {m_head, Null}]
  <2>1. ASSUME NEW j \in 0..((c - 1) + 1) PROVE e[j] \in X \cup {m_head, Null}
    <3>1. j = 0 \/ j = (c - 1) + 1 \/ j \in 1..(c - 1)
      OBVIOUS
    <3> QED
      BY <1>3, <1>6, <3>1, Zenon
  <2> QED
    BY <1>2, <2>1
<1>8. ASSUME NEW a \in 1..(c - 1), NEW b \in 1..(c - 1), e[a] = e[b] PROVE a = b
  <2>2. CASE a < q /\ b < q
    BY <1>4, <1>8, <2>2 DEF IsChain
  <2>3. CASE a >= q /\ b >= q
    <3>1. a + 1 \in 1..c /\ b + 1 \in 1..c /\ r[a + 1] = r[b + 1]
      BY <1>4, <1>8, <2>3
    <3>2. a + 1 = b + 1
      BY <3>1 DEF IsChain
    <3> QED
      BY <3>2
  <2>4. CASE a < q /\ b >= q
    <3>1. b + 1 \in 1..c /\ a \in 1..c /\ r[a] = r[b + 1]
      BY <1>4, <1>8, <2>4
    <3>2. a = b + 1
      BY <3>1 DEF IsChain
    <3> QED
      BY <2>4, <3>2
  <2>5. CASE a >= q /\ b < q
    <3>1. a + 1 \in 1..c /\ b \in 1..c /\ r[b] = r[a + 1]
      BY <1>4, <1>8, <2>5
    <3>2. b = a + 1
      BY <3>1 DEF IsChain
    <3> QED
      BY <2>5, <3>2
  <2> QED
    BY <2>2, <2>3, <2>4, <2>5
<1>9. Body(e, c - 1) = Body(r, c) \ {r[q]}
  <2>1. ASSUME NEW x \in Body(e, c - 1) PROVE x \in Body(r, c) \ {r[q]}
    <3>1. PICK j \in 1..(c - 1) : x = e[j]
      BY <2>1 DEF Body
    <3>2. PICK a \in 1..c : a # q /\ x = r[a]
      BY <1>4, <3>1
    <3> QED
      BY <3>2 DEF Body, IsChain
  <2>3. ASSUME NEW x \in Body(r, c) \ {r[q]} PROVE x \in Body(e, c - 1)
    <3>1. PICK j \in 1..c : x = r[j] /\ j # q
      BY <2>3 DEF Body
    <3>2. CASE j < q
      <4>1. j \in 1..(c - 1) /\ e[j] = r[j]
        BY <1>1, <3>2
      <4> QED
        BY <3>1, <4>1 DEF Body
    <3>3. CASE j > q
      <4>1. j - 1 \in 1..(c - 1) /\ e[j - 1] = r[(j - 1) + 1] /\ (j - 1) + 1 = j
        BY <1>1, <3>3
      <4> QED
        BY <3>1, <4>1 DEF Body
    <3> QED
      BY <3>1, <3>2, <3>3
  <2> QED
    BY <2>1, <2>3
<1> QED
  BY <1>2, <1>3, <1>6, <1>7, <1>8, <1>9 DEF IsChain, e

\* What linkBetween does to every node.
LinkedIn(m2, m, X, p, n, s, v) ==
  /\ m2 \in Memories(X)
  /\ \A x \in X \cup {m_head} : m2.next[x] = IF x = n THEN s ELSE IF x = p THEN n ELSE m.next[x]
  /\ \A x \in X \cup {m_head} : m2.previous[x] = IF x = n THEN p ELSE IF x = s THEN n ELSE m.previous[x]
  /\ \A x \in X : m2.data[x] = IF x = n THEN v ELSE m.data[x]

\* linkBetween sets the pointers between p, n and s and the value of n, no others.
LEMMA Links ==
  ASSUME NEW X, Apart(X), NEW m \in Memories(X), NEW p \in X \cup {m_head}, NEW n \in X, n # p,
         NEW s \in X \cup {Null}, s # n, NEW v \in {0, 1}
  PROVE  LinkedIn(L!linkBetween(m, p, n, s, v), m, X, p, n, s, v)
<1> DEFINE A == X \cup {m_head}
           m2 == L!linkBetween(m, p, n, s, v)
<1>1. /\ m.next \in [A -> X \cup {m_head, Null}] /\ m.previous \in [A -> X \cup {m_head, Null}]
      /\ m.data \in [X -> {0, 1}]
  BY DEF Memories
<1>2. /\ m2.data = [m.data EXCEPT ![n] = v]
      /\ m2.next = [m.next EXCEPT ![p] = n, ![n] = s]
      /\ m2.previous = [x \in DOMAIN m.previous |-> IF x = n THEN p ELSE IF x = s THEN n ELSE m.previous[x]]
      /\ m2 = [data |-> m2.data, next |-> m2.next, previous |-> m2.previous]
  BY DEF L!linkBetween
<1> HIDE DEF m2
<1>3. n \in A /\ p \in A /\ DOMAIN m.next = A /\ DOMAIN m.previous = A
  BY <1>1
<1>4. /\ m2.data \in [X -> {0, 1}]
      /\ \A x \in X : m2.data[x] = IF x = n THEN v ELSE m.data[x]
  BY <1>1, <1>2
<1>5. /\ m2.next \in [A -> X \cup {m_head, Null}]
      /\ \A x \in A : m2.next[x] = IF x = n THEN s ELSE IF x = p THEN n ELSE m.next[x]
  BY <1>1, <1>2, <1>3
<1>6. /\ m2.previous \in [A -> X \cup {m_head, Null}]
      /\ \A x \in A : m2.previous[x] = IF x = n THEN p ELSE IF x = s THEN n ELSE m.previous[x]
  BY <1>1, <1>2, <1>3
<1>7. m2 \in Memories(X)
  BY <1>2, <1>4, <1>5, <1>6 DEF Memories
<1> QED
  BY <1>4, <1>5, <1>6, <1>7 DEF m2, LinkedIn

\* The queue links its nodes the way the list does.
LEMMA SameLinks == \A m, p, n, s, v : Q!linkBetween(m, p, n, s, v) = L!linkBetween(m, p, n, s, v)
BY DEF Q!linkBetween, L!linkBetween

\* m2 holds v in node n and what m did in the nodes of the chain.
Holds(m2, m, r, c, n, v) == m2.data[n] = v /\ \A j \in 1..c : m2.data[r[j]] = m.data[r[j]]

\* A node linked in before place q.
LEMMA InsertLinked ==
  ASSUME NEW X, Apart(X), NEW m, NEW c \in Nat, NEW r, Linked(m, X, r, c),
         NEW q \in 1..(c + 1), NEW n \in X, n \notin Body(r, c), NEW v \in {0, 1}
  PROVE  /\ Linked(L!linkBetween(m, r[q - 1], n, r[q], v), X, Inserted(r, c, q, n), c + 1)
         /\ Body(Inserted(r, c, q, n), c + 1) = Body(r, c) \cup {n}
         /\ Holds(L!linkBetween(m, r[q - 1], n, r[q], v), m, r, c, n, v)
<1> DEFINE e == Inserted(r, c, q, n)
           m2 == L!linkBetween(m, r[q - 1], n, r[q], v)
           A == X \cup {m_head}
<1>1. /\ m \in Memories(X) /\ IsChain(X, r, c)
      /\ \A j \in 0..c : m.next[r[j]] = r[j + 1]
      /\ \A j \in 1..c : m.previous[r[j]] = r[j - 1]
  BY DEF Linked
<1>2. /\ \A a, b \in 0..(c + 1) : r[a] = r[b] => a = b
      /\ \A a \in 0..c : r[a] # Null
      /\ \A a \in 0..c : r[a] \in A
  BY <1>1, ChainApart
<1>3. IsChain(X, e, c + 1) /\ Body(e, c + 1) = Body(r, c) \cup {n}
  BY <1>1, InsertChain
<1>4. \A j \in 0..c : r[j] # n
  <2>1. ASSUME NEW j \in 0..c PROVE r[j] # n
    <3>1. j = 0 \/ j \in 1..c
      OBVIOUS
    <3> QED
      BY <1>1, <3>1 DEF IsChain, Body, Apart
  <2> QED
    BY <2>1
<1>5. q - 1 \in 0..c /\ r[q - 1] \in A /\ r[q - 1] # n
  BY <1>2, <1>4
<1>6. r[q] \in X \cup {Null} /\ r[q] # n
  <2>1. CASE q = c + 1
    BY <1>1, <2>1 DEF IsChain, Apart
  <2>2. CASE q \in 1..c
    BY <1>1, <1>4, <2>2 DEF IsChain
  <2> QED
    BY <2>1, <2>2
<1>7. /\ m2 \in Memories(X)
      /\ \A x \in A : m2.next[x] = IF x = n THEN r[q] ELSE IF x = r[q - 1] THEN n ELSE m.next[x]
      /\ \A x \in A : m2.previous[x] = IF x = n THEN r[q - 1] ELSE IF x = r[q] THEN n ELSE m.previous[x]
      /\ \A x \in X : m2.data[x] = IF x = n THEN v ELSE m.data[x]
  <2>1. PICK p \in X \cup {m_head}, s \in X \cup {Null} : p = r[q - 1] /\ s = r[q]
    BY <1>5, <1>6
  <2>2. n # p /\ s # n
    BY <1>5, <1>6, <2>1
  <2>3. LinkedIn(L!linkBetween(m, p, n, s, v), m, X, p, n, s, v)
    BY <1>1, <2>2, Links
  <2> QED
    BY <2>1, <2>3 DEF LinkedIn
<1>8. \A j \in 0..(c + 2) : e[j] = IF j < q THEN r[j] ELSE IF j = q THEN n ELSE r[j - 1]
  BY DEF Inserted
<1> HIDE DEF e, m2, A
<1>9. n \in A
  BY DEF A
<1>10. ASSUME NEW j \in 0..(c + 1) PROVE m2.next[e[j]] = e[j + 1]
  <2>1. CASE j < q - 1
    <3>1. e[j] = r[j] /\ e[j + 1] = r[j + 1] /\ j \in 0..c /\ j # q - 1
      BY <1>8, <2>1
    <3>2. r[j] # r[q - 1] /\ r[j] # n /\ r[j] \in A
      BY <1>2, <1>4, <1>5, <3>1
    <3> QED
      BY <1>1, <1>7, <3>1, <3>2
  <2>2. CASE j = q - 1
    <3>1. e[j] = r[q - 1] /\ e[j + 1] = n
      BY <1>8, <2>2
    <3> QED
      BY <1>5, <1>7, <3>1
  <2>3. CASE j = q
    <3>1. e[j] = n /\ e[j + 1] = r[q]
      BY <1>8, <2>3
    <3> QED
      BY <1>7, <1>9, <3>1
  <2>4. CASE j > q
    <3>1. e[j] = r[j - 1] /\ e[j + 1] = r[j] /\ j - 1 \in 0..c /\ j - 1 # q - 1 /\ (j - 1) + 1 = j
      BY <1>8, <2>4
    <3>2. r[j - 1] # r[q - 1] /\ r[j - 1] # n /\ r[j - 1] \in A
      BY <1>2, <1>4, <1>5, <3>1
    <3>3. m.next[r[j - 1]] = r[j]
      BY <1>1, <3>1
    <3> QED
      BY <1>7, <3>1, <3>2, <3>3
  <2> QED
    BY <2>1, <2>2, <2>3, <2>4
<1>11. ASSUME NEW j \in 1..(c + 1) PROVE m2.previous[e[j]] = e[j - 1]
  <2>1. CASE j < q
    <3>1. e[j] = r[j] /\ e[j - 1] = r[j - 1] /\ j \in 0..c /\ j \in 1..c /\ j \in 0..(c + 1) /\ q \in 0..(c + 1) /\ j # q
      BY <1>8, <2>1
    <3>2. r[j] # r[q] /\ r[j] # n /\ r[j] \in A
      BY <1>2, <1>4, <3>1
    <3> QED
      BY <1>1, <1>7, <3>1, <3>2
  <2>2. CASE j = q
    <3>1. e[j] = n /\ e[j - 1] = r[q - 1]
      BY <1>8, <2>2
    <3> QED
      BY <1>7, <1>9, <3>1
  <2>3. CASE j = q + 1
    <3>1. e[j] = r[q] /\ e[j - 1] = n /\ q \in 0..c
      BY <1>8, <2>3
    <3> QED
      BY <1>2, <1>6, <1>7, <3>1
  <2>4. CASE j > q + 1
    <3>1. e[j] = r[j - 1] /\ e[j - 1] = r[(j - 1) - 1] /\ j - 1 \in 1..c /\ j - 1 \in 0..c /\ j - 1 # q
          /\ j - 1 \in 0..(c + 1) /\ q \in 0..(c + 1)
      BY <1>8, <2>4
    <3>2. r[j - 1] # r[q] /\ r[j - 1] # n /\ r[j - 1] \in A
      BY <1>2, <1>4, <3>1
    <3>3. m.previous[r[j - 1]] = r[(j - 1) - 1]
      BY <1>1, <3>1
    <3> QED
      BY <1>7, <3>1, <3>2, <3>3
  <2> QED
    BY <2>1, <2>2, <2>3, <2>4
<1>12. \A j \in 1..c : m2.data[r[j]] = m.data[r[j]]
  <2>1. ASSUME NEW j \in 1..c PROVE m2.data[r[j]] = m.data[r[j]]
    <3>1. r[j] \in X /\ r[j] # n
      BY <1>1, <1>4 DEF IsChain
    <3> QED
      BY <1>7, <3>1
  <2> QED
    BY <2>1
<1>13. m2.data[n] = v
  BY <1>7
<1>14. Linked(m2, X, e, c + 1)
  BY <1>3, <1>7, <1>10, <1>11 DEF Linked
<1>15. Holds(m2, m, r, c, n, v)
  BY <1>12, <1>13 DEF Holds
<1> QED
  BY <1>3, <1>14, <1>15 DEF e, m2

\* The node at place q taken out: m2 differs from m at its neighbours only.
LEMMA RemoveLinked ==
  ASSUME NEW X, Apart(X), NEW m, NEW c \in Nat, NEW r, Linked(m, X, r, c), NEW q \in 1..c,
         NEW m2 \in Memories(X),
         \A x \in X \cup {m_head} : m2.next[x] = IF x = r[q - 1] THEN r[q + 1] ELSE m.next[x],
         \A x \in X \cup {m_head} : m2.previous[x] = IF x = r[q + 1] THEN r[q - 1] ELSE m.previous[x]
  PROVE  /\ Linked(m2, X, Removed(r, c, q), c - 1) /\ c - 1 \in Nat
         /\ Body(Removed(r, c, q), c - 1) = Body(r, c) \ {r[q]}
<1> DEFINE e == Removed(r, c, q)
           A == X \cup {m_head}
<1>1. /\ m \in Memories(X) /\ IsChain(X, r, c)
      /\ \A j \in 0..c : m.next[r[j]] = r[j + 1]
      /\ \A j \in 1..c : m.previous[r[j]] = r[j - 1]
  BY DEF Linked
<1>2. /\ \A a, b \in 0..(c + 1) : r[a] = r[b] => a = b
      /\ \A a \in 0..c : r[a] # Null
      /\ \A a \in 0..c : r[a] \in A
  BY <1>1, ChainApart
<1>3. IsChain(X, e, c - 1) /\ Body(e, c - 1) = Body(r, c) \ {r[q]} /\ c - 1 \in Nat
  BY <1>1, RemoveChain
<1>8. \A j \in 0..c : e[j] = IF j < q THEN r[j] ELSE r[j + 1]
  BY DEF Removed
<1>9. q - 1 \in 0..c /\ q + 1 \in 0..(c + 1)
  OBVIOUS
<1> HIDE DEF e, A
<1>7. /\ \A x \in A : m2.next[x] = IF x = r[q - 1] THEN r[q + 1] ELSE m.next[x]
      /\ \A x \in A : m2.previous[x] = IF x = r[q + 1] THEN r[q - 1] ELSE m.previous[x]
  BY DEF A
<1>10. ASSUME NEW j \in 0..(c - 1) PROVE m2.next[e[j]] = e[j + 1]
  <2>1. CASE j < q - 1
    <3>1. e[j] = r[j] /\ e[j + 1] = r[j + 1] /\ j \in 0..c /\ j # q - 1
      BY <1>8, <2>1
    <3>2. r[j] # r[q - 1] /\ r[j] \in A
      BY <1>2, <1>9, <3>1
    <3> QED
      BY <1>1, <1>7, <3>1, <3>2
  <2>2. CASE j = q - 1
    <3>1. e[j] = r[q - 1] /\ e[j + 1] = r[q + 1] /\ r[q - 1] \in A
      BY <1>2, <1>8, <1>9, <2>2
    <3> QED
      BY <1>7, <3>1
  <2>3. CASE j > q - 1
    <3>1. e[j] = r[j + 1] /\ e[j + 1] = r[(j + 1) + 1] /\ j + 1 \in 0..c /\ j + 1 # q - 1
      BY <1>8, <2>3
    <3>2. r[j + 1] # r[q - 1] /\ r[j + 1] \in A
      BY <1>2, <1>9, <3>1
    <3>3. m.next[r[j + 1]] = r[(j + 1) + 1]
      BY <1>1, <3>1
    <3> QED
      BY <1>7, <3>1, <3>2, <3>3
  <2> QED
    BY <2>1, <2>2, <2>3
<1>11. ASSUME NEW j \in 1..(c - 1) PROVE m2.previous[e[j]] = e[j - 1]
  <2>1. CASE j < q
    <3>1. e[j] = r[j] /\ e[j - 1] = r[j - 1] /\ j \in 0..c /\ j \in 1..c /\ j \in 0..(c + 1) /\ j # q + 1
      BY <1>8, <2>1
    <3>2. r[j] # r[q + 1] /\ r[j] \in A
      BY <1>2, <1>9, <3>1
    <3> QED
      BY <1>1, <1>7, <3>1, <3>2
  <2>2. CASE j = q
    <3>1. e[j] = r[q + 1] /\ e[j - 1] = r[q - 1] /\ q + 1 \in 0..c
      BY <1>8, <2>2
    <3>2. r[q + 1] \in A
      BY <1>2, <3>1
    <3> QED
      BY <1>7, <3>1, <3>2
  <2>3. CASE j > q
    <3>1. e[j] = r[j + 1] /\ e[j - 1] = r[(j - 1) + 1] /\ (j - 1) + 1 = (j + 1) - 1
          /\ j + 1 \in 1..c /\ j + 1 \in 0..c /\ j + 1 \in 0..(c + 1) /\ j + 1 # q + 1
      BY <1>8, <2>3
    <3>2. r[j + 1] # r[q + 1] /\ r[j + 1] \in A
      BY <1>2, <1>9, <3>1
    <3>3. m.previous[r[j + 1]] = r[(j + 1) - 1]
      BY <1>1, <3>1
    <3> QED
      BY <1>7, <3>1, <3>2, <3>3
  <2> QED
    BY <2>1, <2>2, <2>3
<1>14. Linked(m2, X, e, c - 1)
  BY <1>3, <1>10, <1>11 DEF Linked
<1> QED
  BY <1>3, <1>14 DEF e

---------------------------------------------------------------------------
(* Sequences with an element put in or taken out.                              *)

IsInserted(t, s, q, v) ==
  /\ Len(t) = Len(s) + 1
  /\ \A j \in 1..(Len(s) + 1) : t[j] = IF j < q THEN s[j] ELSE IF j = q THEN v ELSE s[j - 1]

IsRemoved(t, s, q) ==
  /\ Len(t) = Len(s) - 1
  /\ \A j \in 1..(Len(s) - 1) : t[j] = IF j < q THEN s[j] ELSE s[j + 1]

\* The parts of a sequence and two sequences one after the other.
LEMMA PartOf ==
  ASSUME NEW W, NEW s \in Seq(W), NEW a \in 1..(Len(s) + 1), NEW b \in (a - 1)..Len(s)
  PROVE  /\ SubSeq(s, a, b) \in Seq(W) /\ Len(SubSeq(s, a, b)) = b - a + 1
         /\ \A j \in 1..(b - a + 1) : SubSeq(s, a, b)[j] = s[a + j - 1]
BY SubSeqProperties

\* Length and elements of two sequences put together.
LEMMA CatOf ==
  ASSUME NEW W, NEW s \in Seq(W), NEW t \in Seq(W)
  PROVE  /\ s \o t \in Seq(W) /\ Len(s \o t) = Len(s) + Len(t)
         /\ \A j \in 1..(Len(s) + Len(t)) : (s \o t)[j] = IF j <= Len(s) THEN s[j] ELSE t[j - Len(s)]
BY ConcatProperties

\* The reference with an element inserted at place q.
LEMMA SeqInserted ==
  ASSUME NEW W, NEW s \in Seq(W), NEW q \in 1..(Len(s) + 1), NEW v \in W
  PROVE  /\ SubSeq(s, 1, q - 1) \o <<v>> \o SubSeq(s, q, Len(s)) \in Seq(W)
         /\ IsInserted(SubSeq(s, 1, q - 1) \o <<v>> \o SubSeq(s, q, Len(s)), s, q, v)
<1> DEFINE n == Len(s)
<1>1. n \in Nat /\ q \in 1..(n + 1) /\ q - 1 \in 0..n
  OBVIOUS
<1>2. PICK x : x = SubSeq(s, 1, q - 1)
  OBVIOUS
<1>3. PICK y : y = SubSeq(s, q, n)
  OBVIOUS
<1>4. x \in Seq(W) /\ Len(x) = q - 1 /\ \A j \in 1..(q - 1) : x[j] = s[j]
  BY <1>1, <1>2, SubSeqProperties
<1>5. y \in Seq(W) /\ Len(y) = n - q + 1 /\ \A j \in 1..(n - q + 1) : y[j] = s[q + j - 1]
  BY <1>1, <1>3, SubSeqProperties
<1> HIDE DEF n
<1>6. PICK z \in Seq(W) : z = x \o <<v>> /\ Len(z) = q /\ \A j \in 1..q : z[j] = IF j <= q - 1 THEN x[j] ELSE <<v>>[j - (q - 1)]
  <2>1. <<v>> \in Seq(W) /\ Len(<<v>>) = 1 /\ Len(x) + 1 = q
    BY <1>1, <1>4
  <2>2. x \o <<v>> \in Seq(W) /\ Len(x \o <<v>>) = Len(x) + Len(<<v>>)
        /\ \A j \in 1..(Len(x) + Len(<<v>>)) : (x \o <<v>>)[j] = IF j <= Len(x) THEN x[j] ELSE <<v>>[j - Len(x)]
    BY <1>4, <2>1, CatOf
  <2> QED
    BY <1>4, <2>1, <2>2, ZenonT(60)
<1>7. \A j \in 1..q : z[j] = IF j = q THEN v ELSE s[j]
  <2>1. ASSUME NEW j \in 1..q PROVE z[j] = IF j = q THEN v ELSE s[j]
    <3>1. CASE j = q
      <4>1. ~ (j <= q - 1) /\ j - (q - 1) = 1
        BY <1>1, <3>1
      <4>2. z[j] = <<v>>[1]
        BY <1>6, <4>1
      <4> QED
        BY <3>1, <4>2
    <3>2. CASE j # q
      <4>1. j <= q - 1 /\ j \in 1..(q - 1)
        BY <1>1, <3>2
      <4> QED
        BY <1>4, <1>6, <3>2, <4>1
    <3> QED
      BY <3>1, <3>2
  <2> QED
    BY <2>1
<1>8. PICK t \in Seq(W) : t = z \o y /\ Len(t) = n + 1 /\ \A j \in 1..(n + 1) : t[j] = IF j <= q THEN z[j] ELSE y[j - q]
  <2>0. y \in Seq(W) /\ Len(z) = q /\ Len(y) = n - q + 1
    BY <1>5, <1>6
  <2>1. Len(z) + Len(y) = n + 1
    <3>1. q + (n - q + 1) = n + 1
      BY <1>1
    <3> QED
      BY <2>0, <3>1
  <2>2. z \o y \in Seq(W) /\ Len(z \o y) = Len(z) + Len(y)
        /\ \A j \in 1..(Len(z) + Len(y)) : (z \o y)[j] = IF j <= Len(z) THEN z[j] ELSE y[j - Len(z)]
    BY <2>0, CatOf
  <2> QED
    BY <1>6, <2>1, <2>2
<1>9. ASSUME NEW j \in 1..(n + 1) PROVE t[j] = IF j < q THEN s[j] ELSE IF j = q THEN v ELSE s[j - 1]
  <2>1. CASE j <= q
    <3>1. j \in 1..q /\ (j < q <=> j # q)
      BY <1>1, <2>1
    <3> QED
      BY <1>7, <1>8, <2>1, <3>1
  <2>2. CASE ~ (j <= q)
    <3>1. j - q \in 1..(n - q + 1) /\ q + (j - q) - 1 = j - 1 /\ ~ (j < q) /\ j # q
      BY <1>1, <2>2
    <3>2. y[j - q] = s[q + (j - q) - 1]
      BY <1>5, <3>1
    <3> QED
      BY <1>8, <2>2, <3>1, <3>2
  <2> QED
    BY <2>1, <2>2
<1> QED
  BY <1>2, <1>3, <1>6, <1>8, <1>9 DEF IsInserted, n

\* The reference with the element at place q erased.
LEMMA SeqRemoved ==
  ASSUME NEW W, NEW s \in Seq(W), NEW q \in 1..Len(s)
  PROVE  /\ SubSeq(s, 1, q - 1) \o SubSeq(s, q + 1, Len(s)) \in Seq(W)
         /\ IsRemoved(SubSeq(s, 1, q - 1) \o SubSeq(s, q + 1, Len(s)), s, q)
<1> DEFINE n == Len(s)
<1>1. n \in Nat /\ q \in 1..n /\ q - 1 \in 0..n /\ q + 1 \in 1..(n + 1)
  OBVIOUS
<1>2. PICK x : x = SubSeq(s, 1, q - 1)
  OBVIOUS
<1>3. PICK y : y = SubSeq(s, q + 1, n)
  OBVIOUS
<1>4. x \in Seq(W) /\ Len(x) = q - 1 /\ \A j \in 1..(q - 1) : x[j] = s[j]
  BY <1>1, <1>2, SubSeqProperties
<1>5. y \in Seq(W) /\ Len(y) = n - q /\ \A j \in 1..(n - q) : y[j] = s[q + j]
  BY <1>1, <1>3, SubSeqProperties
<1> HIDE DEF n
<1>8. PICK t \in Seq(W) : t = x \o y /\ Len(t) = n - 1 /\ \A j \in 1..(n - 1) : t[j] = IF j <= q - 1 THEN x[j] ELSE y[j - (q - 1)]
  <2>1. Len(x) + Len(y) = n - 1
    BY <1>1, <1>4, <1>5
  <2>2. x \o y \in Seq(W) /\ Len(x \o y) = Len(x) + Len(y)
        /\ \A j \in 1..(Len(x) + Len(y)) : (x \o y)[j] = IF j <= Len(x) THEN x[j] ELSE y[j - Len(x)]
    BY <1>4, <1>5, CatOf
  <2> QED
    BY <1>4, <2>1, <2>2
<1>9. ASSUME NEW j \in 1..(n - 1) PROVE t[j] = IF j < q THEN s[j] ELSE s[j + 1]
  <2>1. CASE j <= q - 1
    <3>1. j \in 1..(q - 1) /\ j < q
      BY <1>1, <2>1
    <3> QED
      BY <1>4, <1>8, <2>1, <3>1
  <2>2. CASE ~ (j <= q - 1)
    <3>1. j - (q - 1) \in 1..(n - q) /\ q + (j - (q - 1)) = j + 1 /\ ~ (j < q)
      BY <1>1, <2>2
    <3>2. y[j - (q - 1)] = s[q + (j - (q - 1))]
      BY <1>5, <3>1
    <3> QED
      BY <1>8, <2>2, <3>1, <3>2
  <2> QED
    BY <2>1, <2>2
<1> QED
  BY <1>2, <1>3, <1>8, <1>9 DEF IsRemoved, n

\* What the operators of SequencesExt make of an element put in or taken out.
LEMMA SeqEnds ==
  ASSUME NEW W, NEW s \in Seq(W), NEW v \in W
  PROVE  /\ Append(s, v) \in Seq(W) /\ IsInserted(Append(s, v), s, Len(s) + 1, v)
         /\ <<v>> \o s \in Seq(W) /\ IsInserted(<<v>> \o s, s, 1, v)
         /\ s # <<>> => /\ Tail(s) \in Seq(W) /\ IsRemoved(Tail(s), s, 1)
                        /\ SubSeq(s, 1, Len(s) - 1) \in Seq(W)
                        /\ IsRemoved(SubSeq(s, 1, Len(s) - 1), s, Len(s))
<1>1. Append(s, v) \in Seq(W) /\ IsInserted(Append(s, v), s, Len(s) + 1, v)
  BY DEF IsInserted
<1>2. <<v>> \o s \in Seq(W) /\ IsInserted(<<v>> \o s, s, 1, v)
  <2>0. <<v>> \in Seq(W) /\ Len(<<v>>) = 1 /\ <<v>>[1] = v
    OBVIOUS
  <2>1. PICK x \in Seq(W) : x = <<v>> /\ Len(x) = 1 /\ x[1] = v
    BY <2>0
  <2>4. /\ x \o s \in Seq(W) /\ Len(x \o s) = Len(x) + Len(s)
        /\ \A j \in 1..(Len(x) + Len(s)) : (x \o s)[j] = IF j <= Len(x) THEN x[j] ELSE s[j - Len(x)]
    BY CatOf
  <2>2. PICK t \in Seq(W) : t = <<v>> \o s /\ Len(t) = 1 + Len(s)
          /\ \A j \in 1..(1 + Len(s)) : t[j] = IF j <= 1 THEN x[j] ELSE s[j - 1]
    BY <2>1, <2>4
  <2>3. ASSUME NEW j \in 1..(Len(s) + 1) PROVE t[j] = IF j < 1 THEN s[j] ELSE IF j = 1 THEN v ELSE s[j - 1]
    BY <2>1, <2>2
  <2> QED
    BY <2>2, <2>3 DEF IsInserted
<1>3. ASSUME s # <<>>
      PROVE  Tail(s) \in Seq(W) /\ IsRemoved(Tail(s), s, 1)
  BY <1>3 DEF IsRemoved
<1>4. ASSUME s # <<>>
      PROVE  SubSeq(s, 1, Len(s) - 1) \in Seq(W) /\ IsRemoved(SubSeq(s, 1, Len(s) - 1), s, Len(s))
  <2>1. Len(s) \in Nat \ {0}
    BY <1>4
  <2>2. /\ SubSeq(s, 1, Len(s) - 1) \in Seq(W) /\ Len(SubSeq(s, 1, Len(s) - 1)) = Len(s) - 1
        /\ \A j \in 1..(Len(s) - 1) : SubSeq(s, 1, Len(s) - 1)[j] = s[j]
    <3>1. PICK n \in Nat : n = Len(s) - 1
      BY <2>1
    <3>2. 1 \in 1..(Len(s) + 1) /\ n \in (1 - 1)..Len(s) /\ n - 1 + 1 = n
      BY <2>1, <3>1
    <3>3. /\ SubSeq(s, 1, n) \in Seq(W) /\ Len(SubSeq(s, 1, n)) = n - 1 + 1
          /\ \A j \in 1..(n - 1 + 1) : SubSeq(s, 1, n)[j] = s[1 + j - 1]
      BY <3>2, PartOf
    <3>4. \A j \in 1..n : 1 + j - 1 = j
      OBVIOUS
    <3> QED
      BY <3>1, <3>2, <3>3, <3>4
  <2> QED
    BY <2>1, <2>2 DEF IsRemoved
<1> QED
  BY <1>1, <1>2, <1>3, <1>4

---------------------------------------------------------------------------
(* Chains and what they carry.                                                 *)

\* A node put in carries its value where the reference has it inserted.
LEMMA InsertCarries ==
  ASSUME NEW m, NEW m2, NEW c \in Nat, NEW r, NEW s, Carries(m, r, c, s),
         NEW q \in 1..(c + 1), NEW n, NEW v, Holds(m2, m, r, c, n, v),
         NEW t \in Seq({0, 1}), IsInserted(t, s, q, v)
  PROVE  Carries(m2, Inserted(r, c, q, n), c + 1, t)
<1> DEFINE e == Inserted(r, c, q, n)
<1>1. /\ Len(s) = c /\ Len(t) = c + 1 /\ \A j \in 1..c : m2.data[r[j]] = s[j]
      /\ m2.data[n] = v
  BY DEF Carries, IsInserted, Holds
<1>2. \A j \in 0..(c + 2) : e[j] = IF j < q THEN r[j] ELSE IF j = q THEN n ELSE r[j - 1]
  BY DEF Inserted
<1> HIDE DEF e
<1>3. ASSUME NEW j \in 1..(c + 1) PROVE m2.data[e[j]] = t[j]
  <2>0. t[j] = IF j < q THEN s[j] ELSE IF j = q THEN v ELSE s[j - 1]
    BY <1>1 DEF IsInserted
  <2>1. CASE j < q
    <3>1. j \in 1..c /\ e[j] = r[j]
      BY <1>2, <2>1
    <3> QED
      BY <1>1, <2>0, <2>1, <3>1
  <2>2. CASE j = q
    BY <1>1, <1>2, <2>0, <2>2
  <2>3. CASE j > q
    <3>1. j - 1 \in 1..c /\ e[j] = r[j - 1] /\ ~ (j < q) /\ j # q
      BY <1>2, <2>3
    <3> QED
      BY <1>1, <2>0, <3>1
  <2> QED
    BY <2>1, <2>2, <2>3
<1> QED
  BY <1>1, <1>3 DEF Carries, e

\* The nodes that stay carry what stays in the reference.
LEMMA RemoveCarries ==
  ASSUME NEW m, NEW m2, NEW c \in Nat, NEW r, NEW s, Carries(m, r, c, s),
         NEW q \in 1..c, m2.data = m.data,
         NEW t \in Seq({0, 1}), IsRemoved(t, s, q)
  PROVE  Carries(m2, Removed(r, c, q), c - 1, t)
<1> DEFINE e == Removed(r, c, q)
<1>1. Len(s) = c /\ Len(t) = c - 1 /\ \A j \in 1..c : m2.data[r[j]] = s[j]
  BY DEF Carries, IsRemoved
<1>2. \A j \in 0..c : e[j] = IF j < q THEN r[j] ELSE r[j + 1]
  BY DEF Removed
<1> HIDE DEF e
<1>3. ASSUME NEW j \in 1..(c - 1) PROVE m2.data[e[j]] = t[j]
  <2>0. t[j] = IF j < q THEN s[j] ELSE s[j + 1]
    BY <1>1 DEF IsRemoved
  <2>1. CASE j < q
    <3>1. j \in 1..c /\ e[j] = r[j]
      BY <1>2, <2>1
    <3> QED
      BY <1>1, <2>0, <2>1, <3>1
  <2>2. CASE ~ (j < q)
    <3>1. j + 1 \in 1..c /\ e[j] = r[j + 1]
      BY <1>2, <2>2
    <3> QED
      BY <1>1, <2>0, <2>2, <3>1
  <2> QED
    BY <2>1, <2>2
<1> QED
  BY <1>1, <1>3 DEF Carries, e

\* A chain of different nodes is no longer than there are nodes.
LEMMA ChainFits ==
  ASSUME NEW X, IsFiniteSet(X), NEW c \in Nat, NEW r, IsChain(X, r, c)
  PROVE  Cardinality(X) \in Nat /\ c <= Cardinality(X)
<1> DEFINE f == [j \in 1..c |-> r[j]]
<1>1. f \in [1..c -> X] /\ \A a, b \in 1..c : f[a] = f[b] => a = b
  BY DEF IsChain
<1>2. f \in Injection(1..c, X)
  BY <1>1 DEF Injection, IsInjective
<1>3. Cardinality(1..c) <= Cardinality(X)
  BY <1>2, FS_Injection
<1>4. Cardinality(1..c) = c
  BY FS_Interval
<1>5. Cardinality(X) \in Nat
  BY FS_CardinalityType
<1> QED
  BY <1>3, <1>4, <1>5

\* The walk from the head along next meets the nodes of the chain.
Listing(r, c) == [j \in 1..c |-> r[j]]

\* The walk from the head lists the chain, and all of it.
LEMMA WholeChain ==
  ASSUME NEW X, Apart(X), IsFiniteSet(X), NEW m, NEW c \in Nat, NEW r, Linked(m, X, r, c)
  PROVE  Chase(m.next, m.next[m_head], Cardinality(X) + 1) = Listing(r, c)
<1> DEFINE y == [j \in 1..c |-> r[j]]
           N == Cardinality(X) + 1
<1>1. IsChain(X, r, c) /\ \A j \in 0..c : m.next[r[j]] = r[j + 1]
  BY DEF Linked
<1>2. y \in [1..c -> X] /\ r[0] = m_head /\ r[c + 1] = Null
  BY <1>1 DEF IsChain
<1>3. N \in Nat \ {0} /\ c <= N
  BY <1>1, ChainFits
<1>4. m.next[m_head] = IF c = 0 THEN Null ELSE y[1]
  <2>1. m.next[r[0]] = r[0 + 1]
    BY <1>1
  <2> QED
    BY <1>2, <2>1
<1>5. ASSUME NEW j \in 1..c PROVE m.next[y[j]] = IF j = c THEN Null ELSE y[j + 1]
  <2>1. m.next[r[j]] = r[j + 1]
    BY <1>1
  <2> QED
    BY <1>2, <2>1
<1>6. Null \notin X
  BY DEF Apart
<1> HIDE DEF N
<1>7. PICK f : f = m.next
  OBVIOUS
<1>8. PICK p : p = m.next[m_head]
  OBVIOUS
<1>9. Chase(f, p, N) = Begin(y, c, N)
  <2>1. p = IF c = 0 THEN Null ELSE y[1]
    BY <1>4, <1>8
  <2>2. \A j \in 1..c : j < N => f[y[j]] = IF j = c THEN Null ELSE y[j + 1]
    BY <1>5, <1>7
  <2> HIDE DEF y
  <2> QED
    <3>1. WalksOver(f, p, N, X, y, c) /\ N \in Nat \ {0} /\ c \in Nat
      BY <1>2, <1>3, <1>6, <2>1, <2>2 DEF WalksOver
    <3> QED
      BY <3>1, PathIs
<1>10. Begin(y, c, N) = y
  BY <1>3 DEF Begin
<1> QED
  BY <1>7, <1>8, <1>9, <1>10 DEF N, Listing

\* How m2 differs from m when the node at place q is taken out.
UnlinkedIn(m2, m, X, r, q) ==
  /\ m2 \in Memories(X) /\ m2.data = m.data
  /\ \A x \in X \cup {m_head} : m2.next[x] = IF x = r[q - 1] THEN r[q + 1] ELSE m.next[x]
  /\ \A x \in X \cup {m_head} : m2.previous[x] = IF x = r[q + 1] THEN r[q - 1] ELSE m.previous[x]

\* The nodes of chain r without the one at place q.
BodyWithout(e, d, r, c, q) == Body(e, d) = Body(r, c) \ {r[q]}

\* A node that is unlinked leaves a chain of the others.
LEMMA ShrinksAt ==
  ASSUME NEW X, Apart(X), NEW m, NEW c \in Nat, NEW r, Linked(m, X, r, c),
         NEW q \in 1..c, NEW m2, UnlinkedIn(m2, m, X, r, q)
  PROVE  /\ Linked(m2, X, Removed(r, c, q), c - 1) /\ c - 1 \in Nat
         /\ BodyWithout(Removed(r, c, q), c - 1, r, c, q)
BY RemoveLinked DEF UnlinkedIn, BodyWithout

\* The effect of the assignments that unlink a node.
LEMMA Unlinks ==
  ASSUME NEW X, Apart(X), NEW m, NEW c \in Nat, NEW r, Linked(m, X, r, c), NEW q \in 1..c, NEW m2,
         m2 = [m EXCEPT !.next[r[q - 1]] = r[q + 1],
                        !.previous = IF r[q + 1] = Null THEN @ ELSE [@ EXCEPT ![r[q + 1]] = r[q - 1]]]
  PROVE  UnlinkedIn(m2, m, X, r, q)
<1> DEFINE A == X \cup {m_head}
<1>1. /\ m.next \in [A -> X \cup {m_head, Null}] /\ m.previous \in [A -> X \cup {m_head, Null}]
      /\ m.data \in [X -> {0, 1}] /\ IsChain(X, r, c)
      /\ m = [data |-> m.data, next |-> m.next, previous |-> m.previous]
  BY DEF Memories, Linked
<1>2. /\ m2.data = m.data
      /\ m2.next = [m.next EXCEPT ![r[q - 1]] = r[q + 1]]
      /\ m2.previous = IF r[q + 1] = Null THEN m.previous ELSE [m.previous EXCEPT ![r[q + 1]] = r[q - 1]]
      /\ m2 = [data |-> m2.data, next |-> m2.next, previous |-> m2.previous]
  BY <1>1
<1>3. r[q - 1] \in A /\ r[q + 1] \in X \cup {m_head, Null} /\ r[q - 1] \in X \cup {m_head, Null}
  <2>1. q - 1 \in 0..c /\ q + 1 \in 0..(c + 1) /\ q - 1 \in 0..(c + 1)
    OBVIOUS
  <2> QED
    BY <1>1, <2>1, ChainApart DEF IsChain
<1>4. Null \notin A
  BY DEF Apart
<1> HIDE DEF A
<1>5. m2.next \in [A -> X \cup {m_head, Null}]
      /\ \A x \in A : m2.next[x] = IF x = r[q - 1] THEN r[q + 1] ELSE m.next[x]
  BY <1>1, <1>2, <1>3
<1>6. m2.previous \in [A -> X \cup {m_head, Null}]
      /\ \A x \in A : m2.previous[x] = IF x = r[q + 1] THEN r[q - 1] ELSE m.previous[x]
  <2>1. CASE r[q + 1] = Null
    BY <1>1, <1>2, <1>4, <2>1
  <2>2. CASE r[q + 1] # Null
    BY <1>1, <1>2, <1>3, <2>2
  <2> QED
    BY <2>1, <2>2
<1>7. m2 \in Memories(X)
  BY <1>1, <1>2, <1>5, <1>6 DEF Memories, A
<1> QED
  BY <1>2, <1>5, <1>6, <1>7 DEF UnlinkedIn, A

---------------------------------------------------------------------------
(* The queue.                                                                  *)

QNodes == NodeIds \ {CHOOSE n \in NodeIds : TRUE}

\* The nodes of the queue in order, and after clear() those that it had.
QueueIs(r, c) ==
  /\ Linked(mem, QNodes, r, c)
  /\ stale => c # 0 /\ heap = {m_head} /\ m_size = 0 /\ m_tail = Null /\ ref = <<>>
  /\ ~stale => /\ heap = Body(r, c) \cup {m_head} /\ m_size = c
               /\ m_tail = IF c = 0 THEN Null ELSE r[c]
               /\ Carries(mem, r, c, ref)

QueueInv ==
  /\ alive \in BOOLEAN /\ ub \in BOOLEAN /\ stale \in BOOLEAN
  /\ ub => stale
  /\ ~alive => heap = {}
  /\ alive /\ ~ub => \E c \in Nat : \E r : QueueIs(r, c)

\* The queue's nodes, the head node and Null are different things.
LEMMA QNodesApart == Apart(QNodes) /\ IsFiniteSet(QNodes)
BY ContainerAssumption, FS_RemoveElement DEF Apart, QNodes

\* A head node alone.
Alone == [j \in 0..1 |-> IF j = 0 THEN m_head ELSE Null]

\* A head node without successor is the chain of no nodes.
LEMMA AloneLinked ==
  ASSUME NEW X, Apart(X), NEW m \in Memories(X), m.next[m_head] = Null
  PROVE  Linked(m, X, Alone, 0) /\ Body(Alone, 0) = {} /\ Alone[0] = m_head /\ Alone[1] = Null
         /\ Carries(m, Alone, 0, <<>>)
<1>1. Alone[0] = m_head /\ Alone[1] = Null /\ Alone \in [0..(0 + 1) -> X \cup {m_head, Null}]
  BY DEF Alone
<1>2. \A j \in 0..0 : j = 0
  OBVIOUS
<1>3. 1..0 = {}
  OBVIOUS
<1>4. IsChain(X, Alone, 0)
  BY <1>1, <1>3 DEF IsChain
<1>5. m.next[Alone[0]] = Alone[0 + 1]
  BY <1>1
<1>6. Linked(m, X, Alone, 0)
  BY <1>2, <1>3, <1>4, <1>5 DEF Linked
<1>7. Carries(m, Alone, 0, <<>>)
  BY <1>3 DEF Carries
<1> QED
  BY <1>1, <1>3, <1>6, <1>7 DEF Body

\* The nodes that a push links its node to.
Pushes(m0, r, c) ==
  /\ Linked(m0, QNodes, r, c) /\ Carries(m0, r, c, ref)
  /\ heap = Body(r, c) \cup {m_head} /\ m_size = c
  /\ (IF m_tail = Null THEN m_head ELSE m_tail) = r[c]
  /\ (IF m_tail = Null THEN Null ELSE mem.next[m_head]) = r[1]
  /\ (m_tail = Null <=> c = 0) /\ (c # 0 => m_tail = r[c])
  /\ \A n \in QNodes : \A v :
        /\ L!linkBetween(mem, r[c], n, Null, v) = L!linkBetween(m0, r[c], n, Null, v)
        /\ L!linkBetween(mem, m_head, n, r[1], v) = L!linkBetween(m0, m_head, n, r[1], v)

\* What a push finds: a head node, created if need be, and a chain behind it.
LEMMA Pushable ==
  ASSUME QueueInv, alive, ~ub
  PROVE  \E m0 : \E c \in Nat : \E r : Pushes(m0, r, c)
<1>1. PICK c \in Nat : \E r : QueueIs(r, c)
  BY DEF QueueInv
<1>2. PICK r : QueueIs(r, c)
  BY <1>1
<1>3. Linked(mem, QNodes, r, c) /\ IsChain(QNodes, r, c)
  BY <1>2 DEF QueueIs, Linked
<1>4. CASE stale
  <2>1. heap = {m_head} /\ m_size = 0 /\ m_tail = Null /\ ref = <<>>
    BY <1>2, <1>4 DEF QueueIs
  <2> DEFINE m0 == [mem EXCEPT !.next = [@ EXCEPT ![m_head] = Null]]
             A == QNodes \cup {m_head}
  <2>2. /\ mem.next \in [A -> QNodes \cup {m_head, Null}] /\ mem.previous \in [A -> QNodes \cup {m_head, Null}]
        /\ mem.data \in [QNodes -> {0, 1}]
        /\ mem = [data |-> mem.data, next |-> mem.next, previous |-> mem.previous]
    BY <1>3 DEF Linked, Memories
  <2>3. /\ m0 = [data |-> mem.data, next |-> [mem.next EXCEPT ![m_head] = Null], previous |-> mem.previous]
        /\ m0.data = mem.data /\ m0.previous = mem.previous /\ m0.next = [mem.next EXCEPT ![m_head] = Null]
    BY <2>2
  <2>4. m0 \in Memories(QNodes) /\ m0.next[m_head] = Null
    BY <2>2, <2>3 DEF Memories
  <2> HIDE DEF m0
  <2>5. /\ Linked(m0, QNodes, Alone, 0) /\ Body(Alone, 0) = {} /\ Alone[0] = m_head /\ Alone[1] = Null
        /\ Carries(m0, Alone, 0, <<>>)
    BY <2>4, AloneLinked, QNodesApart
  <2>6. ASSUME NEW n \in QNodes, NEW v
        PROVE  L!linkBetween(mem, m_head, n, Null, v) = L!linkBetween(m0, m_head, n, Null, v)
    <3>1. [mem.next EXCEPT ![m_head] = n, ![n] = Null] = [m0.next EXCEPT ![m_head] = n, ![n] = Null]
      BY <2>2, <2>3
    <3> QED
      BY <2>3, <3>1 DEF L!linkBetween
  <2>7. Pushes(m0, Alone, 0)
    BY <2>1, <2>5, <2>6 DEF Pushes
  <2> QED
    BY <2>7
<1>5. CASE ~stale
  <2>1. heap = Body(r, c) \cup {m_head} /\ m_size = c /\ m_tail = (IF c = 0 THEN Null ELSE r[c])
        /\ Carries(mem, r, c, ref)
    BY <1>2, <1>5 DEF QueueIs
  <2>2. r[0] = m_head /\ (c # 0 => r[c] \in QNodes /\ r[c] # Null) /\ (c = 0 => r[1] = Null)
    BY <1>3, QNodesApart DEF IsChain, Apart
  <2>3. mem.next[m_head] = r[1]
    <3>1. mem.next[r[0]] = r[0 + 1]
      BY <1>3 DEF Linked
    <3> QED
      BY <2>2, <3>1
  <2>4. Pushes(mem, r, c)
    BY <1>3, <2>1, <2>2, <2>3 DEF Pushes
  <2> QED
    BY <2>4
<1> QED
  BY <1>4, <1>5 DEF QueueInv

\* What a push leaves.
LEMMA Pushed ==
  ASSUME NEW c \in Nat, NEW r, alive' = TRUE, ub' = FALSE, stale' = FALSE,
         Linked(mem', QNodes, r, c), heap' = Body(r, c) \cup {m_head}, m_size' = c,
         m_tail' = IF c = 0 THEN Null ELSE r[c], Carries(mem', r, c, ref')
  PROVE  QueueInv'
<1>1. QueueIs(r, c)'
  BY DEF QueueIs
<1> QED
  BY <1>1, Zenon DEF QueueInv

\* pushBack puts a node and an element at the end.
LEMMA QueuePushBack ==
  ASSUME QueueInv, NEW v \in {0, 1}, Q!pushBack(v)
  PROVE  QueueInv'
<1>1. alive /\ ~ub /\ alive' = TRUE /\ stale' = FALSE /\ m_size' = m_size + 1 /\ ref' = Append(ref, v)
  BY DEF Q!pushBack, Q!Callable
<1>2. PICK m0 : \E c \in Nat : \E r : Pushes(m0, r, c)
  BY <1>1, Pushable
<1>3. PICK c \in Nat : \E r : Pushes(m0, r, c)
  BY <1>2
<1>4. PICK r : Pushes(m0, r, c)
  BY <1>3
<1>5. PICK last : last = IF m_tail = Null THEN m_head ELSE m_tail
  OBVIOUS
<1>6. PICK n \in QNodes : /\ n \notin heap /\ ub' = ~({last} \subseteq heap)
                          /\ mem' = Q!linkBetween(mem, last, n, Null, v)
                          /\ heap' = heap \cup {n} /\ m_tail' = n
  BY <1>5 DEF Q!pushBack, Q!Touch, QNodes
<1>7. /\ Linked(m0, QNodes, r, c) /\ Carries(m0, r, c, ref) /\ heap = Body(r, c) \cup {m_head}
      /\ m_size = c /\ last = r[c] /\ IsChain(QNodes, r, c)
  BY <1>4, <1>5 DEF Pushes, Linked
<1>8. mem' = L!linkBetween(m0, r[c], n, Null, v)
  BY <1>4, <1>6, <1>7, SameLinks DEF Pushes
<1>9. ub' = FALSE
  <2>1. r[c] \in heap
    BY <1>7 DEF IsChain, Body
  <2> QED
    BY <1>6, <1>7, <2>1
<1>10. ref \in Seq({0, 1}) /\ Len(ref) = c
  BY <1>7 DEF Carries
<1>11. ref' \in Seq({0, 1}) /\ IsInserted(ref', ref, c + 1, v)
  BY <1>1, <1>10, SeqEnds
<1>12. PICK q \in 1..(c + 1) : q = c + 1 /\ r[q - 1] = r[c] /\ r[q] = Null
  <2>1. c + 1 \in 1..(c + 1) /\ (c + 1) - 1 = c /\ r[c + 1] = Null
    BY <1>7 DEF IsChain
  <2> QED
    BY <2>1
<1>13. /\ Linked(mem', QNodes, Inserted(r, c, q, n), c + 1)
       /\ Carries(mem', Inserted(r, c, q, n), c + 1, ref')
       /\ Body(Inserted(r, c, q, n), c + 1) = Body(r, c) \cup {n}
  <2>1. n \notin Body(r, c) /\ IsInserted(ref', ref, q, v)
    BY <1>6, <1>7, <1>11, <1>12
  <2>2. PICK t \in Seq({0, 1}) : t = ref'
    BY <1>11
  <2>3. PICK m2 : m2 = L!linkBetween(m0, r[q - 1], n, r[q], v)
    OBVIOUS
  <2>4. Apart(QNodes) /\ Linked(m0, QNodes, r, c) /\ Carries(m0, r, c, ref) /\ IsInserted(t, ref, q, v)
    BY <1>7, <2>1, <2>2, QNodesApart
  <2>5. /\ Linked(L!linkBetween(m0, r[q - 1], n, r[q], v), QNodes, Inserted(r, c, q, n), c + 1)
        /\ Body(Inserted(r, c, q, n), c + 1) = Body(r, c) \cup {n}
        /\ Holds(L!linkBetween(m0, r[q - 1], n, r[q], v), m0, r, c, n, v)
    <3>1. PICK X : X = QNodes
      OBVIOUS
    <3>2. Apart(X) /\ Linked(m0, X, r, c) /\ n \in X /\ n \notin Body(r, c)
      BY <2>1, <2>4, <3>1
    <3>3. /\ Linked(L!linkBetween(m0, r[q - 1], n, r[q], v), X, Inserted(r, c, q, n), c + 1)
          /\ Body(Inserted(r, c, q, n), c + 1) = Body(r, c) \cup {n}
          /\ Holds(L!linkBetween(m0, r[q - 1], n, r[q], v), m0, r, c, n, v)
      BY <3>2, InsertLinked, SMTT(30)
    <3> QED
      BY <3>1, <3>3
  <2>6. Holds(m2, m0, r, c, n, v)
    BY <2>3, <2>5
  <2>7. Carries(m2, Inserted(r, c, q, n), c + 1, t)
    BY <2>4, <2>6, InsertCarries
  <2> QED
    BY <1>8, <1>12, <2>2, <2>3, <2>5, <2>7
<1>14. Inserted(r, c, q, n)[c + 1] = n
  BY <1>12 DEF Inserted
<1>15. /\ heap' = Body(Inserted(r, c, q, n), c + 1) \cup {m_head} /\ m_size' = c + 1
       /\ m_tail' = IF c + 1 = 0 THEN Null ELSE Inserted(r, c, q, n)[c + 1]
  BY <1>1, <1>6, <1>7, <1>13, <1>14
<1>16. PICK c2 \in Nat : c2 = c + 1
  OBVIOUS
<1>17. PICK r2 : r2 = Inserted(r, c, q, n)
  OBVIOUS
<1> QED
  BY <1>1, <1>9, <1>13, <1>15, <1>16, <1>17, Pushed

\* pushFront puts a node and an element at the front.
LEMMA QueuePushFront ==
  ASSUME QueueInv, NEW v \in {0, 1}, Q!pushFront(v)
  PROVE  QueueInv'
<1>1. alive /\ ~ub /\ alive' = TRUE /\ stale' = FALSE /\ m_size' = m_size + 1 /\ ref' = <<v>> \o ref
  BY DEF Q!pushFront, Q!Callable
<1>2. PICK m0 : \E c \in Nat : \E r : Pushes(m0, r, c)
  BY <1>1, Pushable
<1>3. PICK c \in Nat : \E r : Pushes(m0, r, c)
  BY <1>2
<1>4. PICK r : Pushes(m0, r, c)
  BY <1>3
<1>5. PICK first : first = IF m_tail = Null THEN Null ELSE mem.next[m_head]
  OBVIOUS
<1>6. PICK n \in QNodes : /\ n \notin heap /\ ub' = ~((IF first = Null THEN {} ELSE {first}) \subseteq heap)
                          /\ mem' = Q!linkBetween(mem, m_head, n, first, v)
                          /\ heap' = heap \cup {n} /\ m_tail' = IF m_tail = Null THEN n ELSE m_tail
  BY <1>5 DEF Q!pushFront, Q!Touch, QNodes
<1>7. /\ Linked(m0, QNodes, r, c) /\ Carries(m0, r, c, ref) /\ heap = Body(r, c) \cup {m_head}
      /\ m_size = c /\ first = r[1] /\ IsChain(QNodes, r, c)
      /\ (m_tail = Null <=> c = 0) /\ (c # 0 => m_tail = r[c])
  BY <1>4, <1>5 DEF Pushes, Linked
<1>8. mem' = L!linkBetween(m0, m_head, n, r[1], v)
  BY <1>4, <1>6, <1>7, SameLinks DEF Pushes
<1>9. ub' = FALSE
  <2>1. r[1] = Null \/ r[1] \in heap
    BY <1>7 DEF IsChain, Body
  <2> QED
    BY <1>6, <1>7, <2>1
<1>10. ref \in Seq({0, 1}) /\ Len(ref) = c
  BY <1>7 DEF Carries
<1>11. ref' \in Seq({0, 1}) /\ IsInserted(ref', ref, 1, v)
  BY <1>1, <1>10, SeqEnds
<1>12. PICK q \in 1..(c + 1) : q = 1 /\ r[q - 1] = m_head /\ r[q] = r[1]
  <2>1. 1 \in 1..(c + 1) /\ 1 - 1 = 0 /\ r[0] = m_head
    BY <1>7 DEF IsChain
  <2> QED
    BY <2>1
<1>13. /\ Linked(mem', QNodes, Inserted(r, c, q, n), c + 1)
       /\ Carries(mem', Inserted(r, c, q, n), c + 1, ref')
       /\ Body(Inserted(r, c, q, n), c + 1) = Body(r, c) \cup {n}
  <2>1. n \notin Body(r, c) /\ IsInserted(ref', ref, q, v)
    BY <1>6, <1>7, <1>11, <1>12
  <2>2. PICK t \in Seq({0, 1}) : t = ref'
    BY <1>11
  <2>3. PICK m2 : m2 = L!linkBetween(m0, r[q - 1], n, r[q], v)
    OBVIOUS
  <2>4. Apart(QNodes) /\ Linked(m0, QNodes, r, c) /\ Carries(m0, r, c, ref) /\ IsInserted(t, ref, q, v)
    BY <1>7, <2>1, <2>2, QNodesApart
  <2>5. /\ Linked(L!linkBetween(m0, r[q - 1], n, r[q], v), QNodes, Inserted(r, c, q, n), c + 1)
        /\ Body(Inserted(r, c, q, n), c + 1) = Body(r, c) \cup {n}
        /\ Holds(L!linkBetween(m0, r[q - 1], n, r[q], v), m0, r, c, n, v)
    <3>1. PICK X : X = QNodes
      OBVIOUS
    <3>2. Apart(X) /\ Linked(m0, X, r, c) /\ n \in X /\ n \notin Body(r, c)
      BY <2>1, <2>4, <3>1
    <3>3. /\ Linked(L!linkBetween(m0, r[q - 1], n, r[q], v), X, Inserted(r, c, q, n), c + 1)
          /\ Body(Inserted(r, c, q, n), c + 1) = Body(r, c) \cup {n}
          /\ Holds(L!linkBetween(m0, r[q - 1], n, r[q], v), m0, r, c, n, v)
      BY <3>2, InsertLinked, SMTT(30)
    <3> QED
      BY <3>1, <3>3
  <2>6. Holds(m2, m0, r, c, n, v)
    BY <2>3, <2>5
  <2>7. Carries(m2, Inserted(r, c, q, n), c + 1, t)
    BY <2>4, <2>6, InsertCarries
  <2> QED
    BY <1>8, <1>12, <2>2, <2>3, <2>5, <2>7
<1>14. Inserted(r, c, q, n)[c + 1] = IF c = 0 THEN n ELSE r[c]
  <2>1. c + 1 \in 0..(c + 2) /\ (c + 1) - 1 = c /\ ~ (c + 1 < 1) /\ (c + 1 = 1 <=> c = 0)
    OBVIOUS
  <2> QED
    BY <1>12, <2>1 DEF Inserted
<1>15. /\ heap' = Body(Inserted(r, c, q, n), c + 1) \cup {m_head} /\ m_size' = c + 1
       /\ m_tail' = IF c + 1 = 0 THEN Null ELSE Inserted(r, c, q, n)[c + 1]
  BY <1>1, <1>6, <1>7, <1>13, <1>14
<1>16. PICK c2 \in Nat : c2 = c + 1
  OBVIOUS
<1>17. PICK r2 : r2 = Inserted(r, c, q, n)
  OBVIOUS
<1> QED
  BY <1>1, <1>9, <1>13, <1>15, <1>16, <1>17, Pushed

\* The nodes of a queue with elements.
LEMMA QueueNodes ==
  ASSUME QueueInv, alive, ~ub, m_size # 0
  PROVE  \E c \in Nat \ {0} : \E r : QueueIs(r, c) /\ ~stale
<1>1. PICK c \in Nat : \E r : QueueIs(r, c)
  BY DEF QueueInv
<1>2. PICK r : QueueIs(r, c)
  BY <1>1
<1> QED
  BY <1>2 DEF QueueIs, QueueInv

\* What a pop leaves.
LEMMA Popped ==
  ASSUME NEW c \in Nat, c # 0, NEW r, NEW q \in 1..c, QueueIs(r, c), ~stale, UnlinkedIn(mem', mem, QNodes, r, q),
         alive' = TRUE, ub' = FALSE, stale' = stale, heap' = heap \ {r[q]}, m_size' = m_size - 1,
         m_tail' = IF c = 1 THEN Null ELSE IF q = c THEN r[c - 1] ELSE r[c],
         ref' \in Seq({0, 1}), IsRemoved(ref', ref, q), stale \in BOOLEAN
  PROVE  QueueInv'
<1> DEFINE e == Removed(r, c, q)
<1>1. /\ Linked(mem, QNodes, r, c) /\ heap = Body(r, c) \cup {m_head} /\ m_size = c
      /\ Carries(mem, r, c, ref)
  BY DEF QueueIs
<1>2. PICK m2, X, t : m2 = mem' /\ X = QNodes /\ t = ref'
  OBVIOUS
<1>3. Linked(m2, X, e, c - 1) /\ c - 1 \in Nat /\ Body(e, c - 1) = Body(r, c) \ {r[q]}
  <2>1. Apart(X) /\ Linked(mem, X, r, c) /\ UnlinkedIn(m2, mem, X, r, q)
    BY <1>1, <1>2, QNodesApart
  <2>2. c \in Nat
    OBVIOUS
  <2> HIDE DEF e
  <2>3. /\ Linked(m2, X, Removed(r, c, q), c - 1) /\ c - 1 \in Nat
        /\ BodyWithout(Removed(r, c, q), c - 1, r, c, q)
    BY <2>1, <2>2, ShrinksAt
  <2> QED
    BY <2>3 DEF e, BodyWithout
<1>4. Carries(m2, e, c - 1, t)
  <2>1. m2.data = mem.data /\ t \in Seq({0, 1}) /\ IsRemoved(t, ref, q)
    BY <1>2 DEF UnlinkedIn
  <2> QED
    BY <1>1, <2>1, RemoveCarries
<1>5. c - 1 = 0 \/ e[c - 1] = IF q = c THEN r[c - 1] ELSE r[c]
  <2>1. c - 1 \in 0..c /\ (c - 1) + 1 = c /\ (c - 1 < q <=> q = c)
    OBVIOUS
  <2> QED
    BY <2>1 DEF Removed
<1>6. r[q] # m_head
  BY <1>1, QNodesApart DEF Linked, IsChain, Apart
<1>7. heap' = Body(e, c - 1) \cup {m_head} /\ m_size' = c - 1
  BY <1>1, <1>3, <1>6
<1>8. m_tail' = IF c - 1 = 0 THEN Null ELSE e[c - 1]
  <2>1. c - 1 = 0 <=> c = 1
    OBVIOUS
  <2> HIDE DEF e
  <2> QED
    BY <1>5, <2>1
<1>9. PICK d \in Nat : d = c - 1
  BY <1>3
<1>10. PICK f : f = e
  OBVIOUS
<1>11. stale' = FALSE
  OBVIOUS
<1>12. Linked(mem', QNodes, f, d) /\ Carries(mem', f, d, ref')
  BY <1>2, <1>3, <1>4, <1>9, <1>10
<1>13. heap' = Body(f, d) \cup {m_head} /\ m_size' = d /\ m_tail' = IF d = 0 THEN Null ELSE f[d]
  BY <1>7, <1>8, <1>9, <1>10
<1> QED
  BY <1>11, <1>12, <1>13, Pushed

\* A memory is made of its three fields.
LEMMA MemoryFields ==
  ASSUME NEW X, NEW m \in Memories(X)
  PROVE  /\ m.next \in [X \cup {m_head} -> X \cup {m_head, Null}]
         /\ m.previous \in [X \cup {m_head} -> X \cup {m_head, Null}]
         /\ m.data \in [X -> {0, 1}]
         /\ m = [data |-> m.data, next |-> m.next, previous |-> m.previous]
BY DEF Memories

\* popBack takes the last node and returns the last element.
LEMMA QueuePopBack ==
  ASSUME QueueInv, Q!popBack
  PROVE  QueueInv' /\ popped' = <<ref[Len(ref)]>>
<1>1. /\ alive /\ ~ub /\ m_size # 0 /\ m_size' = m_size - 1 /\ ref' = Q!Front(ref) /\ alive' = alive /\ stale' = stale
      /\ popped' = <<mem.data[m_tail]>> /\ heap' = heap \ {m_tail}
      /\ m_tail' = IF mem.previous[m_tail] = m_head THEN Null ELSE mem.previous[m_tail]
      /\ mem' = [mem EXCEPT !.next[mem.previous[m_tail]] = Null]
      /\ ub' = ~({m_tail, mem.previous[m_tail]} \subseteq heap)
  BY DEF Q!popBack, Q!Callable, Q!Touch
<1>2. PICK c \in Nat \ {0} : \E r : QueueIs(r, c) /\ ~stale
  BY <1>1, QueueNodes
<1>3. PICK r : QueueIs(r, c) /\ ~stale
  BY <1>2
<1>4. /\ Linked(mem, QNodes, r, c) /\ heap = Body(r, c) \cup {m_head} /\ m_size = c /\ m_tail = r[c]
      /\ Carries(mem, r, c, ref)
  BY <1>3 DEF QueueIs
<1>5. mem.previous[m_tail] = r[c - 1] /\ r[c + 1] = Null /\ mem \in Memories(QNodes) /\ IsChain(QNodes, r, c)
  BY <1>4 DEF Linked, IsChain
<1>6. c - 1 \in Nat /\ (c - 1 = 0 <=> c = 1) /\ c \in 1..c
  OBVIOUS
<1>7. IF c = 1 THEN r[c - 1] = m_head ELSE r[c - 1] \in Body(r, c) /\ r[c - 1] # m_head
  <2>1. c # 1 => c - 1 \in 1..c
    OBVIOUS
  <2> QED
    BY <1>5, <1>6, <2>1, QNodesApart DEF IsChain, Body, Apart
<1>8. UnlinkedIn(mem', mem, QNodes, r, c)
  <2>1. mem' = [mem EXCEPT !.next[r[c - 1]] = r[c + 1],
                           !.previous = IF r[c + 1] = Null THEN @ ELSE [@ EXCEPT ![r[c + 1]] = r[c - 1]]]
    <3>1. /\ mem.next \in [QNodes \cup {m_head} -> QNodes \cup {m_head, Null}]
          /\ mem = [data |-> mem.data, next |-> mem.next, previous |-> mem.previous]
      BY <1>5, MemoryFields
    <3> QED
      BY <1>1, <1>5, <3>1
  <2>2. PICK m2, X : m2 = mem' /\ X = QNodes
    OBVIOUS
  <2>3. /\ Apart(X) /\ Linked(mem, X, r, c)
        /\ m2 = [mem EXCEPT !.next[r[c - 1]] = r[c + 1],
                            !.previous = IF r[c + 1] = Null THEN @ ELSE [@ EXCEPT ![r[c + 1]] = r[c - 1]]]
    BY <1>4, <2>1, <2>2, QNodesApart
  <2>4. UnlinkedIn(m2, mem, X, r, c)
    BY <1>6, <2>3, Unlinks
  <2> QED
    BY <2>2, <2>4
<1>9. ref \in Seq({0, 1}) /\ Len(ref) = c /\ mem.data[r[c]] = ref[c]
  BY <1>4, <1>6 DEF Carries
<1>10. ref' \in Seq({0, 1}) /\ IsRemoved(ref', ref, c)
  <2>1. ref # <<>> /\ ref' = SubSeq(ref, 1, Len(ref) - 1)
    BY <1>1, <1>9 DEF Q!Front
  <2>2. SubSeq(ref, 1, Len(ref) - 1) \in Seq({0, 1}) /\ IsRemoved(SubSeq(ref, 1, Len(ref) - 1), ref, Len(ref))
    <3>1. 0 \in {0, 1}
      OBVIOUS
    <3> QED
      BY <1>9, <2>1, <3>1, SeqEnds
  <2> QED
    BY <1>9, <2>1, <2>2
<1>11. ub' = FALSE
  BY <1>1, <1>4, <1>5, <1>6, <1>7 DEF Body
<1>12. m_tail' = IF c = 1 THEN Null ELSE IF c = c THEN r[c - 1] ELSE r[c]
  BY <1>1, <1>5, <1>7
<1>13. QueueInv'
  <2>1. alive' = TRUE /\ heap' = heap \ {r[c]} /\ stale \in BOOLEAN
    BY <1>1, <1>4 DEF QueueInv
  <2> QED
    BY <1>1, <1>3, <1>6, <1>8, <1>10, <1>11, <1>12, <2>1, Popped
<1> QED
  BY <1>1, <1>4, <1>9, <1>13

\* popFront takes the first node and returns the first element.
LEMMA QueuePopFront ==
  ASSUME QueueInv, Q!popFront
  PROVE  QueueInv' /\ popped' = <<ref[1]>>
<1> DEFINE n == mem.next[m_head]
           second == mem.next[n]
<1>1. /\ alive /\ ~ub /\ m_size # 0 /\ m_size' = m_size - 1 /\ ref' = Tail(ref) /\ alive' = alive /\ stale' = stale
      /\ popped' = <<mem.data[n]>> /\ heap' = heap \ {n}
      /\ IF n = m_tail
         THEN m_tail' = Null /\ mem' = [mem EXCEPT !.next[m_head] = Null]
         ELSE /\ mem' = [mem EXCEPT !.next[m_head] = second, !.previous[second] = m_head]
              /\ m_tail' = m_tail
      /\ ub' = ~(({n} \cup (IF n = m_tail THEN {} ELSE {second})) \subseteq heap)
  BY DEF Q!popFront, Q!Callable, Q!Touch
<1>2. PICK c \in Nat \ {0} : \E r : QueueIs(r, c) /\ ~stale
  BY <1>1, QueueNodes
<1>3. PICK r : QueueIs(r, c) /\ ~stale
  BY <1>2
<1>4. /\ Linked(mem, QNodes, r, c) /\ heap = Body(r, c) \cup {m_head} /\ m_size = c /\ m_tail = r[c]
      /\ Carries(mem, r, c, ref)
  BY <1>3 DEF QueueIs
<1>6. 1 \in 1..c /\ c \in 1..c /\ 0 \in 0..c /\ 1 \in 0..c /\ 1 - 1 = 0 /\ 1 + 1 = 2 /\ 0 + 1 = 1
  OBVIOUS
<1>5. /\ n = r[1] /\ second = r[2] /\ r[c + 1] = Null /\ r[0] = m_head /\ mem \in Memories(QNodes)
      /\ IsChain(QNodes, r, c)
  <2>1. r[0] = m_head /\ r[c + 1] = Null /\ IsChain(QNodes, r, c) /\ mem \in Memories(QNodes)
    BY <1>4 DEF Linked, IsChain
  <2>2. mem.next[r[0]] = r[0 + 1] /\ mem.next[r[1]] = r[1 + 1]
    BY <1>4, <1>6 DEF Linked
  <2> QED
    BY <1>6, <2>1, <2>2
<1> HIDE DEF n, second
<1>7. IF c = 1 THEN n = m_tail /\ r[2] = Null ELSE n # m_tail /\ r[2] \in QNodes /\ r[2] \in Body(r, c) /\ r[2] # Null
  <2>1. c # 1 => 2 \in 1..c
    OBVIOUS
  <2>2. c = 1 => c + 1 = 2
    OBVIOUS
  <2> QED
    BY <1>4, <1>5, <1>6, <2>1, <2>2, QNodesApart DEF IsChain, Body, Apart
<1>8. UnlinkedIn(mem', mem, QNodes, r, 1)
  <2>1. mem' = [mem EXCEPT !.next[r[1 - 1]] = r[1 + 1],
                           !.previous = IF r[1 + 1] = Null THEN @ ELSE [@ EXCEPT ![r[1 + 1]] = r[1 - 1]]]
    <3>1. /\ mem.next \in [QNodes \cup {m_head} -> QNodes \cup {m_head, Null}]
          /\ mem.previous \in [QNodes \cup {m_head} -> QNodes \cup {m_head, Null}]
          /\ mem = [data |-> mem.data, next |-> mem.next, previous |-> mem.previous]
      BY <1>5, MemoryFields
    <3>2. mem' = IF r[2] = Null THEN [mem EXCEPT !.next[m_head] = r[2]]
                 ELSE [mem EXCEPT !.next[m_head] = r[2], !.previous[r[2]] = m_head]
      BY <1>1, <1>5, <1>7
    <3>3. mem' = [mem EXCEPT !.next[m_head] = r[2],
                             !.previous = IF r[2] = Null THEN @ ELSE [@ EXCEPT ![r[2]] = m_head]]
      BY <3>1, <3>2
    <3> QED
      BY <1>5, <1>6, <3>3
  <2>2. PICK m2, X : m2 = mem' /\ X = QNodes
    OBVIOUS
  <2>5. PICK q \in 1..c : q = 1
    BY <1>6
  <2>3. /\ Apart(X) /\ Linked(mem, X, r, c)
        /\ m2 = [mem EXCEPT !.next[r[q - 1]] = r[q + 1],
                            !.previous = IF r[q + 1] = Null THEN @ ELSE [@ EXCEPT ![r[q + 1]] = r[q - 1]]]
    BY <1>4, <2>1, <2>2, <2>5, QNodesApart
  <2>4. UnlinkedIn(m2, mem, X, r, q)
    BY <2>3, Unlinks
  <2> QED
    BY <2>2, <2>4, <2>5
<1>9. ref \in Seq({0, 1}) /\ Len(ref) = c /\ mem.data[r[1]] = ref[1]
  BY <1>4, <1>6 DEF Carries
<1>10. ref' \in Seq({0, 1}) /\ IsRemoved(ref', ref, 1)
  <2>1. ref # <<>> /\ 0 \in {0, 1}
    BY <1>9
  <2> QED
    BY <1>1, <1>9, <2>1, SeqEnds
<1>11. ub' = FALSE
  BY <1>1, <1>4, <1>5, <1>6, <1>7 DEF Body
<1>12. m_tail' = IF c = 1 THEN Null ELSE IF 1 = c THEN r[c - 1] ELSE r[c]
  BY <1>1, <1>4, <1>7
<1>13. QueueInv'
  <2>1. alive' = TRUE /\ heap' = heap \ {r[1]} /\ stale \in BOOLEAN
    BY <1>1, <1>5 DEF QueueInv
  <2> QED
    BY <1>1, <1>3, <1>6, <1>8, <1>10, <1>11, <1>12, <2>1, Popped
<1> QED
  BY <1>1, <1>5, <1>9, <1>13

\* The chain of the queue, as the walk along next from the head finds it.
LEMMA QueueChain ==
  ASSUME NEW c \in Nat, NEW r, Linked(mem, QNodes, r, c)
  PROVE  Q!Chain = [j \in 1..c |-> r[j]] /\ Q!ToSet(Q!Chain) = Body(r, c)
<1>1. Q!Chain = Q!Path(mem.next, mem.next[m_head], Cardinality(QNodes) + 1)
  BY DEF Q!Chain, Q!ChainOf, QNodes, Q!Cardinality, Cardinality
<1>2. Q!Chain = Chase(mem.next, mem.next[m_head], Cardinality(QNodes) + 1)
  BY <1>1, SamePaths
<1>3. PICK X : X = QNodes
  OBVIOUS
<1>4. Q!Chain = [j \in 1..c |-> r[j]]
  <2>1. Apart(X) /\ IsFiniteSet(X) /\ Linked(mem, X, r, c)
    BY <1>3, QNodesApart
  <2>2. Chase(mem.next, mem.next[m_head], Cardinality(X) + 1) = Listing(r, c)
    BY <2>1, WholeChain
  <2> QED
    BY <1>2, <1>3, <2>2 DEF Listing
<1> QED
  BY <1>4 DEF Q!ToSet, Body

\* clear() and the destructor.
LEMMA QueueFrees ==
  ASSUME QueueInv, Q!clear \/ Q!destroy
  PROVE  QueueInv'
<1>1. /\ alive /\ ~ub /\ ub' = ~(Q!ToSet(Q!Chain) \subseteq heap) /\ m_tail' = Null /\ m_size' = 0
      /\ ref' = <<>> /\ mem' = mem
  BY DEF Q!clear, Q!destroy, Q!freeAll, Q!Callable, Q!Touch
<1>2. PICK c \in Nat : \E r : QueueIs(r, c)
  BY <1>1 DEF QueueInv
<1>3. PICK r : QueueIs(r, c)
  BY <1>2
<1>4. Linked(mem, QNodes, r, c) /\ IsChain(QNodes, r, c)
  BY <1>3 DEF QueueIs, Linked
<1>5. Q!ToSet(Q!Chain) = Body(r, c)
  BY <1>4, QueueChain
<1>6. m_head \notin Body(r, c) /\ (c = 0 => Body(r, c) = {}) /\ (c # 0 => Body(r, c) # {})
  <2>1. c # 0 => 1 \in 1..c
    OBVIOUS
  <2> QED
    BY <1>4, <2>1, QNodesApart DEF IsChain, Body, Apart
<1>8. CASE stale
  <2>1. heap = {m_head} /\ c # 0 /\ ub' = TRUE
    BY <1>1, <1>3, <1>5, <1>6, <1>8 DEF QueueIs
  <2>2. CASE Q!clear
    <3>1. alive' = alive /\ stale' = TRUE
      BY <1>8, <2>2 DEF Q!clear
    <3> QED
      BY <1>1, <2>1, <3>1 DEF QueueInv
  <2>3. CASE Q!destroy
    <3>1. alive' = FALSE /\ heap' = {} /\ stale' = stale
      BY <1>1, <2>1, <2>3 DEF Q!destroy
    <3> QED
      BY <1>8, <2>1, <3>1 DEF QueueInv
  <2> QED
    BY <2>2, <2>3
<1>9. CASE ~stale
  <2>1. heap = Body(r, c) \cup {m_head} /\ ub' = FALSE
    BY <1>1, <1>3, <1>5, <1>9 DEF QueueIs
  <2>2. CASE Q!clear
    <3>0. ref # <<>> <=> c # 0
      <4>1. ref \in Seq({0, 1}) /\ Len(ref) = c
        BY <1>3, <1>9 DEF QueueIs, Carries
      <4> QED
        BY <4>1
    <3>1. alive' = alive /\ (stale' <=> c # 0) /\ stale' \in BOOLEAN /\ heap' = {m_head}
      BY <1>5, <1>6, <1>9, <2>1, <2>2, <3>0 DEF Q!clear
    <3>2. QueueIs(r, c)'
      <4>1. CASE c # 0
        BY <1>1, <1>4, <3>1, <4>1 DEF QueueIs
      <4>2. CASE c = 0
        <5>1. Carries(mem, r, 0, <<>>)
          BY DEF Carries
        <5> QED
          BY <1>1, <1>4, <1>6, <3>1, <4>2, <5>1 DEF QueueIs
      <4> QED
        BY <4>1, <4>2
    <3>3. \E d \in Nat : \E e : QueueIs(e, d)'
      BY <3>2
    <3> QED
      BY <1>1, <2>1, <3>1, <3>3, Zenon DEF QueueInv
  <2>3. CASE Q!destroy
    <3>1. alive' = FALSE /\ heap' = {} /\ stale' = stale
      BY <1>1, <1>5, <2>1, <2>3 DEF Q!destroy
    <3> QED
      BY <1>9, <2>1, <3>1 DEF QueueInv
  <2> QED
    BY <2>2, <2>3
<1> QED
  BY <1>8, <1>9 DEF QueueInv

---------------------------------------------------------------------------

\* The queue's first state.
LEMMA QueueStarts ==
  ASSUME Q!Init
  PROVE  QueueInv
<1>1. mem = Q!NoNodes /\ heap = {m_head} /\ m_tail = Null /\ m_size = 0 /\ ub = FALSE /\ ref = <<>>
      /\ alive = TRUE /\ stale = FALSE
  BY DEF Q!Init
<1>2. mem \in Memories(QNodes) /\ mem.next[m_head] = Null
  <2>1. (CHOOSE v \in {0, 1} : TRUE) \in {0, 1}
    OBVIOUS
  <2>2. PICK d \in {0, 1} : d = CHOOSE v \in {0, 1} : TRUE
    BY <2>1
  <2> QED
    BY <1>1, <2>2 DEF Memories, Q!NoNodes, QNodes
<1>3. Linked(mem, QNodes, Alone, 0) /\ Body(Alone, 0) = {} /\ Carries(mem, Alone, 0, <<>>)
  BY <1>2, AloneLinked, QNodesApart
<1>4. QueueIs(Alone, 0)
  BY <1>1, <1>3 DEF QueueIs
<1> QED
  BY <1>1, <1>4 DEF QueueInv

\* Every call of the queue.
LEMMA QueueGoesOn ==
  ASSUME QueueInv, Q!Next
  PROVE  QueueInv'
<1>1. CASE Q!popEmpty
  BY <1>1 DEF Q!popEmpty, Q!vars, QueueInv, QueueIs
<1> QED
  BY <1>1, QueuePushBack, QueuePushFront, QueuePopBack, QueuePopFront, QueueFrees DEF Q!Next

\* The steps of the other tests.
LEMMA QueueStutters ==
  ASSUME QueueInv, UNCHANGED Q!vars
  PROVE  QueueInv'
BY DEF Q!vars, QueueInv, QueueIs

\* What the invariant means to the queue's caller.
LEMMA QueueHolds ==
  ASSUME QueueInv
  PROVE  Q!HoldsWhatWasPushed /\ Q!MemorySafe
<1>1. CASE alive /\ ~ub
  <2>1. PICK c \in Nat : \E r : QueueIs(r, c)
    BY <1>1 DEF QueueInv
  <2>2. PICK r : QueueIs(r, c)
    BY <2>1
  <2>3. Q!Chain = [j \in 1..c |-> r[j]] /\ Q!ToSet(Q!Chain) = Body(r, c)
    BY <2>2, QueueChain DEF QueueIs
  <2>4. stale => m_size = 0 /\ ref = <<>>
    BY <2>2 DEF QueueIs
  <2>5. ~stale => /\ heap = Body(r, c) \cup {m_head} /\ m_size = c /\ Len(ref) = c
                  /\ \A j \in 1..c : mem.data[r[j]] = ref[j]
    BY <2>2 DEF QueueIs, Carries
  <2>6. Q!HoldsWhatWasPushed
    <3>1. CASE stale
      <4>1. 1..0 = {}
        OBVIOUS
      <4> QED
        BY <2>4, <3>1, <4>1 DEF Q!HoldsWhatWasPushed
    <3>2. CASE ~stale
      BY <2>3, <2>5, <3>2 DEF Q!HoldsWhatWasPushed
    <3> QED
      BY <3>1, <3>2
  <2>7. Q!MemorySafe
    BY <1>1, <2>3, <2>5 DEF Q!MemorySafe, QueueInv
  <2> QED
    BY <2>6, <2>7
<1>2. CASE ~alive \/ ub
  BY <1>2 DEF QueueInv, Q!HoldsWhatWasPushed, Q!MemorySafe
<1> QED
  BY <1>1, <1>2 DEF QueueInv

---------------------------------------------------------------------------
(* The vectors.                                                                *)

Elems == {0, 1, Junk}
Objects == [m_element : 1..4 \cup {Null}, m_size : Nat, m_step : Nat, m_capacity : Nat]
ElementOf(o) == IF o = Null THEN Null ELSE o.m_element

\* What a vector o with its array in ar keeps, and the elements s that it should hold.
Fits(o, ar, s) ==
  o # Null =>
    /\ o.m_size <= o.m_capacity /\ o.m_capacity <= MaxSize - 1 /\ Len(s) = o.m_size
    /\ o.m_element = Null => o.m_capacity = 0
    /\ o.m_element # Null => /\ ar[o.m_element] \in Seq(Elems)
                             /\ Len(ar[o.m_element]) = o.m_capacity
                             /\ \A j \in 1..o.m_size : ar[o.m_element][j] = s[j]

Sound(vc, ar, rf) ==
  /\ vc \in [{1, 2} -> Objects \cup {Null}] /\ rf \in [{1, 2} -> Seq({0, 1})]
  /\ DOMAIN ar = {ElementOf(vc[1]), ElementOf(vc[2])} \ {Null}
  /\ ElementOf(vc[1]) = ElementOf(vc[2]) => ElementOf(vc[1]) = Null
  /\ \A v \in {1, 2} : Fits(vc[v], ar, rf[v])

VectorInv ==
  /\ stale \in BOOLEAN /\ ub \in BOOLEAN
  /\ ~stale => ~ub /\ Sound(mem, heap, ref)

\* nullptr is neither a number nor an object.
LEMMA NullApart == Null \notin Nat /\ Null \notin Objects
BY ContainerAssumption DEF Objects

\* Two elements at least fit into a vector.
LEMMA Bounds == MaxSize \in Nat /\ MaxSize > 2
BY ContainerAssumption, FS_CardinalityType

\* The fields of an object, and where its elements are.
LEMMA ElementTypes ==
  ASSUME NEW o \in Objects \cup {Null}
  PROVE  /\ ElementOf(o) \in 1..4 \cup {Null}
         /\ o # Null => /\ o \in Objects /\ ElementOf(o) = o.m_element
                        /\ o.m_size \in Nat /\ o.m_step \in Nat /\ o.m_capacity \in Nat
                        /\ o = [m_element |-> o.m_element, m_size |-> o.m_size, m_step |-> o.m_step,
                                m_capacity |-> o.m_capacity]
BY DEF ElementOf, Objects

\* One vector gets another object, array and elements.
Changed(vc, ar, ar2, v, w, o) ==
  /\ DOMAIN ar2 = (DOMAIN ar \ {ElementOf(vc[v])}) \cup ({ElementOf(o)} \ {Null})
  /\ ElementOf(o) # Null => ElementOf(o) # ElementOf(vc[w])
  /\ ElementOf(vc[w]) # Null => ar2[ElementOf(vc[w])] = ar[ElementOf(vc[w])]

With(f, x, y) == [f EXCEPT ![x] = y]

\* One vector changed, with its array, leaves both of them sound.
LEMMA Changes ==
  ASSUME NEW vc, NEW ar, NEW rf, Sound(vc, ar, rf), NEW v \in {1, 2}, NEW w \in {1, 2}, v # w,
         NEW o \in Objects \cup {Null}, NEW s \in Seq({0, 1}), NEW ar2,
         Changed(vc, ar, ar2, v, w, o), Fits(o, ar2, s)
  PROVE  Sound(With(vc, v, o), ar2, With(rf, v, s))
<1> DEFINE vc2 == [vc EXCEPT ![v] = o]
           rf2 == [rf EXCEPT ![v] = s]
<1>1. vc \in [{1, 2} -> Objects \cup {Null}] /\ rf \in [{1, 2} -> Seq({0, 1})]
  BY DEF Sound
<1>2. vc2 \in [{1, 2} -> Objects \cup {Null}] /\ vc2[v] = o /\ vc2[w] = vc[w]
  BY <1>1
<1>3. rf2 \in [{1, 2} -> Seq({0, 1})] /\ rf2[v] = s /\ rf2[w] = rf[w]
  BY <1>1
<1> HIDE DEF vc2, rf2
<1>4. \A P \in {1, 2} : P = v \/ P = w
  OBVIOUS
<1>5. Fits(vc[w], ar2, rf[w])
  <2>1. Fits(vc[w], ar, rf[w])
    BY DEF Sound
  <2> QED
    BY <2>1 DEF Fits, Changed, ElementOf
<1>6. \A u \in {1, 2} : Fits(vc2[u], ar2, rf2[u])
  BY <1>2, <1>3, <1>4, <1>5
<1>7. DOMAIN ar = {ElementOf(vc[v]), ElementOf(vc[w])} \ {Null}
      /\ (ElementOf(vc[v]) = ElementOf(vc[w]) => ElementOf(vc[v]) = Null)
  <2>1. (v = 1 /\ w = 2) \/ (v = 2 /\ w = 1)
    OBVIOUS
  <2> QED
    BY <2>1 DEF Sound
<1>8. DOMAIN ar2 = {ElementOf(vc2[v]), ElementOf(vc2[w])} \ {Null}
  <2>1. PICK x, y, z : x = ElementOf(vc[v]) /\ y = ElementOf(vc[w]) /\ z = ElementOf(o)
    OBVIOUS
  <2>2. DOMAIN ar2 = (({x, y} \ {Null}) \ {x}) \cup ({z} \ {Null})
    BY <1>7, <2>1 DEF Changed
  <2>3. x = y => x = Null
    BY <1>7, <2>1
  <2>4. DOMAIN ar2 = {z, y} \ {Null}
    BY <2>2, <2>3
  <2> QED
    BY <1>2, <2>1, <2>4
<1>9. ElementOf(vc2[v]) = ElementOf(vc2[w]) => ElementOf(vc2[v]) = Null
  BY <1>2 DEF Changed
<1>10. /\ DOMAIN ar2 = {ElementOf(vc2[1]), ElementOf(vc2[2])} \ {Null}
       /\ (ElementOf(vc2[1]) = ElementOf(vc2[2]) => ElementOf(vc2[1]) = Null)
  <2>1. (v = 1 /\ w = 2) \/ (v = 2 /\ w = 1)
    OBVIOUS
  <2> QED
    BY <1>8, <1>9, <2>1
<1> QED
  BY <1>2, <1>3, <1>6, <1>10 DEF Sound, vc2, rf2, With

\* operator new finds a block.
LEMMA FreshBlock ==
  ASSUME NEW h, NEW x, NEW y, DOMAIN h \subseteq {x, y}
  PROVE  V!Fresh(h) \in 1..4 /\ V!Fresh(h) \notin DOMAIN h /\ S!Fresh(h) = V!Fresh(h)
<1>1. Cardinality({1, 2}) = 2
  <2>1. Cardinality({1}) = 1 /\ IsFiniteSet({1})
    BY FS_Singleton
  <2>2. Cardinality({1} \cup {2}) = Cardinality({1}) + 1
    BY <2>1, FS_AddElement
  <2> QED
    BY <2>1, <2>2
<1>2. V!Blocks = 1..4 /\ S!Blocks = 1..4
  <2>1. V!Blocks = 1 .. Cardinality({1, 2}) + 2 /\ S!Blocks = 1 .. Cardinality({1, 2}) + 2
    BY DEF V!Blocks, S!Blocks, V!Cardinality, S!Cardinality, Cardinality
  <2> QED
    BY <1>1, <2>1
<1>3. \E b \in 1..4 : b \notin DOMAIN h
  <2>1. \E b \in {1, 2, 3} : b \notin {x, y}
    OBVIOUS
  <2> QED
    BY <2>1
<1> QED
  BY <1>2, <1>3 DEF V!Fresh, S!Fresh

\* The arrays with block b put in, or taken out.
LEMMA PutBlock ==
  ASSUME NEW h, NEW b, NEW e
  PROVE  /\ DOMAIN V!Put(h, b, e) = DOMAIN h \cup {b} /\ V!Put(h, b, e)[b] = e
         /\ \A x \in DOMAIN h : x # b => V!Put(h, b, e)[x] = h[x]
BY DEF V!Put

\* freeMemory takes the array away and leaves the others.
LEMMA FreeBlock ==
  ASSUME NEW h, NEW b
  PROVE  /\ DOMAIN V!freeMemory(h, b) = DOMAIN h \ {b}
         /\ \A x \in DOMAIN h : x # b => V!freeMemory(h, b)[x] = h[x]
BY DEF V!freeMemory

\* An array fresh from operator new.
LEMMA UnsetArray ==
  ASSUME NEW n \in Nat
  PROVE  V!Unset(n) \in Seq(Elems) /\ Len(V!Unset(n)) = n
BY DEF V!Unset, Elems

\* An array of length n with the elements of s, as far as they fit.
LEMMA CopiedArray ==
  ASSUME NEW n \in Nat, NEW s \in Seq(Elems)
  PROVE  /\ V!Copied(s, n) \in Seq(Elems) /\ Len(V!Copied(s, n)) = n
         /\ \A j \in 1..n : V!Copied(s, n)[j] = IF j <= Len(s) THEN s[j] ELSE Junk
<1>1. V!Copied(s, n) = [j \in 1..n |-> IF j \in 1..Len(s) THEN s[j] ELSE Junk]
  BY DEF V!Copied
<1>2. \A j \in 1..n : (IF j \in 1..Len(s) THEN s[j] ELSE Junk) \in Elems
  BY DEF Elems
<1>3. V!Copied(s, n) \in [1..n -> Elems]
  BY <1>1, <1>2
<1> QED
  BY <1>1, <1>3

\* A size that does not wrap.
LEMMA Modulo == \A x \in Nat : \A y \in Nat : x < y => x % y = x
OBVIOUS

\* The sequence of length 0.
LEMMA NoElements ==
  ASSUME NEW W, NEW s \in Seq(W)
  PROVE  Len(s) = 0 <=> s = <<>>
OBVIOUS

\* The other one of the two vectors.
LEMMA Other ==
  ASSUME NEW v \in {1, 2}
  PROVE  \E w \in {1, 2} : w # v /\ {1, 2} = {v, w}
BY DEF Sound

\* What the invariant says of a vector that may be called, and of the other one.
LEMMA VectorParts ==
  ASSUME VectorInv, ~stale, NEW v \in {1, 2}, NEW w \in {1, 2}, w # v
  PROVE  /\ ~ub /\ Sound(mem, heap, ref) /\ Fits(mem[v], heap, ref[v]) /\ ref[v] \in Seq({0, 1})
         /\ mem[v] \in Objects \cup {Null}
         /\ DOMAIN heap = {ElementOf(mem[v]), ElementOf(mem[w])} \ {Null}
         /\ ElementOf(mem[v]) = ElementOf(mem[w]) => ElementOf(mem[v]) = Null
         /\ ElementOf(mem[v]) \in 1..4 \cup {Null} /\ ElementOf(mem[w]) \in 1..4 \cup {Null}
<1>1. (v = 1 /\ w = 2) \/ (v = 2 /\ w = 1)
  OBVIOUS
<1>2. mem[v] \in Objects \cup {Null} /\ mem[w] \in Objects \cup {Null} /\ ref[v] \in Seq({0, 1})
  BY DEF VectorInv, Sound
<1>3. ElementOf(mem[v]) \in 1..4 \cup {Null} /\ ElementOf(mem[w]) \in 1..4 \cup {Null}
  BY <1>2, ElementTypes
<1> QED
  BY <1>1, <1>2, <1>3 DEF VectorInv, Sound

\* One vector was changed and nothing careless done.
LEMMA VectorChanged ==
  ASSUME VectorInv, ~stale, NEW v \in {1, 2}, NEW w \in {1, 2}, w # v,
         NEW o \in Objects \cup {Null}, NEW s \in Seq({0, 1}),
         mem' = [mem EXCEPT ![v] = o], ref' = [ref EXCEPT ![v] = s],
         Changed(mem, heap, heap', v, w, o), Fits(o, heap', s), stale' = FALSE, ub' = FALSE
  PROVE  VectorInv'
<1>1. PICK ar2 : ar2 = heap'
  OBVIOUS
<1>2. Sound(mem, heap, ref) /\ Changed(mem, heap, ar2, v, w, o) /\ Fits(o, ar2, s) /\ v # w
  BY <1>1 DEF VectorInv
<1>3. Sound(With(mem, v, o), ar2, With(ref, v, s))
  BY <1>2, Changes
<1> QED
  BY <1>1, <1>3 DEF VectorInv, With

\* A new array for vector v, which had none.
LEMMA GivenBlock ==
  ASSUME NEW vc, NEW h, NEW v, NEW w, NEW o, ElementOf(vc[v]) = Null, Null \notin DOMAIN h,
         ElementOf(vc[w]) \in DOMAIN h \cup {Null},
         NEW b \in 1..4, b \notin DOMAIN h, NEW e, ElementOf(o) = b
  PROVE  Changed(vc, h, V!Put(h, b, e), v, w, o) /\ V!Put(h, b, e)[b] = e
<1>1. b # Null
  BY NullApart
<1>2. /\ DOMAIN V!Put(h, b, e) = DOMAIN h \cup {b} /\ V!Put(h, b, e)[b] = e
      /\ \A x \in DOMAIN h : x # b => V!Put(h, b, e)[x] = h[x]
  BY DEF V!Put
<1>3. ElementOf(vc[w]) # Null => ElementOf(vc[w]) \in DOMAIN h /\ ElementOf(vc[w]) # b
  OBVIOUS
<1> QED
  BY <1>1, <1>2, <1>3 DEF Changed

\* The array of vector v taken away.
LEMMA FreedBlock ==
  ASSUME NEW vc, NEW h, NEW v, NEW w, NEW o, ElementOf(o) = Null, Null \notin DOMAIN h,
         DOMAIN h = {ElementOf(vc[v]), ElementOf(vc[w])} \ {Null},
         ElementOf(vc[v]) = ElementOf(vc[w]) => ElementOf(vc[v]) = Null
  PROVE  Changed(vc, h, V!freeMemory(h, ElementOf(vc[v])), v, w, o)
<1> DEFINE b == ElementOf(vc[v])
<1>1. /\ DOMAIN V!freeMemory(h, b) = DOMAIN h \ {b}
      /\ \A x \in DOMAIN h : x # b => V!freeMemory(h, b)[x] = h[x]
  BY FreeBlock
<1>2. ElementOf(vc[w]) # Null => ElementOf(vc[w]) \in DOMAIN h /\ ElementOf(vc[w]) # b
  OBVIOUS
<1> QED
  BY <1>1, <1>2 DEF Changed

\* A constructor that allocates an array of n elements.
LEMMA VectorConstructs ==
  ASSUME VectorInv, NEW v \in {1, 2}, NEW n \in Nat, n <= MaxSize - 1, NEW step \in Nat,
         mem[v] = Null, ~stale, ~ub, NEW b, b = V!Fresh(heap),
         heap' = V!Put(heap, b, V!Unset(n)), mem' = [mem EXCEPT ![v] = V!Object(b, 0, step, n)],
         ref' = [ref EXCEPT ![v] = <<>>], UNCHANGED <<stale, ub>>
  PROVE  VectorInv'
<1>1. PICK w \in {1, 2} : w # v
  BY Other
<1>2. /\ DOMAIN heap = {ElementOf(mem[v]), ElementOf(mem[w])} \ {Null} /\ ElementOf(mem[v]) = Null
  BY <1>1, VectorParts DEF ElementOf
<1>3. b \in 1..4 /\ b \notin DOMAIN heap
  BY <1>2, FreshBlock
<1>4. PICK o : o = V!Object(b, 0, step, n)
  OBVIOUS
<1>5. o \in Objects /\ o # Null /\ o.m_element = b /\ o.m_size = 0 /\ o.m_capacity = n /\ ElementOf(o) = b
  BY <1>3, <1>4, NullApart DEF Objects, V!Object, ElementOf
<1>6. Changed(mem, heap, heap', v, w, o) /\ heap'[b] = V!Unset(n)
  <2>1. PICK e : e = V!Unset(n)
    OBVIOUS
  <2>2. PICK h : h = heap
    OBVIOUS
  <2>3. /\ ElementOf(mem[v]) = Null /\ Null \notin DOMAIN h /\ ElementOf(mem[w]) \in DOMAIN h \cup {Null}
        /\ b \in 1..4 /\ b \notin DOMAIN h /\ ElementOf(o) = b
    BY <1>2, <1>3, <1>5, <2>2
  <2>4. Changed(mem, h, V!Put(h, b, e), v, w, o) /\ V!Put(h, b, e)[b] = e
    BY <2>3, GivenBlock, SMTT(30)
  <2> QED
    BY <2>1, <2>2, <2>4
<1>7. Fits(o, heap', <<>>)
  <2>1. V!Unset(n) \in Seq(Elems) /\ Len(V!Unset(n)) = n
    BY UnsetArray
  <2>2. Len(<<>>) = 0 /\ b # Null /\ 1..0 = {}
    BY <1>3, NullApart
  <2> QED
    BY <1>5, <1>6, <2>1, <2>2 DEF Fits
<1>8. <<>> \in Seq({0, 1}) /\ o \in Objects \cup {Null} /\ mem' = [mem EXCEPT ![v] = o]
      /\ stale' = FALSE /\ ub' = FALSE
  BY <1>4, <1>5 DEF VectorInv
<1> QED
  BY <1>1, <1>6, <1>7, <1>8, VectorChanged

\* The elements of a vector.
LEMMA VectorElements ==
  ASSUME VectorInv, ~stale, NEW v \in {1, 2}, mem[v] # Null
  PROVE  /\ V!Elements(v) = ref[v] /\ V!Size(v) = Len(ref[v]) /\ ref[v] \in Seq({0, 1})
         /\ S!Elements(v) = ref[v] /\ S!Size(v) = Len(ref[v])
<1>1. PICK w \in {1, 2} : w # v
  BY Other
<1>2. Fits(mem[v], heap, ref[v]) /\ ref[v] \in Seq({0, 1}) /\ mem[v] \in Objects
  BY <1>1, VectorParts
<1>3. PICK n \in Nat : n = mem[v].m_size /\ n = Len(ref[v])
  BY <1>2 DEF Fits
<1>4. V!Size(v) = n /\ S!Size(v) = n
  BY <1>3 DEF V!Size, S!Size
<1>5. V!Elements(v) = S!Elements(v)
  BY DEF V!Elements, S!Elements, V!Size, S!Size
<1>6. CASE n = 0
  <2>1. ref[v] = <<>>
    BY <1>2, <1>3, <1>6, NoElements
  <2>2. V!Elements(v) = <<>>
    BY <1>4, <1>6 DEF V!Elements
  <2> QED
    BY <1>2, <1>3, <1>4, <1>5, <2>1, <2>2
<1>7. CASE n # 0
  <2>1. PICK a : a = heap[mem[v].m_element]
    OBVIOUS
  <2>2. a \in Seq(Elems) /\ n <= Len(a) /\ \A j \in 1..n : a[j] = ref[v][j]
    <3>1. mem[v].m_capacity \in Nat /\ mem[v].m_size \in Nat
      BY <1>2 DEF Objects
    <3>2. n <= mem[v].m_capacity /\ mem[v].m_element # Null
      BY <1>2, <1>3, <1>7, <3>1 DEF Fits
    <3> QED
      BY <1>2, <1>3, <2>1, <3>2 DEF Fits
  <2>3. V!Elements(v) = SubSeq(a, 1, n)
    BY <1>4, <1>7, <2>1 DEF V!Elements
  <2>4. SubSeq(a, 1, n) \in Seq(Elems) /\ Len(SubSeq(a, 1, n)) = n /\ \A j \in 1..n : SubSeq(a, 1, n)[j] = a[j]
    BY <2>2
  <2>5. SubSeq(a, 1, n) = ref[v]
    <3>1. PICK x : x = SubSeq(a, 1, n)
      OBVIOUS
    <3>2. x \in Seq(Elems) /\ ref[v] \in Seq(Elems) /\ Len(x) = Len(ref[v]) /\ \A j \in 1..Len(x) : x[j] = ref[v][j]
      BY <1>2, <1>3, <2>2, <2>4, <3>1 DEF Elems
    <3>3. PICK s \in Seq(Elems) : s = ref[v]
      BY <3>2
    <3> QED
      BY <3>1, <3>2, <3>3, SeqEqual
  <2> QED
    BY <1>2, <1>3, <1>4, <1>5, <2>3, <2>5
<1> QED
  BY <1>6, <1>7

\* The copy constructor, and the assignment to a vector without an array.
LEMMA VectorCopies ==
  ASSUME VectorInv, NEW v \in {1, 2}, NEW t \in {1, 2}, V!copy(v, t), stale' = FALSE,
         ElementOf(mem[v]) = Null
  PROVE  VectorInv'
<1>1. /\ v # t /\ mem[t] # Null /\ ~stale /\ ~ub /\ ub' = ub
      /\ ref' = [ref EXCEPT ![v] = ref[t]]
  BY DEF V!copy, V!Callable, V!Alive
<1>2. PICK b, e : /\ b = V!Fresh(heap) /\ e = V!Copied(V!Elements(t), mem[t].m_capacity)
                  /\ heap' = V!Put(heap, b, e)
                  /\ mem' = [mem EXCEPT ![v] = [mem[t] EXCEPT !.m_element = b]]
  BY DEF V!copy
<1>3. /\ DOMAIN heap = {ElementOf(mem[v]), ElementOf(mem[t])} \ {Null}
      /\ ElementOf(mem[t]) \in 1..4 \cup {Null}
      /\ mem[t] \in Objects /\ Fits(mem[t], heap, ref[t]) /\ ref[t] \in Seq({0, 1})
  <2>1. t # v
    BY <1>1
  <2>2. /\ DOMAIN heap = {ElementOf(mem[v]), ElementOf(mem[t])} \ {Null} /\ ElementOf(mem[t]) \in 1..4 \cup {Null}
    BY <1>1, <2>1, VectorParts
  <2>3. mem[t] \in Objects \cup {Null} /\ Fits(mem[t], heap, ref[t]) /\ ref[t] \in Seq({0, 1})
    BY <1>1, VectorParts
  <2> QED
    BY <1>1, <2>2, <2>3
<1>4. b \in 1..4 /\ b \notin DOMAIN heap
  BY <1>2, <1>3, FreshBlock
<1>5. PICK o : o = [mem[t] EXCEPT !.m_element = b]
  OBVIOUS
<1>6. /\ o \in Objects /\ o # Null /\ o.m_element = b /\ o.m_size = mem[t].m_size
      /\ o.m_capacity = mem[t].m_capacity /\ ElementOf(o) = b
  BY <1>3, <1>4, <1>5, NullApart DEF Objects, ElementOf
<1>7. Changed(mem, heap, heap', v, t, o) /\ heap'[b] = e
  <2>2. PICK h : h = heap
    OBVIOUS
  <2>3. /\ ElementOf(mem[v]) = Null /\ Null \notin DOMAIN h /\ ElementOf(mem[t]) \in DOMAIN h \cup {Null}
        /\ b \in 1..4 /\ b \notin DOMAIN h /\ ElementOf(o) = b
    BY <1>3, <1>4, <1>6, <2>2
  <2>5. PICK vc : vc = mem
    OBVIOUS
  <2>6. /\ ElementOf(vc[v]) = Null /\ Null \notin DOMAIN h /\ ElementOf(vc[t]) \in DOMAIN h \cup {Null}
        /\ b \in 1..4 /\ b \notin DOMAIN h /\ ElementOf(o) = b
    BY <2>3, <2>5
  <2>7. PICK h2 : h2 = V!Put(h, b, e)
    OBVIOUS
  <2>8. Changed(vc, h, h2, v, t, o)
    BY <2>6, <2>7, GivenBlock
  <2>9. h2[b] = e
    BY <2>7 DEF V!Put
  <2>4. Changed(mem, h, V!Put(h, b, e), v, t, o) /\ V!Put(h, b, e)[b] = e
    BY <2>5, <2>7, <2>8, <2>9
  <2> QED
    BY <1>2, <2>2, <2>4
<1>8. Fits(o, heap', ref[t])
  <2>1. PICK n \in Nat, c \in Nat, s \in Seq({0, 1}) : n = mem[t].m_size /\ c = mem[t].m_capacity /\ s = ref[t]
    BY <1>3 DEF Objects
  <2>2. n <= c /\ c <= MaxSize - 1 /\ Len(s) = n
    BY <1>1, <1>3, <2>1 DEF Fits
  <2>3. V!Elements(t) = s /\ s \in Seq(Elems)
    BY <1>1, <2>1, VectorElements DEF Elems
  <2>4. e \in Seq(Elems) /\ Len(e) = c /\ \A j \in 1..c : e[j] = IF j <= Len(s) THEN s[j] ELSE Junk
    BY <1>2, <2>1, <2>3, CopiedArray
  <2>5. \A j \in 1..n : e[j] = s[j]
    BY <2>2, <2>4
  <2>6. b # Null
    BY <1>4, NullApart
  <2> QED
    BY <1>6, <1>7, <2>1, <2>2, <2>4, <2>5, <2>6 DEF Fits
<1>9. o \in Objects \cup {Null} /\ mem' = [mem EXCEPT ![v] = o] /\ ub' = FALSE /\ t # v
  BY <1>1, <1>2, <1>5, <1>6 DEF VectorInv
<1> QED
  BY <1>1, <1>3, <1>7, <1>8, <1>9, VectorChanged

\* clear() and the destructor: the array is freed and the object o is left.
LEMMA VectorFrees ==
  ASSUME VectorInv, NEW v \in {1, 2}, mem[v] # Null, ~stale, ~ub, NEW o, o = Null \/ (\E n \in Nat : o = V!Object(Null, 0, n, 0)),
         heap' = V!freeMemory(heap, mem[v].m_element), mem' = [mem EXCEPT ![v] = o],
         ref' = [ref EXCEPT ![v] = <<>>], UNCHANGED <<stale, ub>>
  PROVE  VectorInv'
<1>1. PICK w \in {1, 2} : w # v
  BY Other
<1>2. /\ DOMAIN heap = {ElementOf(mem[v]), ElementOf(mem[w])} \ {Null}
      /\ ElementOf(mem[v]) = ElementOf(mem[w]) => ElementOf(mem[v]) = Null
  BY <1>1, VectorParts
<1>3. o \in Objects \cup {Null} /\ ElementOf(o) = Null /\ (o # Null => o.m_size = 0 /\ o.m_capacity = 0 /\ o.m_element = Null)
  BY DEF V!Object, Objects, ElementOf
<1>4. Changed(mem, heap, heap', v, w, o)
  <2>1. PICK h : h = heap
    OBVIOUS
  <2>2. /\ ElementOf(o) = Null /\ Null \notin DOMAIN h
        /\ DOMAIN h = {ElementOf(mem[v]), ElementOf(mem[w])} \ {Null}
        /\ ElementOf(mem[v]) = ElementOf(mem[w]) => ElementOf(mem[v]) = Null
    BY <1>2, <1>3, <2>1
  <2>3. Changed(mem, h, V!freeMemory(h, ElementOf(mem[v])), v, w, o)
    BY <2>2, FreedBlock
  <2> QED
    BY <2>1, <2>3 DEF ElementOf
<1>5. Fits(o, heap', <<>>)
  <2>1. Len(<<>>) = 0 /\ 0 <= MaxSize - 1
    BY Bounds
  <2> QED
    BY <1>3, <2>1 DEF Fits
<1>6. <<>> \in Seq({0, 1}) /\ stale' = FALSE /\ ub' = FALSE
  BY DEF VectorInv
<1> QED
  BY <1>1, <1>3, <1>4, <1>5, <1>6, VectorChanged

\* A vector with room: its array b has the elements and the other keeps its own.
Room(v, w, b, c, n, h) ==
  /\ b \in 1..4 /\ b # ElementOf(mem[w]) /\ c \in Nat /\ n < c /\ c <= MaxSize - 1
  /\ DOMAIN h = (DOMAIN heap \ {ElementOf(mem[v])}) \cup {b}
  /\ \A x \in DOMAIN heap : x # ElementOf(mem[v]) /\ x # b => h[x] = heap[x]
  /\ h[b] \in Seq(Elems) /\ Len(h[b]) = c /\ \A j \in 1..n : h[b][j] = ref[v][j]

\* What grow() leaves is a capacity.
LEMMA GrownCapacity ==
  ASSUME VectorInv, ~stale, NEW v \in {1, 2}, mem[v] # Null
  PROVE  V!grown(v).vec.m_capacity \in Nat
<1>1. PICK w \in {1, 2} : w # v
  BY Other
<1>2. PICK o \in Objects : o = mem[v]
  BY <1>1, VectorParts
<1>3. o.m_capacity \in Nat /\ o.m_step \in Nat
  BY <1>2 DEF Objects
<1>4. PICK more \in Nat : more = (o.m_capacity + o.m_step) % (2 * MaxSize)
  BY <1>3, Bounds
<1>5. PICK d \in Nat : d = IF more > MaxSize - 1 THEN MaxSize - 1 ELSE more
  BY <1>4, Bounds
<1>6. PICK b : b = V!Fresh(heap)
  OBVIOUS
<1>7. V!grown(v).vec = IF V!Size(v) + 1 <= o.m_capacity THEN o ELSE [o EXCEPT !.m_element = b, !.m_capacity = d]
  BY <1>2, <1>4, <1>5, <1>6 DEF V!grown
<1> QED
  BY <1>2, <1>3, <1>7 DEF Objects

\* grow() leaves room for one more element.
Roomy(v) == V!Size(v) + 1 <= V!grown(v).vec.m_capacity

\* A vector with room for one more element.
LEMMA VectorGrows ==
  ASSUME VectorInv, ~stale, NEW v \in {1, 2}, NEW w \in {1, 2}, w # v, mem[v] # Null,
         Roomy(v)
  PROVE  \E b, c, h : /\ V!grown(v).vec = [mem[v] EXCEPT !.m_element = b, !.m_capacity = c]
                      /\ V!grown(v).arrays = h /\ Room(v, w, b, c, mem[v].m_size, h)
<1> DEFINE o == mem[v]
           x == ElementOf(mem[v])
<1>1. /\ DOMAIN heap = {x, ElementOf(mem[w])} \ {Null} /\ (x = ElementOf(mem[w]) => x = Null)
      /\ Fits(o, heap, ref[v]) /\ ref[v] \in Seq({0, 1}) /\ o \in Objects /\ x = o.m_element
      /\ x \in 1..4 \cup {Null} /\ ElementOf(mem[w]) \in 1..4 \cup {Null}
  <2>1. /\ DOMAIN heap = {x, ElementOf(mem[w])} \ {Null} /\ (x = ElementOf(mem[w]) => x = Null)
        /\ Fits(o, heap, ref[v]) /\ ref[v] \in Seq({0, 1}) /\ o \in Objects \cup {Null}
        /\ x \in 1..4 \cup {Null} /\ ElementOf(mem[w]) \in 1..4 \cup {Null}
    BY VectorParts
  <2> QED
    BY <2>1 DEF ElementOf
<1>2. PICK n \in Nat, step \in Nat, c \in Nat : n = o.m_size /\ step = o.m_step /\ c = o.m_capacity
  BY <1>1 DEF Objects
<1>3. /\ n <= c /\ c <= MaxSize - 1 /\ (x = Null => c = 0)
      /\ x # Null => heap[x] \in Seq(Elems) /\ Len(heap[x]) = c /\ \A j \in 1..n : heap[x][j] = ref[v][j]
  BY <1>1, <1>2 DEF Fits
<1>4. V!Size(v) = n
  BY <1>2 DEF V!Size
<1>5. o = [o EXCEPT !.m_element = x, !.m_capacity = c]
  BY <1>1, <1>2 DEF Objects
<1> HIDE DEF o
<1>6. CASE n + 1 <= c
  <2>1. V!grown(v).vec = mem[v] /\ V!grown(v).arrays = heap
    BY <1>2, <1>4, <1>6 DEF V!grown, o
  <2>2. x # Null /\ x \in 1..4 /\ n < c
    BY <1>1, <1>3, <1>6
  <2>3. DOMAIN heap = (DOMAIN heap \ {x}) \cup {x}
    BY <1>1, <2>2
  <2>4. Room(v, w, x, c, n, heap)
    BY <1>1, <1>3, <2>2, <2>3 DEF Room
  <2> QED
    BY <1>2, <1>5, <2>1, <2>4 DEF o
<1>7. CASE ~(n + 1 <= c)
  <2>1. PICK more \in Nat : more = (c + step) % (2 * MaxSize)
    BY Bounds
  <2>2. PICK d \in Nat : d = (IF more > MaxSize - 1 THEN MaxSize - 1 ELSE more) /\ d <= MaxSize - 1
    BY <2>1, Bounds
  <2>0. PICK b : b = V!Fresh(heap)
    OBVIOUS
  <2>4. PICK e : e = V!Copied(V!Elements(v), d)
    OBVIOUS
  <2>5. PICK h : h = V!freeMemory(V!Put(heap, b, e), x)
    OBVIOUS
  <2>6. V!grown(v).vec = [mem[v] EXCEPT !.m_element = b, !.m_capacity = d] /\ V!grown(v).arrays = h
    <3>1. ~ (V!Size(v) + 1 <= mem[v].m_capacity)
      BY <1>2, <1>4, <1>7 DEF o
    <3>2. more = (mem[v].m_capacity + mem[v].m_step) % (2 * MaxSize)
      BY <1>2, <2>1 DEF o
    <3> QED
      BY <1>1, <2>0, <2>2, <2>4, <2>5, <3>1, <3>2 DEF V!grown, o
  <2>3. n < d /\ d <= MaxSize - 1
    <3>1. PICK g : g = V!grown(v).vec
      OBVIOUS
    <3>2. g.m_capacity = d
      BY <1>1, <2>6, <3>1 DEF Objects, o
    <3> QED
      BY <1>4, <2>2, <3>1, <3>2 DEF Roomy
  <2>7. b \in 1..4 /\ b \notin DOMAIN heap /\ b # Null
    <3>1. DOMAIN heap \subseteq {x, ElementOf(mem[w])}
      BY <1>1
    <3>2. b \in 1..4 /\ b \notin DOMAIN heap
      BY <2>0, <3>1, FreshBlock
    <3> QED
      BY <3>2, NullApart
  <2>8. /\ DOMAIN h = (DOMAIN heap \cup {b}) \ {x} /\ h[b] = e
        /\ \A y \in DOMAIN heap : y # x /\ y # b => h[y] = heap[y]
    <3>1. PICK g : g = V!Put(heap, b, e)
      OBVIOUS
    <3>2. DOMAIN g = DOMAIN heap \cup {b} /\ g[b] = e /\ \A y \in DOMAIN heap : y # b => g[y] = heap[y]
      BY <3>1 DEF V!Put
    <3>3. h = [y \in DOMAIN g \ {x} |-> g[y]]
      BY <2>5, <3>1 DEF V!freeMemory
    <3>4. b # x
      BY <1>1, <2>7
    <3> QED
      BY <3>2, <3>3, <3>4
  <2>9. DOMAIN h = (DOMAIN heap \ {x}) \cup {b} /\ b # ElementOf(mem[w])
    BY <1>1, <2>7, <2>8
  <2>10. h[b] \in Seq(Elems) /\ Len(h[b]) = d /\ \A j \in 1..n : h[b][j] = ref[v][j]
    <3>1. PICK s \in Seq({0, 1}) : s = ref[v]
      BY <1>1
    <3>2. V!Elements(v) = s /\ Len(s) = n /\ s \in Seq(Elems)
      BY <1>4, <3>1, VectorElements DEF Elems
    <3>3. e \in Seq(Elems) /\ Len(e) = d /\ \A j \in 1..d : e[j] = IF j <= Len(s) THEN s[j] ELSE Junk
      BY <2>4, <3>2, CopiedArray
    <3>4. \A j \in 1..n : e[j] = s[j]
      BY <2>3, <3>2, <3>3
    <3> QED
      BY <2>8, <3>1, <3>3, <3>4
  <2>11. Room(v, w, b, d, n, h)
    BY <2>3, <2>7, <2>8, <2>9, <2>10 DEF Room
  <2> QED
    BY <1>2, <2>6, <2>11 DEF o
<1> QED
  BY <1>6, <1>7

\* An element put in behind the first pos elements.
LEMMA VectorInserts ==
  ASSUME VectorInv, NEW v \in {1, 2}, NEW pos \in Nat, NEW t \in {0, 1}, NEW from \in Nat,
         V!insert(v, pos, t, from)
  PROVE  /\ VectorInv'
         /\ ~stale' => \E o, r : /\ mem' = [mem EXCEPT ![v] = o] /\ ref' = [ref EXCEPT ![v] = r]
                                 /\ Len(r) = mem[v].m_size + 1
<1> DEFINE size == mem[v].m_size
           cramped == V!Size(v) + 1 > V!grown(v).vec.m_capacity
           moved == (V!Size(v) - pos) % (2 * MaxSize)
           gone == from # 0 /\ V!Size(v) = mem[v].m_capacity
<1>1. /\ mem[v] # Null /\ ~stale /\ ~ub /\ V!HasRoom(v)
      /\ ub' = (cramped \/ moved > V!Size(v) \/ gone)
      /\ stale' = (pos > V!Size(v) \/ cramped \/ gone \/ from > pos + 1)
  BY DEF V!insert, V!Callable, V!Alive
<1>2. V!Size(v) = size
  BY DEF V!Size
<1>3. stale' \in BOOLEAN /\ ub' \in BOOLEAN
  BY <1>1
<1>4. CASE stale'
  BY <1>1, <1>4 DEF VectorInv
<1>5. CASE ~stale'
  <2>1. PICK w \in {1, 2} : w # v
    BY Other
  <2>2. mem[v] \in Objects /\ Fits(mem[v], heap, ref[v]) /\ ref[v] \in Seq({0, 1}) /\ ElementOf(mem[w]) \in 1..4 \cup {Null}
        /\ DOMAIN heap = {ElementOf(mem[v]), ElementOf(mem[w])} \ {Null}
        /\ (ElementOf(mem[v]) = ElementOf(mem[w]) => ElementOf(mem[v]) = Null)
    BY <1>1, <2>1, VectorParts
  <2>3. PICK n \in Nat : n = size
    BY <2>2 DEF Objects
  <2>4. pos <= n /\ ~cramped /\ ~gone /\ Len(ref[v]) = n
    <3>1. Len(ref[v]) = n
      BY <1>1, <2>2, <2>3 DEF Fits
    <3>2. ~ (pos > n) /\ ~cramped /\ ~gone
      BY <1>1, <1>2, <1>5, <2>3
    <3> QED
      BY <2>3, <3>1, <3>2
  <2>5. PICK b, c, h : /\ V!grown(v).vec = [mem[v] EXCEPT !.m_element = b, !.m_capacity = c]
                       /\ V!grown(v).arrays = h /\ Room(v, w, b, c, mem[v].m_size, h)
    <3>1. Roomy(v)
      <4>1. V!grown(v).vec.m_capacity \in Nat
        BY <1>1, GrownCapacity
      <4> QED
        BY <1>2, <2>3, <2>4, <4>1 DEF Roomy
    <3> QED
      BY <1>1, <2>1, <3>1, VectorGrows
  <2>6. /\ b \in 1..4 /\ b # ElementOf(mem[w]) /\ c \in Nat /\ n < c /\ c <= MaxSize - 1 /\ n + 1 <= c
        /\ DOMAIN h = (DOMAIN heap \ {ElementOf(mem[v])}) \cup {b}
        /\ \A x \in DOMAIN heap : x # ElementOf(mem[v]) /\ x # b => h[x] = heap[x]
        /\ h[b] \in Seq(Elems) /\ Len(h[b]) = c /\ \A j \in 1..n : h[b][j] = ref[v][j]
    BY <2>3, <2>5 DEF Room
  <2>7. PICK g : g = V!grown(v).vec
    OBVIOUS
  <2>8. g \in Objects /\ g.m_element = b /\ g.m_size = n /\ g.m_capacity = c /\ b # Null
    <3>1. PICK m : m = mem[v]
      OBVIOUS
    <3>2. m \in Objects /\ g = [m EXCEPT !.m_element = b, !.m_capacity = c] /\ m.m_size = n
      BY <2>2, <2>3, <2>5, <2>7, <3>1
    <3>3. g \in Objects /\ g.m_element = b /\ g.m_size = n /\ g.m_capacity = c
      BY <2>6, <3>2 DEF Objects
    <3>4. b # Null
      BY <2>6, NullApart
    <3> QED
      BY <3>3, <3>4
  <2>9. ub' = FALSE
    <3>1. moved = n - pos
      <4>1. n - pos \in Nat /\ 2 * MaxSize \in Nat /\ n - pos < 2 * MaxSize
        BY <2>4, <2>6, Bounds
      <4> QED
        BY <1>2, <2>3, <4>1, Modulo
    <3>2. ~ (n - pos > n)
      BY <2>4, <2>6, Bounds
    <3> QED
      BY <1>1, <1>2, <2>3, <2>4, <3>1, <3>2
  <2>10. /\ mem' = [mem EXCEPT ![v] = [g EXCEPT !.m_size = @ + 1]]
         /\ heap' = [h EXCEPT ![b] = [j \in DOMAIN @ |-> IF j <= pos \/ j > n + 1 THEN @[j]
                                                         ELSE IF j = pos + 1 THEN t ELSE @[j - 1]]]
         /\ ref' = [ref EXCEPT ![v] = V!InsertAt(@, pos + 1, t)]
    BY <1>2, <1>5, <2>3, <2>5, <2>7, <2>8, <2>9 DEF V!insert
  <2>11. PICK o : o = [g EXCEPT !.m_size = @ + 1]
    OBVIOUS
  <2>12. /\ o \in Objects /\ o # Null /\ o.m_element = b /\ ElementOf(o) = b /\ o.m_size = n + 1 /\ o.m_capacity = c
    BY <2>8, <2>11, NullApart DEF Objects, ElementOf
  <2>13. PICK a \in Seq(Elems) : a = h[b]
    BY <2>6
  <2>14. PICK e : e = [j \in DOMAIN a |-> IF j <= pos \/ j > n + 1 THEN a[j]
                                          ELSE IF j = pos + 1 THEN t ELSE a[j - 1]]
    OBVIOUS
  <2>15. heap' = [h EXCEPT ![b] = e]
    BY <2>10, <2>13, <2>14
  <2>16. DOMAIN heap' = DOMAIN h /\ heap'[b] = e /\ \A x \in DOMAIN h : x # b => heap'[x] = h[x]
    BY <2>6, <2>15
  <2>17. DOMAIN a = 1..c /\ \A j \in 1..c : a[j] \in Elems
    BY <2>6, <2>13
  <2>18. e \in Seq(Elems) /\ Len(e) = c
    <3>1. \A j \in 1..c : (IF j <= pos \/ j > n + 1 THEN a[j] ELSE IF j = pos + 1 THEN t ELSE a[j - 1]) \in Elems
      <4>1. ASSUME NEW j \in 1..c, ~ (j <= pos \/ j > n + 1), j # pos + 1 PROVE j - 1 \in 1..c
        <5>1. j > pos + 1
          BY <4>1
        <5> QED
          BY <2>6, <5>1
      <4> QED
        BY <2>17, <4>1 DEF Elems
    <3>2. e \in [1..c -> Elems]
      BY <2>14, <2>17, <3>1
    <3> QED
      BY <2>6, <3>2
  <2>19. PICK s \in Seq({0, 1}) : s = ref[v] /\ Len(s) = n
    BY <2>2, <2>4
  <2>20. PICK q \in 1..(Len(s) + 1) : q = pos + 1 /\ q - 1 = pos
    BY <2>4, <2>19
  <2>21. PICK r \in Seq({0, 1}) : r = V!InsertAt(s, q, t) /\ IsInserted(r, s, q, t)
    <3>1. V!InsertAt(s, q, t) = SubSeq(s, 1, q - 1) \o <<t>> \o SubSeq(s, q, Len(s))
      BY DEF V!InsertAt
    <3> QED
      BY <3>1, SeqInserted
  <2>22. ref' = [ref EXCEPT ![v] = r]
    BY <2>10, <2>19, <2>20, <2>21
  <2>23. ASSUME NEW j \in 1..(n + 1) PROVE e[j] = r[j]
    <3>1. e[j] = IF j <= pos \/ j > n + 1 THEN a[j] ELSE IF j = pos + 1 THEN t ELSE a[j - 1]
      <4>1. j \in 1..c
        BY <2>6
      <4> QED
        BY <2>14, <2>17, <4>1
    <3>2. r[j] = IF j < q THEN s[j] ELSE IF j = q THEN t ELSE s[j - 1]
      BY <2>19, <2>21 DEF IsInserted
    <3>3. \A y \in 1..n : a[y] = s[y]
      BY <2>6, <2>13, <2>19
    <3>4. CASE j < q
      <4>1. j <= pos /\ j \in 1..n
        BY <2>4, <2>20, <3>4
      <4> QED
        BY <3>1, <3>2, <3>3, <3>4, <4>1
    <3>5. CASE j = q
      <4>1. ~ (j <= pos \/ j > n + 1) /\ j = pos + 1 /\ ~ (j < q)
        BY <2>20, <3>5
      <4> QED
        BY <3>1, <3>2, <3>5, <4>1
    <3>6. CASE j > q
      <4>1. ~ (j <= pos \/ j > n + 1) /\ j # pos + 1 /\ ~ (j < q) /\ j # q /\ j - 1 \in 1..n
        BY <2>20, <3>6
      <4> QED
        BY <3>1, <3>2, <3>3, <4>1
    <3> QED
      BY <2>20, <3>4, <3>5, <3>6
  <2>24. Fits(o, heap', r)
    <3>1. Len(r) = n + 1
      BY <2>19, <2>21 DEF IsInserted
    <3> QED
      BY <2>6, <2>8, <2>12, <2>16, <2>18, <2>23, <3>1 DEF Fits
  <2>25. Changed(mem, heap, heap', v, w, o)
    <3>1. PICK h2, vc : h2 = heap' /\ vc = mem
      OBVIOUS
    <3>2. /\ DOMAIN h2 = (DOMAIN heap \ {ElementOf(vc[v])}) \cup {b}
          /\ \A x \in DOMAIN heap : x # ElementOf(vc[v]) /\ x # b => h2[x] = heap[x]
      BY <2>6, <2>16, <3>1
    <3>3. ElementOf(vc[w]) # Null => ElementOf(vc[w]) \in DOMAIN heap /\ ElementOf(vc[w]) # ElementOf(vc[v])
      BY <2>2, <3>1
    <3>4. b # ElementOf(vc[w]) /\ ElementOf(o) = b /\ b # Null
      BY <2>6, <2>8, <2>12, <3>1
    <3>5. Changed(vc, heap, h2, v, w, o)
      BY <3>2, <3>3, <3>4 DEF Changed
    <3> QED
      BY <3>1, <3>5
  <2>26. mem' = [mem EXCEPT ![v] = o] /\ stale' = FALSE /\ o \in Objects \cup {Null}
    BY <1>3, <1>5, <2>10, <2>11, <2>12
  <2>27. VectorInv'
    BY <1>1, <2>1, <2>9, <2>22, <2>24, <2>25, <2>26, VectorChanged
  <2>28. Len(r) = n + 1
    BY <2>19, <2>21 DEF IsInserted
  <2> QED
    BY <2>3, <2>22, <2>26, <2>27, <2>28
<1> QED
  BY <1>4, <1>5

\* A sequence without the n elements behind the first p.
IsCut(t, s, p, n) ==
  /\ Len(t) = Len(s) - n
  /\ \A j \in 1..(Len(s) - n) : t[j] = IF j <= p THEN s[j] ELSE s[j + n]

\* A sequence with n elements behind the first p cut out.
LEMMA SeqCut ==
  ASSUME NEW W, NEW s \in Seq(W), NEW p \in 0..Len(s), NEW n \in Nat, p + n <= Len(s)
  PROVE  /\ SubSeq(s, 1, p) \o SubSeq(s, p + n + 1, Len(s)) \in Seq(W)
         /\ IsCut(SubSeq(s, 1, p) \o SubSeq(s, p + n + 1, Len(s)), s, p, n)
<1> DEFINE l == Len(s)
<1>1. l \in Nat /\ p \in 0..l /\ p \in Nat
  OBVIOUS
<1>2. PICK x : x = SubSeq(s, 1, p)
  OBVIOUS
<1>3. PICK y : y = SubSeq(s, p + n + 1, l)
  OBVIOUS
<1>4. x \in Seq(W) /\ Len(x) = p /\ \A j \in 1..p : x[j] = s[j]
  BY <1>1, <1>2, SubSeqProperties
<1>5. y \in Seq(W) /\ Len(y) = l - p - n /\ \A j \in 1..(l - p - n) : y[j] = s[p + n + j]
  BY <1>1, <1>3, SubSeqProperties
<1> HIDE DEF l
<1>8. PICK t \in Seq(W) : t = x \o y /\ Len(t) = l - n /\ \A j \in 1..(l - n) : t[j] = IF j <= p THEN x[j] ELSE y[j - p]
  <2>1. Len(x) + Len(y) = l - n
    BY <1>1, <1>4, <1>5
  <2>2. x \o y \in Seq(W) /\ Len(x \o y) = Len(x) + Len(y)
        /\ \A j \in 1..(Len(x) + Len(y)) : (x \o y)[j] = IF j <= Len(x) THEN x[j] ELSE y[j - Len(x)]
    BY <1>4, <1>5, CatOf
  <2> QED
    BY <1>4, <2>1, <2>2
<1>9. ASSUME NEW j \in 1..(l - n) PROVE t[j] = IF j <= p THEN s[j] ELSE s[j + n]
  <2>1. CASE j <= p
    <3>1. j \in 1..p
      BY <1>1, <2>1
    <3> QED
      BY <1>4, <1>8, <2>1, <3>1
  <2>2. CASE ~ (j <= p)
    <3>1. j - p \in 1..(l - p - n) /\ p + n + (j - p) = j + n
      BY <1>1, <2>2
    <3>2. y[j - p] = s[p + n + (j - p)]
      BY <1>5, <3>1
    <3> QED
      BY <1>8, <2>2, <3>1, <3>2
  <2> QED
    BY <2>1, <2>2
<1> QED
  BY <1>2, <1>3, <1>8, <1>9 DEF IsCut, l

\* The same when fewer than n elements are behind them.
LEMMA SeqCutShort ==
  ASSUME NEW W, NEW s \in Seq(W), NEW p \in 0..Len(s), NEW n \in Nat, NEW d,
         d = IF p + n > Len(s) THEN Len(s) - p ELSE n
  PROVE  /\ SubSeq(s, 1, p) \o SubSeq(s, p + n + 1, Len(s)) \in Seq(W)
         /\ IsCut(SubSeq(s, 1, p) \o SubSeq(s, p + n + 1, Len(s)), s, p, d)
<1>1. CASE p + n <= Len(s)
  <2>1. d = n
    BY <1>1
  <2> QED
    BY <1>1, <2>1, SeqCut
<1>2. CASE p + n > Len(s)
  <2>1. d = Len(s) - p /\ d \in Nat /\ p + d <= Len(s)
    BY <1>2
  <2>2. SubSeq(s, p + n + 1, Len(s)) = <<>> /\ SubSeq(s, p + d + 1, Len(s)) = <<>>
    <3>1. p + n + 1 > Len(s) /\ p + d + 1 > Len(s)
      BY <1>2, <2>1
    <3>2. \A a \in Nat : a > Len(s) => SubSeq(s, a, Len(s)) = <<>>
      <4>1. ASSUME NEW a \in Nat, a > Len(s) PROVE SubSeq(s, a, Len(s)) = <<>>
        <5>1. a..Len(s) = {}
          BY <4>1
        <5> QED
          BY <4>1, SubSeqProperties
      <4> QED
        BY <4>1
    <3>3. p + n + 1 \in Nat /\ p + d + 1 \in Nat
      BY <2>1
    <3> QED
      BY <3>1, <3>2, <3>3
  <2> QED
    BY <2>1, <2>2, SeqCut
<1> QED
  BY <1>1, <1>2

\* What removeAt moves and drops when nothing overflows.
LEMMA Removal ==
  ASSUME NEW size \in Nat, size <= MaxSize - 1, NEW pos \in 0..size, NEW len \in Nat, pos + len < 2 * MaxSize
  PROVE  LET n == IF pos + len > size THEN size - pos ELSE len
         IN  V!removal(size, pos, len) = [dropped |-> n, from |-> pos + n, moved |-> size - (pos + n)]
<1> DEFINE W == 2 * MaxSize
           n == IF pos + len > size THEN size - pos ELSE len
<1>1. W \in Nat /\ size < W
  BY Bounds
<1>2. n \in Nat /\ pos + n <= size /\ pos + len \in Nat /\ size - pos \in Nat /\ pos + n \in Nat /\ size - (pos + n) \in Nat
  OBVIOUS
<1> HIDE DEF W
<1>3. (pos + len) % W = pos + len /\ (size - pos) % W = size - pos
  <2>1. pos + len < W /\ size - pos < W
    BY <1>1 DEF W
  <2> QED
    BY <1>1, <1>2, <2>1, Modulo
<1> HIDE DEF n
<1>4. (pos + n) % W = pos + n /\ (size - (pos + n)) % W = size - (pos + n)
  <2>1. pos + n < W /\ size - (pos + n) < W
    BY <1>1, <1>2
  <2> QED
    BY <1>1, <1>2, <2>1, Modulo
<1>5. n = IF (pos + len) % W > size THEN (size - pos) % W ELSE len
  BY <1>3 DEF n
<1> QED
  BY <1>4, <1>5 DEF V!removal, W, n

\* len elements taken out behind the first pos, or as many as there are.
LEMMA VectorRemoves ==
  ASSUME VectorInv, NEW v \in {1, 2}, NEW pos \in Nat, NEW len \in 0..(2 * MaxSize - 1), V!removeAt(v, pos, len)
  PROVE  VectorInv'
<1>1. /\ mem[v] # Null /\ ~stale /\ ~ub /\ pos <= V!Size(v)
      /\ stale' = (pos + len >= 2 * MaxSize /\ pos > 0) /\ ub' \in BOOLEAN
  BY DEF V!removeAt, V!Callable, V!Alive
<1>2. stale' \in BOOLEAN
  BY <1>1
<1>4. CASE stale'
  BY <1>1, <1>4 DEF VectorInv
<1>5. CASE ~stale'
  <2>1. PICK w \in {1, 2} : w # v
    BY Other
  <2>2. mem[v] \in Objects /\ Fits(mem[v], heap, ref[v]) /\ ref[v] \in Seq({0, 1}) /\ ElementOf(mem[w]) \in 1..4 \cup {Null}
        /\ DOMAIN heap = {ElementOf(mem[v]), ElementOf(mem[w])} \ {Null}
        /\ (ElementOf(mem[v]) = ElementOf(mem[w]) => ElementOf(mem[v]) = Null)
    BY <1>1, <2>1, VectorParts
  <2>3. PICK n \in Nat, c \in Nat, b \in 1..4 \cup {Null} : n = mem[v].m_size /\ c = mem[v].m_capacity /\ b = mem[v].m_element
    BY <2>2 DEF Objects
  <2>4. /\ n <= c /\ c <= MaxSize - 1 /\ Len(ref[v]) = n /\ (b = Null => c = 0) /\ ElementOf(mem[v]) = b
        /\ b # Null => heap[b] \in Seq(Elems) /\ Len(heap[b]) = c /\ \A j \in 1..n : heap[b][j] = ref[v][j]
    BY <1>1, <2>2, <2>3 DEF Fits, ElementOf
  <2>5. V!Size(v) = n /\ pos \in 0..n /\ n <= MaxSize - 1
    BY <1>1, <2>3, <2>4, Bounds DEF V!Size
  <2>6. pos + len < 2 * MaxSize
    <3>1. pos = 0 \/ ~ (pos + len >= 2 * MaxSize)
      <4>1. ~ (pos + len >= 2 * MaxSize /\ pos > 0)
        BY <1>1, <1>5, Zenon
      <4> QED
        BY <4>1
    <3> QED
      BY <3>1, Bounds
  <2>7. PICK d : d = IF pos + len > n THEN n - pos ELSE len
    OBVIOUS
  <2>8. V!removal(n, pos, len) = [dropped |-> d, from |-> pos + d, moved |-> n - (pos + d)]
    <3>1. len \in Nat
      BY Bounds
    <3> QED
      BY <2>5, <2>6, <2>7, <3>1, Removal
  <2>9. d \in 0..n /\ pos + d \in pos..n /\ n - d \in Nat /\ len \in Nat
    BY <2>5, <2>7, Bounds
  <2>10. PICK m \in Nat : m = n - d /\ m <= n
    BY <2>9
  <2>11. (n - d) % (2 * MaxSize) = m
    <3>1. m < 2 * MaxSize /\ 2 * MaxSize \in Nat
      BY <2>5, <2>10, Bounds
    <3> QED
      BY <2>10, <3>1, Modulo
  <2>12. ub' = FALSE
    <3>1. PICK f \in Nat : f = n - (pos + d) /\ pos + f <= n /\ (pos + d) + f <= n
      BY <2>5, <2>9
    <3>2. ub' = (f # 0 /\ (pos + f > c \/ (pos + d) + f > c))
      BY <2>3, <2>5, <2>8, <3>1 DEF V!removeAt
    <3>3. pos + f \in Nat /\ (pos + d) + f \in Nat /\ n <= c /\ c \in Nat
      BY <2>3, <2>4, <2>9, <3>1, SMTT(30)
    <3>4. ~ (pos + f > c) /\ ~ ((pos + d) + f > c)
      BY <3>1, <3>3
    <3> QED
      BY <3>2, <3>4, Zenon
  <2>13. /\ mem' = [mem EXCEPT ![v].m_size = m]
         /\ heap' = IF n = 0 THEN heap
                    ELSE [heap EXCEPT ![b] = [j \in DOMAIN @ |-> IF j > m THEN Junk
                                                ELSE IF j <= pos THEN @[j] ELSE @[j - pos + (pos + d)]]]
         /\ ref' = [ref EXCEPT ![v] = SubSeq(@, 1, pos) \o SubSeq(@, pos + len + 1, Len(@))]
    <3>1. mem' = [mem EXCEPT ![v].m_size = (V!Size(v) - V!removal(V!Size(v), pos, len).dropped) % (2 * MaxSize)]
      BY <1>5 DEF V!removeAt
    <3>2. heap' = IF ub' \/ V!Size(v) = 0 THEN heap
                  ELSE [heap EXCEPT ![mem[v].m_element] =
                         [j \in DOMAIN @ |->
                            IF j > (V!Size(v) - V!removal(V!Size(v), pos, len).dropped) % (2 * MaxSize) THEN Junk
                            ELSE IF j <= pos THEN @[j] ELSE @[j - pos + V!removal(V!Size(v), pos, len).from]]]
      BY <1>5 DEF V!removeAt
    <3>3. ref' = [ref EXCEPT ![v] = SubSeq(@, 1, pos) \o SubSeq(@, pos + len + 1, Len(@))]
      BY <1>5 DEF V!removeAt
    <3>4. /\ V!removal(V!Size(v), pos, len).dropped = d /\ V!removal(V!Size(v), pos, len).from = pos + d
          /\ (V!Size(v) - d) % (2 * MaxSize) = m
      BY <2>5, <2>8, <2>11
    <3> QED
      BY <1>5, <2>3, <2>5, <2>12, <3>1, <3>2, <3>3, <3>4, Zenon
  <2>14. PICK o : o = [mem[v] EXCEPT !.m_size = m]
    OBVIOUS
  <2>15. /\ o \in Objects /\ o # Null /\ o.m_element = b /\ ElementOf(o) = b /\ o.m_size = m /\ o.m_capacity = c
    <3>1. PICK x : x = mem[v]
      OBVIOUS
    <3>2. x \in Objects /\ x.m_element = b /\ x.m_capacity = c /\ o = [x EXCEPT !.m_size = m]
      BY <2>2, <2>3, <2>14, <3>1
    <3>3. o \in Objects /\ o.m_element = b /\ o.m_size = m /\ o.m_capacity = c
      BY <3>2 DEF Objects
    <3>4. o # Null
      BY <3>3, NullApart
    <3> QED
      BY <3>3, <3>4 DEF ElementOf
  <2>16. PICK s \in Seq({0, 1}) : s = ref[v] /\ Len(s) = n
    BY <2>2, <2>4
  <2>17. PICK r \in Seq({0, 1}) : r = SubSeq(s, 1, pos) \o SubSeq(s, pos + len + 1, Len(s)) /\ IsCut(r, s, pos, d)
    <3>1. d = IF pos + len > Len(s) THEN Len(s) - pos ELSE len
      BY <2>7, <2>16
    <3>2. pos \in 0..Len(s)
      BY <2>5, <2>16
    <3> QED
      BY <2>9, <3>1, <3>2, SeqCutShort
  <2>18. Len(r) = m /\ \A j \in 1..m : r[j] = IF j <= pos THEN s[j] ELSE s[j + d]
    BY <2>10, <2>16, <2>17 DEF IsCut
  <2>19. ref' = [ref EXCEPT ![v] = r] /\ mem' = [mem EXCEPT ![v] = o]
    BY <2>13, <2>14, <2>16, <2>17
  <2>20. CASE n = 0
    <3>1. heap' = heap /\ m = 0
      BY <2>10, <2>13, <2>20
    <3>2. Fits(o, heap', r)
      BY <2>4, <2>15, <2>18, <3>1 DEF Fits
    <3>3. Changed(mem, heap, heap', v, w, o)
      BY <2>2, <2>4, <2>15, <3>1 DEF Changed
    <3>4. o \in Objects \cup {Null} /\ stale' = FALSE
      BY <1>2, <1>5, <2>15
    <3> QED
      BY <1>1, <2>1, <2>12, <2>19, <3>2, <3>3, <3>4, VectorChanged
  <2>21. CASE n # 0
    <3>1. b # Null /\ b \in DOMAIN heap
      BY <2>2, <2>4, <2>21
    <3>2. PICK a \in Seq(Elems) : a = heap[b] /\ Len(a) = c
      BY <2>4, <3>1
    <3>3. PICK e : e = [j \in DOMAIN a |-> IF j > m THEN Junk ELSE IF j <= pos THEN a[j] ELSE a[j - pos + (pos + d)]]
      OBVIOUS
    <3>4. heap' = [heap EXCEPT ![b] = e]
      BY <2>13, <2>21, <3>2, <3>3
    <3>5. DOMAIN heap' = DOMAIN heap /\ heap'[b] = e /\ \A x \in DOMAIN heap : x # b => heap'[x] = heap[x]
      BY <3>1, <3>4
    <3>6. DOMAIN a = 1..c /\ \A j \in 1..c : a[j] \in Elems
      BY <3>2
    <3>7. \A j \in 1..c : e[j] = IF j > m THEN Junk ELSE IF j <= pos THEN a[j] ELSE a[j + d]
      <4>1. \A j \in 1..c : j - pos + (pos + d) = j + d
        BY <2>9
      <4> QED
        BY <3>3, <3>6, <4>1
    <3>8. e \in Seq(Elems) /\ Len(e) = c
      <4>1. ASSUME NEW j \in 1..c PROVE e[j] \in Elems
        <5>1. CASE j > m
          BY <3>7, <5>1 DEF Elems
        <5>2. CASE ~ (j > m) /\ j <= pos
          BY <3>6, <3>7, <5>2
        <5>3. CASE ~ (j > m) /\ ~ (j <= pos)
          <6>1. j + d \in 1..c
            BY <2>4, <2>9, <2>10, <5>3
          <6> QED
            BY <3>6, <3>7, <5>3, <6>1
        <5> QED
          BY <5>1, <5>2, <5>3
      <4>2. e \in [1..c -> Elems]
        BY <3>3, <3>6, <4>1
      <4> QED
        BY <4>2
    <3>9. ASSUME NEW j \in 1..m PROVE e[j] = r[j]
      <4>1. j \in 1..c /\ j \in 1..n /\ ~ (j > m)
        BY <2>4, <2>10
      <4>2. \A y \in 1..n : a[y] = s[y]
        BY <2>4, <2>16, <3>1, <3>2
      <4>3. j + d \in 1..n
        BY <2>9, <2>10
      <4> QED
        BY <2>18, <3>7, <4>1, <4>2, <4>3
    <3>10. Fits(o, heap', r)
      <4>1. m <= c
        BY <2>4, <2>10
      <4> QED
        BY <2>4, <2>15, <2>18, <3>1, <3>5, <3>8, <3>9, <4>1 DEF Fits
    <3>11. Changed(mem, heap, heap', v, w, o)
      BY <2>2, <2>4, <2>15, <3>1, <3>5 DEF Changed
    <3>12. o \in Objects \cup {Null} /\ stale' = FALSE
      BY <1>2, <1>5, <2>15
    <3> QED
      BY <1>1, <2>1, <2>12, <2>19, <3>10, <3>11, <3>12, VectorChanged
  <2> QED
    BY <2>20, <2>21
<1> QED
  BY <1>4, <1>5

---------------------------------------------------------------------------
(* The stacks.                                                                 *)

StackInv ==
  /\ VectorInv
  /\ ~stale => /\ m_tail \in [{1, 2} -> Int]
               /\ \A v \in {1, 2} : mem[v] # Null => m_tail[v] = Len(ref[v]) - 1

\* A stack is a vector: the calls that do not name the step are the same.
LEMMA SameCalls ==
  ASSUME NEW v, NEW t, NEW pos, NEW len, NEW from
  PROVE  /\ S!append(v, t, from) <=> V!append(v, t, from)
         /\ S!removeAt(v, pos, len) <=> V!removeAt(v, pos, len)
         /\ S!copyConstruct(v, t) <=> V!copyConstruct(v, t)
         /\ S!destroy(v) <=> V!destroy(v)
<1>1. S!append(v, t, from) <=> V!append(v, t, from)
  BY DEF S!append, V!append, S!insert, V!insert, S!grown, V!grown, S!HasRoom, V!HasRoom, S!Callable, V!Callable,
         S!Alive, V!Alive, S!Size, V!Size, S!Elements, V!Elements, S!Fresh, V!Fresh, S!Blocks, V!Blocks,
         S!Put, V!Put, S!freeMemory, V!freeMemory, S!Copied, V!Copied, S!InsertAt, V!InsertAt,
         S!Cardinality, V!Cardinality, S!Refers, V!Refers
<1>2. S!removeAt(v, pos, len) <=> V!removeAt(v, pos, len)
  BY DEF S!removeAt, V!removeAt, S!removal, V!removal, S!Callable, V!Callable, S!Alive, V!Alive, S!Size, V!Size
<1>3. S!copyConstruct(v, t) <=> V!copyConstruct(v, t)
  BY DEF S!copyConstruct, V!copyConstruct, S!copy, V!copy, S!Callable, V!Callable, S!Alive, V!Alive,
         S!Size, V!Size, S!Elements, V!Elements, S!Fresh, V!Fresh, S!Blocks, V!Blocks, S!Put, V!Put,
         S!Copied, V!Copied, S!Cardinality, V!Cardinality
<1>4. S!destroy(v) <=> V!destroy(v)
  BY DEF S!destroy, V!destroy, S!Callable, V!Callable, S!Alive, V!Alive, S!freeMemory, V!freeMemory
<1> QED
  BY <1>1, <1>2, <1>3, <1>4

\* A vector's size is the length of its reference, within its capacity.
LEMMA SizeIsLength ==
  ASSUME VectorInv, ~stale, NEW v \in {1, 2}, mem[v] # Null
  PROVE  /\ mem[v].m_size = Len(ref[v]) /\ ref[v] \in Seq({0, 1}) /\ Len(ref[v]) \in Nat /\ Len(ref[v]) <= MaxSize - 1
         /\ mem[v].m_capacity \in Nat /\ mem[v].m_capacity <= MaxSize - 1
<1>1. PICK w \in {1, 2} : w # v
  BY Other
<1>2. mem[v] \in Objects /\ Fits(mem[v], heap, ref[v]) /\ ref[v] \in Seq({0, 1})
  BY <1>1, VectorParts
<1>3. PICK n \in Nat, c \in Nat : n = mem[v].m_size /\ c = mem[v].m_capacity
  BY <1>2 DEF Objects
<1>4. n <= c /\ c <= MaxSize - 1 /\ Len(ref[v]) = n
  BY <1>2, <1>3 DEF Fits
<1> QED
  BY <1>2, <1>3, <1>4, Bounds

\* The functions over the two vectors.
LEMMA VectorDomains ==
  ASSUME VectorInv, ~stale
  PROVE  DOMAIN mem = {1, 2} /\ DOMAIN ref = {1, 2}
BY DEF VectorInv, Sound

\* What a push, or a pop, does to m_top.
LEMMA StackMoves ==
  ASSUME StackInv, ~stale, VectorInv', NEW v \in {1, 2}, NEW n \in Int,
         m_tail' = [m_tail EXCEPT ![v] = n],
         ~stale' => /\ \A w \in {1, 2} : w # v => mem'[w] = mem[w] /\ ref'[w] = ref[w]
                    /\ mem'[v] # Null => n = Len(ref'[v]) - 1
  PROVE  StackInv'
<1>1. m_tail \in [{1, 2} -> Int] /\ \A w \in {1, 2} : mem[w] # Null => m_tail[w] = Len(ref[w]) - 1
  BY DEF StackInv
<1>2. m_tail' \in [{1, 2} -> Int] /\ m_tail'[v] = n /\ \A w \in {1, 2} : w # v => m_tail'[w] = m_tail[w]
  BY <1>1
<1>3. ~stale' => \A w \in {1, 2} : mem'[w] # Null => m_tail'[w] = Len(ref'[w]) - 1
  BY <1>1, <1>2
<1> QED
  BY <1>2, <1>3 DEF StackInv

\* A new stack.
LEMMA StackConstructs ==
  ASSUME StackInv, NEW v \in {1, 2}, S!stackConstruct(v)
  PROVE  StackInv'
<1>1. /\ mem[v] = Null /\ ~stale /\ ~ub /\ m_tail' = [m_tail EXCEPT ![v] = -1]
      /\ ref' = [ref EXCEPT ![v] = <<>>] /\ UNCHANGED <<stale, ub>>
  BY DEF S!stackConstruct, S!construct, S!Alive, S!m_npos
<1>2. PICK b : /\ b = S!Fresh(heap) /\ heap' = S!Put(heap, b, S!Unset(1))
               /\ mem' = [mem EXCEPT ![v] = S!Object(b, 0, 1, 1)]
  BY DEF S!stackConstruct, S!construct
<1>3. b = V!Fresh(heap) /\ heap' = V!Put(heap, b, V!Unset(1)) /\ mem' = [mem EXCEPT ![v] = V!Object(b, 0, 1, 1)]
  BY <1>2 DEF S!Fresh, V!Fresh, S!Blocks, V!Blocks, S!Cardinality, V!Cardinality, S!Put, V!Put, S!Unset, V!Unset,
              S!Object, V!Object
<1>4. VectorInv'
  <2>1. VectorInv /\ 1 <= MaxSize - 1
    BY Bounds DEF StackInv
  <2>2. PICK n \in Nat : n = 1
    OBVIOUS
  <2> QED
    BY <1>1, <1>3, <2>1, <2>2, VectorConstructs
<1>5. DOMAIN mem = {1, 2} /\ DOMAIN ref = {1, 2}
  BY <1>1, VectorDomains DEF StackInv
<1>6. Len(ref'[v]) = 0
  BY <1>1, <1>5
<1>7. \A w \in {1, 2} : w # v => mem'[w] = mem[w] /\ ref'[w] = ref[w]
  BY <1>1, <1>2, <1>5
<1>8. -1 = Len(ref'[v]) - 1 /\ -1 \in Int
  BY <1>6
<1> QED
  BY <1>1, <1>4, <1>7, <1>8, StackMoves

\* The copy constructor and the assignment.
LEMMA StackCopies ==
  ASSUME StackInv, NEW v \in {1, 2}, NEW t \in {1, 2}, t # v, S!stackCopy(v, t)
  PROVE  StackInv'
<1>1. V!copyConstruct(v, t) /\ m_tail' = [m_tail EXCEPT ![v] = m_tail[t]]
  BY SameCalls DEF S!stackCopy
<1>2. /\ mem[v] = Null /\ mem[t] # Null /\ ~stale /\ V!copy(v, t) /\ stale' = stale
      /\ ref' = [ref EXCEPT ![v] = ref[t]]
      /\ \E o : mem' = [mem EXCEPT ![v] = o]
  BY <1>1 DEF V!copyConstruct, V!copy, V!Callable, V!Alive
<1>3. VectorInv'
  BY <1>2, VectorCopies DEF StackInv, VectorInv, ElementOf
<1>4. DOMAIN mem = {1, 2} /\ DOMAIN ref = {1, 2}
  BY <1>2, VectorDomains DEF StackInv
<1>5. ref'[v] = ref[t] /\ m_tail[t] \in Int /\ m_tail[t] = Len(ref[t]) - 1
  BY <1>2, <1>4 DEF StackInv
<1>6. \A w \in {1, 2} : w # v => mem'[w] = mem[w] /\ ref'[w] = ref[w]
  BY <1>2, <1>4
<1> QED
  BY <1>1, <1>2, <1>3, <1>5, <1>6, StackMoves

\* clear and the destructor.
LEMMA StackFrees ==
  ASSUME StackInv, NEW v \in {1, 2}, S!stackClear(v) \/ S!stackDestroy(v)
  PROVE  StackInv'
<1>1. /\ mem[v] # Null /\ ~stale /\ ~ub /\ ref' = [ref EXCEPT ![v] = <<>>] /\ UNCHANGED <<stale, ub>>
      /\ heap' = V!freeMemory(heap, mem[v].m_element)
  BY DEF S!stackClear, S!stackDestroy, S!clear, S!destroy, S!Callable, S!Alive, S!freeMemory, V!freeMemory
<1>2. PICK o : mem' = [mem EXCEPT ![v] = o] /\ (o = Null \/ \E n \in Nat : o = V!Object(Null, 0, n, 0))
  <2>1. CASE S!stackClear(v)
    <3>1. mem' = [mem EXCEPT ![v] = V!Object(Null, 0, 1, 0)]
      BY <2>1 DEF S!stackClear, S!clear, S!Object, V!Object
    <3>2. 1 \in Nat
      OBVIOUS
    <3> QED
      BY <3>1, <3>2, Zenon
  <2>2. CASE S!stackDestroy(v)
    BY <2>2 DEF S!stackDestroy, S!destroy
  <2> QED
    BY <2>1, <2>2
<1>3. VectorInv'
  BY <1>1, <1>2, VectorFrees DEF StackInv
<1>4. DOMAIN mem = {1, 2} /\ DOMAIN ref = {1, 2}
  BY <1>1, VectorDomains DEF StackInv
<1>5. mem'[v] = o /\ ref'[v] = <<>> /\ Len(<<>>) = 0
      /\ \A w \in {1, 2} : w # v => mem'[w] = mem[w] /\ ref'[w] = ref[w]
  BY <1>1, <1>2, <1>4
<1>6. CASE S!stackClear(v)
  <2>1. m_tail' = [m_tail EXCEPT ![v] = -1] /\ -1 \in Int /\ -1 = Len(ref'[v]) - 1
    BY <1>5, <1>6 DEF S!stackClear, S!m_npos
  <2> QED
    BY <1>1, <1>3, <1>5, <2>1, StackMoves
<1>7. CASE S!stackDestroy(v)
  <2>1. m_tail' = m_tail /\ mem'[v] = Null
    BY <1>4, <1>7 DEF S!stackDestroy, S!destroy
  <2> QED
    BY <1>1, <1>3, <1>5, <2>1 DEF StackInv
<1> QED
  BY <1>6, <1>7

\* push appends to the vector the stack is made of.
LEMMA StackPushes ==
  ASSUME StackInv, NEW v \in {1, 2}, NEW t \in {0, 1}, NEW from \in Nat, S!push(v, t, from)
  PROVE  StackInv'
<1>1. V!append(v, t, from) /\ m_tail' = [m_tail EXCEPT ![v] = @ + 1]
  BY SameCalls DEF S!push
<1>2. PICK n \in Nat : n = V!Size(v)
  <2>1. mem[v] # Null /\ ~stale
    BY <1>1 DEF V!append, V!insert, V!Callable, V!Alive
  <2> QED
    BY <2>1, SizeIsLength DEF StackInv, V!Size
<1>3. V!insert(v, n, t, from) /\ mem[v] # Null /\ ~stale
  BY <1>1, <1>2 DEF V!append, V!insert, V!Callable, V!Alive
<1>4. VectorInv'
  BY <1>3, VectorInserts DEF StackInv
<1>5. /\ DOMAIN mem = {1, 2} /\ DOMAIN ref = {1, 2} /\ Len(ref[v]) = n /\ m_tail \in [{1, 2} -> Int]
      /\ m_tail[v] = n - 1
  BY <1>2, <1>3, VectorDomains, SizeIsLength DEF StackInv, V!Size
<1>8. ASSUME ~stale' PROVE /\ \A w \in {1, 2} : w # v => mem'[w] = mem[w] /\ ref'[w] = ref[w]
                           /\ Len(ref'[v]) = n + 1
  <2>1. PICK o, r : /\ mem' = [mem EXCEPT ![v] = o] /\ ref' = [ref EXCEPT ![v] = r]
                    /\ Len(r) = mem[v].m_size + 1
    BY <1>3, <1>8, VectorInserts DEF StackInv
  <2> QED
    BY <1>2, <1>5, <2>1 DEF V!Size
<1>9. m_tail' = [m_tail EXCEPT ![v] = n]
  <2>1. (n - 1) + 1 = n
    OBVIOUS
  <2> QED
    BY <1>1, <1>5, <2>1
<1>10. ~stale' => n = Len(ref'[v]) - 1
  <2>1. (n + 1) - 1 = n
    OBVIOUS
  <2> QED
    BY <1>8, <2>1
<1>11. n \in Int
  OBVIOUS
<1> QED
  BY <1>3, <1>4, <1>8, <1>9, <1>10, <1>11, StackMoves

\* pop returns the element that was pushed last.
LEMMA StackPops ==
  ASSUME StackInv, NEW v \in {1, 2}, S!pop(v)
  PROVE  StackInv' /\ popped' = <<S!Last(ref[v])>>
<1>1. /\ mem[v] # Null /\ ~stale /\ popped' = <<S!Last(S!Elements(v))>> /\ S!Size(v) # 0
      /\ m_tail' = [m_tail EXCEPT ![v] = @ - 1]
      /\ S!removeAt(v, m_tail[v] % (2 * MaxSize), 1)
  BY DEF S!pop, S!Callable, S!Alive
<1>2. S!Elements(v) = ref[v] /\ S!Size(v) = Len(ref[v]) /\ ref[v] \in Seq({0, 1})
  BY <1>1, VectorElements DEF StackInv
<1>3. PICK n \in Nat : n + 1 = Len(ref[v]) /\ n + 1 <= MaxSize - 1
  <2>1. Len(ref[v]) \in Nat \ {0} /\ Len(ref[v]) <= MaxSize - 1
    BY <1>1, <1>2, SizeIsLength DEF StackInv
  <2>2. Len(ref[v]) - 1 \in Nat /\ (Len(ref[v]) - 1) + 1 = Len(ref[v])
    BY <2>1
  <2> QED
    BY <2>1, <2>2
<1>4. m_tail \in [{1, 2} -> Int] /\ m_tail[v] = n
  BY <1>1, <1>3 DEF StackInv
<1>5. m_tail[v] % (2 * MaxSize) = n
  <2>1. n < 2 * MaxSize /\ 2 * MaxSize \in Nat
    BY <1>3, Bounds
  <2> QED
    BY <1>4, <2>1, Modulo
<1>6. V!removeAt(v, n, 1)
  BY <1>1, <1>5, SameCalls
<1>7. VectorInv'
  <2>1. 1 \in 0..(2 * MaxSize - 1)
    BY Bounds
  <2> QED
    BY <1>6, <2>1, VectorRemoves DEF StackInv
<1>8. ref' = [ref EXCEPT ![v] = SubSeq(@, 1, n) \o SubSeq(@, n + 1 + 1, Len(@))] /\ \E m : mem' = [mem EXCEPT ![v].m_size = m]
  <2>1. stale' = (n + 1 >= 2 * MaxSize /\ n > 0)
    BY <1>6 DEF V!removeAt
  <2>2. ~ (n + 1 >= 2 * MaxSize)
    BY <1>3, Bounds
  <2>3. ~stale'
    BY <2>1, <2>2
  <2> QED
    BY <1>6, <2>3 DEF V!removeAt
<1>9. DOMAIN mem = {1, 2} /\ DOMAIN ref = {1, 2}
  BY <1>1, VectorDomains DEF StackInv
<1>10. \A w \in {1, 2} : w # v => mem'[w] = mem[w] /\ ref'[w] = ref[w]
  BY <1>8, <1>9
<1>11. Len(ref'[v]) = n
  <2>1. PICK s \in Seq({0, 1}) : s = ref[v] /\ Len(s) = n + 1
    BY <1>2, <1>3
  <2>2. n \in 0..Len(s) /\ 1 \in Nat /\ n + 1 <= Len(s)
    BY <2>1
  <2>3. PICK x : x = SubSeq(s, 1, n) \o SubSeq(s, n + 1 + 1, Len(s)) /\ IsCut(x, s, n, 1)
    BY <2>2, SeqCut
  <2>4. ref'[v] = x /\ Len(x) = Len(s) - 1
    BY <1>8, <1>9, <2>1, <2>3 DEF IsCut
  <2> QED
    BY <2>1, <2>4
<1>12. m_tail' = [m_tail EXCEPT ![v] = n - 1] /\ n - 1 \in Int /\ n - 1 = Len(ref'[v]) - 1
  BY <1>1, <1>4, <1>11
<1>13. StackInv'
  BY <1>1, <1>7, <1>10, <1>12, StackMoves
<1> QED
  BY <1>1, <1>2, <1>13

\* The array, the size and the elements go from vector t to vector v.
LEMMA VectorMoves ==
  ASSUME VectorInv, NEW v \in {1, 2}, NEW t \in {1, 2}, V!move(v, t)
  PROVE  VectorInv'
<1>1. /\ v # t /\ mem[t] # Null /\ ~stale /\ ~ub /\ UNCHANGED <<stale, ub>>
      /\ heap' = (IF mem[v] # Null THEN V!freeMemory(heap, mem[v].m_element) ELSE heap)
      /\ mem' = [mem EXCEPT ![v] = mem[t], ![t] = V!Object(Null, 0, @.m_step, 0)]
      /\ ref' = [ref EXCEPT ![v] = ref[t], ![t] = <<>>]
  BY DEF V!move, V!Callable, V!Alive
<1>2. /\ DOMAIN heap = {ElementOf(mem[v]), ElementOf(mem[t])} \ {Null}
      /\ ElementOf(mem[v]) = ElementOf(mem[t]) => ElementOf(mem[v]) = Null
      /\ mem[t] \in Objects /\ Fits(mem[t], heap, ref[t]) /\ ref[t] \in Seq({0, 1})
      /\ mem[v] \in Objects \cup {Null}
  <2>1. t # v
    BY <1>1
  <2>2. /\ DOMAIN heap = {ElementOf(mem[v]), ElementOf(mem[t])} \ {Null}
        /\ ElementOf(mem[v]) = ElementOf(mem[t]) => ElementOf(mem[v]) = Null
        /\ mem[v] \in Objects \cup {Null}
    BY <1>1, <2>1, VectorParts
  <2>3. Fits(mem[t], heap, ref[t]) /\ ref[t] \in Seq({0, 1}) /\ mem[t] \in Objects \cup {Null}
    BY <1>1, VectorParts
  <2> QED
    BY <1>1, <2>2, <2>3
<1>3. /\ DOMAIN heap' = {ElementOf(mem[t])} \ {Null}
      /\ ElementOf(mem[t]) # Null => heap'[ElementOf(mem[t])] = heap[ElementOf(mem[t])]
  <2>1. CASE mem[v] = Null
    BY <1>1, <1>2, <2>1 DEF ElementOf
  <2>2. CASE mem[v] # Null
    <3>1. PICK b : b = ElementOf(mem[v])
      OBVIOUS
    <3>2. heap' = V!freeMemory(heap, b)
      BY <1>1, <2>2, <3>1 DEF ElementOf
    <3>3. DOMAIN heap' = DOMAIN heap \ {b} /\ \A x \in DOMAIN heap \ {b} : heap'[x] = heap[x]
      BY <3>2 DEF V!freeMemory
    <3> QED
      BY <1>2, <3>1, <3>3
  <2> QED
    BY <2>1, <2>2
<1>4. PICK o : o = V!Object(Null, 0, mem[t].m_step, 0)
  OBVIOUS
<1>5. o \in Objects /\ ElementOf(o) = Null /\ Fits(o, heap', <<>>)
  <2>1. mem[t].m_step \in Nat
    BY <1>2 DEF Objects
  <2>2. o \in Objects /\ o.m_element = Null /\ o.m_size = 0 /\ o.m_capacity = 0
    BY <1>4, <2>1 DEF Objects, V!Object
  <2>3. Len(<<>>) = 0 /\ 0 <= MaxSize - 1
    BY Bounds
  <2> QED
    BY <2>2, <2>3 DEF Fits, ElementOf
<1>6. mem \in [{1, 2} -> Objects \cup {Null}] /\ ref \in [{1, 2} -> Seq({0, 1})]
  BY <1>1 DEF VectorInv, Sound
<1>7. /\ mem' \in [{1, 2} -> Objects \cup {Null}] /\ mem'[v] = mem[t] /\ mem'[t] = o
      /\ ref' \in [{1, 2} -> Seq({0, 1})] /\ ref'[v] = ref[t] /\ ref'[t] = <<>>
  <2>1. mem' = [[mem EXCEPT ![v] = mem[t]] EXCEPT ![t] = o]
    BY <1>1, <1>4, <1>6
  <2>2. <<>> \in Seq({0, 1})
    OBVIOUS
  <2> QED
    BY <1>1, <1>2, <1>5, <1>6, <2>1, <2>2
<1>8. Fits(mem'[v], heap', ref'[v]) /\ Fits(mem'[t], heap', ref'[t])
  BY <1>2, <1>3, <1>5, <1>7, SMTT(30) DEF Fits, ElementOf
<1>9. (v = 1 /\ t = 2) \/ (v = 2 /\ t = 1)
  BY <1>1
<1>10. DOMAIN heap' = {ElementOf(mem'[v]), ElementOf(mem'[t])} \ {Null}
  BY <1>3, <1>5, <1>7
<1>11. Sound(mem', heap', ref')
  BY <1>5, <1>7, <1>8, <1>9, <1>10 DEF Sound
<1> QED
  BY <1>1, <1>11 DEF VectorInv

\* Another step, or other elements in the same array.
LEMMA VectorSetsStep ==
  ASSUME VectorInv, NEW v \in {1, 2}, NEW n \in Nat, V!setStep(v, n)
  PROVE  VectorInv'
<1>1. /\ mem[v] # Null /\ ~stale /\ ~ub /\ heap' = heap /\ ref' = ref /\ stale' = stale /\ ub' = ub
      /\ mem' = [mem EXCEPT ![v].m_step = n]
  BY DEF V!setStep, V!Callable, V!Alive
<1>2. PICK w \in {1, 2} : w # v
  BY Other
<1>3. /\ DOMAIN heap = {ElementOf(mem[v]), ElementOf(mem[w])} \ {Null} /\ mem[v] \in Objects
      /\ ElementOf(mem[v]) = ElementOf(mem[w]) => ElementOf(mem[v]) = Null
      /\ Fits(mem[v], heap, ref[v]) /\ ref \in [{1, 2} -> Seq({0, 1})]
  BY <1>1, <1>2, VectorParts DEF Sound
<1>4. PICK x, o : x = mem[v] /\ o = [x EXCEPT !.m_step = n]
  OBVIOUS
<1>5. /\ o \in Objects /\ o # Null /\ o.m_element = x.m_element /\ o.m_size = x.m_size /\ o.m_capacity = x.m_capacity
  <2>1. /\ o \in Objects /\ o.m_element = x.m_element /\ o.m_size = x.m_size /\ o.m_capacity = x.m_capacity
    BY <1>3, <1>4 DEF Objects
  <2> QED
    BY <2>1, NullApart
<1>6. Changed(mem, heap, heap', v, w, o)
  <2>1. ElementOf(o) = ElementOf(mem[v])
    BY <1>1, <1>4, <1>5 DEF ElementOf
  <2> QED
    BY <1>1, <1>3, <2>1 DEF Changed
<1>7. Fits(o, heap', ref[v])
  BY <1>1, <1>3, <1>4, <1>5 DEF Fits
<1>8. ref' = [ref EXCEPT ![v] = ref[v]] /\ ref[v] \in Seq({0, 1}) /\ mem' = [mem EXCEPT ![v] = o]
      /\ stale' = FALSE /\ ub' = FALSE /\ o \in Objects \cup {Null}
  BY <1>1, <1>3, <1>4, <1>5 DEF VectorInv
<1> QED
  BY <1>1, <1>2, <1>6, <1>7, <1>8, VectorChanged

\* resize() frees the array and takes another one.
LEMMA VectorResizes ==
  ASSUME VectorInv, NEW v \in {1, 2}, NEW n \in Nat, n <= MaxSize - 1, NEW t \in {0, 1}, NEW from,
         V!resize(v, n, t, from)
  PROVE  VectorInv'
<1> DEFINE h == V!freeMemory(heap, mem[v].m_element)
           new == [j \in 1..n |-> IF j = 1 THEN t ELSE 0]
<1>1. mem[v] # Null /\ ~stale /\ ~ub /\ stale' = (n = 0 \/ from # 0) /\ ub' = stale'
  BY DEF V!resize, V!Callable, V!Alive
<1>3. CASE stale'
  BY <1>1, <1>3 DEF VectorInv
<1>4. CASE ~stale'
  <2>12. PICK b : /\ b = V!Fresh(h) /\ heap' = V!Put(h, b, new) /\ mem' = [mem EXCEPT ![v] = V!Object(b, n, 2, n)]
                  /\ ref' = [ref EXCEPT ![v] = new]
    BY <1>4 DEF V!resize
  <2>13. n # 0
    BY <1>1, <1>4
  <2>1. PICK w \in {1, 2} : w # v
    BY Other
  <2>2. /\ DOMAIN heap = {ElementOf(mem[v]), ElementOf(mem[w])} \ {Null}
        /\ ElementOf(mem[v]) = ElementOf(mem[w]) => ElementOf(mem[v]) = Null
    BY <1>1, <2>1, VectorParts
  <2>3. DOMAIN h = {ElementOf(mem[w])} \ {Null} /\ \A x \in DOMAIN h : h[x] = heap[x]
    BY <1>1, <2>2 DEF V!freeMemory, ElementOf
  <2> HIDE DEF h
  <2>4. b \in 1..4 /\ b \notin DOMAIN h /\ b # Null
    <3>1. DOMAIN h \subseteq {ElementOf(mem[w]), Null}
      BY <2>3
    <3>2. b \in 1..4 /\ b \notin DOMAIN h
      BY <2>12, <3>1, FreshBlock
    <3> QED
      BY <3>2, NullApart
  <2>5. DOMAIN heap' = DOMAIN h \cup {b} /\ heap'[b] = new /\ \A x \in DOMAIN h : x # b => heap'[x] = h[x]
    BY <2>12 DEF V!Put
  <2>6. PICK o : o = V!Object(b, n, 2, n)
    OBVIOUS
  <2>7. /\ o \in Objects /\ o # Null /\ ElementOf(o) = b /\ o.m_element = b /\ o.m_size = n /\ o.m_capacity = n
    BY <2>4, <2>6, NullApart DEF V!Object, Objects, ElementOf
  <2>8. Changed(mem, heap, heap', v, w, o)
    BY <2>2, <2>3, <2>4, <2>5, <2>7 DEF Changed
  <2>9. new \in Seq({0, 1}) /\ new \in Seq(Elems) /\ Len(new) = n
    BY DEF Elems
  <2> HIDE DEF new
  <2>10. Fits(o, heap', new)
    BY <2>4, <2>5, <2>7, <2>9 DEF Fits
  <2>11. mem' = [mem EXCEPT ![v] = o] /\ stale' = FALSE /\ ub' = FALSE /\ o \in Objects \cup {Null}
    BY <1>1, <1>4, <2>6, <2>7, <2>12
  <2> QED
    BY <1>1, <2>12, <2>1, <2>8, <2>9, <2>10, <2>11, VectorChanged
<1> QED
  BY <1>3, <1>4

\* Other elements in the same array, for a vector that has one.
Agree(e, s, m) == \A j \in 1..m : e[j] = s[j]

\* A vector written in place: its array changed, and its size not raised.
LEMMA VectorWrites ==
  ASSUME VectorInv, ~stale, NEW v \in {1, 2}, mem[v] # Null, NEW b, b = mem[v].m_element, b # Null,
         NEW m \in Nat, m <= mem[v].m_size, NEW e \in Seq(Elems), Len(e) = mem[v].m_capacity,
         NEW s \in Seq({0, 1}), Len(s) = m, Agree(e, s, m),
         mem' = [mem EXCEPT ![v] = [mem[v] EXCEPT !.m_size = m]], heap' = [heap EXCEPT ![b] = e],
         ref' = [ref EXCEPT ![v] = s], stale' = FALSE, ub' = FALSE
  PROVE  VectorInv'
<1>1. PICK w \in {1, 2} : w # v
  BY Other
<1>2. /\ DOMAIN heap = {ElementOf(mem[v]), ElementOf(mem[w])} \ {Null} /\ mem[v] \in Objects
      /\ ElementOf(mem[v]) = ElementOf(mem[w]) => ElementOf(mem[v]) = Null
      /\ Fits(mem[v], heap, ref[v]) /\ ElementOf(mem[v]) = b
  BY <1>1, VectorParts DEF ElementOf
<1>3. PICK x, o : x = mem[v] /\ o = [x EXCEPT !.m_size = m]
  OBVIOUS
<1>4. /\ o \in Objects /\ o # Null /\ o.m_element = b /\ o.m_size = m /\ o.m_capacity = x.m_capacity /\ ElementOf(o) = b
      /\ x.m_size \in Nat /\ x.m_capacity \in Nat
  <2>1. /\ o \in Objects /\ o.m_element = b /\ o.m_size = m /\ o.m_capacity = x.m_capacity
        /\ x.m_size \in Nat /\ x.m_capacity \in Nat
    BY <1>2, <1>3 DEF Objects
  <2> QED
    BY <2>1, NullApart DEF ElementOf
<1>5. DOMAIN heap' = DOMAIN heap /\ heap'[b] = e /\ \A y \in DOMAIN heap : y # b => heap'[y] = heap[y]
  BY <1>2
<1>6. Changed(mem, heap, heap', v, w, o)
  BY <1>2, <1>4, <1>5 DEF Changed
<1>7. Fits(o, heap', s)
  <2>1. m <= x.m_capacity /\ x.m_capacity <= MaxSize - 1
    BY <1>2, <1>3, <1>4, Bounds DEF Fits
  <2> QED
    BY <1>3, <1>4, <1>5, <2>1 DEF Fits, Agree
<1>8. mem' = [mem EXCEPT ![v] = o] /\ o \in Objects \cup {Null}
  BY <1>3, <1>4
<1> QED
  BY <1>1, <1>6, <1>7, <1>8, VectorChanged

\* swap of two elements.
LEMMA VectorSwaps ==
  ASSUME VectorInv, NEW v \in {1, 2}, NEW a \in Nat, NEW q \in Nat, V!swap(v, a, q)
  PROVE  VectorInv'
<1> DEFINE b == mem[v].m_element
           Swapped(s) == [s EXCEPT ![a + 1] = s[q + 1], ![q + 1] = s[a + 1]]
<1>1. /\ mem[v] # Null /\ ~stale /\ ~ub /\ a < V!Size(v) /\ q < V!Size(v) /\ UNCHANGED <<mem, stale, ub>>
      /\ heap' = [heap EXCEPT ![b] = Swapped(@)] /\ ref' = [ref EXCEPT ![v] = Swapped(@)]
  BY DEF V!swap, V!Callable, V!Alive
<1>2. PICK w \in {1, 2} : w # v
  BY Other
<1>3. /\ mem[v] \in Objects /\ Fits(mem[v], heap, ref[v]) /\ ref[v] \in Seq({0, 1})
      /\ mem \in [{1, 2} -> Objects \cup {Null}] /\ ref \in [{1, 2} -> Seq({0, 1})]
  BY <1>1, <1>2, VectorParts DEF Sound
<1>4. PICK n \in Nat, c \in Nat : n = mem[v].m_size /\ c = mem[v].m_capacity
  BY <1>3 DEF Objects
<1>5. n <= c /\ Len(ref[v]) = n /\ (b = Null => c = 0)
      /\ (b # Null => heap[b] \in Seq(Elems) /\ Len(heap[b]) = c /\ \A j \in 1..n : heap[b][j] = ref[v][j])
  BY <1>1, <1>3, <1>4 DEF Fits
<1>6. a < n /\ q < n /\ a + 1 \in 1..n /\ q + 1 \in 1..n /\ b # Null
  <2>1. a < n /\ q < n
    BY <1>1, <1>4 DEF V!Size
  <2> QED
    BY <1>5, <2>1
<1>7. PICK e \in Seq(Elems), s \in Seq({0, 1}) : e = heap[b] /\ s = ref[v] /\ Len(e) = c /\ Len(s) = n
  BY <1>3, <1>5, <1>6
<1>8. /\ Swapped(e) \in Seq(Elems) /\ Len(Swapped(e)) = c /\ Swapped(s) \in Seq({0, 1}) /\ Len(Swapped(s)) = n
      /\ \A j \in 1..c : Swapped(e)[j] = IF j = q + 1 THEN e[a + 1] ELSE IF j = a + 1 THEN e[q + 1] ELSE e[j]
      /\ \A j \in 1..n : Swapped(s)[j] = IF j = q + 1 THEN s[a + 1] ELSE IF j = a + 1 THEN s[q + 1] ELSE s[j]
  <2>1. ASSUME NEW X, NEW z \in Seq(X), a + 1 \in 1..Len(z), q + 1 \in 1..Len(z)
        PROVE  /\ Swapped(z) \in Seq(X) /\ Len(Swapped(z)) = Len(z)
               /\ \A j \in 1..Len(z) : Swapped(z)[j] = IF j = q + 1 THEN z[a + 1] ELSE IF j = a + 1 THEN z[q + 1] ELSE z[j]
    BY <2>1
  <2>2. a + 1 \in 1..Len(e) /\ q + 1 \in 1..Len(e) /\ a + 1 \in 1..Len(s) /\ q + 1 \in 1..Len(s)
    BY <1>5, <1>6, <1>7
  <2> HIDE DEF Swapped
  <2> QED
    BY <1>7, <2>1, <2>2, SMTT(30)
<1>9. PICK e2 \in Seq(Elems), s2 \in Seq({0, 1}) : e2 = Swapped(e) /\ s2 = Swapped(s)
  BY <1>8
<1>10. \A j \in 1..n : e2[j] = s2[j]
  <2>1. \A j \in 1..n : j \in 1..c /\ e[j] = s[j]
    BY <1>5, <1>6, <1>7
  <2> HIDE DEF Swapped
  <2> QED
    BY <1>6, <1>8, <1>9, <2>1
<1> HIDE DEF Swapped
<1>11. heap' = [heap EXCEPT ![b] = e2] /\ ref' = [ref EXCEPT ![v] = s2]
  BY <1>1, <1>7, <1>9
<1>12. mem' = [mem EXCEPT ![v] = [mem[v] EXCEPT !.m_size = n]]
  <2>1. mem[v] = [mem[v] EXCEPT !.m_size = n]
    BY <1>3, <1>4 DEF Objects
  <2> QED
    BY <1>1, <1>3, <2>1
<1>13. Len(e2) = mem[v].m_capacity /\ Len(s2) = n /\ n <= mem[v].m_size /\ stale' = FALSE /\ ub' = FALSE
  BY <1>1, <1>4, <1>8, <1>9 DEF VectorInv
<1>14. PICK d : d = b
  OBVIOUS
<1>15. /\ ~stale /\ mem[v] # Null /\ d = mem[v].m_element /\ d # Null /\ Agree(e2, s2, n) /\ heap' = [heap EXCEPT ![d] = e2]
  BY <1>1, <1>6, <1>10, <1>11, <1>14 DEF Agree
<1> QED
  BY <1>9, <1>11, <1>12, <1>13, <1>15, VectorWrites

\* reverse() of a vector with elements is careless; without, it does nothing.
LEMMA VectorReverses ==
  ASSUME VectorInv, NEW v \in {1, 2}, V!reverse(v)
  PROVE  VectorInv'
<1>1. /\ mem[v] # Null /\ ~stale /\ ~ub /\ stale' = (V!Size(v) # 0) /\ UNCHANGED <<mem, heap, ub>>
      /\ ref' = [ref EXCEPT ![v] = V!Reverse(@)]
  BY DEF V!reverse, V!Callable, V!Alive
<1>2. CASE stale'
  BY <1>1, <1>2 DEF VectorInv
<1>3. CASE ~stale'
  <2>1. V!Size(v) = 0
    BY <1>1, <1>3
  <2>2. Len(ref[v]) = 0 /\ ref[v] \in Seq({0, 1}) /\ ref \in [{1, 2} -> Seq({0, 1})]
    BY <1>1, <2>1, SizeIsLength DEF V!Size, VectorInv, Sound
  <2>3. ref[v] = <<>>
    BY <2>2, NoElements
  <2>4. V!Reverse(ref[v]) = <<>>
    BY <2>3 DEF V!Reverse
  <2>5. ref' = ref
    BY <1>1, <2>2, <2>3, <2>4
  <2> QED
    BY <1>1, <1>3, <2>5 DEF VectorInv
<1> QED
  BY <1>2, <1>3

\* The first state of vectors: none has been constructed.
LEMMA VectorStarts ==
  ASSUME mem = [v \in {1, 2} |-> Null], heap = <<>>, ref = [v \in {1, 2} |-> <<>>], stale = FALSE, ub = FALSE
  PROVE  VectorInv
<1>1. DOMAIN heap = {}
  <2>1. <<>> \in Seq({}) /\ Len(<<>>) = 0
    OBVIOUS
  <2> QED
    BY <2>1
<1>2. mem \in [{1, 2} -> Objects \cup {Null}] /\ ref \in [{1, 2} -> Seq({0, 1})] /\ \A v \in {1, 2} : mem[v] = Null
  OBVIOUS
<1>3. \A v \in {1, 2} : Fits(mem[v], heap, ref[v])
  BY <1>2 DEF Fits
<1>4. ElementOf(mem[1]) = Null /\ ElementOf(mem[2]) = Null
  BY <1>2 DEF ElementOf
<1>5. Sound(mem, heap, ref)
  BY <1>1, <1>2, <1>3, <1>4 DEF Sound
<1> QED
  BY <1>5 DEF VectorInv

\* The first state of stacks.
LEMMA StackStarts ==
  ASSUME S!StackInit
  PROVE  StackInv
<1>1. /\ mem = [v \in {1, 2} |-> Null] /\ heap = <<>> /\ ref = [v \in {1, 2} |-> <<>>] /\ stale = FALSE /\ ub = FALSE
      /\ m_tail = [v \in {1, 2} |-> -1]
  BY DEF S!StackInit, S!VectorInit, S!m_npos
<1>2. VectorInv
  BY <1>1, VectorStarts
<1>3. m_tail \in [{1, 2} -> Int] /\ \A v \in {1, 2} : mem[v] = Null
  BY <1>1
<1> QED
  BY <1>2, <1>3 DEF StackInv

\* Every call of the stacks.
LEMMA StackGoesOn ==
  ASSUME StackInv, S!StackNext
  PROVE  StackInv'
<1>1. S!Positions \subseteq Nat
  BY DEF S!Positions
<1> QED
  BY <1>1, StackConstructs, StackCopies, StackFrees, StackPushes, StackPops DEF S!StackNext

\* The steps that leave the stacks alone.
LEMMA StackStutters ==
  ASSUME StackInv, UNCHANGED <<mem, heap, ref, stale, ub, m_tail>>
  PROVE  StackInv'
BY DEF StackInv, VectorInv

---------------------------------------------------------------------------
(* Loops, and what they leave of a sequence.                                   *)

\* A loop from b on that does g[j] as its step j has a value after each step.
LoopOf(f, b, g, n) == f[0] = b /\ \A j \in 1..n : f[j] = g[j][f[j - 1]]

\* A loop of n turns over values of W has a value after each turn.
LEMMA Loops ==
  ASSUME NEW n \in Nat, NEW W, NEW b \in W, NEW g \in [1..n -> [W -> W]]
  PROVE  \E f : f \in [0..n -> W] /\ LoopOf(f, b, g, n)
<1> DEFINE Runs(m, f) == f \in [0..m -> W] /\ f[0] = b /\ \A j \in 1..m : f[j] = g[j][f[j - 1]]
           C == {m \in 0..n : \E f : Runs(m, f)}
<1>1. 0 \in C
  <2>1. [j \in 0..0 |-> b] \in [0..0 -> W] /\ [j \in 0..0 |-> b][0] = b /\ 1..0 = {} /\ 0 \in 0..n
    OBVIOUS
  <2>2. Runs(0, [j \in 0..0 |-> b])
    BY <2>1
  <2> QED
    BY <2>1, <2>2
<1>2. ASSUME NEW m \in 1..n, m - 1 \in C PROVE m \in C
  <2>1. PICK a \in 0..n : a = m - 1
    BY <1>2
  <2>2. PICK f : Runs(a, f)
    BY <1>2, <2>1
  <2>3. a \in Nat /\ m \in 0..m /\ a \in 0..a /\ m = a + 1 /\ m \in 1..n /\ a \in 0..m
    BY <2>1
  <2>4. f \in [0..a -> W] /\ f[a] \in W /\ g[m] \in [W -> W]
    BY <2>2, <2>3
  <2>5. PICK x \in W : x = g[m][f[a]]
    BY <2>4
  <2>6. PICK h : h = [j \in 0..m |-> IF j <= a THEN f[j] ELSE x]
    OBVIOUS
  <2>7. \A j \in 0..m : (j <= a => j \in 0..a) /\ (~ (j <= a) => j = m)
    BY <2>3
  <2>8. /\ h \in [0..m -> W] /\ h[m] = x /\ \A j \in 0..a : h[j] = f[j]
    BY <2>3, <2>4, <2>6, <2>7
  <2>9. ASSUME NEW j \in 1..m PROVE h[j] = g[j][h[j - 1]]
    <3>1. CASE j = m
      <4>1. h[j - 1] = f[a]
        BY <2>3, <2>8, <3>1
      <4> QED
        BY <2>5, <2>8, <3>1, <4>1
    <3>2. CASE j # m
      <4>1. j \in 1..a /\ j \in 0..a /\ j - 1 \in 0..a
        BY <2>3, <3>2
      <4>2. h[j] = f[j] /\ h[j - 1] = f[j - 1] /\ f[j] = g[j][f[j - 1]]
        BY <2>2, <2>8, <4>1
      <4> QED
        BY <4>2
    <3> QED
      BY <3>1, <3>2
  <2>10. h[0] = b
    BY <2>2, <2>3, <2>8
  <2>11. Runs(m, h)
    BY <2>8, <2>9, <2>10
  <2> QED
    BY <2>11
<1>3. n \in C
  <2> HIDE DEF C
  <2>1. \A j \in (0 + 1)..n : j - 1 \in C => j \in C
    BY <1>2
  <2>2. \A j \in 0..n : j \in C
    BY <1>1, <2>1, GoesOn
  <2> QED
    BY <2>2
<1> QED
  BY <1>3 DEF LoopOf

\* Without on the first j elements of s is f[j].
Rests(f, W, s, gone) ==
  /\ f \in [0..Len(s) -> Seq(W)] /\ f[0] = <<>>
  /\ \A j \in 1..Len(s) : f[j] = IF j \in gone THEN f[j - 1] ELSE Append(f[j - 1], s[j])

\* Without is what is left after the last turn of its loop.
LEMMA WithoutRests ==
  ASSUME NEW W, NEW s \in Seq(W), NEW gone
  PROVE  \E f : Rests(f, W, s, gone) /\ V!Without(s, gone) = f[Len(s)]
<1> DEFINE Step(w, j) == IF j \in gone THEN w ELSE Append(w, s[j])
           Fun(w) == w = [j \in 0..Len(s) |-> IF j = 0 THEN <<>> ELSE Step(w[j - 1], j)]
<1>1. V!Without(s, gone) = (CHOOSE w : Fun(w))[Len(s)]
  BY DEF V!Without
<1>2. PICK n \in Nat : n = Len(s)
  OBVIOUS
<1>3. PICK g : g = [j \in 1..n |-> [w \in Seq(W) |-> Step(w, j)]]
  OBVIOUS
<1>4. g \in [1..n -> [Seq(W) -> Seq(W)]] /\ <<>> \in Seq(W)
  <2>1. ASSUME NEW j \in 1..n PROVE [w \in Seq(W) |-> Step(w, j)] \in [Seq(W) -> Seq(W)]
    <3>1. s[j] \in W
      BY <1>2
    <3> QED
      BY <3>1
  <2> HIDE DEF Step
  <2> QED
    BY <1>3, <2>1
<1>5. PICK f : f \in [0..n -> Seq(W)] /\ f[0] = <<>> /\ \A j \in 1..n : f[j] = g[j][f[j - 1]]
  <2>1. PICK z, b : z = Seq(W) /\ b = <<>>
    OBVIOUS
  <2>2. b \in z /\ g \in [1..n -> [z -> z]]
    BY <1>4, <2>1
  <2>3. \E f : f \in [0..n -> z] /\ LoopOf(f, b, g, n)
    BY <2>2, Loops
  <2> QED
    BY <2>1, <2>3 DEF LoopOf
<1>6. \A j \in 1..n : f[j] = Step(f[j - 1], j)
  <2>1. \A j \in 1..n : j - 1 \in 0..n
    OBVIOUS
  <2> HIDE DEF Step
  <2> QED
    BY <1>3, <1>5, <2>1
<1>7. Fun(f)
  <2>1. \A j \in 0..n : j # 0 => j \in 1..n
    OBVIOUS
  <2>2. f = [j \in 0..n |-> IF j = 0 THEN <<>> ELSE f[j]]
    BY <1>5
  <2> HIDE DEF Step
  <2> QED
    BY <1>2, <1>6, <2>1, <2>2
<1>8. PICK w : w = CHOOSE z : Fun(z)
  OBVIOUS
<1>9. Fun(w)
  BY <1>7, <1>8
<1>10. DOMAIN w = 0..n /\ w[0] = <<>> /\ \A j \in 1..n : w[j] = Step(w[j - 1], j)
  <2>1. \A j \in 1..n : j \in 0..n /\ j # 0
    OBVIOUS
  <2> HIDE DEF Step
  <2> QED
    BY <1>2, <1>9, <2>1
<1>11. \A j \in 0..n : w[j] \in Seq(W)
  <2> DEFINE C == {j \in 0..n : w[j] \in Seq(W)}
  <2> HIDE DEF Step
  <2>1. 0 \in C
    <3>1. w[0] \in Seq(W)
      BY <1>4, <1>10, Zenon
    <3> QED
      BY <3>1
  <2>2. ASSUME NEW j \in (0 + 1)..n, j - 1 \in C PROVE j \in C
    <3>1. j \in 1..n /\ j \in 0..n /\ w[j - 1] \in Seq(W) /\ s[j] \in W
      BY <1>2, <2>2
    <3>2. Step(w[j - 1], j) \in Seq(W)
      BY <3>1 DEF Step
    <3>3. w[j] \in Seq(W)
      BY <1>10, <3>1, <3>2
    <3> QED
      BY <3>1, <3>3
  <2> HIDE DEF C
  <2>3. \A j \in 0..n : j \in C
    BY <2>1, <2>2, GoesOn
  <2> QED
    BY <2>3 DEF C
<1>12. Rests(w, W, s, gone)
  <2>1. w \in [0..n -> Seq(W)]
    <3>1. w = [j \in 0..n |-> w[j]]
      BY <1>2, <1>9, <1>10
    <3> QED
      BY <1>11, <3>1
  <2> QED
    BY <1>2, <1>10, <2>1 DEF Rests
<1> QED
  BY <1>1, <1>8, <1>12

\* No element gone: what is left of the first j is the first j.
LEMMA WithoutNone ==
  ASSUME NEW W, NEW s \in Seq(W), NEW gone, gone \cap 1..Len(s) = {}
  PROVE  V!Without(s, gone) = s
<1>1. PICK f : Rests(f, W, s, gone) /\ V!Without(s, gone) = f[Len(s)]
  BY WithoutRests
<1>2. PICK n \in Nat : n = Len(s)
  OBVIOUS
<1> DEFINE C == {m \in 0..n : Len(f[m]) = m /\ \A a \in 1..m : f[m][a] = s[a]}
<1>3. f \in [0..n -> Seq(W)] /\ f[0] = <<>> /\ \A j \in 1..n : f[j] = Append(f[j - 1], s[j])
  BY <1>1, <1>2 DEF Rests
<1>4. 0 \in C
  <2>1. Len(f[0]) = 0 /\ 1..0 = {} /\ 0 \in 0..n
    BY <1>3
  <2> QED
    BY <2>1
<1>5. ASSUME NEW j \in (0 + 1)..n, j - 1 \in C PROVE j \in C
  <2>1. PICK m \in 0..n : m = j - 1 /\ m + 1 = j
    BY <1>5
  <2>0. j \in 1..n /\ s[j] \in W
    BY <1>2, <2>1
  <2>2. f[m] \in Seq(W) /\ Len(f[m]) = m /\ s[j] \in W /\ f[j] = Append(f[m], s[j]) /\ \A a \in 1..m : f[m][a] = s[a]
    BY <1>3, <1>5, <2>0, <2>1
  <2>3. Len(f[j]) = j /\ f[j][j] = s[j] /\ \A a \in 1..m : f[j][a] = f[m][a]
    BY <2>1, <2>2
  <2>4. \A a \in 1..j : a = j \/ a \in 1..m
    BY <2>1
  <2>5. \A a \in 1..j : f[j][a] = s[a]
    BY <2>2, <2>3, <2>4
  <2> QED
    BY <2>3, <2>5
<1>6. n \in C
  <2> HIDE DEF C
  <2>1. \A j \in 0..n : j \in C
    BY <1>4, <1>5, GoesOn
  <2> QED
    BY <2>1
<1>7. PICK x \in Seq(W) : x = f[n]
  BY <1>3
<1>8. Len(x) = Len(s) /\ \A j \in 1..Len(x) : x[j] = s[j]
  BY <1>2, <1>6, <1>7
<1> QED
  BY <1>1, <1>2, <1>7, <1>8, SeqEqual

\* Never more than there was is left.
LEMMA WithoutFits ==
  ASSUME NEW W, NEW s \in Seq(W), NEW gone
  PROVE  V!Without(s, gone) \in Seq(W) /\ Len(V!Without(s, gone)) <= Len(s)
<1>1. PICK f : Rests(f, W, s, gone) /\ V!Without(s, gone) = f[Len(s)]
  BY WithoutRests
<1>2. PICK n \in Nat : n = Len(s)
  OBVIOUS
<1> DEFINE C == {m \in 0..n : Len(f[m]) <= m}
<1>3. f \in [0..n -> Seq(W)] /\ f[0] = <<>>
      /\ \A j \in 1..n : f[j] = IF j \in gone THEN f[j - 1] ELSE Append(f[j - 1], s[j])
  BY <1>1, <1>2 DEF Rests
<1>4. 0 \in C
  BY <1>3
<1>5. ASSUME NEW j \in (0 + 1)..n, j - 1 \in C PROVE j \in C
  <2>1. PICK m \in 0..n : m = j - 1 /\ m + 1 = j
    BY <1>5
  <2>0. j \in 1..n /\ s[j] \in W
    BY <1>2, <2>1
  <2>2. f[m] \in Seq(W) /\ Len(f[m]) <= m /\ s[j] \in W /\ (f[j] = f[m] \/ f[j] = Append(f[m], s[j]))
    BY <1>3, <1>5, <2>0, <2>1
  <2>3. Len(f[j]) = Len(f[m]) \/ Len(f[j]) = Len(f[m]) + 1
    BY <2>2
  <2>4. Len(f[j]) <= j
    BY <2>1, <2>2, <2>3
  <2> QED
    BY <2>4
<1>6. n \in C
  <2> HIDE DEF C
  <2>1. \A j \in 0..n : j \in C
    BY <1>4, <1>5, GoesOn
  <2> QED
    BY <2>1
<1> QED
  BY <1>1, <1>2, <1>3, <1>6

\* One element gone.
LEMMA WithoutOne ==
  ASSUME NEW W, NEW s \in Seq(W), NEW q \in 1..Len(s)
  PROVE  V!Without(s, {q}) = SubSeq(s, 1, q - 1) \o SubSeq(s, q + 1, Len(s))
<1>1. PICK f : Rests(f, W, s, {q}) /\ V!Without(s, {q}) = f[Len(s)]
  BY WithoutRests
<1>2. PICK n \in Nat : n = Len(s)
  OBVIOUS
<1> DEFINE size(m) == IF m < q THEN m ELSE m - 1
           Has(x, m) == Len(x) = size(m) /\ \A a \in 1..size(m) : x[a] = IF a < q THEN s[a] ELSE s[a + 1]
           C == {m \in 0..n : Has(f[m], m)}
<1>3. f \in [0..n -> Seq(W)] /\ f[0] = <<>>
      /\ \A j \in 1..n : f[j] = IF j = q THEN f[j - 1] ELSE Append(f[j - 1], s[j])
  BY <1>1, <1>2 DEF Rests
<1>4. 0 \in C
  <2>1. Len(f[0]) = 0 /\ 1..0 = {} /\ 0 \in 0..n /\ size(0) = 0
    BY <1>2, <1>3
  <2> QED
    BY <2>1
<1>5. ASSUME NEW j \in (0 + 1)..n, j - 1 \in C PROVE j \in C
  <2>1. PICK m \in 0..n : m = j - 1 /\ m + 1 = j
    BY <1>5
  <2>2. f[m] \in Seq(W) /\ Has(f[m], m) /\ s[j] \in W /\ f[j] = IF j = q THEN f[m] ELSE Append(f[m], s[j])
    BY <1>2, <1>3, <1>5, <2>1, SMTT(30)
  <2>3. PICK x \in Seq(W) : x = f[m]
    BY <2>2
  <2>4. PICK k2 \in Nat : k2 = size(m)
    BY <1>2
  <2>5. Len(x) = k2 /\ \A a \in 1..k2 : x[a] = IF a < q THEN s[a] ELSE s[a + 1]
    BY <2>2, <2>3, <2>4
  <2>6. CASE j = q
    <3>1. size(j) = k2 /\ f[j] = x
      BY <2>1, <2>2, <2>3, <2>4, <2>6
    <3> QED
      BY <2>5, <3>1
  <2>7. CASE j # q
    <3>1. /\ size(j) = k2 + 1 /\ f[j] = Append(x, s[j])
          /\ j = IF k2 + 1 < q THEN k2 + 1 ELSE k2 + 2
      BY <1>2, <2>1, <2>2, <2>3, <2>4, <2>7
    <3>2. PICK y \in Seq(W) : y = Append(x, s[j])
      <4>1. Append(x, s[j]) \in Seq(W)
        BY <2>2, <2>3
      <4> QED
        BY <4>1
    <3>3. Len(y) = k2 + 1 /\ y[k2 + 1] = s[j] /\ \A a \in 1..k2 : y[a] = x[a]
      BY <2>2, <2>5, <3>2
    <3>4. \A a \in 1..(k2 + 1) : y[a] = IF a < q THEN s[a] ELSE s[a + 1]
      <4>1. \A a \in 1..(k2 + 1) : a = k2 + 1 \/ a \in 1..k2
        OBVIOUS
      <4>2. y[k2 + 1] = IF k2 + 1 < q THEN s[k2 + 1] ELSE s[(k2 + 1) + 1]
        BY <3>1, <3>3
      <4> QED
        BY <2>5, <3>3, <4>1, <4>2
    <3>5. Has(f[j], j)
      BY <3>1, <3>2, <3>3, <3>4
    <3> QED
      BY <3>5
  <2> QED
    BY <2>6, <2>7
<1>6. n \in C
  <2> HIDE DEF C
  <2>1. \A j \in 0..n : j \in C
    BY <1>4, <1>5, GoesOn
  <2> QED
    BY <2>1
<1>7. PICK x \in Seq(W) : x = f[n]
  BY <1>3
<1>8. PICK y \in Seq(W) : y = SubSeq(s, 1, q - 1) \o SubSeq(s, q + 1, Len(s)) /\ IsRemoved(y, s, q)
  BY SeqRemoved
<1>9. Len(x) = n - 1 /\ \A j \in 1..(n - 1) : x[j] = IF j < q THEN s[j] ELSE s[j + 1]
  <2>1. size(n) = n - 1
    BY <1>2
  <2> QED
    BY <1>6, <1>7, <2>1
<1>10. Len(x) = Len(y) /\ \A j \in 1..Len(x) : x[j] = y[j]
  BY <1>2, <1>8, <1>9 DEF IsRemoved
<1> QED
  BY <1>1, <1>2, <1>7, <1>8, <1>10, SeqEqual

\* The least of some positions.
LEMMA LeastOf ==
  ASSUME NEW I, I \subseteq Nat, I # {}
  PROVE  V!Min(I) \in I /\ \A j \in I : V!Min(I) <= j
<1>1. \E q \in I : \A j \in I : q <= j
  BY LeastNumber
<1> QED
  BY <1>1 DEF V!Min

\* The loop of removeOne: it takes out element j of what is left, if that is t.
CutAt(s, j, t) == IF j <= Len(s) /\ s[j] = t THEN V!RemoveAt(s, j) ELSE s

Looped(e, t) ==
  LET loop[j \in 0..Len(e)] ==
        IF j = 0 THEN e
        ELSE IF j <= Len(loop[j - 1]) /\ loop[j - 1][j] = t THEN V!RemoveAt(loop[j - 1], j) ELSE loop[j - 1]
  IN  loop[Len(e)]

\* One turn of removeOne's loop gives a sequence, and no longer one.
LEMMA CutFits ==
  ASSUME NEW W, NEW s \in Seq(W), NEW j \in Nat, j # 0, NEW t
  PROVE  CutAt(s, j, t) \in Seq(W) /\ Len(CutAt(s, j, t)) <= Len(s)
<1>1. CASE j <= Len(s) /\ s[j] = t
  <2>1. j \in 1..Len(s)
    BY <1>1
  <2>2. PICK x \in Seq(W) : x = SubSeq(s, 1, j - 1) \o SubSeq(s, j + 1, Len(s)) /\ IsRemoved(x, s, j)
    BY <2>1, SeqRemoved
  <2>3. CutAt(s, j, t) = x
    BY <1>1, <2>2 DEF CutAt, V!RemoveAt
  <2>4. Len(x) = Len(s) - 1
    BY <2>2, Zenon DEF IsRemoved
  <2>5. Len(x) <= Len(s)
    BY <2>4
  <2> QED
    BY <2>2, <2>3, <2>5
<1>2. CASE ~ (j <= Len(s) /\ s[j] = t)
  BY <1>2 DEF CutAt
<1> QED
  BY <1>1, <1>2

Cuts(f, W, s, t) ==
  /\ f \in [0..Len(s) -> Seq(W)] /\ f[0] = s
  /\ \A j \in 1..Len(s) : f[j] = CutAt(f[j - 1], j, t)

\* removeOne's loop and what it leaves after each turn.
LEMMA LoopedCuts ==
  ASSUME NEW W, NEW s \in Seq(W), NEW t
  PROVE  \E f : Cuts(f, W, s, t) /\ Looped(s, t) = f[Len(s)]
<1> DEFINE Fun(w) == w = [j \in 0..Len(s) |-> IF j = 0 THEN s ELSE CutAt(w[j - 1], j, t)]
<1>1. Looped(s, t) = (CHOOSE w : Fun(w))[Len(s)]
  BY DEF Looped, CutAt
<1>2. PICK n \in Nat : n = Len(s)
  OBVIOUS
<1>3. PICK g : g = [j \in 1..n |-> [w \in Seq(W) |-> CutAt(w, j, t)]]
  OBVIOUS
<1>4. g \in [1..n -> [Seq(W) -> Seq(W)]]
  <2>1. ASSUME NEW j \in 1..n PROVE [w \in Seq(W) |-> CutAt(w, j, t)] \in [Seq(W) -> Seq(W)]
    <3>1. j \in Nat /\ j # 0
      OBVIOUS
    <3>2. \A w \in Seq(W) : CutAt(w, j, t) \in Seq(W)
      BY <3>1, CutFits
    <3> QED
      BY <3>2
  <2> QED
    BY <1>3, <2>1
<1>5. PICK f : f \in [0..n -> Seq(W)] /\ f[0] = s /\ \A j \in 1..n : f[j] = g[j][f[j - 1]]
  <2>1. PICK z : z = Seq(W)
    OBVIOUS
  <2>2. s \in z /\ g \in [1..n -> [z -> z]]
    BY <1>4, <2>1
  <2>3. \E f : f \in [0..n -> z] /\ LoopOf(f, s, g, n)
    BY <2>2, Loops
  <2> QED
    BY <2>1, <2>3 DEF LoopOf
<1>6. \A j \in 1..n : f[j] = CutAt(f[j - 1], j, t)
  <2>1. \A j \in 1..n : j - 1 \in 0..n
    OBVIOUS
  <2> QED
    BY <1>3, <1>5, <2>1
<1>7. Fun(f)
  <2>1. \A j \in 0..n : j # 0 => j \in 1..n
    OBVIOUS
  <2>2. f = [j \in 0..n |-> IF j = 0 THEN s ELSE f[j]]
    BY <1>5
  <2> QED
    BY <1>2, <1>6, <2>1, <2>2
<1>8. PICK w : w = CHOOSE z : Fun(z)
  OBVIOUS
<1>9. Fun(w)
  BY <1>7, <1>8
<1>10. DOMAIN w = 0..n /\ w[0] = s /\ \A j \in 1..n : w[j] = CutAt(w[j - 1], j, t)
  <2>1. \A j \in 1..n : j \in 0..n /\ j # 0
    OBVIOUS
  <2> QED
    BY <1>2, <1>9, <2>1
<1>11. \A j \in 0..n : w[j] \in Seq(W)
  <2> DEFINE C == {j \in 0..n : w[j] \in Seq(W)}
  <2>1. 0 \in C
    BY <1>10
  <2>2. ASSUME NEW j \in (0 + 1)..n, j - 1 \in C PROVE j \in C
    <3>1. j \in 1..n /\ j \in 0..n /\ w[j - 1] \in Seq(W) /\ j \in Nat /\ j # 0
      BY <2>2
    <3>2. PICK x \in Seq(W) : x = w[j - 1]
      BY <3>1
    <3>3. CutAt(x, j, t) \in Seq(W)
      BY <3>1, CutFits
    <3> QED
      BY <1>10, <3>1, <3>2, <3>3
  <2> HIDE DEF C
  <2>3. \A j \in 0..n : j \in C
    BY <2>1, <2>2, GoesOn
  <2> QED
    BY <2>3 DEF C
<1>12. Cuts(w, W, s, t)
  <2>1. w \in [0..n -> Seq(W)]
    <3>1. w = [j \in 0..n |-> w[j]]
      BY <1>2, <1>9, <1>10
    <3> QED
      BY <1>11, <3>1
  <2> QED
    BY <1>2, <1>10, <2>1 DEF Cuts
<1> QED
  BY <1>1, <1>8, <1>12

\* z is x, of length c, and then what s has behind its first p elements.
Joined(z, x, s, p, c) ==
  /\ Len(x) = c /\ Len(z) = c + Len(s) - p
  /\ \A a \in 1..c : z[a] = x[a]
  /\ \A a \in 1..(Len(s) - p) : z[a + c] = s[a + p]

\* A turn that keeps its element.
LEMMA JoinedGrows ==
  ASSUME NEW W, NEW s \in Seq(W), NEW x \in Seq(W), NEW z \in Seq(W), NEW c \in Nat, NEW p \in Nat,
         p < Len(s), Joined(z, x, s, p, c)
  PROVE  Joined(z, Append(x, s[p + 1]), s, p + 1, c + 1)
<1>1. PICK n \in Nat : n = Len(s)
  OBVIOUS
<1>2. /\ Len(x) = c /\ Len(z) = c + n - p /\ p + 1 \in 1..n
      /\ \A a \in 1..c : z[a] = x[a]
      /\ \A a \in 1..(n - p) : z[a + c] = s[a + p]
  BY <1>1 DEF Joined
<1>3. PICK e \in W : e = s[p + 1]
  BY <1>1, <1>2
<1>4. PICK y \in Seq(W) : y = Append(x, e)
  <2>1. Append(x, e) \in Seq(W)
    OBVIOUS
  <2> QED
    BY <2>1
<1>5. Len(y) = c + 1 /\ y[c + 1] = e /\ \A a \in 1..c : y[a] = x[a]
  BY <1>2, <1>4
<1>6. z[c + 1] = e
  <2>1. 1 \in 1..(n - p) /\ 1 + c = c + 1 /\ 1 + p = p + 1
    BY <1>1
  <2> QED
    BY <1>2, <1>3, <2>1
<1>7. \A a \in 1..(c + 1) : z[a] = y[a]
  <2>1. \A a \in 1..(c + 1) : a = c + 1 \/ a \in 1..c
    OBVIOUS
  <2> QED
    BY <1>2, <1>5, <1>6, <2>1
<1>8. ASSUME NEW a \in 1..(n - (p + 1)) PROVE z[a + (c + 1)] = s[a + (p + 1)]
  <2>1. a + 1 \in 1..(n - p) /\ (a + 1) + c = a + (c + 1) /\ (a + 1) + p = a + (p + 1)
    BY <1>1
  <2> QED
    BY <1>2, <2>1
<1>9. Len(z) = (c + 1) + n - (p + 1)
  BY <1>2
<1> QED
  BY <1>1, <1>3, <1>4, <1>5, <1>7, <1>8, <1>9 DEF Joined

\* The first element behind x is taken out.
LEMMA JoinedShrinks ==
  ASSUME NEW W, NEW s \in Seq(W), NEW x \in Seq(W), NEW z \in Seq(W), NEW c \in Nat, NEW p \in Nat,
         p < Len(s), Joined(z, x, s, p, c), z[c + 1] = s[p + 1]
  PROVE  CutAt(z, c + 1, s[p + 1]) \in Seq(W) /\ Joined(CutAt(z, c + 1, s[p + 1]), x, s, p + 1, c)
<1>1. PICK n \in Nat : n = Len(s)
  OBVIOUS
<1>2. /\ Len(x) = c /\ Len(z) = c + n - p /\ p < n
      /\ \A a \in 1..c : z[a] = x[a]
      /\ \A a \in 1..(n - p) : z[a + c] = s[a + p]
  BY <1>1 DEF Joined
<1>3. c + 1 \in 1..Len(z)
  BY <1>1, <1>2
<1>4. PICK q \in 1..Len(z) : q = c + 1
  BY <1>3
<1>5. PICK y \in Seq(W) : y = SubSeq(z, 1, q - 1) \o SubSeq(z, q + 1, Len(z)) /\ IsRemoved(y, z, q)
  BY SeqRemoved
<1>6. CutAt(z, c + 1, s[p + 1]) = y
  <2>1. z[q] = s[p + 1] /\ q <= Len(z)
    BY <1>4
  <2>2. CutAt(z, q, s[p + 1]) = y
    BY <1>5, <2>1 DEF CutAt, V!RemoveAt
  <2> QED
    BY <1>4, <2>2
<1>7. Len(y) = c + n - (p + 1) /\ \A a \in 1..(c + n - (p + 1)) : y[a] = IF a < c + 1 THEN z[a] ELSE z[a + 1]
  <2>1. Len(z) - 1 = c + n - (p + 1)
    BY <1>1, <1>2
  <2> QED
    BY <1>4, <1>5, <2>1 DEF IsRemoved
<1>8. \A a \in 1..c : y[a] = x[a]
  <2>1. \A a \in 1..c : a \in 1..(c + n - (p + 1)) /\ a < c + 1
    BY <1>1, <1>2
  <2> QED
    BY <1>2, <1>7, <2>1
<1>9. ASSUME NEW a \in 1..(n - (p + 1)) PROVE y[a + c] = s[a + (p + 1)]
  <2>1. /\ a + c \in 1..(c + n - (p + 1)) /\ ~ (a + c < c + 1) /\ a + 1 \in 1..(n - p)
        /\ (a + c) + 1 = (a + 1) + c /\ a + (p + 1) = (a + 1) + p
    BY <1>1, <1>2
  <2> QED
    BY <1>2, <1>7, <2>1
<1> QED
  BY <1>1, <1>2, <1>6, <1>7, <1>8, <1>9 DEF Joined

\* The loop takes out all elements t when no two of them are neighbours.
LEMMA LoopedWithout ==
  ASSUME NEW W, NEW s \in Seq(W), NEW t,
         \A j \in 1..Len(s) : s[j] = t /\ j < Len(s) => s[j + 1] # t
  PROVE  Looped(s, t) = V!Without(s, {j \in 1..Len(s) : s[j] = t})
<1>1. PICK n \in Nat : n = Len(s)
  OBVIOUS
<1>2. PICK gone : gone = {j \in 1..n : s[j] = t}
  OBVIOUS
<1>3. PICK h : Rests(h, W, s, gone) /\ V!Without(s, gone) = h[n]
  BY <1>1, WithoutRests
<1>4. PICK f : Cuts(f, W, s, t) /\ Looped(s, t) = f[n]
  BY <1>1, LoopedCuts
<1>5. /\ h \in [0..n -> Seq(W)] /\ h[0] = <<>>
      /\ \A j \in 1..n : h[j] = IF j \in gone THEN h[j - 1] ELSE Append(h[j - 1], s[j])
  BY <1>1, <1>3 DEF Rests
<1>6. f \in [0..n -> Seq(W)] /\ f[0] = s /\ \A j \in 1..n : f[j] = CutAt(f[j - 1], j, t)
  BY <1>1, <1>4 DEF Cuts
<1> DEFINE At(j, p, c) == Joined(f[j], h[p], s, p, c) /\ c <= p /\ (c = j \/ (p = n /\ c <= j))
           C == {j \in 0..n : \E p \in 0..n, c \in Nat : At(j, p, c)}
<1>7. 0 \in C
  <2>1. Joined(f[0], h[0], s, 0, 0)
    <3>1. Len(h[0]) = 0 /\ 1..0 = {} /\ Len(f[0]) = 0 + Len(s) - 0 /\ \A a \in 1..(Len(s) - 0) : f[0][a + 0] = s[a + 0]
      BY <1>1, <1>5, <1>6
    <3> QED
      BY <3>1 DEF Joined
  <2>2. At(0, 0, 0) /\ 0 \in 0..n /\ 0 \in Nat
    BY <2>1
  <2> HIDE DEF At
  <2> QED
    BY <2>2
<1>8. ASSUME NEW j \in (0 + 1)..n, j - 1 \in C PROVE j \in C
  <2>1. PICK m \in 0..n : m = j - 1 /\ m + 1 = j
    BY <1>8
  <2>2. PICK p \in 0..n, c \in Nat : At(m, p, c)
    BY <1>8, <2>1
  <2>3. PICK x \in Seq(W), z \in Seq(W) : x = h[p] /\ z = f[m]
    BY <1>5, <1>6
  <2>4. Joined(z, x, s, p, c) /\ c <= p /\ (c = m \/ (p = n /\ c <= m)) /\ f[j] = CutAt(z, j, t)
    <3>1. j \in 1..n
      OBVIOUS
    <3> QED
      BY <1>6, <2>1, <2>2, <2>3, <3>1
  <2>5. SUFFICES \E p2 \in 0..n, c2 \in Nat : At(j, p2, c2)
    OBVIOUS
  <2>6. CASE p = n /\ c <= m
    <3>1. Len(z) = c
      BY <1>1, <2>4, <2>6 DEF Joined
    <3>2. f[j] = z
      BY <2>1, <2>4, <2>6, <3>1 DEF CutAt
    <3>3. At(j, p, c)
      BY <2>1, <2>3, <2>4, <2>6, <3>2
    <3> QED
      BY <3>3
  <2>7. CASE c = m /\ p < n
    <3>1. z[c + 1] = s[p + 1] /\ c + 1 <= Len(z) /\ p + 1 \in 1..n /\ j = c + 1 /\ p + 1 \in 0..n
      <4>1. /\ Len(z) = c + n - p /\ 1 \in 1..(n - p) /\ 1 + c = c + 1 /\ 1 + p = p + 1
            /\ \A a \in 1..(n - p) : z[a + c] = s[a + p]
        BY <1>1, <2>4, <2>7 DEF Joined
      <4> QED
        BY <2>1, <2>7, <4>1
    <3>2. CASE s[p + 1] # t
      <4>1. f[j] = z
        BY <2>4, <3>1, <3>2 DEF CutAt
      <4>2. h[p + 1] = Append(x, s[p + 1])
        <5>1. p + 1 \notin gone /\ (p + 1) - 1 = p
          BY <1>2, <3>2
        <5> QED
          BY <1>5, <2>3, <3>1, <5>1
      <4>3. Joined(z, Append(x, s[p + 1]), s, p + 1, c + 1)
        BY <1>1, <2>4, <2>7, JoinedGrows
      <4>4. At(j, p + 1, c + 1)
        BY <2>4, <3>1, <4>1, <4>2, <4>3
      <4> HIDE DEF At
      <4> QED
        BY <3>1, <4>4
    <3>3. CASE s[p + 1] = t
      <4>1. PICK y \in Seq(W) : y = f[j]
        BY <1>6
      <4>2. Joined(y, x, s, p + 1, c)
        <5>0. p \in Nat /\ p < Len(s) /\ Joined(z, x, s, p, c) /\ z[c + 1] = s[p + 1]
          BY <1>1, <2>4, <2>7, <3>1
        <5>1. Joined(CutAt(z, c + 1, s[p + 1]), x, s, p + 1, c)
          BY <5>0, JoinedShrinks
        <5> QED
          BY <2>4, <3>1, <3>3, <4>1, <5>1
      <4>3. h[p + 1] = x
        <5>1. p + 1 \in gone /\ (p + 1) - 1 = p
          BY <1>2, <3>1, <3>3
        <5> QED
          BY <1>5, <2>3, <3>1, <5>1
      <4>4. CASE p + 1 = n
        <5>1. At(j, p + 1, c)
          BY <2>4, <3>1, <4>1, <4>2, <4>3, <4>4
        <5> HIDE DEF At
        <5> QED
          BY <3>1, <5>1
      <4>5. CASE p + 1 < n
        <5>1. PICK q \in 1..n : q = p + 1
          BY <3>1
        <5>2. q + 1 \in 1..n /\ s[q + 1] # t /\ (q + 1) - 1 = q /\ q \in Nat /\ q < Len(s) /\ q + 1 \in 0..n
          BY <1>1, <3>3, <4>5, <5>1
        <5>3. h[q + 1] = Append(x, s[q + 1])
          <6>1. q + 1 \notin gone
            BY <1>2, <5>2
          <6> QED
            BY <1>5, <4>3, <5>1, <5>2, <6>1
        <5>4. Joined(y, x, s, q, c)
          BY <4>2, <5>1
        <5>5. Joined(y, Append(x, s[q + 1]), s, q + 1, c + 1)
          BY <5>2, <5>4, JoinedGrows
        <5>6. At(j, q + 1, c + 1)
          BY <2>4, <3>1, <4>1, <5>1, <5>3, <5>5
        <5> HIDE DEF At
        <5> QED
          BY <5>2, <5>6
      <4> QED
        BY <3>1, <4>4, <4>5
    <3> QED
      BY <3>2, <3>3
  <2> QED
    BY <2>4, <2>6, <2>7
<1>9. n \in C
  <2> HIDE DEF C
  <2>1. \A j \in 0..n : j \in C
    BY <1>7, <1>8, GoesOn
  <2> QED
    BY <2>1
<1>10. PICK p \in 0..n, c \in Nat : At(n, p, c)
  BY <1>9
<1>11. p = n /\ Joined(f[n], h[n], s, n, c)
  BY <1>10
<1>12. PICK x \in Seq(W), z \in Seq(W) : x = h[n] /\ z = f[n]
  BY <1>5, <1>6
<1>13. Len(z) = Len(x) /\ \A a \in 1..Len(z) : z[a] = x[a]
  BY <1>1, <1>11, <1>12 DEF Joined
<1>14. z = x
  BY <1>12, <1>13, SeqEqual
<1> QED
  BY <1>1, <1>2, <1>3, <1>4, <1>12, <1>14

\* What removeOne leaves of the elements s.
Left(s, t, onlyOne) == IF onlyOne THEN V!RemoveFirst(s, t) ELSE Looped(s, t)

\* The positions it should take out.
Gone(s, t, pos, onlyOne) ==
  LET hits == {j \in DOMAIN s : s[j] = t /\ j > pos}
  IN  IF onlyOne /\ hits # {} THEN {V!Min(hits)} ELSE hits

\* What removeOne leaves is the reference without the elements it erases.
LEMMA LeftWithout ==
  ASSUME NEW W, NEW s \in Seq(W), NEW t, NEW pos \in Nat, NEW onlyOne \in BOOLEAN,
         ~ \E j \in DOMAIN s : s[j] = t /\ (j <= pos \/ (~onlyOne /\ j < Len(s) /\ s[j + 1] = t))
  PROVE  Left(s, t, onlyOne) = V!Without(s, Gone(s, t, pos, onlyOne))
<1>1. PICK n \in Nat : n = Len(s) /\ DOMAIN s = 1..n
  OBVIOUS
<1>2. PICK hits : hits = {j \in 1..n : s[j] = t}
  OBVIOUS
<1>3. {j \in DOMAIN s : s[j] = t /\ j > pos} = hits
  BY <1>1, <1>2
<1>4. Gone(s, t, pos, onlyOne) = IF onlyOne /\ hits # {} THEN {V!Min(hits)} ELSE hits
  BY <1>3 DEF Gone
<1>5. CASE onlyOne /\ hits # {}
  <2>1. PICK q \in 1..n : q = V!Min(hits)
    <3>1. hits \subseteq Nat /\ hits \subseteq 1..n
      BY <1>2
    <3>2. V!Min(hits) \in hits
      BY <1>5, <3>1, LeastOf
    <3> QED
      BY <3>1, <3>2
  <2>2. V!RemoveFirst(s, t) = V!RemoveAt(s, q)
    <3>1. V!SelectInSeq(s, LAMBDA v : v = t) = q
      BY <1>1, <1>2, <1>5, <2>1 DEF V!SelectInSeq
    <3>2. \E j \in 1..Len(s) : s[j] = t
      BY <1>1, <1>2, <1>5
    <3> QED
      BY <3>1, <3>2 DEF V!RemoveFirst
  <2>3. V!Without(s, {q}) = V!RemoveAt(s, q)
    BY <1>1, WithoutOne DEF V!RemoveAt
  <2> QED
    BY <1>4, <1>5, <2>1, <2>2, <2>3 DEF Left
<1>6. CASE onlyOne /\ hits = {}
  <2>1. V!RemoveFirst(s, t) = s
    BY <1>1, <1>2, <1>6 DEF V!RemoveFirst
  <2>2. V!Without(s, hits) = s
    BY <1>6, WithoutNone
  <2> QED
    BY <1>4, <1>6, <2>1, <2>2 DEF Left
<1>7. CASE ~onlyOne
  <2>1. \A j \in 1..Len(s) : s[j] = t /\ j < Len(s) => s[j + 1] # t
    BY <1>1, <1>7
  <2>2. Looped(s, t) = V!Without(s, {j \in 1..Len(s) : s[j] = t})
    BY <2>1, LoopedWithout
  <2> QED
    BY <1>1, <1>2, <1>4, <1>7, <2>2 DEF Left
<1> QED
  BY <1>5, <1>6, <1>7

\* removeOne.
LEMMA VectorRemovesOne ==
  ASSUME VectorInv, NEW v \in {1, 2}, NEW t \in {0, 1}, NEW pos \in Nat, NEW onlyOne \in BOOLEAN, NEW from,
         V!removeOne(v, t, pos, onlyOne, from)
  PROVE  VectorInv'
<1>1. mem[v] # Null /\ ~stale /\ ~ub /\ pos < V!Size(v) /\ ub' = ub
  BY DEF V!removeOne, V!Callable, V!Alive
<1>2. PICK s \in Seq({0, 1}) : s = ref[v] /\ V!Elements(v) = s /\ V!Size(v) = Len(s)
  BY <1>1, VectorElements
<1>3. PICK b, a : b = mem[v].m_element /\ a = heap[b]
  OBVIOUS
<1>6. stale' = \/ from \in 1..(Len(s) - 1) /\ ~onlyOne
               \/ \E j \in DOMAIN s : s[j] = t /\ (j <= pos \/ (~onlyOne /\ j < Len(s) /\ s[j + 1] = t))
  BY <1>2 DEF V!removeOne
<1>8. CASE stale'
  BY <1>1, <1>6, <1>8 DEF VectorInv
<1>9. CASE ~stale'
  <2>17. mem' = [mem EXCEPT ![v].m_size = Len(Left(s, t, onlyOne))]
    BY <1>2, <1>9 DEF V!removeOne, Left, Looped
  <2>18. heap' = [heap EXCEPT ![b] = V!Copied(Left(s, t, onlyOne), Len(@))]
    BY <1>2, <1>3, <1>9 DEF V!removeOne, Left, Looped
  <2>19. ref' = [ref EXCEPT ![v] = V!Without(@, Gone(s, t, pos, onlyOne))]
    BY <1>2, <1>9 DEF V!removeOne, Gone
  <2>1. PICK x : x = Left(s, t, onlyOne)
    OBVIOUS
  <2>2. x = V!Without(s, Gone(s, t, pos, onlyOne))
    <3>1. ~ \E j \in DOMAIN s : s[j] = t /\ (j <= pos \/ (~onlyOne /\ j < Len(s) /\ s[j + 1] = t))
      BY <1>6, <1>9
    <3> QED
      BY <2>1, <3>1, LeftWithout
  <2>3. x \in Seq({0, 1}) /\ Len(x) <= Len(s)
    BY <2>2, WithoutFits
  <2>4. PICK w \in {1, 2} : w # v
    BY Other
  <2>5. /\ mem[v] \in Objects /\ Fits(mem[v], heap, s) /\ mem \in [{1, 2} -> Objects \cup {Null}]
        /\ ref \in [{1, 2} -> Seq({0, 1})]
    BY <1>1, <1>2, <2>4, VectorParts DEF Sound
  <2>6. PICK n \in Nat, c \in Nat : n = mem[v].m_size /\ c = mem[v].m_capacity
    BY <2>5 DEF Objects
  <2>7. n = Len(s) /\ n <= c /\ (b = Null => c = 0) /\ (b # Null => Len(a) = c)
    BY <1>1, <1>3, <2>5, <2>6 DEF Fits
  <2>8. b # Null /\ Len(a) = c
    BY <1>1, <1>2, <2>7
  <2>9. PICK e \in Seq(Elems) : /\ e = V!Copied(x, c) /\ Len(e) = c
                                /\ \A j \in 1..c : e[j] = IF j <= Len(x) THEN x[j] ELSE Junk
    <3>1. x \in Seq(Elems)
      BY <2>3 DEF Elems
    <3> QED
      BY <3>1, CopiedArray
  <2>10. PICK m \in Nat : m = Len(x) /\ m <= n
    BY <2>3, <2>7
  <2>11. Agree(e, x, m)
    <3>1. \A j \in 1..m : j \in 1..c /\ j <= Len(x)
      BY <2>7, <2>10
    <3> QED
      BY <2>9, <3>1 DEF Agree
  <2>12. mem' = [mem EXCEPT ![v] = [mem[v] EXCEPT !.m_size = m]]
    BY <2>1, <2>10, <2>17
  <2>13. heap' = [heap EXCEPT ![b] = e]
    BY <1>3, <2>1, <2>8, <2>9, <2>18
  <2>14. ref' = [ref EXCEPT ![v] = x]
    BY <1>2, <2>2, <2>5, <2>19
  <2>15. stale' = FALSE /\ ub' = FALSE
    <3>1. stale' \in BOOLEAN
      BY <1>6
    <3> QED
      BY <1>1, <1>9, <3>1 DEF VectorInv
  <2>16. /\ ~stale /\ mem[v] # Null /\ b = mem[v].m_element /\ b # Null /\ Agree(e, x, m) /\ m <= mem[v].m_size
         /\ Len(e) = mem[v].m_capacity /\ Len(x) = m /\ x \in Seq({0, 1})
    BY <1>1, <1>3, <2>3, <2>6, <2>8, <2>9, <2>10, <2>11
  <2> QED
    BY <2>12, <2>13, <2>14, <2>15, <2>16, VectorWrites
<1> QED
  BY <1>8, <1>9

\* A remainder is a natural number, that of a negative number too.
LEMMA Remainder ==
  ASSUME NEW x \in Int, NEW y \in Nat, y # 0
  PROVE  x % y \in Nat
OBVIOUS

\* Every call of the vectors.
LEMMA VectorGoesOn ==
  ASSUME VectorInv, V!VectorNext
  PROVE  VectorInv'
<1>1. PICK v \in {1, 2} :
        \/ \E n \in {0, 1} : V!construct(v, n)
        \/ \E t \in {1, 2} : V!copyConstruct(v, t) \/ V!assign(v, t) \/ V!moveConstruct(v, t) \/ V!moveAssign(v, t)
        \/ V!clear(v) \/ V!destroy(v) \/ V!reverse(v) \/ V!removeLast(v)
        \/ \E n \in {0, 2, 2 * MaxSize - 1} : V!setStep(v, n)
        \/ \E t \in {0, 1}, from \in V!Positions : V!append(v, t, from)
        \/ \E n, from \in V!Positions, t \in {0, 1} : V!insert(v, n, t, from) \/ V!resize(v, n, t, from)
        \/ \E pos \in V!Positions, len \in V!Lengths : V!removeAt(v, pos, len)
        \/ \E pos \in V!Positions, t \in {0, 1} : V!removeOne(v, t, pos, TRUE, 0)
        \/ \E pos, from \in V!Positions, t \in {0, 1} : V!removeOne(v, t, pos, FALSE, from)
        \/ \E a, q \in V!Positions : V!swap(v, a, q)
  BY DEF V!VectorNext
<1>2. /\ V!Positions = 0..(MaxSize - 1) /\ V!Positions \subseteq Nat /\ 0..(2 * MaxSize - 1) \subseteq Nat
      /\ V!Lengths \subseteq 0..(2 * MaxSize - 1)
  BY Bounds DEF V!Positions, V!Lengths
<1>3. ASSUME NEW n \in {0, 1}, V!construct(v, n) PROVE VectorInv'
  <2>1. /\ mem[v] = Null /\ ~stale /\ ~ub /\ ref' = [ref EXCEPT ![v] = <<>>] /\ UNCHANGED <<stale, ub>>
    BY <1>3 DEF V!construct, V!Alive
  <2>2. PICK b : /\ b = V!Fresh(heap) /\ heap' = V!Put(heap, b, V!Unset(n))
                 /\ mem' = [mem EXCEPT ![v] = V!Object(b, 0, 2, n)]
    BY <1>3 DEF V!construct
  <2>3. n \in Nat /\ n <= MaxSize - 1 /\ 2 \in Nat
    BY Bounds
  <2> QED
    BY <2>1, <2>2, <2>3, VectorConstructs
<1>4. ASSUME NEW t \in {1, 2}, V!copyConstruct(v, t) PROVE VectorInv'
  <2>1. mem[v] = Null /\ V!copy(v, t) /\ stale' = stale /\ ~stale
    BY <1>4 DEF V!copyConstruct, V!copy, V!Callable, V!Alive
  <2> QED
    BY <2>1, VectorCopies DEF VectorInv, ElementOf
<1>5. ASSUME NEW t \in {1, 2}, V!assign(v, t) PROVE VectorInv'
  <2>1. mem[v] # Null /\ V!copy(v, t) /\ stale' = (mem[v].m_element # Null) /\ ub' = ub
    BY <1>5 DEF V!assign, V!copy, V!Alive
  <2>2. CASE mem[v].m_element # Null
    BY <2>1, <2>2 DEF VectorInv
  <2>3. CASE mem[v].m_element = Null
    <3>1. stale' = FALSE /\ ElementOf(mem[v]) = Null
      BY <2>1, <2>3 DEF ElementOf
    <3> QED
      BY <2>1, <3>1, VectorCopies
  <2> QED
    BY <2>2, <2>3
<1>6. ASSUME NEW t \in {1, 2}, V!moveConstruct(v, t) \/ V!moveAssign(v, t) PROVE VectorInv'
  BY <1>6, VectorMoves DEF V!moveConstruct, V!moveAssign
<1>7. ASSUME V!clear(v) \/ V!destroy(v) PROVE VectorInv'
  <2>1. /\ mem[v] # Null /\ ~stale /\ ~ub /\ ref' = [ref EXCEPT ![v] = <<>>] /\ UNCHANGED <<stale, ub>>
        /\ heap' = V!freeMemory(heap, mem[v].m_element)
    BY <1>7 DEF V!clear, V!destroy, V!Callable, V!Alive
  <2>2. PICK o : mem' = [mem EXCEPT ![v] = o] /\ (o = Null \/ \E n \in Nat : o = V!Object(Null, 0, n, 0))
    <3>1. CASE V!clear(v)
      <4>1. mem' = [mem EXCEPT ![v] = V!Object(Null, 0, 2, 0)]
        BY <3>1 DEF V!clear
      <4>2. 2 \in Nat
        OBVIOUS
      <4> QED
        BY <4>1, <4>2, Zenon
    <3>2. CASE V!destroy(v)
      BY <3>2 DEF V!destroy
    <3> QED
      BY <1>7, <3>1, <3>2
  <2> QED
    BY <2>1, <2>2, VectorFrees
<1>8. ASSUME V!removeLast(v) PROVE VectorInv'
  <2>1. mem[v] # Null /\ ~stale /\ V!removeAt(v, (V!Size(v) - 1) % (2 * MaxSize), 1)
    BY <1>8 DEF V!removeLast, V!removeAt, V!Callable, V!Alive
  <2>2. V!Size(v) - 1 \in Int
    BY <2>1, SizeIsLength DEF V!Size
  <2>3. PICK pos \in Nat : pos = (V!Size(v) - 1) % (2 * MaxSize)
    <3>1. PICK x \in Int, y \in Nat : x = V!Size(v) - 1 /\ y = 2 * MaxSize /\ y # 0
      BY <2>2, Bounds
    <3> QED
      BY <3>1, Remainder
  <2>4. 1 \in 0..(2 * MaxSize - 1)
    BY Bounds
  <2> QED
    BY <2>1, <2>3, <2>4, VectorRemoves
<1>9. ASSUME NEW n \in {0, 2, 2 * MaxSize - 1}, V!setStep(v, n) PROVE VectorInv'
  <2>1. n \in Nat
    BY Bounds
  <2> QED
    BY <1>9, <2>1, VectorSetsStep
<1>10. ASSUME NEW t \in {0, 1}, NEW from \in V!Positions, V!append(v, t, from) PROVE VectorInv'
  <2>1. mem[v] # Null /\ ~stale /\ V!insert(v, V!Size(v), t, from) /\ from \in Nat
    BY <1>2, <1>10 DEF V!append, V!insert, V!Callable, V!Alive
  <2>2. V!Size(v) \in Nat
    BY <2>1, SizeIsLength DEF V!Size
  <2> QED
    BY <2>1, <2>2, VectorInserts
<1>11. ASSUME NEW n \in V!Positions, NEW from \in V!Positions, NEW t \in {0, 1},
              V!insert(v, n, t, from) \/ V!resize(v, n, t, from)
       PROVE  VectorInv'
  <2>1. n \in Nat /\ n <= MaxSize - 1 /\ from \in Nat
    BY <1>2, Bounds
  <2> QED
    BY <1>11, <2>1, VectorResizes, VectorInserts
<1>12. ASSUME NEW pos \in V!Positions, NEW len \in V!Lengths, V!removeAt(v, pos, len) PROVE VectorInv'
  <2>1. pos \in Nat /\ len \in 0..(2 * MaxSize - 1)
    BY <1>2
  <2> QED
    BY <1>12, <2>1, VectorRemoves
<1>13. ASSUME NEW pos \in V!Positions, NEW t \in {0, 1}, NEW onlyOne \in BOOLEAN, NEW from,
              V!removeOne(v, t, pos, onlyOne, from)
       PROVE  VectorInv'
  <2>1. pos \in Nat
    BY <1>2
  <2> QED
    BY <1>13, <2>1, VectorRemovesOne
<1>14. ASSUME NEW a \in V!Positions, NEW q \in V!Positions, V!swap(v, a, q) PROVE VectorInv'
  <2>1. a \in Nat /\ q \in Nat
    BY <1>2
  <2> QED
    BY <1>14, <2>1, VectorSwaps
<1>15. CASE \E pos \in V!Positions, t \in {0, 1} : V!removeOne(v, t, pos, TRUE, 0)
  BY <1>13, <1>15
<1>16. CASE \E pos, from \in V!Positions, t \in {0, 1} : V!removeOne(v, t, pos, FALSE, from)
  BY <1>13, <1>16
<1> QED
  BY <1>1, <1>3, <1>4, <1>5, <1>6, <1>7, <1>8, <1>9, <1>10, <1>11, <1>12, <1>14, <1>15, <1>16, VectorReverses

\* What the invariant says of vectors and of stacks.
LEMMA VectorsOwn ==
  ASSUME VectorInv
  PROVE  V!VectorsOwnArrays
<1> SUFFICES ASSUME ~stale PROVE V!VectorsOwnArrays
  BY DEF V!VectorsOwnArrays
<1>1. PICK owners : owners = {v \in {1, 2} : V!Alive(v) /\ mem[v].m_element # Null}
  OBVIOUS
<1>2. \A v \in {1, 2} : v \in owners <=> ElementOf(mem[v]) # Null
  BY <1>1 DEF V!Alive, ElementOf
<1>3. \A v \in owners : v \in {1, 2} /\ ElementOf(mem[v]) = mem[v].m_element /\ mem[v] # Null
  BY <1>1 DEF V!Alive, ElementOf
<1>4. /\ ~ub /\ DOMAIN heap = {ElementOf(mem[1]), ElementOf(mem[2])} \ {Null}
      /\ ElementOf(mem[1]) = ElementOf(mem[2]) => ElementOf(mem[1]) = Null
      /\ \A v \in {1, 2} : Fits(mem[v], heap, ref[v])
  BY DEF VectorInv, Sound
<1>5. DOMAIN heap = {mem[v].m_element : v \in owners}
  BY <1>2, <1>3, <1>4
<1>6. \A v, w \in owners : mem[v].m_element = mem[w].m_element => v = w
  BY <1>2, <1>3, <1>4
<1>7. \A v \in owners : Len(heap[mem[v].m_element]) = mem[v].m_capacity
  BY <1>1, <1>3, <1>4 DEF Fits
<1>8. \A v \in {1, 2} : V!Alive(v) => V!Size(v) <= mem[v].m_capacity /\ mem[v].m_capacity <= MaxSize - 1
  BY <1>4 DEF Fits, V!Alive, V!Size
<1> QED
  BY <1>1, <1>4, <1>5, <1>6, <1>7, <1>8 DEF V!VectorsOwnArrays

\* What the invariant means to the vectors' caller.
LEMMA VectorsHold ==
  ASSUME VectorInv
  PROVE  V!VectorsAsReference
BY VectorElements DEF V!VectorsAsReference, V!Alive

\* top and m_top are about the element pushed last.
LEMMA StacksTop ==
  ASSUME StackInv
  PROVE  S!StacksTopped
BY DEF StackInv, S!StacksTopped, S!Alive

---------------------------------------------------------------------------
(* The byte arrays.                                                            *)

Byte == {0, 1}
Strings == [_data : 1..3 \cup {Null}, _size : Nat, _capacity : Nat]

\* String o, with the bytes s in its buffer, holds the text t.
Keeps(o, s, t) ==
  /\ o._size = Len(t) /\ Len(t) <= o._capacity
  /\ o._data = Null => o._capacity = 0
  /\ o._data # Null => /\ s \in Seq(Byte) /\ Len(s) = o._capacity
                       /\ \A j \in 1..o._capacity : s[j] = IF j <= Len(t) THEN t[j] ELSE 0

BytesSound(bt, bf, rf) ==
  /\ bt \in [{1, 2} -> Strings] /\ rf \in [{1, 2} -> Seq(Byte)]
  /\ DOMAIN bf = {bt[1]._data, bt[2]._data} \ {Null}
  /\ \A a \in {1, 2} : Keeps(bt[a], bf[bt[a]._data], rf[a])

BytesInv ==
  ~stale => ~ub /\ BytesSound(mem, heap, ref)

\* What the invariant says of one array and the other.
LEMMA BytesParts ==
  ASSUME BytesInv, ~stale, NEW a \in {1, 2}, NEW w \in {1, 2}, w # a
  PROVE  /\ ~ub /\ mem[a] \in Strings /\ mem[w] \in Strings /\ ref[a] \in Seq(Byte) /\ ref[w] \in Seq(Byte)
         /\ Keeps(mem[a], heap[mem[a]._data], ref[a]) /\ Keeps(mem[w], heap[mem[w]._data], ref[w])
         /\ DOMAIN heap = {mem[a]._data, mem[w]._data} \ {Null}
         /\ mem \in [{1, 2} -> Strings] /\ ref \in [{1, 2} -> Seq(Byte)]
<1>1. (a = 1 /\ w = 2) \/ (a = 2 /\ w = 1)
  OBVIOUS
<1> QED
  BY <1>1 DEF BytesInv, BytesSound

\* One string gets another object, buffer and text.
LEMMA BytesChanged ==
  ASSUME BytesInv, ~stale, NEW a \in {1, 2}, NEW w \in {1, 2}, w # a,
         NEW o \in Strings, NEW t \in Seq(Byte), NEW s,
         mem' = [mem EXCEPT ![a] = o], ref' = [ref EXCEPT ![a] = t],
         DOMAIN heap' = {o._data, mem[w]._data} \ {Null},
         o._data # Null => heap'[o._data] = s,
         mem[w]._data # Null => heap'[mem[w]._data] = heap[mem[w]._data],
         Keeps(o, s, t), ~stale', ~ub'
  PROVE  BytesInv'
<1>1. PICK m, h, r : m = mem' /\ h = heap' /\ r = ref'
  OBVIOUS
<1>2. /\ mem \in [{1, 2} -> Strings] /\ ref \in [{1, 2} -> Seq(Byte)]
      /\ Keeps(mem[w], heap[mem[w]._data], ref[w])
  BY BytesParts
<1>3. m \in [{1, 2} -> Strings] /\ m[a] = o /\ m[w] = mem[w]
  BY <1>1, <1>2
<1>4. r \in [{1, 2} -> Seq(Byte)] /\ r[a] = t /\ r[w] = ref[w]
  BY <1>1, <1>2
<1>5. Keeps(m[a], h[m[a]._data], r[a])
  BY <1>1, <1>3, <1>4 DEF Keeps
<1>6. Keeps(m[w], h[m[w]._data], r[w])
  BY <1>1, <1>2, <1>3, <1>4 DEF Keeps
<1>7. (a = 1 /\ w = 2) \/ (a = 2 /\ w = 1)
  OBVIOUS
<1>8. DOMAIN h = {m[1]._data, m[2]._data} \ {Null}
  BY <1>1, <1>3, <1>7
<1>9. \A x \in {1, 2} : Keeps(m[x], h[m[x]._data], r[x])
  BY <1>5, <1>6, <1>7
<1>10. BytesSound(m, h, r)
  BY <1>3, <1>4, <1>8, <1>9 DEF BytesSound
<1> QED
  BY <1>1, <1>10 DEF BytesInv

\* A string that takes buffer b: a new one, its own, or with the same bytes the
\* one of the other string.
LEMMA BytesHeld ==
  ASSUME BytesInv, ~stale, NEW a \in {1, 2}, NEW w \in {1, 2}, w # a,
         NEW b \in 1..3 \cup {Null}, NEW s, NEW size \in Nat, NEW capacity \in Nat, NEW t \in Seq(Byte),
         B!Hold(a, b, s, size, capacity), b = mem[w]._data /\ b # Null => s = heap[b],
         Keeps([_data |-> b, _size |-> size, _capacity |-> capacity], s, t),
         ref' = [ref EXCEPT ![a] = t], ~stale', ~ub'
  PROVE  BytesInv'
<1>1. PICK o : o = [_data |-> b, _size |-> size, _capacity |-> capacity]
  OBVIOUS
<1>2. o \in Strings /\ o._data = b /\ Keeps(o, s, t)
  BY <1>1 DEF Strings
<1>3. mem \in [{1, 2} -> Strings]
  BY BytesParts
<1>4. mem' = [mem EXCEPT ![a] = o]
  BY <1>1 DEF B!Hold
<1>5. mem'[a] = o /\ mem'[w] = mem[w]
  BY <1>3, <1>4
<1>6. (a = 1 /\ w = 2) \/ (a = 2 /\ w = 1)
  OBVIOUS
<1>7. {mem'[x]._data : x \in {1, 2}} = {b, mem[w]._data}
  BY <1>2, <1>5, <1>6
<1>8. heap' = [x \in {b, mem[w]._data} \ {Null} |-> IF x = b THEN s ELSE heap[x]]
  BY <1>7 DEF B!Hold
<1>9. /\ DOMAIN heap' = {o._data, mem[w]._data} \ {Null}
      /\ o._data # Null => heap'[o._data] = s
      /\ mem[w]._data # Null => heap'[mem[w]._data] = heap[mem[w]._data]
  BY <1>2, <1>8
<1> QED
  BY <1>2, <1>4, <1>9, BytesChanged

\* operator new has a buffer left, and not one that is in use.
LEMMA FreshBuffer ==
  ASSUME BytesInv, ~stale, NEW w \in {1, 2}
  PROVE  B!Fresh \in 1..3 /\ B!Fresh # mem[w]._data /\ B!Fresh # Null
<1>1. PICK a \in {1, 2} : a # w
  OBVIOUS
<1>2. DOMAIN heap = {mem[w]._data, mem[a]._data} \ {Null}
  BY <1>1, BytesParts
<1>3. Cardinality({1, 2}) = 2
  <2>1. Cardinality({1}) = 1 /\ IsFiniteSet({1})
    BY FS_Singleton
  <2>2. Cardinality({1} \cup {2}) = Cardinality({1}) + 1
    BY <2>1, FS_AddElement
  <2> QED
    BY <2>1, <2>2
<1>4. B!Fresh = CHOOSE b \in 1..3 : b \notin DOMAIN heap
  <2>1. B!Fresh = CHOOSE b \in 1..(Cardinality({1, 2}) + 1) : b \notin DOMAIN heap
    BY DEF B!Fresh, B!Cardinality, Cardinality
  <2> QED
    BY <1>3, <2>1
<1>5. \E b \in 1..3 : b \notin DOMAIN heap
  BY <1>2
<1>6. B!Fresh \in 1..3 /\ B!Fresh \notin DOMAIN heap
  BY <1>4, <1>5
<1>7. Null \notin 1..3
  BY NullApart
<1> QED
  BY <1>2, <1>6, <1>7

\* A buffer of n bytes that starts with t and is zero behind it.
LEMMA ZeroedBuffer ==
  ASSUME NEW t \in Seq(Byte), NEW n \in Nat
  PROVE  /\ B!Zeroed(t, n) \in Seq(Byte) /\ Len(B!Zeroed(t, n)) = n
         /\ \A j \in 1..n : B!Zeroed(t, n)[j] = IF j <= Len(t) THEN t[j] ELSE 0
<1>1. B!Zeroed(t, n) = [j \in 1..n |-> IF j <= Len(t) THEN t[j] ELSE 0]
  <2>1. \A j \in 1..n : j \in DOMAIN t <=> j <= Len(t)
    OBVIOUS
  <2> QED
    BY <2>1 DEF B!Zeroed
<1>2. \A j \in 1..n : (IF j <= Len(t) THEN t[j] ELSE 0) \in Byte
  BY DEF Byte
<1>3. B!Zeroed(t, n) \in [1..n -> Byte]
  BY <1>1, <1>2
<1> QED
  BY <1>1, <1>3

\* The text of a string.
LEMMA TextIs ==
  ASSUME BytesInv, ~stale, NEW a \in {1, 2}
  PROVE  B!Text(a) = ref[a] /\ mem[a]._size = Len(ref[a]) /\ ref[a] \in Seq(Byte)
<1>1. PICK w \in {1, 2} : w # a
  OBVIOUS
<1>2. mem[a] \in Strings /\ ref[a] \in Seq(Byte) /\ Keeps(mem[a], heap[mem[a]._data], ref[a])
  BY <1>1, BytesParts
<1>0. PICK s : s = heap[mem[a]._data]
  OBVIOUS
<1>3. PICK t \in Seq(Byte), n \in Nat, c \in Nat :
        t = ref[a] /\ n = mem[a]._size /\ c = mem[a]._capacity /\ s = heap[mem[a]._data]
  BY <1>0, <1>2 DEF Strings
<1>4. n = Len(t) /\ n <= c
  BY <1>2, <1>3 DEF Keeps
<1>5. CASE mem[a]._data = Null
  <2>1. Len(t) = 0
    BY <1>2, <1>3, <1>4, <1>5 DEF Keeps
  <2>2. t = <<>>
    BY <2>1, NoElements
  <2> QED
    BY <1>3, <1>4, <1>5, <2>2 DEF B!Text
<1>6. CASE mem[a]._data # Null
  <2>1. s \in Seq(Byte) /\ Len(s) = c /\ \A j \in 1..c : s[j] = IF j <= Len(t) THEN t[j] ELSE 0
    BY <1>2, <1>3, <1>6 DEF Keeps
  <2>2. SubSeq(s, 1, n) \in Seq(Byte) /\ Len(SubSeq(s, 1, n)) = n /\ \A j \in 1..n : SubSeq(s, 1, n)[j] = s[j]
    BY <1>4, <2>1
  <2>3. PICK x \in Seq(Byte) : x = SubSeq(s, 1, n)
    BY <2>2
  <2>4. PICK y \in Seq(Byte) : y = t
    BY DEF Byte
  <2>5. Len(x) = Len(y) /\ \A j \in 1..Len(x) : x[j] = y[j]
    <3>1. \A j \in 1..n : j \in 1..c /\ j <= Len(t)
      BY <1>4
    <3> QED
      BY <1>4, <2>1, <2>2, <2>3, <2>4, <3>1
  <2>6. x = y
    BY <2>3, <2>4, <2>5, SeqEqual
  <2> QED
    BY <1>3, <1>4, <1>6, <2>3, <2>4, <2>6 DEF B!Text
<1> QED
  BY <1>5, <1>6

\* A string whose buffer is its text and then zeros.
LEMMA BytesZeroed ==
  ASSUME BytesInv, ~stale, NEW a \in {1, 2}, NEW w \in {1, 2}, w # a, NEW t \in Seq(Byte),
         NEW b \in 1..3, b # mem[w]._data, NEW size \in Nat, NEW capacity \in Nat,
         size = Len(t), size <= capacity, NEW s, s = B!Zeroed(t, capacity), B!Hold(a, b, s, size, capacity),
         ref' = [ref EXCEPT ![a] = t], ~stale', ~ub'
  PROVE  BytesInv'
<1>2. s \in Seq(Byte) /\ Len(s) = capacity /\ \A j \in 1..capacity : s[j] = IF j <= Len(t) THEN t[j] ELSE 0
  BY ZeroedBuffer
<1>3. b # Null /\ b \in 1..3 \cup {Null}
  BY NullApart
<1>4. Keeps([_data |-> b, _size |-> size, _capacity |-> capacity], s, t)
  BY <1>2, <1>3 DEF Keeps
<1>5. b = mem[w]._data /\ b # Null => s = heap[b]
  OBVIOUS
<1> QED
  BY <1>3, <1>4, <1>5, BytesHeld

\* The constructors.
LEMMA BytesConstructs ==
  ASSUME BytesInv, NEW a \in {1, 2}, NEW t \in Seq(Byte), NEW spare \in Nat, B!construct(a, t, spare)
  PROVE  BytesInv'
<1>1. /\ ~stale /\ ~ub /\ ref' = [ref EXCEPT ![a] = t] /\ UNCHANGED <<stale, ub>>
      /\ B!Hold(a, B!Fresh, B!Zeroed(t, Len(t) + spare), Len(t), Len(t) + spare)
  BY DEF B!construct, B!Callable
<1>2. PICK w \in {1, 2} : w # a
  OBVIOUS
<1>3. PICK b \in 1..3 : b = B!Fresh /\ b # mem[w]._data
  BY <1>1, FreshBuffer
<1>4. PICK size \in Nat, capacity \in Nat : size = Len(t) /\ capacity = Len(t) + spare /\ size <= capacity
  OBVIOUS
<1>5. PICK s : s = B!Zeroed(t, capacity)
  OBVIOUS
<1>6. /\ BytesInv /\ ~stale /\ w # a /\ b # mem[w]._data /\ size = Len(t) /\ size <= capacity
      /\ s = B!Zeroed(t, capacity) /\ B!Hold(a, b, s, size, capacity)
      /\ ref' = [ref EXCEPT ![a] = t] /\ ~stale' /\ ~ub'
  BY <1>1, <1>2, <1>3, <1>4, <1>5
<1>7. w \in {1, 2} /\ b \in 1..3 /\ size \in Nat /\ capacity \in Nat
  BY <1>2, <1>3, <1>4
<1> QED
  BY <1>6, <1>7, BytesZeroed

\* String a takes the buffer b, which holds the text t and zeros behind it.
GetsBuffer(a, w, b, t, s, size, capacity) ==
  /\ BytesInv /\ ~stale /\ w # a /\ b # mem[w]._data /\ size = Len(t) /\ size <= capacity
  /\ s = B!Zeroed(t, capacity) /\ B!Hold(a, b, s, size, capacity)
  /\ ref' = [ref EXCEPT ![a] = t] /\ ~stale' /\ ~ub'

\* BytesZeroed in one premise.
LEMMA BytesGiven ==
  ASSUME NEW a \in {1, 2}, NEW w \in {1, 2}, NEW t \in Seq(Byte), NEW b \in 1..3, NEW s,
         NEW size \in Nat, NEW capacity \in Nat, GetsBuffer(a, w, b, t, s, size, capacity)
  PROVE  BytesInv'
<1>1. /\ BytesInv /\ ~stale /\ w # a /\ b # mem[w]._data /\ size = Len(t) /\ size <= capacity
      /\ s = B!Zeroed(t, capacity) /\ B!Hold(a, b, s, size, capacity)
      /\ ref' = [ref EXCEPT ![a] = t] /\ ~stale' /\ ~ub'
  BY DEF GetsBuffer
<1> QED
  BY <1>1, BytesZeroed

\* A new buffer with the first size bytes of the text.
LEMMA BytesReset ==
  ASSUME BytesInv, ~stale, NEW a \in {1, 2}, NEW size \in Nat, NEW capacity \in Nat,
         NEW t \in Seq(Byte), t = SubSeq(ref[a], 1, size),
         size <= Len(ref[a]), size <= capacity, B!resetBuffer(a, size, capacity),
         ref' = [ref EXCEPT ![a] = t], ~stale', ~ub'
  PROVE  BytesInv'
<1>1. PICK w \in {1, 2} : w # a
  OBVIOUS
<1>2. PICK b \in 1..3 : b = B!Fresh /\ b # mem[w]._data
  BY FreshBuffer
<1>3. PICK x \in Seq(Byte) : x = ref[a] /\ B!Text(a) = x
  BY TextIs
<1>4. t = SubSeq(x, 1, size) /\ size = Len(t)
  <2>1. size \in Nat /\ size <= Len(x)
    BY <1>3
  <2> QED
    BY <1>3, <2>1
<1>0. PICK s : s = B!Zeroed(t, capacity)
  OBVIOUS
<1>5. B!Hold(a, b, s, size, capacity)
  BY <1>0, <1>2, <1>3, <1>4 DEF B!resetBuffer
<1>6. GetsBuffer(a, w, b, t, s, size, capacity)
  BY <1>0, <1>1, <1>2, <1>4, <1>5 DEF GetsBuffer
<1>7. w \in {1, 2} /\ b \in 1..3
  BY <1>1, <1>2
<1> QED
  BY <1>6, <1>7, BytesGiven

\* The two ends of SubSeq.
LEMMA WholeText ==
  ASSUME NEW W, NEW s \in Seq(W)
  PROVE  SubSeq(s, 1, Len(s)) = s /\ SubSeq(s, 1, 0) = <<>>
<1>1. SubSeq(s, 1, 0) = <<>>
  OBVIOUS
<1>2. PICK x : x = SubSeq(s, 1, Len(s))
  OBVIOUS
<1>3. x \in Seq(W) /\ Len(x) = Len(s) /\ \A j \in 1..Len(x) : x[j] = s[j]
  BY <1>2
<1> QED
  BY <1>1, <1>2, <1>3, SeqEqual

\* detach, squeeze, clear and reserve replace the buffer and keep a text.
LEMMA BytesResets ==
  ASSUME BytesInv, NEW a \in {1, 2},
         B!detach(a) \/ B!squeeze(a) \/ B!clear(a) \/ \E n \in 0..1 : B!reserve(a, n)
  PROVE  BytesInv'
<1>1. ~stale /\ ub' = ub /\ ~ub
  BY DEF B!detach, B!squeeze, B!clear, B!reserve, B!Callable
<1>2. PICK w \in {1, 2} : w # a
  OBVIOUS
<1>3. PICK x \in Seq(Byte) : x = ref[a] /\ mem[a]._size = Len(x)
  BY <1>1, TextIs
<1>4. PICK c \in Nat : c = mem[a]._capacity /\ Len(x) <= c
  BY <1>1, <1>2, <1>3, BytesParts DEF Strings, Keeps
<1>5. ref \in [{1, 2} -> Seq(Byte)]
  BY <1>1, <1>2, BytesParts
<1>6. SubSeq(x, 1, Len(x)) = x /\ SubSeq(x, 1, 0) = <<>> /\ Len(x) \in Nat
  BY WholeText
<1>7. CASE B!detach(a) \/ B!squeeze(a)
  <2>1. PICK capacity \in Nat : B!resetBuffer(a, Len(x), capacity) /\ Len(x) <= capacity
    <3>1. CASE B!detach(a)
      BY <1>3, <1>4, <3>1 DEF B!detach
    <3>2. CASE B!squeeze(a)
      BY <1>3, <1>6, <3>2 DEF B!squeeze
    <3> QED
      BY <1>7, <3>1, <3>2
  <2>2. ref' = [ref EXCEPT ![a] = x] /\ ~stale'
    <3>1. ref' = ref /\ stale' = stale
      BY <1>7 DEF B!detach, B!squeeze
    <3> QED
      BY <1>1, <1>3, <1>5, <1>6, <3>1 DEF BytesInv
  <2>3. PICK n \in Nat : n = Len(x)
    OBVIOUS
  <2>4. /\ BytesInv /\ ~stale /\ x = SubSeq(ref[a], 1, n) /\ n <= Len(ref[a]) /\ n <= capacity
        /\ B!resetBuffer(a, n, capacity) /\ ref' = [ref EXCEPT ![a] = x]
        /\ ~stale' /\ ~ub'
    BY <1>1, <1>3, <1>6, <2>1, <2>2, <2>3
  <2> QED
    BY <2>4, BytesReset
<1>8. CASE B!clear(a)
  <2>1. B!resetBuffer(a, 0, 2) /\ ~stale'
    BY <1>1, <1>8 DEF B!clear, BytesInv
  <2>9. <<>> \in Seq(Byte)
    OBVIOUS
  <2>6. PICK t \in Seq(Byte) : t = <<>>
    BY <2>9
  <2>7. PICK n \in Nat : n = 0
    OBVIOUS
  <2>8. PICK c2 \in Nat : c2 = 2
    OBVIOUS
  <2>2. t = <<>> /\ n = 0 /\ c2 = 2 /\ t \in Seq(Byte) /\ n \in Nat /\ c2 \in Nat
    BY <2>6, <2>7, <2>8
  <2>5. ref' = [ref EXCEPT ![a] = t]
    BY <1>8, <2>2 DEF B!clear
  <2>3. n <= Len(ref[a]) /\ n <= c2 /\ t = SubSeq(ref[a], 1, n)
    BY <1>3, <1>6, <2>2
  <2>4. /\ BytesInv /\ ~stale /\ t = SubSeq(ref[a], 1, n) /\ n <= Len(ref[a]) /\ n <= c2
        /\ B!resetBuffer(a, n, c2) /\ ref' = [ref EXCEPT ![a] = t]
        /\ ~stale' /\ ~ub'
    BY <1>1, <2>1, <2>2, <2>3, <2>5
  <2> QED
    BY <2>2, <2>4, BytesReset
<1>9. ASSUME NEW n \in 0..1, B!reserve(a, n) PROVE BytesInv'
  <2>1. B!resetBuffer(a, 0, n) /\ stale' = (Len(x) > 0) /\ ref' = ref
    BY <1>3, <1>9 DEF B!reserve
  <2>2. CASE Len(x) > 0
    BY <1>1, <2>1, <2>2 DEF BytesInv
  <2>3. CASE ~ (Len(x) > 0)
    <3>1. Len(x) = 0
      BY <1>6, <2>3
    <3>2. ~stale'
      BY <2>1, <2>3, Zenon
    <3>7. ~ub'
      BY <1>1
    <3>3. PICK y \in Seq(Byte), d \in Nat, c2 \in Nat : y = x /\ d = 0 /\ c2 = n
      OBVIOUS
    <3>4. ref' = [ref EXCEPT ![a] = y] /\ y = SubSeq(ref[a], 1, d)
      BY <1>3, <1>5, <1>6, <2>1, <3>1, <3>3
    <3>5. d <= Len(ref[a]) /\ d <= c2
      BY <1>3, <1>6, <3>3
    <3>6. /\ BytesInv /\ ~stale /\ y = SubSeq(ref[a], 1, d) /\ d <= Len(ref[a]) /\ d <= c2
          /\ B!resetBuffer(a, d, c2) /\ ref' = [ref EXCEPT ![a] = y]
          /\ ~stale' /\ ~ub'
      BY <1>1, <2>1, <3>7, <3>2, <3>3, <3>4, <3>5
    <3> QED
      BY <3>6, BytesReset
  <2> QED
    BY <2>2, <2>3
<1> QED
  BY <1>7, <1>8, <1>9

\* Assignment and copy constructor share the buffer.
LEMMA BytesAssigns ==
  ASSUME BytesInv, NEW a \in {1, 2}, NEW b \in {1, 2}, B!assign(a, b)
  PROVE  BytesInv'
<1>1. /\ ~stale /\ ~ub /\ a # b /\ ref' = [ref EXCEPT ![a] = ref[b]] /\ UNCHANGED <<stale, ub>>
      /\ B!Hold(a, mem[b]._data, IF mem[b]._data = Null THEN <<>> ELSE heap[mem[b]._data],
                mem[b]._size, mem[b]._capacity)
  BY DEF B!assign, B!Callable
<1>2. b # a /\ mem[b] \in Strings /\ Keeps(mem[b], heap[mem[b]._data], ref[b]) /\ ref[b] \in Seq(Byte)
  BY <1>1, BytesParts
<1>3. PICK d \in 1..3 \cup {Null}, size \in Nat, c \in Nat, t \in Seq(Byte) :
         d = mem[b]._data /\ size = mem[b]._size /\ c = mem[b]._capacity /\ t = ref[b]
  BY <1>2 DEF Strings
<1>4. PICK s : s = IF d = Null THEN <<>> ELSE heap[d]
  OBVIOUS
<1>5. Keeps([_data |-> d, _size |-> size, _capacity |-> c], s, t)
  BY <1>2, <1>3, <1>4 DEF Keeps
<1>6. /\ B!Hold(a, d, s, size, c) /\ (d = mem[b]._data /\ d # Null => s = heap[d])
      /\ ref' = [ref EXCEPT ![a] = t] /\ ~stale' /\ ~ub'
  BY <1>1, <1>3, <1>4 DEF BytesInv
<1> QED
  BY <1>1, <1>2, <1>5, <1>6, BytesHeld

\* The move constructor and assignment take the buffer over.
LEMMA BytesMoves ==
  ASSUME BytesInv, NEW a \in {1, 2}, NEW b \in {1, 2}, B!move(a, b)
  PROVE  BytesInv'
<1>1. /\ ~stale /\ ~ub /\ a # b /\ ref' = [ref EXCEPT ![a] = ref[b], ![b] = <<>>] /\ UNCHANGED <<stale, ub>>
      /\ mem' = [mem EXCEPT ![a] = mem[b], ![b] = [_data |-> Null, _size |-> 0, _capacity |-> 0]]
      /\ heap' = [x \in {mem'[y]._data : y \in {1, 2}} \ {Null} |-> heap[x]]
  BY DEF B!move, B!Callable
<1>2. PICK o, r : o = [_data |-> Null, _size |-> 0, _capacity |-> 0] /\ r = mem[b]
  OBVIOUS
<1>3. b # a /\ r \in Strings /\ Keeps(r, heap[r._data], ref[b]) /\ ref[b] \in Seq(Byte)
      /\ mem \in [{1, 2} -> Strings] /\ ref \in [{1, 2} -> Seq(Byte)]
  BY <1>1, <1>2, BytesParts
<1>4. o \in Strings /\ o._data = Null /\ <<>> \in Seq(Byte)
  BY <1>2 DEF Strings
<1>5. PICK m, h, f : m = mem' /\ h = heap' /\ f = ref'
  OBVIOUS
<1>6. m \in [{1, 2} -> Strings] /\ m[a] = r /\ m[b] = o
  BY <1>1, <1>2, <1>3, <1>4, <1>5
<1>7. f \in [{1, 2} -> Seq(Byte)] /\ f[a] = ref[b] /\ f[b] = <<>>
  BY <1>1, <1>3, <1>4, <1>5
<1>8. (a = 1 /\ b = 2) \/ (a = 2 /\ b = 1)
  BY <1>1
<1>9. {m[y]._data : y \in {1, 2}} = {m[1]._data, m[2]._data} /\ {m[1]._data, m[2]._data} = {r._data, Null}
  BY <1>4, <1>6, <1>8
<1>10. DOMAIN h = {m[1]._data, m[2]._data} \ {Null} /\ (r._data # Null => h[r._data] = heap[r._data])
  BY <1>1, <1>5, <1>9
<1>11. Keeps(m[a], h[m[a]._data], f[a])
  BY <1>3, <1>6, <1>7, <1>10 DEF Keeps
<1>12. Keeps(m[b], h[m[b]._data], f[b])
  <2>1. Len(<<>>) = 0 /\ o._size = 0 /\ o._capacity = 0
    BY <1>2
  <2> QED
    BY <1>4, <1>6, <1>7, <2>1 DEF Keeps
<1>13. BytesSound(m, h, f)
  BY <1>6, <1>7, <1>8, <1>10, <1>11, <1>12 DEF BytesSound
<1> QED
  BY <1>1, <1>5, <1>13 DEF BytesInv

IsSpliced(y, t, pos, x) ==
  /\ Len(y) = Len(t) + Len(x)
  /\ \A j \in 1..(Len(t) + Len(x)) :
        y[j] = IF j <= pos THEN t[j] ELSE IF j <= pos + Len(x) THEN x[j - pos] ELSE t[j - Len(x)]

\* x goes behind the first pos bytes of t.
LEMMA SeqSpliced ==
  ASSUME NEW W, NEW t \in Seq(W), NEW x \in Seq(W), NEW pos \in 0..Len(t)
  PROVE  /\ SubSeq(t, 1, pos) \o x \o SubSeq(t, pos + 1, Len(t)) \in Seq(W)
         /\ IsSpliced(SubSeq(t, 1, pos) \o x \o SubSeq(t, pos + 1, Len(t)), t, pos, x)
<1>1. PICK f : f = SubSeq(t, 1, pos)
  OBVIOUS
<1>2. PICK g : g = SubSeq(t, pos + 1, Len(t))
  OBVIOUS
<1>3. f \in Seq(W) /\ Len(f) = pos /\ \A j \in 1..pos : f[j] = t[j]
  BY <1>1, PartOf
<1>4. g \in Seq(W) /\ Len(g) = Len(t) - pos /\ \A j \in 1..(Len(t) - pos) : g[j] = t[pos + j]
  <2>1. pos + 1 \in 1..(Len(t) + 1) /\ Len(t) \in (pos + 1 - 1)..Len(t)
    OBVIOUS
  <2>2. g \in Seq(W) /\ Len(g) = Len(t) - (pos + 1) + 1 /\ \A j \in 1..(Len(t) - (pos + 1) + 1) : g[j] = t[pos + 1 + j - 1]
    BY <1>2, <2>1, PartOf
  <2> QED
    BY <2>2
<1>5. PICK h : h = f \o x
  OBVIOUS
<1>6. h \in Seq(W) /\ Len(h) = pos + Len(x) /\ \A j \in 1..(pos + Len(x)) : h[j] = IF j <= pos THEN t[j] ELSE x[j - pos]
  <2>1. h \in Seq(W) /\ Len(h) = Len(f) + Len(x) /\ \A j \in 1..(Len(f) + Len(x)) : h[j] = IF j <= Len(f) THEN f[j] ELSE x[j - Len(f)]
    BY <1>3, <1>5, CatOf
  <2>2. \A j \in 1..(pos + Len(x)) : h[j] = IF j <= pos THEN f[j] ELSE x[j - pos]
    BY <1>3, <2>1
  <2> QED
    BY <1>3, <2>1, <2>2
<1>7. PICK y : y = h \o g
  OBVIOUS
<1>8. y \in Seq(W) /\ Len(y) = Len(h) + Len(g) /\ \A j \in 1..(Len(h) + Len(g)) : y[j] = IF j <= Len(h) THEN h[j] ELSE g[j - Len(h)]
  BY <1>4, <1>6, <1>7, CatOf
<1>9. Len(h) + Len(g) = Len(t) + Len(x)
  BY <1>4, <1>6
<1>10. ASSUME NEW j \in 1..(Len(t) + Len(x))
       PROVE  y[j] = IF j <= pos THEN t[j] ELSE IF j <= pos + Len(x) THEN x[j - pos] ELSE t[j - Len(x)]
  <2>1. CASE j <= pos + Len(x)
    BY <1>6, <1>8, <1>9, <2>1
  <2>2. CASE ~ (j <= pos + Len(x))
    <3>1. j - (pos + Len(x)) \in 1..(Len(t) - pos) /\ pos + (j - (pos + Len(x))) = j - Len(x)
      BY <2>2
    <3>2. y[j] = g[j - (pos + Len(x))]
      BY <1>6, <1>8, <1>9, <2>2
    <3>3. g[j - (pos + Len(x))] = t[j - Len(x)]
      BY <1>4, <3>1
    <3> QED
      BY <2>2, <3>2, <3>3
  <2> QED
    BY <2>1, <2>2
<1>11. IsSpliced(y, t, pos, x)
  BY <1>8, <1>9, <1>10 DEF IsSpliced
<1> QED
  BY <1>1, <1>2, <1>5, <1>7, <1>8, <1>11

\* A buffer with the bytes of the text in front of zeros.
Padded(s, t, c) ==
  s \in Seq(Byte) /\ Len(s) = c /\ \A j \in 1..c : s[j] = IF j <= Len(t) THEN t[j] ELSE 0

Written(old, size, pos, x, behind) ==
  LET moved == [j \in DOMAIN old |-> IF j \in size + 1 .. size + behind THEN old[j - behind] ELSE old[j]]
  IN  [j \in DOMAIN old |-> IF j \in pos + 1 .. pos + Len(x) THEN x[j - pos] ELSE moved[j]]

\* What insertElement writes, if nothing or as many bytes as x lie behind pos.
LEMMA BytesSpliced ==
  ASSUME NEW t \in Seq(Byte), NEW x \in Seq(Byte), NEW y \in Seq(Byte), NEW pos \in 0..Len(t),
         IsSpliced(y, t, pos, x), NEW old, NEW c \in Nat, Padded(old, t, c), Len(t) + Len(x) <= c,
         NEW behind, behind = Len(t) - pos, behind \in {0, Len(x)},
         NEW new, new = Written(old, Len(t), pos, x, behind)
  PROVE  Padded(new, y, c)
<1>0. PICK moved : moved = [j \in DOMAIN old |-> IF j \in Len(t) + 1 .. Len(t) + behind THEN old[j - behind] ELSE old[j]]
  OBVIOUS
<1>6. new = [j \in DOMAIN old |-> IF j \in pos + 1 .. pos + Len(x) THEN x[j - pos] ELSE moved[j]]
  BY <1>0 DEF Written
<1>1. old \in Seq(Byte) /\ Len(old) = c /\ DOMAIN old = 1..c /\ \A j \in 1..c : old[j] = IF j <= Len(t) THEN t[j] ELSE 0
  BY DEF Padded
<1>2. Len(y) = Len(t) + Len(x) /\ Len(y) <= c
  BY DEF IsSpliced
<1>3. ASSUME NEW j \in 1..c
      PROVE  new[j] = IF j <= Len(y) THEN y[j] ELSE 0
  <2>1. CASE j \in pos + 1 .. pos + Len(x)
    <3>0. new[j] = x[j - pos]
      BY <1>1, <1>6, <2>1
    <3>1. new[j] = x[j - pos] /\ j <= Len(t) + Len(x) /\ ~ (j <= pos) /\ j <= pos + Len(x) /\ j \in 1..(Len(t) + Len(x))
      BY <2>1, <3>0
    <3>2. y[j] = x[j - pos]
      BY <3>1 DEF IsSpliced
    <3> QED
      BY <1>2, <3>1, <3>2
  <2>2. CASE j <= pos
    <3>3. j \notin pos + 1 .. pos + Len(x) /\ j \notin Len(t) + 1 .. Len(t) + behind /\ j \in DOMAIN old
      BY <1>1, <2>2
    <3>4. new[j] = moved[j]
      BY <1>6, <3>3
    <3>5. moved[j] = old[j]
      BY <1>0, <3>3
    <3>1. new[j] = moved[j] /\ moved[j] = old[j] /\ old[j] = t[j] /\ j \in 1..(Len(t) + Len(x))
      BY <1>1, <2>2, <3>4, <3>5
    <3>2. y[j] = t[j]
      BY <2>2, <3>1 DEF IsSpliced
    <3> QED
      BY <1>2, <2>2, <3>1, <3>2
  <2>3. CASE j > pos + Len(x) /\ j <= Len(t) + Len(x)
    <3>1. behind = Len(x) /\ j \in Len(t) + 1 .. Len(t) + behind
      BY <2>3
    <3>6. j \notin pos + 1 .. pos + Len(x)
      BY <2>3
    <3>7. new[j] = moved[j]
      BY <1>1, <1>6, <3>6
    <3>8. moved[j] = old[j - behind]
      BY <1>0, <1>1, <1>6, <3>1
    <3>2. new[j] = moved[j] /\ moved[j] = old[j - Len(x)]
      BY <3>1, <3>7, <3>8
    <3>3. j - Len(x) \in 1..c /\ j - Len(x) <= Len(t)
      BY <2>3
    <3>4. old[j - Len(x)] = t[j - Len(x)]
      BY <1>1, <3>3
    <3>5. y[j] = t[j - Len(x)]
      <4>1. j \in 1..(Len(t) + Len(x)) /\ ~ (j <= pos) /\ ~ (j <= pos + Len(x))
        BY <2>3
      <4> QED
        BY <4>1 DEF IsSpliced
    <3> QED
      BY <1>2, <2>3, <3>2, <3>4, <3>5
  <2>4. CASE j > Len(t) + Len(x)
    <3>1. j \notin pos + 1 .. pos + Len(x) /\ j \notin Len(t) + 1 .. Len(t) + behind /\ ~ (j <= Len(t)) /\ ~ (j <= Len(y))
      BY <1>2, <2>4
    <3>2. new[j] = moved[j] /\ moved[j] = old[j] /\ old[j] = 0
      BY <1>0, <1>1, <1>6, <3>1
    <3> QED
      BY <3>1, <3>2
  <2> QED
    BY <2>1, <2>2, <2>3, <2>4
<1>4. \A j \in 1..c : new[j] \in Byte
  <2>1. ASSUME NEW j \in 1..c PROVE new[j] \in Byte
    <3>1. CASE j <= Len(y)
      <4>1. y[j] \in Byte
        BY <3>1
      <4> QED
        BY <1>3, <3>1, <4>1
    <3>2. CASE ~ (j <= Len(y))
      BY <1>3, <3>2 DEF Byte
    <3> QED
      BY <3>1, <3>2
  <2> QED
    BY <2>1
<1>5. new \in [1..c -> Byte]
  BY <1>1, <1>4, <1>6
<1> QED
  BY <1>3, <1>5 DEF Padded

\* The object and buffer of a string that has room for n more bytes.
LEMMA BytesRoom ==
  ASSUME NEW n \in Nat, NEW l \in Nat, NEW c \in Nat, n <= c
  PROVE  LET e == IF n + l > c THEN ((c + l) * 3) \div 2 ELSE c
         IN  e \in Nat /\ n + l <= e
<1>1. PICK p \in Nat : p = ((c + l) * 3) \div 2
  OBVIOUS
<1>2. p >= c + l
  BY <1>1
<1> QED
  BY <1>1, <1>2

\* insertElement, which insert, append and prepend call.
LEMMA BytesInserts ==
  ASSUME BytesInv, NEW a \in {1, 2}, NEW pos \in Nat, NEW x \in Seq(Byte), NEW from \in Int,
         B!insertElement(a, pos, x, from)
  PROVE  BytesInv'
<1>0. CASE stale'
  BY <1>0 DEF BytesInv
<1>1. CASE ~stale'
  <2> DEFINE size == mem[a]._size
             len == Len(x)
             grows == size + len > mem[a]._capacity
             capacity == IF grows THEN ((mem[a]._capacity + len) * 3) \div 2 ELSE mem[a]._capacity
             fresh == grows \/ ~B!unique(a)
             behind == size - pos
             lost == from # -1 /\ len > 0 /\ B!unique(a) /\ (grows \/ from + len > pos)
             old == IF fresh THEN B!Zeroed(B!Text(a), capacity) ELSE heap[mem[a]._data]
             moved == [j \in DOMAIN old |-> IF j \in size + 1 .. size + behind THEN old[j - behind] ELSE old[j]]
             new == [j \in DOMAIN old |-> IF j \in pos + 1 .. pos + len THEN x[j - pos] ELSE moved[j]]
  <2>1. ~stale /\ pos <= size
    BY DEF B!insertElement, B!Callable
  <2>2. stale' = (behind \notin {0, len} \/ lost)
    BY DEF B!insertElement
  <2>3. ub' = (size + behind > capacity \/ lost)
    BY DEF B!insertElement
  <2>4. B!Hold(a, IF fresh THEN B!Fresh ELSE mem[a]._data, new, size + len, capacity)
    BY <1>1 DEF B!insertElement
  <2>5. ref' = [ref EXCEPT ![a] = SubSeq(ref[a], 1, pos) \o x \o SubSeq(ref[a], pos + 1, size)]
    BY <1>1 DEF B!insertElement
  <2>6. behind \in {0, len} /\ ~ lost
    BY <1>1, <2>2
  <2>7. PICK w \in {1, 2} : w # a
    OBVIOUS
  <2>8. PICK t \in Seq(Byte) : t = ref[a] /\ size = Len(t) /\ B!Text(a) = t
    BY <2>1, TextIs
  <2>9. /\ mem[a] \in Strings /\ mem[w] \in Strings /\ Keeps(mem[a], heap[mem[a]._data], t)
        /\ DOMAIN heap = {mem[a]._data, mem[w]._data} \ {Null}
    BY <2>1, <2>7, <2>8, BytesParts
  <2>10. PICK c0 \in Nat : c0 = mem[a]._capacity /\ Len(t) <= c0
    BY <2>8, <2>9 DEF Strings, Keeps
  <2>11. PICK c : c = capacity
    OBVIOUS
  <2>12. c \in Nat /\ Len(t) + len <= c
    <3>1. Len(t) \in Nat /\ len \in Nat
      OBVIOUS
    <3>2. c = IF Len(t) + len > c0 THEN ((c0 + len) * 3) \div 2 ELSE c0
      BY <2>8, <2>10, <2>11
    <3> QED
      BY <2>10, <3>1, <3>2, BytesRoom
  <2>13. PICK s0 : s0 = old
    OBVIOUS
  <2>14. PICK b : b = IF fresh THEN B!Fresh ELSE mem[a]._data
    OBVIOUS
  <2>15. Padded(s0, t, c) /\ b \in 1..3 /\ b # mem[w]._data
    <3>1. CASE fresh
      <4>1. s0 = B!Zeroed(t, c) /\ b = B!Fresh
        BY <2>8, <2>11, <2>13, <2>14, <3>1
      <4>2. Padded(s0, t, c)
        BY <2>12, <4>1, ZeroedBuffer DEF Padded
      <4> QED
        BY <2>1, <2>7, <4>1, <4>2, FreshBuffer
    <3>2. CASE ~fresh
      <4>1. s0 = heap[mem[a]._data] /\ b = mem[a]._data /\ c = c0 /\ B!unique(a)
        BY <2>10, <2>11, <2>13, <2>14, <3>2
      <4>2. b # Null /\ b # mem[w]._data
        BY <2>7, <4>1 DEF B!unique
      <4>3. Padded(s0, t, c)
        BY <2>9, <2>10, <4>1, <4>2 DEF Padded, Keeps
      <4>4. b \in 1..3
        BY <2>9, <4>1, <4>2 DEF Strings
      <4> QED
        BY <4>2, <4>3, <4>4
    <3> QED
      BY <3>1, <3>2
  <2>16. PICK y \in Seq(Byte) : y = SubSeq(t, 1, pos) \o x \o SubSeq(t, pos + 1, Len(t)) /\ IsSpliced(y, t, pos, x)
    <3>1. pos \in 0..Len(t)
      BY <2>1, <2>8
    <3> QED
      BY <3>1, SeqSpliced
  <2>17. PICK d : d = Len(t) - pos
    OBVIOUS
  <2>18. PICK s2 : s2 = Written(s0, Len(t), pos, x, d)
    OBVIOUS
  <2>19. s2 = new
    BY <2>8, <2>13, <2>17, <2>18 DEF Written
  <2>20. Padded(s2, y, c)
    <3>1. d \in {0, Len(x)} /\ pos \in 0..Len(t)
      BY <2>1, <2>6, <2>8, <2>17
    <3> QED
      BY <2>12, <2>15, <2>16, <2>17, <2>18, <3>1, BytesSpliced
  <2>21. PICK n : n = Len(t) + Len(x)
    OBVIOUS
  <2>22. n \in Nat /\ n = Len(y) /\ n <= c
    <3>1. Len(y) = Len(t) + Len(x)
      BY <2>16 DEF IsSpliced
    <3>2. Len(t) + Len(x) \in Nat /\ Len(t) + Len(x) <= c
      BY <2>12
    <3> QED
      BY <2>21, <3>1, <3>2
  <2>23. B!Hold(a, b, s2, n, c) /\ ref' = [ref EXCEPT ![a] = y]
    BY <2>4, <2>5, <2>8, <2>11, <2>14, <2>16, <2>19, <2>21
  <2>24. Keeps([_data |-> b, _size |-> n, _capacity |-> c], s2, y)
    <3>1. b # Null
      BY <2>15, NullApart
    <3> QED
      BY <2>20, <2>22, <3>1 DEF Keeps, Padded
  <2>25. ~ub'
    <3>1. ~ (size + behind > capacity)
      BY <2>1, <2>6, <2>8, <2>11, <2>12
    <3> QED
      BY <2>3, <2>6, <3>1, Zenon
  <2>26. /\ BytesInv /\ ~stale /\ w # a /\ (b = mem[w]._data /\ b # Null => s2 = heap[b])
         /\ B!Hold(a, b, s2, n, c) /\ Keeps([_data |-> b, _size |-> n, _capacity |-> c], s2, y)
         /\ ref' = [ref EXCEPT ![a] = y] /\ ~stale' /\ ~ub'
         /\ w \in {1, 2} /\ b \in 1..3 \cup {Null} /\ n \in Nat /\ c \in Nat /\ y \in Seq(Byte)
    BY <1>1, <2>1, <2>7, <2>12, <2>15, <2>16, <2>22, <2>23, <2>24, <2>25
  <2> QED
    BY <2>26, BytesHeld, ZenonT(60)
<1> QED
  BY <1>0, <1>1

\* reomveElement.
LEMMA BytesRemoves ==
  ASSUME BytesInv, NEW a \in {1, 2}, NEW pos \in Nat, NEW num \in Nat, B!reomveElement(a, pos, num)
  PROVE  BytesInv'
<1>0. CASE stale'
  BY <1>0 DEF BytesInv
<1>1. CASE ~stale'
  <2> DEFINE size == mem[a]._size
             len == IF size - pos < num THEN size - pos ELSE num
             left == SubSeq(B!Text(a), 1, pos) \o SubSeq(B!Text(a), pos + len + 1, size)
  <2>1. ~stale /\ pos <= size
    BY DEF B!reomveElement, B!Callable
  <2>2. ub' = stale'
    BY DEF B!reomveElement
  <2>3. B!Hold(a, IF B!unique(a) THEN mem[a]._data ELSE B!Fresh, B!Zeroed(left, mem[a]._capacity),
               Len(left), mem[a]._capacity)
    BY DEF B!reomveElement
  <2>4. ref' = [ref EXCEPT ![a] = SubSeq(ref[a], 1, pos) \o SubSeq(ref[a], pos + num + 1, Len(ref[a]))]
    BY DEF B!reomveElement
  <2>5. PICK w \in {1, 2} : w # a
    OBVIOUS
  <2>6. PICK t \in Seq(Byte) : t = ref[a] /\ size = Len(t) /\ B!Text(a) = t
    BY <2>1, TextIs
  <2>7. /\ mem[a] \in Strings /\ mem[w] \in Strings /\ Keeps(mem[a], heap[mem[a]._data], t)
        /\ DOMAIN heap = {mem[a]._data, mem[w]._data} \ {Null}
    BY <2>1, <2>5, <2>6, BytesParts
  <2>8. PICK c \in Nat : c = mem[a]._capacity /\ Len(t) <= c
    BY <2>6, <2>7 DEF Strings, Keeps
  <2>9. PICK d \in Nat : d = len /\ pos + d <= Len(t) /\ d = IF pos + num > Len(t) THEN Len(t) - pos ELSE num
    <3>1. Len(t) \in Nat /\ size = Len(t) /\ pos <= Len(t)
      BY <2>1, <2>6
    <3>2. PICK e : e = len
      OBVIOUS
    <3>3. e = IF Len(t) - pos < num THEN Len(t) - pos ELSE num
      BY <3>1, <3>2
    <3> HIDE DEF len
    <3>4. e \in Nat /\ pos + e <= Len(t) /\ e = IF pos + num > Len(t) THEN Len(t) - pos ELSE num
      BY <3>1, <3>3
    <3> QED
      BY <3>2, <3>4
  <2>10. PICK y \in Seq(Byte) : y = SubSeq(t, 1, pos) \o SubSeq(t, pos + d + 1, Len(t)) /\ IsCut(y, t, pos, d)
    <3>1. pos \in 0..Len(t)
      BY <2>1, <2>6
    <3> QED
      BY <2>9, <3>1, SeqCut
  <2>11. PICK z \in Seq(Byte) : z = SubSeq(t, 1, pos) \o SubSeq(t, pos + num + 1, Len(t)) /\ IsCut(z, t, pos, d)
    <3>1. pos \in 0..Len(t)
      BY <2>1, <2>6
    <3> QED
      BY <2>9, <3>1, SeqCutShort
  <2>12. y = z
    <3>1. Len(y) = Len(z) /\ \A j \in 1..Len(y) : y[j] = z[j]
      BY <2>10, <2>11 DEF IsCut
    <3> QED
      BY <3>1, SeqEqual
  <2>13. PICK n \in Nat : n = Len(y) /\ n <= c
    <3>1. Len(y) = Len(t) - d
      BY <2>10 DEF IsCut
    <3>2. Len(y) \in Nat /\ Len(t) \in Nat
      OBVIOUS
    <3>4. Len(t) <= c /\ pos + d <= Len(t)
      BY <2>8, <2>9
    <3>3. Len(y) <= c
      BY <3>1, <3>2, <3>4
    <3> QED
      BY <3>2, <3>3
  <2>14. PICK b : b = IF B!unique(a) THEN mem[a]._data ELSE B!Fresh
    OBVIOUS
  <2>15. b \in 1..3 /\ b # mem[w]._data
    <3>1. CASE B!unique(a)
      <4>1. b = mem[a]._data /\ b # Null /\ b # mem[w]._data
        BY <2>5, <2>14, <3>1 DEF B!unique
      <4> QED
        BY <2>7, <4>1 DEF Strings
    <3>2. CASE ~B!unique(a)
      BY <2>1, <2>5, <2>14, <3>2, FreshBuffer
    <3> QED
      BY <3>1, <3>2
  <2>16. PICK s : s = B!Zeroed(y, c)
    OBVIOUS
  <2>17. B!Hold(a, b, s, n, c) /\ ref' = [ref EXCEPT ![a] = y]
    BY <2>3, <2>4, <2>6, <2>8, <2>9, <2>10, <2>11, <2>12, <2>13, <2>14, <2>16
  <2>18. ~ub'
    BY <1>1, <2>2
  <2>19. /\ BytesInv /\ ~stale /\ w # a /\ b # mem[w]._data /\ n = Len(y) /\ n <= c
         /\ s = B!Zeroed(y, c) /\ B!Hold(a, b, s, n, c)
         /\ ref' = [ref EXCEPT ![a] = y] /\ ~stale' /\ ~ub'
         /\ w \in {1, 2} /\ b \in 1..3 /\ n \in Nat /\ c \in Nat /\ y \in Seq(Byte)
    BY <1>1, <2>1, <2>5, <2>8, <2>10, <2>13, <2>15, <2>16, <2>17, <2>18
  <2> QED
    BY <2>19, BytesZeroed, ZenonT(60)
<1> QED
  BY <1>0, <1>1

\* operator[] writes into a buffer of its own.
LEMMA BytesWrites ==
  ASSUME BytesInv, NEW a \in {1, 2}, NEW pos \in Nat, NEW x \in Byte, B!write(a, pos, x)
  PROVE  BytesInv'
<1>0. CASE stale'
  BY <1>0 DEF BytesInv
<1>1. CASE ~stale'
  <2>1. /\ ~stale /\ ~ub /\ pos < mem[a]._size /\ stale' = ~B!unique(a) /\ ub' = ub /\ mem' = mem
        /\ heap' = [heap EXCEPT ![mem[a]._data] = [heap[mem[a]._data] EXCEPT ![pos + 1] = x]]
        /\ ref' = [ref EXCEPT ![a] = [ref[a] EXCEPT ![pos + 1] = x]]
    BY DEF B!write, B!Callable
  <2>2. PICK w \in {1, 2} : w # a
    OBVIOUS
  <2>3. B!unique(a)
    BY <1>1, <2>1, Zenon
  <2>4. mem[a]._data # Null /\ mem[a]._data # mem[w]._data
    BY <2>2, <2>3 DEF B!unique
  <2>23. PICK b, s : b = mem[a]._data /\ s = heap[b]
    OBVIOUS
  <2>24. PICK t \in Seq(Byte) : t = ref[a]
    BY <2>1, <2>2, BytesParts
  <2>5. t = ref[a] /\ b = mem[a]._data /\ s = heap[b] /\ t \in Seq(Byte)
    BY <2>23, <2>24
  <2>6. /\ mem[a] \in Strings /\ mem[w] \in Strings /\ Keeps(mem[a], s, t)
        /\ DOMAIN heap = {mem[a]._data, mem[w]._data} \ {Null}
        /\ mem \in [{1, 2} -> Strings]
    BY <2>1, <2>2, <2>5, BytesParts
  <2>7. PICK c \in Nat : c = mem[a]._capacity /\ mem[a]._size = Len(t) /\ Len(t) <= c
    BY <2>6 DEF Strings, Keeps
  <2>8. s \in Seq(Byte) /\ Len(s) = c /\ \A j \in 1..c : s[j] = IF j <= Len(t) THEN t[j] ELSE 0
    BY <2>4, <2>5, <2>6, <2>7 DEF Keeps
  <2>9. PICK q : q = pos + 1
    OBVIOUS
  <2>10. q \in 1..Len(t) /\ q \in 1..c
    BY <2>1, <2>7, <2>9
  <2>11. PICK t2 : t2 = [t EXCEPT ![q] = x]
    OBVIOUS
  <2>12. PICK s2 : s2 = [s EXCEPT ![q] = x]
    OBVIOUS
  <2>13. t2 \in Seq(Byte) /\ Len(t2) = Len(t) /\ \A j \in 1..Len(t) : t2[j] = IF j = q THEN x ELSE t[j]
    BY <2>10, <2>11
  <2>14. s2 \in Seq(Byte) /\ Len(s2) = c /\ \A j \in 1..c : s2[j] = IF j = q THEN x ELSE s[j]
    BY <2>8, <2>10, <2>12
  <2>15. \A j \in 1..c : s2[j] = IF j <= Len(t2) THEN t2[j] ELSE 0
    BY <2>8, <2>10, <2>13, <2>14
  <2>16. PICK o : o = mem[a]
    OBVIOUS
  <2>17. o \in Strings /\ o._data = b /\ Keeps(o, s2, t2)
    BY <2>4, <2>5, <2>6, <2>7, <2>13, <2>14, <2>15, <2>16 DEF Keeps
  <2>18. heap' = [heap EXCEPT ![b] = s2] /\ b \in DOMAIN heap
    BY <2>1, <2>4, <2>5, <2>6, <2>9, <2>12
  <2>19. /\ DOMAIN heap' = {o._data, mem[w]._data} \ {Null}
         /\ (o._data # Null => heap'[o._data] = s2)
         /\ (mem[w]._data # Null => heap'[mem[w]._data] = heap[mem[w]._data])
    BY <2>4, <2>5, <2>6, <2>17, <2>18
  <2>20. mem' = [mem EXCEPT ![a] = o] /\ ref' = [ref EXCEPT ![a] = t2]
    BY <2>1, <2>5, <2>6, <2>9, <2>11, <2>16
  <2>21. ~ub'
    BY <2>1
  <2>22. /\ BytesInv /\ ~stale /\ w # a /\ o \in Strings /\ t2 \in Seq(Byte) /\ w \in {1, 2}
         /\ mem' = [mem EXCEPT ![a] = o] /\ ref' = [ref EXCEPT ![a] = t2]
         /\ DOMAIN heap' = {o._data, mem[w]._data} \ {Null}
         /\ (o._data # Null => heap'[o._data] = s2)
         /\ (mem[w]._data # Null => heap'[mem[w]._data] = heap[mem[w]._data])
         /\ Keeps(o, s2, t2) /\ ~stale' /\ ~ub'
    BY <1>1, <2>1, <2>2, <2>13, <2>17, <2>19, <2>20, <2>21
  <2> QED
    BY <2>22, BytesChanged, ZenonT(60)
<1> QED
  BY <1>0, <1>1

\* Two arrays take part.
LEMMA TwoStrings == B!Cardinality({1, 2}) = 2
<1>1. Cardinality({1}) = 1 /\ IsFiniteSet({1})
  BY FS_Singleton
<1>2. Cardinality({1} \cup {2}) = Cardinality({1}) + 1
  BY <1>1, FS_AddElement
<1>3. Cardinality({1, 2}) = 2
  BY <1>1, <1>2
<1> QED
  BY <1>3 DEF B!Cardinality, Cardinality

\* The first state of the byte arrays.
LEMMA BytesStarts ==
  ASSUME B!BytesInit
  PROVE  BytesInv
<1>1. PICK name : name = CHOOSE f \in [{1, 2} -> 1..2] : \A a, b \in {1, 2} : f[a] = f[b] => a = b
  OBVIOUS
<1>2. /\ mem = [a \in {1, 2} |-> [_data |-> name[a], _size |-> 0, _capacity |-> 2]]
      /\ heap = [b \in 1..2 |-> B!Zeroed(<<>>, 2)] /\ ref = [a \in {1, 2} |-> <<>>] /\ ub = FALSE
  BY <1>1, TwoStrings DEF B!BytesInit
<1>3. PICK e : e = [a \in {1, 2} |-> a]
  OBVIOUS
<1>4. e \in [{1, 2} -> 1..2] /\ \A a, b \in {1, 2} : e[a] = e[b] => a = b
  BY <1>3
<1>5. name \in [{1, 2} -> 1..2] /\ \A a, b \in {1, 2} : name[a] = name[b] => a = b
  BY <1>1, <1>4
<1>6. PICK z : z = B!Zeroed(<<>>, 2)
  OBVIOUS
<1>7. z \in Seq(Byte) /\ Len(z) = 2 /\ \A j \in 1..2 : z[j] = 0
  <2>1. <<>> \in Seq(Byte) /\ 2 \in Nat /\ Len(<<>>) = 0
    OBVIOUS
  <2>2. PICK t \in Seq(Byte), n \in Nat : t = <<>> /\ n = 2 /\ Len(t) = 0
    BY <2>1
  <2>3. z = B!Zeroed(t, n)
    BY <1>6, <2>2
  <2>4. z \in Seq(Byte) /\ Len(z) = n /\ \A j \in 1..n : z[j] = IF j <= Len(t) THEN t[j] ELSE 0
    BY <2>3, ZeroedBuffer
  <2> QED
    BY <2>2, <2>4
<1>8. Null \notin 1..3
  BY NullApart
<1>9. \A a \in {1, 2} : name[a] \in 1..2 /\ name[a] # Null /\ name[a] \in 1..3
  BY <1>5, <1>8
<1>10. \A a \in {1, 2} : mem[a] = [_data |-> name[a], _size |-> 0, _capacity |-> 2]
  BY <1>2
<1>11. mem \in [{1, 2} -> Strings]
  <2>1. \A a \in {1, 2} : [_data |-> name[a], _size |-> 0, _capacity |-> 2] \in Strings
    BY <1>9 DEF Strings
  <2> QED
    BY <1>2, <2>1
<1>12. ref \in [{1, 2} -> Seq(Byte)] /\ \A a \in {1, 2} : ref[a] = <<>>
  <2>1. <<>> \in Seq(Byte)
    OBVIOUS
  <2> QED
    BY <1>2, <2>1
<1>13. \A b \in 1..2 : heap[b] = z
  BY <1>2, <1>6
<1>14. DOMAIN heap = {mem[1]._data, mem[2]._data} \ {Null}
  <2>1. {name[1], name[2]} = 1..2
    <3>1. name[1] \in 1..2 /\ name[2] \in 1..2 /\ name[1] # name[2]
      BY <1>5
    <3> QED
      BY <3>1
  <2>2. mem[1]._data = name[1] /\ mem[2]._data = name[2]
    BY <1>10
  <2> QED
    BY <1>2, <1>8, <2>1, <2>2
<1>15. ASSUME NEW a \in {1, 2} PROVE Keeps(mem[a], heap[mem[a]._data], ref[a])
  <2>1. PICK o : o = mem[a]
    OBVIOUS
  <2>2. o._data = name[a] /\ o._size = 0 /\ o._capacity = 2 /\ heap[o._data] = z
    BY <1>9, <1>10, <1>13, <2>1
  <2>3. Len(<<>>) = 0 /\ ref[a] = <<>>
    BY <1>12
  <2>4. Keeps(o, z, <<>>)
    BY <1>7, <1>9, <2>2, <2>3 DEF Keeps
  <2> QED
    BY <2>1, <2>2, <2>3, <2>4
<1>16. BytesSound(mem, heap, ref)
  BY <1>11, <1>12, <1>14, <1>15 DEF BytesSound
<1> QED
  BY <1>2, <1>16 DEF BytesInv

Samples == {<< 1 >>, << 1, 0 >>, << 0, 1 >>}

\* The texts the calls pass are sequences of bytes.
LEMMA TextsAreStrings == \A t \in Samples : t \in Seq(Byte)
<1>1. << 1 >> \in Seq(Byte)
  BY DEF Byte
<1>2. << 1, 0 >> \in Seq(Byte)
  BY DEF Byte
<1>3. << 0, 1 >> \in Seq(Byte)
  BY DEF Byte
<1> QED
  BY <1>1, <1>2, <1>3 DEF Samples

\* Every call of the byte arrays.
LEMMA BytesGoesOn ==
  ASSUME BytesInv, B!BytesNext
  PROVE  BytesInv'
<1>1. PICK a \in {1, 2} :
        \/ \E t \in Samples : B!fromString(a, t) \/ B!fromBytes(a, t)
        \/ \E b \in {1, 2} : B!assign(a, b) \/ B!move(a, b) \/ B!appendArray(a, b)
        \/ \E t \in Samples : B!append(a, t) \/ B!prepend(a, t)
        \/ \E t \in Samples, pos \in 0..(MaxSize - 1) : B!insert(a, pos, t) \/ B!search(a, t, pos)
        \/ \E pos, from, len \in 0..(MaxSize - 1) : B!insertPart(a, pos, from, len)
        \/ \E pos, len \in 0..(MaxSize - 1) : B!reomveElement(a, pos, len)
        \/ B!detach(a) \/ B!squeeze(a) \/ B!clear(a) \/ (\E n \in 0..1 : B!reserve(a, n))
        \/ \E pos \in 0..(MaxSize - 1), e \in Byte : B!write(a, pos, e)
  BY DEF B!BytesNext, Byte, Samples
<1>2. \A t \in Samples : t \in Seq(Byte)
  BY TextsAreStrings
<1>3. 0..(MaxSize - 1) \subseteq Nat
  BY Bounds
<1>4. ASSUME NEW t \in Samples, B!fromString(a, t) \/ B!fromBytes(a, t) PROVE BytesInv'
  <2>1. PICK n \in Nat : B!construct(a, t, n)
    <3>1. 0 \in Nat /\ 1 \in Nat
      OBVIOUS
    <3> QED
      BY <1>4, <3>1 DEF B!fromString, B!fromBytes
  <2> QED
    BY <1>2, <2>1, BytesConstructs
<1>5. ASSUME ~stale PROVE \A b \in {1, 2} : mem[b]._size \in Nat /\ B!Text(b) \in Seq(Byte)
  <2>1. ASSUME NEW b \in {1, 2} PROVE mem[b]._size \in Nat /\ B!Text(b) \in Seq(Byte)
    <3>1. B!Text(b) = ref[b] /\ mem[b]._size = Len(ref[b]) /\ ref[b] \in Seq(Byte)
      BY <1>5, TextIs
    <3>2. Len(ref[b]) \in Nat
      BY <3>1
    <3> QED
      BY <3>1, <3>2
  <2> QED
    BY <2>1
<1>6. ASSUME NEW t \in Seq(Byte), NEW pos \in Nat, B!insert(a, pos, t) PROVE BytesInv'
  <2>1. -1 \in Int /\ B!insertElement(a, pos, t, -1)
    BY <1>6 DEF B!insert
  <2> QED
    BY <2>1, BytesInserts
<1>7. ASSUME NEW t \in Samples, B!append(a, t) \/ B!prepend(a, t) PROVE BytesInv'
  <2>1. ~stale
    BY <1>7 DEF B!append, B!prepend, B!insert, B!insertElement, B!Callable
  <2>2. PICK pos \in Nat : B!insert(a, pos, t)
    <3>1. mem[a]._size \in Nat /\ 0 \in Nat
      BY <1>5, <2>1
    <3> QED
      BY <1>7, <3>1 DEF B!append, B!prepend
  <2> QED
    BY <1>2, <1>6, <2>2
<1>8. ASSUME NEW b \in {1, 2}, B!appendArray(a, b) PROVE BytesInv'
  <2>1. ~stale
    BY <1>8 DEF B!appendArray, B!insertElement, B!Callable
  <2>2. PICK pos \in Nat : pos = mem[a]._size
    BY <1>5, <2>1
  <2>3. PICK t \in Seq(Byte) : t = B!Text(b)
    BY <1>5, <2>1
  <2>4. PICK from \in Int : from = IF a = b THEN 0 ELSE -1
    OBVIOUS
  <2>5. B!insertElement(a, pos, t, from)
    BY <1>8, <2>2, <2>3, <2>4 DEF B!appendArray
  <2> QED
    BY <2>5, BytesInserts
<1>9. ASSUME NEW pos \in 0..(MaxSize - 1), NEW len \in 0..(MaxSize - 1), B!reomveElement(a, pos, len)
      PROVE  BytesInv'
  BY <1>3, <1>9, BytesRemoves
<1>10. ASSUME NEW pos \in 0..(MaxSize - 1), NEW e \in Byte, B!write(a, pos, e)
       PROVE  BytesInv'
  BY <1>3, <1>10, BytesWrites
<1>11. ASSUME B!detach(a) \/ B!squeeze(a) \/ B!clear(a) \/ (\E n \in 0..1 : B!reserve(a, n)) PROVE BytesInv'
  BY <1>11, BytesResets
<1>12. ASSUME NEW b \in {1, 2}, B!assign(a, b) \/ B!move(a, b) PROVE BytesInv'
  BY <1>12, BytesAssigns, BytesMoves
<1>13. ASSUME NEW t, NEW pos, B!search(a, t, pos) PROVE BytesInv'
  BY <1>13 DEF B!search, B!Callable, BytesInv
<1>14. ASSUME NEW pos \in 0..(MaxSize - 1), NEW from \in 0..(MaxSize - 1), NEW len \in 0..(MaxSize - 1),
              B!insertPart(a, pos, from, len)
       PROVE  BytesInv'
  <2>1. PICK p \in Nat, f \in Nat, l \in Nat : p = pos /\ f = from /\ l = len
    BY <1>3
  <2>2. f + l <= mem[a]._size /\ B!insertElement(a, p, SubSeq(B!Text(a), f + 1, f + l), f) /\ ~stale
    BY <1>14, <2>1 DEF B!insertPart, B!insertElement, B!Callable
  <2>3. PICK t \in Seq(Byte) : t = B!Text(a) /\ mem[a]._size = Len(t)
    BY <2>2, TextIs
  <2>4. f + 1 \in 1..(Len(t) + 1) /\ f + l \in (f + 1 - 1)..Len(t)
    BY <2>2, <2>3
  <2>5. PICK x \in Seq(Byte) : x = SubSeq(t, f + 1, f + l)
    <3>1. SubSeq(t, f + 1, f + l) \in Seq(Byte)
      BY <2>4, PartOf
    <3> QED
      BY <3>1
  <2>6. B!insertElement(a, p, x, f) /\ f \in Int
    BY <2>2, <2>3, <2>5
  <2> QED
    BY <2>6, BytesInserts
<1> QED
  BY <1>1, <1>2, <1>3, <1>4, <1>6, <1>7, <1>8, <1>9, <1>10, <1>11, <1>12, <1>13, <1>14, Zenon

\* Behind the size of a string with a byte to spare is a 0: a text without one
\* in front of its last byte differs from it there.
LEMMA BytesOwned ==
  ASSUME BytesInv
  PROVE  B!BuffersOwned
<1>1. SUFFICES ASSUME ~stale
      PROVE  /\ ~ub
             /\ DOMAIN heap = {mem[a]._data : a \in {1, 2}} \ {Null}
             /\ \A a \in {1, 2} : mem[a]._data # Null =>
                  /\ Len(heap[mem[a]._data]) = mem[a]._capacity
                  /\ \A j \in mem[a]._size + 1 .. mem[a]._capacity : heap[mem[a]._data][j] = 0
                  /\ \A t \in Samples, start \in 0..mem[a]._size :
                       B!overreads(a, t, start) /\ (\A q \in 1..(Len(t) - 1) : t[q] # 0)
                         => mem[a]._size = mem[a]._capacity
  BY DEF B!BuffersOwned, Samples
<1>2. ~ub /\ BytesSound(mem, heap, ref)
  BY <1>1 DEF BytesInv
<1>3. DOMAIN heap = {mem[a]._data : a \in {1, 2}} \ {Null}
  <2>1. DOMAIN heap = {mem[1]._data, mem[2]._data} \ {Null}
    BY <1>2 DEF BytesSound
  <2> QED
    BY <2>1
<1>4. ASSUME NEW a \in {1, 2}, mem[a]._data # Null
      PROVE  /\ Len(heap[mem[a]._data]) = mem[a]._capacity
             /\ \A j \in mem[a]._size + 1 .. mem[a]._capacity : heap[mem[a]._data][j] = 0
             /\ \A t \in Samples, start \in 0..mem[a]._size :
                  B!overreads(a, t, start) /\ (\A q \in 1..(Len(t) - 1) : t[q] # 0)
                    => mem[a]._size = mem[a]._capacity
  <2>1. PICK s : s = heap[mem[a]._data]
    OBVIOUS
  <2>2. PICK x \in Seq(Byte) : x = ref[a]
    BY <1>2 DEF BytesSound
  <2>3. mem[a] \in Strings /\ Keeps(mem[a], s, x)
    BY <1>2, <2>1, <2>2 DEF BytesSound
  <2>4. PICK n \in Nat, c \in Nat : n = mem[a]._size /\ c = mem[a]._capacity
    BY <2>3 DEF Strings
  <2>5. /\ n = Len(x) /\ n <= c /\ s \in Seq(Byte) /\ Len(s) = c
        /\ \A j \in 1..c : s[j] = IF j <= n THEN x[j] ELSE 0
    BY <1>4, <2>3, <2>4 DEF Keeps
  <2>6. \A j \in n + 1 .. c : s[j] = 0
    BY <2>5
  <2>7. ASSUME NEW t \in Samples, NEW start \in 0..n, B!overreads(a, t, start),
               \A q \in 1..(Len(t) - 1) : t[q] # 0, n # c
        PROVE  FALSE
    <3>0. PICK j \in start..(n - 1) : Len(SubSeq(s, j + 1, c)) < Len(t) /\ B!IsPrefix(SubSeq(s, j + 1, c), t)
      BY <2>1, <2>4, <2>7 DEF B!overreads
    <3>1. j \in 0..(n - 1)
      OBVIOUS
    <3>2. PICK u : u = SubSeq(s, j + 1, c) /\ Len(u) < Len(t)
      BY <3>0
    <3>3. j + 1 \in 1..(Len(s) + 1) /\ c \in (j + 1 - 1)..Len(s)
      BY <2>5, <3>1
    <3>4. u \in Seq(Byte) /\ Len(u) = c - (j + 1) + 1 /\ \A q \in 1..(c - (j + 1) + 1) : u[q] = s[j + 1 + q - 1]
      BY <2>5, <3>2, <3>3, PartOf
    <3>5. PICK e \in Nat : e = c - j /\ e # 0
      BY <2>5, <3>1
    <3>6. Len(u) = e /\ u[e] = 0
      <4>1. e \in 1..(c - (j + 1) + 1) /\ j + 1 + e - 1 = c /\ c \in n + 1 .. c
        BY <2>5, <2>7, <3>1, <3>5
      <4> QED
        BY <2>6, <3>4, <3>5, <4>1
    <3>7. t \in Seq(Byte) /\ Len(u) <= Len(t) /\ SubSeq(u, 1, Len(u)) = SubSeq(t, 1, Len(u))
      <4>1. B!IsPrefix(u, t)
        BY <3>0, <3>2
      <4> QED
        BY <4>1, TextsAreStrings DEF B!IsPrefix
    <3>8. e \in 1..Len(u) /\ e \in 1..Len(t) /\ e \in 1..(Len(t) - 1)
      BY <3>2, <3>5, <3>6, <3>7
    <3>9. SubSeq(u, 1, e)[e] = u[e]
      BY <3>4, <3>8
    <3>10. SubSeq(t, 1, e)[e] = t[e]
      BY <3>7, <3>8
    <3>11. t[e] # 0
      BY <2>7, <3>8
    <3>12. SubSeq(u, 1, e) = SubSeq(t, 1, e)
      BY <3>6, <3>7
    <3>13. u[e] = t[e]
      BY <3>9, <3>10, <3>12, Zenon
    <3> QED
      BY <3>6, <3>11, <3>13
  <2> QED
    BY <2>1, <2>4, <2>5, <2>6, <2>7
<1> QED
  BY <1>2, <1>3, <1>4

=============================================================================
