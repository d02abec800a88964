------------------------------- MODULE SpinLock -------------------------------
(***************************************************************************)
(* SpinLock of Data Structure/DataStructure/SpinLock.hpp under the test    *)
(* that main() of DataStructure.cpp makes of it: several threads increment *)
(* one int inside the lock, main joins them and prints the sum.            *)
(*                                                                         *)
(* The exchange of m_state has acquire and the store release semantics, so *)
(* what a thread writes inside the lock is visible to the next one that    *)
(* enters it; the increment is still a read and a write.  yield() changes  *)
(* nothing but the schedule.                                               *)
(***************************************************************************)
EXTENDS Integers, FiniteSets

CONSTANTS ThreadCount, \* threads main starts (8)
          Rounds,      \* increments of every thread (100000)
          m_count      \* attempts before yield() (30)

ASSUME SpinLockAssumption ==
  ThreadCount \in Nat /\ Rounds \in Nat /\ m_count \in Nat \ {0}

VARIABLES
  m_state,  \* the lock
  pc,       \* pc[t]: "new", "loop", "lock", "read", "write", "unlock", "done"
  count,    \* count[t]: the local variable of lock()
  i,        \* i[t]: rounds thread t has finished
  reg,      \* reg[t]: the value of sum that thread t has read
  sum,      \* the variable the threads increment
  main,     \* "start", "join" or "printed"
  k         \* main's loop counter

vars == <<m_state, pc, count, i, reg, sum, main, k>>
Threads == 1..ThreadCount

Init ==
  /\ m_state = FALSE
  /\ pc = [t \in Threads |-> "new"]
  /\ count = [t \in Threads |-> 0]
  /\ i = [t \in Threads |-> 0]
  /\ reg = [t \in Threads |-> 0]
  /\ sum = 0
  /\ main = "start" /\ k = 0

Goto(t, from, to) == pc[t] = from /\ pc' = [pc EXCEPT ![t] = to]

\* The for loop of add().
Loop(t) ==
  /\ Goto(t, "loop", IF i[t] < Rounds THEN "lock" ELSE "done")
  /\ count' = [count EXCEPT ![t] = 0]
  /\ UNCHANGED <<m_state, i, reg, sum, main, k>>

\* Mutant: value keeps what a failed exchange has stored in it.
AcquireStale(t) ==
  /\ m_state = (count[t] > 0)
  /\ m_state' = TRUE
  /\ Goto(t, "lock", "read")
  /\ UNCHANGED <<count, i, reg, sum, main, k>>

\* compare_exchange_strong finds false and stores true.
Acquire(t) ==
  /\ ~m_state
  /\ m_state' = TRUE
  /\ Goto(t, "lock", "read")
  /\ UNCHANGED <<count, i, reg, sum, main, k>>

\* compare_exchange_strong finds true; every m_count attempts yield() is called.
Spin(t) ==
  /\ pc[t] = "lock"
  /\ m_state
  /\ count' = [count EXCEPT ![t] = IF @ + 1 >= m_count THEN 0 ELSE @ + 1]
  /\ UNCHANGED <<m_state, pc, i, reg, sum, main, k>>

Read(t) ==
  /\ Goto(t, "read", "write")
  /\ reg' = [reg EXCEPT ![t] = sum]
  /\ UNCHANGED <<m_state, count, i, sum, main, k>>

Write(t) ==
  /\ Goto(t, "write", "unlock")
  /\ sum' = reg[t] + 1
  /\ UNCHANGED <<m_state, count, i, reg, main, k>>

\* Mutant: the lock is not released.
UnlockForgotten(t) ==
  /\ Goto(t, "unlock", "loop")
  /\ i' = [i EXCEPT ![t] = @ + 1]
  /\ UNCHANGED <<m_state, count, reg, sum, main, k>>

Unlock(t) ==
  /\ Goto(t, "unlock", "loop")
  /\ m_state' = FALSE
  /\ i' = [i EXCEPT ![t] = @ + 1]
  /\ UNCHANGED <<count, reg, sum, main, k>>

Thread(t) ==
  Loop(t) \/ Acquire(t) \/ Spin(t) \/ Read(t) \/ Write(t) \/ Unlock(t)

\* The loop of main that constructs the threads.
Start ==
  /\ main = "start" /\ k < ThreadCount
  /\ k' = k + 1
  /\ Goto(k + 1, "new", "loop")
  /\ UNCHANGED <<m_state, count, i, reg, sum, main>>

Started ==
  /\ main = "start" /\ k = ThreadCount
  /\ main' = "join" /\ k' = 0
  /\ UNCHANGED <<m_state, pc, count, i, reg, sum>>

\* Mutant: main does not wait for the thread.
Detach ==
  /\ main = "join" /\ k < ThreadCount
  /\ k' = k + 1
  /\ UNCHANGED <<m_state, pc, count, i, reg, sum, main>>

\* The loop of main that joins the threads in order.
Join ==
  /\ main = "join" /\ k < ThreadCount
  /\ pc[k + 1] = "done"
  /\ k' = k + 1
  /\ UNCHANGED <<m_state, pc, count, i, reg, sum, main>>

PrintSum ==
  /\ main = "join" /\ k = ThreadCount
  /\ main' = "printed"
  /\ UNCHANGED <<m_state, pc, count, i, reg, sum, k>>

Main == Start \/ Started \/ Join \/ PrintSum

Next == Main \/ \E t \in Threads : Thread(t)

Spec == Init /\ [][Next]_vars

\* The scheduler runs every thread again and again.
FairSpec == Spec /\ WF_vars(Main) /\ \A t \in Threads : WF_vars(Thread(t))

------------------------------------------------------------------------------
Inside == {"read", "write", "unlock"}

\* Every variable has its type.
TypeOK ==
  /\ m_state \in BOOLEAN
  /\ pc \in [Threads -> {"new", "loop", "lock", "done"} \cup Inside]
  /\ count \in [Threads -> 0..(m_count - 1)]
  /\ i \in [Threads -> 0..Rounds]
  /\ reg \in [Threads -> Nat]
  /\ sum \in Nat
  /\ main \in {"start", "join", "printed"}
  /\ k \in 0..ThreadCount

\* At most one thread is between lock() and unlock(), and m_state says whether
\* there is one.
MutualExclusion ==
  /\ \A s, t \in Threads : pc[s] \in Inside /\ pc[t] \in Inside => s = t
  /\ m_state <=> \E t \in Threads : pc[t] \in Inside

\* The increments carried out so far, as pairs of a thread and a round.
Increments ==
  {p \in Threads \X (1..Rounds) :
     p[2] <= i[p[1]] \/ (p[2] = i[p[1]] + 1 /\ pc[p[1]] = "unlock")}

\* No increment is lost: sum is the number of increments carried out.
NoLostIncrement == sum = Cardinality(Increments)

\* main prints the number of all increments.
PrintsExactSum == main = "printed" => sum = ThreadCount * Rounds

\* main prints: although lock() may fail again and again, every thread gets the
\* lock in the end, because the others make a bounded number of rounds.
MainPrints == <>(main = "printed")
==============================================================================
