--------------------------- MODULE ThreadPoolProofs ---------------------------
(***************************************************************************)
(* Proofs about ThreadPool for any number of workers, clients and tasks,   *)
(* and about the demo program that uses it: it prints the sum of all its   *)
(* tasks, up to the tasks whose uninitialised flag looked set.             *)
(***************************************************************************)
EXTENDS AddTaskMain, SequenceTheorems, FiniteSetTheorems, TLAPS

\* A worker has a task in its hands exactly between the pop and the return of
\* the task's doRun.
HoldsTask == \A w \in Workers : taskPtr[w] # NoTask <=> wpc[w] \in {"unlock", "run"}

\* While the constructor runs, the workers it has not created yet do nothing.
Unborn == opc = "construct" => \A w \in Workers : w > idx => wpc[w] = "unborn"

TypeInv == TypeOK /\ HoldsTask /\ Unborn

LEMMA VectorsAreSequences == \A v \in Vectors : v \in Seq(Tasks)
  BY BoundsAssumption DEF Vectors

\* The type invariant holds initially.
LEMMA TypeInit == Init => TypeInv
<1> SUFFICES ASSUME Init PROVE TypeInv
  OBVIOUS
<1>1. 0 \in 0..threadCount /\ 0 \in 0..MaxEmpty /\ 0 \in 0..MaxSpurious
  BY ThreadCountAssumption, BoundsAssumption
<1>2. TypeOK
  <2>1. <<>> \in Seq(Tasks)
    OBVIOUS
  <2>2. /\ wpc \in [Workers -> WorkerPC]
        /\ taskPtr \in [Workers -> Tasks \cup {NoTask}]
        /\ cpc \in [Clients -> ClientPC]
        /\ batch \in [Clients -> Seq(Tasks)]
        /\ notifyAll \in [Clients -> BOOLEAN]
    BY <2>1 DEF Init, WorkerPC, ClientPC
  <2> QED
    BY <1>1, <2>1, <2>2 DEF Init, TypeOK, OwnerPC
<1>3. HoldsTask /\ Unborn
  BY DEF Init, HoldsTask, Unborn
<1> QED
  BY <1>2, <1>3 DEF TypeInv

\* Every step preserves the type invariant.
LEMMA TypeStep == TypeInv /\ [Next]_vars => TypeInv'
<1> SUFFICES ASSUME TypeInv, [Next]_vars PROVE TypeInv'
  OBVIOUS
<1> USE DEF TypeInv, TypeOK, HoldsTask, Unborn, WorkerPC, ClientPC, OwnerPC, queueVars,
            workerVars, clientVars, ownerVars
<1>1. CASE SpawnWorker
  <2>1. idx + 1 \in Workers /\ idx + 1 \in 0..threadCount /\ idx \in Int
    BY <1>1, ThreadCountAssumption DEF SpawnWorker, Workers
  <2>2. \A w \in Workers : w > idx + 1 => w # idx + 1 /\ w > idx
    BY <2>1, ThreadCountAssumption DEF Workers
  <2>3. TypeOK'
    BY <1>1, <2>1 DEF SpawnWorker
  <2>4. wpc[idx + 1] = "unborn"
    BY <1>1, <2>1 DEF SpawnWorker
  <2>5. HoldsTask'
    BY <1>1, <2>1, <2>4 DEF SpawnWorker
  <2>6. Unborn'
    BY <1>1, <2>1, <2>2 DEF SpawnWorker
  <2> QED
    BY <2>3, <2>5, <2>6
<1>2. CASE Constructed
  BY <1>2, ThreadCountAssumption DEF Constructed
<1>3. CASE CloseLock
  BY <1>3 DEF CloseLock
<1>4. CASE CloseSwap
  BY <1>4, EmptySeq DEF CloseSwap, Wake, waiting
<1>5. CASE CloseUnlock
  BY <1>5 DEF CloseUnlock
<1>6. CASE Join
  BY <1>6, ThreadCountAssumption DEF Join
<1>7. CASE Closed
  BY <1>7 DEF Closed
<1>8. ASSUME NEW c \in Clients, NEW v \in Seq(Tasks), NEW all \in BOOLEAN,
             CallAddTask(c, v, all)
      PROVE  TypeInv'
  <2>1. Range(v) \subseteq Tasks
    BY RangeOfSeq
  <2> QED
    BY <1>8, <2>1, BoundsAssumption DEF CallAddTask
<1>9. ASSUME NEW c \in Clients, AddTask(c) \/ AddTasks(c) PROVE TypeInv'
  <2>1. \A t \in Tasks : <<t>> \in Seq(Tasks)
    OBVIOUS
  <2> QED
    BY <1>8, <1>9, <2>1, VectorsAreSequences DEF AddTask, AddTasks
<1>10. ASSUME NEW c \in Clients, ClientLock(c) PROVE TypeInv'
  BY <1>10 DEF ClientLock
<1>11. ASSUME NEW c \in Clients, ClientPush(c) PROVE TypeInv'
  <2>1. Head(batch[c]) \in Tasks /\ Tail(batch[c]) \in Seq(Tasks)
    BY <1>11, HeadTailProperties DEF ClientPush
  <2>2. tasks' \in Seq(Tasks) /\ accepted' \in Seq(Tasks)
    BY <1>11, <2>1, AppendProperties DEF ClientPush
  <2> QED
    BY <1>11, <2>1, <2>2 DEF ClientPush
<1>12. ASSUME NEW c \in Clients, ClientUnlock(c) PROVE TypeInv'
  BY <1>12 DEF ClientUnlock
<1>13. ASSUME NEW c \in Clients, ClientNotify(c) PROVE TypeInv'
  <2>1. PICK woken \in WokenSets(notifyAll[c]) : wpc' = Wake(woken)
    BY <1>13 DEF ClientNotify
  <2>2. woken \subseteq waiting
    BY DEF WokenSets
  <2> QED
    BY <1>13, <2>1, <2>2 DEF ClientNotify, Wake, waiting
<1>14. ASSUME NEW w \in Workers, WorkerLock(w) PROVE TypeInv'
  BY <1>14 DEF WorkerLock
<1>15. ASSUME NEW w \in Workers, WorkerWait(w) PROVE TypeInv'
  BY <1>15 DEF WorkerWait
<1>16. ASSUME NEW w \in Workers, SpuriousWakeup(w) PROVE TypeInv'
  BY <1>16, BoundsAssumption DEF SpuriousWakeup, Wake, waiting
<1>17. ASSUME NEW w \in Workers, WorkerExit(w) PROVE TypeInv'
  BY <1>17 DEF WorkerExit
<1>18. ASSUME NEW w \in Workers, WorkerTake(w) PROVE TypeInv'
  <2>1. Head(tasks) \in Tasks /\ Tail(tasks) \in Seq(Tasks)
    BY <1>18, HeadTailProperties DEF WorkerTake
  <2>2. handed' \in Seq(Tasks)
    BY <1>18, <2>1, AppendProperties DEF WorkerTake
  <2> QED
    BY <1>18, <2>1, <2>2, TasksAssumption DEF WorkerTake
<1>19. ASSUME NEW w \in Workers, WorkerUnlock(w) PROVE TypeInv'
  BY <1>19 DEF WorkerUnlock
<1>20. ASSUME NEW w \in Workers, WorkerRun(w) PROVE TypeInv'
  BY <1>20 DEF WorkerRun
<1>21. CASE UNCHANGED vars
  BY <1>21 DEF vars
<1> QED
  BY <1>1, <1>2, <1>3, <1>4, <1>5, <1>6, <1>7, <1>9, <1>10, <1>11, <1>12,
     <1>13, <1>14, <1>15, <1>16, <1>17, <1>18, <1>19, <1>20, <1>21
  DEF Next, Construct, Close, Client, Worker, Terminated

\* Every variable of the pool keeps its type in every behaviour, for any number
\* of workers, clients and tasks.
THEOREM TypeCorrect == Spec => []TypeOK
<1>1. Spec => []TypeInv
  BY TypeInit, TypeStep, PTL DEF Spec
<1> QED
  BY <1>1, PTL DEF TypeInv
------------------------------------------------------------------------------
(* Mutual exclusion and the life of the pool.                              *)

\* The code of a thread that runs under the mutex runs only while it holds it.
MutexInv ==
  /\ \A w \in Workers : wpc[w] \in {"test", "unlock"} <=> mutex = w
  /\ \A c \in Clients : cpc[c] = "push" <=> mutex = c
  /\ opc \in {"swap", "unlock"} <=> mutex = Owner

\* The flag, the queue and the joined workers agree with what the owner has
\* done so far.
LifeInv ==
  /\ flag <=> opc \in {"unlock", "join", "closed"}
  /\ flag => tasks = <<>>
  /\ ~flag => dropped = <<>>
  /\ opc # "open" => \A c \in Clients : cpc[c] = "idle"
  /\ opc \in {"open", "swap", "unlock"} => idx = 0
  /\ opc \in {"join", "closed"} =>
        \A w \in Workers : w <= idx => wpc[w] = "exited"
  /\ opc = "closed" => idx = threadCount

SafeInv == TypeInv /\ MutexInv /\ LifeInv

LEMMA SafeInit == Init => SafeInv
<1> SUFFICES ASSUME Init PROVE SafeInv
  OBVIOUS
<1>1. TypeInv
  BY TypeInit
<1>2. MutexInv
  BY ThreadsAssumption DEF Init, MutexInv
<1>3. LifeInv
  BY DEF Init, LifeInv
<1> QED
  BY <1>1, <1>2, <1>3 DEF SafeInv

\* Every step preserves mutual exclusion.
LEMMA MutexStep == SafeInv /\ [Next]_vars => MutexInv'
<1> SUFFICES ASSUME SafeInv, [Next]_vars PROVE MutexInv'
  OBVIOUS
<1> USE ThreadsAssumption DEF SafeInv, MutexInv, TypeInv, TypeOK, queueVars,
        workerVars, clientVars, ownerVars
<1>1. CASE SpawnWorker
  <2>1. idx + 1 \in Workers /\ wpc[idx + 1] = "unborn"
    BY <1>1, ThreadCountAssumption DEF SpawnWorker, Workers, Unborn
  <2> QED
    BY <1>1, <2>1 DEF SpawnWorker
<1>2. CASE Constructed
  BY <1>2 DEF Constructed
<1>3. CASE CloseLock
  BY <1>3 DEF CloseLock
<1>4. CASE CloseSwap
  BY <1>4 DEF CloseSwap, Wake, waiting
<1>5. CASE CloseUnlock
  BY <1>5 DEF CloseUnlock
<1>6. CASE Join
  BY <1>6 DEF Join
<1>7. CASE Closed
  BY <1>7 DEF Closed
<1>8. ASSUME NEW c \in Clients, AddTask(c) \/ AddTasks(c) PROVE MutexInv'
  <2>1. PICK v, all : CallAddTask(c, v, all)
    BY <1>8 DEF AddTask, AddTasks
  <2> QED
    BY <2>1 DEF CallAddTask
<1>9. ASSUME NEW c \in Clients, ClientLock(c) PROVE MutexInv'
  BY <1>9 DEF ClientLock
<1>10. ASSUME NEW c \in Clients, ClientPush(c) PROVE MutexInv'
  BY <1>10 DEF ClientPush
<1>11. ASSUME NEW c \in Clients, ClientUnlock(c) PROVE MutexInv'
  BY <1>11 DEF ClientUnlock
<1>12. ASSUME NEW c \in Clients, ClientNotify(c) PROVE MutexInv'
  <2>1. PICK woken \in WokenSets(notifyAll[c]) : wpc' = Wake(woken)
    BY <1>12 DEF ClientNotify
  <2>2. woken \subseteq waiting
    BY DEF WokenSets
  <2> QED
    BY <1>12, <2>1, <2>2 DEF ClientNotify, Wake, waiting
<1>13. ASSUME NEW w \in Workers, WorkerLock(w) PROVE MutexInv'
  BY <1>13 DEF WorkerLock
<1>14. ASSUME NEW w \in Workers, WorkerWait(w) PROVE MutexInv'
  BY <1>14 DEF WorkerWait
<1>15. ASSUME NEW w \in Workers, SpuriousWakeup(w) PROVE MutexInv'
  BY <1>15 DEF SpuriousWakeup, Wake, waiting
<1>16. ASSUME NEW w \in Workers, WorkerExit(w) PROVE MutexInv'
  BY <1>16 DEF WorkerExit
<1>17. ASSUME NEW w \in Workers, WorkerTake(w) PROVE MutexInv'
  BY <1>17 DEF WorkerTake
<1>18. ASSUME NEW w \in Workers, WorkerUnlock(w) PROVE MutexInv'
  BY <1>18 DEF WorkerUnlock
<1>19. ASSUME NEW w \in Workers, WorkerRun(w) PROVE MutexInv'
  BY <1>19 DEF WorkerRun
<1>20. CASE UNCHANGED vars
  BY <1>20 DEF vars
<1> QED
  BY <1>1, <1>2, <1>3, <1>4, <1>5, <1>6, <1>7, <1>8, <1>9, <1>10, <1>11,
     <1>12, <1>13, <1>14, <1>15, <1>16, <1>17, <1>18, <1>19, <1>20
  DEF Next, Construct, Close, Client, Worker, Terminated

\* Every step preserves the agreement of flag, queue and joined workers.
LEMMA LifeStep == SafeInv /\ [Next]_vars => LifeInv'
<1> SUFFICES ASSUME SafeInv, [Next]_vars PROVE LifeInv'
  OBVIOUS
<1> USE DEF SafeInv, LifeInv, TypeInv, TypeOK, queueVars, workerVars,
            clientVars, ownerVars
<1>1. CASE SpawnWorker
  BY <1>1 DEF SpawnWorker
<1>2. CASE Constructed
  BY <1>2 DEF Constructed
<1>3. CASE CloseLock
  BY <1>3 DEF CloseLock
<1>4. CASE CloseSwap
  BY <1>4 DEF CloseSwap
<1>5. CASE CloseUnlock
  BY <1>5, ThreadCountAssumption DEF CloseUnlock, Workers
<1>6. CASE Join
  <2>1. \A w \in Workers : w <= idx + 1 => w <= idx \/ w = idx + 1
    BY ThreadCountAssumption DEF Workers
  <2> QED
    BY <1>6, <2>1 DEF Join
<1>7. CASE Closed
  BY <1>7 DEF Closed
<1>8. ASSUME NEW c \in Clients, AddTask(c) \/ AddTasks(c) PROVE LifeInv'
  <2>1. PICK v, all : CallAddTask(c, v, all)
    BY <1>8 DEF AddTask, AddTasks
  <2> QED
    BY <2>1 DEF CallAddTask
<1>9. ASSUME NEW c \in Clients, ClientLock(c) PROVE LifeInv'
  BY <1>9 DEF ClientLock
<1>10. ASSUME NEW c \in Clients, ClientPush(c) PROVE LifeInv'
  BY <1>10 DEF ClientPush
<1>11. ASSUME NEW c \in Clients, ClientUnlock(c) PROVE LifeInv'
  BY <1>11 DEF ClientUnlock
<1>12. ASSUME NEW c \in Clients, ClientNotify(c) PROVE LifeInv'
  BY <1>12 DEF ClientNotify
<1>13. ASSUME NEW w \in Workers, WorkerLock(w) PROVE LifeInv'
  BY <1>13 DEF WorkerLock
<1>14. ASSUME NEW w \in Workers, WorkerWait(w) PROVE LifeInv'
  BY <1>14 DEF WorkerWait
<1>15. ASSUME NEW w \in Workers, SpuriousWakeup(w) PROVE LifeInv'
  BY <1>15 DEF SpuriousWakeup, Wake, waiting
<1>16. ASSUME NEW w \in Workers, WorkerExit(w) PROVE LifeInv'
  BY <1>16 DEF WorkerExit
<1>17. ASSUME NEW w \in Workers, WorkerTake(w) PROVE LifeInv'
  BY <1>17 DEF WorkerTake
<1>18. ASSUME NEW w \in Workers, WorkerUnlock(w) PROVE LifeInv'
  BY <1>18 DEF WorkerUnlock
<1>19. ASSUME NEW w \in Workers, WorkerRun(w) PROVE LifeInv'
  BY <1>19 DEF WorkerRun
<1>20. CASE UNCHANGED vars
  BY <1>20 DEF vars
<1> QED
  BY <1>1, <1>2, <1>3, <1>4, <1>5, <1>6, <1>7, <1>8, <1>9, <1>10, <1>11,
     <1>12, <1>13, <1>14, <1>15, <1>16, <1>17, <1>18, <1>19, <1>20
  DEF Next, Construct, Close, Client, Worker, Terminated

LEMMA SafeInvariant == Spec => []SafeInv
<1>1. SafeInv /\ [Next]_vars => SafeInv'
  BY TypeStep, MutexStep, LifeStep DEF SafeInv
<1> QED
  BY <1>1, SafeInit, PTL DEF Spec

\* When the destructor has returned every worker has left doRun, none holds a
\* task and the mutex is free, for any number of workers.
THEOREM DestructionIsQuiet == Spec => []QuietWhenClosed
<1>1. SafeInv => QuietWhenClosed
  <2> SUFFICES ASSUME SafeInv, opc = "closed"
               PROVE  /\ mutex = NoThread
                      /\ \A w \in Workers : wpc[w] = "exited" /\ taskPtr[w] = NoTask
    BY DEF QuietWhenClosed
  <2>1. \A w \in Workers : wpc[w] = "exited"
    BY ThreadCountAssumption DEF SafeInv, LifeInv, TypeInv, TypeOK, Workers
  <2>2. \A w \in Workers : taskPtr[w] = NoTask
    BY <2>1 DEF SafeInv, TypeInv, HoldsTask
  <2>3. mutex = NoThread
    BY <2>1 DEF SafeInv, TypeInv, TypeOK, MutexInv, LifeInv
  <2> QED
    BY <2>1, <2>2, <2>3
<1> QED
  BY <1>1, SafeInvariant, PTL

\* No worker starts a task after close() has set the flag.
THEOREM NothingStartsAfterClose == Spec => NoStartAfterClose
<1>1. SafeInv /\ [Next]_vars => [flag => handed' = handed]_vars
  <2> SUFFICES ASSUME SafeInv, Next, flag PROVE handed' = handed
    OBVIOUS
  <2>1. tasks = <<>>
    BY DEF SafeInv, LifeInv
  <2>2. ASSUME NEW w \in Workers, Worker(w) \/ SpuriousWakeup(w)
        PROVE  handed' = handed
    BY <2>1, <2>2 DEF Worker, WorkerLock, WorkerWait, WorkerExit, WorkerTake,
       WorkerUnlock, WorkerRun, SpuriousWakeup, queueVars
  <2>3. ASSUME NEW c \in Clients, AddTask(c) \/ AddTasks(c) \/ Client(c)
        PROVE  handed' = handed
    BY <2>3 DEF AddTask, AddTasks, CallAddTask, Client, ClientLock, ClientPush,
       ClientUnlock, ClientNotify, queueVars
  <2>4. CASE Construct \/ CloseLock \/ Close \/ Terminated
    BY <2>4 DEF Construct, SpawnWorker, Constructed, CloseLock, Close,
       CloseSwap, CloseUnlock, Join, Closed, Terminated, vars, queueVars
  <2> QED
    BY <2>2, <2>3, <2>4 DEF Next
<1> QED
  BY <1>1, SafeInvariant, PTL DEF Spec, NoStartAfterClose
------------------------------------------------------------------------------
(* Order and multiplicity of the tasks.                                    *)

\* Appending to the last of three concatenated sequences appends to the whole.
LEMMA AppendToConcat ==
  ASSUME NEW S, NEW h \in Seq(S), NEW d \in Seq(S), NEW q \in Seq(S), NEW t \in S
  PROVE  h \o d \o Append(q, t) = Append(h \o d \o q, t)
<1> DEFINE hd == h \o d
<1>1. hd \in Seq(S) /\ <<t>> \in Seq(S) /\ hd \o q \in Seq(S)
  BY ConcatProperties
<1>2. Append(q, t) = q \o <<t>>
  BY AppendIsConcat
<1>3. Append(hd \o q, t) = (hd \o q) \o <<t>>
  BY <1>1, AppendIsConcat
<1>4. (hd \o q) \o <<t>> = hd \o (q \o <<t>>)
  BY <1>1, SMTT(30)
<1> QED
  BY <1>2, <1>3, <1>4

\* Moving the head of the queue to the end of what was handed out keeps the
\* concatenation of the two.
LEMMA MoveHead ==
  ASSUME NEW S, NEW h \in Seq(S), NEW q \in Seq(S), q # <<>>
  PROVE  Append(h, Head(q)) \o Tail(q) = h \o q
<1>1. Head(q) \in S /\ Tail(q) \in Seq(S) /\ Len(q) \in Nat \ {0}
      /\ Len(Tail(q)) = Len(q) - 1
      /\ \A k \in 1..Len(Tail(q)) : Tail(q)[k] = q[k + 1]
  BY HeadTailProperties, EmptySeq
<1> DEFINE a == Append(h, Head(q))
<1>2. a \in Seq(S) /\ Len(a) = Len(h) + 1 /\ Len(h) \in Nat
      /\ (\A k \in 1..Len(h) : a[k] = h[k]) /\ a[Len(h) + 1] = Head(q)
  BY <1>1, AppendProperties, LenProperties
<1>3. Head(q) = q[1]
  OBVIOUS
<1> DEFINE l == a \o Tail(q)
           r == h \o q
<1>4. l \in Seq(S) /\ r \in Seq(S) /\ Len(l) = Len(h) + Len(q) /\ Len(r) = Len(l)
  <2>1. l \in Seq(S) /\ Len(l) = Len(a) + Len(Tail(q))
    BY <1>1, <1>2, ConcatProperties
  <2>2. r \in Seq(S) /\ Len(r) = Len(h) + Len(q)
    BY ConcatProperties
  <2> QED
    BY <1>1, <1>2, <2>1, <2>2
<1>5. ASSUME NEW k \in 1..Len(l) PROVE l[k] = r[k]
  <2>1. k \in 1..(Len(a) + Len(Tail(q))) /\ k \in 1..(Len(h) + Len(q))
    BY <1>1, <1>2, <1>4
  <2>2. l[k] = IF k <= Len(a) THEN a[k] ELSE Tail(q)[k - Len(a)]
    BY <1>1, <1>2, <2>1, ConcatProperties
  <2>3. r[k] = IF k <= Len(h) THEN h[k] ELSE q[k - Len(h)]
    BY <2>1, ConcatProperties
  <2>4. CASE k <= Len(h)
    BY <1>2, <2>1, <2>2, <2>3, <2>4
  <2>5. CASE k = Len(h) + 1
    BY <1>2, <1>3, <2>2, <2>3, <2>5
  <2>6. CASE k > Len(h) + 1
    <3>1. k - Len(a) \in 1..Len(Tail(q)) /\ (k - Len(a)) + 1 = k - Len(h)
      BY <1>1, <1>2, <2>1, <2>6
    <3> QED
      BY <1>1, <1>2, <2>1, <2>2, <2>3, <2>6, <3>1
  <2> QED
    BY <1>2, <2>1, <2>4, <2>5, <2>6
<1> HIDE DEF l, r
<1>6. l = r
  BY <1>4, <1>5, SeqEqual
<1> QED
  BY <1>6 DEF l, r

\* What an Append does to the range and to injectivity.
LEMMA AppendRange ==
  ASSUME NEW S, NEW s \in Seq(S), NEW t \in S
  PROVE  /\ Range(Append(s, t)) = Range(s) \cup {t}
         /\ IsInjective(s) /\ t \notin Range(s) => IsInjective(Append(s, t))
<1> DEFINE a == Append(s, t)
<1>1. /\ a \in Seq(S) /\ Len(a) = Len(s) + 1 /\ Len(s) \in Nat
      /\ DOMAIN a = 1..Len(a) /\ DOMAIN s = 1..Len(s)
      /\ \A k \in 1..Len(s) : a[k] = s[k]
      /\ a[Len(s) + 1] = t
  BY AppendProperties, LenProperties
<1> HIDE DEF a
<1>2. DOMAIN a = DOMAIN s \cup {Len(s) + 1} /\ Len(s) + 1 \notin DOMAIN s
  BY <1>1
<1>3. Range(a) = Range(s) \cup {t}
  BY <1>1, <1>2 DEF Range
<1>4. IsInjective(s) /\ t \notin Range(s) => IsInjective(a)
  BY <1>1, <1>2 DEF Range, IsInjective
<1> QED
  BY <1>3, <1>4 DEF a

\* Head and tail of an injective sequence share no element.
LEMMA TailRange ==
  ASSUME NEW S, NEW s \in Seq(S), s # <<>>
  PROVE  /\ Head(s) \in Range(s)
         /\ Range(Tail(s)) \subseteq Range(s)
         /\ IsInjective(s) => IsInjective(Tail(s)) /\ Head(s) \notin Range(Tail(s))
<1> DEFINE u == Tail(s)
<1>1. /\ u \in Seq(S) /\ Len(u) = Len(s) - 1 /\ Len(s) \in Nat \ {0}
      /\ DOMAIN u = 1..Len(u) /\ DOMAIN s = 1..Len(s)
      /\ \A k \in 1..Len(u) : u[k] = s[k + 1]
      /\ Head(s) = s[1]
  BY HeadTailProperties, LenProperties, EmptySeq
<1> HIDE DEF u
<1>2. 1 \in DOMAIN s /\ \A k \in DOMAIN u : k + 1 \in DOMAIN s /\ k + 1 # 1 /\ u[k] = s[k + 1]
  BY <1>1
<1>3. \A k, j \in DOMAIN u : k + 1 = j + 1 => k = j
  BY <1>1
<1>4. Head(s) \in Range(s) /\ Range(u) \subseteq Range(s)
  BY <1>1, <1>2 DEF Range
<1>5. IsInjective(s) => IsInjective(u) /\ Head(s) \notin Range(u)
  BY <1>1, <1>2, <1>3 DEF Range, IsInjective
<1> QED
  BY <1>4, <1>5 DEF u

\* In an injective concatenation the first part is injective and shares no
\* element with the second.
LEMMA ConcatInjective ==
  ASSUME NEW S, NEW h \in Seq(S), NEW q \in Seq(S), IsInjective(h \o q)
  PROVE  IsInjective(h) /\ Range(h) \cap Range(q) = {}
<1> DEFINE c == h \o q
<1>1. /\ c \in Seq(S) /\ Len(c) = Len(h) + Len(q)
      /\ Len(h) \in Nat /\ Len(q) \in Nat
      /\ DOMAIN c = 1..Len(c) /\ DOMAIN h = 1..Len(h) /\ DOMAIN q = 1..Len(q)
      /\ \A k \in 1..(Len(h) + Len(q)) : c[k] = IF k <= Len(h) THEN h[k] ELSE q[k - Len(h)]
  BY ConcatProperties, LenProperties
<1>2. IsInjective(c)
  OBVIOUS
<1> HIDE DEF c
<1>3. \A k \in DOMAIN h : k \in DOMAIN c /\ c[k] = h[k]
  BY <1>1
<1>4. \A j \in DOMAIN q : Len(h) + j \in DOMAIN c /\ c[Len(h) + j] = q[j]
                          /\ Len(h) + j \notin DOMAIN h
  BY <1>1
<1>5. IsInjective(h)
  BY <1>2, <1>3 DEF IsInjective
<1>6. \A k \in DOMAIN h, j \in DOMAIN q : h[k] # q[j]
  BY <1>2, <1>3, <1>4 DEF IsInjective
<1> QED
  BY <1>5, <1>6 DEF Range
------------------------------------------------------------------------------
\* No task is submitted twice: what was pushed and what the calls in progress
\* still have to push are distinct tasks.
FreshInv ==
  /\ IsInjective(accepted)
  /\ Range(accepted) \subseteq submitted
  /\ \A c \in Clients :
        /\ IsInjective(batch[c])
        /\ Range(batch[c]) \subseteq submitted
        /\ Range(batch[c]) \cap Range(accepted) = {}
  /\ \A c, d \in Clients : c # d => Range(batch[c]) \cap Range(batch[d]) = {}

TaskInv == SafeInv /\ FreshInv /\ FifoOrder /\ RunOnce

LEMMA TaskInit == Init => TaskInv
<1> SUFFICES ASSUME Init PROVE TaskInv
  OBVIOUS
<1>1. SafeInv
  BY SafeInit
<1>2. Range(<<>>) = {} /\ IsInjective(<<>>)
  BY DEF Range, IsInjective
<1>3. FreshInv
  BY <1>2 DEF Init, FreshInv
<1>4. FifoOrder
  BY DEF Init, FifoOrder
<1>5. RunOnce
  BY <1>2 DEF Init, RunOnce, Held
<1> QED
  BY <1>1, <1>3, <1>4, <1>5 DEF TaskInv

\* Steps that neither touch the queue, its history nor the workers' tasks.
taskVars == <<tasks, accepted, handed, dropped, done, taskPtr>>

LEMMA UnchangedTasks ==
  ASSUME TaskInv, UNCHANGED taskVars PROVE FifoOrder' /\ RunOnce'
  BY DEF TaskInv, FifoOrder, RunOnce, Held, taskVars

\* Every step preserves the freshness of the tasks to be pushed.
LEMMA FreshStep == TaskInv /\ [Next]_vars => FreshInv'
<1> SUFFICES ASSUME TaskInv, [Next]_vars PROVE FreshInv'
  OBVIOUS
<1> USE DEF TaskInv, SafeInv, TypeInv, TypeOK, FreshInv, queueVars, clientVars
<1>1. ASSUME UNCHANGED <<accepted, batch, submitted>> PROVE FreshInv'
  BY <1>1
<1>2. ASSUME NEW c \in Clients, NEW v, NEW all, IsInjective(v), CallAddTask(c, v, all)
      PROVE  FreshInv'
  <2>1. /\ submitted' = submitted \cup Range(v)
        /\ batch' = [batch EXCEPT ![c] = v]
        /\ Range(v) \cap submitted = {}
        /\ accepted' = accepted
    BY <1>2 DEF CallAddTask
  <2> QED
    BY <1>2, <2>1
<1>3. ASSUME NEW c \in Clients, AddTask(c) \/ AddTasks(c) PROVE FreshInv'
  <2>1. \A t : IsInjective(<<t>>)
    BY DEF IsInjective
  <2>2. \A v \in Vectors : IsInjective(v)
    BY DEF Vectors
  <2> QED
    BY <1>2, <1>3, <2>1, <2>2 DEF AddTask, AddTasks
<1>4. ASSUME NEW c \in Clients, ClientPush(c) PROVE FreshInv'
  <2> DEFINE t == Head(batch[c])
  <2>1. /\ batch[c] \in Seq(Tasks) /\ batch[c] # <<>>
        /\ accepted' = Append(accepted, t)
        /\ batch' = [batch EXCEPT ![c] = Tail(batch[c])]
        /\ submitted' = submitted
    BY <1>4 DEF ClientPush
  <2>2. t \in Tasks
    BY <2>1, HeadTailProperties
  <2>3. /\ t \in Range(batch[c])
        /\ Range(Tail(batch[c])) \subseteq Range(batch[c])
        /\ IsInjective(Tail(batch[c])) /\ t \notin Range(Tail(batch[c]))
    BY <2>1, TailRange
  <2>4. t \notin Range(accepted)
    BY <2>3
  <2>5. Range(accepted') = Range(accepted) \cup {t} /\ IsInjective(accepted')
    BY <2>1, <2>2, <2>4, AppendRange
  <2> HIDE DEF t
  <2> QED
    BY <2>1, <2>3, <2>5
<1>5. ASSUME NEW c \in Clients, ClientLock(c) \/ ClientUnlock(c) \/ ClientNotify(c)
      PROVE  FreshInv'
  BY <1>1, <1>5 DEF ClientLock, ClientUnlock, ClientNotify
<1>6. ASSUME NEW w \in Workers, Worker(w) \/ SpuriousWakeup(w) PROVE FreshInv'
  BY <1>1, <1>6 DEF Worker, WorkerLock, WorkerWait, WorkerExit, WorkerTake,
     WorkerUnlock, WorkerRun, SpuriousWakeup
<1>7. CASE Construct \/ CloseLock \/ Close \/ UNCHANGED vars
  BY <1>1, <1>7 DEF Construct, SpawnWorker, Constructed, CloseLock, Close,
     CloseSwap, CloseUnlock, Join, Closed, vars
<1> QED
  BY <1>3, <1>4, <1>5, <1>6, <1>7 DEF Next, Client, Terminated

\* Every step preserves the order of the tasks and that each runs once.
LEMMA OrderStep == TaskInv /\ [Next]_vars => FifoOrder' /\ RunOnce'
<1> SUFFICES ASSUME TaskInv, [Next]_vars PROVE FifoOrder' /\ RunOnce'
  OBVIOUS
<1>0. /\ tasks \in Seq(Tasks) /\ handed \in Seq(Tasks) /\ dropped \in Seq(Tasks)
      /\ taskPtr \in [Workers -> Tasks \cup {NoTask}]
      /\ batch \in [Clients -> Seq(Tasks)]
  BY DEF TaskInv, SafeInv, TypeInv, TypeOK
<1>1. CASE Construct \/ CloseLock \/ CloseUnlock \/ Join \/ Closed \/ UNCHANGED vars
  BY <1>1, UnchangedTasks DEF Construct, SpawnWorker, Constructed, CloseLock,
     CloseUnlock, Join, Closed, vars, taskVars, queueVars, workerVars
<1>2. CASE CloseSwap
  <2>1. dropped = <<>>
    <3>1. opc = "swap"
      BY <1>2 DEF CloseSwap
    <3> QED
      BY <3>1 DEF TaskInv, SafeInv, LifeInv, TypeInv, TypeOK
  <2>2. /\ tasks' = <<>> /\ dropped' = tasks
        /\ UNCHANGED <<accepted, handed, done, taskPtr>>
    BY <1>2 DEF CloseSwap
  <2>3. handed \o dropped \o tasks = handed \o tasks
    BY <1>0, <2>1, ConcatEmptySeq
  <2>4. handed \o tasks \o <<>> = handed \o tasks
    BY <1>0, ConcatEmptySeq, ConcatProperties
  <2>5. FifoOrder'
    BY <2>2, <2>3, <2>4 DEF TaskInv, FifoOrder
  <2>6. RunOnce'
    BY <2>2 DEF TaskInv, RunOnce, Held
  <2> QED
    BY <2>5, <2>6
<1>3. ASSUME NEW c \in Clients, AddTask(c) \/ AddTasks(c) \/ ClientLock(c)
                                \/ ClientUnlock(c) \/ ClientNotify(c)
      PROVE  FifoOrder' /\ RunOnce'
  <2>1. UNCHANGED taskVars
    BY <1>3 DEF AddTask, AddTasks, CallAddTask, ClientLock, ClientUnlock,
       ClientNotify, taskVars, queueVars, workerVars
  <2> QED
    BY <2>1, UnchangedTasks
<1>4. ASSUME NEW c \in Clients, ClientPush(c) PROVE FifoOrder' /\ RunOnce'
  <2>1. /\ tasks' = Append(tasks, Head(batch[c]))
        /\ accepted' = Append(accepted, Head(batch[c]))
        /\ UNCHANGED <<handed, dropped, done, taskPtr>>
        /\ batch[c] # <<>>
    BY <1>4 DEF ClientPush, workerVars
  <2>2. Head(batch[c]) \in Tasks
    BY <1>0, <2>1, HeadTailProperties
  <2>3. FifoOrder'
    <3> DEFINE t == Head(batch[c])
    <3> HIDE DEF t
    <3>1. t \in Tasks
      BY <2>2 DEF t
    <3>2. handed \o dropped \o Append(tasks, t) = Append(handed \o dropped \o tasks, t)
      BY <1>0, <3>1, AppendToConcat
    <3>3. tasks' = Append(tasks, t) /\ accepted' = Append(accepted, t)
      BY <2>1 DEF t
    <3> QED
      BY <2>1, <3>2, <3>3 DEF TaskInv, FifoOrder
  <2>4. RunOnce'
    BY <2>1 DEF TaskInv, RunOnce, Held
  <2> QED
    BY <2>3, <2>4
<1>5. ASSUME NEW w \in Workers, WorkerLock(w) \/ WorkerWait(w) \/ WorkerExit(w)
                                \/ WorkerUnlock(w) \/ SpuriousWakeup(w)
      PROVE  FifoOrder' /\ RunOnce'
  BY <1>5, UnchangedTasks DEF WorkerLock, WorkerWait, WorkerExit, WorkerUnlock,
     SpuriousWakeup, taskVars, queueVars
<1>6. ASSUME NEW w \in Workers, WorkerTake(w) PROVE FifoOrder' /\ RunOnce'
  <2> DEFINE t == Head(tasks)
  <2>1. /\ tasks # <<>> /\ tasks' = Tail(tasks)
        /\ handed' = Append(handed, t)
        /\ taskPtr' = [taskPtr EXCEPT ![w] = t]
        /\ UNCHANGED <<accepted, dropped, done>>
        /\ wpc[w] = "test"
    BY <1>6 DEF WorkerTake
  <2>2. dropped = <<>> /\ taskPtr[w] = NoTask
    <3>1. ~flag
      BY <2>1 DEF TaskInv, SafeInv, LifeInv
    <3> QED
      BY <2>1, <3>1 DEF TaskInv, SafeInv, LifeInv, TypeInv, HoldsTask
  <2>3. t \in Tasks /\ Tail(tasks) \in Seq(Tasks)
    BY <1>0, <2>1, HeadTailProperties
  <2>4. handed \o dropped \o tasks = handed \o tasks
    BY <1>0, <2>2, ConcatEmptySeq
  <2>5. Append(handed, t) \in Seq(Tasks)
    BY <1>0, <2>3, AppendProperties
  <2>6. FifoOrder'
    <3>1. Append(handed, t) \o <<>> = Append(handed, t)
      BY <2>5, ConcatEmptySeq
    <3>2. Append(handed, t) \o Tail(tasks) = handed \o tasks
      BY <1>0, <2>1, MoveHead
    <3> QED
      BY <2>1, <2>2, <2>4, <3>1, <3>2 DEF TaskInv, FifoOrder
  <2>7. t \notin Range(handed) /\ IsInjective(handed)
    <3>1. IsInjective(handed \o tasks)
      BY <2>4 DEF TaskInv, FifoOrder, FreshInv
    <3>2. Range(handed) \cap Range(tasks) = {} /\ IsInjective(handed)
      BY <1>0, <3>1, ConcatInjective
    <3> QED
      BY <1>0, <2>1, <3>2, TailRange
  <2>8. Range(handed') = Range(handed) \cup {t} /\ IsInjective(handed')
    BY <1>0, <2>1, <2>3, <2>7, AppendRange
  <2>9. Held' = Held \cup {t} /\ t \notin Held /\ t \notin done
    <3>1. t # NoTask
      BY <2>3, TasksAssumption
    <3> HIDE DEF t
    <3>2. Held' = Held \cup {t}
      BY <1>0, <2>1, <2>2, <3>1 DEF Held
    <3> QED
      BY <2>7, <3>2 DEF TaskInv, RunOnce
  <2>10. RunOnce'
    <3> HIDE DEF t
    <3>1. \A v \in Workers : v # w => taskPtr[v] # t
      BY <2>3, <2>9, TasksAssumption DEF Held
    <3> QED
      BY <1>0, <2>1, <2>8, <2>9, <3>1 DEF TaskInv, RunOnce
  <2> QED
    BY <2>6, <2>10
<1>7. ASSUME NEW w \in Workers, WorkerRun(w) PROVE FifoOrder' /\ RunOnce'
  <2>1. /\ done' = done \cup {taskPtr[w]}
        /\ taskPtr' = [taskPtr EXCEPT ![w] = NoTask]
        /\ UNCHANGED <<tasks, accepted, handed, dropped>>
        /\ wpc[w] = "run"
    BY <1>7 DEF WorkerRun, queueVars
  <2>2. taskPtr[w] # NoTask
    BY <2>1 DEF TaskInv, SafeInv, TypeInv, HoldsTask
  <2>3. \A v \in Workers : v # w => taskPtr[v] # taskPtr[w]
    BY <2>2 DEF TaskInv, RunOnce
  <2>4. Held' = Held \ {taskPtr[w]} /\ taskPtr[w] \in Held
    BY <1>0, <2>1, <2>2, <2>3 DEF Held
  <2>5. FifoOrder'
    BY <2>1 DEF TaskInv, FifoOrder
  <2>6. RunOnce'
    BY <1>0, <2>1, <2>4 DEF TaskInv, RunOnce
  <2> QED
    BY <2>5, <2>6
<1> QED
  BY <1>1, <1>2, <1>3, <1>4, <1>5, <1>6, <1>7
  DEF Next, Close, Client, Worker, Terminated

LEMMA TaskInvariant == Spec => []TaskInv
<1>1. TaskInv /\ [Next]_vars => TaskInv'
  BY TypeStep, MutexStep, LifeStep, FreshStep, OrderStep DEF TaskInv, SafeInv
<1> QED
  BY <1>1, TaskInit, PTL DEF Spec

\* Tasks are handed out in the order of their submission and none is lost, for
\* any number of workers, clients and tasks.
THEOREM TasksInOrder == Spec => []FifoOrder
<1>1. TaskInv => FifoOrder
  BY DEF TaskInv
<1> QED
  BY <1>1, TaskInvariant, PTL

\* No task is run twice or by two workers at once.
THEOREM TasksRunOnce == Spec => []RunOnce
<1>1. TaskInv => RunOnce
  BY DEF TaskInv
<1> QED
  BY <1>1, TaskInvariant, PTL

---------------------------------------------------------------------------
(* No wake-up is lost: a sleeping worker never leaves behind more queued tasks *)
(* than there are workers on their way to the queue and notifications to come. *)

\* A call of addTask(task) pushes one task, and a call that is about to notify
\* has pushed all its tasks.
BatchInv ==
  \A c \in Clients :
    /\ cpc[c] \in {"idle", "notify"} => batch[c] = <<>>
    /\ ~notifyAll[c] /\ batch[c] # <<>> => Tail(batch[c]) = <<>>

WakeInv == SafeInv /\ BatchInv /\ NoLostWakeup

\* The sets whose elements the invariant counts are finite.
LEMMA CountedSetsFinite == IsFiniteSet(Awake) /\ IsFiniteSet(OneToNotify)
<1>1. IsFiniteSet(Workers)
  BY ThreadCountAssumption, FS_Interval DEF Workers
<1>2. Awake \subseteq Workers /\ OneToNotify \subseteq Clients
  BY DEF Awake, OneToNotify
<1> QED
  BY <1>1, <1>2, FS_Subset, ThreadsAssumption

\* The same sets after a step are finite too.
LEMMA CountedSetsFinitePrime == IsFiniteSet(Awake') /\ IsFiniteSet(OneToNotify')
<1>1. IsFiniteSet(Workers)
  BY ThreadCountAssumption, FS_Interval DEF Workers
<1>2. Awake' \subseteq Workers /\ OneToNotify' \subseteq Clients
  BY DEF Awake, OneToNotify
<1> QED
  BY <1>1, <1>2, FS_Subset, ThreadsAssumption

LEMMA WakeInit == Init => WakeInv
<1> SUFFICES ASSUME Init PROVE WakeInv
  OBVIOUS
<1>1. BatchInv
  BY DEF Init, BatchInv
<1>2. waiting = {}
  BY DEF Init, waiting
<1> QED
  BY <1>1, <1>2, SafeInit DEF WakeInv, NoLostWakeup

\* Every step preserves what the calls of addTask have left to push.
LEMMA BatchStep == WakeInv /\ [Next]_vars => BatchInv'
<1> SUFFICES ASSUME WakeInv, [Next]_vars PROVE BatchInv'
  OBVIOUS
<1> USE DEF WakeInv, SafeInv, TypeInv, TypeOK, BatchInv, clientVars
<1>1. ASSUME NEW c \in Clients, AddTask(c) PROVE BatchInv'
  <2>1. PICK t \in Tasks : CallAddTask(c, <<t>>, FALSE)
    BY <1>1 DEF AddTask
  <2>2. Tail(<<t>>) = <<>>
    OBVIOUS
  <2> QED
    BY <2>1, <2>2 DEF CallAddTask
<1>2. ASSUME NEW c \in Clients, AddTasks(c) PROVE BatchInv'
  <2>1. PICK v \in Vectors : CallAddTask(c, v, TRUE)
    BY <1>2 DEF AddTasks
  <2> QED
    BY <2>1 DEF CallAddTask
<1>3. ASSUME NEW c \in Clients, ClientLock(c) PROVE BatchInv'
  BY <1>3 DEF ClientLock
<1>4. ASSUME NEW c \in Clients, ClientPush(c) PROVE BatchInv'
  BY <1>4 DEF ClientPush
<1>5. ASSUME NEW c \in Clients, ClientUnlock(c) PROVE BatchInv'
  BY <1>5 DEF ClientUnlock
<1>6. ASSUME NEW c \in Clients, ClientNotify(c) PROVE BatchInv'
  BY <1>6 DEF ClientNotify
<1>7. ASSUME NEW w \in Workers, Worker(w) \/ SpuriousWakeup(w) PROVE BatchInv'
  BY <1>7 DEF Worker, WorkerLock, WorkerWait, WorkerExit, WorkerTake,
     WorkerUnlock, WorkerRun, SpuriousWakeup
<1>8. CASE Construct \/ CloseLock \/ Close \/ UNCHANGED vars
  BY <1>8 DEF Construct, SpawnWorker, Constructed, CloseLock, Close,
     CloseSwap, CloseUnlock, Join, Closed, vars
<1> QED
  BY <1>1, <1>2, <1>3, <1>4, <1>5, <1>6, <1>7, <1>8 DEF Next, Client, Terminated

\* A step that adds to no queue and takes nobody out of the two counted sets
\* preserves the count.
LEMMA CountGrows ==
  ASSUME SafeInv, NoLostWakeup, UNCHANGED tasks,
         waiting' \subseteq waiting, AllToNotify \subseteq AllToNotify',
         Awake \subseteq Awake', OneToNotify \subseteq OneToNotify'
  PROVE  NoLostWakeup'
<1>1. /\ Cardinality(Awake) <= Cardinality(Awake')
      /\ Cardinality(OneToNotify) <= Cardinality(OneToNotify')
      /\ Cardinality(Awake) \in Nat /\ Cardinality(OneToNotify) \in Nat
      /\ Cardinality(Awake') \in Nat /\ Cardinality(OneToNotify') \in Nat
  BY CountedSetsFinite, CountedSetsFinitePrime, FS_Subset, FS_CardinalityType
<1>2. Len(tasks) \in Nat
  BY LenProperties DEF SafeInv, TypeInv, TypeOK
<1>3. waiting' # {} /\ AllToNotify' = {} => waiting # {} /\ AllToNotify = {}
  OBVIOUS
<1> QED
  BY <1>1, <1>2, <1>3 DEF NoLostWakeup

\* An empty queue needs nobody.
LEMMA CountEmpty ==
  ASSUME tasks' = <<>> PROVE NoLostWakeup'
<1>1. Cardinality(Awake') \in Nat /\ Cardinality(OneToNotify') \in Nat
  BY CountedSetsFinitePrime, FS_CardinalityType
<1>2. Len(tasks') = 0
  OBVIOUS
<1> QED
  BY <1>1, <1>2 DEF NoLostWakeup

\* Every step preserves the count of workers and notifications per queued task.
LEMMA WakeStep == WakeInv /\ [Next]_vars => NoLostWakeup'
<1> SUFFICES ASSUME WakeInv, [Next]_vars PROVE NoLostWakeup'
  OBVIOUS
<1>0. /\ wpc \in [Workers -> WorkerPC] /\ cpc \in [Clients -> ClientPC]
      /\ batch \in [Clients -> Seq(Tasks)] /\ tasks \in Seq(Tasks)
      /\ Len(tasks) \in Nat /\ notifyAll \in [Clients -> BOOLEAN]
      /\ SafeInv /\ NoLostWakeup
  BY LenProperties DEF WakeInv, SafeInv, TypeInv, TypeOK
<1> USE DEF waiting, Awake, OneToNotify, AllToNotify, queueVars, workerVars,
            clientVars, ownerVars
<1>1. CASE SpawnWorker
  BY <1>0, <1>1, CountGrows DEF SpawnWorker
<1>2. CASE Constructed \/ CloseLock \/ CloseUnlock \/ Join \/ Closed
  BY <1>0, <1>2, CountGrows DEF Constructed, CloseLock, CloseUnlock, Join, Closed
<1>3. CASE CloseSwap
  BY <1>3, CountEmpty DEF CloseSwap
<1>4. ASSUME NEW c \in Clients, AddTask(c) \/ AddTasks(c) PROVE NoLostWakeup'
  <2>1. PICK v, all : CallAddTask(c, v, all)
    BY <1>4 DEF AddTask, AddTasks
  <2> QED
    BY <1>0, <2>1, CountGrows DEF CallAddTask
<1>5. ASSUME NEW c \in Clients, ClientLock(c) PROVE NoLostWakeup'
  BY <1>0, <1>5, CountGrows DEF ClientLock
<1>6. ASSUME NEW c \in Clients, ClientPush(c) PROVE NoLostWakeup'
  <2>1. /\ cpc[c] = "push" /\ batch[c] # <<>> /\ tasks' = Append(tasks, Head(batch[c]))
        /\ batch' = [batch EXCEPT ![c] = Tail(batch[c])]
        /\ UNCHANGED <<wpc, cpc, notifyAll>>
    BY <1>6 DEF ClientPush
  <2>2. CASE notifyAll[c]
    <3>1. c \in AllToNotify'
      BY <1>0, <2>1, <2>2
    <3> QED
      BY <3>1 DEF NoLostWakeup
  <2>3. CASE ~notifyAll[c]
    <3>1. Tail(batch[c]) = <<>>
      BY <2>1, <2>3 DEF WakeInv, BatchInv
    <3>2. OneToNotify' = OneToNotify \cup {c} /\ c \notin OneToNotify
      BY <1>0, <2>1, <2>3, <3>1
    <3>3. Awake' = Awake /\ waiting' = waiting /\ AllToNotify' = AllToNotify
      BY <2>1
    <3>4. /\ Cardinality(OneToNotify') = Cardinality(OneToNotify) + 1
          /\ Cardinality(OneToNotify) \in Nat /\ Cardinality(Awake) \in Nat
      BY <3>2, CountedSetsFinite, FS_AddElement, FS_CardinalityType
    <3>5. Len(tasks') = Len(tasks) + 1
      <4>1. Head(batch[c]) \in Tasks
        BY <1>0, <2>1, HeadTailProperties
      <4> QED
        BY <1>0, <2>1, <4>1, AppendProperties
    <3> HIDE DEF waiting, Awake, OneToNotify, AllToNotify
    <3> QED
      BY <1>0, <3>3, <3>4, <3>5 DEF NoLostWakeup
  <2> QED
    BY <2>2, <2>3
<1>7. ASSUME NEW c \in Clients, ClientUnlock(c) PROVE NoLostWakeup'
  BY <1>0, <1>7, CountGrows DEF ClientUnlock
<1>8. ASSUME NEW c \in Clients, ClientNotify(c) PROVE NoLostWakeup'
  <2>1. PICK woken \in WokenSets(notifyAll[c]) : wpc' = Wake(woken)
    BY <1>8 DEF ClientNotify
  <2>2. /\ cpc[c] = "notify" /\ cpc' = [cpc EXCEPT ![c] = "idle"]
        /\ UNCHANGED <<tasks, batch, notifyAll>>
    BY <1>8 DEF ClientNotify
  <2>3. waiting' = waiting \ woken /\ Awake' = Awake \cup woken
    BY <1>0, <2>1 DEF Wake, WokenSets
  <2>4. CASE woken = waiting
    BY <2>3, <2>4 DEF NoLostWakeup
  <2>5. CASE woken # waiting
    <3>1. ~notifyAll[c] /\ \E w \in waiting : woken = {w}
      BY <2>1, <2>5 DEF WokenSets
    <3>2. PICK w \in waiting : woken = {w}
      BY <3>1
    <3>3. batch[c] = <<>>
      BY <2>2 DEF WakeInv, BatchInv
    <3>4. OneToNotify' = OneToNotify \ {c} /\ c \in OneToNotify
      BY <1>0, <2>2, <3>1, <3>3
    <3>5. AllToNotify' = AllToNotify
      BY <1>0, <2>2, <3>1
    <3>6. w \notin Awake /\ Awake' = Awake \cup {w}
      BY <2>3, <3>2
    <3>8. waiting # {}
      BY <3>2
    <3> HIDE DEF waiting, Awake, OneToNotify, AllToNotify
    <3>7. /\ Cardinality(OneToNotify') = Cardinality(OneToNotify) - 1
          /\ Cardinality(Awake') = Cardinality(Awake) + 1
          /\ Cardinality(OneToNotify) \in Nat /\ Cardinality(Awake) \in Nat
      <4>1. Cardinality(OneToNotify') = Cardinality(OneToNotify) - 1
        BY <3>4, CountedSetsFinite, FS_RemoveElement
      <4>2. Cardinality(Awake') = Cardinality(Awake) + 1
        BY <3>6, CountedSetsFinite, FS_AddElement
      <4> QED
        BY <4>1, <4>2, CountedSetsFinite, FS_CardinalityType
    <3> QED
      BY <1>0, <2>2, <3>5, <3>7, <3>8 DEF NoLostWakeup
  <2> QED
    BY <2>4, <2>5
<1>9. ASSUME NEW w \in Workers, WorkerLock(w) PROVE NoLostWakeup'
  BY <1>0, <1>9, CountGrows DEF WorkerLock
<1>10. ASSUME NEW w \in Workers, WorkerWait(w) PROVE NoLostWakeup'
  BY <1>10, CountEmpty DEF WorkerWait
<1>11. ASSUME NEW w \in Workers, SpuriousWakeup(w) PROVE NoLostWakeup'
  BY <1>0, <1>11, CountGrows DEF SpuriousWakeup, Wake
<1>12. ASSUME NEW w \in Workers, WorkerExit(w) PROVE NoLostWakeup'
  BY <1>12, CountEmpty DEF WorkerExit
<1>13. ASSUME NEW w \in Workers, WorkerTake(w) PROVE NoLostWakeup'
  <2>1. /\ wpc[w] = "test" /\ tasks # <<>> /\ tasks' = Tail(tasks)
        /\ wpc' = [wpc EXCEPT ![w] = "unlock"]
        /\ UNCHANGED <<cpc, batch, notifyAll>>
    BY <1>13 DEF WorkerTake
  <2>2. Awake' = Awake \ {w} /\ w \in Awake
    BY <1>0, <2>1
  <2>3. waiting' = waiting /\ OneToNotify' = OneToNotify /\ AllToNotify' = AllToNotify
    BY <1>0, <2>1
  <2>4. /\ Cardinality(Awake') = Cardinality(Awake) - 1
        /\ Cardinality(OneToNotify) \in Nat /\ Cardinality(Awake) \in Nat
    BY <2>2, CountedSetsFinite, FS_RemoveElement, FS_CardinalityType
  <2>5. Len(tasks') = Len(tasks) - 1
    BY <1>0, <2>1, HeadTailProperties
  <2> HIDE DEF waiting, Awake, OneToNotify, AllToNotify
  <2> QED
    BY <1>0, <2>3, <2>4, <2>5 DEF NoLostWakeup
<1>14. ASSUME NEW w \in Workers, WorkerUnlock(w) PROVE NoLostWakeup'
  BY <1>0, <1>14, CountGrows DEF WorkerUnlock
<1>15. ASSUME NEW w \in Workers, WorkerRun(w) PROVE NoLostWakeup'
  BY <1>0, <1>15, CountGrows DEF WorkerRun
<1>16. CASE UNCHANGED vars
  BY <1>0, <1>16, CountGrows DEF vars
<1> QED
  BY <1>1, <1>2, <1>3, <1>4, <1>5, <1>6, <1>7, <1>8, <1>9, <1>10, <1>11,
     <1>12, <1>13, <1>14, <1>15, <1>16
  DEF Next, Construct, Close, Client, Worker, Terminated

\* No wake-up is lost, for any number of workers and clients: while a worker
\* sleeps, every queued task has a worker or a notification on its way.
THEOREM NoWakeupIsLost == Spec => []NoLostWakeup
<1>1. WakeInv /\ [Next]_vars => WakeInv'
  BY TypeStep, MutexStep, LifeStep, BatchStep, WakeStep DEF WakeInv, SafeInv
<1>2. WakeInv => NoLostWakeup
  BY DEF WakeInv
<1> QED
  BY <1>1, <1>2, WakeInit, PTL DEF Spec

---------------------------------------------------------------------------
(* The pool with its threads, mutex and condition variable implements TaskPool, *)
(* the pool its users see.                                                      *)

\* The elements of the three parts of the history are pushed tasks.
LEMMA RangesInAccepted ==
  ASSUME TaskInv
  PROVE  Range(handed) \subseteq Range(accepted) /\ Range(tasks) \subseteq Range(accepted)
<1>1. handed \in Seq(Tasks) /\ dropped \in Seq(Tasks) /\ tasks \in Seq(Tasks)
  BY DEF TaskInv, SafeInv, TypeInv, TypeOK
<1>2. handed \o dropped \in Seq(Tasks)
        /\ Range(handed \o dropped) = Range(handed) \cup Range(dropped)
  BY <1>1, ConcatProperties, RangeConcatenation
<1> DEFINE hd == handed \o dropped
<1>5. hd \in Seq(Tasks)
  BY <1>2
<1> HIDE DEF hd
<1>3. Range(hd \o tasks) = Range(hd) \cup Range(tasks)
  BY <1>1, <1>5, RangeConcatenation
<1>4. accepted = hd \o tasks
  BY DEF TaskInv, FifoOrder, hd
<1> QED
  BY <1>2, <1>3, <1>4 DEF hd

\* While one worker holds no task, fewer than threadCount tasks are running.
LEMMA FewerHeldThanWorkers ==
  ASSUME TaskInv, NEW w \in Workers, taskPtr[w] = NoTask
  PROVE  Cardinality(Held) < threadCount
<1>1. IsFiniteSet(Workers) /\ Cardinality(Workers) = threadCount
  BY ThreadCountAssumption, FS_Interval DEF Workers
<1> DEFINE Busy == {v \in Workers : taskPtr[v] # NoTask}
<1>2. Busy \subseteq Workers \ {w}
  OBVIOUS
<1>3. /\ IsFiniteSet(Workers \ {w})
      /\ Cardinality(Workers \ {w}) = threadCount - 1
  BY <1>1, FS_RemoveElement
<1>4. IsFiniteSet(Busy) /\ Cardinality(Busy) <= threadCount - 1
  BY <1>2, <1>3, FS_Subset
<1> DEFINE f == [v \in Busy |-> taskPtr[v]]
<1>5. f \in Surjection(Busy, Held)
  BY DEF Surjection, Held
<1> HIDE DEF Busy, f
<1>6. Cardinality(Held) <= Cardinality(Busy) /\ IsFiniteSet(Held)
  BY <1>4, <1>5, FS_Surjection
<1>7. Cardinality(Held) \in Nat /\ Cardinality(Busy) \in Nat
  BY <1>4, <1>6, FS_CardinalityType
<1> QED
  BY <1>4, <1>6, <1>7, ThreadCountAssumption

\* The initial states of the pool are initial states of the abstract pool.
LEMMA AbstractInit == Init => Abstract!Init
  BY DEF Init, Abstract!Init, Held, Phase

\* Steps the users of the pool cannot see.
LEMMA Invisible ==
  ASSUME UNCHANGED <<tasks, taskPtr, done, Phase>> PROVE UNCHANGED Abstract!vars
  BY DEF Abstract!vars, Held

\* Every step of the pool is a step of the abstract pool or invisible.
LEMMA AbstractStep == TaskInv /\ [Next]_vars => [Abstract!Next]_(Abstract!vars)
<1> SUFFICES ASSUME TaskInv, [Next]_vars PROVE [Abstract!Next]_(Abstract!vars)
  OBVIOUS
<1>0. /\ flag <=> opc \in {"unlock", "join", "closed"}
      /\ taskPtr \in [Workers -> Tasks \cup {NoTask}]
      /\ batch \in [Clients -> Seq(Tasks)] /\ tasks \in Seq(Tasks)
      /\ wpc \in [Workers -> WorkerPC]
  BY DEF TaskInv, SafeInv, LifeInv, TypeInv, TypeOK
<1> USE DEF queueVars, workerVars, clientVars, ownerVars
<1>1. CASE Construct \/ CloseLock \/ CloseUnlock \/ Join \/ UNCHANGED vars
  BY <1>0, <1>1, Invisible DEF Construct, SpawnWorker, Constructed, CloseLock,
     CloseUnlock, Join, vars, Phase
<1>2. CASE CloseSwap
  <2>1. Abstract!Shutdown
    BY <1>0, <1>2 DEF CloseSwap, Abstract!Shutdown, Phase, Held
  <2> QED
    BY <2>1 DEF Abstract!Next
<1>3. CASE Closed
  <2>1. opc = "join" /\ opc' = "closed" /\ idx = threadCount
        /\ UNCHANGED <<tasks, flag, taskPtr, done>>
    BY <1>3 DEF Closed
  <2>2. \A w \in Workers : wpc[w] = "exited"
    BY <2>1, ThreadCountAssumption DEF TaskInv, SafeInv, LifeInv, Workers
  <2>3. \A w \in Workers : taskPtr[w] = NoTask
    BY <2>2 DEF TaskInv, SafeInv, TypeInv, HoldsTask
  <2>4. Held = {} /\ Held' = Held
    BY <2>1, <2>3 DEF Held
  <2>5. Phase = "draining" /\ Phase' = "closed"
    BY <1>0, <2>1 DEF Phase
  <2>6. Abstract!Return
    BY <2>1, <2>4, <2>5 DEF Abstract!Return
  <2> QED
    BY <2>6 DEF Abstract!Next
<1>4. ASSUME NEW c \in Clients, AddTask(c) \/ AddTasks(c) \/ ClientLock(c)
                                \/ ClientUnlock(c) \/ ClientNotify(c)
      PROVE  UNCHANGED Abstract!vars
  <2>1. UNCHANGED <<tasks, taskPtr, done, flag, opc>>
    BY <1>4 DEF AddTask, AddTasks, CallAddTask, ClientLock, ClientUnlock,
       ClientNotify
  <2> QED
    BY <2>1, Invisible DEF Phase
<1>5. ASSUME NEW c \in Clients, ClientPush(c) PROVE Abstract!Next
  <2> DEFINE t == Head(batch[c])
  <2>1. /\ cpc[c] = "push" /\ batch[c] # <<>> /\ tasks' = Append(tasks, t)
        /\ UNCHANGED <<taskPtr, done, flag, opc>>
    BY <1>5 DEF ClientPush
  <2>2. opc = "open"
    BY <2>1 DEF TaskInv, SafeInv, LifeInv
  <2>3. t \in Tasks
    BY <1>0, <2>1, HeadTailProperties
  <2>4. t \notin Range(accepted)
    BY <1>0, <2>1, TailRange DEF TaskInv, FreshInv
  <2>5. t \notin Held \cup done /\ t \notin Range(tasks)
    BY <2>4, RangesInAccepted DEF TaskInv, RunOnce
  <2>6. Phase = "open" /\ Phase' = Phase /\ Held' = Held
    BY <1>0, <2>1, <2>2 DEF Phase, Held
  <2> HIDE DEF t
  <2>7. Abstract!Submit(t)
    BY <2>1, <2>5, <2>6 DEF Abstract!Submit, Range
  <2> QED
    BY <2>3, <2>7 DEF Abstract!Next
<1>6. ASSUME NEW w \in Workers, WorkerLock(w) \/ WorkerWait(w) \/ WorkerExit(w)
                                \/ WorkerUnlock(w) \/ SpuriousWakeup(w)
      PROVE  UNCHANGED Abstract!vars
  BY <1>6, Invisible DEF WorkerLock, WorkerWait, WorkerExit, WorkerUnlock,
     SpuriousWakeup, Phase
<1>7. ASSUME NEW w \in Workers, WorkerTake(w) PROVE Abstract!Next
  <2> DEFINE t == Head(tasks)
  <2>1. /\ wpc[w] = "test" /\ tasks # <<>> /\ tasks' = Tail(tasks)
        /\ taskPtr' = [taskPtr EXCEPT ![w] = t]
        /\ UNCHANGED <<done, flag, opc>>
    BY <1>7 DEF WorkerTake
  <2>2. taskPtr[w] = NoTask /\ ~flag
    BY <2>1 DEF TaskInv, SafeInv, TypeInv, HoldsTask, LifeInv
  <2>3. t \in Tasks /\ t # NoTask
    <3>1. t \in Tasks
      BY <1>0, <2>1, HeadTailProperties
    <3> QED
      BY <3>1, TasksAssumption
  <2>4. Phase = "open" /\ Phase' = Phase
    BY <1>0, <2>1, <2>2 DEF Phase
  <2>5. Held' = Held \cup {t}
    <3> HIDE DEF t
    <3> QED
      BY <1>0, <2>1, <2>2, <2>3 DEF Held
  <2>6. Cardinality(Held) < threadCount
    BY <2>2, FewerHeldThanWorkers
  <2>7. Abstract!Cardinality(Held) < threadCount
    BY <2>6 DEF Cardinality, Abstract!Cardinality
  <2>8. Abstract!Start
    BY <2>1, <2>4, <2>5, <2>7 DEF Abstract!Start
  <2> QED
    BY <2>8 DEF Abstract!Next
<1>8. ASSUME NEW w \in Workers, WorkerRun(w) PROVE Abstract!Next
  <2>1. /\ wpc[w] = "run" /\ done' = done \cup {taskPtr[w]}
        /\ taskPtr' = [taskPtr EXCEPT ![w] = NoTask]
        /\ UNCHANGED <<tasks, flag, opc>>
    BY <1>8 DEF WorkerRun
  <2>2. taskPtr[w] # NoTask
    BY <2>1 DEF TaskInv, SafeInv, TypeInv, HoldsTask
  <2>3. \A v \in Workers : v # w => taskPtr[v] # taskPtr[w]
    BY <2>2 DEF TaskInv, RunOnce
  <2>4. /\ Held' = Held \ {taskPtr[w]} /\ taskPtr[w] \in Held
        /\ taskPtr[w] \in Tasks
    BY <1>0, <2>1, <2>2, <2>3 DEF Held
  <2>5. Phase' = Phase
    BY <2>1 DEF Phase
  <2>6. Abstract!Finish(taskPtr[w])
    BY <2>1, <2>4, <2>5 DEF Abstract!Finish
  <2> QED
    BY <2>4, <2>6 DEF Abstract!Next
<1> QED
  BY <1>1, <1>2, <1>3, <1>4, <1>5, <1>6, <1>7, <1>8
  DEF Next, Close, Client, Worker, Terminated

\* The thread pool implements the pool its users see.
THEOREM PoolImplementsTaskPool == Spec => ImplementsTaskPool
  BY AbstractInit, AbstractStep, TaskInvariant, PTL
  DEF Spec, ImplementsTaskPool, Abstract!Spec


---------------------------------------------------------------------------
(* The program's steps are steps of the pool.                                  *)

MainTypeInv ==
  /\ ret \in [Tasks -> BOOLEAN]
  /\ sum \in Nat /\ reg \in [Workers -> Nat]
  /\ tpc \in [Workers -> {"lock", "read", "write", "store", "return"}]
  /\ allTask \in Seq(Tasks)
  /\ i \in Nat
  /\ printed \in Int
  /\ mpc \in {"fill", "poll", "printed", "destroy"}
  /\ stale \subseteq Tasks

\* Whatever main and the tasks do, the pool takes one of its own steps or none.
LEMMA PoolSteps ==
  ASSUME MainTypeInv, [MainNext]_allVars
  PROVE  [Next]_vars
<1>1. CASE MainAdd
  <2>1. i + 1 \in Tasks /\ Main \in Clients
    BY <1>1, MainAssumption DEF MainAdd, MainTypeInv
  <2>2. AddTask(Main)
    BY <1>1, <2>1 DEF MainAdd, AddTask
  <2> QED
    BY <2>1, <2>2 DEF Next
<1>2. CASE MainFilled \/ MainPoll \/ MainPollAgain \/ MainPrint \/ MainReturn
  BY <1>2 DEF MainFilled, MainPoll, MainPollAgain, MainPrint, MainReturn
<1>3. CASE MainClose
  BY <1>3 DEF MainClose, Next
<1>4. CASE Construct \/ Client(Main) \/ Close
  BY <1>4, MainAssumption DEF Next
<1>5. ASSUME NEW w \in Workers, PoolWorker(w) PROVE Next
  BY <1>5 DEF PoolWorker, Worker, Next
<1>6. ASSUME NEW w \in Workers, RunTask(w) PROVE [Next]_vars
  <2>1. CASE TaskReturn(w)
    BY <2>1 DEF TaskReturn, Worker, Next
  <2> QED
    BY <1>6, <2>1 DEF RunTask, TaskLock, TaskRead, TaskWrite, TaskStore
<1>7. ASSUME NEW w \in Workers, SpuriousWakeup(w) PROVE Next
  BY <1>7 DEF Next
<1>8. CASE Terminated
  BY <1>8 DEF Next
<1>9. CASE UNCHANGED allVars
  BY <1>9 DEF allVars
<1> QED
  BY <1>1, <1>2, <1>3, <1>4, <1>5, <1>6, <1>7, <1>8, <1>9 DEF MainNext, MainStep

---------------------------------------------------------------------------
(* Who has added to the sum.                                                   *)

\* The tasks that have incremented sum.
Summed == done \cup {taskPtr[w] : w \in {v \in Workers : tpc[v] \in {"store", "return"}}}

\* Only the holder of the global mutex is inside doRun's critical section, and
\* what it has read of sum is still true.
SectionInv ==
  \A w \in Workers : tpc[w] # "lock" =>
    /\ wpc[w] = "run" /\ sumMutex = w
    /\ tpc[w] = "write" => reg[w] = sum

\* sum counts the increments, and a flag is set after its increment or was from
\* the start.
SumInv ==
  /\ IsFiniteSet(Summed) /\ Summed \subseteq Tasks
  /\ sum = Cardinality(Summed)
  /\ \A t \in Tasks : ret[t] => t \in stale \cup Summed

\* main forgets a task only after it has seen its flag.
WaitInv ==
  /\ mpc = "fill" => \A t \in 1..i : t \in Range(allTask)
  /\ mpc # "fill" => \A t \in Tasks : t \in Range(allTask) \/ ret[t]
  /\ mpc = "poll" => i <= Len(allTask)
  /\ mpc \in {"printed", "destroy"} =>
       allTask = <<>> /\ printed + Cardinality(stale) >= taskCount

MainInv == TaskInv /\ MainTypeInv /\ SectionInv /\ SumInv /\ WaitInv

LEMMA MainInitially == MainInit => MainInv
<1> SUFFICES ASSUME MainInit PROVE MainInv
  OBVIOUS
<1>1. TaskInv
  BY TaskInit DEF MainInit
<1>2. MainTypeInv
  BY DEF MainInit, MainTypeInv
<1>3. SectionInv
  BY DEF MainInit, SectionInv
<1>4. Summed = {}
  BY DEF MainInit, Init, Summed
<1>5. SumInv
  BY <1>4, FS_EmptySet DEF MainInit, SumInv
<1>6. WaitInv
  BY DEF MainInit, WaitInv
<1> QED
  BY <1>1, <1>2, <1>3, <1>5, <1>6 DEF MainInv

\* A step outside doRun leaves the workers inside it where they are.
LEMMA Outside ==
  ASSUME MainInv, UNCHANGED <<tpc, sum, sumMutex, reg, done>>,
         \A w \in Workers : wpc[w] = "run" => wpc'[w] = "run" /\ taskPtr'[w] = taskPtr[w]
  PROVE  SectionInv' /\ Summed' = Summed
<1>1. \A w \in Workers : tpc[w] # "lock" => wpc[w] = "run"
  BY DEF MainInv, SectionInv
<1>2. SectionInv'
  BY <1>1 DEF MainInv, SectionInv
<1>3. \A w \in {v \in Workers : tpc[v] \in {"store", "return"}} : taskPtr'[w] = taskPtr[w]
  BY <1>1
<1>4. Summed' = Summed
  BY <1>3 DEF Summed
<1> QED
  BY <1>2, <1>4

\* Erasing the element at n leaves every other one in the sequence.
LEMMA EraseOne ==
  ASSUME NEW S, NEW s \in Seq(S), NEW n \in 1..Len(s)
  PROVE  /\ SubSeq(s, 1, n - 1) \o SubSeq(s, n + 1, Len(s)) \in Seq(S)
         /\ Len(SubSeq(s, 1, n - 1) \o SubSeq(s, n + 1, Len(s))) = Len(s) - 1
         /\ \A x \in Range(s) :
              x = s[n] \/ x \in Range(SubSeq(s, 1, n - 1) \o SubSeq(s, n + 1, Len(s)))
<1> DEFINE a == SubSeq(s, 1, n - 1)
           b == SubSeq(s, n + 1, Len(s))
           r == a \o b
           k == Len(s)
<1>1. k \in Nat /\ n \in 1..k /\ DOMAIN s = 1..k /\ \A j \in 1..k : s[j] \in S
  OBVIOUS
<1>2. /\ a \in Seq(S) /\ Len(a) = n - 1
      /\ \A j \in 1..(n - 1) : a[j] = s[j]
  OBVIOUS
<1>3. /\ b \in Seq(S) /\ Len(b) = k - n
      /\ \A j \in 1..(k - n) : b[j] = s[n + j]
  OBVIOUS
<1> HIDE DEF a, b, k
<1>4. /\ r \in Seq(S) /\ Len(r) = Len(a) + Len(b)
      /\ \A j \in 1..(Len(a) + Len(b)) : r[j] = IF j <= Len(a) THEN a[j] ELSE b[j - Len(a)]
  BY <1>2, <1>3, ConcatProperties
<1>5. DOMAIN r = 1..Len(r)
  BY <1>4
<1> HIDE DEF r
<1>6. Len(r) = k - 1 /\ DOMAIN r = 1..(k - 1)
  BY <1>1, <1>2, <1>3, <1>4, <1>5
<1>7. ASSUME NEW j \in 1..k, j # n PROVE s[j] \in Range(r)
  <2>1. CASE j < n
    <3>1. j \in 1..(n - 1) /\ j \in 1..(k - 1) /\ j <= n - 1
      BY <1>1, <2>1
    <3>2. r[j] = s[j]
      BY <1>2, <1>3, <1>4, <1>6, <3>1
    <3> QED
      BY <1>6, <3>1, <3>2 DEF Range
  <2>2. CASE j > n
    <3>1. /\ j - 1 \in 1..(k - 1) /\ ~(j - 1 <= n - 1) /\ (j - 1) - (n - 1) = j - n
          /\ j - n \in 1..(k - n) /\ n + (j - n) = j
      BY <1>1, <2>2
    <3>2. r[j - 1] = b[j - n]
      BY <1>2, <1>4, <1>6, <3>1
    <3>3. r[j - 1] = s[j]
      BY <1>3, <3>1, <3>2
    <3> QED
      BY <1>6, <3>1, <3>3 DEF Range
  <2> QED
    BY <1>1, <1>7, <2>1, <2>2
<1>8. \A x \in Range(s) : x = s[n] \/ x \in Range(r)
  BY <1>1, <1>7 DEF Range
<1> QED
  BY <1>4, <1>6, <1>8 DEF a, b, r, k

\* main's own steps that add no task: they wait, forget and print.
LEMMA MainWaits ==
  ASSUME MainInv, MainFilled \/ MainPoll \/ MainPollAgain \/ MainPrint \/ MainReturn
  PROVE  MainTypeInv' /\ SectionInv' /\ SumInv' /\ WaitInv'
<1>1. UNCHANGED <<vars, sumVars, stale>>
  BY DEF MainFilled, MainPoll, MainPollAgain, MainPrint, MainReturn
<1>2. SectionInv' /\ Summed' = Summed
  BY <1>1, Outside DEF vars, sumVars
<1>3. SumInv'
  BY <1>1, <1>2 DEF MainInv, SumInv, sumVars
<1>4. /\ ret \in [Tasks -> BOOLEAN] /\ allTask \in Seq(Tasks) /\ Len(allTask) \in Nat
      /\ DOMAIN allTask = 1..Len(allTask) /\ i \in Nat /\ sum \in Nat
  BY DEF MainInv, MainTypeInv
<1>5. CASE MainFilled
  <2>1. \A t \in Tasks : t \in Range(allTask)
    BY <1>5, MainAssumption DEF MainFilled, MainInv, WaitInv
  <2>2. MainTypeInv'
    BY <1>1, <1>4, <1>5 DEF MainFilled, MainInv, MainTypeInv, sumVars
  <2>3. WaitInv'
    BY <1>1, <1>4, <1>5, <2>1 DEF MainFilled, WaitInv, sumVars
  <2> QED
    BY <1>2, <1>3, <2>2, <2>3
<1>6. CASE MainPoll
  <2>1. /\ i \in 1..Len(allTask) /\ mpc = "poll" /\ mpc' = "poll"
        /\ i' = i - 1 /\ i' \in Nat
        /\ UNCHANGED <<printed, ret, tpc, sum, reg, stale>>
    BY <1>1, <1>4, <1>6 DEF MainPoll, MainInv, WaitInv, sumVars
  <2>2. \A t \in Tasks : t \in Range(allTask) \/ ret[t]
    BY <2>1 DEF MainInv, WaitInv
  <2>3. CASE ret[allTask[i]]
    <3> DEFINE r == SubSeq(allTask, 1, i - 1) \o SubSeq(allTask, i + 1, Len(allTask))
    <3>1. allTask' = r
      BY <1>6, <2>3 DEF MainPoll
    <3>2. /\ r \in Seq(Tasks) /\ Len(r) = Len(allTask) - 1
          /\ \A t \in Range(allTask) : t = allTask[i] \/ t \in Range(r)
      BY <1>4, <2>1, EraseOne
    <3> HIDE DEF r
    <3>3. WaitInv'
      BY <1>4, <2>1, <2>2, <2>3, <3>1, <3>2 DEF WaitInv
    <3>4. MainTypeInv'
      BY <2>1, <3>1, <3>2 DEF MainInv, MainTypeInv
    <3> QED
      BY <1>2, <1>3, <3>3, <3>4
  <2>4. CASE ~ret[allTask[i]]
    <3>1. allTask' = allTask
      BY <1>6, <2>4 DEF MainPoll
    <3>2. WaitInv'
      BY <1>4, <2>1, <2>2, <3>1 DEF WaitInv
    <3>3. MainTypeInv'
      BY <2>1, <3>1 DEF MainInv, MainTypeInv
    <3> QED
      BY <1>2, <1>3, <3>2, <3>3
  <2> QED
    BY <2>3, <2>4
<1>7. CASE MainPollAgain
  <2>1. MainTypeInv'
    BY <1>1, <1>4, <1>7 DEF MainPollAgain, MainInv, MainTypeInv, sumVars
  <2>2. WaitInv'
    BY <1>1, <1>4, <1>7 DEF MainPollAgain, MainInv, WaitInv, sumVars
  <2> QED
    BY <1>2, <1>3, <2>1, <2>2
<1>8. CASE MainPrint
  <2>1. \A t \in Tasks : ret[t]
    BY <1>8 DEF MainPrint, MainInv, WaitInv, Range
  <2>2. Tasks \subseteq stale \cup Summed
    BY <2>1 DEF MainInv, SumInv
  <2>3. sum + Cardinality(stale) >= taskCount
    <3>1. IsFiniteSet(Tasks) /\ Cardinality(Tasks) = taskCount /\ taskCount \in Nat
      BY MainAssumption, FS_Interval
    <3>2. IsFiniteSet(stale) /\ IsFiniteSet(Summed) /\ Cardinality(Summed) = sum
      BY <3>1, FS_Subset DEF MainInv, MainTypeInv, SumInv
    <3>3. /\ IsFiniteSet(stale \cup Summed) /\ IsFiniteSet(stale \cap Summed)
          /\ Cardinality(stale \cup Summed)
               = Cardinality(stale) + Cardinality(Summed) - Cardinality(stale \cap Summed)
      BY <3>2, FS_Union, FS_Intersection
    <3>4. Cardinality(Tasks) <= Cardinality(stale \cup Summed)
      BY <2>2, <3>3, FS_Subset
    <3>5. /\ Cardinality(stale) \in Nat /\ Cardinality(stale \cap Summed) \in Nat
          /\ Cardinality(stale \cup Summed) \in Nat
      BY <3>2, <3>3, FS_CardinalityType
    <3> QED
      BY <1>4, <3>1, <3>2, <3>3, <3>4, <3>5
  <2>4. WaitInv'
    BY <1>1, <1>8, <2>1, <2>3 DEF MainPrint, WaitInv, sumVars
  <2>5. MainTypeInv'
    BY <1>1, <1>4, <1>8 DEF MainPrint, MainInv, MainTypeInv, sumVars
  <2> QED
    BY <1>2, <1>3, <2>4, <2>5
<1>9. CASE MainReturn
  <2>1. MainTypeInv'
    BY <1>1, <1>9 DEF MainReturn, MainInv, MainTypeInv, sumVars
  <2>2. WaitInv'
    BY <1>1, <1>9 DEF MainReturn, MainInv, WaitInv, sumVars
  <2> QED
    BY <1>2, <1>3, <2>1, <2>2
<1> QED
  BY <1>5, <1>6, <1>7, <1>8, <1>9

\* main makes a task, whose flag may look set, and hands it to the pool.
LEMMA MainAdds ==
  ASSUME MainInv, MainAdd
  PROVE  MainTypeInv' /\ SectionInv' /\ SumInv' /\ WaitInv'
<1>1. /\ mpc = "fill" /\ i \in Nat /\ i + 1 \in Tasks /\ i + 1 \in Nat /\ i' = i + 1
      /\ allTask \in Seq(Tasks) /\ allTask' = Append(allTask, i + 1)
  BY MainAssumption DEF MainAdd, MainInv, MainTypeInv
<1>2. PICK b \in BOOLEAN :
        /\ ret' = [ret EXCEPT ![i + 1] = b]
        /\ stale' = IF b THEN stale \cup {i + 1} ELSE stale
  BY MainAssumption DEF MainAdd
<1>3. UNCHANGED <<mpc, printed, sum, sumMutex, reg, tpc, done, wpc, taskPtr>>
  BY DEF MainAdd, CallAddTask, workerVars
<1>4. SectionInv' /\ Summed' = Summed
  BY <1>3, Outside
<1>5. MainTypeInv'
  <2>1. ret' \in [Tasks -> BOOLEAN] /\ stale' \subseteq Tasks
    BY <1>1, <1>2 DEF MainInv, MainTypeInv
  <2>2. allTask' \in Seq(Tasks)
    BY <1>1
  <2> QED
    BY <1>1, <1>3, <2>1, <2>2 DEF MainInv, MainTypeInv
<1>6. SumInv'
  <2>1. \A t \in Tasks : ret'[t] => t \in stale' \cup Summed
    BY <1>1, <1>2 DEF MainInv, MainTypeInv, SumInv
  <2> QED
    BY <1>3, <1>4, <2>1 DEF MainInv, SumInv
<1>7. WaitInv'
  <2>1. Range(allTask') = Range(allTask) \cup {i + 1}
    BY <1>1, AppendRange
  <2>2. \A t \in 1..i + 1 : t \in 1..i \/ t = i + 1
    BY <1>1
  <2> QED
    BY <1>1, <1>3, <2>1, <2>2 DEF MainInv, WaitInv
<1> QED
  BY <1>4, <1>5, <1>6, <1>7

\* The pool's own steps around doRun.
LEMMA PoolAround ==
  ASSUME MainInv, UNCHANGED <<mainVars, sumVars>>, UNCHANGED done,
         \A w \in Workers : wpc[w] = "run" => wpc'[w] = "run" /\ taskPtr'[w] = taskPtr[w]
  PROVE  MainTypeInv' /\ SectionInv' /\ SumInv' /\ WaitInv'
<1>1. SectionInv' /\ Summed' = Summed
  BY Outside DEF sumVars
<1> QED
  BY <1>1 DEF MainInv, MainTypeInv, SumInv, WaitInv, mainVars, sumVars

\* AddTask::doRun: the increment under the global mutex, then the flag.
LEMMA TaskRuns ==
  ASSUME MainInv, NEW w \in Workers, RunTask(w)
  PROVE  MainTypeInv' /\ SectionInv' /\ SumInv' /\ WaitInv'
<1>1. TypeOK /\ HoldsTask /\ RunOnce /\ MainTypeInv /\ SectionInv /\ SumInv /\ WaitInv
  BY DEF MainInv, TaskInv, SafeInv, TypeInv
<1>2. wpc[w] = "run" /\ UNCHANGED mainVars
  BY DEF RunTask, TaskLock, TaskRead, TaskWrite, TaskStore, TaskReturn, WorkerRun
<1>3. taskPtr[w] # NoTask /\ taskPtr[w] \in Tasks /\ taskPtr[w] \notin done
  BY <1>1, <1>2 DEF HoldsTask, TypeOK, RunOnce, Held
<1>4. \A v \in Workers : tpc[w] # "lock" /\ tpc[v] # "lock" => v = w
  BY <1>1 DEF SectionInv
<1>5. CASE TaskLock(w)
  <2>1. /\ tpc[w] = "lock" /\ sumMutex = NoThread /\ sumMutex' = w
        /\ tpc' = [tpc EXCEPT ![w] = "read"]
        /\ UNCHANGED <<wpc, taskPtr, done, ret, sum, reg>>
    BY <1>5 DEF TaskLock, vars
  <2>2. \A v \in Workers : tpc[v] = "lock"
    BY <1>1, <2>1, ThreadsAssumption DEF SectionInv
  <2>3. MainTypeInv'
    BY <1>1, <1>2, <2>1 DEF MainTypeInv, mainVars
  <2>4. SectionInv'
    BY <1>1, <1>2, <2>1, <2>2 DEF MainTypeInv, SectionInv
  <2>5. Summed' = Summed
    BY <1>1, <2>1, <2>2 DEF MainTypeInv, Summed
  <2> QED
    BY <1>1, <1>2, <2>1, <2>3, <2>4, <2>5 DEF SumInv, WaitInv, mainVars
<1>6. CASE TaskRead(w)
  <2>1. /\ tpc[w] = "read" /\ reg' = [reg EXCEPT ![w] = sum]
        /\ tpc' = [tpc EXCEPT ![w] = "write"]
        /\ UNCHANGED <<wpc, taskPtr, done, ret, sum, sumMutex>>
    BY <1>6 DEF TaskRead, vars
  <2>2. MainTypeInv'
    BY <1>1, <1>2, <2>1 DEF MainTypeInv, mainVars
  <2>3. SectionInv'
    BY <1>1, <1>2, <1>4, <2>1 DEF MainTypeInv, SectionInv
  <2>4. Summed' = Summed
    BY <1>1, <2>1 DEF MainTypeInv, Summed
  <2> QED
    BY <1>1, <1>2, <2>1, <2>2, <2>3, <2>4 DEF SumInv, WaitInv, mainVars
<1>7. CASE TaskWrite(w)
  <2>1. /\ tpc[w] = "write" /\ sum' = reg[w] + 1
        /\ tpc' = [tpc EXCEPT ![w] = "store"]
        /\ UNCHANGED <<wpc, taskPtr, done, ret, reg, sumMutex>>
    BY <1>7 DEF TaskWrite, vars
  <2>2. reg[w] = sum
    BY <1>1, <2>1 DEF SectionInv
  <2>3. MainTypeInv'
    BY <1>1, <1>2, <2>1, <2>2 DEF MainTypeInv, mainVars
  <2>4. SectionInv'
    BY <1>1, <1>2, <1>4, <2>1 DEF MainTypeInv, SectionInv
  <2>5. Summed = done /\ Summed' = Summed \cup {taskPtr[w]}
    BY <1>1, <1>4, <2>1 DEF MainTypeInv, Summed
  <2>6. taskPtr[w] \notin Summed
    BY <1>3, <2>5
  <2>7. IsFiniteSet(Summed') /\ Cardinality(Summed') = Cardinality(Summed) + 1
    BY <1>1, <2>5, <2>6, FS_AddElement DEF SumInv
  <2>8. SumInv'
    BY <1>1, <1>2, <1>3, <2>1, <2>2, <2>5, <2>7 DEF SumInv, mainVars
  <2> QED
    BY <1>1, <1>2, <2>1, <2>3, <2>4, <2>8 DEF WaitInv, mainVars
<1>8. CASE TaskStore(w)
  <2>1. /\ tpc[w] = "store" /\ ret' = [ret EXCEPT ![taskPtr[w]] = TRUE]
        /\ tpc' = [tpc EXCEPT ![w] = "return"]
        /\ UNCHANGED <<wpc, taskPtr, done, sum, reg, sumMutex>>
    BY <1>8 DEF TaskStore, vars
  <2>2. MainTypeInv'
    BY <1>1, <1>2, <1>3, <2>1 DEF MainTypeInv, mainVars
  <2>3. SectionInv'
    BY <1>1, <1>2, <1>4, <2>1 DEF MainTypeInv, SectionInv
  <2>4. Summed' = Summed /\ taskPtr[w] \in Summed
    BY <1>1, <2>1 DEF MainTypeInv, Summed
  <2>5. \A t \in Tasks : (ret'[t] <=> ret[t] \/ t = taskPtr[w])
    BY <1>1, <1>3, <2>1 DEF MainTypeInv
  <2>6. SumInv'
    BY <1>1, <1>2, <2>1, <2>4, <2>5 DEF SumInv, mainVars
  <2>7. WaitInv'
    BY <1>1, <1>2, <2>5 DEF WaitInv, mainVars
  <2> QED
    BY <2>2, <2>3, <2>6, <2>7
<1>9. CASE TaskReturn(w)
  <2>1. /\ tpc[w] = "return" /\ sumMutex' = NoThread
        /\ tpc' = [tpc EXCEPT ![w] = "lock"]
        /\ done' = done \cup {taskPtr[w]}
        /\ UNCHANGED <<ret, sum, reg>>
    BY <1>9 DEF TaskReturn, WorkerRun
  <2>2. \A v \in Workers : tpc'[v] = "lock"
    BY <1>1, <1>4, <2>1 DEF MainTypeInv
  <2>3. MainTypeInv'
    BY <1>1, <1>2, <2>1 DEF MainTypeInv, mainVars
  <2>4. SectionInv'
    BY <2>2 DEF SectionInv
  <2>5. Summed = done \cup {taskPtr[w]} /\ Summed' = done'
    BY <1>4, <2>1, <2>2 DEF Summed
  <2> QED
    BY <1>1, <1>2, <2>1, <2>3, <2>4, <2>5 DEF SumInv, WaitInv, mainVars
<1> QED
  BY <1>5, <1>6, <1>7, <1>8, <1>9 DEF RunTask

\* The invariant of main and its tasks beside the pool's, and the steps that do
\* not concern it.
OwnInv == MainTypeInv /\ SectionInv /\ SumInv /\ WaitInv
Around ==
  /\ UNCHANGED <<mainVars, sumVars>> /\ UNCHANGED done
  /\ \A w \in Workers : wpc[w] = "run" => wpc'[w] = "run" /\ taskPtr'[w] = taskPtr[w]

\* Every step of the program keeps the invariant.
LEMMA MainStepInv == MainInv /\ [MainNext]_allVars => MainInv'
<1> SUFFICES ASSUME MainInv, [MainNext]_allVars PROVE MainInv'
  OBVIOUS
<1>1. TaskInv /\ [Next]_vars
  BY PoolSteps DEF MainInv
<1>2. TaskInv'
  BY <1>1, TypeStep, MutexStep, LifeStep, FreshStep, OrderStep DEF TaskInv, SafeInv
<1> SUFFICES OwnInv'
  BY <1>2 DEF MainInv, OwnInv
<1>3. TypeOK /\ Unborn
  BY <1>1 DEF TaskInv, SafeInv, TypeInv
<1>4. Around => OwnInv'
  BY PoolAround DEF Around, OwnInv
<1>5. CASE MainAdd
  BY <1>5, MainAdds DEF OwnInv
<1>6. CASE MainFilled \/ MainPoll \/ MainPollAgain \/ MainPrint \/ MainReturn
  BY <1>6, MainWaits DEF OwnInv
<1>7. CASE MainClose
  BY <1>4, <1>7 DEF Around, MainClose, CloseLock, workerVars
<1>8. CASE (Construct \/ Client(Main) \/ Close) /\ UNCHANGED <<mainVars, sumVars>>
  <2>1. CASE SpawnWorker
    <3>1. wpc[idx + 1] = "unborn" /\ idx + 1 \in Workers
      BY <1>3, <2>1, ThreadCountAssumption DEF SpawnWorker, Unborn, TypeOK, Workers
    <3>2. Around
      BY <1>3, <1>8, <2>1, <3>1 DEF Around, SpawnWorker, TypeOK
    <3> QED
      BY <1>4, <3>2
  <2>2. CASE Constructed \/ CloseUnlock \/ Join \/ Closed
    BY <1>4, <1>8, <2>2 DEF Around, Constructed, CloseUnlock, Join, Closed, workerVars
  <2>3. CASE CloseSwap
    BY <1>4, <1>8, <2>3 DEF Around, CloseSwap, Wake, waiting
  <2>4. CASE ClientLock(Main) \/ ClientPush(Main) \/ ClientUnlock(Main)
    BY <1>4, <1>8, <2>4 DEF Around, ClientLock, ClientPush, ClientUnlock, workerVars
  <2>5. CASE ClientNotify(Main)
    <3>1. PICK woken \in WokenSets(notifyAll[Main]) : wpc' = Wake(woken)
      BY <2>5 DEF ClientNotify
    <3>2. woken \subseteq waiting
      BY DEF WokenSets
    <3> QED
      BY <1>4, <1>8, <2>5, <3>1, <3>2 DEF Around, ClientNotify, Wake, waiting
  <2> QED
    BY <1>8, <2>1, <2>2, <2>3, <2>4, <2>5 DEF Construct, Close, Client
<1>9. ASSUME NEW w \in Workers, PoolWorker(w) PROVE OwnInv'
  <2>1. Around
    BY <1>3, <1>9 DEF Around, PoolWorker, WorkerLock, WorkerWait, WorkerExit, WorkerTake,
                      WorkerUnlock, TypeOK, workerVars
  <2> QED
    BY <1>4, <2>1
<1>10. ASSUME NEW w \in Workers, RunTask(w) PROVE OwnInv'
  BY <1>10, TaskRuns DEF OwnInv
<1>11. ASSUME NEW w \in Workers, SpuriousWakeup(w), UNCHANGED <<mainVars, sumVars>> PROVE OwnInv'
  BY <1>4, <1>11 DEF Around, SpuriousWakeup, Wake, waiting
<1>12. CASE Terminated /\ UNCHANGED <<mainVars, sumVars>>
  BY <1>4, <1>12 DEF Around, Terminated, vars
<1>13. CASE UNCHANGED allVars
  BY <1>4, <1>13 DEF Around, allVars, vars
<1> QED
  BY <1>5, <1>6, <1>7, <1>8, <1>9, <1>10, <1>11, <1>12, <1>13 DEF MainNext, MainStep

---------------------------------------------------------------------------
(* What main prints.                                                           *)

\* A task that has added to the sum is neither queued nor before its increment.
LEMMA NotBoth == MainInv => Summed \cap Unsummed = {}
<1> SUFFICES ASSUME MainInv, NEW t \in Summed, t \in Unsummed PROVE FALSE
  OBVIOUS
<1>1. TypeOK /\ HoldsTask /\ FifoOrder /\ RunOnce /\ IsInjective(accepted) /\ SectionInv
  BY DEF MainInv, TaskInv, SafeInv, TypeInv, FreshInv
<1>2. Summed \subseteq Range(handed)
  <2>1. \A w \in Workers : tpc[w] \in {"store", "return"} => taskPtr[w] \in Held
    BY <1>1 DEF SectionInv, HoldsTask, Held
  <2> QED
    BY <1>1, <2>1 DEF Summed, RunOnce
<1>3. CASE t \in Range(tasks)
  <2>1. handed \in Seq(Tasks) /\ dropped \in Seq(Tasks) /\ tasks \in Seq(Tasks)
    BY <1>1 DEF TypeOK
  <2>2. handed \o dropped \in Seq(Tasks) /\ IsInjective((handed \o dropped) \o tasks)
    BY <1>1, <2>1, ConcatProperties DEF FifoOrder
  <2>3. Range(handed \o dropped) \cap Range(tasks) = {}
    BY <2>1, <2>2, ConcatInjective
  <2>4. Range(handed) \subseteq Range(handed \o dropped)
    <3>1. /\ Len(handed) \in Nat /\ Len(dropped) \in Nat /\ DOMAIN handed = 1..Len(handed)
          /\ DOMAIN (handed \o dropped) = 1..Len(handed) + Len(dropped)
          /\ \A j \in 1..Len(handed) : (handed \o dropped)[j] = handed[j]
      BY <2>1
    <3> QED
      BY <3>1 DEF Range
  <2> QED
    BY <1>2, <1>3, <2>3, <2>4
<1>4. CASE \E v \in Workers : /\ wpc[v] \in {"unlock", "run"}
                              /\ tpc[v] \in {"lock", "read", "write"} /\ t = taskPtr[v]
  <2>1. PICK v \in Workers : /\ wpc[v] \in {"unlock", "run"}
                             /\ tpc[v] \in {"lock", "read", "write"} /\ t = taskPtr[v]
    BY <1>4
  <2>2. t # NoTask /\ t \in Held /\ t \notin done
    BY <1>1, <2>1 DEF HoldsTask, Held, RunOnce
  <2>3. PICK w \in Workers : tpc[w] \in {"store", "return"} /\ t = taskPtr[w]
    BY <2>2 DEF Summed
  <2> QED
    BY <1>1, <2>1, <2>2, <2>3 DEF RunOnce
<1> QED
  BY <1>3, <1>4 DEF Unsummed

\* Once all flags were seen, whoever has not added looked finished from the start.
LEMMA PrintsAll == MainInv => PrintsCompleteSum
<1> SUFFICES ASSUME MainInv, mpc \in {"printed", "destroy"}
             PROVE  printed + Cardinality(stale) >= taskCount /\ Unsummed \subseteq stale
  BY DEF PrintsCompleteSum
<1>1. allTask = <<>> /\ printed + Cardinality(stale) >= taskCount
  BY DEF MainInv, WaitInv
<1>2. \A t \in Tasks : ret[t]
  BY <1>1 DEF MainInv, WaitInv, Range
<1>3. Tasks \subseteq stale \cup Summed
  BY <1>2 DEF MainInv, SumInv
<1>4. Unsummed \subseteq Tasks
  <2>1. TypeOK /\ HoldsTask
    BY DEF MainInv, TaskInv, SafeInv, TypeInv
  <2>2. Range(tasks) \subseteq Tasks
    BY <2>1 DEF TypeOK, Range
  <2> QED
    BY <2>1, <2>2 DEF Unsummed, TypeOK, HoldsTask
<1> QED
  BY <1>1, <1>3, <1>4, NotBoth

\* main of ThreadPool/main.cpp: the sum it prints lacks at most the tasks whose
\* uninitialised _ret looked set, and no other task touches the local variable
\* sum after main has left its scope, for any number of tasks and workers.
THEOREM SumIsComplete == MainSpec => []PrintsCompleteSum
<1>1. MainInit => MainInv
  BY MainInitially
<1>2. MainInv /\ [MainNext]_allVars => MainInv'
  BY MainStepInv
<1>3. MainInv => PrintsCompleteSum
  BY PrintsAll
<1>4. MainSpec => MainInit /\ [][MainNext]_allVars
  BY PTL DEF MainSpec
<1> QED
  BY <1>1, <1>2, <1>3, <1>4, PTL
==============================================================================
