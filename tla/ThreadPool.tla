------------------------------ MODULE ThreadPool ------------------------------
(***************************************************************************)
(* The thread pool of ThreadPool/ThreadPool.{h,cpp}: a queue of tasks, a   *)
(* mutex, one condition variable and threadCount workers.                  *)
(*                                                                         *)
(* Threads: the workers 1..threadCount (ThreadWork::doRun), the clients    *)
(* (callers of the two addTask overloads) and the owner, the thread that   *)
(* constructs the pool and later destroys it.  Every step below is one     *)
(* access of a thread to shared state, so the steps of different threads   *)
(* interleave as they do in the program.                                   *)
(*                                                                         *)
(* C++ object lifetime: a client may call addTask only on a constructed    *)
(* pool that is not being destroyed, and the destructor starts only when   *)
(* no call of addTask is in progress.                                      *)
(***************************************************************************)
EXTENDS Integers, Sequences, FiniteSets, Functions

CONSTANTS threadCount,  \* number of workers (the constructor's argument)
          Tasks,        \* the task objects, each submitted at most once
          Clients,      \* the threads that call addTask
          MaxBatch,     \* bound: the longest vector given to addTask
          MaxEmpty,     \* bound: calls of addTask with an empty vector
          MaxSpurious,  \* bound: spurious wake-ups of the condition variable
          Owner,        \* the thread that constructs and destroys the pool
          NoThread,     \* the mutex is free
          NoTask        \* an empty TaskPtr

ASSUME ThreadCountAssumption == threadCount \in Nat
ASSUME BoundsAssumption ==
  MaxBatch \in Nat /\ MaxEmpty \in Nat /\ MaxSpurious \in Nat

Workers == 1..threadCount

ASSUME TasksAssumption == NoTask \notin Tasks
ASSUME ThreadsAssumption ==
  /\ IsFiniteSet(Clients)
  /\ Clients \cap Workers = {}
  /\ Owner \notin Clients \cup Workers
  /\ NoThread \notin Clients \cup Workers \cup {Owner}

VARIABLES
  tasks,      \* ThreadPool::_tasks, the queue, oldest task first
  flag,       \* ThreadPool::_flag
  mutex,      \* holder of ThreadPool::_mutex
  wpc,        \* wpc[w]: where worker w is in ThreadWork::doRun
  taskPtr,    \* taskPtr[w]: the local variable of doRun
  cpc,        \* cpc[c]: where client c is in addTask
  batch,      \* batch[c]: tasks of the current call not pushed yet
  notifyAll,  \* notifyAll[c]: the call is addTask(vector)
  emptyCalls, \* number of calls with an empty vector so far
  opc,        \* where the owner is in the pool's life
  idx,        \* loop counter of the constructor and of close()
  spurious,   \* number of spurious wake-ups so far
  submitted,  \* history: the tasks given to addTask
  accepted,   \* history: the tasks pushed, in order
  handed,     \* history: the tasks popped by workers, in order
  dropped,    \* history: the tasks close() threw away, in order
  done        \* history: the tasks whose doRun has returned

queueVars == <<tasks, flag, accepted, handed, dropped>>
workerVars == <<wpc, taskPtr, spurious, done>>
clientVars == <<cpc, batch, notifyAll, emptyCalls, submitted>>
ownerVars == <<opc, idx>>
vars == <<tasks, flag, mutex, wpc, taskPtr, cpc, batch, notifyAll,
          emptyCalls, opc, idx, spurious, submitted, accepted, handed, dropped, done>>

WorkerPC == {"unborn", "lock", "test", "unlock", "run", "wait", "exited"}
ClientPC == {"idle", "lock", "push", "unlock", "notify"}
OwnerPC == {"construct", "open", "swap", "unlock", "join", "closed"}

\* The workers blocked on the condition variable _variable.
waiting == {w \in Workers : wpc[w] = "wait"}
\* notify_one and notify_all: a woken worker has to take the mutex again.
Wake(woken) == [w \in Workers |-> IF w \in woken THEN "lock" ELSE wpc[w]]

\* The vectors a client may pass to addTask(const std::vector<TaskPtr>&).
Vectors == {v \in UNION {[1..n -> Tasks] : n \in 0..MaxBatch} : IsInjective(v)}

Init ==
  /\ tasks = <<>>
  /\ flag = FALSE
  /\ mutex = NoThread
  /\ wpc = [w \in Workers |-> "unborn"]
  /\ taskPtr = [w \in Workers |-> NoTask]
  /\ cpc = [c \in Clients |-> "idle"]
  /\ batch = [c \in Clients |-> <<>>]
  /\ notifyAll = [c \in Clients |-> FALSE]
  /\ emptyCalls = 0
  /\ opc = "construct"
  /\ idx = 0
  /\ spurious = 0
  /\ submitted = {}
  /\ accepted = <<>>
  /\ handed = <<>>
  /\ dropped = <<>>
  /\ done = {}

------------------------------------------------------------------------------
(* The owner: constructor, destructor and close().                         *)

\* One iteration of the constructor's loop: worker idx + 1 starts running.
SpawnWorker ==
  /\ opc = "construct"
  /\ idx < threadCount
  /\ idx' = idx + 1
  /\ wpc' = [wpc EXCEPT ![idx + 1] = "lock"]
  /\ UNCHANGED <<queueVars, clientVars, mutex, taskPtr, spurious,
                 done, opc>>

\* The constructor returns.
Constructed ==
  /\ opc = "construct"
  /\ idx = threadCount
  /\ opc' = "open"
  /\ idx' = 0
  /\ UNCHANGED <<queueVars, clientVars, workerVars, mutex>>

\* ~ThreadPool calls close(), which locks the mutex.
CloseLock ==
  /\ opc = "open"
  /\ \A c \in Clients : cpc[c] = "idle"
  /\ mutex = NoThread
  /\ mutex' = Owner
  /\ opc' = "swap"
  /\ UNCHANGED <<queueVars, clientVars, workerVars, idx>>

\* Mutant: close() does not notify the waiting workers.
CloseSilently ==
  /\ opc = "swap"
  /\ tasks' = <<>>
  /\ dropped' = tasks
  /\ flag' = TRUE
  /\ opc' = "unlock"
  /\ UNCHANGED <<clientVars, workerVars, mutex, idx, accepted, handed>>

\* TaskQueue().swap(_tasks); _flag = true; _variable.notify_all().
CloseSwap ==
  /\ opc = "swap"
  /\ tasks' = <<>>
  /\ dropped' = tasks
  /\ flag' = TRUE
  /\ wpc' = Wake(waiting)
  /\ opc' = "unlock"
  /\ UNCHANGED <<clientVars, mutex, taskPtr, spurious, done, idx, accepted,
                 handed>>

CloseUnlock ==
  /\ opc = "unlock"
  /\ mutex' = NoThread
  /\ opc' = "join"
  /\ UNCHANGED <<queueVars, clientVars, workerVars, idx>>

\* Mutant: the workers are detached instead of joined.
Detach ==
  /\ opc = "join"
  /\ idx < threadCount
  /\ idx' = idx + 1
  /\ UNCHANGED <<queueVars, clientVars, workerVars, mutex, opc>>

\* _works[i]->_thread->join(): the workers are joined in index order.
Join ==
  /\ opc = "join"
  /\ idx < threadCount
  /\ wpc[idx + 1] = "exited"
  /\ idx' = idx + 1
  /\ UNCHANGED <<queueVars, clientVars, workerVars, mutex, opc>>

\* _works.clear(); the members of the pool are destroyed.
Closed ==
  /\ opc = "join"
  /\ idx = threadCount
  /\ opc' = "closed"
  /\ UNCHANGED <<queueVars, clientVars, workerVars, mutex, idx>>

------------------------------------------------------------------------------
(* A client: the two overloads of addTask.                                 *)

CallAddTask(c, v, all) ==
  /\ opc = "open"
  /\ cpc[c] = "idle"
  /\ Range(v) \cap submitted = {}
  /\ submitted' = submitted \cup Range(v)
  /\ v = <<>> => emptyCalls < MaxEmpty
  /\ emptyCalls' = IF v = <<>> THEN emptyCalls + 1 ELSE emptyCalls
  /\ batch' = [batch EXCEPT ![c] = v]
  /\ notifyAll' = [notifyAll EXCEPT ![c] = all]
  /\ cpc' = [cpc EXCEPT ![c] = "lock"]
  /\ UNCHANGED <<queueVars, workerVars, ownerVars, mutex>>

\* addTask(const TaskPtr&) and addTask(const std::vector<TaskPtr>&).
AddTask(c) == \E t \in Tasks : CallAddTask(c, <<t>>, FALSE)
AddTasks(c) == \E v \in Vectors : CallAddTask(c, v, TRUE)

ClientLock(c) ==
  /\ cpc[c] = "lock"
  /\ mutex = NoThread
  /\ mutex' = c
  /\ cpc' = [cpc EXCEPT ![c] = "push"]
  /\ UNCHANGED <<queueVars, workerVars, ownerVars, batch, notifyAll, emptyCalls,
                 submitted>>

\* Mutant: the newest task is put in front.
PushFront(c) ==
  /\ cpc[c] = "push"
  /\ batch[c] # <<>>
  /\ tasks' = <<Head(batch[c])>> \o tasks
  /\ accepted' = Append(accepted, Head(batch[c]))
  /\ batch' = [batch EXCEPT ![c] = Tail(batch[c])]
  /\ UNCHANGED <<workerVars, ownerVars, mutex, flag, handed, dropped, cpc,
                 notifyAll, emptyCalls, submitted>>

\* _tasks.push(task), once for every task of the call.
ClientPush(c) ==
  /\ cpc[c] = "push"
  /\ batch[c] # <<>>
  /\ tasks' = Append(tasks, Head(batch[c]))
  /\ accepted' = Append(accepted, Head(batch[c]))
  /\ batch' = [batch EXCEPT ![c] = Tail(batch[c])]
  /\ UNCHANGED <<workerVars, ownerVars, mutex, flag, handed, dropped, cpc,
                 notifyAll, emptyCalls, submitted>>

\* The mutex is released before the condition variable is notified.
ClientUnlock(c) ==
  /\ cpc[c] = "push"
  /\ batch[c] = <<>>
  /\ mutex' = NoThread
  /\ cpc' = [cpc EXCEPT ![c] = "notify"]
  /\ UNCHANGED <<queueVars, workerVars, ownerVars, batch, notifyAll, emptyCalls,
                 submitted>>

\* Mutant: addTask(vector) calls notify_one.
WakeOnlyOne(all) ==
  IF waiting = {} THEN {{}} ELSE {{w} : w \in waiting}

\* The sets of waiters a call of notify_one or notify_all may wake.
WokenSets(all) ==
  IF all \/ waiting = {} THEN {waiting} ELSE {{w} : w \in waiting}

\* Mutant: addTask returns without a notification.
ForgetNotify(c) ==
  /\ cpc[c] = "notify"
  /\ cpc' = [cpc EXCEPT ![c] = "idle"]
  /\ UNCHANGED <<queueVars, workerVars, ownerVars, mutex, batch, notifyAll,
                 emptyCalls, submitted>>

ClientNotify(c) ==
  /\ cpc[c] = "notify"
  /\ \E woken \in WokenSets(notifyAll[c]) : wpc' = Wake(woken)
  /\ cpc' = [cpc EXCEPT ![c] = "idle"]
  /\ UNCHANGED <<queueVars, ownerVars, mutex, taskPtr, spurious, done, batch,
                 notifyAll, emptyCalls, submitted>>

------------------------------------------------------------------------------
(* A worker: ThreadWork::doRun.                                            *)

WorkerLock(w) ==
  /\ wpc[w] = "lock"
  /\ mutex = NoThread
  /\ mutex' = w
  /\ wpc' = [wpc EXCEPT ![w] = "test"]
  /\ UNCHANGED <<queueVars, clientVars, ownerVars, taskPtr, spurious,
                 done>>

\* The predicate of _variable.wait is false: release the mutex and block.
WorkerWait(w) ==
  /\ wpc[w] = "test"
  /\ tasks = <<>> /\ ~flag
  /\ mutex' = NoThread
  /\ wpc' = [wpc EXCEPT ![w] = "wait"]
  /\ UNCHANGED <<queueVars, clientVars, ownerVars, taskPtr, spurious, done>>

\* A wake-up without a notification, which the standard allows.
SpuriousWakeup(w) ==
  /\ w \in waiting
  /\ spurious < MaxSpurious
  /\ spurious' = spurious + 1
  /\ wpc' = Wake({w})
  /\ UNCHANGED <<queueVars, clientVars, ownerVars, mutex, taskPtr, done>>

\* The queue is empty and the flag is set: leave doRun, releasing the mutex.
WorkerExit(w) ==
  /\ wpc[w] = "test"
  /\ tasks = <<>> /\ flag
  /\ mutex' = NoThread
  /\ wpc' = [wpc EXCEPT ![w] = "exited"]
  /\ UNCHANGED <<queueVars, clientVars, ownerVars, taskPtr, spurious,
                 done>>

\* Mutant: the front task is not popped.
TakeWithoutPop(w) ==
  /\ wpc[w] = "test"
  /\ tasks # <<>>
  /\ taskPtr' = [taskPtr EXCEPT ![w] = Head(tasks)]
  /\ handed' = Append(handed, Head(tasks))
  /\ wpc' = [wpc EXCEPT ![w] = "unlock"]
  /\ UNCHANGED <<clientVars, ownerVars, mutex, tasks, flag, accepted, dropped,
                 spurious, done>>

\* taskPtr = std::move(front()); pop().
WorkerTake(w) ==
  /\ wpc[w] = "test"
  /\ tasks # <<>>
  /\ taskPtr' = [taskPtr EXCEPT ![w] = Head(tasks)]
  /\ handed' = Append(handed, Head(tasks))
  /\ tasks' = Tail(tasks)
  /\ wpc' = [wpc EXCEPT ![w] = "unlock"]
  /\ UNCHANGED <<clientVars, ownerVars, mutex, flag, accepted, dropped,
                 spurious, done>>

WorkerUnlock(w) ==
  /\ wpc[w] = "unlock"
  /\ mutex' = NoThread
  /\ wpc' = [wpc EXCEPT ![w] = "run"]
  /\ UNCHANGED <<queueVars, clientVars, ownerVars, taskPtr, spurious,
                 done>>

\* taskPtr->doRun() returns and the loop starts again.
WorkerRun(w) ==
  /\ wpc[w] = "run"
  /\ done' = done \cup {taskPtr[w]}
  /\ taskPtr' = [taskPtr EXCEPT ![w] = NoTask]
  /\ wpc' = [wpc EXCEPT ![w] = "lock"]
  /\ UNCHANGED <<queueVars, clientVars, ownerVars, mutex, spurious>>

------------------------------------------------------------------------------
Construct == SpawnWorker \/ Constructed
Close == CloseSwap \/ CloseUnlock \/ Join \/ Closed
Client(c) == ClientLock(c) \/ ClientPush(c) \/ ClientUnlock(c) \/ ClientNotify(c)
Worker(w) ==
  \/ WorkerLock(w) \/ WorkerWait(w) \/ WorkerExit(w)
  \/ WorkerTake(w) \/ WorkerUnlock(w) \/ WorkerRun(w)

\* The pool is gone and every worker has ended: nothing more happens.
Terminated == opc = "closed" /\ UNCHANGED vars

Next ==
  \/ Construct \/ CloseLock \/ Close
  \/ \E c \in Clients : AddTask(c) \/ AddTasks(c) \/ Client(c)
  \/ \E w \in Workers : Worker(w) \/ SpuriousWakeup(w)
  \/ Terminated

Spec == Init /\ [][Next]_vars

\* Every thread that can take a step of the pool's code eventually does (the
\* operating system schedules every runnable thread, doRun of a task returns).
\* Nobody is obliged to call addTask or to destroy the pool, and a wake-up
\* without a notification may never come.
Fairness ==
  /\ WF_vars(Construct)
  /\ WF_vars(Close)
  /\ \A c \in Clients : WF_vars(Client(c))
  /\ \A w \in Workers : WF_vars(Worker(w))

FairSpec == Spec /\ Fairness

------------------------------------------------------------------------------
(* Properties.                                                             *)

\* Every variable has the type the code gives it.
TypeOK ==
  /\ tasks \in Seq(Tasks)
  /\ flag \in BOOLEAN
  /\ mutex \in {NoThread, Owner} \cup Workers \cup Clients
  /\ wpc \in [Workers -> WorkerPC]
  /\ taskPtr \in [Workers -> Tasks \cup {NoTask}]
  /\ cpc \in [Clients -> ClientPC]
  /\ batch \in [Clients -> Seq(Tasks)]
  /\ notifyAll \in [Clients -> BOOLEAN]
  /\ emptyCalls \in 0..MaxEmpty
  /\ opc \in OwnerPC
  /\ idx \in 0..threadCount
  /\ spurious \in 0..MaxSpurious
  /\ submitted \subseteq Tasks
  /\ accepted \in Seq(Tasks)
  /\ handed \in Seq(Tasks)
  /\ dropped \in Seq(Tasks)
  /\ done \subseteq Tasks

\* The tasks popped by a worker whose doRun has not returned.
Held == {taskPtr[w] : w \in Workers} \ {NoTask}

\* Tasks leave the queue in the order in which they were pushed: popped ones
\* first, then the ones close() threw away, and none is lost or duplicated.
FifoOrder == accepted = handed \o dropped \o tasks

\* doRun is called at most once on every task: a popped task is either being
\* run by exactly one worker or finished, never both and never again.
RunOnce ==
  /\ IsInjective(handed)
  /\ Range(handed) = done \cup Held
  /\ done \cap Held = {}
  /\ \A v, w \in Workers : taskPtr[v] = taskPtr[w] /\ v # w => taskPtr[v] = NoTask

\* Workers on their way to look at the queue.
Awake == {w \in Workers : wpc[w] \in {"lock", "test"}}
\* Calls of addTask(task) that pushed their task and have not notified yet.
OneToNotify ==
  {c \in Clients : cpc[c] \in {"push", "notify"} /\ ~notifyAll[c] /\ batch[c] = <<>>}
\* Calls of addTask(vector) that may have pushed and have not notified yet.
AllToNotify == {c \in Clients : cpc[c] \in {"push", "notify"} /\ notifyAll[c]}

\* No wake-up is lost although notify_one comes after the unlock: while a
\* worker sleeps, every queued task has a worker on its way to the queue or a
\* notification that is still to come.
NoLostWakeup ==
  waiting # {} /\ AllToNotify = {} =>
     Len(tasks) <= Cardinality(Awake) + Cardinality(OneToNotify)

\* When close() has returned no worker is inside doRun or holds the mutex, so
\* nothing touches the members of the pool that are then destroyed.
QuietWhenClosed ==
  opc = "closed" =>
    /\ mutex = NoThread
    /\ \A w \in Workers : wpc[w] = "exited" /\ taskPtr[w] = NoTask

\* Once close() has set the flag no worker starts another task, even one that
\* was already on its way to the queue.
NoStartAfterClose == [][flag => handed' = handed]_vars

\* Every pushed task is run, unless close() discards it.
EveryTaskServed ==
  \A t \in Tasks : t \in Range(accepted) ~> t \in done \cup Range(dropped)

\* The destructor returns: every worker sees the flag and can be joined.
DestructionCompletes == opc = "swap" ~> opc = "closed"

\* The pool with its threads and locks implements the pool its users see: the
\* popped tasks that have not returned are the running ones, and the flag
\* separates the open pool from the one that drains.
Phase == IF opc = "closed" THEN "closed" ELSE IF flag THEN "draining" ELSE "open"
Abstract ==
  INSTANCE TaskPool WITH queue <- tasks, running <- Held, finished <- done,
                         phase <- Phase
ImplementsTaskPool == Abstract!Spec

==============================================================================
