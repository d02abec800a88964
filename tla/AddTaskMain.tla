----------------------------- MODULE AddTaskMain -----------------------------
(***************************************************************************)
(* ThreadPool/main.cpp: the main thread gives taskCount AddTask objects to *)
(* the pool, polls finished() until it has erased all of them from allTask *)
(* and prints sum.  At the end of main the locals die in reverse order:    *)
(* allTask, sum, and then the pool, whose destructor joins the workers.    *)
(*                                                                         *)
(* AddTask::doRun increments *_sum under a global mutex and then sets the  *)
(* task's flag _ret.  Task's constructor does not initialise _ret; the     *)
(* values it may start with are the constant InitialRet, and stale records *)
(* the tasks that looked finished from the start.                          *)
(***************************************************************************)
EXTENDS ThreadPool

CONSTANTS taskCount,   \* number of tasks (500000 in the program)
          InitialRet,  \* values an uninitialised std::atomic_bool may hold
          Main         \* the only client

ASSUME MainAssumption ==
  /\ taskCount \in Nat
  /\ Tasks = 1..taskCount
  /\ Clients = {Main}
  /\ InitialRet \subseteq BOOLEAN

VARIABLES
  ret,       \* ret[t]: Task::_ret
  sum,       \* the local variable of main that *_sum refers to
  sumMutex,  \* holder of the global mutex of main.cpp
  reg,       \* reg[w]: the value read by worker w for (*_sum)++
  tpc,       \* tpc[w]: where worker w is in AddTask::doRun
  allTask,   \* the vector of tasks main still waits for
  i,         \* loop counter of main
  mpc,       \* where main is
  printed,   \* what main prints
  stale      \* history: the tasks whose flag was true when they were made

mainVars == <<allTask, i, mpc, printed, stale>>
sumVars == <<ret, sum, sumMutex, reg, tpc>>
allVars == <<vars, mainVars, sumVars>>

MainInit ==
  /\ Init
  /\ ret = [t \in Tasks |-> FALSE]
  /\ sum = 0
  /\ sumMutex = NoThread
  /\ reg = [w \in Workers |-> 0]
  /\ tpc = [w \in Workers |-> "lock"]
  /\ allTask = <<>>
  /\ i = 0
  /\ mpc = "fill"
  /\ printed = -1
  /\ stale = {}

------------------------------------------------------------------------------
\* make_shared<AddTask>(&sum), push_back and the call of addTask.
MainAdd ==
  /\ mpc = "fill"
  /\ i < taskCount
  /\ \E b \in InitialRet :
       /\ ret' = [ret EXCEPT ![i + 1] = b]
       /\ stale' = IF b THEN stale \cup {i + 1} ELSE stale
  /\ allTask' = Append(allTask, i + 1)
  /\ CallAddTask(Main, <<i + 1>>, FALSE)
  /\ i' = i + 1
  /\ UNCHANGED <<mpc, printed, sum, sumMutex, reg, tpc>>

MainFilled ==
  /\ mpc = "fill"
  /\ i = taskCount
  /\ opc = "open"
  /\ cpc[Main] = "idle"
  /\ mpc' = "poll"
  /\ i' = Len(allTask)
  /\ UNCHANGED <<vars, sumVars, allTask, printed, stale>>

\* if (allTask[i]->finished()) allTask.erase(...), from the last to the first.
MainPoll ==
  /\ mpc = "poll"
  /\ i > 0
  /\ allTask' = IF ret[allTask[i]]
                THEN SubSeq(allTask, 1, i - 1) \o SubSeq(allTask, i + 1, Len(allTask))
                ELSE allTask
  /\ i' = i - 1
  /\ UNCHANGED <<vars, sumVars, mpc, printed, stale>>

\* while (!allTask.empty())
MainPollAgain ==
  /\ mpc = "poll"
  /\ i = 0
  /\ allTask # <<>>
  /\ i' = Len(allTask)
  /\ UNCHANGED <<vars, sumVars, allTask, mpc, printed, stale>>

MainPrint ==
  /\ mpc = "poll"
  /\ i = 0
  /\ allTask = <<>>
  /\ printed' = sum
  /\ mpc' = "printed"
  /\ UNCHANGED <<vars, sumVars, allTask, i, stale>>

\* return 0: sum goes out of scope, then the pool is destroyed.
MainReturn ==
  /\ mpc = "printed"
  /\ mpc' = "destroy"
  /\ UNCHANGED <<vars, sumVars, allTask, i, printed, stale>>

MainClose == mpc = "destroy" /\ CloseLock /\ UNCHANGED <<mainVars, sumVars>>

------------------------------------------------------------------------------
\* Mutant: doRun does not wait for the global mutex.
TaskWithoutLock(w) ==
  /\ wpc[w] = "run" /\ tpc[w] = "lock"
  /\ sumMutex' = w
  /\ tpc' = [tpc EXCEPT ![w] = "read"]
  /\ UNCHANGED <<vars, mainVars, ret, sum, reg>>

\* AddTask::doRun, called by worker w: std::lock_guard locker(mutex).
TaskLock(w) ==
  /\ wpc[w] = "run" /\ tpc[w] = "lock"
  /\ sumMutex = NoThread
  /\ sumMutex' = w
  /\ tpc' = [tpc EXCEPT ![w] = "read"]
  /\ UNCHANGED <<vars, mainVars, ret, sum, reg>>

\* (*_sum)++ reads the variable and writes it back.
TaskRead(w) ==
  /\ wpc[w] = "run" /\ tpc[w] = "read"
  /\ reg' = [reg EXCEPT ![w] = sum]
  /\ tpc' = [tpc EXCEPT ![w] = "write"]
  /\ UNCHANGED <<vars, mainVars, ret, sum, sumMutex>>

TaskWrite(w) ==
  /\ wpc[w] = "run" /\ tpc[w] = "write"
  /\ sum' = reg[w] + 1
  /\ tpc' = [tpc EXCEPT ![w] = "store"]
  /\ UNCHANGED <<vars, mainVars, ret, sumMutex, reg>>

\* Mutant: the flag is never stored.
ForgetStore(w) ==
  /\ wpc[w] = "run" /\ tpc[w] = "store"
  /\ tpc' = [tpc EXCEPT ![w] = "return"]
  /\ UNCHANGED <<vars, mainVars, ret, sum, sumMutex, reg>>

\* _ret.store(true, std::memory_order_release)
TaskStore(w) ==
  /\ wpc[w] = "run" /\ tpc[w] = "store"
  /\ ret' = [ret EXCEPT ![taskPtr[w]] = TRUE]
  /\ tpc' = [tpc EXCEPT ![w] = "return"]
  /\ UNCHANGED <<vars, mainVars, sum, sumMutex, reg>>

\* The lock_guard is destroyed and doRun returns to the worker's loop.
TaskReturn(w) ==
  /\ tpc[w] = "return"
  /\ WorkerRun(w)
  /\ sumMutex' = NoThread
  /\ tpc' = [tpc EXCEPT ![w] = "lock"]
  /\ UNCHANGED <<mainVars, ret, sum, reg>>

------------------------------------------------------------------------------
RunTask(w) ==
  TaskLock(w) \/ TaskRead(w) \/ TaskWrite(w) \/ TaskStore(w) \/ TaskReturn(w)

\* The worker's own code around the call of doRun.
PoolWorker(w) ==
  /\ \/ WorkerLock(w) \/ WorkerWait(w) \/ WorkerExit(w)
     \/ WorkerTake(w) \/ WorkerUnlock(w)
  /\ UNCHANGED <<mainVars, sumVars>>

MainStep ==
  \/ MainAdd \/ MainFilled \/ MainPoll \/ MainPollAgain \/ MainPrint
  \/ MainReturn \/ MainClose
  \/ (Construct \/ Client(Main) \/ Close) /\ UNCHANGED <<mainVars, sumVars>>

MainNext ==
  \/ MainStep
  \/ \E w \in Workers : PoolWorker(w) \/ RunTask(w)
  \/ \E w \in Workers : SpuriousWakeup(w) /\ UNCHANGED <<mainVars, sumVars>>
  \/ Terminated /\ UNCHANGED <<mainVars, sumVars>>

\* The scheduler runs every thread that can run, and main is one thread.
MainSpec ==
  /\ MainInit /\ [][MainNext]_allVars
  /\ WF_allVars(MainStep)
  /\ \A w \in Workers : WF_allVars(PoolWorker(w) \/ RunTask(w))

------------------------------------------------------------------------------
\* The tasks that have still to read or write sum.
Unsummed ==
  Range(tasks) \cup {taskPtr[w] : w \in {v \in Workers :
                      wpc[v] \in {"unlock", "run"} /\ tpc[v] \in {"lock", "read", "write"}}}

\* main prints a sum that holds the increment of every task it waited for, and
\* no such task touches sum once main leaves the scope of that variable,
\* although the workers outlive it until the pool's destructor joins them.  Only
\* a task whose flag was true from the start can be missing or late.
PrintsCompleteSum ==
  mpc \in {"printed", "destroy"} =>
    printed + Cardinality(stale) >= taskCount /\ Unsummed \subseteq stale

\* main ends: it sees all its tasks finished and the destructor returns.
MainEnds == <>(opc = "closed")
==============================================================================
