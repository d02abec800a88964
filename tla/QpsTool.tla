------------------------------- MODULE QpsTool -------------------------------
(***************************************************************************)
(* qpsTool/main.cpp: a load generator.  startTest opens clSize sockets and *)
(* keeps one io_uring operation per socket in flight: connect, then send   *)
(* and recv in turn.  Every operation owns an EventContext taken from a    *)
(* pool of clSize + 10; the context of a completed operation goes back     *)
(* after the one of its successor has been taken.                          *)
(*                                                                         *)
(* A context is known by its key.  A submission or completion queue entry  *)
(* is the context its user_data points to.  The order of the entries does  *)
(* not matter, because the kernel completes operations in any order, so    *)
(* the queues are sets.  Sockets are numbered in the order of their        *)
(* creation and descriptors are never reused, since the program opens no   *)
(* socket after the loop that connects.                                    *)
(***************************************************************************)
EXTENDS Integers, FiniteSets

CONSTANTS clSize,       \* option -c: number of sockets
          Spare,        \* contexts of the pool beyond clSize (10)
          Entries,      \* entries of the submission queue, at least clSize
          BatchSize,    \* length of the array cqesP (1024)
          requestSize,  \* option -s
          durationTime, \* option -t, in seconds
          MaxClock,     \* bound: seconds that pass
          MaxCount,     \* bound: answers that arrive
          MaxFailures   \* bound: operations that fail

ASSUME QpsAssumption ==
  /\ clSize \in Nat /\ Spare \in Nat \ {0}
  /\ Entries \in Nat /\ clSize <= Entries
  /\ BatchSize \in Nat \ {0}
  /\ requestSize \in Nat /\ durationTime \in Nat
  /\ MaxClock \in Nat /\ MaxCount \in Nat /\ MaxFailures \in Nat

VARIABLES
  mode,          \* Config::Amount or Config::Time, an option
  poolElState,   \* poolElState[key]: the context is in the pool
  type, fd,      \* the fields of every EventContext
  sq,            \* contexts queued and not submitted
  ops,           \* contexts the kernel works on
  cqes,          \* completions [key, res] nobody has looked at
  batch,         \* the part of cqesP that is still to be handled
  pc,            \* "connect", "submit", "test", "batch", "end", "crashed"
  clSockets,     \* number of sockets opened so far
  closed,        \* sockets closed after an error
  lost,          \* sockets whose operation got no submission queue entry
  finishedCount, \* the local variable of startTest
  overTime,      \* the local variable of startTest
  clock,         \* seconds since the start
  failures,      \* operations that have failed
  requests,      \* sends that have been completed
  report         \* what is printed at the end: "none", "faild" or "qps"

poolVars == <<poolElState, type, fd>>
ringVars == <<sq, ops, cqes, batch>>
resultVars == <<finishedCount, overTime, report>>
envVars == <<mode, clock, failures, requests>>
vars == <<poolVars, ringVars, pc, clSockets, closed, lost, resultVars, envVars>>

\* Mutant: a pool without spare contexts.
KeysExact == 0..(clSize - 1)

Keys == 0..(clSize + Spare - 1)
Sockets == 1..clSize
Free == {k \in Keys : poolElState[k]}

Init ==
  /\ mode \in {"Amount", "Time"}
  /\ poolElState = [k \in Keys |-> TRUE]
  /\ type = [k \in Keys |-> "UNDEF"]
  /\ fd = [k \in Keys |-> 0]
  /\ sq = {} /\ ops = {} /\ cqes = {} /\ batch = {}
  /\ pc = "connect"
  /\ clSockets = 0
  /\ closed = {} /\ lost = {}
  /\ finishedCount = 0 /\ overTime = 0 /\ report = "none"
  /\ clock = 0 /\ failures = 0 /\ requests = 0

------------------------------------------------------------------------------
\* getEventContext returns context k, the first whose flag is set.
getEventContext(k) == k \in Free /\ \A j \in Free : k <= j

putEventContext(k) ==
  /\ poolElState' = [poolElState EXCEPT ![k] = TRUE]
  /\ type' = [type EXCEPT ![k] = "UNDEF"]
  /\ fd' = [fd EXCEPT ![k] = -1]

\* io_uring_get_sqe returns an entry.
HasSqe == Cardinality(sq) < Entries

\* setConnectEvent for socket s: the fields are set before the entry is asked
\* for; without a context ("Lack of EventContext") or an entry it returns.
setConnectEvent(s) ==
  IF Free = {}
  THEN lost' = lost \cup {s} /\ UNCHANGED <<poolVars, sq>>
  ELSE \E k \in Keys :
         /\ getEventContext(k)
         /\ poolElState' = [poolElState EXCEPT ![k] = FALSE]
         /\ type' = [type EXCEPT ![k] = "CONNECT"]
         /\ fd' = [fd EXCEPT ![k] = s]
         /\ IF HasSqe
            THEN sq' = sq \cup {k} /\ UNCHANGED lost
            ELSE lost' = lost \cup {s} /\ UNCHANGED sq

\* One turn of the loop that opens the sockets.
Connect ==
  /\ pc = "connect" /\ clSockets < clSize
  /\ clSockets' = clSockets + 1
  /\ setConnectEvent(clSockets + 1)
  /\ UNCHANGED <<ops, cqes, batch, pc, closed, resultVars, envVars>>

Connected ==
  /\ pc = "connect" /\ clSockets = clSize
  /\ pc' = "submit"
  /\ UNCHANGED <<poolVars, ringVars, clSockets, closed, lost, resultVars, envVars>>

\* io_uring_submit, before the loop and at the end of every turn.
Submit ==
  /\ pc = "submit"
  /\ ops' = ops \cup sq
  /\ sq' = {}
  /\ pc' = "test"
  /\ UNCHANGED <<poolVars, cqes, batch, clSockets, closed, lost, resultVars, envVars>>

\* The lambda finished(), which also measures the time in Time mode.
finished ==
  IF mode = "Time" THEN clock >= durationTime ELSE finishedCount >= requestSize

measure == overTime' = IF mode = "Time" THEN clock ELSE overTime

\* finished() is false: io_uring_peek_batch_cqe copies up to BatchSize
\* completions into cqesP.
Peek ==
  /\ pc = "test" /\ ~finished
  /\ measure
  /\ \E b \in SUBSET cqes :
        /\ Cardinality(b) <= BatchSize
        /\ b = cqes \/ Cardinality(b) = BatchSize
        /\ batch' = b
        /\ cqes' = cqes \ b
  /\ pc' = "batch"
  /\ UNCHANGED <<poolVars, sq, ops, clSockets, closed, lost, finishedCount, report,
                 envVars>>

\* finished() is true: the report; overTime is 0 unless time was measured.
End ==
  /\ pc = "test" /\ finished
  /\ measure
  /\ report' = IF overTime' = 0 THEN "faild" ELSE "qps"
  /\ pc' = "end"
  /\ UNCHANGED <<poolVars, ringVars, clSockets, closed, lost, finishedCount, envVars>>

\* Mutant: the context of a failed operation is not put back.
ErrorKeepsContext ==
  /\ pc = "batch"
  /\ \E c \in batch :
        /\ c.res = "error"
        /\ batch' = batch \ {c}
        /\ closed' = closed \cup {fd[c.key]}
  /\ UNCHANGED <<poolVars, sq, ops, cqes, pc, clSockets, lost, resultVars, envVars>>

\* Mutant: the socket of a failed operation is not closed.
ErrorKeepsSocket ==
  /\ pc = "batch"
  /\ \E c \in batch :
        /\ c.res = "error"
        /\ batch' = batch \ {c}
        /\ putEventContext(c.key)
  /\ UNCHANGED <<sq, ops, cqes, pc, clSockets, closed, lost, resultVars, envVars>>

\* res < 0
HandleError ==
  /\ pc = "batch"
  /\ \E c \in batch :
        /\ c.res = "error"
        /\ batch' = batch \ {c}
        /\ closed' = closed \cup {fd[c.key]}
        /\ putEventContext(c.key)
  /\ UNCHANGED <<sq, ops, cqes, pc, clSockets, lost, resultVars, envVars>>

\* The operation that follows one of type t.
Successor(t) == IF t = "SEND" THEN "RECV" ELSE "SEND"

\* setSendEvent or setReadEvent with a context k from the pool, followed by
\* putEventContext(old).
successorEvent(old, k) ==
  /\ poolElState' = [poolElState EXCEPT ![k] = FALSE, ![old] = TRUE]
  /\ type' = [type EXCEPT ![k] = Successor(type[old]), ![old] = "UNDEF"]
  /\ fd' = [fd EXCEPT ![k] = fd[old], ![old] = -1]
  /\ sq' = sq \cup {k}
  /\ UNCHANGED lost

\* The same when the ring is full: context k is neither used nor put back.
\* Without a context that is all; with room in the ring and no context the
\* event functions would write through nullptr.
droppedEvent(old) ==
  /\ lost' = lost \cup {fd[old]}
  /\ IF Free = {} THEN putEventContext(old)
     ELSE \E k \in Keys :
            /\ getEventContext(k)
            /\ poolElState' = [poolElState EXCEPT ![k] = FALSE, ![old] = TRUE]
            /\ type' = [type EXCEPT ![old] = "UNDEF"]
            /\ fd' = [fd EXCEPT ![old] = -1]
  /\ UNCHANGED sq

\* Mutant: answers are not counted.
NothingCounts ==
  /\ pc = "batch"
  /\ \E c \in batch :
        /\ c.res = "ok"
        /\ batch' = batch \ {c}
        /\ \E k \in Keys : getEventContext(k) /\ successorEvent(c.key, k)
  /\ UNCHANGED <<ops, cqes, pc, clSockets, closed, resultVars, envVars>>

\* res >= 0: recv is counted, also when it reports the end of the stream.
HandleEvent ==
  /\ pc = "batch"
  /\ \E c \in batch :
        /\ c.res = "ok"
        /\ batch' = batch \ {c}
        /\ finishedCount' = finishedCount + (IF type[c.key] = "RECV" THEN 1 ELSE 0)
        /\ IF ~HasSqe THEN droppedEvent(c.key) /\ UNCHANGED pc
           ELSE IF Free = {} THEN pc' = "crashed" /\ UNCHANGED <<poolVars, sq, lost>>
           ELSE /\ \E k \in Keys : getEventContext(k) /\ successorEvent(c.key, k)
                /\ UNCHANGED pc
  /\ UNCHANGED <<ops, cqes, clSockets, closed, overTime, report, envVars>>

\* io_uring_cq_advance
EndBatch ==
  /\ pc = "batch" /\ batch = {}
  /\ pc' = "submit"
  /\ UNCHANGED <<poolVars, ringVars, clSockets, closed, lost, resultVars, envVars>>

------------------------------------------------------------------------------
(* The kernel, the server and the clock.                                   *)

Complete(k, res) ==
  /\ ops' = ops \ {k}
  /\ cqes' = cqes \cup {[key |-> k, res |-> res]}
  /\ UNCHANGED <<poolVars, sq, batch, pc, clSockets, closed, lost, resultVars, mode, clock>>

KernelDone(s) ==
  /\ \E k \in ops :
        /\ fd[k] = s
        /\ Complete(k, "ok")
        /\ requests' = requests + (IF type[k] = "SEND" THEN 1 ELSE 0)
        /\ requests' <= MaxCount
  /\ UNCHANGED failures

KernelError(s) ==
  /\ failures < MaxFailures
  /\ failures' = failures + 1
  /\ \E k \in ops : fd[k] = s /\ Complete(k, "error")
  /\ UNCHANGED requests

Tick ==
  /\ clock < MaxClock
  /\ clock' = clock + 1
  /\ UNCHANGED <<poolVars, ringVars, pc, clSockets, closed, lost, resultVars, failures,
                 requests, mode>>

------------------------------------------------------------------------------
Tool ==
  \/ Connect \/ Connected \/ Submit \/ Peek \/ End
  \/ HandleError \/ HandleEvent \/ EndBatch

Next == Tool \/ Tick \/ \E s \in Sockets : KernelDone(s) \/ KernelError(s)

Spec == Init /\ [][Next]_vars

\* The tool's thread runs, time passes, and an operation completes in the end.
FairSpec ==
  /\ Spec
  /\ WF_vars(Tool) /\ WF_vars(Tick)
  /\ \A s \in Sockets : WF_vars(KernelDone(s))

------------------------------------------------------------------------------
Completed == {c.key : c \in cqes \cup batch}
Pending == sq \cup ops \cup Completed

\* Every variable has its type.
TypeOK ==
  /\ mode \in {"Amount", "Time"}
  /\ poolElState \in [Keys -> BOOLEAN]
  /\ type \in [Keys -> {"UNDEF", "CONNECT", "RECV", "SEND"}]
  /\ fd \in [Keys -> {-1, 0} \cup Sockets]
  /\ sq \in SUBSET Keys /\ ops \in SUBSET Keys
  /\ cqes \in SUBSET [key : Keys, res : {"ok", "error"}]
  /\ batch \in SUBSET [key : Keys, res : {"ok", "error"}]
  /\ pc \in {"connect", "submit", "test", "batch", "end", "crashed"}
  /\ clSockets \in 0..clSize
  /\ closed \in SUBSET Sockets /\ lost \in SUBSET Sockets
  /\ finishedCount \in Nat /\ overTime \in 0..MaxClock
  /\ clock \in 0..MaxClock /\ failures \in 0..MaxFailures /\ requests \in 0..MaxCount
  /\ report \in {"none", "faild", "qps"}

\* A context is out of the pool exactly while an operation uses it, and no two
\* operations use one context: the pool never hands out a buffer the kernel
\* still works on, and none leaks, whichever operations fail.
PoolExact ==
  /\ Pending = Keys \ Free
  /\ sq \cap ops = {} /\ (sq \cup ops) \cap Completed = {}
  /\ \A c, d \in cqes \cup batch : c.key = d.key => c = d /\ ~(c \in cqes /\ c \in batch)

\* Every socket that was opened and not closed has exactly one operation on its
\* way, a closed one has none.
OneOpPerSocket ==
  /\ \A k \in Pending : fd[k] \in 1..clSockets \ closed
  /\ \A s \in 1..clSockets \ closed : \E k \in Pending : fd[k] = s
  /\ \A j, k \in Pending : fd[j] = fd[k] => j = k

\* The pool never runs dry and the ring always has an entry, so no handler
\* writes through nullptr and no operation is dropped.
NeverLacking == pc # "crashed" /\ lost = {}

\* The test ends: after the given time, with a QPS figure unless that time is
\* zero, or when the wanted number of answers has come, unless every socket was
\* closed after an error; then the loop spins for ever.
TestEnds ==
  <>(\/ mode = "Amount" /\ (pc = "end" \/ closed = Sockets)
     \/ mode = "Time" /\ pc = "end" /\ (durationTime > 0 => report = "qps"))
==============================================================================
