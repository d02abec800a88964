---------------------------- MODULE QpsToolProofs ----------------------------
(***************************************************************************)
(* The accounting of startTest for every number of sockets, every pool     *)
(* with a spare context and every ring with an entry per socket: contexts  *)
(* out of the pool, operations in flight and open sockets correspond one   *)
(* to one, hence neither the pool nor the ring ever runs out.              *)
(***************************************************************************)
EXTENDS QpsTool, FiniteSetTheorems, FunctionTheorems, TLAPS

\* The inductive invariant: a socket has to be opened before it is closed, and
\* cqesP is empty when the loop starts another turn.
Inv ==
  /\ TypeOK /\ PoolExact /\ OneOpPerSocket /\ NeverLacking
  /\ closed \subseteq 1..clSockets
  /\ pc # "batch" => batch = {}

\* Fewer than clSize operations are queued while some socket has none queued.
LEMMA RingHasRoom ==
  ASSUME Inv, NEW s \in Sockets, \A k \in sq : fd[k] # s
  PROVE  HasSqe
<1> DEFINE f == [k \in sq |-> fd[k]]
<1> USE QpsAssumption
<1>1. f \in Injection(sq, Sockets \ {s})
  <2>1. \A k \in sq : fd[k] \in Sockets \ {s}
    BY DEF Inv, TypeOK, OneOpPerSocket, Pending, Sockets
  <2>2. f \in [sq -> Sockets \ {s}]
    BY <2>1
  <2>3. \A j, k \in sq : f[j] = f[k] => j = k
    BY DEF Inv, OneOpPerSocket, Pending
  <2> QED
    BY <2>2, <2>3 DEF Injection, IsInjective
<1>2. IsFiniteSet(Sockets) /\ Cardinality(Sockets) = clSize
  BY FS_Interval DEF Sockets
<1>3. IsFiniteSet(Sockets \ {s}) /\ Cardinality(Sockets \ {s}) = clSize - 1
  BY <1>2, FS_RemoveElement
<1>4. IsFiniteSet(sq) /\ Cardinality(sq) <= clSize - 1
  BY <1>1, <1>3, FS_Injection
<1>5. Cardinality(sq) \in Nat
  BY <1>4, FS_CardinalityType
<1> QED
  BY <1>4, <1>5 DEF HasSqe

\* The operations in flight never use up the pool.
LEMMA PoolHasContext == Inv => Free # {}
<1> SUFFICES ASSUME Inv, Free = {} PROVE FALSE
  OBVIOUS
<1> DEFINE f == [k \in Keys |-> fd[k]]
<1> USE QpsAssumption
<1>1. Pending = Keys
  BY DEF Inv, PoolExact
<1>2. f \in Injection(Keys, Sockets)
  <2>1. \A k \in Keys : fd[k] \in Sockets
    BY <1>1 DEF Inv, TypeOK, OneOpPerSocket, Sockets
  <2>2. f \in [Keys -> Sockets]
    BY <2>1
  <2>3. \A j, k \in Keys : f[j] = f[k] => j = k
    BY <1>1 DEF Inv, OneOpPerSocket
  <2> QED
    BY <2>2, <2>3 DEF Injection, IsInjective
<1>3. IsFiniteSet(Sockets) /\ Cardinality(Sockets) = clSize
  BY FS_Interval DEF Sockets
<1>4. Cardinality(Keys) = clSize + Spare
  BY FS_Interval DEF Keys
<1> QED
  BY <1>2, <1>3, <1>4, FS_Injection

LEMMA InvInit == Init => Inv
<1> SUFFICES ASSUME Init PROVE Inv
  OBVIOUS
<1> USE QpsAssumption DEF Init
<1>1. TypeOK
  BY DEF TypeOK
<1>2. Free = Keys /\ Pending = {} /\ Completed = {}
  BY DEF Free, Pending, Completed
<1>3. PoolExact
  BY <1>2 DEF PoolExact
<1>4. OneOpPerSocket
  BY <1>2 DEF OneOpPerSocket
<1> QED
  BY <1>1, <1>3, <1>4 DEF Inv, NeverLacking

\* A step that leaves the contexts and the set of operations alone.
LEMMA Accounting ==
  ASSUME Inv, TypeOK', UNCHANGED <<poolVars, clSockets, closed>>,
         Pending' = Pending,
         sq' \cap ops' = {}, (sq' \cup ops') \cap Completed' = {},
         \A c, d \in cqes' \cup batch' :
            c.key = d.key => c = d /\ ~(c \in cqes' /\ c \in batch')
  PROVE  PoolExact' /\ OneOpPerSocket'
<1>1. Free' = Free
  BY DEF Free, poolVars
<1>2. PoolExact'
  BY <1>1 DEF Inv, PoolExact
<1>3. OneOpPerSocket'
  BY DEF Inv, OneOpPerSocket, poolVars
<1> QED
  BY <1>2, <1>3

\* Opening a socket adds one context, one operation and one socket.
LEMMA ConnectStep == Inv /\ Connect => Inv'
<1> SUFFICES ASSUME Inv, Connect PROVE Inv'
  OBVIOUS
<1> USE QpsAssumption
<1> DEFINE s == clSockets + 1
<1>1. s \in Sockets /\ \A k \in Pending : fd[k] # s
  BY DEF Inv, TypeOK, OneOpPerSocket, Connect, Sockets
<1>2. HasSqe
  BY <1>1, RingHasRoom DEF Pending
<1>3. PICK k \in Keys :
        /\ k \in Free
        /\ poolElState' = [poolElState EXCEPT ![k] = FALSE]
        /\ type' = [type EXCEPT ![k] = "CONNECT"]
        /\ fd' = [fd EXCEPT ![k] = s]
        /\ sq' = sq \cup {k} /\ lost' = lost
  BY <1>2, PoolHasContext DEF Connect, setConnectEvent, getEventContext
<1>4. /\ UNCHANGED <<ops, cqes, batch, pc, closed>>
      /\ UNCHANGED <<resultVars, envVars>>
      /\ clSockets' = s /\ clSockets < clSize
  BY DEF Connect
<1>5. TypeOK'
  BY <1>1, <1>3, <1>4 DEF Inv, TypeOK, resultVars, envVars
<1>6. Free' = Free \ {k} /\ Completed' = Completed /\ Pending' = Pending \cup {k}
  BY <1>3, <1>4 DEF Inv, TypeOK, Free, Pending, Completed
<1>7. k \notin Pending
  BY <1>3 DEF Inv, PoolExact
<1>8. PoolExact'
  BY <1>3, <1>4, <1>6, <1>7 DEF Inv, PoolExact, Pending
<1>9. OneOpPerSocket'
  <2>1. fd'[k] = s /\ \A j \in Pending : fd'[j] = fd[j] /\ j \in Keys
    BY <1>3, <1>7 DEF Inv, TypeOK, PoolExact
  <2>2. closed' = closed /\ closed \subseteq 1..clSockets /\ clSockets \in Nat
    BY <1>4 DEF Inv, TypeOK
  <2>3. 1..clSockets' = 1..clSockets \cup {s}
    BY <2>2, <1>4
  <2>4. s \notin closed
    BY <2>2
  <2> QED
    BY <1>1, <1>4, <1>6, <2>1, <2>2, <2>3, <2>4 DEF Inv, OneOpPerSocket
<1> QED
  BY <1>3, <1>4, <1>5, <1>8, <1>9 DEF Inv, NeverLacking, TypeOK

\* A failed operation takes its context, itself and its socket away.
LEMMA ErrorStep == Inv /\ HandleError => Inv'
<1> SUFFICES ASSUME Inv, HandleError PROVE Inv'
  OBVIOUS
<1> USE QpsAssumption
<1>1. PICK c \in batch :
        /\ batch' = batch \ {c}
        /\ closed' = closed \cup {fd[c.key]}
        /\ putEventContext(c.key)
  BY DEF HandleError
<1> DEFINE k == c.key
<1>2. /\ UNCHANGED <<sq, ops, cqes, pc, clSockets, lost>>
      /\ UNCHANGED <<resultVars, envVars>>
  BY DEF HandleError
<1>3. k \in Keys /\ k \in Pending /\ fd[k] \in 1..clSockets /\ fd[k] \in Sockets
  <2>1. k \in Pending /\ k \in Keys
    BY DEF Inv, TypeOK, Pending, Completed
  <2> QED
    BY <2>1 DEF Inv, TypeOK, OneOpPerSocket, Sockets
<1>4. TypeOK'
  BY <1>1, <1>2, <1>3 DEF Inv, TypeOK, putEventContext, resultVars, envVars
<1>5. Completed' = Completed \ {k}
  BY <1>1, <1>2 DEF Inv, TypeOK, PoolExact, Completed
<1>6. Free' = Free \cup {k} /\ Pending' = Pending \ {k}
  <2>1. k \notin sq \cup ops
    BY <1>1 DEF Inv, PoolExact, Completed
  <2>2. Pending' = Pending \ {k}
    BY <1>2, <1>5, <2>1 DEF Pending
  <2>3. Free' = Free \cup {k}
    BY <1>1, <1>3 DEF Inv, TypeOK, Free, putEventContext
  <2> QED
    BY <2>2, <2>3
<1>7. PoolExact'
  BY <1>1, <1>2, <1>3, <1>5, <1>6 DEF Inv, PoolExact
<1>8. OneOpPerSocket'
  <2>1. \A j \in Pending' : fd'[j] = fd[j]
    BY <1>1, <1>6 DEF Inv, TypeOK, PoolExact, putEventContext
  <2> QED
    BY <1>1, <1>2, <1>3, <1>6, <2>1 DEF Inv, OneOpPerSocket
<1> QED
  BY <1>1, <1>2, <1>3, <1>4, <1>7, <1>8 DEF Inv, NeverLacking, HandleError

\* A completed operation hands its socket to the context of its successor.
LEMMA EventStep == Inv /\ HandleEvent => Inv'
<1> SUFFICES ASSUME Inv, HandleEvent PROVE Inv'
  OBVIOUS
<1> USE QpsAssumption
<1>1. PICK c \in batch :
        /\ batch' = batch \ {c}
        /\ finishedCount' = finishedCount + (IF type[c.key] = "RECV" THEN 1 ELSE 0)
        /\ IF ~HasSqe THEN droppedEvent(c.key) /\ UNCHANGED pc
           ELSE IF Free = {} THEN pc' = "crashed" /\ UNCHANGED <<poolVars, sq, lost>>
           ELSE /\ \E k \in Keys : getEventContext(k) /\ successorEvent(c.key, k)
                /\ UNCHANGED pc
  BY DEF HandleEvent
<1> DEFINE old == c.key
<1>2. UNCHANGED <<ops, cqes, clSockets, closed, overTime, report, envVars>>
  BY DEF HandleEvent
<1>3. /\ old \in Keys /\ old \in Pending /\ fd[old] \in Sockets
      /\ fd[old] \in 1..clSockets \ closed /\ old \notin sq \cup ops
  <2>1. old \in Pending /\ old \in Keys /\ old \in Completed
    BY DEF Inv, TypeOK, Pending, Completed
  <2> QED
    BY <2>1 DEF Inv, TypeOK, OneOpPerSocket, PoolExact, Sockets
<1>4. HasSqe
  <2>1. \A k \in sq : fd[k] # fd[old]
    BY <1>3 DEF Inv, OneOpPerSocket, Pending
  <2> QED
    BY <1>3, <2>1, RingHasRoom
<1>5. PICK k \in Keys : k \in Free /\ successorEvent(old, k) /\ pc' = pc
  BY <1>1, <1>4, PoolHasContext DEF getEventContext
<1>6. k \notin Pending /\ k # old
  BY <1>3, <1>5 DEF Inv, PoolExact
<1>7. TypeOK'
  <2>1. Successor(type[old]) \in {"RECV", "SEND"}
    BY DEF Successor
  <2>2. finishedCount' \in Nat
    BY <1>1 DEF Inv, TypeOK
  <2> QED
    BY <1>1, <1>2, <1>3, <1>5, <2>1, <2>2 DEF Inv, TypeOK, successorEvent, envVars, NeverLacking
<1>8. Completed' = Completed \ {old}
  BY <1>1, <1>2 DEF Inv, TypeOK, PoolExact, Completed
<1>9. Pending' = (Pending \ {old}) \cup {k}
  BY <1>2, <1>3, <1>5, <1>8 DEF Pending, successorEvent
<1>10. Free' = (Free \ {k}) \cup {old}
  BY <1>3, <1>5, <1>6 DEF Inv, TypeOK, Free, successorEvent
<1>11. PoolExact'
  <2>1. sq' = sq \cup {k} /\ ops' = ops /\ k \notin ops /\ k \notin Completed
    BY <1>2, <1>5, <1>6 DEF successorEvent, Pending
  <2>2. Pending' = Keys \ Free'
    BY <1>3, <1>5, <1>9, <1>10 DEF Inv, PoolExact
  <2>3. sq' \cap ops' = {} /\ (sq' \cup ops') \cap Completed' = {}
    BY <1>8, <2>1 DEF Inv, PoolExact
  <2> QED
    BY <1>1, <1>2, <2>2, <2>3 DEF Inv, PoolExact
<1>12. OneOpPerSocket'
  <2>1. fd'[k] = fd[old]
    BY <1>3, <1>5, <1>6 DEF Inv, TypeOK, successorEvent
  <2>2. \A j \in Pending \ {old} : fd'[j] = fd[j]
    BY <1>5, <1>6 DEF Inv, TypeOK, PoolExact, successorEvent
  <2> QED
    BY <1>2, <1>3, <1>9, <2>1, <2>2 DEF Inv, OneOpPerSocket
<1> QED
  BY <1>2, <1>5, <1>7, <1>11, <1>12 DEF Inv, NeverLacking, successorEvent, HandleEvent

\* Copying completions into cqesP moves operations and creates none.
LEMMA PeekStep == Inv /\ Peek => Inv'
<1> SUFFICES ASSUME Inv, Peek PROVE Inv'
  OBVIOUS
<1> USE QpsAssumption
<1>1. PICK b \in SUBSET cqes : batch' = b /\ cqes' = cqes \ b
  BY DEF Peek
<1>2. /\ UNCHANGED <<poolVars, sq, ops, clSockets, closed, lost, finishedCount, report>>
      /\ UNCHANGED envVars /\ measure /\ pc' = "batch" /\ pc = "test"
  BY DEF Peek
<1>3. batch = {}
  BY <1>2 DEF Inv
<1>4. TypeOK'
  BY <1>1, <1>2 DEF Inv, TypeOK, measure, poolVars, envVars
<1>5. Completed' = Completed
  BY <1>1, <1>3 DEF Completed
<1>6. PoolExact' /\ OneOpPerSocket'
  BY <1>1, <1>2, <1>3, <1>4, <1>5, Accounting DEF Inv, PoolExact, Pending, poolVars
<1> QED
  BY <1>2, <1>4, <1>6 DEF Inv, NeverLacking

\* A completion is an operation that the kernel has given back.
LEMMA KernelStep ==
  ASSUME Inv, NEW k \in ops, NEW r \in {"ok", "error"}, Complete(k, r),
         failures' \in 0..MaxFailures, requests' \in 0..MaxCount
  PROVE  Inv'
<1> USE QpsAssumption
<1> DEFINE c == [key |-> k, res |-> r]
<1>1. TypeOK'
  BY DEF Inv, TypeOK, Complete, poolVars, resultVars
<1>2. Completed' = Completed \cup {k}
  <2>1. cqes' \cup batch' = (cqes \cup batch) \cup {c} /\ c.key = k
    BY DEF Complete
  <2>2. Completed' = {d.key : d \in (cqes \cup batch) \cup {c}}
    BY <2>1 DEF Completed
  <2> QED
    BY <2>1, <2>2 DEF Completed
<1>3. k \notin Completed /\ k \notin sq
  BY DEF Inv, PoolExact
<1>4. \A d \in cqes \cup batch : d.key # k
  BY <1>3 DEF Completed
<1>5. Pending' = Pending
  BY <1>2 DEF Pending, Complete
<1>6. sq' \cap ops' = {} /\ (sq' \cup ops') \cap Completed' = {}
  BY <1>2, <1>3 DEF Inv, PoolExact, Complete
<1>7. cqes' = cqes \cup {c} /\ batch' = batch /\ c.key = k
  BY DEF Complete
<1>8. \A d, e \in cqes' \cup batch' :
         d.key = e.key => d = e /\ ~(d \in cqes' /\ d \in batch')
  BY <1>4, <1>7 DEF Inv, PoolExact
<1>9. PoolExact' /\ OneOpPerSocket'
  BY <1>1, <1>5, <1>6, <1>8, Accounting DEF Complete
<1> QED
  BY <1>1, <1>9 DEF Inv, NeverLacking, Complete

\* Submitting moves the queued operations to the kernel.
LEMMA SubmitStep == Inv /\ Submit => Inv'
<1> SUFFICES ASSUME Inv, Submit PROVE Inv'
  OBVIOUS
<1> USE QpsAssumption
<1>1. TypeOK'
  BY DEF Inv, TypeOK, Submit, poolVars, resultVars, envVars
<1>2. Completed' = Completed /\ Pending' = Pending
  BY DEF Completed, Pending, Submit
<1>3. PoolExact' /\ OneOpPerSocket'
  BY <1>1, <1>2, Accounting DEF Inv, PoolExact, Submit
<1> QED
  BY <1>1, <1>3 DEF Inv, NeverLacking, Submit

\* The steps that touch neither contexts nor operations.
LEMMA QuietStep ==
  ASSUME Inv, UNCHANGED <<poolVars, ringVars, clSockets, closed, lost>>, TypeOK',
         pc' # "crashed", pc' # "batch" => batch = {}
  PROVE  Inv'
<1>1. Completed' = Completed /\ Pending' = Pending
  BY DEF Completed, Pending, ringVars
<1>2. PoolExact' /\ OneOpPerSocket'
  BY <1>1, Accounting DEF Inv, PoolExact, ringVars
<1> QED
  BY <1>2 DEF Inv, NeverLacking, ringVars

LEMMA InvStep == Inv /\ [Next]_vars => Inv'
<1> SUFFICES ASSUME Inv, [Next]_vars PROVE Inv'
  OBVIOUS
<1> USE QpsAssumption
<1>1. CASE Connect
  BY <1>1, ConnectStep
<1>2. CASE Connected
  <2>1. TypeOK'
    BY <1>2 DEF Inv, TypeOK, Connected, poolVars, ringVars, resultVars, envVars
  <2> QED
    BY <1>2, <2>1, QuietStep DEF Connected, Inv
<1>3. CASE Submit
  BY <1>3, SubmitStep
<1>4. CASE Peek
  BY <1>4, PeekStep
<1>5. CASE End
  <2>1. TypeOK'
    BY <1>5 DEF Inv, TypeOK, End, measure, poolVars, ringVars, resultVars, envVars
  <2> QED
    BY <1>5, <2>1, QuietStep DEF End, Inv
<1>6. CASE HandleError
  BY <1>6, ErrorStep
<1>7. CASE HandleEvent
  BY <1>7, EventStep
<1>8. CASE EndBatch
  <2>1. TypeOK'
    BY <1>8 DEF Inv, TypeOK, EndBatch, poolVars, ringVars, resultVars, envVars
  <2> QED
    BY <1>8, <2>1, QuietStep DEF EndBatch
<1>9. CASE Tick
  <2>1. TypeOK'
    BY <1>9 DEF Inv, TypeOK, Tick, poolVars, ringVars, resultVars
  <2> QED
    BY <1>9, <2>1, QuietStep DEF Tick, Inv, NeverLacking
<1>10. ASSUME NEW s \in Sockets, KernelDone(s) PROVE Inv'
  <2>1. PICK k \in ops :
          /\ Complete(k, "ok")
          /\ requests' = requests + (IF type[k] = "SEND" THEN 1 ELSE 0)
          /\ requests' <= MaxCount
    BY <1>10 DEF KernelDone
  <2>2. failures' \in 0..MaxFailures /\ requests' \in 0..MaxCount
    BY <1>10, <2>1 DEF Inv, TypeOK, KernelDone
  <2> QED
    BY <2>1, <2>2, KernelStep
<1>11. ASSUME NEW s \in Sockets, KernelError(s) PROVE Inv'
  <2>1. PICK k \in ops : Complete(k, "error")
    BY <1>11 DEF KernelError
  <2>2. failures' \in 0..MaxFailures /\ requests' \in 0..MaxCount
    BY <1>11 DEF Inv, TypeOK, KernelError
  <2> QED
    BY <2>1, <2>2, KernelStep
<1>12. CASE UNCHANGED vars
  <2>1. TypeOK'
    BY <1>12 DEF Inv, TypeOK, vars, poolVars, ringVars, resultVars, envVars
  <2> QED
    BY <1>12, <2>1, QuietStep DEF vars, Inv, NeverLacking
<1> QED
  BY <1>1, <1>2, <1>3, <1>4, <1>5, <1>6, <1>7, <1>8, <1>9, <1>10, <1>11, <1>12
     DEF Next, Tool

LEMMA InvAlways == Spec => []Inv
  BY InvInit, InvStep, PTL DEF Spec

\* For every number of sockets a context of startTest's pool is out of the pool
\* exactly while one operation in flight uses it.
THEOREM PoolIsExact == Spec => []PoolExact
<1>1. Inv => PoolExact
  BY DEF Inv
<1> QED
  BY <1>1, InvAlways, PTL

\* Every open socket of startTest has exactly one operation in flight and a
\* closed one has none, whatever fails.
THEOREM SocketsHaveOneOp == Spec => []OneOpPerSocket
<1>1. Inv => OneOpPerSocket
  BY DEF Inv
<1> QED
  BY <1>1, InvAlways, PTL

\* One spare context and one ring entry per socket suffice: getEventContext never
\* returns nullptr to a handler and io_uring_get_sqe never fails.
THEOREM NothingIsLacking == Spec => []NeverLacking
<1>1. Inv => NeverLacking
  BY DEF Inv
<1> QED
  BY <1>1, InvAlways, PTL
==============================================================================
