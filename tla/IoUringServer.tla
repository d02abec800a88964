---------------------------- MODULE IoUringServer ----------------------------
(***************************************************************************)
(* ioURingServer/main.cpp: an echo server that keeps one operation per     *)
(* connection in an io_uring.  Completions are handled in a batch; the     *)
(* operations the handlers queue reach the kernel when the batch is over.  *)
(* When the submission queue is full io_uring_get_sqe returns nullptr and  *)
(* the set...Event functions give up silently.                             *)
(*                                                                         *)
(* An EventContext is the record [type, fd, data]; the bytes of a stream   *)
(* are the numbers 1, 2, ... in the order in which the client sends them.  *)
(* The kernel, the network and the clients are modelled from how the       *)
(* server uses them.                                                       *)
(***************************************************************************)
EXTENDS Integers, Sequences, FiniteSets, SequencesExt

CONSTANTS Fds,         \* descriptors that accept may return; closed ones again
          SqSize,      \* entries of the submission queue (128 in the program)
          MaxConnects, \* bound: connections made by clients
          MaxBytes,    \* bound: bytes a client sends on one connection
          MaxFailures  \* bound: operations that complete with an error

ASSUME ServerAssumption ==
  /\ SqSize \in Nat /\ MaxConnects \in Nat /\ MaxBytes \in Nat
  /\ MaxFailures \in Nat
  /\ -1 \notin Fds

VARIABLES
  sq,          \* contexts queued and not submitted
  ops,         \* contexts the kernel works on
  cq,          \* completions [ctx, ok, res]: res is a descriptor or the data
  pc,          \* "wait", "batch" or "submit"
  needSubmit,  \* the local variable of main
  open,        \* descriptors of accepted connections that are open
  lost,        \* history: operations that got no submission queue entry
  backlog,     \* connections the listening socket has not handed out
  connects,    \* connections made so far
  failures,    \* operations that failed so far
  inbox,       \* inbox[fd]: bytes that arrived and were not received
  sent,        \* sent[fd]: number of bytes the client has sent
  echoed,      \* echoed[fd]: the bytes the client got back
  hungUp,      \* descriptors whose client has closed the connection
  cut          \* history: connections on which a send was short

vars == <<sq, ops, cq, pc, needSubmit, open, lost, backlog, connects, failures,
          inbox, sent, echoed, hungUp, cut>>
clientVars == <<backlog, connects, inbox, sent, echoed, hungUp, cut>>
ringVars == <<sq, ops, cq>>

Acceptor == [type |-> "ACCEPT", fd |-> -1, data |-> <<>>]
Reader(fd) == [type |-> "RECV", fd |-> fd, data |-> <<>>]
Sender(fd, msg) == [type |-> "SEND", fd |-> fd, data |-> msg]

Init ==
  /\ sq = <<>> /\ ops = {Acceptor} /\ cq = <<>>
  /\ pc = "wait"
  /\ needSubmit = FALSE
  /\ open = {}
  /\ lost = {}
  /\ backlog = 0 /\ connects = 0 /\ failures = 0
  /\ inbox = [fd \in Fds |-> <<>>]
  /\ sent = [fd \in Fds |-> 0]
  /\ echoed = [fd \in Fds |-> <<>>]
  /\ hungUp = {} /\ cut = {}

------------------------------------------------------------------------------
(* The server's loop.                                                      *)

\* io_uring_wait_cqes returns with at least one completion; a time-out makes
\* the loop start again and changes nothing.
WaitCqes ==
  /\ pc = "wait"
  /\ cq # <<>>
  /\ pc' = "batch"
  /\ needSubmit' = FALSE
  /\ UNCHANGED <<clientVars, ringVars, open, lost, failures>>

\* setAcceptEvent, setReadEvent and setSendEvent, called in this order: an
\* operation for which io_uring_get_sqe has no entry left is dropped.
setEvents(contexts) ==
  LET n == Min({SqSize - Len(sq), Len(contexts)})
  IN  /\ sq' = sq \o SubSeq(contexts, 1, n)
      /\ lost' = lost \cup {contexts[i] : i \in (n + 1)..Len(contexts)}
      /\ needSubmit' = TRUE

Completion(type) ==
  /\ pc = "batch"
  /\ cq # <<>> /\ Head(cq).ok
  /\ Head(cq).ctx.type = type
  /\ cq' = Tail(cq)

\* res < 0: the connection is closed; a failed accept is not armed again.
HandleError ==
  /\ pc = "batch"
  /\ cq # <<>> /\ ~Head(cq).ok
  /\ cq' = Tail(cq)
  /\ open' = open \ {Head(cq).ctx.fd}
  /\ UNCHANGED <<clientVars, sq, ops, pc, needSubmit, lost, failures>>

HandleAccept ==
  /\ Completion("ACCEPT")
  /\ setEvents(<<Acceptor, Reader(Head(cq).res)>>)
  /\ UNCHANGED <<clientVars, ops, pc, open, failures>>

\* Mutant: the break after close() is missing, so a send follows.
ClosedFallsThrough ==
  /\ Completion("RECV")
  /\ Head(cq).res = <<>>
  /\ open' = open \ {Head(cq).ctx.fd}
  /\ setEvents(<<Sender(Head(cq).ctx.fd, <<>>)>>)
  /\ UNCHANGED <<clientVars, ops, pc, failures>>

\* Mutant: the descriptor is not closed.
ClosedIgnored ==
  /\ Completion("RECV")
  /\ Head(cq).res = <<>>
  /\ UNCHANGED <<clientVars, sq, ops, pc, open, needSubmit, lost, failures>>

\* recv returned 0: the client has closed the connection.
HandleClosed ==
  /\ Completion("RECV")
  /\ Head(cq).res = <<>>
  /\ open' = open \ {Head(cq).ctx.fd}
  /\ UNCHANGED <<clientVars, sq, ops, pc, needSubmit, lost, failures>>

\* Mutant: one byte less than received is sent back.
RecvOffByOne ==
  /\ Completion("RECV")
  /\ Head(cq).res # <<>>
  /\ setEvents(<<Sender(Head(cq).ctx.fd, Front(Head(cq).res))>>)
  /\ UNCHANGED <<clientVars, ops, pc, open, failures>>

HandleRecv ==
  /\ Completion("RECV")
  /\ Head(cq).res # <<>>
  /\ setEvents(<<Sender(Head(cq).ctx.fd, Head(cq).res)>>)
  /\ UNCHANGED <<clientVars, ops, pc, open, failures>>

\* Mutant: no read follows a send.
SendWithoutRead ==
  /\ Completion("SEND")
  /\ UNCHANGED <<clientVars, sq, ops, pc, needSubmit, open, lost, failures>>

\* Whatever send has not transmitted is dropped with the context.  A result of 0,
\* which would close the connection, does not occur: no answer is empty.
HandleSend ==
  /\ Completion("SEND")
  /\ setEvents(<<Reader(Head(cq).ctx.fd)>>)
  /\ UNCHANGED <<clientVars, ops, pc, open, failures>>

\* io_uring_for_each_cqe sees no further completion; io_uring_cq_advance.
EndBatch ==
  /\ pc = "batch"
  /\ cq = <<>>
  /\ pc' = IF needSubmit THEN "submit" ELSE "wait"
  /\ UNCHANGED <<clientVars, ringVars, needSubmit, open, lost, failures>>

\* io_uring_submit
Submit ==
  /\ pc = "submit"
  /\ ops' = ops \cup ToSet(sq)
  /\ sq' = <<>>
  /\ pc' = "wait"
  /\ UNCHANGED <<clientVars, cq, needSubmit, open, lost, failures>>

------------------------------------------------------------------------------
(* The kernel.                                                             *)

Complete(ctx, ok, res) ==
  /\ ctx \in ops
  /\ ops' = ops \ {ctx}
  /\ cq' = Append(cq, [ctx |-> ctx, ok |-> ok, res |-> res])
  /\ UNCHANGED <<sq, pc, needSubmit, lost>>

KernelAccept ==
  /\ backlog > 0
  /\ backlog' = backlog - 1
  /\ \E fd \in Fds \ open :
        /\ Complete(Acceptor, TRUE, fd)
        /\ open' = open \cup {fd}
        /\ inbox' = [inbox EXCEPT ![fd] = <<>>]
        /\ sent' = [sent EXCEPT ![fd] = 0]
        /\ echoed' = [echoed EXCEPT ![fd] = <<>>]
        /\ hungUp' = hungUp \ {fd}
        /\ cut' = cut \ {fd}
  /\ UNCHANGED <<connects, failures>>

\* recv takes some of the bytes that have arrived, or reports the end.
KernelRecv(fd) ==
  /\ \/ \E n \in 1..Len(inbox[fd]) :
           /\ Complete(Reader(fd), TRUE, SubSeq(inbox[fd], 1, n))
           /\ inbox' = [inbox EXCEPT ![fd] = SubSeq(@, n + 1, Len(@))]
     \/ /\ inbox[fd] = <<>> /\ fd \in hungUp
        /\ Complete(Reader(fd), TRUE, <<>>)
        /\ UNCHANGED inbox
  /\ UNCHANGED <<open, backlog, connects, failures, sent, echoed, hungUp, cut>>

\* send transmits the buffer, or a non-empty part of it.
KernelSend(fd) ==
  /\ \E ctx \in ops :
        /\ ctx.type = "SEND" /\ ctx.fd = fd
        /\ \E n \in 1..Len(ctx.data) :
              /\ Complete(ctx, TRUE, SubSeq(ctx.data, 1, n))
              /\ echoed' = [echoed EXCEPT ![fd] = @ \o SubSeq(ctx.data, 1, n)]
              /\ cut' = IF n < Len(ctx.data) THEN cut \cup {fd} ELSE cut
  /\ UNCHANGED <<open, backlog, connects, failures, inbox, sent, hungUp>>

KernelError ==
  /\ failures < MaxFailures
  /\ failures' = failures + 1
  /\ \E ctx \in ops : Complete(ctx, FALSE, <<>>)
  /\ UNCHANGED <<clientVars, open>>

------------------------------------------------------------------------------
(* The clients.                                                            *)

Connect ==
  /\ connects < MaxConnects
  /\ connects' = connects + 1
  /\ backlog' = backlog + 1
  /\ UNCHANGED <<ringVars, pc, needSubmit, open, lost, failures, inbox, sent,
                 echoed, hungUp, cut>>

ClientSend(fd) ==
  /\ fd \in open \ hungUp
  /\ sent[fd] < MaxBytes
  /\ sent' = [sent EXCEPT ![fd] = @ + 1]
  /\ inbox' = [inbox EXCEPT ![fd] = Append(@, sent[fd] + 1)]
  /\ UNCHANGED <<ringVars, pc, needSubmit, open, lost, failures, backlog,
                 connects, echoed, hungUp, cut>>

ClientClose(fd) ==
  /\ fd \in open \ hungUp
  /\ hungUp' = hungUp \cup {fd}
  /\ UNCHANGED <<ringVars, pc, needSubmit, open, lost, failures, backlog,
                 connects, inbox, sent, echoed, cut>>

------------------------------------------------------------------------------
Server ==
  \/ WaitCqes \/ HandleError \/ HandleAccept \/ HandleClosed \/ HandleRecv
  \/ HandleSend \/ EndBatch \/ Submit
Kernel(fd) == KernelRecv(fd) \/ KernelSend(fd)

Next ==
  \/ Server
  \/ KernelAccept \/ KernelError
  \/ \E fd \in Fds : Kernel(fd) \/ ClientSend(fd) \/ ClientClose(fd)
  \/ Connect

Spec == Init /\ [][Next]_vars

\* The server's loop runs whenever it can; the kernel completes an operation
\* that can complete and accepts a connection when a descriptor is free.
FairSpec ==
  /\ Spec
  /\ WF_vars(Server)
  /\ WF_vars(KernelAccept)
  /\ \A fd \in Fds : WF_vars(Kernel(fd))

------------------------------------------------------------------------------
\* Descriptors of connections whose accept has completed and is not handled.
Arriving == {c.res : c \in {d \in ToSet(cq) : d.ctx = Acceptor /\ d.ok}}
InFlight(fd) ==
  Cardinality({i \in DOMAIN sq : sq[i].fd = fd})
  + Cardinality({c \in ops : c.fd = fd})
  + Cardinality({i \in DOMAIN cq : cq[i].ctx.fd = fd})
Acceptors == InFlight(-1)
\* What the server has forgotten: connections, and the listener as -1.
Abandoned == {ctx.fd : ctx \in lost}

\* No two operations work on one connection and none works on a descriptor the
\* server has closed, which the kernel may already use for somebody else.  No
\* connection is forgotten, nor the acceptor until an accept fails, unless the
\* submission queue had no entry for its operation.
OneOpEach ==
  /\ Acceptors <= 1
  /\ Acceptors = 1 \/ failures > 0 \/ -1 \in Abandoned
  /\ \A fd \in Fds :
       LET n == InFlight(fd) + (IF fd \in Arriving THEN 1 ELSE 0) IN
       /\ n <= (IF fd \in open THEN 1 ELSE 0)
       /\ fd \in open \ Abandoned => n = 1

\* The bytes the server has received and not sent back.
InHand(fd) ==
  {c.res : c \in {d \in ToSet(cq) : d.ctx = Reader(fd)}}
  \cup {ctx.data : ctx \in {c \in ToSet(sq) \cup ops : c.type = "SEND" /\ c.fd = fd}}
Failed(fd) == \E c \in ToSet(cq) : c.ctx.fd = fd /\ ~c.ok

\* The bytes a client sent are, in order, the ones it got back, the ones the
\* server is about to send and the ones it has not read: none is lost while no
\* operation on the connection fails, is dropped or sends less than asked for;
\* and whatever happens nothing comes back twice or out of order.
NoByteLost ==
  /\ \A fd \in open \ (cut \cup Abandoned) :
        LET hand == IF InHand(fd) = {} THEN <<>> ELSE CHOOSE d \in InHand(fd) : TRUE
        IN  Failed(fd) \/ echoed[fd] \o hand \o inbox[fd] = [i \in 1..sent[fd] |-> i]
  /\ \A fd \in Fds : \A i, j \in DOMAIN echoed[fd] :
        i < j => echoed[fd][i] < echoed[fd][j]

\* Every byte that arrives is sent back, unless the connection is closed or
\* forgotten, a send is short, or the operation on the connection fails.
EveryByteEchoed ==
  \A fd \in Fds, n \in 1..MaxBytes :
    fd \in open /\ sent[fd] >= n
      ~> Len(echoed[fd]) >= n \/ fd \notin open \/ fd \in cut \cup Abandoned

\* A connection of a client that has left does not stay open for ever, even
\* when operations on it or on others fail, unless the server has forgotten it.
HungUpIsClosed ==
  \A fd \in Fds :
    fd \in open /\ fd \in hungUp ~> fd \notin open \/ fd \in Abandoned
==============================================================================
