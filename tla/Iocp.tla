-------------------------------- MODULE Iocp --------------------------------
(* CMIOCP of Network/Windows/iocp.cpp with the echo callback of WinNetwork.cpp: *)
(* worker threads take completions from an I/O completion port, accept, read,   *)
(* re-arm and close, and close() closes the sockets and joins the workers.      *)
(*                                                                              *)
(* A socket is a handle, and handles are used again.  The key of a completion   *)
(* is the SocketContext of its connection, named by its client; completions of  *)
(* AcceptEx carry the listening socket instead.                                 *)
EXTENDS Integers, Sequences, SequencesExt, FiniteSets

CONSTANTS Workers, Clients, MayReset, Handles, Listen, Free

\* The first sockets are those of the accepts of startIocp; the listening socket
\* and a free handle are told from the clients.
ASSUME PortAssumption ==
  /\ IsFiniteSet(Workers) /\ 1 .. Cardinality(Workers) \div 2 \subseteq Handles
  /\ Listen \notin Clients /\ Free \notin Clients /\ Free # Listen

VARIABLES
  client,    \* client[c]: "idle", "backlog", "up", "left" or "reset"
  unread,    \* unread[c]: "none", "data" or "done": its one message
  owner,     \* owner[h]: Free, Listen (waits in AcceptEx) or a client
  ops,       \* overlapped operations in progress: [kind, h, c]
  queue,     \* the completion port: operations with ok and size
  pc, got,   \* per worker: where it is and the completion it handles
  clntSocketVec,
  inVec,     \* threads that are changing clntSocketVec
  contexts,  \* clients with a SocketContext
  main,      \* "run", "clear", "sleep", "join" or "closed"
  ub,        \* undefined behaviour: "none" or what it is
  excused,   \* history: something happened that may lead to it (SafeWhenSerial)
  short      \* history: close() found fewer reads in progress than workers

iocpVars == <<client, unread, owner, ops, queue, pc, got, clntSocketVec, inVec,
              contexts, main, ub, excused, short>>

Op(kind, h, c) == [kind |-> kind, h |-> h, c |-> c]
Done(op, ok, size) == [kind |-> op.kind, h |-> op.h, c |-> op.c, ok |-> ok, size |-> size]
Idle == Done(Op("none", 0, Listen), TRUE, 0)

\* startIocp: the workers, and half as many AcceptEx.
IocpInit ==
  LET accepts == 1 .. Cardinality(Workers) \div 2 IN
  /\ client = [c \in Clients |-> "idle"] /\ unread = [c \in Clients |-> "none"]
  /\ owner = [h \in Handles |-> IF h \in accepts THEN Listen ELSE Free]
  /\ ops = {Op("accept", h, Listen) : h \in accepts} /\ queue = <<>>
  /\ pc = [w \in Workers |-> "wait"] /\ got = [w \in Workers |-> Idle]
  /\ clntSocketVec = <<>> /\ inVec = {} /\ contexts = {}
  /\ main = "run" /\ ub = "none" /\ excused = FALSE /\ short = FALSE

---------------------------------------------------------------------------
(* Clients and kernel                                                         *)

clientVars == <<client, unread>>
workerVars == <<pc, got, clntSocketVec, inVec, contexts>>
closeVars == <<main, short>>

Connect(c) ==
  /\ client[c] = "idle" /\ client' = [client EXCEPT ![c] = "backlog"]
  /\ UNCHANGED <<unread, owner, ops, queue, ub, excused>>

Say(c) ==
  /\ client[c] = "up" /\ unread[c] = "none" /\ unread' = [unread EXCEPT ![c] = "data"]
  /\ UNCHANGED <<client, owner, ops, queue, ub, excused>>

Leave(c) ==
  /\ client[c] = "up"
  /\ \E s \in {"left"} \cup (IF c \in MayReset THEN {"reset"} ELSE {}) :
       client' = [client EXCEPT ![c] = s]
  /\ UNCHANGED <<unread, owner, ops, queue, ub, excused>>

Complete(op, ok, size) == ops' = ops \ {op} /\ queue' = Append(queue, Done(op, ok, size))

\* AcceptEx fails for a client that resets first.
KernelAccept(c) ==
  /\ client[c] = "backlog"
  /\ \E op \in {o \in ops : o.kind = "accept"} :
       \/ /\ ops' = ops \ {op} /\ queue' = Append(queue, Done([op EXCEPT !.c = c], TRUE, 0))
          /\ client' = [client EXCEPT ![c] = "up"]
          /\ owner' = [owner EXCEPT ![op.h] = c]
          /\ UNCHANGED excused
       \/ /\ c \in MayReset /\ Complete(op, FALSE, 0)
          /\ client' = [client EXCEPT ![c] = "reset"]
          /\ excused' = TRUE
          /\ UNCHANGED owner
  /\ UNCHANGED <<unread, ub>>

KernelRead ==
  \E op \in {o \in ops : o.kind = "read"} :
    /\ \/ client[op.c] = "reset" /\ Complete(op, FALSE, 0) /\ UNCHANGED unread
       \/ /\ client[op.c] # "reset" /\ unread[op.c] = "data"
          /\ Complete(op, TRUE, 1) /\ unread' = [unread EXCEPT ![op.c] = "done"]
       \/ /\ client[op.c] = "left" /\ unread[op.c] # "data"
          /\ Complete(op, TRUE, 0) /\ UNCHANGED unread
    /\ UNCHANGED <<client, owner, ub, excused>>

KernelWrite ==
  \E op \in {o \in ops : o.kind = "write"} :
    Complete(op, client[op.c] # "reset", 1) /\ UNCHANGED <<client, unread, owner, ub, excused>>

World ==
  /\ ub = "none"
  /\ KernelRead \/ KernelWrite \/ \E c \in Clients : Connect(c) \/ Say(c) \/ Leave(c) \/ KernelAccept(c)
  /\ UNCHANGED <<workerVars, closeVars>>

---------------------------------------------------------------------------
(* workFun                                                                    *)

Inside == {"handle", "push", "erase", "closed", "delete"}

\* closesocket(h): what is in progress on h fails.  It is c's handle, or was.
CloseAll(hs) ==
  LET aborted == {op \in ops : op.h \in hs} IN
  /\ owner' = [h \in Handles |-> IF h \in hs THEN Free ELSE owner[h]]
  /\ ops' = ops \ aborted
  /\ queue' = queue \o SetToSeq({Done(op, FALSE, 0) : op \in aborted})
closesocket(h, c) ==
  /\ CloseAll({h})
  /\ ub' = IF owner[h] \in {c, Free} THEN "none" ELSE "foreign"

At(w, from, to) == pc[w] = from /\ pc' = [pc EXCEPT ![w] = to]
Handled(w, from, to) == At(w, from, to) /\ got' = [got EXCEPT ![w] = Idle]

\* The condition of the loop, read as soon as a completion is handled.
Top == IF main \in {"join", "closed"} THEN "exit" ELSE "wait"

\* GetQueuedCompletionStatus, without a timeout.
Dequeue(w) ==
  /\ At(w, "wait", "handle") /\ queue # <<>>
  /\ got' = [got EXCEPT ![w] = Head(queue)] /\ queue' = Tail(queue)
  /\ excused' = (excused \/ main = "clear" \/ \E v \in Workers : pc[v] \in Inside)
  /\ UNCHANGED <<clientVars, owner, ops, clntSocketVec, inVec, contexts, ub>>

\* Between the begin and the end of a change another thread must not touch it.
EnterVec(t) == inVec' = inVec \cup {t} /\ ub' = IF inVec = {} THEN "none" ELSE "vector"

AcceptPush(w) ==
  /\ got[w].ok /\ got[w].kind = "accept"
  /\ At(w, "handle", "push") /\ EnterVec(w)
  /\ UNCHANGED <<clientVars, owner, ops, queue, got, clntSocketVec, contexts, excused>>

\* Mutant: AcceptEx is not posted again.
AcceptOnce(w) ==
  /\ Handled(w, "push", Top) /\ inVec' = inVec \ {w}
  /\ clntSocketVec' = Append(clntSocketVec, got[w].h)
  /\ contexts' = contexts \cup {got[w].c}
  /\ ops' = ops \cup {Op("read", got[w].h, got[w].c)}
  /\ UNCHANGED <<clientVars, owner, queue, ub, excused>>

\* What WSASend and WSARecv post: on a connection that was reset a call may fail at
\* once, then nothing will complete.  Nobody looks at what they return.
Posted(c, armed) == {s \in SUBSET armed : s = armed \/ client[c] = "reset"}

\* The context, the first read, if the socket was not closed in between, and the
\* next AcceptEx on a new socket.  Bound: there is a handle left for it, and
\* AcceptEx, which needs nothing of a client yet, does not fail at once.
Accept(w) ==
  /\ Handled(w, "push", Top) /\ inVec' = inVec \ {w}
  /\ LET h == got[w].h
         c == got[w].c
     IN  /\ clntSocketVec' = Append(clntSocketVec, h)
         /\ contexts' = contexts \cup {c}
         /\ \E new \in {x \in Handles : owner[x] = Free},
              armed \in Posted(c, IF owner[h] = c THEN {Op("read", h, c)} ELSE {}) :
              /\ ops' = ops \cup {Op("accept", new, Listen)} \cup armed
              /\ owner' = [owner EXCEPT ![new] = Listen]
         /\ ub' = IF owner[h] \in {c, Free} THEN "none" ELSE "foreign"
  /\ UNCHANGED <<clientVars, queue, excused>>

\* The callback sends an answer; then the read is armed again.
Read(w) ==
  /\ got[w].ok /\ got[w].kind = "read" /\ got[w].size > 0
  /\ Handled(w, "handle", Top)
  /\ LET h == got[w].h
         c == got[w].c
     IN  /\ ub' = IF c \notin contexts THEN "context"
                  ELSE IF owner[h] \in {c, Free} THEN "none" ELSE "foreign"
         /\ \E armed \in Posted(c, IF owner[h] = c THEN {Op("read", h, c), Op("write", h, c)} ELSE {}) :
              ops' = ops \cup armed
  /\ UNCHANGED <<clientVars, owner, queue, clntSocketVec, inVec, contexts, excused>>

ReadEnd(w) ==
  /\ got[w].ok /\ got[w].kind = "read" /\ got[w].size = 0
  /\ At(w, "handle", "closed") /\ closesocket(got[w].h, got[w].c)
  /\ UNCHANGED <<clientVars, got, clntSocketVec, inVec, contexts, excused>>

EraseBegin(w) ==
  /\ At(w, "closed", "erase") /\ EnterVec(w)
  /\ UNCHANGED <<clientVars, owner, ops, queue, got, clntSocketVec, contexts, excused>>

\* delete socketContext: the destructor of its CMTcpSocket closes the handle again.
DeleteContext(w) ==
  LET c == got[w].c
      writes == {op \in ops : op.c = c /\ op.kind = "write"}
      queued == {i \in DOMAIN queue : queue[i].c = c /\ queue[i].kind = "write"}
      others == {v \in Workers \ {w} : got[v].c = c /\ got[v].kind = "write" /\ pc[v] \in Inside}
  IN  /\ contexts' = contexts \ {c}
      /\ closesocket(got[w].h, c)
      /\ excused' = (excused \/ got[w].kind = "write" \/ writes \cup queued \cup others # {})

\* find returns end() for a handle that is not there, and erase(end()) is undefined.
Erase(w) ==
  /\ Handled(w, "erase", Top) /\ inVec' = inVec \ {w}
  /\ IF got[w].c \in contexts /\ \E i \in DOMAIN clntSocketVec : clntSocketVec[i] = got[w].h
     THEN /\ clntSocketVec' = RemoveFirst(clntSocketVec, got[w].h)
          /\ DeleteContext(w)
     ELSE ub' = "erase" /\ UNCHANGED <<clntSocketVec, contexts, owner, ops, queue, excused>>
  /\ UNCHANGED clientVars

\* Mutant: every finished answer is taken for the end of the connection.
WriteCloses(w) ==
  /\ got[w].ok /\ got[w].kind = "write"
  /\ Handled(w, "handle", Top) /\ CloseAll({got[w].h}) /\ ub' = "none"
  /\ clntSocketVec' = RemoveFirst(clntSocketVec, got[w].h)
  /\ contexts' = contexts \ {got[w].c}
  /\ UNCHANGED <<clientVars, inVec, excused>>

\* No answer is empty: the branch for a size of 0 is not reached.
Write(w) ==
  /\ got[w].ok /\ got[w].kind = "write"
  /\ Handled(w, "handle", Top)
  /\ UNCHANGED <<clientVars, owner, ops, queue, clntSocketVec, inVec, contexts, ub, excused>>

\* An operation failed: whatever it was, its key is taken for a SocketContext.
Failed(w) ==
  /\ ~got[w].ok
  /\ At(w, "handle", "delete")
  /\ IF got[w].c \in contexts THEN closesocket(got[w].h, got[w].c)
     ELSE ub' = "context" /\ UNCHANGED <<owner, ops, queue>>
  /\ UNCHANGED <<clientVars, got, clntSocketVec, inVec, contexts, excused>>

\* Mutant: continue instead of break.
FailedContinues(w) ==
  /\ Handled(w, "delete", Top) /\ DeleteContext(w)
  /\ UNCHANGED <<clientVars, clntSocketVec, inVec>>

\* The handle stays in clntSocketVec and the worker leaves the loop.
FailedDelete(w) ==
  /\ Handled(w, "delete", "exit") /\ DeleteContext(w)
  /\ UNCHANGED <<clientVars, clntSocketVec, inVec>>

Worker(w) ==
  /\ ub = "none"
  /\ \/ Dequeue(w) \/ AcceptPush(w) \/ Accept(w) \/ Read(w) \/ ReadEnd(w)
     \/ EraseBegin(w) \/ Erase(w) \/ Write(w) \/ Failed(w) \/ FailedDelete(w)
  /\ UNCHANGED closeVars

---------------------------------------------------------------------------
(* close                                                                      *)

Running == {w \in Workers : pc[w] # "exit"}

ClearBegin ==
  /\ main = "run" /\ main' = "clear" /\ EnterVec("main")
  /\ excused' = (excused \/ \E w \in Workers : pc[w] \in Inside)
  /\ UNCHANGED <<clientVars, owner, ops, queue, pc, got, clntSocketVec, contexts, short>>

clearConnected ==
  LET reads == {op \in ops : op.kind = "read" /\ op.h \in ToSet(clntSocketVec)} IN
  /\ main = "clear" /\ main' = "sleep" /\ inVec' = inVec \ {"main"}
  /\ CloseAll(ToSet(clntSocketVec)) /\ clntSocketVec' = <<>>
  /\ short' = (Cardinality(reads) < Cardinality(Running))
  /\ excused' = (excused \/ clntSocketVec # <<>>)
  /\ UNCHANGED <<clientVars, pc, got, contexts, ub>>

StopWorkers ==
  /\ main = "sleep" /\ main' = "join"
  /\ UNCHANGED <<clientVars, owner, ops, queue, workerVars, ub, excused, short>>

Joined ==
  /\ main = "join" /\ Running = {} /\ main' = "closed"
  /\ UNCHANGED <<clientVars, owner, ops, queue, workerVars, ub, excused, short>>

Close == ub = "none" /\ (clearConnected \/ StopWorkers \/ Joined)

IocpNext == World \/ (\E w \in Workers : Worker(w)) \/ (ub = "none" /\ ClearBegin) \/ Close

\* Threads and kernel go on; clients act, and close() is called, when they like.
IocpSpec ==
  /\ IocpInit /\ [][IocpNext]_iocpVars
  /\ \A w \in Workers : WF_iocpVars(Worker(w))
  /\ WF_iocpVars(Close)
  /\ WF_iocpVars(ub = "none" /\ (KernelRead \/ KernelWrite) /\ UNCHANGED <<workerVars, closeVars>>)
  /\ \A c \in Clients : WF_iocpVars(ub = "none" /\ KernelAccept(c) /\ UNCHANGED <<workerVars, closeVars>>)

---------------------------------------------------------------------------
\* Nothing undefined happens and no foreign socket is closed while the handlers
\* do not overlap in time, no answer is under way when its connection ends, no
\* AcceptEx fails and close() closes no handle under a worker: in particular the second close of every handle, erase(find())
\* and the SocketContext that comes back as a key are sound one at a time.
SafeWhenSerial == ub # "none" => excused

\* As long as one worker is left every connection is accepted and what it sends
\* is read, whatever connections failed before.
ServedWhileWorkersLast ==
  \A c \in Clients :
    [](client[c] = "backlog" \/ (client[c] = "up" /\ unread[c] = "data")
        => <>(~(client[c] = "backlog" \/ (client[c] = "up" /\ unread[c] = "data"))
              \/ Running = {} \/ main # "run" \/ ub # "none"))

\* close() returns when it finds a read in progress for every worker that runs:
\* nothing else wakes them.
CloseReturns == [](main = "join" => <>(main = "closed" \/ short \/ ub # "none"))
=============================================================================
