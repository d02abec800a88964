------------------------------- MODULE EchoTcp -------------------------------
(***************************************************************************)
(* TCPServer/TcpServer.{h,cpp}: EchoTcpServer and TestTcpClient, the two   *)
(* programs main.cpp can become, running against each other.  Each has one *)
(* thread, an epoll instance and a map _clSockets from descriptors to      *)
(* TcpSocket objects.  Listening sockets are watched level-triggered, all  *)
(* others edge-triggered, so a handler has to read until EWOULDBLOCK.      *)
(*                                                                         *)
(* What both programs have is a function of the side it belongs to.  The   *)
(* messages of a client on one connection are the numbers 1, 2, ...; an    *)
(* answer is the sequence of the messages the server has read at once.     *)
(* Sockets, epoll and the network are modelled from how the code uses      *)
(* them.                                                                   *)
(***************************************************************************)
EXTENDS Integers, Sequences, FiniteSets, SequencesExt

CONSTANTS Ports,      \* ports the server listens on
          MaxConns,   \* bound: connections the client attempts
          Fds,        \* descriptors either process may be given
          SendLimit,  \* the literal 100 of TestTcpClient::start
          MaxMsgs,    \* bound: messages the client sends on one connection
          MaxTimeouts,\* bound: calls of connect that time out
          MaxResets,  \* bound: connections that break
          MaxDrops    \* bound: calls of send that find the send buffer full

ASSUME EchoAssumption ==
  /\ SendLimit \in Nat /\ MaxMsgs \in Nat
  /\ MaxTimeouts \in Nat /\ MaxResets \in Nat /\ MaxDrops \in Nat
  /\ MaxConns \in Nat
  /\ Fds \subseteq Nat /\ Cardinality(Fds) >= MaxConns
  /\ Ports \cap Fds = {}

\* Connections, in the order in which the client makes them.
Conns == 1..MaxConns
None == 0

Sides == {"server", "client"}
Other(side) == IF side = "server" THEN "client" ELSE "server"

VARIABLES
  clSockets, \* clSockets[side]: _clSockets, descriptor -> TcpSocket object
  pc,        \* pc[side]: where the process is
  events,    \* events[side]: ready descriptors still to be handled
  cur,       \* cur[side]: the descriptor being handled
  msg,       \* msg[side]: what readAll has read so far
  todo,      \* ports to connect to, or sockets to send on, in this turn
  \* the kernel and the network
  holder,    \* holder[side][fd]: the connection an open descriptor belongs to
  watched,   \* watched[side]: descriptors in the epoll set
  edges,     \* edges[side]: descriptors with an event not reported yet
  inq,       \* inq[side][c]: messages that arrived at a side, unread
  closed,    \* closed[side]: connections whose end the side has closed
  backlog,   \* backlog[port]: connections not accepted
  broken,    \* connections that were reset
  \* history
  made,      \* number of connections attempted
  timeouts, drops,
  sent,      \* sent[c]: messages the client has sent
  got,       \* got[c]: messages the client has read back
  cut        \* connections on which a send was dropped

procVars == <<clSockets, pc, events, cur, msg, todo>>
fdVars == <<holder, watched, edges>>
netVars == <<inq, closed, backlog, broken>>
histVars == <<made, timeouts, drops, sent, got, cut>>
vars == <<procVars, fdVars, netVars, histVars>>

Both(v) == [side \in Sides |-> v]

Init ==
  /\ clSockets = Both([f \in {} |-> None])
  /\ pc = [server |-> "wait", client |-> "connect"]
  /\ events = Both({}) /\ cur = Both(-1) /\ msg = Both(<<>>)
  /\ todo = Ports
  /\ holder = Both([f \in Fds |-> None])
  /\ watched = Both({}) /\ edges = Both({})
  /\ inq = Both([c \in Conns |-> <<>>])
  /\ closed = Both({})
  /\ backlog = [p \in Ports |-> <<>>]
  /\ broken = {} /\ made = 0 /\ timeouts = 0 /\ drops = 0
  /\ sent = [c \in Conns |-> 0]
  /\ got = [c \in Conns |-> <<>>]
  /\ cut = {}

------------------------------------------------------------------------------
(* Descriptors.                                                            *)

\* The kernel returns the lowest descriptor that is free.
LowestFree(side, f) ==
  /\ holder[side][f] = None
  /\ \A g \in Fds : g < f => holder[side][g] # None
FdsOf(side, c) == {f \in Fds : holder[side][f] = c}
\* recv on connection c would not return EWOULDBLOCK.
Readable(side, c) ==
  inq[side][c] # <<>> \/ c \in closed[Other(side)] \cup broken

\* An accepted or connected socket: descriptor f, epoll_ctl(ADD) with EPOLLET
\* and the entry of the map.  The destructor of an object that was there closes
\* the descriptor the object has.
AddSocket(side, f, c) ==
  LET old == f \in DOMAIN clSockets[side] /\ clSockets[side][f].fd = f
  IN  /\ holder' = [holder EXCEPT ![side][f] = IF old THEN None ELSE c]
      /\ watched' = [watched EXCEPT ![side] = IF old THEN @ ELSE @ \cup {f}]
      /\ edges' = [edges EXCEPT ![side] =
            IF ~old /\ Readable(side, c) THEN @ \cup {f} ELSE @]
      /\ clSockets' = [clSockets EXCEPT ![side] =
            [g \in DOMAIN @ \cup {f} |->
               IF g = f THEN [fd |-> f, conn |-> c, isConnect |-> TRUE] ELSE @[g]]]

\* Mutant: close() leaves _fd as it was.
DisconnectedKeepsFd(side, f) == [clSockets EXCEPT ![side][f].isConnect = FALSE]

\* The entry of f after _isConnect = false and TcpVirtualSocket::close().
Disconnected(side, f) ==
  [clSockets EXCEPT ![side][f].fd = -1, ![side][f].isConnect = FALSE]

\* close(f), which takes f out of the epoll set; the peer sees the end.
CloseFd(side, f) ==
  LET c == holder[side][f]
  IN  /\ holder' = [holder EXCEPT ![side][f] = None]
      /\ watched' = [watched EXCEPT ![side] = @ \ {f}]
      /\ edges' = [edges EXCEPT ![side] = @ \ {f},
                                ![Other(side)] = @ \cup FdsOf(Other(side), c)]
      /\ closed' = [closed EXCEPT ![side] = @ \cup {c}]

------------------------------------------------------------------------------
(* The event loop that both programs have.                                 *)

\* epoll_wait: edges are reported once, a listening socket as long as it has
\* connections to hand out.
EpollWait(side) ==
  /\ pc[side] = "wait"
  /\ LET listening == IF side = "server" THEN {p \in Ports : backlog[p] # <<>>} ELSE {}
     IN  events' = [events EXCEPT ![side] = edges[side] \cup listening]
  /\ side = "server" => events'[side] # {}
  /\ edges' = [edges EXCEPT ![side] = {}]
  /\ pc' = [pc EXCEPT ![side] = "batch"]
  /\ UNCHANGED <<clSockets, cur, msg, todo, holder, watched, netVars, histVars>>

Handled(side, f) == events' = [events EXCEPT ![side] = @ \ {f}]

\* The event of a communication socket.  The server skips a descriptor that is
\* not in the map; the client would use the null pointer operator[] inserts.
BeginRead(side) ==
  /\ pc[side] = "batch"
  /\ \E f \in events[side] \cap Fds :
        /\ Handled(side, f)
        /\ IF f \in DOMAIN clSockets[side]
           THEN /\ cur' = [cur EXCEPT ![side] = f]
                /\ pc' = [pc EXCEPT ![side] = "read"]
           ELSE /\ pc' = [pc EXCEPT ![side] = IF side = "server" THEN "batch" ELSE "crashed"]
                /\ UNCHANGED cur
  /\ UNCHANGED <<clSockets, msg, todo, fdVars, netVars, histVars>>

Current(side) == clSockets[side][cur[side]]
Reading(side) == pc[side] = "read" /\ Current(side).isConnect

\* Mutant: each recv overwrites what the one before has read.
RecvOverwrites(side) ==
  /\ Reading(side)
  /\ LET c == Current(side).conn
     IN  \E n \in 1..Len(inq[side][c]) :
           /\ msg' = [msg EXCEPT ![side] = SubSeq(inq[side][c], 1, n)]
           /\ inq' = [inq EXCEPT ![side][c] = SubSeq(@, n + 1, Len(@))]
  /\ UNCHANGED <<clSockets, pc, events, cur, todo, fdVars, closed, backlog, broken, histVars>>

\* readAll: recv returns some of the messages that have arrived.
Recv(side) ==
  /\ Reading(side)
  /\ LET c == Current(side).conn
     IN  \E n \in 1..Len(inq[side][c]) :
           /\ msg' = [msg EXCEPT ![side] = @ \o SubSeq(inq[side][c], 1, n)]
           /\ inq' = [inq EXCEPT ![side][c] = SubSeq(@, n + 1, Len(@))]
  /\ UNCHANGED <<clSockets, pc, events, cur, todo, fdVars, closed, backlog, broken, histVars>>

\* Mutant: the end of the stream is not noticed.
RecvEndIgnored(side) ==
  /\ Reading(side)
  /\ Current(side).conn \in broken
  /\ CloseFd(side, cur[side])
  /\ clSockets' = Disconnected(side, cur[side])
  /\ UNCHANGED <<pc, events, cur, msg, todo, inq, backlog, broken, histVars>>

\* readAll: recv returns 0 or an error other than EWOULDBLOCK.
RecvEnd(side) ==
  /\ Reading(side)
  /\ LET c == Current(side).conn
     IN  c \in broken \/ (inq[side][c] = <<>> /\ c \in closed[Other(side)])
  /\ CloseFd(side, cur[side])
  /\ clSockets' = Disconnected(side, cur[side])
  /\ UNCHANGED <<pc, events, cur, msg, todo, inq, backlog, broken, histVars>>

\* Mutant: readAll returns after any recv.
ReadOnce(side) ==
  /\ pc[side] = "read"
  /\ Current(side).isConnect => msg[side] # <<>>
  /\ pc' = [pc EXCEPT ![side] = "handle"]
  /\ UNCHANGED <<clSockets, events, cur, msg, todo, fdVars, netVars, histVars>>

\* readAll returns: recv returned EWOULDBLOCK, or the socket was closed.
ReadAllReturns(side) ==
  /\ pc[side] = "read"
  /\ Current(side).isConnect => ~Readable(side, Current(side).conn)
  /\ pc' = [pc EXCEPT ![side] = "handle"]
  /\ UNCHANGED <<clSockets, events, cur, msg, todo, fdVars, netVars, histVars>>

EraseEntry(side) ==
  clSockets' = [clSockets EXCEPT ![side] = [g \in DOMAIN @ \ {cur[side]} |-> @[g]]]
Back(side) ==
  /\ pc' = [pc EXCEPT ![side] = "batch"]
  /\ cur' = [cur EXCEPT ![side] = -1]
  /\ msg' = [msg EXCEPT ![side] = <<>>]

\* The socket was closed: erase, and EPOLL_CTL_DEL of a descriptor that is not
\* open.  The server throws away what it has read, the client has printed it.
Erase(side) ==
  /\ pc[side] = "handle"
  /\ ~Current(side).isConnect
  /\ EraseEntry(side)
  /\ got' = IF side = "client" THEN [got EXCEPT ![Current(side).conn] = @ \o msg[side]] ELSE got
  /\ Back(side)
  /\ UNCHANGED <<events, todo, fdVars, netVars, made, timeouts, drops, sent, cut>>

------------------------------------------------------------------------------
(* TcpSocket::send.                                                        *)

\* All of data is transmitted; data for a closed end provokes a reset.
SendOk(side, f, data) ==
  LET c == clSockets[side][f].conn
  IN  /\ c \notin broken
      /\ IF c \notin closed[Other(side)]
         THEN /\ inq' = [inq EXCEPT ![Other(side)][c] = @ \o data]
              /\ edges' = [edges EXCEPT ![Other(side)] = @ \cup FdsOf(Other(side), c)]
              /\ UNCHANGED broken
         ELSE /\ broken' = broken \cup {c}
              /\ edges' = [edges EXCEPT ![side] = @ \cup {f}]
              /\ UNCHANGED inq
      /\ UNCHANGED <<clSockets, holder, watched, closed, drops, cut>>

\* EWOULDBLOCK, or only a part is transmitted: nobody sends the rest.
SendDropped(side, f) ==
  LET c == clSockets[side][f].conn
  IN  /\ c \notin broken
      /\ drops < MaxDrops
      /\ drops' = drops + 1
      /\ cut' = cut \cup {c}
      /\ UNCHANGED <<clSockets, fdVars, inq, closed, broken>>

\* Any other error: the descriptor is closed, the entry of the map stays.
SendFails(side, f) ==
  /\ clSockets[side][f].conn \in broken
  /\ CloseFd(side, f)
  /\ clSockets' = Disconnected(side, f)
  /\ UNCHANGED <<inq, broken, drops, cut>>

\* A socket that is not connected sends nothing.
Send(side, f, data) ==
  IF clSockets[side][f].isConnect
  THEN SendOk(side, f, data) \/ SendDropped(side, f) \/ SendFails(side, f)
  ELSE UNCHANGED <<clSockets, fdVars, inq, closed, broken, drops, cut>>

------------------------------------------------------------------------------
(* EchoTcpServer::start.                                                   *)

\* accept: one connection per event.
Accept(p) ==
  /\ pc["server"] = "batch"
  /\ p \in events["server"]
  /\ Handled("server", p)
  /\ \E f \in Fds :
        /\ LowestFree("server", f)
        /\ backlog' = [backlog EXCEPT ![p] = Tail(@)]
        /\ AddSocket("server", f, Head(backlog[p]))
  /\ UNCHANGED <<pc, cur, msg, todo, inq, closed, broken, histVars>>

\* Mutant: the last answer of a batch is forgotten.
EchoForgets ==
  /\ pc["server"] = "handle"
  /\ Current("server").isConnect
  /\ IF events["server"] # {} THEN Send("server", cur["server"], msg["server"])
     ELSE UNCHANGED <<clSockets, fdVars, inq, closed, broken, drops, cut>>
  /\ Back("server")
  /\ UNCHANGED <<events, todo, backlog, made, timeouts, sent, got>>

\* "Recv To:" and what was read, if that was anything.
Echo ==
  /\ pc["server"] = "handle"
  /\ Current("server").isConnect
  /\ IF msg["server"] # <<>> THEN Send("server", cur["server"], msg["server"])
     ELSE UNCHANGED <<clSockets, fdVars, inq, closed, broken, drops, cut>>
  /\ Back("server")
  /\ UNCHANGED <<events, todo, backlog, made, timeouts, sent, got>>

ServerTurn ==
  /\ pc["server"] = "batch"
  /\ events["server"] = {}
  /\ pc' = [pc EXCEPT !["server"] = "wait"]
  /\ UNCHANGED <<clSockets, events, cur, msg, todo, fdVars, netVars, histVars>>

------------------------------------------------------------------------------
(* TestTcpClient::start.                                                   *)

\* connect() succeeds; the server's kernel has queued the connection.
ClientConnect(p) ==
  /\ pc["client"] = "connect"
  /\ p \in todo
  /\ todo' = todo \ {p}
  /\ made < MaxConns
  /\ made' = made + 1
  /\ backlog' = [backlog EXCEPT ![p] = Append(@, made')]
  /\ \E f \in Fds : LowestFree("client", f) /\ AddSocket("client", f, made')
  /\ UNCHANGED <<pc, events, cur, msg, inq, closed, broken, timeouts, drops, sent, got, cut>>

\* connect() gives up after 200 microseconds (SO_SNDTIMEO) and the socket is
\* destroyed, but the server may get the connection all the same.
ClientTimeout(p) ==
  /\ pc["client"] = "connect"
  /\ p \in todo
  /\ todo' = todo \ {p}
  /\ timeouts < MaxTimeouts
  /\ timeouts' = timeouts + 1
  /\ made < MaxConns
  /\ made' = made + 1
  /\ backlog' = [backlog EXCEPT ![p] = Append(@, made')]
  /\ closed' = [closed EXCEPT !["client"] = @ \cup {made'}]
  /\ UNCHANGED <<clSockets, pc, events, cur, msg, fdVars, inq, broken, drops,
                 sent, got, cut>>

\* The loop over the ports ends; MaxConns bounds the attempts.
ConnectsDone ==
  /\ pc["client"] = "connect"
  /\ todo = {} \/ made = MaxConns
  /\ pc' = [pc EXCEPT !["client"] = "wait"]
  /\ todo' = {}
  /\ UNCHANGED <<clSockets, events, cur, msg, fdVars, netVars, histVars>>

\* The answer is printed.
PrintAnswer ==
  /\ pc["client"] = "handle"
  /\ Current("client").isConnect
  /\ got' = [got EXCEPT ![Current("client").conn] = @ \o msg["client"]]
  /\ Back("client")
  /\ UNCHANGED <<clSockets, events, todo, fdVars, netVars, made, timeouts, drops, sent, cut>>

\* The batch is over: the first entries of the map, one more than SendLimit,
\* are going to send.
ClientTurn ==
  /\ pc["client"] = "batch"
  /\ events["client"] = {}
  /\ \E chosen \in SUBSET DOMAIN clSockets["client"] :
        /\ \/ Cardinality(chosen) = SendLimit + 1
           \/ Cardinality(chosen) <= SendLimit /\ chosen = DOMAIN clSockets["client"]
        /\ todo' = chosen
  /\ pc' = [pc EXCEPT !["client"] = "send"]
  /\ UNCHANGED <<clSockets, events, cur, msg, fdVars, netVars, histVars>>

Hello(f) ==
  /\ pc["client"] = "send"
  /\ f \in todo
  /\ todo' = todo \ {f}
  /\ LET c == clSockets["client"][f].conn
     IN  IF sent[c] < MaxMsgs
         THEN /\ Send("client", f, <<sent[c] + 1>>)
              /\ sent' = [sent EXCEPT ![c] = @ + (IF clSockets["client"][f].isConnect THEN 1 ELSE 0)]
         ELSE UNCHANGED <<clSockets, fdVars, inq, closed, broken, drops, cut, sent>>
  /\ UNCHANGED <<pc, events, cur, msg, backlog, made, timeouts, got>>

SendsDone ==
  /\ pc["client"] = "send"
  /\ todo = {}
  /\ todo' = Ports
  /\ pc' = [pc EXCEPT !["client"] = "connect"]
  /\ UNCHANGED <<clSockets, events, cur, msg, fdVars, netVars, histVars>>

------------------------------------------------------------------------------
\* A connection breaks: both ends get an error from now on.
Reset(c) ==
  /\ Cardinality(broken) < MaxResets
  /\ c \notin broken
  /\ c \in 1..made \ (closed["server"] \cap closed["client"])
  /\ broken' = broken \cup {c}
  /\ edges' = [side \in Sides |-> edges[side] \cup FdsOf(side, c)]
  /\ UNCHANGED <<procVars, holder, watched, inq, closed, backlog, histVars>>

Loop(side) ==
  \/ EpollWait(side) \/ BeginRead(side) \/ Recv(side) \/ RecvEnd(side)
  \/ ReadAllReturns(side) \/ Erase(side)
Server == Loop("server") \/ Echo \/ ServerTurn \/ \E p \in Ports : Accept(p)
Client ==
  \/ Loop("client") \/ PrintAnswer \/ ClientTurn \/ ConnectsDone \/ SendsDone
  \/ \E p \in Ports : ClientConnect(p) \/ ClientTimeout(p)
  \/ \E f \in Fds : Hello(f)

Next == Server \/ Client \/ \E c \in Conns : Reset(c)

Spec == Init /\ [][Next]_vars

\* Each program is one thread that runs for ever.
FairSpec == Spec /\ WF_vars(Server) /\ WF_vars(Client)

------------------------------------------------------------------------------
\* No edge is lost: a socket that has something to read is going to be reported,
\* waits in the batch or is being read, whatever arrives between the last recv
\* and the next epoll_wait, and also what arrived before the socket was added.
NoLostEdge ==
  \A side \in Sides : \A f \in watched[side] :
    Readable(side, holder[side][f]) =>
      f \in edges[side] \cup events[side] \/ (pc[side] = "read" /\ cur[side] = f)

\* The maps and the descriptors belong together although descriptors are used
\* again and failed sends leave entries behind: a connected entry owns the open
\* descriptor of its connection, every open descriptor has such an entry, any
\* other entry owns nothing, and the client never looks up a missing one.
OwnDescriptors ==
  /\ pc["client"] # "crashed"
  /\ \A side \in Sides :
       /\ \A f \in DOMAIN clSockets[side] :
            LET s == clSockets[side][f]
            IN  IF s.isConnect THEN s.fd = f /\ holder[side][f] = s.conn ELSE s.fd = -1
       /\ \A f \in Fds : holder[side][f] # None =>
            f \in watched[side] /\ f \in DOMAIN clSockets[side] /\ clSockets[side][f].isConnect

\* What a side has read of connection c and not passed on yet.
InHand(side, c) == IF cur[side] # -1 /\ Current(side).conn = c THEN msg[side] ELSE <<>>

\* Every message is, in order, printed, on its way back, being answered or on its
\* way to the server: none is lost, repeated or reordered on a connection that
\* was not reset and on which no send was cut short.
NothingLost ==
  \A c \in Conns \ (cut \cup broken) :
    got[c] \o InHand("client", c) \o inq["client"][c]
      \o InHand("server", c) \o inq["server"][c] = [i \in 1..sent[c] |-> i]

\* Every message is answered, unless the connection is reset or a send on it is
\* cut short; one accept per event and edge-triggered sockets suffice for that.
EveryRequestAnswered ==
  \A c \in Conns, n \in 1..MaxMsgs :
    sent[c] >= n ~> n \in ToSet(got[c]) \/ c \in cut \cup broken

\* When one end of a connection is closed the other end is closed in the end:
\* also by the server for a client whose connect timed out before the accept,
\* so descriptors do not leak.
HangupNoticed ==
  \A c \in Conns, side \in Sides : c \in closed[side] ~> c \in closed[Other(side)]
==============================================================================
