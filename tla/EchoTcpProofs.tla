---------------------------- MODULE EchoTcpProofs ----------------------------
(***************************************************************************)
(* The maps _clSockets of EchoTcpServer and TestTcpClient own exactly the  *)
(* descriptors that are open, for any number of ports, descriptors,        *)
(* connections, resets and sends that fail; no edge is lost on them, and   *)
(* no message on a connection that works.                                  *)
(***************************************************************************)
EXTENDS EchoTcp, SequenceTheorems, TLAPS

---------------------------------------------------------------------------
(* One side: its map cl, the connections h of its descriptors, the epoll set   *)
(* w, edges e and events ev, and its program counter p and descriptor c.       *)

Objects == [fd : Fds \cup {-1}, conn : Conns, isConnect : BOOLEAN]

\* A connected object owns its open descriptor, and nothing else is open.
Owns(cl, h, w) ==
  /\ \A f \in DOMAIN cl : IF cl[f].isConnect THEN cl[f].fd = f /\ h[f] = cl[f].conn
                                             ELSE cl[f].fd = -1
  /\ \A f \in Fds : h[f] # None => f \in w /\ f \in DOMAIN cl /\ cl[f].isConnect

\* Edges are those of open descriptors; whatever will be looked up is there.
SideInv(cl, h, w, e, ev, p, c) ==
  /\ DOMAIN cl \subseteq Fds /\ \A f \in DOMAIN cl : cl[f] \in Objects
  /\ h \in [Fds -> Conns \cup {None}]
  /\ Owns(cl, h, w)
  /\ \A f \in e : f \in Fds /\ h[f] # None
  /\ ev \cap Fds \subseteq DOMAIN cl
  /\ p \in {"read", "handle"} => c \in DOMAIN cl /\ c \notin ev

Side(s) == SideInv(clSockets[s], holder[s], watched[s], edges[s], events[s], pc[s], cur[s])

DomInv ==
  /\ DOMAIN clSockets = Sides /\ DOMAIN holder = Sides /\ DOMAIN watched = Sides
  /\ DOMAIN edges = Sides /\ DOMAIN events = Sides /\ DOMAIN pc = Sides /\ DOMAIN cur = Sides

\* accept finds a connection, and the client sends on sockets it has.
LoopInv ==
  /\ made \in 0..MaxConns
  /\ backlog \in [Ports -> Seq(Conns)]
  /\ \A p \in Ports \cap events["server"] : backlog[p] # <<>>
  /\ pc["client"] = "send" => todo \subseteq DOMAIN clSockets["client"]
  /\ pc["client"] # "crashed"

Inv == DomInv /\ LoopInv /\ \A s \in Sides : Side(s)

---------------------------------------------------------------------------
(* What the operations on descriptors do to a side.                            *)

\* An object for a descriptor that was free.
LEMMA Adds ==
  ASSUME NEW cl, NEW h, NEW w, NEW e, NEW ev, NEW p, NEW c,
         SideInv(cl, h, w, e, ev, p, c), p \notin {"read", "handle"},
         NEW f \in Fds, h[f] = None, NEW k \in Conns, NEW b \in SUBSET {f},
         NEW evs \in SUBSET ev
  PROVE  /\ ~(f \in DOMAIN cl /\ cl[f].fd = f)
         /\ SideInv([g \in DOMAIN cl \cup {f} |->
                       IF g = f THEN [fd |-> f, conn |-> k, isConnect |-> TRUE] ELSE cl[g]],
                    [h EXCEPT ![f] = k], w \cup {f}, e \cup b, evs, p, c)
<1> DEFINE m == [g \in DOMAIN cl \cup {f} |->
                   IF g = f THEN [fd |-> f, conn |-> k, isConnect |-> TRUE] ELSE cl[g]]
           o == [h EXCEPT ![f] = k]
<1>1. None \notin Conns /\ -1 \notin Fds
  BY EchoAssumption DEF None, Conns
<1>2. ~(f \in DOMAIN cl /\ cl[f].fd = f)
  BY <1>1 DEF SideInv, Owns, Objects
<1>3. /\ DOMAIN m = DOMAIN cl \cup {f}
      /\ m[f] = [fd |-> f, conn |-> k, isConnect |-> TRUE]
      /\ \A g \in DOMAIN cl : g # f => m[g] = cl[g]
  OBVIOUS
<1>4. /\ o \in [Fds -> Conns \cup {None}] /\ o[f] = k
      /\ \A g \in Fds : g # f => o[g] = h[g]
  BY DEF SideInv
<1> HIDE DEF m, o
<1>5. \A g \in DOMAIN m : m[g] \in Objects
  <2>1. [fd |-> f, conn |-> k, isConnect |-> TRUE] \in Objects
    BY DEF Objects
  <2> QED
    BY <1>3, <2>1 DEF SideInv
<1>6. Owns(m, o, w \cup {f})
  BY <1>1, <1>3, <1>4 DEF SideInv, Owns
<1>7. \A g \in e \cup b : g \in Fds /\ o[g] # None
  BY <1>1, <1>4 DEF SideInv
<1>8. SideInv(m, o, w \cup {f}, e \cup b, evs, p, c)
  BY <1>3, <1>4, <1>5, <1>6, <1>7 DEF SideInv
<1> QED
  BY <1>2, <1>8 DEF m, o

\* A connected object is closed: its descriptor is free, its entry stays.
LEMMA Closes ==
  ASSUME NEW cl, NEW h, NEW w, NEW e, NEW ev, NEW p, NEW c,
         SideInv(cl, h, w, e, ev, p, c),
         NEW f \in DOMAIN cl, cl[f].isConnect
  PROVE  /\ h[f] \in Conns
         /\ SideInv([cl EXCEPT ![f].fd = -1, ![f].isConnect = FALSE],
                    [h EXCEPT ![f] = None], w \ {f}, e \ {f}, ev, p, c)
<1> DEFINE m == [cl EXCEPT ![f].fd = -1, ![f].isConnect = FALSE]
           o == [h EXCEPT ![f] = None]
<1>1. f \in Fds /\ cl[f] \in Objects /\ h[f] = cl[f].conn /\ h[f] \in Conns
  BY DEF SideInv, Owns, Objects
<1>2. /\ DOMAIN m = DOMAIN cl
      /\ m[f] = [fd |-> -1, conn |-> cl[f].conn, isConnect |-> FALSE]
      /\ \A g \in DOMAIN cl : g # f => m[g] = cl[g]
  BY <1>1 DEF Objects
<1>3. /\ o \in [Fds -> Conns \cup {None}] /\ o[f] = None
      /\ \A g \in Fds : g # f => o[g] = h[g]
  BY <1>1 DEF SideInv
<1> HIDE DEF m, o
<1>4. \A g \in DOMAIN m : m[g] \in Objects
  <2>1. [fd |-> -1, conn |-> cl[f].conn, isConnect |-> FALSE] \in Objects
    BY <1>1 DEF Objects
  <2> QED
    BY <1>2, <2>1 DEF SideInv
<1>5. Owns(m, o, w \ {f})
  <2>1. \A g \in DOMAIN m : IF m[g].isConnect THEN m[g].fd = g /\ o[g] = m[g].conn
                                              ELSE m[g].fd = -1
    BY <1>1, <1>2, <1>3 DEF SideInv, Owns
  <2>2. \A g \in Fds : o[g] # None => g \in w \ {f} /\ g \in DOMAIN m /\ m[g].isConnect
    BY <1>1, <1>2, <1>3 DEF SideInv, Owns
  <2> QED
    BY <2>1, <2>2 DEF Owns
<1>6. SideInv(m, o, w \ {f}, e \ {f}, ev, p, c)
  BY <1>2, <1>3, <1>4, <1>5 DEF SideInv
<1> QED
  BY <1>1, <1>6 DEF m, o

\* The entry of a closed object is erased once it has been handled.
LEMMA Erases ==
  ASSUME NEW cl, NEW h, NEW w, NEW e, NEW ev, NEW c,
         SideInv(cl, h, w, e, ev, "handle", c), ~cl[c].isConnect, NEW d
  PROVE  SideInv([g \in DOMAIN cl \ {c} |-> cl[g]], h, w, e, ev, "batch", d)
<1> DEFINE m == [g \in DOMAIN cl \ {c} |-> cl[g]]
<1>1. DOMAIN m = DOMAIN cl \ {c} /\ \A g \in DOMAIN m : m[g] = cl[g]
  OBVIOUS
<1>2. c \notin ev
  BY DEF SideInv
<1> HIDE DEF m
<1>3. Owns(m, h, w)
  BY <1>1 DEF SideInv, Owns
<1>4. SideInv(m, h, w, e, ev, "batch", d)
  BY <1>1, <1>2, <1>3 DEF SideInv
<1> QED
  BY <1>4 DEF m

\* More edges of open descriptors, fewer events, no new descriptor to handle.
LEMMA Goes ==
  ASSUME NEW s, Side(s),
         UNCHANGED <<clSockets[s], holder[s], watched[s]>>,
         \A f \in edges'[s] : f \in edges[s] \/ (f \in Fds /\ holder[s][f] # None),
         events'[s] \subseteq events[s],
         UNCHANGED <<pc[s], cur[s]>> \/ pc'[s] \notin {"read", "handle"}
                                     \/ (pc[s] = "read" /\ pc'[s] = "handle" /\ cur'[s] = cur[s])
  PROVE  Side(s)'
BY DEF Side, SideInv

---------------------------------------------------------------------------
(* The operations as steps of both sides.                                      *)

\* There are two sides, and what one does to the other's descriptors are edges.
LEMMA TwoSides ==
  /\ Sides = {"server", "client"}
  /\ \A s \in Sides : Other(s) \in Sides /\ Other(s) # s
  /\ \A s, t \in Sides : t = s \/ t = Other(s)
BY DEF Sides, Other

\* FdsOf names open descriptors only.
LEMMA OpenFds ==
  ASSUME NEW s, NEW k \in Conns
  PROVE  \A f \in FdsOf(s, k) : f \in Fds /\ holder[s][f] # None
BY DEF FdsOf, Conns, None

\* The program counters and descriptors stay, or a handler is over.
Steady ==
  /\ DOMAIN pc' = Sides /\ DOMAIN cur' = Sides
  /\ \A s \in Sides : UNCHANGED <<pc[s], cur[s]>> \/ pc'[s] = "batch"

\* What a step that moves descriptors has to keep.
Moved == DomInv' /\ \A s \in Sides : Side(s)'

\* accept and connect: the new descriptor was free, so no object is replaced.
LEMMA AddSteps ==
  ASSUME Inv, NEW side \in Sides, pc[side] \notin {"read", "handle"},
         NEW f \in Fds, LowestFree(side, f), NEW k \in Conns, AddSocket(side, f, k),
         UNCHANGED <<pc, cur>>, DOMAIN events' = Sides,
         \A s \in Sides : events'[s] \subseteq events[s]
  PROVE  Moved /\ \A s \in Sides : DOMAIN clSockets[s] \subseteq DOMAIN clSockets'[s]
<1> DEFINE b == IF Readable(side, k) THEN {f} ELSE {}
<1>1. DomInv /\ Side(side) /\ holder[side][f] = None /\ b \in SUBSET {f}
  BY DEF Inv, LowestFree
<1> HIDE DEF b
<1>2. /\ ~(f \in DOMAIN clSockets[side] /\ clSockets[side][f].fd = f)
      /\ SideInv([g \in DOMAIN clSockets[side] \cup {f} |->
                    IF g = f THEN [fd |-> f, conn |-> k, isConnect |-> TRUE]
                             ELSE clSockets[side][g]],
                 [holder[side] EXCEPT ![f] = k], watched[side] \cup {f}, edges[side] \cup b,
                 events'[side], pc[side], cur[side])
  BY <1>1, Adds, ZenonT(30) DEF Side
<1>3. /\ holder' = [holder EXCEPT ![side][f] = k]
      /\ watched' = [watched EXCEPT ![side] = @ \cup {f}]
      /\ edges' = [edges EXCEPT ![side] = @ \cup b]
      /\ clSockets' = [clSockets EXCEPT ![side] =
            [g \in DOMAIN @ \cup {f} |->
               IF g = f THEN [fd |-> f, conn |-> k, isConnect |-> TRUE] ELSE @[g]]]
  BY <1>1, <1>2 DEF AddSocket, DomInv, b
<1>4. DomInv'
  BY <1>1, <1>3 DEF DomInv
<1>5. Side(side)'
  BY <1>1, <1>2, <1>3 DEF Side, DomInv
<1>6. ASSUME NEW s \in Sides, s # side PROVE Side(s)'
  <2>1. Side(s) /\ UNCHANGED <<clSockets[s], holder[s], watched[s], edges[s], pc[s], cur[s]>>
    BY <1>1, <1>3, <1>6 DEF Inv, DomInv
  <2> QED
    BY <2>1, Goes
<1>7. \A s \in Sides : DOMAIN clSockets[s] \subseteq DOMAIN clSockets'[s]
  BY <1>1, <1>3 DEF DomInv
<1> QED
  BY <1>4, <1>5, <1>6, <1>7 DEF Moved

\* close: the peer gets an edge if it has the connection open.
LEMMA CloseSteps ==
  ASSUME Inv, NEW side \in Sides, NEW f \in DOMAIN clSockets[side],
         clSockets[side][f].isConnect, CloseFd(side, f), clSockets' = Disconnected(side, f),
         UNCHANGED events, Steady
  PROVE  Moved /\ \A s \in Sides : DOMAIN clSockets'[s] = DOMAIN clSockets[s]
<1>1. DomInv /\ Side(side)
  BY DEF Inv
<1> DEFINE k == holder[side][f]
           peer == Other(side)
<1>2. /\ k \in Conns
      /\ SideInv([clSockets[side] EXCEPT ![f].fd = -1, ![f].isConnect = FALSE],
                 [holder[side] EXCEPT ![f] = None], watched[side] \ {f}, edges[side] \ {f},
                 events[side], pc[side], cur[side])
  BY <1>1, Closes DEF Side
<1>3. /\ holder' = [holder EXCEPT ![side][f] = None]
      /\ watched' = [watched EXCEPT ![side] = @ \ {f}]
      /\ edges' = [edges EXCEPT ![side] = @ \ {f}, ![peer] = @ \cup FdsOf(peer, k)]
  BY DEF CloseFd
<1>4. clSockets' = [clSockets EXCEPT ![side][f].fd = -1, ![side][f].isConnect = FALSE]
  BY DEF Disconnected
<1>5. peer \in Sides /\ peer # side /\ \A s \in Sides : s = side \/ s = peer
  BY TwoSides
<1> HIDE DEF k, peer
<1>6. /\ clSockets'[side] = [clSockets[side] EXCEPT ![f].fd = -1, ![f].isConnect = FALSE]
      /\ clSockets'[peer] = clSockets[peer] /\ DOMAIN clSockets' = Sides
  BY <1>1, <1>4, <1>5 DEF DomInv
<1>7. /\ holder'[side] = [holder[side] EXCEPT ![f] = None] /\ holder'[peer] = holder[peer]
      /\ watched'[side] = watched[side] \ {f} /\ watched'[peer] = watched[peer]
      /\ edges'[side] = edges[side] \ {f} /\ edges'[peer] = edges[peer] \cup FdsOf(peer, k)
      /\ DOMAIN holder' = Sides /\ DOMAIN watched' = Sides /\ DOMAIN edges' = Sides
  BY <1>1, <1>3, <1>5 DEF DomInv
<1>8. DomInv'
  BY <1>1, <1>6, <1>7 DEF DomInv, Steady
<1>9. Side(side)'
  <2>1. SideInv(clSockets'[side], holder'[side], watched'[side], edges'[side],
                events[side], pc[side], cur[side])
    BY <1>2, <1>6, <1>7
  <2> QED
    BY <2>1 DEF Side, SideInv, Steady
<1>10. Side(peer)'
  <2>1. Side(peer) /\ \A g \in FdsOf(peer, k) : g \in Fds /\ holder[peer][g] # None
    BY <1>2, <1>5, OpenFds DEF Inv
  <2>2. \A g \in edges'[peer] : g \in edges[peer] \/ (g \in Fds /\ holder[peer][g] # None)
    BY <1>7, <2>1
  <2>3. UNCHANGED <<pc[peer], cur[peer]>> \/ pc'[peer] \notin {"read", "handle"}
    BY <1>5 DEF Steady
  <2> QED
    BY <1>6, <1>7, <2>1, <2>2, <2>3, Goes
<1>11. \A s \in Sides : DOMAIN clSockets'[s] = DOMAIN clSockets[s]
  BY <1>5, <1>6
<1> QED
  BY <1>5, <1>8, <1>9, <1>10, <1>11 DEF Moved

\* Steps that leave every descriptor alone but for edges of open ones.
LEMMA EdgeSteps ==
  ASSUME Inv, UNCHANGED <<clSockets, holder, watched, events>>, Steady,
         DOMAIN edges' = Sides,
         \A s \in Sides : \A f \in edges'[s] :
            f \in edges[s] \/ (f \in Fds /\ holder[s][f] # None)
  PROVE  Moved
<1>1. DomInv'
  BY DEF Inv, DomInv, Steady
<1>2. ASSUME NEW s \in Sides PROVE Side(s)'
  BY Goes DEF Inv, Steady
<1> QED
  BY <1>1, <1>2 DEF Moved

\* TcpSocket::send with all its outcomes.
LEMMA SendSteps ==
  ASSUME Inv, NEW side \in Sides, NEW f \in DOMAIN clSockets[side], NEW data,
         Send(side, f, data), UNCHANGED events, Steady
  PROVE  Moved /\ \A s \in Sides : DOMAIN clSockets'[s] = DOMAIN clSockets[s]
<1>1. DomInv /\ Side(side) /\ Other(side) \in Sides
  BY TwoSides DEF Inv
<1>2. CASE ~clSockets[side][f].isConnect
  <2>1. UNCHANGED <<clSockets, holder, watched, edges>>
    BY <1>2 DEF Send, fdVars
  <2> QED
    BY <1>1, <2>1, EdgeSteps DEF DomInv
<1>3. CASE clSockets[side][f].isConnect
  <2> DEFINE k == clSockets[side][f].conn
  <2>1. f \in Fds /\ k \in Conns /\ holder[side][f] = k /\ k # None
    BY <1>1, <1>3 DEF Side, SideInv, Owns, Objects, Conns, None
  <2>2. CASE SendFails(side, f)
    BY <1>3, <2>2, CloseSteps DEF SendFails
  <2>3. CASE SendDropped(side, f)
    <3>1. UNCHANGED <<clSockets, holder, watched, edges>>
      BY <2>3 DEF SendDropped, fdVars
    <3> QED
      BY <1>1, <3>1, EdgeSteps DEF DomInv
  <2>4. CASE SendOk(side, f, data)
    <3>1. /\ UNCHANGED <<clSockets, holder, watched>>
          /\ \/ edges' = [edges EXCEPT ![Other(side)] = @ \cup FdsOf(Other(side), k)]
             \/ edges' = [edges EXCEPT ![side] = @ \cup {f}]
      BY <2>4 DEF SendOk
    <3>2. \A g \in FdsOf(Other(side), k) : g \in Fds /\ holder[Other(side)][g] # None
      BY <2>1, OpenFds
    <3> HIDE DEF k
    <3>3. DOMAIN edges' = Sides
      BY <1>1, <3>1 DEF DomInv
    <3>4. \A s \in Sides : \A g \in edges'[s] :
            g \in edges[s] \/ (g \in Fds /\ holder[s][g] # None)
      BY <1>1, <2>1, <3>1, <3>2 DEF DomInv
    <3> QED
      BY <3>1, <3>3, <3>4, EdgeSteps
  <2> QED
    BY <1>3, <2>2, <2>3, <2>4 DEF Send
<1> QED
  BY <1>2, <1>3

---------------------------------------------------------------------------
(* The invariant.                                                              *)

\* Both programs start without sockets.
LEMMA InitInv == Init => Inv
<1> SUFFICES ASSUME Init PROVE Inv
  OBVIOUS
<1>1. DomInv
  BY DEF Init, Both, DomInv, Sides
<1>2. LoopInv
  BY EchoAssumption DEF Init, Both, LoopInv, Sides
<1>3. ASSUME NEW s \in Sides PROVE Side(s)
  <2>1. /\ clSockets[s] = [f \in {} |-> None] /\ holder[s] = [f \in Fds |-> None]
        /\ edges[s] = {} /\ events[s] = {} /\ pc[s] \in {"wait", "connect"}
    BY DEF Init, Both, Sides
  <2>2. DOMAIN clSockets[s] = {}
    BY <2>1
  <2>3. Owns(clSockets[s], holder[s], watched[s])
    BY <2>1, <2>2 DEF Owns
  <2> QED
    BY <2>1, <2>2, <2>3 DEF Side, SideInv
<1> QED
  BY <1>1, <1>2, <1>3 DEF Inv

\* The event loop that both programs have.
LEMMA LoopSteps ==
  ASSUME Inv, NEW side \in Sides, Loop(side)
  PROVE  Inv'
<1>1. DomInv /\ LoopInv /\ Side(side) /\ UNCHANGED <<made, backlog, todo>>
  BY DEF Inv, Loop, EpollWait, BeginRead, Recv, RecvEnd, ReadAllReturns, Erase, netVars, histVars
<1>2. CASE EpollWait(side)
  <2> DEFINE listening == IF side = "server" THEN {p \in Ports : backlog[p] # <<>>} ELSE {}
  <2>1. /\ events' = [events EXCEPT ![side] = edges[side] \cup listening]
        /\ edges' = [edges EXCEPT ![side] = {}] /\ pc' = [pc EXCEPT ![side] = "batch"]
        /\ UNCHANGED <<clSockets, cur, holder, watched>>
    BY <1>2 DEF EpollWait
  <2>2. listening \cap Fds = {} /\ \A p \in listening : p \in Ports /\ backlog[p] # <<>>
    BY EchoAssumption
  <2>3. edges[side] \subseteq DOMAIN clSockets[side] /\ edges[side] \cap Ports = {}
    BY <1>1, EchoAssumption DEF Side, SideInv, Owns
  <2>4. side = "server" \/ listening = {}
    OBVIOUS
  <2> HIDE DEF listening
  <2>5. DomInv'
    BY <1>1, <2>1 DEF DomInv
  <2>6. Side(side)'
    <3>1. events'[side] = edges[side] \cup listening /\ edges'[side] = {} /\ pc'[side] = "batch"
      BY <1>1, <2>1 DEF DomInv
    <3> QED
      BY <1>1, <2>1, <2>2, <2>3, <3>1 DEF Side, SideInv
  <2>7. ASSUME NEW s \in Sides, s # side PROVE Side(s)'
    <3>1. Side(s) /\ UNCHANGED <<clSockets[s], holder[s], watched[s], edges[s], events[s], pc[s], cur[s]>>
      BY <1>1, <2>1, <2>7 DEF Inv, DomInv
    <3> QED
      BY <3>1, Goes
  <2>8. LoopInv'
    <3>1. \A p \in Ports \cap events'["server"] : backlog[p] # <<>>
      BY <1>1, <2>1, <2>2, <2>3, <2>4 DEF DomInv, LoopInv, Sides
    <3>2. pc'["client"] # "crashed" /\ (pc'["client"] = "send" => pc["client"] = "send")
      BY <1>1, <2>1 DEF DomInv, LoopInv
    <3> QED
      BY <1>1, <2>1, <3>1, <3>2 DEF LoopInv
  <2> QED
    BY <2>5, <2>6, <2>7, <2>8 DEF Inv
<1>3. CASE BeginRead(side)
  <2>1. PICK f \in events[side] \cap Fds :
          /\ Handled(side, f)
          /\ IF f \in DOMAIN clSockets[side]
             THEN /\ cur' = [cur EXCEPT ![side] = f]
                  /\ pc' = [pc EXCEPT ![side] = "read"]
             ELSE /\ pc' = [pc EXCEPT ![side] = IF side = "server" THEN "batch" ELSE "crashed"]
                  /\ UNCHANGED cur
    BY <1>3 DEF BeginRead
  <2>2. f \in DOMAIN clSockets[side]
    BY <1>1 DEF Side, SideInv
  <2>3. /\ events' = [events EXCEPT ![side] = @ \ {f}]
        /\ cur' = [cur EXCEPT ![side] = f] /\ pc' = [pc EXCEPT ![side] = "read"]
        /\ UNCHANGED <<clSockets, holder, watched, edges>>
    BY <1>3, <2>1, <2>2 DEF BeginRead, Handled, fdVars
  <2>4. DomInv'
    BY <1>1, <2>3 DEF DomInv
  <2>5. Side(side)'
    <3>1. events'[side] = events[side] \ {f} /\ cur'[side] = f
      BY <1>1, <2>3 DEF DomInv
    <3> QED
      BY <1>1, <2>2, <2>3, <3>1 DEF Side, SideInv
  <2>6. ASSUME NEW s \in Sides, s # side PROVE Side(s)'
    <3>1. Side(s) /\ UNCHANGED <<clSockets[s], holder[s], watched[s], edges[s], events[s], pc[s], cur[s]>>
      BY <1>1, <2>3, <2>6 DEF Inv, DomInv
    <3> QED
      BY <3>1, Goes
  <2>7. LoopInv'
    <3>1. events'["server"] \subseteq events["server"]
          /\ pc'["client"] # "crashed" /\ (pc'["client"] = "send" => pc["client"] = "send")
      BY <1>1, <2>3 DEF DomInv, LoopInv, Sides
    <3> QED
      BY <1>1, <2>3, <3>1 DEF LoopInv
  <2> QED
    BY <2>4, <2>5, <2>6, <2>7 DEF Inv
<1>4. CASE Recv(side)
  <2>1. UNCHANGED <<clSockets, pc, events, cur, holder, watched, edges>>
    BY <1>4 DEF Recv, fdVars
  <2> QED
    BY <1>1, <2>1 DEF Inv, DomInv, LoopInv, Side
<1>5. CASE RecvEnd(side)
  <2>1. /\ UNCHANGED <<pc, events, cur>> /\ CloseFd(side, cur[side])
        /\ clSockets' = Disconnected(side, cur[side])
        /\ pc[side] = "read" /\ clSockets[side][cur[side]].isConnect
    BY <1>5 DEF RecvEnd, Reading, Current
  <2>2. cur[side] \in DOMAIN clSockets[side] /\ Steady
    BY <1>1, <2>1 DEF Side, SideInv, Steady, DomInv
  <2>3. Moved /\ \A s \in Sides : DOMAIN clSockets'[s] = DOMAIN clSockets[s]
    BY <2>1, <2>2, CloseSteps
  <2> QED
    BY <1>1, <2>1, <2>3 DEF Inv, Moved, LoopInv, Sides
<1>6. CASE ReadAllReturns(side)
  <2>1. /\ pc[side] = "read" /\ pc' = [pc EXCEPT ![side] = "handle"]
        /\ UNCHANGED <<clSockets, events, cur, holder, watched, edges>>
    BY <1>6 DEF ReadAllReturns, fdVars
  <2>2. DomInv'
    BY <1>1, <2>1 DEF DomInv
  <2>3. ASSUME NEW s \in Sides PROVE Side(s)'
    <3>1. Side(s) /\ (pc'[s] = pc[s] \/ (pc[s] = "read" /\ pc'[s] = "handle"))
      BY <1>1, <2>1 DEF Inv, DomInv
    <3> QED
      BY <2>1, <3>1, Goes
  <2>4. LoopInv'
    BY <1>1, <2>1 DEF LoopInv, DomInv
  <2> QED
    BY <2>2, <2>3, <2>4 DEF Inv
<1>7. CASE Erase(side)
  <2>1. /\ pc[side] = "handle" /\ ~clSockets[side][cur[side]].isConnect
        /\ clSockets' = [clSockets EXCEPT ![side] = [g \in DOMAIN @ \ {cur[side]} |-> @[g]]]
        /\ pc' = [pc EXCEPT ![side] = "batch"] /\ cur' = [cur EXCEPT ![side] = -1]
        /\ UNCHANGED <<events, holder, watched, edges>>
    BY <1>7 DEF Erase, EraseEntry, Back, Current, fdVars
  <2>2. DomInv'
    BY <1>1, <2>1 DEF DomInv
  <2>3. Side(side)'
    <3>1. SideInv([g \in DOMAIN clSockets[side] \ {cur[side]} |-> clSockets[side][g]],
                  holder[side], watched[side], edges[side], events[side], "batch", -1)
      BY <1>1, <2>1, Erases DEF Side
    <3> QED
      BY <1>1, <2>1, <3>1 DEF Side, DomInv
  <2>4. ASSUME NEW s \in Sides, s # side PROVE Side(s)'
    <3>1. Side(s) /\ UNCHANGED <<clSockets[s], holder[s], watched[s], edges[s], events[s], pc[s], cur[s]>>
      BY <1>1, <2>1, <2>4 DEF Inv, DomInv
    <3> QED
      BY <3>1, Goes
  <2>5. LoopInv'
    <3>1. pc'["client"] = "send" => pc["client"] = "send" /\ clSockets'["client"] = clSockets["client"]
      BY <1>1, <2>1 DEF DomInv, Sides
    <3>2. pc'["client"] # "crashed"
      BY <1>1, <2>1 DEF DomInv, LoopInv
    <3> QED
      BY <1>1, <2>1, <3>1, <3>2 DEF LoopInv
  <2> QED
    BY <2>2, <2>3, <2>4, <2>5 DEF Inv
<1> QED
  BY <1>2, <1>3, <1>4, <1>5, <1>6, <1>7 DEF Loop

\* Steps between two turns of a loop: no descriptor and no event changes.
LEMMA TurnSteps ==
  ASSUME Inv, UNCHANGED <<clSockets, holder, watched, edges, events>>, Steady \/ UNCHANGED cur,
         DOMAIN pc' = Sides,
         \A s \in Sides : pc'[s] = pc[s] \/ pc'[s] \notin {"read", "handle"}
  PROVE  Moved
<1>1. DomInv'
  BY DEF Inv, DomInv, Steady
<1>2. ASSUME NEW s \in Sides PROVE Side(s)'
  BY Goes DEF Inv, Steady
<1> QED
  BY <1>1, <1>2 DEF Moved

\* EchoTcpServer::start.
LEMMA ServerSteps ==
  ASSUME Inv, Echo \/ ServerTurn \/ \E p \in Ports : Accept(p)
  PROVE  Inv'
<1>1. /\ DomInv /\ LoopInv /\ Side("server") /\ UNCHANGED <<made, todo>>
      /\ "server" \in Sides /\ "client" \in Sides
  BY DEF Inv, Sides, Echo, ServerTurn, Accept, netVars, histVars
<1>2. CASE Echo
  <2>1. /\ pc["server"] = "handle" /\ clSockets["server"][cur["server"]].isConnect
        /\ pc' = [pc EXCEPT !["server"] = "batch"] /\ cur' = [cur EXCEPT !["server"] = -1]
        /\ UNCHANGED <<events, backlog>>
    BY <1>2 DEF Echo, Back, Current
  <2>2. cur["server"] \in DOMAIN clSockets["server"] /\ Steady
    BY <1>1, <2>1 DEF Side, SideInv, Steady, DomInv
  <2>3. Moved /\ \A s \in Sides : DOMAIN clSockets'[s] = DOMAIN clSockets[s]
    <3>1. CASE msg["server"] # <<>>
      BY <1>1, <1>2, <2>1, <2>2, <3>1, SendSteps DEF Echo
    <3>2. CASE msg["server"] = <<>>
      <4>1. UNCHANGED <<clSockets, holder, watched, edges>>
        BY <1>2, <3>2 DEF Echo, fdVars
      <4> QED
        BY <1>1, <2>1, <2>2, <4>1, EdgeSteps DEF DomInv
    <3> QED
      BY <3>1, <3>2
  <2>4. pc'["client"] = pc["client"]
    BY <1>1, <2>1 DEF DomInv
  <2> QED
    BY <1>1, <2>1, <2>3, <2>4 DEF Inv, Moved, LoopInv
<1>3. CASE ServerTurn
  <2>1. /\ pc' = [pc EXCEPT !["server"] = "wait"]
        /\ UNCHANGED <<clSockets, events, cur, holder, watched, edges, backlog>>
    BY <1>3 DEF ServerTurn, fdVars, netVars
  <2>2. /\ DOMAIN pc' = Sides /\ pc'["client"] = pc["client"]
        /\ \A s \in Sides : pc'[s] = pc[s] \/ pc'[s] \notin {"read", "handle"}
    BY <1>1, <2>1 DEF DomInv
  <2>3. Moved
    BY <2>1, <2>2, TurnSteps
  <2> QED
    BY <1>1, <2>1, <2>2, <2>3 DEF Inv, Moved, LoopInv
<1>4. ASSUME NEW p \in Ports, Accept(p) PROVE Inv'
  <2>1. PICK f \in Fds : /\ LowestFree("server", f)
                         /\ backlog' = [backlog EXCEPT ![p] = Tail(@)]
                         /\ AddSocket("server", f, Head(backlog[p]))
    BY <1>4 DEF Accept
  <2>2. /\ pc["server"] = "batch" /\ p \in events["server"] /\ UNCHANGED <<pc, cur>>
        /\ events' = [events EXCEPT !["server"] = @ \ {p}]
    BY <1>4 DEF Accept, Handled
  <2>3. /\ backlog[p] # <<>> /\ Head(backlog[p]) \in Conns /\ Tail(backlog[p]) \in Seq(Conns)
    BY <1>1, <2>2 DEF LoopInv
  <2>4. /\ DOMAIN events' = Sides /\ events'["server"] = events["server"] \ {p}
        /\ \A s \in Sides : events'[s] \subseteq events[s]
    BY <1>1, <2>2 DEF DomInv
  <2>5. Moved /\ \A s \in Sides : DOMAIN clSockets[s] \subseteq DOMAIN clSockets'[s]
    BY <1>1, <2>1, <2>2, <2>3, <2>4, AddSteps
  <2>6. /\ backlog' \in [Ports -> Seq(Conns)]
        /\ \A q \in Ports \cap events'["server"] : backlog'[q] # <<>>
    BY <1>1, <2>1, <2>3, <2>4 DEF LoopInv
  <2> QED
    BY <1>1, <2>2, <2>5, <2>6 DEF Inv, Moved, LoopInv
<1> QED
  BY <1>2, <1>3, <1>4

\* TestTcpClient::start.
LEMMA ClientSteps ==
  ASSUME Inv,
         \/ PrintAnswer \/ ClientTurn \/ ConnectsDone \/ SendsDone
         \/ \E p \in Ports : ClientConnect(p) \/ ClientTimeout(p)
         \/ \E f \in Fds : Hello(f)
  PROVE  Inv'
<1>1. /\ DomInv /\ LoopInv /\ Side("client") /\ UNCHANGED events
      /\ "server" \in Sides /\ "client" \in Sides
  BY DEF Inv, Sides, PrintAnswer, ClientTurn, ConnectsDone, SendsDone, ClientConnect,
         ClientTimeout, Hello
<1>2. CASE PrintAnswer
  <2>1. /\ pc' = [pc EXCEPT !["client"] = "batch"] /\ cur' = [cur EXCEPT !["client"] = -1]
        /\ UNCHANGED <<clSockets, holder, watched, edges, made, backlog, todo>>
    BY <1>2 DEF PrintAnswer, Back, fdVars, netVars
  <2>2. Steady /\ pc'["client"] = "batch"
    BY <1>1, <2>1 DEF Steady, DomInv
  <2>3. Moved
    BY <1>1, <2>1, <2>2, EdgeSteps DEF DomInv
  <2> QED
    BY <1>1, <2>1, <2>2, <2>3 DEF Inv, Moved, LoopInv
<1>3. CASE ClientTurn \/ ConnectsDone \/ SendsDone
  <2>1. /\ \E to \in {"send", "wait", "connect"} : pc' = [pc EXCEPT !["client"] = to]
        /\ UNCHANGED <<clSockets, cur, holder, watched, edges, made, backlog>>
    BY <1>3 DEF ClientTurn, ConnectsDone, SendsDone, fdVars, netVars, histVars
  <2>2. /\ DOMAIN pc' = Sides /\ pc'["client"] \in {"send", "wait", "connect"}
        /\ \A s \in Sides : pc'[s] = pc[s] \/ pc'[s] \notin {"read", "handle"}
    BY <1>1, <2>1 DEF DomInv
  <2>3. Moved
    BY <1>1, <2>1, <2>2, TurnSteps
  <2>4. pc'["client"] = "send" => todo' \subseteq DOMAIN clSockets["client"]
    BY <1>1, <1>3 DEF ClientTurn, ConnectsDone, SendsDone, DomInv
  <2> QED
    BY <1>1, <2>1, <2>2, <2>3, <2>4 DEF Inv, Moved, LoopInv
<1>4. ASSUME NEW p \in Ports, ClientConnect(p) PROVE Inv'
  <2>1. PICK f \in Fds : LowestFree("client", f) /\ AddSocket("client", f, made')
    BY <1>4 DEF ClientConnect
  <2>2. /\ pc["client"] = "connect" /\ made < MaxConns /\ made' = made + 1
        /\ backlog' = [backlog EXCEPT ![p] = Append(@, made')] /\ UNCHANGED <<pc, cur>>
    BY <1>4 DEF ClientConnect
  <2>3. made' \in Conns /\ made' \in 0..MaxConns
    BY <1>1, <2>2, EchoAssumption DEF LoopInv, Conns
  <2>4. Moved
    BY <1>1, <2>1, <2>2, <2>3, AddSteps DEF DomInv
  <2>5. /\ backlog' \in [Ports -> Seq(Conns)]
        /\ \A q \in Ports \cap events["server"] : backlog'[q] # <<>>
    <3>1. Append(backlog[p], made') \in Seq(Conns) /\ Append(backlog[p], made') # <<>>
      BY <1>1, <2>3 DEF LoopInv
    <3> QED
      BY <1>1, <2>2, <3>1 DEF LoopInv
  <2> QED
    BY <1>1, <2>2, <2>3, <2>4, <2>5 DEF Inv, Moved, LoopInv
<1>5. ASSUME NEW p \in Ports, ClientTimeout(p) PROVE Inv'
  <2>1. /\ pc["client"] = "connect" /\ made < MaxConns /\ made' = made + 1
        /\ backlog' = [backlog EXCEPT ![p] = Append(@, made')]
        /\ UNCHANGED <<clSockets, holder, watched, edges, pc, cur>>
    BY <1>5 DEF ClientTimeout, fdVars
  <2>2. made' \in Conns /\ made' \in 0..MaxConns
    BY <1>1, <2>1, EchoAssumption DEF LoopInv, Conns
  <2>3. Moved
    BY <1>1, <2>1, TurnSteps DEF DomInv
  <2>4. /\ backlog' \in [Ports -> Seq(Conns)]
        /\ \A q \in Ports \cap events["server"] : backlog'[q] # <<>>
    <3>1. Append(backlog[p], made') \in Seq(Conns) /\ Append(backlog[p], made') # <<>>
      BY <1>1, <2>2 DEF LoopInv
    <3> QED
      BY <1>1, <2>1, <3>1 DEF LoopInv
  <2> QED
    BY <1>1, <2>1, <2>2, <2>3, <2>4 DEF Inv, Moved, LoopInv
<1>6. ASSUME NEW f \in Fds, Hello(f) PROVE Inv'
  <2>1. /\ pc["client"] = "send" /\ f \in todo /\ todo' = todo \ {f}
        /\ UNCHANGED <<pc, cur, backlog, made>>
    BY <1>6 DEF Hello
  <2>2. f \in DOMAIN clSockets["client"] /\ Steady
    BY <1>1, <2>1 DEF LoopInv, Steady, DomInv
  <2> DEFINE k == clSockets["client"][f].conn
  <2>3. CASE sent[k] < MaxMsgs
    <3>1. Send("client", f, <<sent[k] + 1>>)
      BY <1>6, <2>3 DEF Hello
    <3>2. Moved /\ \A s \in Sides : DOMAIN clSockets'[s] = DOMAIN clSockets[s]
      BY <1>1, <2>2, <3>1, SendSteps
    <3> QED
      BY <1>1, <2>1, <3>2 DEF Inv, Moved, LoopInv
  <2>4. CASE ~(sent[k] < MaxMsgs)
    <3>1. UNCHANGED <<clSockets, holder, watched, edges>>
      BY <1>6, <2>4 DEF Hello, fdVars
    <3>2. Moved
      BY <1>1, <2>2, <3>1, EdgeSteps DEF DomInv
    <3> QED
      BY <1>1, <2>1, <3>1, <3>2 DEF Inv, Moved, LoopInv
  <2> QED
    BY <2>3, <2>4
<1> QED
  BY <1>2, <1>3, <1>4, <1>5, <1>6

\* Every step of the two programs and of the network.
LEMMA NextInv == Inv /\ [Next]_vars => Inv'
<1> SUFFICES ASSUME Inv, [Next]_vars PROVE Inv'
  OBVIOUS
<1>1. CASE Loop("server") \/ Loop("client")
  BY <1>1, LoopSteps DEF Sides
<1>2. CASE Echo \/ ServerTurn \/ \E p \in Ports : Accept(p)
  BY <1>2, ServerSteps
<1>3. CASE \/ PrintAnswer \/ ClientTurn \/ ConnectsDone \/ SendsDone
           \/ \E p \in Ports : ClientConnect(p) \/ ClientTimeout(p)
           \/ \E f \in Fds : Hello(f)
  BY <1>3, ClientSteps
<1>4. ASSUME NEW c \in Conns, Reset(c) PROVE Inv'
  <2>1. /\ edges' = [s \in Sides |-> edges[s] \cup FdsOf(s, c)]
        /\ UNCHANGED <<clSockets, pc, events, cur, todo, holder, watched, backlog, made>>
    BY <1>4 DEF Reset, procVars, histVars
  <2>2. \A s \in Sides : \A f \in FdsOf(s, c) : f \in Fds /\ holder[s][f] # None
    BY OpenFds
  <2>3. /\ DOMAIN edges' = Sides /\ Steady
        /\ \A s \in Sides : \A f \in edges'[s] :
             f \in edges[s] \/ (f \in Fds /\ holder[s][f] # None)
    BY <2>1, <2>2 DEF Inv, DomInv, Steady
  <2>4. Moved
    BY <2>1, <2>3, EdgeSteps
  <2> QED
    BY <2>1, <2>4 DEF Inv, Moved, LoopInv
<1>5. CASE UNCHANGED vars
  BY <1>5 DEF vars, procVars, fdVars, netVars, histVars, Inv, DomInv, LoopInv, Side
<1> QED
  BY <1>1, <1>2, <1>3, <1>4, <1>5 DEF Next, Server, Client

\* TcpServer.cpp: a connected object in _clSockets owns the open descriptor of its
\* connection, every open descriptor has such an object, and the client never
\* looks up a missing one, although descriptors are used again and failed sends
\* leave entries behind; for any number of ports, descriptors and connections.
THEOREM MapsOwnDescriptors == Spec => []OwnDescriptors
<1>1. Init => Inv
  BY InitInv
<1>2. Inv /\ [Next]_vars => Inv'
  BY NextInv
<1>3. Inv => OwnDescriptors
  BY DEF Inv, LoopInv, Side, SideInv, Owns, OwnDescriptors
<1> QED
  BY <1>1, <1>2, <1>3, PTL DEF Spec

---------------------------------------------------------------------------
(* No edge is lost.  An edge for a connection reaches the descriptor that has  *)
(* it because every connection has one descriptor on a side, once.             *)

\* The connections of a side's descriptors are different, made and not closed;
\* the epoll set holds open descriptors, and a turn begins with no event left.
Held(s) ==
  /\ \A f, g \in Fds : holder[s][f] # None /\ holder[s][f] = holder[s][g] => f = g
  /\ \A f \in Fds : holder[s][f] # None => holder[s][f] <= made /\ holder[s][f] \notin closed[s]
  /\ \A f \in watched[s] : f \in Fds /\ holder[s][f] # None
  /\ \A c \in closed[s] : c \in Conns /\ c <= made
  /\ pc[s] \in {"wait", "connect", "send"} => events[s] = {}

\* What waits to be accepted is nowhere else.
QueuedInv ==
  /\ \A p \in Ports : \A n \in DOMAIN backlog[p] :
       /\ backlog[p][n] <= made /\ backlog[p][n] \notin closed["server"]
       /\ \A f \in Fds : holder["server"][f] # backlog[p][n]
  /\ \A p, q \in Ports : \A n \in DOMAIN backlog[p], m \in DOMAIN backlog[q] :
       backlog[p][n] = backlog[q][m] => p = q /\ n = m

NetInv ==
  /\ DOMAIN inq = Sides /\ DOMAIN closed = Sides
  /\ \A s \in Sides : DOMAIN inq[s] = Conns

\* A socket of s that has something to read is reported, in the batch or being read.
Noticed(s) ==
  \A f \in watched[s] : Readable(s, holder[s][f]) =>
    f \in edges[s] \/ f \in events[s] \/ (pc[s] = "read" /\ cur[s] = f)

SidesInv == \A s \in Sides : Held(s) /\ Noticed(s)
EdgeInv == Inv /\ NetInv /\ QueuedInv /\ SidesInv

\* A handler is over, or the program counter stays.
Onward ==
  \A s \in Sides : UNCHANGED <<pc[s], cur[s]>> \/ (pc[s] = "handle" /\ pc'[s] = "batch")

\* accept and connect: a socket that is readable when it is added makes an edge.
LEMMA AddNotices ==
  ASSUME EdgeInv, NEW side \in Sides, NEW f \in Fds, LowestFree(side, f), NEW k \in Conns,
         AddSocket(side, f, k), k <= made', k \notin closed[side],
         \A g \in Fds : holder[side][g] # k,
         UNCHANGED <<pc, cur, inq, closed, broken>>, made' \in Nat, made <= made',
         \A s \in Sides : /\ events'[s] \subseteq events[s]
                          /\ \A g \in Fds : g \in events[s] => g \in events'[s]
  PROVE  SidesInv' /\ holder' = [holder EXCEPT ![side][f] = k]
<1>1. /\ holder[side][f] = None /\ DomInv /\ Side(side) /\ NetInv /\ None \notin Conns
      /\ made \in Nat
  BY EchoAssumption DEF LowestFree, EdgeInv, Inv, LoopInv, Conns, None
<1>2. ~(f \in DOMAIN clSockets[side] /\ clSockets[side][f].fd = f)
  BY <1>1, EchoAssumption DEF Side, SideInv, Owns, Objects
<1>3. /\ holder' = [holder EXCEPT ![side][f] = k]
      /\ watched' = [watched EXCEPT ![side] = @ \cup {f}]
      /\ edges' = [edges EXCEPT ![side] = IF Readable(side, k) THEN @ \cup {f} ELSE @]
  BY <1>2 DEF AddSocket
<1>4. \A s \in Sides : \A c : Readable(s, c)' <=> Readable(s, c)
  BY DEF Readable
<1>5. ASSUME NEW s \in Sides, s # side PROVE Held(s)' /\ Noticed(s)'
  <2>1. Held(s) /\ Noticed(s) /\ holder[s] \in [Fds -> Conns \cup {None}]
    BY DEF EdgeInv, SidesInv, Inv, Side, SideInv
  <2>2. UNCHANGED <<holder[s], watched[s], edges[s], closed[s], pc[s], cur[s]>>
    BY <1>1, <1>3, <1>5 DEF DomInv
  <2>3. Held(s)'
    BY <1>1, <2>1, <2>2 DEF Held, Conns, None
  <2>4. Noticed(s)'
    BY <1>4, <2>1, <2>2 DEF Held, Noticed
  <2> QED
    BY <2>3, <2>4
<1>6. Held(side)' /\ Noticed(side)'
  <2>1. Held(side) /\ Noticed(side) /\ holder[side] \in [Fds -> Conns \cup {None}]
    BY <1>1 DEF EdgeInv, SidesInv, Side, SideInv
  <2>2. /\ holder'[side] = [holder[side] EXCEPT ![f] = k]
        /\ watched'[side] = watched[side] \cup {f}
        /\ edges'[side] = IF Readable(side, k) THEN edges[side] \cup {f} ELSE edges[side]
    BY <1>1, <1>3 DEF DomInv
  <2>3. holder'[side][f] = k /\ \A g \in Fds : g # f => holder'[side][g] = holder[side][g]
    BY <2>1, <2>2
  <2>4. Held(side)'
    BY <1>1, <2>1, <2>2, <2>3 DEF Held, Conns, None
  <2>5. Noticed(side)'
    BY <1>1, <1>4, <2>1, <2>2, <2>3 DEF Held, Noticed
  <2> QED
    BY <2>4, <2>5
<1> QED
  BY <1>3, <1>5, <1>6 DEF SidesInv

\* close: the peer's descriptor of the connection, if there is one, gets the edge.
LEMMA CloseNotices ==
  ASSUME EdgeInv, NEW side \in Sides, NEW f \in DOMAIN clSockets[side],
         clSockets[side][f].isConnect, CloseFd(side, f),
         UNCHANGED <<events, inq, broken, made, backlog>>, Onward
  PROVE  SidesInv' /\ NetInv' /\ QueuedInv'
<1> DEFINE k == holder[side][f]
           peer == Other(side)
<1>1. /\ f \in Fds /\ k \in Conns /\ k # None /\ DomInv /\ NetInv /\ made \in Nat /\ k <= made
  BY DEF EdgeInv, SidesInv, Inv, LoopInv, Side, SideInv, Owns, Objects, Held, Conns, None
<1>2. peer \in Sides /\ peer # side /\ \A s \in Sides : s = side \/ s = peer
  BY TwoSides
<1>3. /\ holder' = [holder EXCEPT ![side][f] = None]
      /\ watched' = [watched EXCEPT ![side] = @ \ {f}]
      /\ edges' = [edges EXCEPT ![side] = @ \ {f}, ![peer] = @ \cup FdsOf(peer, k)]
      /\ closed' = [closed EXCEPT ![side] = @ \cup {k}]
  BY DEF CloseFd
<1>4. /\ Held(side) /\ Noticed(side) /\ Held(peer) /\ Noticed(peer)
      /\ holder[side] \in [Fds -> Conns \cup {None}] /\ holder[peer] \in [Fds -> Conns \cup {None}]
  BY <1>2 DEF EdgeInv, SidesInv, Inv, Side, SideInv
<1>5. \A g \in FdsOf(peer, k) : g \in Fds /\ holder[peer][g] # None
  BY <1>1, OpenFds
<1>6. \A g \in Fds : holder[peer][g] = k => g \in FdsOf(peer, k)
  BY DEF FdsOf
<1>7. side = Other(peer)
  BY <1>2 DEF Other, Sides
<1> HIDE DEF k, peer
<1>8. /\ holder'[side] = [holder[side] EXCEPT ![f] = None] /\ holder'[peer] = holder[peer]
      /\ watched'[side] = watched[side] \ {f} /\ watched'[peer] = watched[peer]
      /\ edges'[side] = edges[side] \ {f} /\ edges'[peer] = edges[peer] \cup FdsOf(peer, k)
      /\ closed'[side] = closed[side] \cup {k} /\ closed'[peer] = closed[peer]
      /\ DOMAIN closed' = Sides
  BY <1>1, <1>2, <1>3 DEF DomInv, NetInv
<1>9. holder'[side][f] = None /\ \A g \in Fds : g # f => holder'[side][g] = holder[side][g]
  BY <1>1, <1>4, <1>8
<1>10. holder[side][f] = k
  BY DEF k
<1>11. Held(side)'
  BY <1>1, <1>2, <1>4, <1>8, <1>9, <1>10 DEF Held, Onward
<1>12. Held(peer)'
  BY <1>1, <1>2, <1>4, <1>8 DEF Held, Onward
<1>13. Noticed(side)'
  <2>1. \A c : Readable(side, c)' <=> Readable(side, c)
    BY <1>2, <1>8 DEF Readable, peer
  <2> QED
    BY <1>2, <1>4, <1>8, <1>9, <2>1 DEF Held, Noticed, Onward
<1>14. Noticed(peer)'
  <2>1. \A c : Readable(peer, c)' => Readable(peer, c) \/ c = k
    BY <1>7, <1>8 DEF Readable
  <2> QED
    BY <1>2, <1>4, <1>6, <1>8, <2>1 DEF Held, Noticed, Onward
<1>15. QueuedInv'
  <2>1. "server" \in Sides /\ DOMAIN holder' = Sides
    BY <1>1, <1>3 DEF Sides, DomInv
  <2>2. \A p \in Ports : \A n \in DOMAIN backlog[p] :
          "server" = side => backlog[p][n] # k
    BY <1>1, <1>10 DEF EdgeInv, QueuedInv
  <2>3. \A p \in Ports : \A n \in DOMAIN backlog[p] :
          backlog[p][n] # None
    <3>1. \A p \in Ports : backlog[p] \in Seq(Conns)
      BY DEF EdgeInv, Inv, LoopInv
    <3>2. \A p \in Ports : \A n \in DOMAIN backlog[p] : backlog[p][n] \in Conns
      BY <3>1
    <3> QED
      BY <3>2 DEF Conns, None
  <2>4. \A g \in Fds : holder'["server"][g] = holder["server"][g] \/ holder'["server"][g] = None
    BY <1>2, <1>8, <1>9, <2>1
  <2>5. \A p \in Ports : \A n \in DOMAIN backlog[p] : backlog[p][n] \notin closed'["server"]
    BY <1>2, <1>8, <2>1, <2>2 DEF EdgeInv, QueuedInv
  <2> QED
    BY <2>3, <2>4, <2>5 DEF EdgeInv, QueuedInv
<1>16. NetInv'
  BY <1>1, <1>8 DEF NetInv
<1> QED
  BY <1>2, <1>11, <1>12, <1>13, <1>14, <1>15, <1>16 DEF SidesInv

\* Steps that open and close nothing and take nothing away but what was read.
LEMMA NothingNew ==
  ASSUME EdgeInv, UNCHANGED <<holder, watched, closed, made, backlog>>,
         DOMAIN inq' = Sides,
         \A s \in Sides : /\ DOMAIN inq'[s] = Conns
                          /\ edges[s] \subseteq edges'[s] /\ events'[s] \subseteq events[s]
                          /\ \A f \in Fds : f \in events[s] => f \in events'[s],
         \A s \in Sides : \A f \in Fds : \A c \in Conns :
            holder[s][f] = c /\ Readable(s, c)' => Readable(s, c) \/ f \in edges'[s],
         Onward \/ \A s \in Sides :
            /\ pc'[s] \in {"wait", "connect", "send"} => events[s] = {}
            /\ pc[s] = pc'[s] \/ pc[s] # "read"
            /\ cur[s] = cur'[s]
  PROVE  SidesInv' /\ NetInv' /\ QueuedInv'
<1>1. ASSUME NEW s \in Sides PROVE Held(s)' /\ Noticed(s)'
  <2>1. Held(s) /\ Noticed(s) /\ holder[s] \in [Fds -> Conns \cup {None}]
    BY DEF EdgeInv, SidesInv, Inv, Side, SideInv
  <2>2. Held(s)'
    BY <2>1 DEF Held, Onward
  <2>3. ASSUME NEW f \in watched[s], Readable(s, holder[s][f])'
        PROVE  f \in edges'[s] \/ f \in events'[s] \/ (pc'[s] = "read" /\ cur'[s] = f)
    <3>1. f \in Fds /\ holder[s][f] \in Conns
      BY <2>1 DEF Held
    <3>2. Readable(s, holder[s][f]) \/ f \in edges'[s]
      BY <2>3, <3>1
    <3>3. pc[s] = "read" /\ cur[s] = f => pc'[s] = "read" /\ cur'[s] = f
      BY DEF Onward
    <3> QED
      BY <2>1, <3>1, <3>2, <3>3 DEF Noticed
  <2>4. Noticed(s)'
    BY <2>3 DEF Noticed
  <2> QED
    BY <2>2, <2>4
<1>2. NetInv' /\ QueuedInv'
  BY DEF EdgeInv, NetInv, QueuedInv
<1> QED
  BY <1>1, <1>2 DEF SidesInv

\* TcpSocket::send: what arrives makes an edge, and so does a reset.
LEMMA SendNotices ==
  ASSUME EdgeInv, NEW side \in Sides, NEW f \in DOMAIN clSockets[side], NEW data,
         Send(side, f, data), UNCHANGED <<events, made, backlog>>, Onward
  PROVE  SidesInv' /\ NetInv' /\ QueuedInv'
<1>1. DomInv /\ NetInv /\ Side(side) /\ Other(side) \in Sides /\ Other(side) # side
  BY TwoSides DEF EdgeInv, Inv
<1> DEFINE k == clSockets[side][f].conn
<1>2. CASE SendFails(side, f) /\ clSockets[side][f].isConnect
  BY <1>2, CloseNotices DEF SendFails
<1>3. CASE SendOk(side, f, data) /\ clSockets[side][f].isConnect
  <2>1. f \in Fds /\ k \in Conns /\ holder[side][f] = k /\ k # None
    BY <1>1, <1>3 DEF Side, SideInv, Owns, Objects, Conns, None
  <2> DEFINE peer == Other(side)
  <2>2. peer \in Sides /\ peer # side /\ \A s \in Sides : s = side \/ s = peer
    BY TwoSides
  <2>3. side = Other(peer)
    BY <2>2 DEF Other, Sides
  <2>4. /\ UNCHANGED <<holder, watched, closed>>
        /\ \/ /\ inq' = [inq EXCEPT ![peer][k] = @ \o data]
              /\ edges' = [edges EXCEPT ![peer] = @ \cup FdsOf(peer, k)]
              /\ UNCHANGED broken
           \/ /\ k \in closed[peer] /\ broken' = broken \cup {k}
              /\ edges' = [edges EXCEPT ![side] = @ \cup {f}]
              /\ UNCHANGED inq
    BY <1>3 DEF SendOk
  <2>5. \A g \in Fds : holder[peer][g] = k => g \in FdsOf(peer, k)
    BY DEF FdsOf
  <2>6. Held(side) /\ Held(peer)
    BY <2>2 DEF EdgeInv, SidesInv
  <2> HIDE DEF k, peer
  <2>7. CASE /\ inq' = [inq EXCEPT ![peer][k] = @ \o data]
             /\ edges' = [edges EXCEPT ![peer] = @ \cup FdsOf(peer, k)]
             /\ UNCHANGED broken
    <3>1. /\ DOMAIN inq' = Sides /\ \A s \in Sides : DOMAIN inq'[s] = Conns
          /\ inq'[side] = inq[side] /\ \A c \in Conns : c # k => inq'[peer][c] = inq[peer][c]
      BY <1>1, <2>1, <2>2, <2>7 DEF NetInv
    <3>2. edges'[peer] = edges[peer] \cup FdsOf(peer, k) /\ edges'[side] = edges[side]
      BY <1>1, <2>2, <2>7 DEF DomInv
    <3>3. \A c \in Conns : Readable(side, c)' => Readable(side, c)
      BY <2>4, <2>7, <3>1 DEF Readable
    <3>4. \A c \in Conns : Readable(peer, c)' => Readable(peer, c) \/ c = k
      BY <2>4, <2>7, <3>1 DEF Readable
    <3>5. \A s \in Sides : \A g \in Fds : \A c \in Conns :
            holder[s][g] = c /\ Readable(s, c)' => Readable(s, c) \/ g \in edges'[s]
      BY <2>2, <2>5, <3>2, <3>3, <3>4
    <3>6. \A s \in Sides : edges[s] \subseteq edges'[s]
      BY <2>2, <3>2
    <3> QED
      BY <2>4, <3>1, <3>5, <3>6, NothingNew
  <2>8. CASE /\ k \in closed[peer] /\ broken' = broken \cup {k}
             /\ edges' = [edges EXCEPT ![side] = @ \cup {f}]
             /\ UNCHANGED inq
    <3>1. edges'[side] = edges[side] \cup {f} /\ edges'[peer] = edges[peer]
      BY <1>1, <2>2, <2>8 DEF DomInv
    <3>2. \A s \in Sides : \A c \in Conns : Readable(s, c)' => Readable(s, c) \/ c = k
      BY <2>4, <2>8 DEF Readable
    <3>3. \A g \in Fds : holder[peer][g] # k
      BY <2>1, <2>6, <2>8 DEF Held
    <3>4. \A g \in Fds : holder[side][g] = k => g = f
      BY <2>1, <2>6 DEF Held
    <3>5. \A s \in Sides : \A g \in Fds : \A c \in Conns :
            holder[s][g] = c /\ Readable(s, c)' => Readable(s, c) \/ g \in edges'[s]
      BY <2>2, <3>1, <3>2, <3>3, <3>4
    <3>6. \A s \in Sides : edges[s] \subseteq edges'[s]
      BY <2>2, <3>1
    <3>7. DOMAIN inq' = Sides /\ \A s \in Sides : DOMAIN inq'[s] = Conns
      BY <1>1, <2>8 DEF NetInv
    <3> QED
      BY <2>4, <3>5, <3>6, <3>7, NothingNew
  <2> QED
    BY <2>4, <2>7, <2>8
<1>4. CASE SendDropped(side, f) \/ ~clSockets[side][f].isConnect
  <2>1. CASE SendDropped(side, f)
    <3>1. UNCHANGED <<holder, watched, edges, closed, inq, broken>>
      BY <2>1 DEF SendDropped, fdVars
    <3>2. \A s \in Sides : \A c : Readable(s, c)' <=> Readable(s, c)
      BY <3>1 DEF Readable
    <3> QED
      BY <1>1, <3>1, <3>2, NothingNew DEF NetInv
  <2>2. CASE ~clSockets[side][f].isConnect
    <3>1. UNCHANGED <<holder, watched, edges, closed, inq, broken>>
      BY <2>2 DEF Send, fdVars
    <3>2. \A s \in Sides : \A c : Readable(s, c)' <=> Readable(s, c)
      BY <3>1 DEF Readable
    <3> QED
      BY <1>1, <3>1, <3>2, NothingNew DEF NetInv
  <2> QED
    BY <1>4, <2>1, <2>2
<1> QED
  BY <1>2, <1>3, <1>4 DEF Send

\* The event loop: epoll_wait hands every edge to the batch, and readAll comes back
\* only when the socket has nothing more to read or is closed.
LEMMA LoopNotices ==
  ASSUME EdgeInv, NEW side \in Sides, Loop(side)
  PROVE  SidesInv' /\ NetInv' /\ QueuedInv'
<1>1. DomInv /\ NetInv /\ Side(side) /\ UNCHANGED <<made, backlog>>
  BY DEF EdgeInv, Inv, Loop, EpollWait, BeginRead, Recv, RecvEnd, ReadAllReturns, Erase,
         netVars, histVars
<1>2. CASE EpollWait(side)
  <2>1. /\ pc[side] = "wait" /\ pc' = [pc EXCEPT ![side] = "batch"]
        /\ edges[side] \subseteq events'[side] /\ events' = [events EXCEPT ![side] = events'[side]]
        /\ edges' = [edges EXCEPT ![side] = {}]
        /\ UNCHANGED <<cur, holder, watched, inq, closed, broken>>
    BY <1>1, <1>2 DEF EpollWait, netVars, DomInv
  <2>2. \A s \in Sides : \A c : Readable(s, c)' <=> Readable(s, c)
    BY <2>1 DEF Readable
  <2>3. ASSUME NEW s \in Sides PROVE Held(s)' /\ Noticed(s)'
    <3>1. Held(s) /\ Noticed(s)
      BY DEF EdgeInv, SidesInv
    <3>2. CASE s # side
      <4>1. UNCHANGED <<pc[s], edges[s], events[s], cur[s], holder[s], watched[s], closed[s]>>
        BY <1>1, <2>1, <3>2 DEF DomInv
      <4> QED
        BY <1>1, <2>2, <3>1, <4>1 DEF Held, Noticed
    <3>3. CASE s = side
      <4>1. pc'[s] = "batch" /\ edges[s] \subseteq events'[s] /\ events[s] = {}
        BY <1>1, <2>1, <3>1, <3>3 DEF DomInv, Held
      <4> QED
        BY <1>1, <2>1, <2>2, <3>1, <3>3, <4>1 DEF Held, Noticed
    <3> QED
      BY <3>2, <3>3
  <2> QED
    BY <1>1, <2>1, <2>3 DEF SidesInv, EdgeInv, NetInv, QueuedInv
<1>3. CASE BeginRead(side)
  <2>1. PICK f \in events[side] \cap Fds :
          /\ events' = [events EXCEPT ![side] = @ \ {f}]
          /\ f \in DOMAIN clSockets[side] =>
               cur' = [cur EXCEPT ![side] = f] /\ pc' = [pc EXCEPT ![side] = "read"]
    BY <1>3 DEF BeginRead, Handled
  <2>2. f \in DOMAIN clSockets[side]
    BY <1>1 DEF Side, SideInv
  <2>3. pc[side] = "batch" /\ UNCHANGED <<edges, holder, watched, inq, closed, broken>>
    BY <1>3 DEF BeginRead, fdVars, netVars
  <2>4. \A s \in Sides : \A c : Readable(s, c)' <=> Readable(s, c)
    BY <2>3 DEF Readable
  <2>5. ASSUME NEW s \in Sides PROVE Held(s)' /\ Noticed(s)'
    <3>1. Held(s) /\ Noticed(s)
      BY DEF EdgeInv, SidesInv
    <3>2. CASE s # side
      <4>1. UNCHANGED <<pc[s], edges[s], events[s], cur[s], holder[s], watched[s], closed[s]>>
        BY <1>1, <2>1, <2>2, <2>3, <3>2 DEF DomInv
      <4> QED
        BY <1>1, <2>4, <3>1, <4>1 DEF Held, Noticed
    <3>3. CASE s = side
      <4>1. pc'[s] = "read" /\ cur'[s] = f /\ events'[s] = events[s] \ {f}
        BY <1>1, <2>1, <2>2, <3>3 DEF DomInv
      <4> QED
        BY <1>1, <2>3, <2>4, <3>1, <3>3, <4>1 DEF Held, Noticed
    <3> QED
      BY <3>2, <3>3
  <2> QED
    BY <1>1, <2>3, <2>5 DEF SidesInv, EdgeInv, NetInv, QueuedInv
<1>4. CASE Recv(side)
  <2> DEFINE k == Current(side).conn
  <2>1. /\ UNCHANGED <<pc, events, cur, holder, watched, edges, closed, broken>>
        /\ \E n \in 1..Len(inq[side][k]) :
             inq' = [inq EXCEPT ![side][k] = SubSeq(@, n + 1, Len(@))]
    BY <1>4 DEF Recv, fdVars
  <2> HIDE DEF k
  <2>2. DOMAIN inq' = Sides /\ \A s \in Sides : DOMAIN inq'[s] = Conns
    BY <1>1, <2>1 DEF NetInv
  <2>3. inq[side][k] # <<>>
    BY <2>1
  <2>4. \A s \in Sides : \A c \in Conns : inq[s][c] = <<>> => inq'[s][c] = <<>>
    BY <1>1, <2>1, <2>3 DEF NetInv
  <2>5. \A s \in Sides : \A c \in Conns : Readable(s, c)' => Readable(s, c)
    BY <2>1, <2>4 DEF Readable
  <2>6. Onward
    BY <2>1 DEF Onward
  <2> QED
    BY <1>1, <2>1, <2>2, <2>5, <2>6, NothingNew
<1>5. CASE RecvEnd(side)
  <2>1. /\ UNCHANGED <<pc, cur, events, inq, broken>> /\ CloseFd(side, cur[side])
        /\ pc[side] = "read" /\ clSockets[side][cur[side]].isConnect
    BY <1>5 DEF RecvEnd, Reading, Current
  <2>2. cur[side] \in DOMAIN clSockets[side] /\ Onward
    BY <1>1, <2>1 DEF Side, SideInv, Onward
  <2> QED
    BY <1>1, <2>1, <2>2, CloseNotices
<1>6. CASE ReadAllReturns(side)
  <2>1. /\ pc[side] = "read" /\ pc' = [pc EXCEPT ![side] = "handle"]
        /\ clSockets[side][cur[side]].isConnect =>
             ~Readable(side, clSockets[side][cur[side]].conn)
        /\ UNCHANGED <<events, cur, holder, watched, edges, inq, closed, broken>>
    BY <1>6 DEF ReadAllReturns, Current, fdVars, netVars
  <2>2. \A s \in Sides : \A c : Readable(s, c)' <=> Readable(s, c)
    BY <2>1 DEF Readable
  <2>3. ASSUME NEW s \in Sides PROVE Held(s)' /\ Noticed(s)'
    <3>1. Held(s) /\ Noticed(s)
      BY DEF EdgeInv, SidesInv
    <3>2. CASE s # side
      <4>1. pc'[s] = pc[s]
        BY <1>1, <2>1, <3>2 DEF DomInv
      <4> QED
        BY <1>1, <2>1, <2>2, <3>1, <4>1 DEF Held, Noticed
    <3>3. CASE s = side
      <4>1. pc'[s] = "handle"
        BY <1>1, <2>1, <3>3 DEF DomInv
      <4>2. \A f \in watched[s] : f \in Fds /\ holder[s][f] # None
        BY <3>1 DEF Held
      <4>3. cur[s] \in watched[s] => ~Readable(s, holder[s][cur[s]])
        BY <1>1, <2>1, <3>3, <4>2 DEF Side, SideInv, Owns
      <4>4. Held(s)'
        BY <1>1, <2>1, <3>1, <4>1 DEF Held
      <4>5. Noticed(s)'
        BY <2>1, <2>2, <3>1, <4>1, <4>3 DEF Noticed
      <4> QED
        BY <4>4, <4>5
    <3> QED
      BY <3>2, <3>3
  <2> QED
    BY <1>1, <2>1, <2>3 DEF SidesInv, EdgeInv, NetInv, QueuedInv
<1>7. CASE Erase(side)
  <2>1. /\ pc[side] = "handle" /\ Back(side)
        /\ UNCHANGED <<events, holder, watched, edges, inq, closed, broken>>
    BY <1>7 DEF Erase, fdVars, netVars
  <2>2. Onward
    BY <1>1, <2>1 DEF Onward, Back, DomInv
  <2>3. \A s \in Sides : \A c : Readable(s, c)' <=> Readable(s, c)
    BY <2>1 DEF Readable
  <2> QED
    BY <1>1, <2>1, <2>2, <2>3, NothingNew DEF NetInv
<1> QED
  BY <1>2, <1>3, <1>4, <1>5, <1>6, <1>7 DEF Loop

\* A connection that the client has just made is in no epoll set, in no backlog and
\* closed nowhere.
LEMMA FreshConn ==
  ASSUME EdgeInv, made < MaxConns
  PROVE  /\ made + 1 \in Conns /\ made + 1 \in Nat /\ made \in Nat
         /\ \A s \in Sides : /\ made + 1 \notin closed[s]
                             /\ \A f \in Fds : holder[s][f] # made + 1
         /\ \A p \in Ports : \A n \in DOMAIN backlog[p] : backlog[p][n] # made + 1
<1>1. made \in 0..MaxConns /\ MaxConns \in Nat
  BY EchoAssumption DEF EdgeInv, Inv, LoopInv
<1>2. ASSUME NEW s \in Sides
      PROVE  /\ made + 1 \notin closed[s]
             /\ \A f \in Fds : holder[s][f] # made + 1
  <2>1. Held(s)
    BY DEF EdgeInv, SidesInv
  <2> QED
    BY <1>1, <2>1 DEF Held, None
<1>3. \A p \in Ports : \A n \in DOMAIN backlog[p] : backlog[p][n] # made + 1
  BY <1>1 DEF EdgeInv, QueuedInv
<1> QED
  BY <1>1, <1>2, <1>3 DEF Conns

\* The server's kernel queues a connection that is new.
LEMMA Queues ==
  ASSUME EdgeInv, made < MaxConns, made' = made + 1, NEW p \in Ports,
         backlog' = [backlog EXCEPT ![p] = Append(@, made')],
         UNCHANGED <<holder["server"], closed["server"]>>
  PROVE  QueuedInv'
<1> DEFINE k == made + 1
<1>1. /\ backlog \in [Ports -> Seq(Conns)] /\ k \in Conns /\ made \in Nat
      /\ k \notin closed["server"] /\ \A f \in Fds : holder["server"][f] # k
      /\ \A q \in Ports : \A n \in DOMAIN backlog[q] : backlog[q][n] # k
  BY FreshConn DEF EdgeInv, Inv, LoopInv, Sides
<1>2. /\ \A q \in Ports : q # p => backlog'[q] = backlog[q]
      /\ backlog'[p] = Append(backlog[p], k)
  BY <1>1
<1> HIDE DEF k
<1>3. /\ DOMAIN backlog'[p] = 1..(Len(backlog[p]) + 1) /\ DOMAIN backlog[p] = 1..Len(backlog[p])
      /\ Len(backlog[p]) \in Nat
      /\ \A n \in 1..Len(backlog[p]) : backlog'[p][n] = backlog[p][n]
      /\ backlog'[p][Len(backlog[p]) + 1] = k
  BY <1>1, <1>2
<1>4. ASSUME NEW q \in Ports, NEW n \in DOMAIN backlog'[q]
      PROVE  \/ n \in DOMAIN backlog[q] /\ backlog'[q][n] = backlog[q][n]
             \/ q = p /\ n = Len(backlog[p]) + 1 /\ backlog'[q][n] = k
  BY <1>2, <1>3
<1>5. ASSUME NEW q \in Ports, NEW n \in DOMAIN backlog'[q]
      PROVE  /\ backlog'[q][n] <= made' /\ backlog'[q][n] \notin closed'["server"]
             /\ \A f \in Fds : holder'["server"][f] # backlog'[q][n]
  <2>1. CASE n \in DOMAIN backlog[q] /\ backlog'[q][n] = backlog[q][n]
    <3>1. backlog[q][n] \in Conns /\ backlog[q][n] <= made
      BY <1>1, <2>1 DEF EdgeInv, QueuedInv
    <3> QED
      BY <1>1, <2>1, <3>1 DEF EdgeInv, QueuedInv, Conns
  <2>2. CASE backlog'[q][n] = k
    BY <1>1, <2>2 DEF k
  <2> QED
    BY <1>4, <2>1, <2>2
<1>6. ASSUME NEW q \in Ports, NEW r \in Ports, NEW n \in DOMAIN backlog'[q],
             NEW m \in DOMAIN backlog'[r], backlog'[q][n] = backlog'[r][m]
      PROVE  q = r /\ n = m
  BY <1>1, <1>4, <1>6 DEF EdgeInv, QueuedInv
<1> QED
  BY <1>5, <1>6 DEF QueuedInv

\* EchoTcpServer::start: what is accepted has no descriptor yet.
LEMMA ServerNotices ==
  ASSUME EdgeInv, Echo \/ ServerTurn \/ \E p \in Ports : Accept(p)
  PROVE  SidesInv' /\ NetInv' /\ QueuedInv'
<1>1. DomInv /\ LoopInv /\ NetInv /\ Side("server") /\ UNCHANGED made
      /\ "server" \in Sides /\ "client" \in Sides
  BY DEF EdgeInv, Inv, Sides, Echo, ServerTurn, Accept, netVars, histVars
<1>2. CASE Echo
  <2>1. /\ pc["server"] = "handle" /\ Back("server") /\ UNCHANGED <<events, backlog>>
    BY <1>2 DEF Echo
  <2>2. cur["server"] \in DOMAIN clSockets["server"] /\ Onward
    BY <1>1, <2>1 DEF Side, SideInv, Onward, Back, DomInv
  <2>3. CASE msg["server"] # <<>>
    BY <1>1, <1>2, <2>1, <2>2, <2>3, SendNotices DEF Echo
  <2>4. CASE msg["server"] = <<>>
    <3>1. UNCHANGED <<holder, watched, edges, inq, closed, broken>>
      BY <1>2, <2>4 DEF Echo, fdVars
    <3>2. \A s \in Sides : \A c : Readable(s, c)' <=> Readable(s, c)
      BY <3>1 DEF Readable
    <3> QED
      BY <1>1, <2>1, <2>2, <3>1, <3>2, NothingNew DEF NetInv
  <2> QED
    BY <2>3, <2>4
<1>3. CASE ServerTurn
  <2>1. /\ pc["server"] = "batch" /\ events["server"] = {}
        /\ pc' = [pc EXCEPT !["server"] = "wait"]
        /\ UNCHANGED <<events, cur, holder, watched, edges, inq, closed, broken, backlog>>
    BY <1>3 DEF ServerTurn, fdVars, netVars
  <2>2. \A s \in Sides : \A c : Readable(s, c)' <=> Readable(s, c)
    BY <2>1 DEF Readable
  <2>3. ASSUME NEW s \in Sides
        PROVE  /\ pc'[s] \in {"wait", "connect", "send"} => events[s] = {}
               /\ pc[s] = pc'[s] \/ pc[s] # "read"
    <3>1. Held(s)
      BY DEF EdgeInv, SidesInv
    <3> QED
      BY <1>1, <2>1, <3>1 DEF Held, DomInv
  <2> QED
    BY <1>1, <2>1, <2>2, <2>3, NothingNew DEF NetInv
<1>4. ASSUME NEW p \in Ports, Accept(p) PROVE SidesInv' /\ NetInv' /\ QueuedInv'
  <2> DEFINE k == Head(backlog[p])
  <2>1. PICK f \in Fds : LowestFree("server", f) /\ AddSocket("server", f, k)
    BY <1>4 DEF Accept
  <2>2. /\ p \in events["server"] /\ backlog' = [backlog EXCEPT ![p] = Tail(@)]
        /\ UNCHANGED <<pc, cur, inq, closed, broken>>
        /\ events' = [events EXCEPT !["server"] = @ \ {p}]
    BY <1>4 DEF Accept, Handled
  <2>3. /\ backlog \in [Ports -> Seq(Conns)] /\ backlog[p] # <<>> /\ k = backlog[p][1]
        /\ k \in Conns /\ 1 \in DOMAIN backlog[p]
    BY <1>1, <2>2 DEF LoopInv
  <2>4. /\ \A q \in Ports : q # p => backlog'[q] = backlog[q]
        /\ \A n \in DOMAIN backlog'[p] :
             n \in Nat \ {0} /\ n + 1 \in DOMAIN backlog[p] /\ backlog'[p][n] = backlog[p][n + 1]
    BY <2>2, <2>3
  <2>5. /\ k <= made /\ k \notin closed["server"] /\ \A g \in Fds : holder["server"][g] # k
    BY <2>3 DEF EdgeInv, QueuedInv
  <2> HIDE DEF k
  <2>6. \A s \in Sides : /\ events'[s] \subseteq events[s]
                         /\ \A g \in Fds : g \in events[s] => g \in events'[s]
    BY <1>1, <2>2, EchoAssumption DEF DomInv
  <2>7. made' \in Nat /\ made <= made'
    BY <1>1, EchoAssumption DEF LoopInv
  <2>8. SidesInv' /\ holder' = [holder EXCEPT !["server"][f] = k]
    BY <1>1, <2>1, <2>2, <2>3, <2>5, <2>6, <2>7, AddNotices
  <2>9. ASSUME NEW q \in Ports, NEW n \in DOMAIN backlog'[q]
        PROVE  \E i \in DOMAIN backlog[q] :
                 /\ backlog'[q][n] = backlog[q][i]
                 /\ i = IF q = p THEN n + 1 ELSE n
                 /\ q = p => i # 1
    BY <2>4
  <2>10. QueuedInv'
    <3>1. ASSUME NEW q \in Ports, NEW n \in DOMAIN backlog'[q]
          PROVE  /\ backlog'[q][n] <= made' /\ backlog'[q][n] \notin closed'["server"]
                 /\ \A g \in Fds : holder'["server"][g] # backlog'[q][n]
      <4>1. PICK i \in DOMAIN backlog[q] :
              backlog'[q][n] = backlog[q][i] /\ (q = p => i # 1)
        BY <2>9
      <4>2. backlog[q][i] # k
        BY <2>3, <4>1 DEF EdgeInv, QueuedInv
      <4>3. \A g \in Fds : holder'["server"][g] = holder["server"][g] \/ holder'["server"][g] = k
        BY <1>1, <2>8 DEF DomInv, Side, SideInv
      <4> QED
        BY <1>1, <2>2, <4>1, <4>2, <4>3 DEF EdgeInv, QueuedInv
    <3>2. ASSUME NEW q \in Ports, NEW r \in Ports, NEW n \in DOMAIN backlog'[q],
                 NEW m \in DOMAIN backlog'[r], backlog'[q][n] = backlog'[r][m]
          PROVE  q = r /\ n = m
      <4>1. PICK i \in DOMAIN backlog[q] :
              backlog'[q][n] = backlog[q][i] /\ i = IF q = p THEN n + 1 ELSE n
        BY <2>9
      <4>2. PICK j \in DOMAIN backlog[r] :
              backlog'[r][m] = backlog[r][j] /\ j = IF r = p THEN m + 1 ELSE m
        BY <2>9
      <4>3. backlog[q][i] = backlog[r][j]
        BY <3>2, <4>1, <4>2
      <4>4. \A x, y \in Ports : \A v \in DOMAIN backlog[x], w \in DOMAIN backlog[y] :
              backlog[x][v] = backlog[y][w] => x = y /\ v = w
        BY DEF EdgeInv, QueuedInv
      <4>5. q = r /\ i = j
        BY <4>3, <4>4
      <4> QED
        BY <2>4, <4>1, <4>2, <4>5
    <3> QED
      BY <3>1, <3>2 DEF QueuedInv
  <2>11. NetInv'
    BY <1>1, <2>2 DEF NetInv
  <2> QED
    BY <2>8, <2>10, <2>11
<1> QED
  BY <1>2, <1>3, <1>4

\* TestTcpClient::start: the socket of a connect that timed out was never watched.
LEMMA ClientNotices ==
  ASSUME EdgeInv,
         \/ PrintAnswer \/ ClientTurn \/ ConnectsDone \/ SendsDone
         \/ \E p \in Ports : ClientConnect(p) \/ ClientTimeout(p)
         \/ \E f \in Fds : Hello(f)
  PROVE  SidesInv' /\ NetInv' /\ QueuedInv'
<1>1. /\ DomInv /\ LoopInv /\ NetInv /\ UNCHANGED events /\ Held("client")
      /\ "server" \in Sides /\ "client" \in Sides
  BY DEF EdgeInv, SidesInv, Inv, Sides, PrintAnswer, ClientTurn, ConnectsDone, SendsDone,
         ClientConnect, ClientTimeout, Hello
<1>2. CASE PrintAnswer
  <2>1. /\ pc["client"] = "handle" /\ Back("client")
        /\ UNCHANGED <<holder, watched, edges, inq, closed, broken, made, backlog>>
    BY <1>2 DEF PrintAnswer, fdVars, netVars
  <2>2. Onward
    BY <1>1, <2>1 DEF Onward, Back, DomInv
  <2>3. \A s \in Sides : \A c : Readable(s, c)' <=> Readable(s, c)
    BY <2>1 DEF Readable
  <2> QED
    BY <1>1, <2>1, <2>2, <2>3, NothingNew DEF NetInv
<1>3. CASE ClientTurn \/ ConnectsDone \/ SendsDone
  <2>1. /\ \E to : pc' = [pc EXCEPT !["client"] = to]
        /\ pc["client"] \in {"batch", "connect", "send"}
        /\ pc["client"] = "batch" => events["client"] = {}
        /\ UNCHANGED <<cur, holder, watched, edges, inq, closed, broken, made, backlog>>
    BY <1>3 DEF ClientTurn, ConnectsDone, SendsDone, fdVars, netVars, histVars
  <2>2. \A s \in Sides : \A c : Readable(s, c)' <=> Readable(s, c)
    BY <2>1 DEF Readable
  <2>3. events["client"] = {}
    BY <1>1, <2>1 DEF Held
  <2>4. ASSUME NEW s \in Sides
        PROVE  /\ pc'[s] \in {"wait", "connect", "send"} => events[s] = {}
               /\ pc[s] = pc'[s] \/ pc[s] # "read"
    <3>1. Held(s)
      BY DEF EdgeInv, SidesInv
    <3> QED
      BY <1>1, <2>1, <2>3, <3>1 DEF Held, DomInv
  <2> QED
    BY <1>1, <2>1, <2>2, <2>4, NothingNew DEF NetInv
<1>4. ASSUME NEW p \in Ports, ClientConnect(p) PROVE SidesInv' /\ NetInv' /\ QueuedInv'
  <2>1. PICK f \in Fds : LowestFree("client", f) /\ AddSocket("client", f, made')
    BY <1>4 DEF ClientConnect
  <2>2. /\ made < MaxConns /\ made' = made + 1
        /\ backlog' = [backlog EXCEPT ![p] = Append(@, made')]
        /\ UNCHANGED <<pc, cur, inq, closed, broken>>
    BY <1>4 DEF ClientConnect
  <2>3. /\ made' \in Conns /\ made' \in Nat /\ made \in Nat /\ made' \notin closed["client"]
        /\ \A g \in Fds : holder["client"][g] # made'
    BY <1>1, <2>2, FreshConn
  <2>4. SidesInv' /\ holder' = [holder EXCEPT !["client"][f] = made']
    BY <1>1, <2>1, <2>2, <2>3, AddNotices
  <2>5. UNCHANGED <<holder["server"], closed["server"]>>
    BY <1>1, <2>2, <2>4 DEF DomInv
  <2>6. QueuedInv'
    BY <2>2, <2>5, Queues
  <2>7. NetInv'
    BY <1>1, <2>2 DEF NetInv
  <2> QED
    BY <2>4, <2>6, <2>7
<1>5. ASSUME NEW p \in Ports, ClientTimeout(p) PROVE SidesInv' /\ NetInv' /\ QueuedInv'
  <2>1. /\ made < MaxConns /\ made' = made + 1
        /\ backlog' = [backlog EXCEPT ![p] = Append(@, made')]
        /\ closed' = [closed EXCEPT !["client"] = @ \cup {made'}]
        /\ UNCHANGED <<pc, cur, holder, watched, edges, inq, broken>>
    BY <1>5 DEF ClientTimeout, fdVars
  <2>2. /\ made' \in Conns /\ made' \in Nat /\ made \in Nat
        /\ \A s \in Sides : \A g \in Fds : holder[s][g] # made'
    BY <2>1, FreshConn
  <2>3. /\ DOMAIN closed' = Sides
        /\ \A s \in Sides : closed'[s] \subseteq closed[s] \cup {made'}
        /\ closed'["server"] = closed["server"]
    BY <1>1, <2>1 DEF NetInv
  <2>4. ASSUME NEW s \in Sides PROVE Held(s)' /\ Noticed(s)'
    <3>1. /\ Held(s) /\ Noticed(s) /\ holder[s] \in [Fds -> Conns \cup {None}]
          /\ Other(s) \in Sides
      BY TwoSides DEF EdgeInv, SidesInv, Inv, Side, SideInv
    <3>2. \A c : Readable(s, c)' => Readable(s, c) \/ c = made'
      BY <2>1, <2>3, <3>1 DEF Readable
    <3>3. Held(s)'
      BY <1>1, <2>1, <2>2, <2>3, <3>1 DEF Held, Conns, None
    <3>4. Noticed(s)'
      BY <1>1, <2>1, <2>2, <3>1, <3>2 DEF Held, Noticed
    <3> QED
      BY <3>3, <3>4
  <2>5. QueuedInv'
    BY <2>1, <2>3, Queues
  <2>6. NetInv'
    BY <1>1, <2>1, <2>3 DEF NetInv
  <2> QED
    BY <2>4, <2>5, <2>6 DEF SidesInv
<1>6. ASSUME NEW f \in Fds, Hello(f) PROVE SidesInv' /\ NetInv' /\ QueuedInv'
  <2>1. pc["client"] = "send" /\ f \in todo /\ UNCHANGED <<pc, cur, made, backlog>>
    BY <1>6 DEF Hello
  <2>2. f \in DOMAIN clSockets["client"] /\ Onward
    BY <1>1, <2>1 DEF LoopInv, Onward
  <2> DEFINE k == clSockets["client"][f].conn
  <2>3. CASE sent[k] < MaxMsgs
    <3>1. Send("client", f, <<sent[k] + 1>>)
      BY <1>6, <2>3 DEF Hello
    <3> QED
      BY <1>1, <2>1, <2>2, <3>1, SendNotices
  <2>4. CASE ~(sent[k] < MaxMsgs)
    <3>1. UNCHANGED <<holder, watched, edges, inq, closed, broken>>
      BY <1>6, <2>4 DEF Hello, fdVars
    <3>2. \A s \in Sides : \A c : Readable(s, c)' <=> Readable(s, c)
      BY <3>1 DEF Readable
    <3> QED
      BY <1>1, <2>1, <2>2, <3>1, <3>2, NothingNew DEF NetInv
  <2> QED
    BY <2>3, <2>4
<1> QED
  BY <1>2, <1>3, <1>4, <1>5, <1>6

\* Both programs start without sockets, and nothing is queued.
LEMMA InitEdgeInv == Init => EdgeInv
<1> SUFFICES ASSUME Init PROVE EdgeInv
  OBVIOUS
<1>1. Inv
  BY InitInv
<1>2. NetInv
  BY DEF Init, Both, NetInv
<1>3. QueuedInv
  <2>1. \A p \in Ports : DOMAIN backlog[p] = {}
    BY DEF Init
  <2> QED
    BY <2>1 DEF QueuedInv
<1>4. SidesInv
  BY DEF Init, Both, SidesInv, Held, Noticed
<1> QED
  BY <1>1, <1>2, <1>3, <1>4 DEF EdgeInv

\* Every step keeps the edges; a reset makes one on both sides.
LEMMA NextEdgeInv == EdgeInv /\ [Next]_vars => EdgeInv'
<1> SUFFICES ASSUME EdgeInv, [Next]_vars PROVE EdgeInv'
  OBVIOUS
<1>1. Inv'
  BY NextInv DEF EdgeInv
<1>2. CASE Loop("server") \/ Loop("client")
  BY <1>1, <1>2, LoopNotices DEF EdgeInv, Sides
<1>3. CASE Echo \/ ServerTurn \/ \E p \in Ports : Accept(p)
  BY <1>1, <1>3, ServerNotices DEF EdgeInv
<1>4. CASE \/ PrintAnswer \/ ClientTurn \/ ConnectsDone \/ SendsDone
           \/ \E p \in Ports : ClientConnect(p) \/ ClientTimeout(p)
           \/ \E f \in Fds : Hello(f)
  BY <1>1, <1>4, ClientNotices DEF EdgeInv
<1>5. ASSUME NEW c \in Conns, Reset(c) PROVE EdgeInv'
  <2>1. /\ broken' = broken \cup {c}
        /\ edges' = [s \in Sides |-> edges[s] \cup FdsOf(s, c)]
        /\ UNCHANGED <<pc, events, cur, holder, watched, inq, closed, backlog, made>>
    BY <1>5 DEF Reset, procVars, histVars
  <2>2. \A s \in Sides : \A k : Readable(s, k)' => Readable(s, k) \/ k = c
    BY <2>1 DEF Readable
  <2>3. \A s \in Sides : \A f \in Fds : holder[s][f] = c => f \in edges'[s]
    BY <2>1 DEF FdsOf
  <2>4. DOMAIN inq' = Sides /\ \A s \in Sides : DOMAIN inq'[s] = Conns
    BY <2>1 DEF EdgeInv, NetInv
  <2>5. Onward
    BY <2>1 DEF Onward
  <2>6. SidesInv' /\ NetInv' /\ QueuedInv'
    BY <2>1, <2>2, <2>3, <2>4, <2>5, NothingNew
  <2> QED
    BY <1>1, <2>6 DEF EdgeInv
<1>6. CASE UNCHANGED vars
  BY <1>1, <1>6 DEF EdgeInv, vars, procVars, fdVars, netVars, histVars, NetInv, QueuedInv,
                    SidesInv, Held, Noticed, Readable
<1> QED
  BY <1>2, <1>3, <1>4, <1>5, <1>6 DEF Next, Server, Client

\* TcpServer.cpp: with edge-triggered sockets a socket that has something to read is
\* going to be reported, is in the batch or is being read, whatever arrives between
\* the last recv and the next epoll_wait, also what came before the socket was added
\* and although descriptors are used again; for any number of ports, descriptors,
\* connections, resets and failed sends.
THEOREM EdgesAreKept == Spec => []NoLostEdge
<1>1. Init => EdgeInv
  BY InitEdgeInv
<1>2. EdgeInv /\ [Next]_vars => EdgeInv'
  BY NextEdgeInv
<1>3. EdgeInv => NoLostEdge
  BY DEF EdgeInv, SidesInv, Noticed, NoLostEdge
<1> QED
  BY <1>1, <1>2, <1>3, PTL DEF Spec

---------------------------------------------------------------------------
(* No message is lost, repeated or reordered.  Messages move along one path:   *)
(* the client's sends, what waits for the server, what it has in hand, what    *)
(* waits for the client, what the client has in hand, what it has printed.     *)

\* Concatenation, by what the lemmas below say of it.
Cat(s, t) == s \o t

\* The path of c's messages, the oldest first.
Path(c) ==
  Cat(Cat(Cat(Cat(got[c], InHand("client", c)), inq["client"][c]), InHand("server", c)),
      inq["server"][c])

FlowTypes ==
  /\ sent \in [Conns -> Nat] /\ got \in [Conns -> Seq(Nat)]
  /\ inq \in [Sides -> [Conns -> Seq(Nat)]] /\ msg \in [Sides -> Seq(Nat)]

\* Between two handlers a process has nothing in hand.
HandsInv ==
  \A s \in Sides : pc[s] \notin {"read", "handle"} => cur[s] = -1 /\ msg[s] = <<>>

\* An entry that is not connected is what is left of a connection closed on this
\* side; a connection is closed after a reset, or was given up by the client's
\* connect before anything was sent on it.
ClosedInv ==
  /\ \A s \in Sides : \A f \in DOMAIN clSockets[s] :
       ~clSockets[s][f].isConnect => clSockets[s][f].conn \in closed[s]
  /\ \A c \in Conns \ broken :
       /\ c \in closed["server"] => c \in closed["client"]
       /\ c \in closed["client"] => sent[c] = 0
  /\ \A c \in Conns : c > made => sent[c] = 0

\* The messages of c are all on the path, in the order in which they were sent.
Whole(c) == Path(c) = [i \in 1..sent[c] |-> i]

FlowInv ==
  /\ EdgeInv /\ FlowTypes /\ HandsInv /\ ClosedInv
  /\ \A c \in Conns \ (cut \cup broken) : Whole(c)

\* Concatenation of sequences of messages.
LEMMA CatMsgs == \A s, t \in Seq(Nat) : Cat(s, t) \in Seq(Nat)
BY ConcatProperties DEF Cat

LEMMA CatRegroups == \A s, t, u \in Seq(Nat) : Cat(s, Cat(t, u)) = Cat(Cat(s, t), u)
<1> SUFFICES ASSUME NEW s \in Seq(Nat), NEW t \in Seq(Nat), NEW u \in Seq(Nat)
             PROVE  Cat(s, Cat(t, u)) = Cat(Cat(s, t), u)
  OBVIOUS
<1>1. PICK S : S = Nat
  OBVIOUS
<1>2. s \in Seq(S) /\ t \in Seq(S) /\ u \in Seq(S)
  BY <1>1
<1>3. (s \o t) \o u = s \o (t \o u)
  BY <1>2, SMTT(30)
<1> QED
  BY <1>3, Zenon DEF Cat

LEMMA CatEmpty ==
  /\ \A s \in Seq(Nat) : Cat(s, <<>>) = s
  /\ \A s, t \in Seq(Nat) : Cat(s, t) = <<>> => s = <<>> /\ t = <<>>
<1>1. \A s \in Seq(Nat) : Cat(s, <<>>) = s
  BY ConcatEmptySeq DEF Cat
<1>2. \A s, t \in Seq(Nat) : Cat(s, t) = <<>> => s = <<>> /\ t = <<>>
  BY ConcatEqualIffEmpty DEF Cat
<1> QED
  BY <1>1, <1>2

\* A block that moves from the front of one part of the path to the end of the other.
LEMMA MovedBlock ==
  ASSUME NEW p \in Seq(Nat), NEW a \in Seq(Nat), NEW x \in Seq(Nat), NEW y \in Seq(Nat)
  PROVE  Cat(Cat(p, Cat(a, x)), y) = Cat(Cat(p, a), Cat(x, y))
BY CatMsgs, CatRegroups

\* The messages 1 .. n and the next one.
LEMMA OneMore ==
  ASSUME NEW n \in Nat
  PROVE  Cat([i \in 1..n |-> i], <<n + 1>>) = [i \in 1..(n + 1) |-> i]
<1> DEFINE s == [i \in 1..n |-> i]
           t == [i \in 1..(n + 1) |-> i]
<1>1. s \in Seq(Nat) /\ t \in Seq(Nat) /\ Len(s) = n /\ Len(t) = n + 1 /\ <<n + 1>> \in Seq(Nat)
  OBVIOUS
<1>2. \A i \in 1..n : s[i] = i
  OBVIOUS
<1>3. \A i \in 1..(n + 1) : t[i] = i
  OBVIOUS
<1> HIDE DEF s, t
<1>4. /\ s \o <<n + 1>> \in Seq(Nat) /\ Len(s \o <<n + 1>>) = n + 1
      /\ \A i \in 1..(n + 1) : (s \o <<n + 1>>)[i] = IF i <= n THEN s[i] ELSE <<n + 1>>[i - n]
  BY <1>1, ConcatProperties
<1>5. \A i \in 1..(n + 1) : (s \o <<n + 1>>)[i] = t[i]
  BY <1>2, <1>3, <1>4
<1>6. s \o <<n + 1>> = t
  BY <1>1, <1>4, <1>5, SeqEqual
<1> QED
  BY <1>6 DEF s, t, Cat

\* A path on which nothing was sent is empty everywhere.
LEMMA EmptyPath ==
  ASSUME FlowTypes, NEW c \in Conns, Whole(c), sent[c] = 0
  PROVE  InHand("client", c) = <<>> /\ InHand("server", c) = <<>>
<1> DEFINE a == InHand("client", c)
           d == InHand("server", c)
           g == got[c]
           b == inq["client"][c]
           e == inq["server"][c]
<1>1. /\ a \in Seq(Nat) /\ d \in Seq(Nat) /\ g \in Seq(Nat) /\ b \in Seq(Nat) /\ e \in Seq(Nat)
  BY DEF FlowTypes, InHand, Sides
<1>2. Cat(Cat(Cat(Cat(g, a), b), d), e) = <<>>
  BY DEF Whole, Path
<1> HIDE DEF a, b, d, e, g
<1>3. Cat(g, a) \in Seq(Nat) /\ Cat(Cat(g, a), b) \in Seq(Nat) /\ Cat(Cat(Cat(g, a), b), d) \in Seq(Nat)
  BY <1>1, CatMsgs
<1>4. a = <<>> /\ d = <<>>
  BY <1>1, <1>2, <1>3, CatEmpty
<1> QED
  BY <1>4 DEF a, d

\* What is in hand stays when neither the descriptor nor its connection changes.
LEMMA SameHands ==
  ASSUME NEW s, UNCHANGED <<cur[s], msg[s]>>,
         cur[s] = -1 \/ clSockets'[s][cur[s]].conn = clSockets[s][cur[s]].conn
  PROVE  \A c : InHand(s, c)' = InHand(s, c)
BY DEF InHand, Current

LEMMA SamePaths ==
  ASSUME \A c \in Conns \ (cut \cup broken) : Whole(c), UNCHANGED <<got, inq, sent>>,
         \A s \in Sides : \A c \in Conns : InHand(s, c)' = InHand(s, c),
         cut \subseteq cut', broken \subseteq broken'
  PROVE  \A c \in Conns \ (cut' \cup broken') : Whole(c)'
<1>1. \A c \in Conns : Path(c)' = Path(c)
  BY DEF Path, Sides
<1> QED
  BY <1>1 DEF Whole

\* Steps that move no message and close no connection but a broken one.
LEMMA StillFlows ==
  ASSUME FlowInv, EdgeInv', HandsInv',
         UNCHANGED <<clSockets, cur, msg, got, inq, sent, closed, made>>,
         cut \subseteq cut', broken \subseteq broken'
  PROVE  FlowInv'
<1>1. FlowTypes' /\ ClosedInv'
  BY DEF FlowInv, FlowTypes, ClosedInv
<1>2. \A s \in Sides : \A c \in Conns : InHand(s, c)' = InHand(s, c)
  BY SameHands
<1>3. \A c \in Conns \ (cut' \cup broken') : Whole(c)'
  BY <1>2, SamePaths DEF FlowInv
<1> QED
  BY <1>1, <1>3 DEF FlowInv

\* close(): what is closed has been reset, or nothing was ever sent on it.
LEMMA CloseFlows ==
  ASSUME FlowInv, NEW side \in Sides, NEW f \in DOMAIN clSockets[side],
         clSockets[side][f].isConnect, CloseFd(side, f), clSockets' = Disconnected(side, f),
         \/ clSockets[side][f].conn \in broken
         \/ clSockets[side][f].conn \in closed[Other(side)],
         UNCHANGED <<broken, made>>,
         \A c \in Conns : sent'[c] = sent[c] \/ (c \in broken /\ c <= made)
  PROVE  /\ ClosedInv'
         /\ \A s \in Sides : DOMAIN clSockets'[s] = DOMAIN clSockets[s]
         /\ \A s \in Sides : \A g \in DOMAIN clSockets[s] :
              clSockets'[s][g].conn = clSockets[s][g].conn
<1> DEFINE k == clSockets[side][f].conn
<1>1. /\ DOMAIN clSockets = Sides /\ DOMAIN closed = Sides /\ Side(side) /\ ClosedInv
      /\ \A s \in Sides : DOMAIN clSockets[s] \subseteq Fds /\ \A g \in DOMAIN clSockets[s] : clSockets[s][g] \in Objects
  BY DEF FlowInv, EdgeInv, Inv, DomInv, NetInv, Side, SideInv
<1>2. f \in Fds /\ k \in Conns /\ holder[side][f] = k
  BY <1>1 DEF Side, SideInv, Owns, Objects
<1>3. closed' = [closed EXCEPT ![side] = @ \cup {k}]
  BY <1>2 DEF CloseFd
<1>4. clSockets' = [clSockets EXCEPT ![side][f].fd = -1, ![side][f].isConnect = FALSE]
  BY DEF Disconnected
<1>5. k \in broken \/ k \in closed[Other(side)]
  OBVIOUS
<1> HIDE DEF k
<1>6. /\ \A s \in Sides : s # side => clSockets'[s] = clSockets[s]
      /\ DOMAIN clSockets'[side] = DOMAIN clSockets[side]
      /\ \A g \in DOMAIN clSockets[side] : g # f => clSockets'[side][g] = clSockets[side][g]
  BY <1>1, <1>4
<1>7. clSockets'[side][f].conn = k
  <2>1. clSockets[side][f] \in Objects
    BY <1>1
  <2> QED
    BY <1>1, <1>4, <2>1 DEF Objects, k
<1>8. \A s \in Sides : \A g \in DOMAIN clSockets[s] :
        clSockets'[s][g].conn = clSockets[s][g].conn
  BY <1>6, <1>7 DEF k
<1>9. closed'[side] = closed[side] \cup {k} /\ \A s \in Sides : s # side => closed'[s] = closed[s]
  BY <1>1, <1>3
<1>10. \A s \in Sides : \A g \in DOMAIN clSockets'[s] :
         ~clSockets'[s][g].isConnect => clSockets'[s][g].conn \in closed'[s]
  BY <1>1, <1>6, <1>7, <1>9 DEF ClosedInv
<1>11. k \in broken \/ (k \in closed["client"] /\ sent[k] = 0)
  BY <1>1, <1>2, <1>5 DEF ClosedInv, Other, Sides
<1>12. \A c \in Conns \ broken' :
         /\ c \in closed'["server"] => c \in closed'["client"]
         /\ c \in closed'["client"] => sent'[c] = 0
  BY <1>1, <1>9, <1>11 DEF ClosedInv, Sides
<1>13. \A c \in Conns : c > made => sent'[c] = 0
  <2>1. \A c \in Conns : c > made => ~(c <= made)
    BY DEF Conns, FlowInv, EdgeInv, Inv, LoopInv
  <2> QED
    BY <1>1, <2>1 DEF ClosedInv
<1> QED
  BY <1>6, <1>8, <1>10, <1>12, <1>13 DEF ClosedInv

\* TcpSocket::send puts all of data behind what waits for the other side, unless
\* the connection is marked as reset or cut from now on.
LEMMA SendFlows ==
  ASSUME FlowInv, NEW side \in Sides, NEW f \in DOMAIN clSockets[side], NEW data \in Seq(Nat),
         Send(side, f, data), UNCHANGED made,
         \A c \in Conns :
            \/ sent'[c] = sent[c]
            \/ side = "client" /\ clSockets[side][f].isConnect /\ c = clSockets[side][f].conn
  PROVE  /\ ClosedInv' /\ inq' \in [Sides -> [Conns -> Seq(Nat)]]
         /\ cut \subseteq cut' /\ broken \subseteq broken'
         /\ \A s \in Sides : DOMAIN clSockets'[s] = DOMAIN clSockets[s]
         /\ \A s \in Sides : \A g \in DOMAIN clSockets[s] :
              clSockets'[s][g].conn = clSockets[s][g].conn
         /\ \A c \in Conns \ (cut' \cup broken') :
              /\ inq'[side][c] = inq[side][c]
              /\ inq'[Other(side)][c] =
                   IF clSockets[side][f].isConnect /\ c = clSockets[side][f].conn
                   THEN Cat(inq[Other(side)][c], data) ELSE inq[Other(side)][c]
<1> DEFINE k == clSockets[side][f].conn
           peer == Other(side)
<1>1. /\ DOMAIN clSockets = Sides /\ DOMAIN closed = Sides /\ Side(side) /\ ClosedInv /\ Held(side)
      /\ inq \in [Sides -> [Conns -> Seq(Nat)]]
  BY DEF FlowInv, EdgeInv, Inv, DomInv, NetInv, SidesInv, FlowTypes
<1>2. peer \in Sides /\ peer # side /\ \A s \in Sides : s = side \/ s = peer
  BY TwoSides
<1>3. CASE ~clSockets[side][f].isConnect
  <2>1. UNCHANGED <<clSockets, inq, closed, broken, cut>>
    BY <1>3 DEF Send
  <2>2. \A c \in Conns : sent'[c] = sent[c]
    BY <1>3
  <2>3. ClosedInv'
    BY <1>1, <2>1, <2>2 DEF ClosedInv
  <2> QED
    BY <1>1, <1>3, <2>1, <2>3
<1>4. CASE clSockets[side][f].isConnect
  <2>1. /\ f \in Fds /\ k \in Conns /\ holder[side][f] = k /\ k # None
        /\ k \notin closed[side] /\ k <= made
    <3>1. f \in Fds /\ k \in Conns /\ holder[side][f] = k /\ k # None
      BY <1>1, <1>4 DEF Side, SideInv, Owns, Objects, Conns, None
    <3> QED
      BY <1>1, <3>1 DEF Held
  <2>2. \A c \in Conns : sent'[c] = sent[c] \/ (side = "client" /\ c = k)
    OBVIOUS
  <2>3. ASSUME UNCHANGED <<clSockets, closed>>, broken \subseteq broken' PROVE ClosedInv'
    <3>1. \A c \in Conns \ broken' : c \in closed["client"] => sent'[c] = 0
      BY <1>1, <2>1, <2>2, <2>3 DEF ClosedInv
    <3>2. \A c \in Conns : c > made => sent'[c] = 0
      <4>1. \A c \in Conns : c > made => c # k
        BY <2>1 DEF Conns, FlowInv, EdgeInv, Inv, LoopInv
      <4> QED
        BY <1>1, <2>2, <4>1 DEF ClosedInv
    <3> QED
      BY <1>1, <2>3, <3>1, <3>2 DEF ClosedInv
  <2>4. CASE SendOk(side, f, data)
    <3>1. /\ UNCHANGED <<clSockets, closed, cut>>
          /\ \/ inq' = [inq EXCEPT ![peer][k] = Cat(@, data)] /\ UNCHANGED broken
             \/ broken' = broken \cup {k} /\ UNCHANGED inq
      BY <2>4 DEF SendOk, Cat
    <3>2. ClosedInv'
      BY <2>3, <3>1
    <3>3. CASE inq' = [inq EXCEPT ![peer][k] = Cat(@, data)] /\ UNCHANGED broken
      <4>1. Cat(inq[peer][k], data) \in Seq(Nat)
        BY <1>1, <1>2, <2>1, CatMsgs
      <4> HIDE DEF k, peer
      <4>2. inq' \in [Sides -> [Conns -> Seq(Nat)]]
        BY <1>1, <1>2, <2>1, <3>3, <4>1
      <4>3. /\ inq'[side] = inq[side]
            /\ \A c \in Conns : inq'[peer][c] = IF c = k THEN Cat(inq[peer][c], data) ELSE inq[peer][c]
        BY <1>1, <1>2, <2>1, <3>3
      <4> QED
        BY <1>4, <3>1, <3>2, <3>3, <4>2, <4>3 DEF k, peer
    <3>4. CASE broken' = broken \cup {k} /\ UNCHANGED inq
      BY <1>1, <3>1, <3>2, <3>4
    <3> QED
      BY <3>1, <3>3, <3>4
  <2>5. CASE SendDropped(side, f)
    <3>1. UNCHANGED <<clSockets, closed, inq, broken>> /\ cut' = cut \cup {k}
      BY <2>5 DEF SendDropped
    <3> QED
      BY <1>1, <2>3, <3>1
  <2>6. CASE SendFails(side, f)
    <3>1. /\ k \in broken /\ CloseFd(side, f) /\ clSockets' = Disconnected(side, f)
          /\ UNCHANGED <<inq, broken, cut>>
      BY <2>6 DEF SendFails
    <3>2. /\ ClosedInv' /\ \A s \in Sides : DOMAIN clSockets'[s] = DOMAIN clSockets[s]
          /\ \A s \in Sides : \A g \in DOMAIN clSockets[s] :
               clSockets'[s][g].conn = clSockets[s][g].conn
      BY <1>4, <2>1, <2>2, <3>1, CloseFlows
    <3> QED
      BY <1>1, <3>1, <3>2
  <2> QED
    BY <1>4, <2>4, <2>5, <2>6 DEF Send
<1> QED
  BY <1>3, <1>4

\* A step that keeps every path.
LEMMA KeptPaths ==
  ASSUME FlowInv, EdgeInv', FlowTypes', HandsInv', ClosedInv',
         cut \subseteq cut', broken \subseteq broken',
         \A c \in Conns \ (cut' \cup broken') : Path(c)' = Path(c) /\ sent'[c] = sent[c]
  PROVE  FlowInv'
<1>1. \A c \in Conns \ (cut' \cup broken') : Whole(c)
  BY DEF FlowInv
<1>2. \A c \in Conns \ (cut' \cup broken') : Whole(c)'
  BY <1>1 DEF Whole
<1> QED
  BY <1>2 DEF FlowInv

\* What a handler has in hand is of the connection of its descriptor.
LEMMA Handling ==
  ASSUME FlowInv, NEW s \in Sides, pc[s] \in {"read", "handle"}
  PROVE  /\ cur[s] \in DOMAIN clSockets[s] /\ cur[s] # -1 /\ cur[s] \in Fds
         /\ Current(s) \in Objects /\ Current(s).conn \in Conns /\ msg[s] \in Seq(Nat)
         /\ \A c : InHand(s, c) = IF c = Current(s).conn THEN msg[s] ELSE <<>>
<1>1. Side(s) /\ FlowTypes
  BY DEF FlowInv, EdgeInv, Inv
<1>2. cur[s] \in DOMAIN clSockets[s] /\ cur[s] \in Fds /\ Current(s) \in Objects
  BY <1>1 DEF Side, SideInv, Current
<1>3. cur[s] # -1
  BY <1>2, EchoAssumption
<1> QED
  BY <1>1, <1>2, <1>3 DEF InHand, Objects, FlowTypes

\* A handler is over: nothing is in hand.
LEMMA HandsDown ==
  ASSUME FlowInv, NEW s \in Sides, Back(s)
  PROVE  /\ HandsInv' /\ msg' \in [Sides -> Seq(Nat)]
         /\ \A c : InHand(s, c)' = <<>>
         /\ \A t \in Sides : t # s => UNCHANGED <<cur[t], msg[t]>>
<1>1. /\ DOMAIN pc = Sides /\ DOMAIN cur = Sides /\ msg \in [Sides -> Seq(Nat)] /\ HandsInv
  BY DEF FlowInv, EdgeInv, Inv, DomInv, FlowTypes
<1>2. /\ cur'[s] = -1 /\ msg'[s] = <<>> /\ msg' \in [Sides -> Seq(Nat)]
      /\ \A t \in Sides : t # s => UNCHANGED <<pc[t], cur[t], msg[t]>>
  BY <1>1 DEF Back
<1>3. HandsInv'
  BY <1>1, <1>2 DEF HandsInv
<1> QED
  BY <1>2, <1>3 DEF InHand

LEMMA SplitMsgs ==
  ASSUME NEW q \in Seq(Nat), NEW n \in 1..Len(q)
  PROVE  /\ SubSeq(q, 1, n) \in Seq(Nat) /\ SubSeq(q, n + 1, Len(q)) \in Seq(Nat)
         /\ q = Cat(SubSeq(q, 1, n), SubSeq(q, n + 1, Len(q)))
<1> DEFINE x == SubSeq(q, 1, n)
           y == SubSeq(q, n + 1, Len(q))
<1>1. /\ x \in Seq(Nat) /\ Len(x) = n /\ \A i \in 1..n : x[i] = q[i]
  BY SubSeqProperties
<1>2. /\ y \in Seq(Nat) /\ Len(y) = Len(q) - n /\ \A i \in 1..(Len(q) - n) : y[i] = q[n + i]
  BY SubSeqProperties
<1> HIDE DEF x, y
<1>3. /\ x \o y \in Seq(Nat) /\ Len(x \o y) = Len(q)
      /\ \A i \in 1..Len(q) : (x \o y)[i] = IF i <= n THEN x[i] ELSE y[i - n]
  <2>1. Len(q) \in Nat /\ Len(x) + Len(y) = Len(q)
    BY <1>1, <1>2
  <2>2. /\ x \o y \in Seq(Nat) /\ Len(x \o y) = Len(x) + Len(y)
        /\ \A i \in 1..(Len(x) + Len(y)) : (x \o y)[i] = IF i <= Len(x) THEN x[i] ELSE y[i - Len(x)]
    BY <1>1, <1>2, ConcatProperties
  <2> QED
    BY <1>1, <2>1, <2>2
<1>4. ASSUME NEW i \in 1..Len(q) PROVE (x \o y)[i] = q[i]
  <2>1. Len(q) \in Nat /\ n \in Nat /\ i \in Nat
    OBVIOUS
  <2>2. (x \o y)[i] = IF i <= n THEN x[i] ELSE y[i - n]
    BY <1>3, Zenon
  <2>3. CASE i <= n
    <3>1. i \in 1..n
      BY <2>1, <2>3
    <3> QED
      BY <1>1, <2>2, <2>3, <3>1, Zenon
  <2>4. CASE ~ (i <= n)
    <3>1. i - n \in 1..(Len(q) - n) /\ n + (i - n) = i
      BY <2>1, <2>4
    <3>2. y[i - n] = q[n + (i - n)]
      BY <1>2, <3>1, Zenon
    <3> QED
      BY <2>2, <2>4, <3>1, <3>2, Zenon
  <2> QED
    BY <2>3, <2>4, Zenon
<1>5. x \o y = q
  BY <1>3, <1>4, SeqEqual
<1> QED
  BY <1>1, <1>2, <1>5 DEF x, y, Cat

\* readAll takes what waits for the side into its hand.
LEMMA RecvFlows ==
  ASSUME FlowInv, EdgeInv', NEW side \in Sides, Recv(side)
  PROVE  FlowInv'
<1>0. PICK k \in Conns : k = Current(side).conn
  BY Handling DEF Recv, Reading
<1>1. /\ cur[side] # -1 /\ msg[side] \in Seq(Nat)
      /\ \A c : InHand(side, c) = IF c = k THEN msg[side] ELSE <<>>
  BY <1>0, Handling DEF Recv, Reading
<1>2. /\ FlowTypes /\ HandsInv /\ ClosedInv /\ pc[side] = "read"
      /\ UNCHANGED <<clSockets, pc, cur, closed, broken, made, sent, got, cut>>
  BY DEF FlowInv, Recv, Reading, histVars
<1>3. PICK n \in 1..Len(inq[side][k]) :
        /\ msg' = [msg EXCEPT ![side] = Cat(@, SubSeq(inq[side][k], 1, n))]
        /\ inq' = [inq EXCEPT ![side][k] = SubSeq(@, n + 1, Len(@))]
  BY <1>0 DEF Recv, Cat
<1> DEFINE q == inq[side][k]
           x == SubSeq(q, 1, n)
           y == SubSeq(q, n + 1, Len(q))
<1>4. q \in Seq(Nat)
  BY <1>1, <1>2 DEF FlowTypes
<1>5. x \in Seq(Nat) /\ y \in Seq(Nat) /\ q = Cat(x, y)
  BY <1>4, SplitMsgs
<1>6. Cat(msg[side], x) \in Seq(Nat)
  BY <1>1, <1>5, CatMsgs
<1>7. /\ msg' = [msg EXCEPT ![side] = Cat(@, x)] /\ inq' = [inq EXCEPT ![side][k] = y]
  BY <1>2, <1>3 DEF FlowTypes
<1> HIDE DEF x, y, q
<1>8. FlowTypes' /\ inq'[side][k] = y /\ msg'[side] = Cat(msg[side], x)
      /\ (\A s \in Sides : s # side => inq'[s] = inq[s] /\ msg'[s] = msg[s])
      /\ \A c \in Conns : c # k => inq'[side][c] = inq[side][c]
  BY <1>1, <1>2, <1>5, <1>6, <1>7 DEF FlowTypes
<1>9. /\ \A c : InHand(side, c)' = IF c = k THEN Cat(msg[side], x) ELSE <<>>
      /\ \A s \in Sides : s # side => \A c : InHand(s, c)' = InHand(s, c)
  <2>1. \A c : InHand(side, c)' = IF c = k THEN Cat(msg[side], x) ELSE <<>>
    BY <1>0, <1>1, <1>2, <1>8 DEF InHand, Current
  <2>2. \A s \in Sides : s # side => \A c : InHand(s, c)' = InHand(s, c)
    BY <1>2, <1>8 DEF InHand, Current
  <2> QED
    BY <2>1, <2>2
<1>10. HandsInv' /\ ClosedInv'
  BY <1>2, <1>8 DEF HandsInv, ClosedInv
<1>11. ASSUME NEW c \in Conns, c # k PROVE Path(c)' = Path(c)
  BY <1>1, <1>2, <1>8, <1>9, <1>11 DEF Path, Sides
<1>12. Path(k)' = Path(k)
  <2>1. CASE side = "client"
    <3> DEFINE g == got[k]
               a == msg[side]
    <3>1. g \in Seq(Nat) /\ a \in Seq(Nat)
      BY <1>1, <1>2 DEF FlowTypes
    <3> HIDE DEF g, a
    <3>2. Cat(Cat(g, Cat(a, x)), y) = Cat(Cat(g, a), Cat(x, y))
      BY <1>5, <3>1, MovedBlock
    <3>3. InHand("server", k)' = InHand("server", k) /\ inq'["server"] = inq["server"]
      BY <1>8, <1>9, <2>1 DEF Sides
    <3> QED
      BY <1>1, <1>2, <1>5, <1>8, <1>9, <2>1, <3>2, <3>3 DEF Path, q, g, a
  <2>2. CASE side = "server"
    <3> DEFINE p == Cat(Cat(got[k], InHand("client", k)), inq["client"][k])
               a == msg[side]
    <3>1. p \in Seq(Nat) /\ a \in Seq(Nat)
      <4>1. got[k] \in Seq(Nat) /\ InHand("client", k) \in Seq(Nat) /\ inq["client"][k] \in Seq(Nat)
        BY <1>1, <1>2 DEF FlowTypes, InHand, Sides
      <4> QED
        BY <1>1, <4>1, CatMsgs
    <3> HIDE DEF p, a
    <3>2. Cat(Cat(p, Cat(a, x)), y) = Cat(Cat(p, a), Cat(x, y))
      BY <1>5, <3>1, MovedBlock
    <3>3. InHand("client", k)' = InHand("client", k) /\ inq'["client"] = inq["client"]
      BY <1>8, <1>9, <2>2 DEF Sides
    <3> QED
      BY <1>1, <1>2, <1>5, <1>8, <1>9, <2>2, <3>2, <3>3 DEF Path, q, p, a
  <2> QED
    BY <2>1, <2>2 DEF Sides
<1>13. \A c \in Conns : Path(c)' = Path(c)
  BY <1>11, <1>12
<1> QED
  BY <1>2, <1>8, <1>10, <1>13, KeptPaths

\* A closed socket is erased: the client has printed what it has read, and the
\* server has nothing in hand on a connection that was not reset.
LEMMA EraseFlows ==
  ASSUME FlowInv, EdgeInv', NEW side \in Sides, Erase(side)
  PROVE  FlowInv'
<1>0. PICK k \in Conns : k = Current(side).conn
  BY Handling DEF Erase
<1>1. /\ cur[side] \in DOMAIN clSockets[side] /\ msg[side] \in Seq(Nat)
      /\ \A c : InHand(side, c) = IF c = k THEN msg[side] ELSE <<>>
  BY <1>0, Handling DEF Erase
<1>2. /\ FlowTypes /\ ClosedInv /\ Back(side) /\ ~clSockets[side][cur[side]].isConnect
      /\ DOMAIN clSockets = Sides
      /\ clSockets' = [clSockets EXCEPT ![side] = [g \in DOMAIN @ \ {cur[side]} |-> @[g]]]
      /\ got' = IF side = "client" THEN [got EXCEPT ![k] = Cat(@, msg[side])] ELSE got
      /\ UNCHANGED <<inq, closed, broken, made, sent, cut>>
  BY <1>0 DEF Erase, EraseEntry, Current, netVars, FlowInv, EdgeInv, Inv, DomInv, Cat
<1>3. /\ HandsInv' /\ msg' \in [Sides -> Seq(Nat)]
      /\ \A c : InHand(side, c)' = <<>>
      /\ \A t \in Sides : t # side => UNCHANGED <<cur[t], msg[t]>>
  BY <1>2, HandsDown
<1>4. Cat(got[k], msg[side]) \in Seq(Nat)
  BY <1>1, <1>2, CatMsgs DEF FlowTypes
<1>5. FlowTypes'
  BY <1>2, <1>3, <1>4 DEF FlowTypes
<1>6. /\ \A s \in Sides : s # side => clSockets'[s] = clSockets[s]
      /\ DOMAIN clSockets'[side] = DOMAIN clSockets[side] \ {cur[side]}
      /\ \A g \in DOMAIN clSockets'[side] : clSockets'[side][g] = clSockets[side][g]
  BY <1>2
<1>7. ClosedInv'
  BY <1>2, <1>6 DEF ClosedInv
<1>8. \A t \in Sides : t # side => \A c : InHand(t, c)' = InHand(t, c)
  BY <1>3, <1>6 DEF InHand, Current
<1>9. ASSUME NEW c \in Conns \ (cut \cup broken) PROVE Path(c)' = Path(c)
  <2>1. CASE c # k
    <3>1. got'[c] = got[c] /\ InHand(side, c) = <<>>
      BY <1>1, <1>2, <2>1 DEF FlowTypes
    <3> QED
      BY <1>2, <1>3, <1>8, <3>1 DEF Path, Sides
  <2>2. CASE c = k /\ side = "client"
    <3>1. got'[c] = Cat(got[c], InHand("client", c)) /\ got'[c] \in Seq(Nat)
      BY <1>1, <1>2, <1>4, <2>2 DEF FlowTypes
    <3>2. Cat(got'[c], <<>>) = Cat(got[c], InHand("client", c))
      BY <3>1, CatEmpty
    <3> QED
      BY <1>2, <1>3, <1>8, <2>2, <3>2 DEF Path, Sides
  <2>3. CASE c = k /\ side = "server"
    <3>1. c \in closed["server"]
      BY <1>0, <1>1, <1>2, <2>3 DEF ClosedInv, Current, Sides
    <3>2. sent[c] = 0 /\ Whole(c)
      BY <1>2, <3>1 DEF ClosedInv, FlowInv
    <3>3. InHand("server", c) = <<>>
      BY <1>2, <3>2, EmptyPath
    <3> QED
      BY <1>2, <1>3, <1>8, <2>3, <3>3 DEF Path, Sides
  <2> QED
    BY <2>1, <2>2, <2>3 DEF Sides
<1> QED
  BY <1>2, <1>3, <1>5, <1>7, <1>9, KeptPaths

\* The event loop.
LEMMA LoopFlows ==
  ASSUME FlowInv, EdgeInv', NEW side \in Sides, Loop(side)
  PROVE  FlowInv'
<1>1. /\ FlowTypes /\ HandsInv /\ ClosedInv /\ DOMAIN pc = Sides /\ DOMAIN cur = Sides
  BY DEF FlowInv, EdgeInv, Inv, DomInv
<1>2. CASE EpollWait(side)
  <2>1. /\ pc[side] = "wait" /\ pc' = [pc EXCEPT ![side] = "batch"]
        /\ UNCHANGED <<clSockets, cur, msg, got, inq, sent, closed, made, cut, broken>>
    BY <1>2 DEF EpollWait, netVars, histVars
  <2>2. HandsInv'
    BY <1>1, <2>1 DEF HandsInv
  <2> QED
    BY <2>1, <2>2, StillFlows
<1>3. CASE BeginRead(side)
  <2>1. PICK f \in Fds :
          /\ pc[side] = "batch" /\ UNCHANGED <<clSockets, msg, got, inq, sent, closed, made, cut, broken>>
          /\ \/ cur' = [cur EXCEPT ![side] = f] /\ pc' = [pc EXCEPT ![side] = "read"]
             \/ cur' = cur /\ pc' = [pc EXCEPT ![side] = IF side = "server" THEN "batch" ELSE "crashed"]
    BY <1>3 DEF BeginRead, netVars, histVars
  <2>2. cur[side] = -1 /\ msg[side] = <<>>
    BY <1>1, <2>1 DEF HandsInv
  <2>3. HandsInv'
    BY <1>1, <2>1, <2>2 DEF HandsInv
  <2>4. FlowTypes' /\ ClosedInv'
    BY <1>1, <2>1 DEF FlowTypes, ClosedInv
  <2>5. \A c : InHand(side, c) = <<>> /\ InHand(side, c)' = <<>>
    BY <2>1, <2>2 DEF InHand
  <2>6. \A s \in Sides : s # side => \A c : InHand(s, c)' = InHand(s, c)
    BY <1>1, <2>1 DEF InHand, Current
  <2>7. \A s \in Sides : \A c \in Conns : InHand(s, c)' = InHand(s, c)
    BY <2>5, <2>6
  <2>8. \A c \in Conns : Path(c)' = Path(c) /\ sent'[c] = sent[c]
    BY <2>1, <2>7 DEF Path, Sides
  <2> QED
    BY <2>1, <2>3, <2>4, <2>8, KeptPaths
<1>4. CASE Recv(side)
  BY <1>4, RecvFlows
<1>5. CASE RecvEnd(side)
  <2> DEFINE f == cur[side]
  <2>1. /\ f \in DOMAIN clSockets[side] /\ f # -1
    BY <1>5, Handling DEF RecvEnd, Reading
  <2>2. /\ clSockets[side][f].isConnect /\ CloseFd(side, f) /\ clSockets' = Disconnected(side, f)
        /\ clSockets[side][f].conn \in broken \/ clSockets[side][f].conn \in closed[Other(side)]
        /\ UNCHANGED <<pc, cur, msg, got, inq, sent, made, cut, broken>>
    BY <1>5 DEF RecvEnd, Reading, Current, histVars
  <2>3. /\ ClosedInv'
        /\ \A s \in Sides : \A g \in DOMAIN clSockets[s] :
             clSockets'[s][g].conn = clSockets[s][g].conn
    BY <2>1, <2>2, CloseFlows
  <2>4. HandsInv' /\ FlowTypes'
    BY <1>1, <2>2 DEF HandsInv, FlowTypes
  <2>5. \A s \in Sides : cur[s] = -1 \/ cur[s] \in DOMAIN clSockets[s]
    BY <1>1, Handling DEF HandsInv
  <2>6. \A s \in Sides : \A c \in Conns : InHand(s, c)' = InHand(s, c)
    BY <2>2, <2>3, <2>5 DEF InHand, Current
  <2>7. \A c \in Conns : Path(c)' = Path(c) /\ sent'[c] = sent[c]
    BY <2>2, <2>6 DEF Path, Sides
  <2> QED
    BY <2>2, <2>3, <2>4, <2>7, KeptPaths
<1>6. CASE ReadAllReturns(side)
  <2>1. /\ pc[side] = "read" /\ pc' = [pc EXCEPT ![side] = "handle"]
        /\ UNCHANGED <<clSockets, cur, msg, got, inq, sent, closed, made, cut, broken>>
    BY <1>6 DEF ReadAllReturns, netVars, histVars
  <2>2. HandsInv'
    BY <1>1, <2>1 DEF HandsInv
  <2> QED
    BY <2>1, <2>2, StillFlows
<1>7. CASE Erase(side)
  BY <1>7, EraseFlows
<1> QED
  BY <1>2, <1>3, <1>4, <1>5, <1>6, <1>7 DEF Loop

\* EchoTcpServer::start answers with all it has read.
LEMMA EchoFlows ==
  ASSUME FlowInv, EdgeInv', Echo
  PROVE  FlowInv'
<1>0. PICK k \in Conns : k = Current("server").conn
  BY Handling DEF Echo, Sides
<1>1. /\ "server" \in Sides /\ "client" \in Sides /\ Other("server") = "client"
      /\ cur["server"] \in DOMAIN clSockets["server"] /\ msg["server"] \in Seq(Nat)
      /\ \A c : InHand("server", c) = IF c = k THEN msg["server"] ELSE <<>>
  BY <1>0, Handling DEF Echo, Sides, Other
<1>2. /\ FlowTypes /\ HandsInv /\ ClosedInv /\ Back("server") /\ clSockets["server"][cur["server"]].isConnect
      /\ clSockets["server"][cur["server"]].conn = k
      /\ IF msg["server"] # <<>> THEN Send("server", cur["server"], msg["server"])
         ELSE UNCHANGED <<clSockets, fdVars, inq, closed, broken, drops, cut>>
      /\ UNCHANGED <<made, sent, got>>
  BY <1>0 DEF Echo, Current, FlowInv
<1>3. /\ HandsInv' /\ msg' \in [Sides -> Seq(Nat)]
      /\ \A c : InHand("server", c)' = <<>>
      /\ UNCHANGED <<cur["client"], msg["client"]>>
  BY <1>1, <1>2, HandsDown
<1>4. /\ ClosedInv' /\ inq' \in [Sides -> [Conns -> Seq(Nat)]]
      /\ cut \subseteq cut' /\ broken \subseteq broken'
      /\ \A g \in DOMAIN clSockets["client"] :
           clSockets'["client"][g].conn = clSockets["client"][g].conn
      /\ \A c \in Conns \ (cut' \cup broken') :
           /\ inq'["server"][c] = inq["server"][c]
           /\ inq'["client"][c] = IF c = k THEN Cat(inq["client"][c], msg["server"]) ELSE inq["client"][c]
  <2>1. CASE msg["server"] # <<>>
    BY <1>1, <1>2, <2>1, SendFlows
  <2>2. CASE msg["server"] = <<>>
    <3>1. UNCHANGED <<clSockets, inq, closed, broken, cut>>
      BY <1>2, <2>2
    <3>2. \A c \in Conns : inq["client"][c] \in Seq(Nat)
      BY <1>1, <1>2 DEF FlowTypes
    <3>3. \A c \in Conns : Cat(inq["client"][c], <<>>) = inq["client"][c]
      BY <3>2, CatEmpty
    <3> QED
      BY <1>2, <2>2, <3>1, <3>3 DEF ClosedInv, FlowTypes
  <2> QED
    BY <2>1, <2>2
<1>5. cur["client"] = -1 \/ cur["client"] \in DOMAIN clSockets["client"]
  BY <1>1, <1>2, Handling DEF HandsInv
<1>6. \A c : InHand("client", c)' = InHand("client", c)
  BY <1>3, <1>4, <1>5 DEF InHand, Current
<1>7. FlowTypes'
  BY <1>2, <1>3, <1>4 DEF FlowTypes
<1>8. ASSUME NEW c \in Conns \ (cut' \cup broken') PROVE Path(c)' = Path(c)
  <2> DEFINE p == Cat(got[c], InHand("client", c))
             b == inq["client"][c]
             d == InHand("server", c)
  <2>1. p \in Seq(Nat) /\ b \in Seq(Nat) /\ d \in Seq(Nat) /\ Cat(b, d) \in Seq(Nat)
    <3>1. /\ got[c] \in Seq(Nat) /\ InHand("client", c) \in Seq(Nat)
          /\ b \in Seq(Nat) /\ d \in Seq(Nat)
      BY <1>1, <1>2 DEF FlowTypes, InHand
    <3> QED
      BY <3>1, CatMsgs
  <2>2. inq'["client"][c] = Cat(b, d)
    BY <1>1, <1>4, <2>1, CatEmpty
  <2>3. Path(c)' = Cat(Cat(Cat(p, Cat(b, d)), <<>>), inq["server"][c])
    BY <1>2, <1>3, <1>4, <1>6, <2>2 DEF Path
  <2>4. Path(c) = Cat(Cat(Cat(p, b), d), inq["server"][c])
    BY DEF Path
  <2> HIDE DEF p, b, d
  <2>5. Cat(p, Cat(b, d)) \in Seq(Nat)
    BY <2>1, CatMsgs
  <2>6. Cat(Cat(p, Cat(b, d)), <<>>) = Cat(Cat(p, b), d)
    BY <2>1, <2>5, CatEmpty, CatRegroups
  <2> QED
    BY <2>3, <2>4, <2>6
<1> QED
  BY <1>2, <1>3, <1>4, <1>7, <1>8, KeptPaths

\* TestTcpClient prints all it has read.
LEMMA PrintFlows ==
  ASSUME FlowInv, EdgeInv', PrintAnswer
  PROVE  FlowInv'
<1>0. PICK k \in Conns : k = Current("client").conn
  BY Handling DEF PrintAnswer, Sides
<1>1. /\ "server" \in Sides /\ "client" \in Sides /\ msg["client"] \in Seq(Nat)
      /\ \A c : InHand("client", c) = IF c = k THEN msg["client"] ELSE <<>>
  BY <1>0, Handling DEF PrintAnswer, Sides
<1>2. /\ FlowTypes /\ ClosedInv /\ Back("client")
      /\ got' = [got EXCEPT ![k] = Cat(@, msg["client"])]
      /\ UNCHANGED <<clSockets, inq, closed, broken, made, sent, cut>>
  BY <1>0 DEF PrintAnswer, Cat, FlowInv, netVars
<1>3. /\ HandsInv' /\ msg' \in [Sides -> Seq(Nat)]
      /\ \A c : InHand("client", c)' = <<>>
      /\ UNCHANGED <<cur["server"], msg["server"]>>
  BY <1>1, <1>2, HandsDown
<1>4. \A c \in Conns : InHand("client", c) \in Seq(Nat) /\ got[c] \in Seq(Nat)
  BY <1>1, <1>2 DEF FlowTypes, InHand
<1>5. \A c \in Conns : got'[c] = Cat(got[c], InHand("client", c)) /\ got'[c] \in Seq(Nat)
  <2>1. ASSUME NEW c \in Conns, c = k PROVE got'[c] = Cat(got[c], InHand("client", c))
    BY <1>1, <1>2, <2>1 DEF FlowTypes
  <2>2. ASSUME NEW c \in Conns, c # k PROVE got'[c] = Cat(got[c], InHand("client", c))
    <3>1. got'[c] = got[c] /\ InHand("client", c) = <<>>
      BY <1>1, <1>2, <2>2 DEF FlowTypes
    <3> QED
      BY <1>4, <3>1, CatEmpty
  <2>3. \A c \in Conns : got'[c] = Cat(got[c], InHand("client", c))
    BY <2>1, <2>2
  <2> QED
    BY <1>4, <2>3, CatMsgs
<1>6. FlowTypes' /\ ClosedInv'
  <2>1. DOMAIN got' = Conns /\ got' = [c \in Conns |-> got'[c]]
    BY <1>2 DEF FlowTypes
  <2>2. got' \in [Conns -> Seq(Nat)]
    BY <1>5, <2>1
  <2> QED
    BY <1>2, <1>3, <2>2 DEF FlowTypes, ClosedInv
<1>7. \A c \in Conns : Cat(got'[c], <<>>) = Cat(got[c], InHand("client", c))
  BY <1>5, CatEmpty
<1>8. \A c : InHand("server", c)' = InHand("server", c)
  BY <1>2, <1>3 DEF InHand, Current
<1>9. \A c \in Conns : Path(c)' = Path(c)
  BY <1>2, <1>3, <1>7, <1>8 DEF Path
<1> QED
  BY <1>2, <1>3, <1>6, <1>9, KeptPaths

\* TestTcpClient sends the next message of a connection.
LEMMA HelloFlows ==
  ASSUME FlowInv, EdgeInv', NEW f \in Fds, Hello(f)
  PROVE  FlowInv'
<1>1. /\ FlowTypes /\ HandsInv /\ ClosedInv /\ "client" \in Sides /\ "server" \in Sides
      /\ Other("client") = "server" /\ pc["client"] = "send" /\ f \in DOMAIN clSockets["client"]
      /\ UNCHANGED <<pc, cur, msg, made, got>>
  BY DEF Hello, FlowInv, EdgeInv, Inv, LoopInv, Sides, Other
<1>2. PICK k \in Conns : k = clSockets["client"][f].conn
  BY <1>1 DEF FlowInv, EdgeInv, Inv, Side, SideInv, Objects
<1>3. HandsInv'
  BY <1>1 DEF HandsInv
<1>4. CASE ~(sent[k] < MaxMsgs)
  <2>1. UNCHANGED <<clSockets, inq, closed, broken, cut, sent>>
    BY <1>2, <1>4 DEF Hello
  <2> QED
    BY <1>1, <1>3, <2>1, StillFlows
<1>5. CASE sent[k] < MaxMsgs
  <2> DEFINE live == clSockets["client"][f].isConnect
  <2>1. /\ Send("client", f, <<sent[k] + 1>>)
        /\ sent' = [sent EXCEPT ![k] = @ + (IF live THEN 1 ELSE 0)]
    BY <1>2, <1>5 DEF Hello
  <2>2. sent[k] \in Nat /\ <<sent[k] + 1>> \in Seq(Nat)
    BY <1>1 DEF FlowTypes
  <2> HIDE DEF live
  <2>3. /\ sent' \in [Conns -> Nat]
        /\ \A c \in Conns : sent'[c] = IF c = k /\ live THEN sent[c] + 1 ELSE sent[c]
    BY <1>1, <2>1, <2>2 DEF FlowTypes
  <2>4. \A c \in Conns : sent'[c] = sent[c] \/ (clSockets["client"][f].isConnect /\ c = clSockets["client"][f].conn)
    BY <1>2, <2>3 DEF live
  <2>5. /\ ClosedInv' /\ inq' \in [Sides -> [Conns -> Seq(Nat)]]
        /\ cut \subseteq cut' /\ broken \subseteq broken'
        /\ \A s \in Sides : \A g \in DOMAIN clSockets[s] :
             clSockets'[s][g].conn = clSockets[s][g].conn
        /\ \A c \in Conns \ (cut' \cup broken') :
             /\ inq'["client"][c] = inq["client"][c]
             /\ inq'["server"][c] = IF live /\ c = k THEN Cat(inq["server"][c], <<sent[k] + 1>>)
                                                     ELSE inq["server"][c]
    <3>1. /\ ClosedInv' /\ inq' \in [Sides -> [Conns -> Seq(Nat)]]
          /\ cut \subseteq cut' /\ broken \subseteq broken'
          /\ \A s \in Sides : \A g \in DOMAIN clSockets[s] :
               clSockets'[s][g].conn = clSockets[s][g].conn
          /\ \A c \in Conns \ (cut' \cup broken') :
               /\ inq'["client"][c] = inq["client"][c]
               /\ inq'["server"][c] =
                    IF clSockets["client"][f].isConnect /\ c = clSockets["client"][f].conn
                    THEN Cat(inq["server"][c], <<sent[k] + 1>>) ELSE inq["server"][c]
      <4> DEFINE data == <<sent[k] + 1>>
      <4>1. data \in Seq(Nat) /\ Send("client", f, data)
        BY <2>1, <2>2
      <4> HIDE DEF data
      <4>2. /\ ClosedInv' /\ inq' \in [Sides -> [Conns -> Seq(Nat)]]
            /\ cut \subseteq cut' /\ broken \subseteq broken'
            /\ \A s \in Sides : \A g \in DOMAIN clSockets[s] :
                 clSockets'[s][g].conn = clSockets[s][g].conn
            /\ \A c \in Conns \ (cut' \cup broken') :
                 /\ inq'["client"][c] = inq["client"][c]
                 /\ inq'[Other("client")][c] =
                      IF clSockets["client"][f].isConnect /\ c = clSockets["client"][f].conn
                      THEN Cat(inq[Other("client")][c], data) ELSE inq[Other("client")][c]
        BY <1>1, <2>4, <4>1, SendFlows
      <4> QED
        BY <1>1, <4>2 DEF data
    <3> QED
      BY <1>2, <3>1 DEF live
  <2>6. FlowTypes'
    BY <1>1, <2>3, <2>5 DEF FlowTypes
  <2>7. \A s \in Sides : cur[s] = -1 \/ cur[s] \in DOMAIN clSockets[s]
    BY <1>1, Handling DEF HandsInv
  <2>8. \A s \in Sides : \A c : InHand(s, c)' = InHand(s, c)
    BY <1>1, <2>5, <2>7 DEF InHand, Current
  <2>9. ASSUME NEW c \in Conns \ (cut' \cup broken') PROVE Whole(c)'
    <3>1. Whole(c)
      BY <2>5 DEF FlowInv
    <3>2. CASE ~(live /\ c = k)
      <4>1. Path(c)' = Path(c) /\ sent'[c] = sent[c]
        BY <1>1, <2>3, <2>5, <2>8, <3>2 DEF Path
      <4> QED
        BY <3>1, <4>1 DEF Whole
    <3>3. CASE live /\ c = k
      <4> DEFINE p == Cat(Cat(Cat(got[c], InHand("client", c)), inq["client"][c]), InHand("server", c))
                 e == inq["server"][c]
                 x == <<sent[c] + 1>>
      <4>1. p \in Seq(Nat) /\ e \in Seq(Nat) /\ x \in Seq(Nat) /\ sent[c] \in Nat
        <5>1. /\ got[c] \in Seq(Nat) /\ InHand("client", c) \in Seq(Nat) /\ inq["client"][c] \in Seq(Nat)
              /\ InHand("server", c) \in Seq(Nat) /\ e \in Seq(Nat)
          BY <1>1 DEF FlowTypes, InHand
        <5> QED
          BY <2>2, <3>3, <5>1, CatMsgs
      <4>2. Path(c)' = Cat(p, Cat(e, x)) /\ sent'[c] = sent[c] + 1
        BY <1>1, <2>3, <2>5, <2>8, <3>3 DEF Path
      <4>3. Cat(p, e) = [i \in 1..sent[c] |-> i]
        BY <3>1 DEF Whole, Path
      <4>4. Cat([i \in 1..sent[c] |-> i], x) = [i \in 1..(sent[c] + 1) |-> i]
        BY <4>1, OneMore
      <4> HIDE DEF p, e, x
      <4>5. Cat(p, Cat(e, x)) = Cat(Cat(p, e), x)
        BY <4>1, CatRegroups
      <4> QED
        BY <4>2, <4>3, <4>4, <4>5 DEF Whole
    <3> QED
      BY <3>2, <3>3
  <2> QED
    BY <1>3, <2>5, <2>6, <2>9 DEF FlowInv
<1> QED
  BY <1>4, <1>5

\* A new entry is connected, and its side has nothing in hand.
LEMMA AddFlows ==
  ASSUME FlowInv, NEW side \in Sides, NEW f \in Fds, NEW k, AddSocket(side, f, k),
         pc[side] \notin {"read", "handle"}, UNCHANGED <<pc, cur, msg, inq, closed, broken, sent, got, cut>>,
         made' \in Nat, made <= made'
  PROVE  /\ FlowTypes' /\ HandsInv' /\ ClosedInv'
         /\ \A c \in Conns : Path(c)' = Path(c)
<1>1. /\ FlowTypes /\ HandsInv /\ ClosedInv /\ DOMAIN clSockets = Sides /\ made \in Nat
  BY EchoAssumption DEF FlowInv, EdgeInv, Inv, DomInv, LoopInv
<1>2. clSockets' = [clSockets EXCEPT ![side] =
        [g \in DOMAIN @ \cup {f} |->
           IF g = f THEN [fd |-> f, conn |-> k, isConnect |-> TRUE] ELSE @[g]]]
  BY DEF AddSocket
<1>3. /\ \A s \in Sides : s # side => clSockets'[s] = clSockets[s]
      /\ DOMAIN clSockets'[side] = DOMAIN clSockets[side] \cup {f}
      /\ clSockets'[side][f].isConnect
      /\ \A g \in DOMAIN clSockets'[side] : g # f => clSockets'[side][g] = clSockets[side][g]
  BY <1>1, <1>2
<1>4. \A s \in Sides : \A g \in DOMAIN clSockets'[s] :
        ~clSockets'[s][g].isConnect => clSockets'[s][g].conn \in closed'[s]
  BY <1>1, <1>3 DEF ClosedInv
<1>5. \A c \in Conns : c > made' => sent'[c] = 0
  BY <1>1 DEF ClosedInv, Conns
<1>6. ClosedInv' /\ FlowTypes' /\ HandsInv'
  BY <1>1, <1>4, <1>5 DEF ClosedInv, FlowTypes, HandsInv
<1>7. cur[side] = -1
  BY <1>1 DEF HandsInv
<1>8. \A s \in Sides : \A c : InHand(s, c)' = InHand(s, c)
  BY <1>3, <1>7 DEF InHand, Current
<1>9. \A c \in Conns : Path(c)' = Path(c)
  BY <1>8 DEF Path, Sides
<1> QED
  BY <1>6, <1>9

\* The turns of both programs, accept and connect.
LEMMA TurnFlows ==
  ASSUME FlowInv, EdgeInv',
         \/ ServerTurn \/ ClientTurn \/ ConnectsDone \/ SendsDone
         \/ \E p \in Ports : Accept(p) \/ ClientConnect(p) \/ ClientTimeout(p)
  PROVE  FlowInv'
<1>1. /\ FlowTypes /\ HandsInv /\ ClosedInv /\ DOMAIN pc = Sides /\ made \in Nat
      /\ "server" \in Sides /\ "client" \in Sides /\ EdgeInv
  BY EchoAssumption DEF FlowInv, EdgeInv, Inv, DomInv, LoopInv, Sides
<1>2. CASE ServerTurn \/ ClientTurn \/ ConnectsDone \/ SendsDone
  <2>1. /\ UNCHANGED <<clSockets, cur, msg, got, inq, sent, closed, made, cut, broken>>
        /\ \/ pc["server"] = "batch" /\ pc' = [pc EXCEPT !["server"] = "wait"]
           \/ pc["client"] = "batch" /\ pc' = [pc EXCEPT !["client"] = "send"]
           \/ pc["client"] = "connect" /\ pc' = [pc EXCEPT !["client"] = "wait"]
           \/ pc["client"] = "send" /\ pc' = [pc EXCEPT !["client"] = "connect"]
    BY <1>2 DEF ServerTurn, ClientTurn, ConnectsDone, SendsDone, netVars, histVars
  <2>2. HandsInv'
    BY <1>1, <2>1 DEF HandsInv
  <2> QED
    BY <2>1, <2>2, StillFlows
<1>3. ASSUME NEW p \in Ports, Accept(p) PROVE FlowInv'
  <2>1. PICK f \in Fds : AddSocket("server", f, Head(backlog[p]))
    BY <1>3 DEF Accept
  <2>2. /\ pc["server"] = "batch"
        /\ UNCHANGED <<pc, cur, msg, inq, closed, broken, sent, got, cut, made>>
    BY <1>3 DEF Accept, histVars
  <2>3. /\ FlowTypes' /\ HandsInv' /\ ClosedInv' /\ \A c \in Conns : Path(c)' = Path(c)
    BY <1>1, <2>1, <2>2, AddFlows
  <2> QED
    BY <2>2, <2>3, KeptPaths
<1>4. ASSUME NEW p \in Ports, ClientConnect(p) PROVE FlowInv'
  <2>1. PICK f \in Fds : AddSocket("client", f, made')
    BY <1>4 DEF ClientConnect
  <2>2. /\ pc["client"] = "connect" /\ made' = made + 1
        /\ UNCHANGED <<pc, cur, msg, inq, closed, broken, sent, got, cut>>
    BY <1>4 DEF ClientConnect
  <2>3. made' \in Nat /\ made <= made'
    BY <1>1, <2>2
  <2>4. PICK k : k = made'
    OBVIOUS
  <2>5. /\ FlowTypes' /\ HandsInv' /\ ClosedInv' /\ \A c \in Conns : Path(c)' = Path(c)
    BY <1>1, <2>1, <2>2, <2>3, <2>4, AddFlows
  <2> QED
    BY <2>2, <2>5, KeptPaths
<1>5. ASSUME NEW p \in Ports, ClientTimeout(p) PROVE FlowInv'
  <2>1. /\ made' = made + 1 /\ made < MaxConns
        /\ closed' = [closed EXCEPT !["client"] = @ \cup {made'}]
        /\ UNCHANGED <<clSockets, pc, cur, msg, inq, broken, sent, got, cut>>
    BY <1>5 DEF ClientTimeout
  <2>2. made + 1 \in Conns /\ made + 1 > made /\ made + 1 \in Nat
    BY <1>1, <2>1, FreshConn
  <2>3. /\ closed'["server"] = closed["server"]
        /\ closed'["client"] = closed["client"] \cup {made + 1}
        /\ \A s \in Sides : closed[s] \subseteq closed'[s]
    <3>1. DOMAIN closed = Sides
      BY <1>1 DEF EdgeInv, NetInv
    <3> QED
      BY <1>1, <2>1, <3>1 DEF Sides
  <2>4. sent[made + 1] = 0
    BY <1>1, <2>2 DEF ClosedInv
  <2>5. \A c \in Conns : c > made' => sent'[c] = 0
    BY <1>1, <2>1 DEF ClosedInv, Conns
  <2>6. ClosedInv'
    BY <1>1, <2>1, <2>3, <2>4, <2>5 DEF ClosedInv
  <2>7. FlowTypes' /\ HandsInv'
    BY <1>1, <2>1 DEF FlowTypes, HandsInv
  <2>8. \A c \in Conns : Path(c)' = Path(c)
    BY <2>1 DEF Path, InHand, Current
  <2> QED
    BY <2>1, <2>6, <2>7, <2>8, KeptPaths
<1> QED
  BY <1>2, <1>3, <1>4, <1>5

LEMMA InitFlows == Init => FlowInv
<1> SUFFICES ASSUME Init PROVE FlowInv
  OBVIOUS
<1>1. EdgeInv
  BY InitEdgeInv
<1>2. /\ \A s \in Sides : cur[s] = -1 /\ msg[s] = <<>> /\ closed[s] = {} /\ DOMAIN clSockets[s] = {}
      /\ \A s \in Sides : inq[s] = [c \in Conns |-> <<>>]
      /\ sent = [c \in Conns |-> 0] /\ got = [c \in Conns |-> <<>>]
  BY DEF Init, Both
<1>3. FlowTypes
  BY <1>2 DEF Init, Both, FlowTypes
<1>4. HandsInv /\ ClosedInv
  BY <1>2 DEF HandsInv, ClosedInv, Sides
<1>5. ASSUME NEW c \in Conns PROVE Whole(c)
  <2>1. /\ got[c] = <<>> /\ InHand("client", c) = <<>> /\ inq["client"][c] = <<>>
        /\ InHand("server", c) = <<>> /\ inq["server"][c] = <<>> /\ sent[c] = 0
    BY <1>2 DEF InHand, Sides
  <2>2. Cat(<<>>, <<>>) = <<>>
    BY DEF Cat
  <2>3. Path(c) = <<>>
    BY <2>1, <2>2 DEF Path
  <2>4. [i \in 1..0 |-> i] = <<>>
    OBVIOUS
  <2> QED
    BY <2>1, <2>3, <2>4 DEF Whole
<1> QED
  BY <1>1, <1>3, <1>4, <1>5 DEF FlowInv

LEMMA NextFlows == FlowInv /\ [Next]_vars => FlowInv'
<1> SUFFICES ASSUME FlowInv, [Next]_vars PROVE FlowInv'
  OBVIOUS
<1>1. EdgeInv'
  BY NextEdgeInv DEF FlowInv
<1>2. CASE Loop("server") \/ Loop("client")
  BY <1>1, <1>2, LoopFlows DEF Sides
<1>3. CASE Echo
  BY <1>1, <1>3, EchoFlows
<1>4. CASE PrintAnswer
  BY <1>1, <1>4, PrintFlows
<1>5. CASE \/ ServerTurn \/ ClientTurn \/ ConnectsDone \/ SendsDone
           \/ \E p \in Ports : Accept(p) \/ ClientConnect(p) \/ ClientTimeout(p)
  BY <1>1, <1>5, TurnFlows
<1>6. CASE \E f \in Fds : Hello(f)
  BY <1>1, <1>6, HelloFlows
<1>7. ASSUME NEW c \in Conns, Reset(c) PROVE FlowInv'
  <2>1. /\ broken \subseteq broken'
        /\ UNCHANGED <<clSockets, pc, cur, msg, got, inq, sent, closed, made, cut>>
    BY <1>7 DEF Reset, procVars, histVars
  <2>2. HandsInv'
    BY <2>1 DEF FlowInv, HandsInv
  <2> QED
    BY <1>1, <2>1, <2>2, StillFlows
<1>8. CASE UNCHANGED vars
  <2>1. UNCHANGED <<clSockets, pc, cur, msg, got, inq, sent, closed, made, cut, broken>>
    BY <1>8 DEF vars, procVars, netVars, histVars
  <2>2. HandsInv'
    BY <2>1 DEF FlowInv, HandsInv
  <2> QED
    BY <1>1, <2>1, <2>2, StillFlows
<1> QED
  BY <1>2, <1>3, <1>4, <1>5, <1>6, <1>7, <1>8 DEF Next, Server, Client

\* TcpServer.cpp: every message the client has sent is printed, on its way back, being
\* answered or on its way to the server, in the order of the sends; none is lost,
\* repeated or reordered on a connection that was not reset and on which no send was
\* cut short, although a connect that timed out may be accepted, descriptors are
\* used again and the server erases closed sockets with what it has read from them.
THEOREM MessagesAreKept == Spec => []NothingLost
<1>1. Init => FlowInv
  BY InitFlows
<1>2. FlowInv /\ [Next]_vars => FlowInv'
  BY NextFlows
<1>3. FlowInv => NothingLost
  BY DEF FlowInv, Whole, Path, Cat, NothingLost
<1> QED
  BY <1>1, <1>2, <1>3, PTL DEF Spec
=============================================================================
