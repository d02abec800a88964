------------------------------ MODULE KvReactor ------------------------------
(* kv_store: one thread turns an edge-triggered epoll loop (ReactorServer) that *)
(* accepts connections (KVTcpServer), reads them (KVTcpClient) and takes        *)
(* commands out of what they sent (ProtocolHelper::analysis).  A command is a   *)
(* header line with the length of the body, then the body.                      *)
(*                                                                              *)
(* The byte stream is a sequence of units: a header line is one, a line of a    *)
(* body is text and an end of line.  A descriptor is named by its client; the   *)
(* send half of the loop is left out: every descriptor is registered for        *)
(* reading only and no code fills _sendBuffer.                                   *)
EXTENDS Integers, Sequences, SequencesExt, FiniteSets

CONSTANTS
  Clients,
  Words,      \* the words in the bodies of commands
  Commands,   \* Commands[c]: the bodies of the commands c sends, sequences of units
  MayReset    \* the clients that may reset their connection instead of closing it

\* Units: a header line, a part of a line, the end of a line.
HeaderLine(n) == [t |-> "header", n |-> n]
Text(w) == [t |-> "text", w |-> w]
EndOfLine == [t |-> "eol"]
BodyUnits == {Text(w) : w \in Words} \cup {EndOfLine}

ASSUME CommandsAssumption == \A c \in Clients : Commands[c] \in Seq(Seq(BodyUnits))

Stream(c) ==
  FlattenSeq([i \in DOMAIN Commands[c] |->
                <<HeaderLine(Len(Commands[c][i]))>> \o Commands[c][i]])

VARIABLES
  conn,         \* conn[c]: "none", "queued", "open" or "closed", as the server sees it
  sent,         \* sent[c]: units of Stream(c) that c has sent
  sock,         \* sock[c]: received by the kernel, not yet read
  bye,          \* bye[c]: "no", "fin" or "rst", what ended c's sending
  backlog,      \* connections waiting for accept
  edge,         \* descriptors with an edge that epoll_wait has not reported
  batch,        \* events of the current epoll_wait still to be handled
  eventMap,     \* keys of _eventMap (registered with epoll as well)
  recvBuffer,   \* _recvBuffer of every client
  handled,      \* handled[c]: the commands given to getCommand
  mixed,        \* clients that had a buffer analysed that was not one whole command
  burst,        \* a connection arrived while another one waited for accept
  down          \* why the process ended: "no", "overrun", "command" or "error"

kvVars == <<conn, sent, sock, bye, backlog, edge, batch, eventMap, recvBuffer,
            handled, mixed, burst, down>>

Listen == "listenFD"

KvInit ==
  /\ conn = [c \in Clients |-> "none"]
  /\ sent = [c \in Clients |-> 0]
  /\ sock = [c \in Clients |-> <<>>]
  /\ bye = [c \in Clients |-> "no"]
  /\ backlog = <<>>
  /\ edge = {} /\ batch = {} /\ eventMap = {}
  /\ recvBuffer = [c \in Clients |-> <<>>]
  /\ handled = [c \in Clients |-> <<>>]
  /\ mixed = {} /\ burst = FALSE /\ down = "no"

---------------------------------------------------------------------------
(* ProtocolHelper::analysis                                                   *)

\* getLine: the length of the first line of rest, 0 if it has no end yet.
LineLen(rest) ==
  IF \E i \in DOMAIN rest : rest[i].t # "text"
  THEN CHOOSE i \in DOMAIN rest :
         rest[i].t # "text" /\ \A j \in 1 .. i - 1 : rest[j].t = "text"
  ELSE 0

\* atoi of a line that is no header gives 0.
Atoi(line) == IF line[1].t = "header" THEN line[1].n ELSE 0

\* getCommand falls off its end for a command it knows: what happens then is
\* undefined.  An unknown or empty one is dropped.
KnownWords == {"Get", "Set", "Del", "Exist"}
Known(command) == Len(command) >= 2 /\ command[1] \in {Text(w) : w \in KnownWords}

\* Mutant: data and size move on by one unit more.
AnalyseLineTwice(msg, st) ==
  LET line == LineLen(SubSeq(msg, st.data + 1, st.data + st.size))
      pos == st.pos + line
      data == st.data + pos + 1
      size == st.size - pos - 1
      len == Atoi(SubSeq(msg, st.data + 1, st.data + line))
  IN  IF st.end \/ st.pos >= st.size \/ line = 0 THEN [st EXCEPT !.end = TRUE]
      ELSE IF size < 0 THEN [st EXCEPT !.end = TRUE, !.overrun = TRUE]
      ELSE IF size < len THEN [st EXCEPT !.pos = pos, !.end = TRUE]
      ELSE [st EXCEPT !.pos = pos + len, !.data = data, !.size = size,
                      !.commands = Append(@, SubSeq(msg, data + 1, data + len))]
\* One turn of the loop.  After the first command, data has moved by the header
\* only, and from then on it moves by all of currentPos; a size below zero wraps
\* and data points behind the buffer.
Analyse(msg, st) ==
  LET line == LineLen(SubSeq(msg, st.data + 1, st.data + st.size))
      pos == st.pos + line
      data == st.data + pos
      size == st.size - pos
      len == Atoi(SubSeq(msg, st.data + 1, st.data + line))
  IN  IF st.end \/ st.pos >= st.size \/ line = 0 THEN [st EXCEPT !.end = TRUE]
      ELSE IF size < 0 THEN [st EXCEPT !.end = TRUE, !.overrun = TRUE]
      ELSE IF size < len THEN [st EXCEPT !.pos = pos, !.end = TRUE]
      ELSE [st EXCEPT !.pos = pos + len, !.data = data, !.size = size,
                      !.commands = Append(@, SubSeq(msg, data + 1, data + len))]

\* The commands taken out of msg, the size consumed, and whether it read behind it.
analysis(msg) ==
  LET turn[i \in 0 .. Len(msg) + 1] ==
        IF i = 0 THEN [pos |-> 0, data |-> 0, size |-> Len(msg), end |-> FALSE,
                       overrun |-> FALSE, commands |-> <<>>]
        ELSE Analyse(msg, turn[i - 1])
  IN  turn[Len(msg) + 1]

WholeCommand(c, msg) ==
  \/ msg = <<>>
  \/ LET n == Len(handled[c]) IN
       n < Len(Commands[c]) /\ msg = <<HeaderLine(Len(Commands[c][n + 1]))>> \o Commands[c][n + 1]

---------------------------------------------------------------------------
(* The clients and the kernel                                                 *)

Connect(c) ==
  /\ conn[c] = "none"
  /\ conn' = [conn EXCEPT ![c] = "queued"]
  /\ backlog' = Append(backlog, c)
  /\ burst' = (burst \/ backlog # <<>>)
  /\ edge' = edge \cup {Listen}
  /\ UNCHANGED <<sent, sock, bye, batch, eventMap, recvBuffer, handled, mixed, down>>

\* A segment with any number of units, wherever that cuts the commands.
Send(c) ==
  /\ conn[c] \in {"queued", "open"} /\ bye[c] = "no"
  /\ \E n \in 1 .. Len(Stream(c)) - sent[c] :
       /\ sent' = [sent EXCEPT ![c] = @ + n]
       /\ sock' = [sock EXCEPT ![c] = @ \o SubSeq(Stream(c), sent[c] + 1, sent[c] + n)]
  /\ edge' = IF c \in eventMap THEN edge \cup {c} ELSE edge
  /\ UNCHANGED <<conn, bye, backlog, batch, eventMap, recvBuffer, handled, mixed, burst, down>>

Leave(c) ==
  /\ conn[c] \in {"queued", "open"} /\ bye[c] = "no"
  /\ \E b \in {"fin"} \cup (IF c \in MayReset THEN {"rst"} ELSE {}) :
       /\ bye' = [bye EXCEPT ![c] = b]
       /\ sock' = IF b = "rst" THEN [sock EXCEPT ![c] = <<>>] ELSE sock
  /\ edge' = IF c \in eventMap THEN edge \cup {c} ELSE edge
  /\ UNCHANGED <<conn, sent, backlog, batch, eventMap, recvBuffer, handled, mixed, burst, down>>

---------------------------------------------------------------------------
(* ReactorServer::doRun                                                       *)

Readable(fd) ==
  IF fd = Listen THEN backlog # <<>> ELSE sock[fd] # <<>> \/ bye[fd] # "no"

\* epoll_wait reports every edge whose descriptor is still readable, once.
EpollWait ==
  /\ batch = {} /\ down = "no"
  /\ batch' = {fd \in edge : Readable(fd)}
  /\ batch' # {}
  /\ edge' = {}
  /\ UNCHANGED <<conn, sent, sock, bye, backlog, eventMap, recvBuffer, handled, mixed, burst, down>>

\* Registering a descriptor that is readable already makes an edge.
AddEventObj(c) ==
  /\ eventMap' = eventMap \cup {c}
  /\ edge' = IF Readable(c) THEN edge \cup {c} ELSE edge

RemoveEventObj(c) == eventMap' = eventMap \ {c} /\ edge' = edge \ {c}

HappenError(c) == conn' = [conn EXCEPT ![c] = "closed"]
CloseImp(c) == RemoveEventObj(c) /\ conn' = [conn EXCEPT ![c] = "closed"]

\* Mutant: a descriptor that is readable when it is registered makes no edge.
AcceptWithoutEdge ==
  /\ Listen \in batch /\ down = "no" /\ backlog # <<>>
  /\ batch' = batch \ {Listen}
  /\ backlog' = Tail(backlog)
  /\ conn' = [conn EXCEPT ![Head(backlog)] = "open"]
  /\ eventMap' = eventMap \cup {Head(backlog)}
  /\ UNCHANGED <<sent, sock, bye, edge, recvBuffer, handled, mixed, burst, down>>

\* One accept per event, onAccept, acceptImp and addEventObj.
OnAccept ==
  /\ Listen \in batch /\ down = "no"
  /\ batch' = batch \ {Listen}
  /\ IF backlog = <<>> THEN UNCHANGED <<backlog, conn, eventMap, edge>>
     ELSE LET c == Head(backlog) IN
          /\ backlog' = Tail(backlog)
          /\ conn' = [conn EXCEPT ![c] = "open"]
          /\ AddEventObj(c)
  /\ UNCHANGED <<sent, sock, bye, recvBuffer, handled, mixed, burst, down>>

\* recvImp: the commands in the buffer, and what is cut off its front.
RecvImp(c, msg) ==
  LET a == analysis(msg) IN
  /\ recvBuffer' = [recvBuffer EXCEPT ![c] = SubSeq(msg, a.pos + 1, Len(msg))]
  /\ handled' = [handled EXCEPT ![c] = @ \o a.commands]
  /\ mixed' = IF WholeCommand(c, msg) THEN mixed ELSE mixed \cup {c}
  /\ IF a.overrun THEN down' = "overrun"
     ELSE IF \E i \in DOMAIN a.commands : Known(a.commands[i])
     THEN down' \in {"no", "command"}
     ELSE down' = "no"

\* Mutant: no return after onClose: the closed descriptor is read once more.
RecvAfterClose(c) ==
  /\ c \in batch /\ down = "no"
  /\ batch' = batch \ {c} /\ edge' = edge \ {c}
  /\ \/ RecvImp(c, recvBuffer[c] \o sock[c]) /\ bye[c] # "fin"
     \/ bye[c] = "fin" /\ down' = "error" /\ UNCHANGED <<recvBuffer, handled, mixed>>
  /\ sock' = [sock EXCEPT ![c] = <<>>]
  /\ UNCHANGED <<conn, sent, bye, backlog, eventMap, burst>>

\* onRecv reads until EWOULDBLOCK, or until 0: then recvImp, onClose and closeImp.
\* Any other error closes the descriptor and goes on to append(buffer, -1).
OnRecv(c) ==
  /\ c \in batch /\ down = "no"
  /\ batch' = batch \ {c}
  /\ IF bye[c] = "rst"
     THEN /\ HappenError(c)
          /\ down' = "error"
          /\ UNCHANGED <<sock, eventMap, recvBuffer, handled, mixed, edge>>
     ELSE /\ RecvImp(c, recvBuffer[c] \o sock[c])
          /\ sock' = [sock EXCEPT ![c] = <<>>]
          /\ IF bye[c] = "fin" THEN CloseImp(c) ELSE UNCHANGED <<conn, eventMap, edge>>
  /\ UNCHANGED <<sent, bye, backlog, burst>>

KvServer == EpollWait \/ OnAccept \/ \E c \in Clients : OnRecv(c)
KvNext == (\E c \in Clients : Connect(c) \/ Send(c) \/ Leave(c)) \/ KvServer

\* The thread turns its loop for ever (weak fairness of KvServer; ServerCan is
\* its ENABLED).
ServerCan == down = "no" /\ (batch # {} \/ \E fd \in edge : Readable(fd))
KvSpec ==
  /\ KvInit /\ [][KvNext]_kvVars
  /\ []<>~ServerCan \/ []<><<KvServer>>_kvVars

---------------------------------------------------------------------------
\* Commands are handled as they were sent, and none is left in the buffer, for as
\* long as every read finds exactly one: a command in two segments loses its
\* header, and after the first of two commands the next line is taken for a header.
FramesKept ==
  \A c \in Clients \ mixed :
    IsPrefix(handled[c], Commands[c]) /\ recvBuffer[c] = <<>>

\* The process ends only for a reset connection (append with size -1), for a
\* command it knows (getCommand has no return) or for a read that did not find
\* exactly one command (data runs behind the buffer): never for a client that
\* sends whole unknown commands and closes.
EndsOnlyForCause ==
  /\ down = "error" => \E c \in MayReset : bye[c] = "rst"
  /\ down = "overrun" => mixed # {}
  /\ down = "command" => \E c \in Clients : \E i \in DOMAIN handled[c] : Known(handled[c][i])

\* No edge is lost on a connection: what it has sent is read and its end noticed,
\* once it is accepted; and it is accepted, though every event accepts only one,
\* unless connections came in a burst.
EveryoneServed ==
  \A c \in Clients :
    [](conn[c] = "queued" => <>(conn[c] # "queued" \/ burst \/ down # "no"))
    /\ [](conn[c] = "open" /\ Readable(c) => <>(~ Readable(c) \/ conn[c] = "closed" \/ down # "no"))
=============================================================================
