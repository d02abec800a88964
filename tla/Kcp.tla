-------------------------------- MODULE Kcp --------------------------------
(* KcpUdp: the reliable protocol of ikcp.c as main.cpp drives it.  Two        *)
(* processes run main's loop; each owns one control block (IKCPCB) and one    *)
(* UDP socket.  One turn of the loop is one action: flush if the time has     *)
(* come, read the socket until it is empty and hand the bytes to ikcp_input,  *)
(* take every complete message with ikcp_recv, queue one more message.        *)
(*                                                                            *)
(* Sizes are those of the code, in bytes or scaled; a payload is the number   *)
(* of its message.  Time is abstracted to timers that expire: KcpClock.tla    *)
(* models the clock itself.  state (dead_link), xmit (the control block's     *)
(* counter) and the log are written and never read here; stream mode and      *)
(* nocwnd are off in this program.                                            *)
EXTENDS Integers, Sequences, SequencesExt, Bags, FiniteSetsExt

CONSTANTS
  Peers,      \* the two processes
  Runs,       \* how the two may be started and disturbed: [msgs, len, faults], see run
  SndWnd,     \* IKCP_WND_SND
  RcvWnd,     \* IKCP_WND_RCV
  Mtu,        \* IKCP_MTU_DEF, 1400 bytes
  Overhead,   \* IKCP_OVERHEAD, the 24 bytes of a segment's header
  RecvBuf,    \* the 1024 bytes main gives recvfrom and ikcp_recv
  Strays,     \* what a parse that has lost the segments' borders may take for headers
  Resend,     \* kcp->fastresend
  FastLimit,  \* kcp->fastlimit
  NetCap      \* bound: datagrams under way to one peer

ASSUME PeersAssumption == \E a, b \in Peers : a # b /\ Peers = {a, b}
ASSUME SizesAssumption ==
  /\ {SndWnd, RcvWnd, Resend, FastLimit, Overhead, Mtu, RecvBuf} \subseteq Nat \ {0}
  /\ Overhead <= RecvBuf /\ RecvBuf < Mtu - Overhead

\* kcp->mss
Mss == Mtu - Overhead

\* A segment: its header and, for msg, what its payload belongs to.
NoData == 0     \* no payload
Torn == -1      \* a payload completed by the bytes of another datagram
Stray == -2     \* the header, too, is made of bytes that were not sent as one
Headers ==
  [cmd : {"ACK", "PUSH", "WASK", "WINS"}, frg : Nat, wnd : Nat, sn : Nat, una : Nat,
   len : Nat, msg : {Stray}]
ASSUME StraysAssumption == Strays \subseteq Seq(Headers)
\* The loop sends argv[4] over and over; it is not empty.
ASSUME RunsAssumption == \A r \in Runs : r.len \in [Peers -> Nat \ {0}]

VARIABLES
  kcp,       \* kcp[p]: p's control block
  run,       \* run.msgs[p]: how many messages p's loop queues (bound: the code never
             \* stops); run.len[p]: the length of p's argv[4];
             \* run.faults (bound): what the network may lose, duplicate or delay
  queued,    \* queued[p]: messages p has given to ikcp_send
  printed,   \* printed[p]: what p has printed, message numbers of the other peer
  net,       \* net[p]: bag of datagrams on their way to p
  read,      \* history: the worst p has read so far, "clean", "torn" or "shifted"
  faults     \* datagrams lost or duplicated and early timeouts so far

vars == <<kcp, run, queued, printed, net, read, faults>>

Other(p) == CHOOSE q \in Peers : q # p
Least(a, b) == IF a <= b THEN a ELSE b
Most(a, b) == IF a >= b THEN a ELSE b

---------------------------------------------------------------------------
(* The control block.  snd_buf and rcv_buf are kept by sequence number.       *)

ikcp_create ==
  [snd_una |-> 0, snd_nxt |-> 0, rcv_nxt |-> 0, rmt_wnd |-> RcvWnd,
   cwnd |-> 0, incr |-> 0, ssthresh |-> 2, tell |-> FALSE, probe |-> "off",
   snd_queue |-> <<>>, snd_buf |-> <<>>, rcv_queue |-> <<>>, rcv_buf |-> {},
   acklist |-> <<>>]

\* ikcp_send in message mode: one segment per fragment, numbered downwards; a
\* message of as many fragments as the window is refused (-2, main does not look).
Fragments(p) == IF run.len[p] <= Mss THEN 1 ELSE (run.len[p] + Mss - 1) \div Mss
Fragment(p, i, m) ==
  [frg |-> Fragments(p) - i, len |-> Least(run.len[p] - (i - 1) * Mss, Mss), msg |-> m]
ikcp_send(k, p, m) ==
  IF Fragments(p) >= RcvWnd THEN k
  ELSE [k EXCEPT !.snd_queue = @ \o [i \in 1 .. Fragments(p) |-> Fragment(p, i, m)]]

\* The segments of rcv_buf that are next in order, as far as rcv_queue has room.
Deliverable(k) ==
  Max({n \in 0 .. RcvWnd - Len(k.rcv_queue) :
         \A i \in 0 .. n - 1 : \E s \in k.rcv_buf : s.sn = k.rcv_nxt + i} \cup {0})
\* Mutant: whatever has arrived is handed on, the gap before it forgotten.
MoveAll(k) ==
  LET segs == SetToSortSeq(k.rcv_buf, LAMBDA s, t : s.sn < t.sn)
  IN  IF segs = <<>> THEN k
      ELSE [k EXCEPT !.rcv_queue = @ \o segs, !.rcv_buf = {}, !.rcv_nxt = Last(segs).sn + 1]
NextSeg(k, i) == CHOOSE s \in k.rcv_buf : s.sn = k.rcv_nxt + i - 1
MoveInOrder(k) ==
  LET n == Deliverable(k)
  IN  [k EXCEPT !.rcv_queue = @ \o [i \in 1 .. n |-> NextSeg(k, i)],
                !.rcv_buf = {s \in @ : s.sn >= k.rcv_nxt + n},
                !.rcv_nxt = @ + n]

\* How many segments the message at the head of rcv_queue takes, and its length.
Taken(segs) == Min({n \in DOMAIN segs : segs[n].frg = 0} \cup {Len(segs)})
Length(segs) ==
  LET upto[i \in 0 .. Len(segs)] == IF i = 0 THEN 0 ELSE upto[i - 1] + segs[i].len
  IN  upto[Taken(segs)]

\* ikcp_peeksize >= 0: the head of rcv_queue starts a message that is complete.
Complete(k) ==
  /\ k.rcv_queue # <<>>
  /\ Len(k.rcv_queue) >= Head(k.rcv_queue).frg + 1

\* One ikcp_recv(kcpcb, buffer, 1024): it fails on an incomplete message (-1, -2)
\* and on one that is too long (-3).  A message of several fragments always is.
ikcp_recv(st) ==
  LET k == st.k
      n == Taken(k.rcv_queue)
      k1 == MoveInOrder([k EXCEPT !.rcv_queue = SubSeq(@, n + 1, Len(@))])
      recover == Len(k.rcv_queue) >= RcvWnd /\ Len(k1.rcv_queue) < RcvWnd
  IN  IF ~ Complete(k) \/ Length(k.rcv_queue) > RecvBuf THEN st
      ELSE [k |-> [k1 EXCEPT !.tell = @ \/ recover],
            out |-> Append(st.out, Head(k.rcv_queue).msg)]

\* main's loop around ikcp_recv: it ends at the first failure.
RecvAll(k) ==
  LET got[i \in 0 .. 2 * RcvWnd] ==
        IF i = 0 THEN [k |-> k, out |-> <<>>] ELSE ikcp_recv(got[i - 1])
  IN  got[2 * RcvWnd]

---------------------------------------------------------------------------
(* ikcp_input                                                                 *)

ikcp_shrink_buf(k) ==
  [k EXCEPT !.snd_una = IF k.snd_buf = <<>> THEN k.snd_nxt ELSE Head(k.snd_buf).sn]

\* How many segments at the front of buf are numbered below una.
Before(buf, una) == Max({n \in 0 .. Len(buf) : \A i \in 1 .. n : buf[i].sn < una})

\* Mutant: una is taken for the last segment received, not the next expected.
UnaInclusive(k, una) ==
  [k EXCEPT !.snd_buf = SubSeq(@, Before(@, una + 1) + 1, Len(@))]
ikcp_parse_una(k, una) ==
  [k EXCEPT !.snd_buf = SubSeq(@, Before(@, una) + 1, Len(@))]

ValidAck(k, sn) == sn >= k.snd_una /\ sn < k.snd_nxt

ikcp_parse_ack(k, sn) ==
  IF ValidAck(k, sn) /\ \E i \in DOMAIN k.snd_buf : k.snd_buf[i].sn = sn
  THEN [k EXCEPT !.snd_buf = RemoveAt(@, CHOOSE i \in DOMAIN @ : @[i].sn = sn)]
  ELSE k

\* Every segment older than the highest one acknowledged was skipped once more.
\* (fastack counts on without a limit; only fastack >= Resend is ever asked.)
PassedOver(s, sn) ==
  IF s.sn < sn THEN [s EXCEPT !.fastack = Least(@ + 1, Resend)] ELSE s
ikcp_parse_fastack(k, sn) ==
  IF ValidAck(k, sn)
  THEN [k EXCEPT !.snd_buf = [i \in DOMAIN @ |-> PassedOver(@[i], sn)]]
  ELSE k

ikcp_parse_data(k, h) ==
  IF h.sn >= k.rcv_nxt + RcvWnd \/ h.sn < k.rcv_nxt THEN k
  ELSE MoveInOrder(
         IF \E s \in k.rcv_buf : s.sn = h.sn THEN k
         ELSE [k EXCEPT !.rcv_buf =
                 @ \cup {[sn |-> h.sn, frg |-> h.frg, len |-> h.len, msg |-> h.msg]}])

\* Mutant: a segment that has been received before is not acknowledged again.
AckFirstOnly(k, sn) == IF sn >= k.rcv_nxt THEN [k EXCEPT !.acklist = Append(@, sn)] ELSE k
ikcp_ack_push(k, sn) == [k EXCEPT !.acklist = Append(@, sn)]

\* One segment: the part every command shares, then the command's own.
Segment(k, h) ==
  LET k1 == ikcp_shrink_buf(ikcp_parse_una([k EXCEPT !.rmt_wnd = h.wnd], h.una))
  IN  CASE h.cmd = "ACK" -> ikcp_shrink_buf(ikcp_parse_ack(k1, h.sn))
        [] h.cmd = "PUSH" ->
             IF h.sn < k1.rcv_nxt + RcvWnd
             THEN ikcp_parse_data(ikcp_ack_push(k1, h.sn), h)
             ELSE k1
        [] h.cmd = "WASK" -> [k1 EXCEPT !.tell = TRUE]
        [] h.cmd = "WINS" -> k1

\* The congestion window after snd_una has moved: slow start below ssthresh,
\* then by parts of a segment, never above the peer's window.
GrowWindow(k) ==
  LET slow == k.cwnd < k.ssthresh
      incr0 == Most(k.incr, Mss)
      incr == IF slow THEN k.incr + Mss
              ELSE incr0 + (Mss * Mss) \div incr0 + Mss \div 16
      cwnd == IF slow THEN k.cwnd + 1
              ELSE IF (k.cwnd + 1) * Mss <= incr THEN (incr + Mss - 1) \div Mss
              ELSE k.cwnd
  IN  IF k.cwnd >= k.rmt_wnd THEN k
      ELSE [k EXCEPT !.cwnd = Least(cwnd, k.rmt_wnd),
                     !.incr = IF cwnd > k.rmt_wnd THEN k.rmt_wnd * Mss ELSE incr]

\* ikcp_input of bytes that parse into segs.  A parse that fails (-1 on the conv,
\* -3 on the command) or that ends inside a segment (-2) returns before the
\* fast-ack count and the congestion window.
InputSegment(st, h) ==
  [k |-> Segment(st.k, h), maxack |-> IF h.cmd = "ACK" THEN Most(st.maxack, h.sn) ELSE st.maxack]
ikcp_input(k, segs, fails) ==
  LET parsed[i \in 0 .. Len(segs)] ==
        IF i = 0 THEN [k |-> k, maxack |-> -1] ELSE InputSegment(parsed[i - 1], segs[i])
      st == parsed[Len(segs)]
      k1 == IF st.maxack < 0 THEN st.k ELSE ikcp_parse_fastack(st.k, st.maxack)
  IN  IF fails THEN st.k
      ELSE IF k1.snd_una > k.snd_una THEN GrowWindow(k1)
      ELSE k1

---------------------------------------------------------------------------
(* ikcp_flush                                                                 *)

ikcp_wnd_unused(k) == Most(RcvWnd - Len(k.rcv_queue), 0)

Header(k, cmd, sn) ==
  [cmd |-> cmd, frg |-> 0, wnd |-> ikcp_wnd_unused(k), sn |-> sn, una |-> k.rcv_nxt,
   len |-> 0, msg |-> NoData]

\* A datagram is a sequence of segments.  Sizes(d)[n]: its first n segments' size.
Sizes(d) ==
  LET upto[n \in 0 .. Len(d)] == IF n = 0 THEN 0 ELSE upto[n - 1] + Overhead + d[n].len
  IN  upto

\* ikcp_output whenever the next segment does not fit in the datagram.
PackSeg(st, s) ==
  IF Sizes(st.cur)[Len(st.cur)] + Overhead + s.len > Mtu
  THEN [out |-> Append(st.out, st.cur), cur |-> <<s>>]
  ELSE [st EXCEPT !.cur = Append(@, s)]
Pack(segs) ==
  LET packed[i \in 0 .. Len(segs)] ==
        IF i = 0 THEN [out |-> <<>>, cur |-> <<>>] ELSE PackSeg(packed[i - 1], segs[i])
      st == packed[Len(segs)]
  IN  IF st.cur = <<>> THEN st.out ELSE Append(st.out, st.cur)

\* The window probe: armed when the peer's window is zero, sent when its timer
\* (7 s and more) has run out.
ProbeNext(k) == IF k.rmt_wnd # 0 THEN "off" ELSE "armed"
ProbeSent(k) == k.rmt_wnd = 0 /\ k.probe = "due"

\* snd_queue -> snd_buf, as far as the three windows allow.
Window(k) == Least(k.cwnd, Least(SndWnd, k.rmt_wnd))
\* The i-th segment that moves.
NewSeg(k, i) ==
  [sn |-> k.snd_nxt + i - 1, frg |-> k.snd_queue[i].frg, len |-> k.snd_queue[i].len,
   msg |-> k.snd_queue[i].msg, xmit |-> 0, fastack |-> 0, due |-> FALSE]
Admit(k) ==
  LET n == Least(Len(k.snd_queue), Most(k.snd_una + Window(k) - k.snd_nxt, 0))
  IN  [k EXCEPT !.snd_buf = @ \o [i \in 1 .. n |-> NewSeg(k, i)],
                !.snd_queue = SubSeq(@, n + 1, Len(@)),
                !.snd_nxt = @ + n]

First(s) == s.xmit = 0
Timeout(s) == s.xmit > 0 /\ s.due
Skipped(s) == s.xmit > 0 /\ ~ s.due /\ s.fastack >= Resend /\ s.xmit <= FastLimit
NeedSend(s) == First(s) \/ Timeout(s) \/ Skipped(s)
\* xmit counts on without a limit; only 0 and <= FastLimit are ever asked.
Resent(s) ==
  IF NeedSend(s)
  THEN [s EXCEPT !.xmit = Least(@ + 1, FastLimit + 1), !.due = FALSE,
                 !.fastack = IF Skipped(s) THEN 0 ELSE @]
  ELSE s

\* The segments of buf as they are sent, those that need it.
Push(k, s) == [Header(k, "PUSH", s.sn) EXCEPT !.frg = s.frg, !.len = s.len, !.msg = s.msg]
Pushes(k, buf) ==
  LET upto[i \in 0 .. Len(buf)] ==
        IF i = 0 THEN <<>>
        ELSE IF NeedSend(buf[i]) THEN Append(upto[i - 1], Push(k, buf[i])) ELSE upto[i - 1]
  IN  upto[Len(buf)]

\* The congestion window after a flush that resent something; a timeout wins.
Backoff(k, wnd, change, lost) ==
  LET half == Most((k.snd_nxt - k.snd_una) \div 2, 2)
      k1 == IF change
            THEN [k EXCEPT !.ssthresh = half, !.cwnd = half + Resend,
                           !.incr = (half + Resend) * Mss]
            ELSE k
      k2 == IF lost
            THEN [k1 EXCEPT !.ssthresh = Most(wnd \div 2, 2), !.cwnd = 1, !.incr = Mss]
            ELSE k1
  IN  IF k2.cwnd < 1 THEN [k2 EXCEPT !.cwnd = 1, !.incr = Mss] ELSE k2

\* The control block after the flush, and the datagrams it has output.
ikcp_flush(k) ==
  LET acks == [i \in DOMAIN k.acklist |-> Header(k, "ACK", k.acklist[i])]
      wask == IF ProbeSent(k) THEN <<Header(k, "WASK", 0)>> ELSE <<>>
      wins == IF k.tell THEN <<Header(k, "WINS", 0)>> ELSE <<>>
      k1 == Admit(k)
      k2 == [k1 EXCEPT !.acklist = <<>>, !.tell = FALSE, !.probe = ProbeNext(k),
                       !.snd_buf = [i \in DOMAIN @ |-> Resent(@[i])]]
  IN  [k |-> Backoff(k2, Window(k), \E i \in DOMAIN k1.snd_buf : Skipped(k1.snd_buf[i]),
                     \E i \in DOMAIN k1.snd_buf : Timeout(k1.snd_buf[i])),
       out |-> Pack(acks \o wask \o wins \o Pushes(k, k1.snd_buf))]

---------------------------------------------------------------------------
(* main                                                                       *)

Init ==
  /\ kcp = [p \in Peers |-> ikcp_create]
  /\ run \in Runs
  /\ queued = [p \in Peers |-> 0]
  /\ printed = [p \in Peers |-> <<>>]
  /\ net = [p \in Peers |-> EmptyBag]
  /\ read = [p \in Peers |-> "clean"]
  /\ faults = 0

\* What a round of recvfrom can find: no, one or two datagrams in any order.
Arrivals(p) ==
  {<<>>} \cup {<<d>> : d \in BagToSet(net[p])}
         \cup {s \in [1 .. 2 -> BagToSet(net[p])] :
                 (SetToBag({s[1]}) (+) SetToBag({s[2]})) \sqsubseteq net[p]}

AsBag(s) == [d \in Range(s) |-> Cardinality({i \in DOMAIN s : s[i] = d})]

\* recvfrom cuts a datagram d at the buffer's size: it leaves the first segments
\* of d whole, and perhaps the stump of another one.
Fitting(d) == Max({n \in 0 .. Len(d) : Sizes(d)[n] <= RecvBuf})
Cut(d) == Least(Sizes(d)[Len(d)], RecvBuf)
Stump(d) == Cut(d) - Sizes(d)[Fitting(d)]

\* ikcp_input of a datagram's bytes from the border behind its j-th segment on: it
\* fails on a stump that is a header and part of its payload, and ends before a
\* stump shorter than a header.
From(d, j) == [segs |-> SubSeq(d, j + 1, Fitting(d)), fails |-> Stump(d) >= Overhead]

\* o, behind segments s that were read before it.
Prefixed(s, o) == [o EXCEPT !.segs = s \o @]

\* From a place that is no border, pos bytes into d (or before d, in the stump of a
\* header): anything may be taken for headers, as the conv is a number of the
\* user's (argv[3]) and the payload his text.  It ends in a failure, at the end
\* of the bytes, or at a border again.
Astray(d, pos) ==
  IF Cut(d) - pos < Overhead THEN {[segs |-> <<>>, fails |-> FALSE]}
  ELSE [segs : Strays, fails : {TRUE}]
       \cup [segs : Strays \ {<<>>}, fails : {FALSE}]
       \cup {Prefixed(s, From(d, j)) :
                s \in Strays \ {<<>>}, j \in {n \in 1 .. Fitting(d) : Sizes(d)[n] > pos}}

\* The bytes of d behind the whole segments of another datagram and its stump: the
\* stump's header, if it is complete, takes the rest of its payload from d.
Behind(cut, d) ==
  LET t == cut[Fitting(cut) + 1]
      missing == Overhead + t.len - Stump(cut)
      borders == {n \in 0 .. Fitting(d) : Sizes(d)[n] = missing}
      rest == IF borders = {} THEN Astray(d, missing) ELSE {From(d, n) : n \in borders}
  IN  IF Stump(cut) = 0 THEN {From(d, 0)}
      ELSE IF Stump(cut) < Overhead THEN Astray(d, - Stump(cut))
      ELSE IF missing > Cut(d) THEN {[segs |-> <<>>, fails |-> TRUE]}
      ELSE {Prefixed(<<[t EXCEPT !.msg = Torn]>>, o) : o \in rest}

\* What ikcp_input makes of the datagrams read, whose bytes udpMsg joins.
Parses(s) ==
  IF Len(s) < 2 THEN {From(s[i], 0) : i \in DOMAIN s}
  ELSE {Prefixed(From(s[1], 0).segs, o) : o \in Behind(s[1], s[2])}

Spoilt(segs) ==
  IF \E i \in DOMAIN segs : segs[i].msg = Stray THEN "shifted"
  ELSE IF \E i \in DOMAIN segs : segs[i].msg = Torn THEN "torn"
  ELSE "clean"
Worse(x, y) == IF "shifted" \in {x, y} THEN "shifted" ELSE IF "torn" \in {x, y} THEN "torn" ELSE "clean"

\* One turn of main's loop.  The first turn flushes (nextUpdate is 0); ikcp_input
\* is called if anything was read.
Turn(p, flush, s) ==
  LET q == Other(p)
      more == queued[p] < run.msgs[p]
  IN  \E f \in {IF flush THEN ikcp_flush(kcp[p]) ELSE [k |-> kcp[p], out |-> <<>>]} :
      \E o \in IF s = <<>> THEN {[segs |-> <<>>, fails |-> TRUE]} ELSE Parses(s) :
      \E r \in {RecvAll(ikcp_input(f.k, o.segs, o.fails))} :
        /\ flush \/ kcp[p].cwnd > 0
        /\ BagCardinality(net[q]) + Len(f.out) <= NetCap
        /\ kcp' = [kcp EXCEPT ![p] = IF more THEN ikcp_send(r.k, p, queued[p] + 1) ELSE r.k]
        /\ queued' = [queued EXCEPT ![p] = IF more THEN @ + 1 ELSE @]
        /\ printed' = [printed EXCEPT ![p] = @ \o r.out]
        /\ net' = [net EXCEPT ![p] = @ (-) AsBag(s), ![q] = @ (+) AsBag(f.out)]
        /\ read' = [read EXCEPT ![p] = Worse(@, Spoilt(o.segs))]
        /\ UNCHANGED <<run, faults>>

Loop(p) == \E flush \in BOOLEAN, s \in Arrivals(p) : Turn(p, flush, s)

\* The clock passes the resendts of a segment.  A timeout (100 ms and more) is
\* longer than a flush interval and the way of a datagram: one that runs out while
\* a datagram or an acknowledgement is still to come counts as a fault.  The probe's
\* 7 s and more are never that short.
Quiet == \A p \in Peers : net[p] = EmptyBag /\ kcp[p].acklist = <<>>
SegmentDue(p, i) ==
  /\ i \in DOMAIN kcp[p].snd_buf
  /\ kcp[p].snd_buf[i].xmit > 0 /\ ~ kcp[p].snd_buf[i].due
  /\ Quiet \/ faults < run.faults
  /\ faults' = IF Quiet THEN faults ELSE faults + 1
  /\ kcp' = [kcp EXCEPT ![p].snd_buf[i].due = TRUE]
  /\ UNCHANGED <<run, queued, printed, net, read>>

ProbeDue(p) ==
  /\ kcp[p].probe = "armed" /\ Quiet
  /\ kcp' = [kcp EXCEPT ![p].probe = "due"]
  /\ UNCHANGED <<run, queued, printed, net, read, faults>>

\* UDP loses datagrams and duplicates them.
Lose(p, d) ==
  /\ faults < run.faults
  /\ net' = [net EXCEPT ![p] = @ (-) SetToBag({d})]
  /\ faults' = faults + 1
  /\ UNCHANGED <<kcp, run, queued, printed, read>>

Duplicate(p, d) ==
  /\ faults < run.faults
  /\ BagCardinality(net[p]) < NetCap
  /\ net' = [net EXCEPT ![p] = @ (+) SetToBag({d})]
  /\ faults' = faults + 1
  /\ UNCHANGED <<kcp, run, queued, printed, read>>

Next ==
  \E p \in Peers :
    \/ Loop(p)
    \/ \E i \in 1 .. SndWnd : SegmentDue(p, i)
    \/ ProbeDue(p)
    \/ \E d \in BagToSet(net[p]) : Lose(p, d) \/ Duplicate(p, d)

Spec == Init /\ [][Next]_vars

\* What fairness is about: a turn that flushes, and one that reads all there is.
Flushes(p) == Turn(p, TRUE, <<>>)
ReadsAll(p) == \E s \in Arrivals(p) : AsBag(s) = net[p] /\ Turn(p, FALSE, s)

---------------------------------------------------------------------------
(* What the protocol promises over a network that loses, duplicates, reorders  *)
(* and delays.                                                                 *)

\* What a process prints is what the other one queued: every message once and in
\* order.  The exceptions are main's doing: recvfrom cuts a datagram of up to Mtu
\* bytes at RecvBuf and udpMsg appends the next one to the stump.  The header of
\* one datagram may then be printed as the payload of another; and once the cut
\* was inside a header ("shifted"), anything may be taken for a message.
DeliveredInOrder ==
  \A p \in Peers : \A i \in DOMAIN printed[p] :
    \/ printed[p][i] = i /\ i <= queued[Other(p)]
    \/ printed[p][i] = Torn /\ read[p] = "torn"
    \/ read[p] = "shifted"

\* What p has sent and no longer holds, q has accepted.
Accepted(p) ==
  LET k == kcp[p]
      q == kcp[Other(p)]
      held == {k.snd_buf[i].sn : i \in DOMAIN k.snd_buf}
  IN  \A sn \in (0 .. k.snd_nxt - 1) \ held :
        sn < q.rcv_nxt \/ \E s \in q.rcv_buf : s.sn = sn

\* A segment leaves snd_buf (cumulative una or single ack, late, repeated, or from a
\* parse whose payloads are torn) only when the other side has accepted it, unless
\* a header of shifted bytes has been believed.  Whatever is read, snd_buf is in
\* order and neither side's buffers outgrow the windows they announce.
ForgetsOnlyAccepted ==
  \A p \in Peers :
    LET k == kcp[p] IN
      /\ read[p] # "shifted" => Accepted(p)
      /\ \A i, j \in DOMAIN k.snd_buf : i < j => k.snd_buf[i].sn < k.snd_buf[j].sn
      /\ k.snd_nxt - k.snd_una <= SndWnd
      /\ Len(k.rcv_queue) <= RcvWnd
      /\ \A s \in k.rcv_buf : s.sn - k.rcv_nxt \in 0 .. RcvWnd - 1

\* Every message that fits the reader's buffer together with its header is printed
\* in the end, once and in order if no stump was completed by another datagram,
\* also when the other direction is blocked for good by a message that is too
\* long: unless a header of shifted bytes has been believed on either side.
EveryMessagePrinted ==
  \A p \in Peers :
    LET q == Other(p) IN
      <>[](\/ Overhead + run.len[p] > RecvBuf
           \/ "shifted" \in {read[p], read[q]}
           \/ /\ Len(printed[q]) = run.msgs[p]
              /\ read[q] = "clean" => printed[q] = [i \in 1 .. run.msgs[p] |-> i])
============================================================================
