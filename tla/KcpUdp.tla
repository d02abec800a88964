------------------------------- MODULE KcpUdp -------------------------------
(* The KcpUdp program for the model checker: the protocol between two          *)
(* processes (Kcp) and the clock of one of them (KcpClock), one at a time.      *)
EXTENDS Kcp, KcpClock, TLC

CONSTANTS a, b

MCPeers == {a, b}
Started(ma, la, mb, lb, n) ==
  [msgs |-> (a :> ma) @@ (b :> mb), len |-> (a :> la) @@ (b :> lb), faults |-> n]

\* Of a datagram the reader takes one segment of 1 .. 3 bytes whole.  Three short
\* messages one way for the fast retransmission; messages whose second segment is
\* cut inside its header (2) or its payload (1, 3); single segments that are always
\* cut, one that can be printed when it has been completed (4) and one that cannot
\* (6); two fragments (7) against a short message, for the window that shuts; and
\* nothing to send, in the behaviours that are about the clock.
ClockOnly == Started(0, 1, 0, 1, 0)
MCRuns == {Started(3, 1, 0, 1, 2), Started(3, 2, 1, 3, 2), Started(1, 2, 1, 4, 2),
           Started(1, 2, 2, 6, 2), Started(1, 1, 2, 7, 2), ClockOnly}

\* Headers of shifted bytes: una is what another header says somewhere, sn within the
\* receive window and far beyond it.
Shifted(cmd, sn, una) ==
  [cmd |-> cmd, frg |-> 0, wnd |-> 1, sn |-> sn, una |-> una, len |-> 1, msg |-> Stray]
MCStrays == {<<>>, <<Shifted("PUSH", 9, 9)>>, <<Shifted("PUSH", 1, 0)>>}

allVars == <<vars, clockVars>>

MCInit == Init /\ ClockInit

Protocol(A) == run # ClockOnly /\ A /\ UNCHANGED clockVars
MCNext == Protocol(Next) \/ (run = ClockOnly /\ ClockNext /\ UNCHANGED vars)

\* Both loops run for ever, so that a flush or a read that stays possible happens
\* (written without ENABLED, which is slow to evaluate here).  The clock goes on,
\* so that every timer expires: a segment's in any quiet moment, of which there is
\* one between two window probes (7 s and more apart).
CanFlush(p) ==
  LET f == ikcp_flush(kcp[p]) IN
    /\ BagCardinality(net[Other(p)]) + Len(f.out) <= NetCap
    /\ f.out # <<>> \/ f.k # kcp[p] \/ queued[p] < run.msgs[p]
CanRead(p) == kcp[p].cwnd > 0 /\ net[p] # EmptyBag
MCFairness ==
  \A p \in Peers :
    /\ []<>(~ CanFlush(p)) \/ []<><<Protocol(Flushes(p))>>_allVars
    /\ []<>(~ CanRead(p)) \/ []<><<Protocol(ReadsAll(p))>>_allVars
    /\ WF_allVars(Protocol(ProbeDue(p)))
    /\ \A i \in 1 .. SndWnd : SF_allVars(Protocol(SegmentDue(p, i)))

MCSpec == MCInit /\ [][MCNext]_allVars /\ MCFairness
=============================================================================
