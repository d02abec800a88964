------------------------------ MODULE KcpClock ------------------------------
(* When main's loop flushes: getCurrentTime truncated to an unsigned integer,  *)
(* the test against nextUpdate, ikcp_update and ikcp_check.  A turn of the loop *)
(* is one action; the clock moves by 1 .. MaxStep ticks between two turns.      *)
EXTENDS Integers, FiniteSets

CONSTANTS
  W,         \* bits of IUINT32 (32 in the code)
  Interval,  \* kcp->interval, in ticks
  Gap,       \* the 10000 ms beyond which ts_flush is given up
  Rtos,      \* the retransmission timeouts a segment may get
  MaxStep    \* bound: ticks between two turns

\* What there is to know of the width: 2 ^ W is twice 2 ^ (W - 1).
ASSUME WidthAssumption == 2 ^ (W - 1) \in Nat /\ 2 ^ W = 2 * 2 ^ (W - 1)
\* ikcp_nodelay keeps the interval between 10 and 5000 ms.
ASSUME TimesAssumption ==
  /\ Interval \in Nat \ {0} /\ MaxStep \in Nat \ {0} /\ Gap \in Nat /\ Rtos \subseteq Nat
  /\ Interval <= Gap /\ Gap <= 2 ^ (W - 1) /\ Interval + MaxStep <= 2 ^ (W - 1)

VARIABLES
  now,         \* the time of the last turn
  ts_flush,    \* kcp->ts_flush
  updated,     \* kcp->updated
  nextUpdate,  \* main's nextUpdate
  resendts,    \* resendts of the segments in snd_buf
  idle,        \* ticks since the last flush, counted up to Late
  overslept    \* the clock wrapped between two turns, the first not past nextUpdate

clockVars == <<now, ts_flush, updated, nextUpdate, resendts, idle, overslept>>

U(x) == x % 2 ^ W
_itimediff(later, earlier) ==
  LET d == U(later - earlier) IN IF d >= 2 ^ (W - 1) THEN d - 2 ^ W ELSE d
GaveUp(current, ts) == LET d == _itimediff(current, ts) IN d >= Gap \/ d < -Gap

Late == Interval + MaxStep

\* Mutant: the wait is added to ts_flush instead of the current time.
CheckFromFlush(current, ts, packets) ==
  LET waits == {_itimediff(t, current) : t \in packets} \cup {_itimediff(ts, current)}
      minimal == CHOOSE w \in waits : \A v \in waits : w <= v
  IN  IF minimal <= 0 THEN current
      ELSE U(ts + (IF minimal >= Interval THEN Interval ELSE minimal))

\* ikcp_check: when ikcp_update should be called next.
ikcp_check(current, ts, packets) ==
  LET ts1 == IF GaveUp(current, ts) THEN current ELSE ts
      waits == {_itimediff(t, current) : t \in packets} \cup {_itimediff(ts1, current)}
      minimal == CHOOSE w \in waits : \A v \in waits : w <= v
  IN  IF minimal <= 0 THEN current
      ELSE U(current + (IF minimal >= Interval THEN Interval ELSE minimal))

ClockInit ==
  /\ now = 0 /\ nextUpdate = 0
  /\ ts_flush = Interval /\ updated = FALSE
  /\ resendts = {}
  /\ idle = 0 /\ overslept = FALSE

\* One turn, d ticks after the last: ikcp_update if now >= nextUpdate, which
\* flushes once ts_flush is reached and moves it on, then ikcp_check.  Segments
\* may have been acknowledged since; a flush sends those that are due again and
\* new ones (bound: one segment under way).
ClockTurn(d) ==
  LET t == U(now + d)
      called == t >= nextUpdate
      ts0 == IF ~ updated \/ GaveUp(t, ts_flush) THEN t ELSE ts_flush
      flush == called /\ _itimediff(t, ts0) >= 0
      ts1 == U(ts0 + Interval)
  IN  /\ now' = t
      /\ updated' = (updated \/ called)
      /\ ts_flush' = IF ~ called THEN ts_flush
                     ELSE IF ~ flush THEN ts0
                     ELSE IF _itimediff(t, ts1) >= 0 THEN U(t + Interval) ELSE ts1
      /\ \/ ~ flush /\ resendts' \in SUBSET resendts
         \/ flush /\ resendts' \in {{}} \cup {{U(t + r)} : r \in Rtos}
         \/ flush /\ resendts' = {r \in resendts : _itimediff(t, r) < 0}
      /\ nextUpdate' = IF called THEN ikcp_check(t, ts_flush', resendts') ELSE nextUpdate
      /\ idle' = IF flush THEN 0 ELSE IF idle + d < Late THEN idle + d ELSE Late
      /\ overslept' = (~ flush /\ (overslept \/ (t < now /\ now <= nextUpdate)))

ClockNext == \E d \in 1 .. MaxStep : ClockTurn(d)
ClockSpec == ClockInit /\ [][ClockNext]_clockVars

---------------------------------------------------------------------------
\* As long as the loop turns, no more than an interval and a turn pass between two
\* flushes, though the millisecond counter wraps after 49 days: with one exception.
\* nextUpdate is compared with >= and not by _itimediff, so that a turn that comes
\* too late for a nextUpdate just below the wrap waits for the whole next round.
FlushesInTime == idle >= Late => overslept
=============================================================================
