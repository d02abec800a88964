----------------------- MODULE KcpAndKvReactorProofs ------------------------
(***************************************************************************)
(* Proofs about two programs that share nothing but this file.             *)
(*                                                                         *)
(* KcpUdp: the clock, for any width of the counter and any intervals (the  *)
(* loop flushes in time, the wrap of the counter included), and the        *)
(* protocol, for any windows, sizes of datagrams, of the reader's buffer   *)
(* and of messages, any faults of the network and anything that shifted    *)
(* bytes may be taken for (every message printed once and in order,        *)
(* nothing forgotten that the other side has not accepted, as long as no   *)
(* datagram was cut inside a header).                                      *)
(*                                                                         *)
(* The kv_store reactor, for any number of clients and any commands: what  *)
(* the parser makes of one whole command, and that the process ends for no *)
(* other reason than the ones EndsOnlyForCause names.                      *)
(***************************************************************************)
EXTENDS Kcp, KcpClock, KvReactor, FiniteSetTheorems, WellFoundedInduction, TLAPS

Half == 2 ^ (W - 1)
Full == 2 ^ W
Ticks == 0 .. Full - 1

\* What the assumptions say of the counter's range and of the intervals.
LEMMA ClockSizes ==
  /\ Half \in Nat \ {0} /\ Full = 2 * Half
  /\ Interval \in Nat \ {0} /\ MaxStep \in Nat \ {0} /\ Gap \in Nat /\ Rtos \subseteq Nat
  /\ Interval <= Gap /\ Gap <= Half /\ Interval + MaxStep <= Half
<1>1. PICK h : h = 2 ^ (W - 1)
  OBVIOUS
<1>2. h \in Nat /\ 2 ^ W = 2 * h
  BY <1>1, WidthAssumption
<1>3. /\ Interval \in Nat \ {0} /\ MaxStep \in Nat \ {0} /\ Gap \in Nat /\ Rtos \subseteq Nat
      /\ Interval <= Gap /\ Gap <= h /\ Interval + MaxStep <= h
  BY <1>1, TimesAssumption
<1>4. h # 0
  BY <1>2, <1>3
<1> QED
  BY <1>1, <1>2, <1>3, <1>4 DEF Half, Full

\* The counter wraps at most once in what the code computes with it.
LEMMA Wraps ==
  ASSUME NEW x \in Int, -Full <= x, x < 2 * Full
  PROVE  U(x) = IF x < 0 THEN x + Full ELSE IF x < Full THEN x ELSE x - Full
<1>1. PICK n : n = Full
  OBVIOUS
<1>2. n \in Nat \ {0}
  BY <1>1, ClockSizes
<1>3. U(x) = x % n
  BY <1>1 DEF U, Full
<1>4. PICK q \in Int, m \in 0 .. n - 1 : x = n * q + m /\ m = x % n
  BY <1>2
<1>5. q \in {-1, 0, 1}
  <2>1. -n <= x /\ x < 2 * n
    BY <1>1
  <2>2. q < 2
    <3>1. q >= 2 => n * q >= n * 2
      BY <1>2
    <3> QED
      BY <1>2, <1>4, <2>1, <3>1
  <2>3. q > -2
    <3>1. q <= -2 => n * q <= n * (-2)
      BY <1>2
    <3> QED
      BY <1>2, <1>4, <2>1, <3>1
  <2> QED
    BY <2>2, <2>3
<1>6. x = m - n \/ x = m \/ x = m + n
  BY <1>2, <1>4, <1>5
<1>7. n = Full
  BY <1>1
<1> QED
  BY <1>2, <1>3, <1>4, <1>6, <1>7

\* The difference of two times, the shorter way round.
LEMMA Differs ==
  ASSUME NEW s \in Ticks, NEW t \in Ticks
  PROVE  _itimediff(s, t) = IF s - t >= Half THEN s - t - Full
                            ELSE IF s - t < -Half THEN s - t + Full ELSE s - t
<1>1. PICK n, h : n = Full /\ h = Half
  OBVIOUS
<1>2. h \in Nat \ {0} /\ n = 2 * h
  BY <1>1, ClockSizes
<1>3. s \in 0 .. n - 1 /\ t \in 0 .. n - 1
  BY <1>1 DEF Ticks
<1>4. U(s - t) = IF s - t < 0 THEN s - t + n ELSE s - t
  BY <1>1, <1>2, <1>3, Wraps
<1>5. _itimediff(s, t) = IF U(s - t) >= h THEN U(s - t) - n ELSE U(s - t)
  BY <1>1 DEF _itimediff, Full, Half
<1>6. _itimediff(s, t) = IF s - t >= h THEN s - t - n
                         ELSE IF s - t < -h THEN s - t + n ELSE s - t
  BY <1>2, <1>3, <1>4, <1>5
<1> QED
  BY <1>1, <1>6

\* What the code stores is within the counter's range.
LEMMA InTicks ==
  ASSUME NEW x \in Int
  PROVE  U(x) \in Ticks
<1>1. PICK n : n = Full
  OBVIOUS
<1>2. n \in Nat \ {0}
  BY <1>1, ClockSizes
<1>3. x % n \in 0 .. n - 1
  BY <1>2
<1> QED
  BY <1>1, <1>3 DEF U, Full, Ticks

\* A set of natural numbers has a least element, and so have the waits.
LEMMA LeastNumber ==
  ASSUME NEW B, B \subseteq Nat, B # {}
  PROVE  \E k \in B : \A j \in B : k <= j
<1>1. PICK k \in B : \A j \in B : <<j, k>> \notin OpToRel(<, Nat)
  BY NatLessThanWellFounded, WFMin
<1>2. ASSUME NEW j \in B PROVE k <= j
  <2>1. j \in Nat /\ k \in Nat /\ ~ (j < k)
    BY <1>1 DEF OpToRel
  <2> QED
    BY <2>1
<1> QED
  BY <1>2

\* A set of waits has a shortest one.
LEMMA LeastWait ==
  ASSUME NEW waits, waits # {}, \A w \in waits : w \in Int /\ w >= -Half
  PROVE  \E m \in waits : \A v \in waits : m <= v
<1>1. PICK h : h = Half
  OBVIOUS
<1>2. h \in Nat
  BY <1>1, ClockSizes
<1> DEFINE B == {w + h : w \in waits}
<1>3. B \subseteq Nat /\ B # {}
  BY <1>1, <1>2
<1>4. PICK k \in B : \A j \in B : k <= j
  BY <1>3, LeastNumber
<1>5. PICK m \in waits : k = m + h
  BY <1>4
<1>6. ASSUME NEW v \in waits PROVE m <= v
  <2>1. v + h \in B /\ m \in Int /\ v \in Int
    OBVIOUS
  <2>2. k <= v + h
    BY <1>4, <2>1
  <2> QED
    BY <1>2, <1>5, <2>1, <2>2
<1> QED
  BY <1>6

\* ikcp_check asks to be called again within an interval, and before ts_flush.
LEMMA ChecksInTime ==
  ASSUME NEW t \in Ticks, NEW ts \in Ticks, NEW packets, packets \subseteq Ticks
  PROVE  \E y \in 0 .. Interval :
           /\ ikcp_check(t, ts, packets) = U(t + y)
           /\ ~ GaveUp(t, ts) => y = 0 \/ y <= _itimediff(ts, t)
<1> DEFINE ts1 == IF GaveUp(t, ts) THEN t ELSE ts
           waits == {_itimediff(u, t) : u \in packets} \cup {_itimediff(ts1, t)}
           minimal == CHOOSE w \in waits : \A v \in waits : w <= v
<1>1. ts1 \in Ticks
  OBVIOUS
<1>2. \A u \in Ticks : _itimediff(u, t) \in Int /\ _itimediff(u, t) >= -Half
  <2>1. PICK n, h : n = Full /\ h = Half
    OBVIOUS
  <2>2. h \in Nat \ {0} /\ n = 2 * h
    BY <2>1, ClockSizes
  <2> SUFFICES ASSUME NEW u \in Ticks
               PROVE  _itimediff(u, t) \in Int /\ _itimediff(u, t) >= -h
    BY <2>1
  <2>3. u \in 0 .. n - 1 /\ t \in 0 .. n - 1
    BY <2>1 DEF Ticks
  <2>4. _itimediff(u, t) = IF u - t >= h THEN u - t - n
                           ELSE IF u - t < -h THEN u - t + n ELSE u - t
    BY <2>1, Differs
  <2> QED
    BY <2>2, <2>3, <2>4
<1>3. ikcp_check(t, ts, packets) =
        IF minimal <= 0 THEN t ELSE U(t + (IF minimal >= Interval THEN Interval ELSE minimal))
  BY DEF ikcp_check
<1> HIDE DEF ts1
<1>4. waits # {} /\ \A w \in waits : w \in Int /\ w >= -Half
  BY <1>1, <1>2
<1>5. _itimediff(ts1, t) \in waits
  OBVIOUS
<1> HIDE DEF waits
<1>6. minimal \in waits /\ minimal <= _itimediff(ts1, t)
  BY <1>4, <1>5, LeastWait
<1> HIDE DEF minimal
<1>7. minimal \in Int /\ _itimediff(ts1, t) \in Int
  BY <1>4, <1>5, <1>6
<1>8. Interval \in Nat
  BY ClockSizes
<1>9. CASE minimal <= 0
  <2>1. t = U(t + 0)
    <3>1. PICK n : n = Full
      OBVIOUS
    <3>2. n \in Nat \ {0} /\ t \in 0 .. n - 1
      BY <3>1, ClockSizes DEF Ticks
    <3>3. U(t) = t
      BY <3>1, <3>2, Wraps
    <3> QED
      BY <3>2, <3>3
  <2> QED
    BY <1>3, <1>8, <1>9, <2>1
<1>10. CASE minimal > 0
  <2> DEFINE y == IF minimal >= Interval THEN Interval ELSE minimal
  <2>1. y \in 0 .. Interval /\ y <= minimal
    BY <1>7, <1>8, <1>10
  <2>2. ikcp_check(t, ts, packets) = U(t + y)
    BY <1>3, <1>7, <1>10
  <2>3. ~ GaveUp(t, ts) => y <= _itimediff(ts, t)
    <3>1. y <= _itimediff(ts1, t)
      BY <1>6, <1>7, <1>8, <2>1
    <3> QED
      BY <3>1 DEF ts1
  <2> HIDE DEF y
  <2> QED
    BY <2>1, <2>2, <2>3
<1> QED
  BY <1>7, <1>9, <1>10

---------------------------------------------------------------------------
(* The invariant: with x ticks left to ts_flush and y to nextUpdate, the last   *)
(* flush was no more than an interval minus x ago, and nextUpdate comes first.  *)

Left(x, y) ==
  /\ x \in 0 .. Interval /\ y \in 0 .. x /\ idle + x <= Interval
  /\ ts_flush = U(now + x) /\ nextUpdate = U(now + y)

ClockTypeInv ==
  /\ now \in Ticks /\ ts_flush \in Ticks /\ nextUpdate \in Ticks /\ resendts \subseteq Ticks
  /\ updated \in BOOLEAN /\ overslept \in BOOLEAN /\ idle \in Nat

ClockInv ==
  /\ ClockTypeInv
  /\ ~ updated => nextUpdate = 0 /\ idle = 0 /\ ~ overslept
  /\ updated /\ ~ overslept => \E x, y \in Int : Left(x, y)

\* The clock's invariant holds when the loop starts.
LEMMA ClockInitially == ClockInit => ClockInv
<1> SUFFICES ASSUME ClockInit PROVE ClockInv
  OBVIOUS
<1>1. 0 \in Ticks /\ Interval \in Ticks
  <2>1. PICK n, h : n = Full /\ h = Half
    OBVIOUS
  <2>2. h \in Nat \ {0} /\ n = 2 * h /\ Interval \in Nat \ {0} /\ MaxStep \in Nat \ {0} /\ Interval + MaxStep <= h
    BY <2>1, ClockSizes
  <2> QED
    BY <2>1, <2>2 DEF Ticks
<1> QED
  BY <1>1 DEF ClockInit, ClockInv, ClockTypeInv

\* Where a flush moves ts_flush.
Moved(t, ts0) ==
  IF _itimediff(t, U(ts0 + Interval)) >= 0 THEN U(t + Interval) ELSE U(ts0 + Interval)

\* A flush: the next one is due within an interval.
LEMMA AfterFlush ==
  ASSUME NEW t \in Ticks, NEW ts0 \in Ticks,
         ts0 = t \/ ~ GaveUp(t, ts0), _itimediff(t, ts0) >= 0,
         NEW ts, ts = Moved(t, ts0),
         NEW packets \in SUBSET Ticks
  PROVE  /\ ts \in Ticks /\ ikcp_check(t, ts, packets) \in Ticks
         /\ \E x \in 0 .. Interval : \E y \in 0 .. x :
              ts = U(t + x) /\ ikcp_check(t, ts, packets) = U(t + y)
<1>1. PICK n, h, i, g : n = Full /\ h = Half /\ i = Interval /\ g = Gap
  OBVIOUS
<1>2. /\ h \in Nat \ {0} /\ n = 2 * h /\ i \in Nat \ {0} /\ g \in Nat /\ i <= g /\ g <= h
      /\ i < h /\ t \in 0 .. n - 1 /\ ts0 \in 0 .. n - 1
  BY <1>1, ClockSizes DEF Ticks
<1>3. U(ts0 + i) = IF ts0 + i < n THEN ts0 + i ELSE ts0 + i - n
  BY <1>1, <1>2, Wraps
<1>4. PICK s : s = U(ts0 + i)
  OBVIOUS
<1>5. s \in 0 .. n - 1
  BY <1>2, <1>3, <1>4
<1>6. _itimediff(t, ts0) = IF t - ts0 >= h THEN t - ts0 - n
                           ELSE IF t - ts0 < -h THEN t - ts0 + n ELSE t - ts0
  BY <1>1, Differs
<1>7. _itimediff(t, s) = IF t - s >= h THEN t - s - n
                         ELSE IF t - s < -h THEN t - s + n ELSE t - s
  BY <1>1, <1>5, Differs DEF Ticks
<1>8. ts0 = t \/ _itimediff(t, ts0) < g
  <2>1. GaveUp(t, ts0) <=> (_itimediff(t, ts0) >= g \/ _itimediff(t, ts0) < -g)
    BY <1>1 DEF GaveUp
  <2>2. PICK d : d = _itimediff(t, ts0)
    OBVIOUS
  <2>3. d \in Int /\ (ts0 = t \/ ~ (d >= g))
    BY <1>2, <1>6, <2>1, <2>2
  <2> QED
    BY <1>2, <2>2, <2>3
<1>9. \E x \in 0 .. i : ts = U(t + x)
  <2>1. CASE _itimediff(t, s) >= 0
    BY <1>1, <1>2, <1>4, <2>1 DEF Moved
  <2>2. CASE _itimediff(t, s) < 0
    <3>1. ts = s
      BY <1>1, <1>2, <1>4, <1>5, <1>7, <2>2 DEF Moved
    <3> DEFINE x == i - _itimediff(t, ts0)
    <3>2. x \in 0 .. i
      BY <1>2, <1>3, <1>4, <1>5, <1>6, <1>7, <1>8, <2>2
    <3>3. U(t + x) = IF t + x < n THEN t + x ELSE t + x - n
      <4> HIDE DEF x
      <4> QED
        BY <1>1, <1>2, <3>2, Wraps
    <3>4. U(t + x) = s
      BY <1>2, <1>3, <1>4, <1>5, <1>6, <3>2, <3>3
    <3> QED
      BY <3>1, <3>2, <3>4
  <2> QED
    BY <1>2, <1>5, <1>7, <2>1, <2>2
<1>10. PICK x \in 0 .. i : ts = U(t + x)
  BY <1>9
<1>11. ts \in 0 .. n - 1 /\ ts = IF t + x < n THEN t + x ELSE t + x - n
  BY <1>1, <1>2, <1>10, Wraps
<1>12. ts \in Ticks
  BY <1>1, <1>11 DEF Ticks
<1>13. _itimediff(ts, t) = IF ts - t >= h THEN ts - t - n
                          ELSE IF ts - t < -h THEN ts - t + n ELSE ts - t
  BY <1>1, <1>12, Differs
<1>14. _itimediff(t, ts) = IF t - ts >= h THEN t - ts - n
                          ELSE IF t - ts < -h THEN t - ts + n ELSE t - ts
  BY <1>1, <1>12, Differs
<1>15. PICK y \in 0 .. i : /\ ikcp_check(t, ts, packets) = U(t + y)
                           /\ ~ GaveUp(t, ts) => y = 0 \/ y <= _itimediff(ts, t)
  BY <1>1, <1>12, ChecksInTime
<1>16. _itimediff(ts, t) = x /\ ~ GaveUp(t, ts)
  <2>1. _itimediff(ts, t) = x /\ _itimediff(t, ts) = -x
    BY <1>2, <1>11, <1>13, <1>14
  <2>2. GaveUp(t, ts) <=> (-x >= g \/ -x < -g)
    BY <1>1, <2>1 DEF GaveUp
  <2> QED
    BY <1>2, <2>1, <2>2
<1>17. y \in 0 .. x
  BY <1>15, <1>16
<1>18. ikcp_check(t, ts, packets) \in Ticks
  <2>1. t + y \in Int
    BY <1>2
  <2> QED
    BY <1>15, <2>1, InTicks
<1> QED
  BY <1>1, <1>10, <1>12, <1>15, <1>17, <1>18

\* A turn that does not flush: nextUpdate and ts_flush come nearer, unless the
\* counter wrapped between two turns, the first not past nextUpdate.
LEMMA NoFlush ==
  ASSUME ClockTypeInv, NEW x \in Int, NEW y \in Int, Left(x, y), NEW d \in 1 .. MaxStep,
         NEW t, t = U(now + d)
  PROVE  /\ ~ (t >= nextUpdate) => d <= y \/ (t < now /\ now <= nextUpdate)
         /\ d <= y => U(t + (y - d)) = nextUpdate
         /\ d <= x => U(t + (x - d)) = ts_flush
         /\ ~ GaveUp(t, ts_flush) /\ _itimediff(t, ts_flush) < 0
              => d < x /\ _itimediff(ts_flush, t) = x - d
         /\ GaveUp(t, ts_flush) => _itimediff(t, ts_flush) >= 0
<1>1. PICK n, h, i, g, m : n = Full /\ h = Half /\ i = Interval /\ g = Gap /\ m = MaxStep
  OBVIOUS
<1>2. /\ h \in Nat \ {0} /\ n = 2 * h /\ i \in Nat \ {0} /\ g \in Nat /\ i <= g /\ g <= h
      /\ m \in Nat \ {0} /\ i + m <= h
  BY <1>1, ClockSizes
<1>3. PICK a, ts, nu : a = now /\ ts = ts_flush /\ nu = nextUpdate
  OBVIOUS
<1>4. /\ a \in 0 .. n - 1 /\ ts \in 0 .. n - 1 /\ nu \in 0 .. n - 1
      /\ x \in 0 .. i /\ y \in 0 .. x /\ d \in 1 .. m
  BY <1>1, <1>3 DEF ClockTypeInv, Ticks, Left
<1>5. t = IF a + d < n THEN a + d ELSE a + d - n
  BY <1>1, <1>2, <1>3, <1>4, Wraps
<1>6. nu = IF a + y < n THEN a + y ELSE a + y - n
  <2>1. nu = U(a + y)
    BY <1>3 DEF Left
  <2> QED
    BY <1>1, <1>2, <1>4, <2>1, Wraps
<1>7. ts = IF a + x < n THEN a + x ELSE a + x - n
  <2>1. ts = U(a + x)
    BY <1>3 DEF Left
  <2> QED
    BY <1>1, <1>2, <1>4, <2>1, Wraps
<1>8. t \in 0 .. n - 1
  BY <1>2, <1>4, <1>5
<1>9. ~ (t >= nu) => d <= y \/ (t < a /\ a <= nu)
  BY <1>2, <1>4, <1>5, <1>6
<1>10. ASSUME NEW z \in Int, z \in 0 .. x, d <= z
       PROVE  U(t + (z - d)) = IF a + z < n THEN a + z ELSE a + z - n
  <2>1. z - d \in 0 .. h
    BY <1>2, <1>4, <1>10
  <2>2. U(t + (z - d)) = IF t + (z - d) < n THEN t + (z - d) ELSE t + (z - d) - n
    BY <1>1, <1>2, <1>8, <2>1, Wraps
  <2> QED
    BY <1>2, <1>4, <1>5, <1>10, <2>1, <2>2
<1>11. _itimediff(t, ts) = IF t - ts >= h THEN t - ts - n
                           ELSE IF t - ts < -h THEN t - ts + n ELSE t - ts
  BY <1>1, <1>4, <1>8, Differs DEF Ticks
<1>12. _itimediff(ts, t) = IF ts - t >= h THEN ts - t - n
                           ELSE IF ts - t < -h THEN ts - t + n ELSE ts - t
  BY <1>1, <1>4, <1>8, Differs DEF Ticks
<1>13. _itimediff(t, ts) = d - x
  BY <1>2, <1>4, <1>5, <1>7, <1>11
<1>14. d < x => _itimediff(ts, t) = x - d
  BY <1>2, <1>4, <1>5, <1>7, <1>12
<1>15. GaveUp(t, ts) => d - x >= 0
  <2>1. GaveUp(t, ts) <=> (d - x >= g \/ d - x < -g)
    BY <1>1, <1>13 DEF GaveUp
  <2> QED
    BY <1>2, <1>4, <2>1
<1>16. d <= y => U(t + (y - d)) = nu
  BY <1>4, <1>6, <1>10
<1>17. d <= x => U(t + (x - d)) = ts
  BY <1>4, <1>7, <1>10
<1>18. _itimediff(t, ts) < 0 => d < x
  BY <1>4, <1>13
<1> QED
  BY <1>3, <1>4, <1>9, <1>13, <1>14, <1>15, <1>16, <1>17, <1>18

\* Every step of the clock keeps it.
LEMMA ClockStep == ClockInv /\ [ClockNext]_clockVars => ClockInv'
<1> SUFFICES ASSUME ClockInv, [ClockNext]_clockVars PROVE ClockInv'
  OBVIOUS
<1>1. CASE UNCHANGED clockVars
  BY <1>1 DEF clockVars, ClockInv, ClockTypeInv, Left
<1>2. ASSUME NEW d \in 1 .. MaxStep, ClockTurn(d) PROVE ClockInv'
  <2> DEFINE t == U(now + d)
             called == t >= nextUpdate
             ts0 == IF ~ updated \/ GaveUp(t, ts_flush) THEN t ELSE ts_flush
             flush == called /\ _itimediff(t, ts0) >= 0
             ts1 == U(ts0 + Interval)
             packets == resendts'
  <2>1. /\ now' = t
        /\ updated' = (updated \/ called)
        /\ ts_flush' = IF ~ called THEN ts_flush
                       ELSE IF ~ flush THEN ts0
                       ELSE IF _itimediff(t, ts1) >= 0 THEN U(t + Interval) ELSE ts1
        /\ \/ ~ flush /\ resendts' \in SUBSET resendts
           \/ flush /\ resendts' \in {{}} \cup {{U(t + r)} : r \in Rtos}
           \/ flush /\ resendts' = {r \in resendts : _itimediff(t, r) < 0}
        /\ nextUpdate' = IF called THEN ikcp_check(t, ts_flush', packets) ELSE nextUpdate
        /\ idle' = IF flush THEN 0 ELSE IF idle + d < Late THEN idle + d ELSE Late
        /\ overslept' = (~ flush /\ (overslept \/ (t < now /\ now <= nextUpdate)))
    BY <1>2 DEF ClockTurn
  <2>2. /\ d \in Int /\ now \in Int /\ t \in Ticks /\ t \in Int /\ t >= 0 /\ nextUpdate \in Int
        /\ Interval \in Nat /\ MaxStep \in Nat \ {0} /\ Late \in Nat /\ idle \in Nat
    <3>1. PICK n : n = Full
      OBVIOUS
    <3>2. n \in Nat /\ Interval \in Nat /\ MaxStep \in Nat \ {0}
      BY <3>1, ClockSizes
    <3>3. now \in 0 .. n - 1 /\ nextUpdate \in 0 .. n - 1 /\ d \in Int
      BY <3>1, <3>2 DEF ClockInv, ClockTypeInv, Ticks
    <3>4. t \in Ticks
      <4>1. now + d \in Int
        BY <3>3
      <4> QED
        BY <4>1, InTicks
    <3> HIDE DEF t
    <3>5. t \in 0 .. n - 1
      BY <3>1, <3>4 DEF Ticks
    <3> QED
      BY <3>2, <3>3, <3>4, <3>5 DEF Late, ClockInv, ClockTypeInv
  <2>3. t = U(now + d)
    OBVIOUS
  <2> HIDE DEF t
  <2>4. ts0 \in Ticks /\ (ts0 = t \/ ~ GaveUp(t, ts0))
    BY <2>2 DEF ClockInv, ClockTypeInv
  <2>5. packets \subseteq Ticks
    <3>1. \A r \in Rtos : U(t + r) \in Ticks
      <4> SUFFICES ASSUME NEW r \in Rtos PROVE U(t + r) \in Ticks
        OBVIOUS
      <4>1. t + r \in Int
        BY <2>2, ClockSizes
      <4> QED
        BY <4>1, InTicks
    <3> QED
      BY <2>1, <3>1 DEF ClockInv, ClockTypeInv
  <2>6. ~ updated => flush
    <3> SUFFICES ASSUME ~ updated PROVE flush
      OBVIOUS
    <3>1. ts0 = t /\ called
      BY <2>2 DEF ClockInv
    <3>2. _itimediff(t, t) >= 0
      <4>1. PICK h, n : h = Half /\ n = Full
        OBVIOUS
      <4>2. h \in Nat \ {0} /\ t - t = 0
        BY <4>1, <2>2, ClockSizes
      <4>3. _itimediff(t, t) = IF t - t >= h THEN t - t - n
                               ELSE IF t - t < -h THEN t - t + n ELSE t - t
        BY <4>1, <2>2, Differs
      <4> QED
        BY <4>2, <4>3
    <3> QED
      BY <3>1, <3>2
  <2> HIDE DEF packets
  <2>7. CASE flush
    <3>1. PICK u, ts, nu, pk : u = ts0 /\ ts = ts_flush' /\ nu = nextUpdate' /\ pk = packets
      OBVIOUS
    <3>2. /\ u \in Ticks /\ (u = t \/ ~ GaveUp(t, u)) /\ _itimediff(t, u) >= 0
          /\ ts = Moved(t, u) /\ nu = ikcp_check(t, ts, pk) /\ pk \in SUBSET Ticks
      BY <2>1, <2>4, <2>5, <2>7, <3>1 DEF Moved
    <3>3. /\ ts_flush' \in Ticks /\ nextUpdate' \in Ticks
          /\ \E x \in 0 .. Interval : \E y \in 0 .. x :
               ts_flush' = U(t + x) /\ nextUpdate' = U(t + y)
      <4> HIDE DEF ts0, flush, called, ts1
      <4>1. /\ ts \in Ticks /\ nu \in Ticks
            /\ \E x \in 0 .. Interval : \E y \in 0 .. x : ts = U(t + x) /\ nu = U(t + y)
        BY <2>2, <3>2, AfterFlush
      <4> QED
        BY <3>1, <4>1
    <3> HIDE DEF ts0, flush, called, ts1
    <3>4. PICK x \in 0 .. Interval : \E y \in 0 .. x :
               ts_flush' = U(t + x) /\ nextUpdate' = U(t + y)
      BY <3>3
    <3>5. PICK y \in 0 .. x : ts_flush' = U(t + x) /\ nextUpdate' = U(t + y)
      BY <3>4
    <3>6. idle' = 0 /\ overslept' = FALSE /\ now' = t /\ updated'
      BY <2>1, <2>7 DEF flush
    <3>7. x \in Int /\ y \in Int /\ Left(x, y)'
      BY <2>2, <3>5, <3>6 DEF Left
    <3> QED
      BY <2>1, <2>2, <2>5, <3>3, <3>6, <3>7 DEF ClockInv, ClockTypeInv, packets
  <2>8. CASE ~ flush
    <3>1. updated
      BY <2>6, <2>8
    <3>2. /\ ts_flush' = IF ~ called THEN ts_flush ELSE ts0
          /\ idle' = IF idle + d < Late THEN idle + d ELSE Late
          /\ overslept' = (overslept \/ (t < now /\ now <= nextUpdate))
          /\ updated'
      BY <2>1, <2>8, <3>1
    <3>3. ts_flush' \in Ticks
      BY <2>4, <3>2 DEF ClockInv, ClockTypeInv
    <3>4. called => \E y \in 0 .. Interval :
             /\ nextUpdate' = U(t + y)
             /\ ~ GaveUp(t, ts_flush') => y = 0 \/ y <= _itimediff(ts_flush', t)
      BY <2>1, <2>2, <2>5, <3>3, ChecksInTime
    <3>5. nextUpdate' \in Ticks
      <4>1. CASE called
        <5>1. PICK y \in 0 .. Interval : nextUpdate' = U(t + y)
          BY <3>4, <4>1
        <5>2. t + y \in Int
          BY <2>2
        <5> QED
          BY <5>1, <5>2, InTicks
      <4>2. CASE ~ called
        BY <2>1, <4>2 DEF ClockInv, ClockTypeInv
      <4> QED
        BY <4>1, <4>2
    <3>6. idle' \in Nat /\ overslept' \in BOOLEAN /\ now' \in Ticks
      BY <2>1, <2>2, <3>2 DEF ClockInv, ClockTypeInv
    <3>7. ASSUME ~ overslept' PROVE \E x, y \in Int : Left(x, y)'
      <4>1. ~ overslept /\ ~ (t < now /\ now <= nextUpdate)
        BY <3>2, <3>7
      <4>2. PICK x \in Int, y \in Int : Left(x, y)
        BY <3>1, <4>1 DEF ClockInv
      <4>3. /\ ~ (t >= nextUpdate) => d <= y \/ (t < now /\ now <= nextUpdate)
            /\ d <= y => U(t + (y - d)) = nextUpdate
            /\ d <= x => U(t + (x - d)) = ts_flush
            /\ ~ GaveUp(t, ts_flush) /\ _itimediff(t, ts_flush) < 0
                 => d < x /\ _itimediff(ts_flush, t) = x - d
            /\ GaveUp(t, ts_flush) => _itimediff(t, ts_flush) >= 0
        BY <2>3, <4>2, NoFlush DEF ClockInv
      <4>4. x \in 0 .. Interval /\ y \in 0 .. x /\ idle + x <= Interval
        BY <4>2 DEF Left
      <4>5. d <= x /\ ts_flush' = ts_flush /\ \E z \in 0 .. x - d : nextUpdate' = U(t + z)
        <5>1. CASE ~ called
          <6>1. d <= y /\ nextUpdate' = nextUpdate /\ ts_flush' = ts_flush
            BY <2>1, <3>2, <4>1, <4>3, <5>1
          <6>2. y - d \in 0 .. x - d /\ d <= x
            BY <2>2, <4>4, <6>1
          <6> QED
            BY <4>3, <6>1, <6>2
        <5>2. CASE called
          <6>1. ~ (_itimediff(t, ts0) >= 0)
            BY <2>8, <5>2
          <6>2. ~ GaveUp(t, ts_flush) /\ ts0 = ts_flush
            <7>1. CASE GaveUp(t, ts_flush)
              <8>1. ts0 = t
                BY <7>1
              <8>2. _itimediff(t, t) >= 0
                <9>1. PICK h, n : h = Half /\ n = Full
                  OBVIOUS
                <9>2. h \in Nat \ {0} /\ t - t = 0
                  BY <9>1, <2>2, ClockSizes
                <9>3. _itimediff(t, t) = IF t - t >= h THEN t - t - n
                                         ELSE IF t - t < -h THEN t - t + n ELSE t - t
                  BY <9>1, <2>2, Differs
                <9> QED
                  BY <9>2, <9>3
              <8> QED
                BY <6>1, <8>1, <8>2
            <7> QED
              BY <3>1, <7>1
          <6>3. _itimediff(t, ts_flush) \in Int
            <7>1. PICK h, n, v : h = Half /\ n = Full /\ v = ts_flush
              OBVIOUS
            <7>2. h \in Nat \ {0} /\ n \in Nat /\ v \in 0 .. n - 1
              BY <7>1, ClockSizes DEF ClockInv, ClockTypeInv, Ticks
            <7>3. _itimediff(t, v) = IF t - v >= h THEN t - v - n
                                     ELSE IF t - v < -h THEN t - v + n ELSE t - v
              BY <7>1, <2>2, Differs DEF ClockInv, ClockTypeInv
            <7> QED
              BY <2>2, <7>1, <7>2, <7>3
          <6>4. d < x /\ _itimediff(ts_flush, t) = x - d
            BY <4>3, <6>1, <6>2, <6>3
          <6>5. ts_flush' = ts_flush
            BY <3>2, <5>2, <6>2
          <6>6. PICK z \in 0 .. Interval : nextUpdate' = U(t + z) /\ (z = 0 \/ z <= x - d)
            BY <3>4, <5>2, <6>2, <6>4, <6>5
          <6>7. z \in 0 .. x - d /\ d <= x
            BY <2>2, <4>4, <6>4, <6>6
          <6> QED
            BY <6>5, <6>6, <6>7
        <5> QED
          BY <5>1, <5>2
      <4>6. PICK z \in 0 .. x - d : nextUpdate' = U(t + z)
        BY <4>5
      <4>7. idle' = idle + d /\ idle' + (x - d) <= Interval
        <5>1. idle + d <= Interval
          BY <2>2, <4>4, <4>5
        <5> QED
          BY <2>2, <3>2, <4>4, <5>1 DEF Late
      <4>8. x - d \in 0 .. Interval /\ ts_flush' = U(t + (x - d))
        BY <2>2, <4>3, <4>4, <4>5
      <4>9. Left(x - d, z)'
        BY <2>1, <4>6, <4>7, <4>8 DEF Left
      <4>10. x - d \in Int /\ z \in Int
        BY <2>2, <4>4
      <4> QED
        BY <4>9, <4>10
    <3> QED
      BY <2>5, <3>2, <3>3, <3>5, <3>6, <3>7 DEF ClockInv, ClockTypeInv, packets
  <2> QED
    BY <2>7, <2>8
<1> QED
  BY <1>1, <1>2 DEF ClockNext

\* Between two flushes no more than an interval and a turn of main's loop pass, for
\* any width of the counter and any times at which the loop turns, also when the
\* counter wraps, unless it wraps between a turn that waits for nextUpdate and the
\* next one, which comes later than that.
THEOREM FlushesOnTime == ClockSpec => []FlushesInTime
<1>1. ClockInv => FlushesInTime
  <2> SUFFICES ASSUME ClockInv, idle >= Late, ~ overslept PROVE FALSE
    BY DEF FlushesInTime
  <2>1. Interval \in Nat \ {0} /\ MaxStep \in Nat \ {0} /\ idle \in Nat
    BY ClockSizes DEF ClockInv, ClockTypeInv
  <2>2. CASE ~ updated
    BY <2>1, <2>2 DEF ClockInv, Late
  <2>3. CASE updated
    <3>1. PICK x \in Int, y \in Int : Left(x, y)
      BY <2>3 DEF ClockInv
    <3>2. x \in 0 .. Interval /\ idle + x <= Interval
      BY <3>1 DEF Left
    <3> QED
      BY <2>1, <3>2 DEF Late
  <2> QED
    BY <2>2, <2>3
<1> QED
  BY <1>1, ClockInitially, ClockStep, PTL DEF ClockSpec

---------------------------------------------------------------------------
(* Induction and recursion on natural numbers, and sequences.                  *)

\* A set with 0 that goes on from each of its numbers to the next has them all.
LEMMA GoesOn ==
  ASSUME NEW N \in Nat, NEW B, 0 \in B, \A i \in 1..N : i - 1 \in B => i \in B
  PROVE  \A i \in 0..N : i \in B
<1> DEFINE C == {i \in 0..N : i \notin B}
<1>1. SUFFICES ASSUME C # {} PROVE FALSE
  OBVIOUS
<1>2. PICK k \in C : \A j \in C : k <= j
  <2>1. C \subseteq Nat
    OBVIOUS
  <2> HIDE DEF C
  <2> QED
    BY <1>1, <2>1, LeastNumber
<1>3. k \in 1..N /\ k - 1 \in 0..N /\ k - 1 \in B
  BY <1>2
<1> QED
  BY <1>2, <1>3

\* The steps g[1] .. g[N] can be taken one after the other from b.
IsWalk(f, N, b, g) == f = [i \in 0..N |-> IF i = 0 THEN b ELSE g[i][f[i - 1]]]

\* A recursion over 1..N has its function.
LEMMA Iterates ==
  ASSUME NEW N \in Nat, NEW b, NEW g
  PROVE  \E f : IsWalk(f, N, b, g)
<1> DEFINE Walk(f, k) == f = [i \in 0..k |-> IF i = 0 THEN b ELSE g[i][f[i - 1]]]
           B == {k \in 0..N : \E f : Walk(f, k)}
<1>1. 0 \in B
  <2> DEFINE f == [i \in 0..0 |-> b]
  <2>1. f = [i \in 0..0 |-> IF i = 0 THEN b ELSE g[i][f[i - 1]]]
    OBVIOUS
  <2>2. Walk(f, 0)
    BY <2>1
  <2> HIDE DEF Walk
  <2>3. \E e : Walk(e, 0)
    BY <2>2
  <2> QED
    BY <2>3
<1>2. ASSUME NEW k \in 1..N, k - 1 \in B PROVE k \in B
  <2>1. PICK e : Walk(e, k - 1)
    <3> HIDE DEF Walk
    <3> QED
      BY <1>2
  <2> DEFINE f == [i \in 0..k |-> IF i = 0 THEN b ELSE IF i = k THEN g[k][e[k - 1]] ELSE e[i]]
             h == [i \in 0..k |-> IF i = 0 THEN b ELSE g[i][f[i - 1]]]
  <2>2. ASSUME NEW i \in 0..k PROVE f[i] = h[i]
    <3>1. CASE i = 0
      BY <3>1
    <3>2. CASE i = k /\ i # 0
      <4>1. k - 1 \in 0..k /\ k - 1 # k
        BY <1>2
      <4>2. f[k - 1] = e[k - 1]
        <5>1. k - 1 = 0 => e[k - 1] = b
          BY <1>2, <2>1
        <5> QED
          BY <4>1, <5>1
      <4> QED
        BY <3>2, <4>2
    <3>3. CASE i \in 1..(k - 1)
      <4>1. i - 1 \in 0..k /\ i - 1 # k /\ i - 1 \in 0..(k - 1) /\ i \in 0..(k - 1)
        BY <1>2, <3>3
      <4>2. f[i - 1] = e[i - 1]
        <5>1. i - 1 = 0 => e[i - 1] = b
          BY <2>1, <4>1
        <5> QED
          BY <4>1, <5>1
      <4>3. e[i] = g[i][e[i - 1]]
        BY <2>1, <3>3, <4>1
      <4>4. f[i] = e[i]
        BY <3>3, <4>1
      <4>5. h[i] = g[i][f[i - 1]]
        BY <3>3, <4>1
      <4> QED
        BY <4>2, <4>3, <4>4, <4>5, Zenon
    <3>4. i = 0 \/ (i = k /\ i # 0) \/ i \in 1..(k - 1)
      BY <1>2
    <3> QED
      BY <3>1, <3>2, <3>3, <3>4, Zenon
  <2>3. f = h
    BY <2>2
  <2>4. Walk(f, k)
    BY <2>3
  <2> HIDE DEF Walk
  <2>5. \E a : Walk(a, k)
    BY <2>4
  <2> QED
    BY <2>5
<1>3. \E f : Walk(f, N)
  <2>1. \A i \in 0..N : i \in B
    <3> HIDE DEF B
    <3> QED
      BY <1>1, <1>2, GoesOn
  <2> HIDE DEF Walk
  <2> QED
    BY <2>1
<1>4. PICK f : Walk(f, N)
  <2> HIDE DEF Walk
  <2> QED
    BY <1>3
<1>5. IsWalk(f, N, b, g)
  BY <1>4 DEF IsWalk
<1> QED
  BY <1>5

\* The same within a set that every step stays in.
LEMMA TypedIterates ==
  ASSUME NEW N \in Nat, NEW T, NEW b \in T, NEW g \in [1..N -> [T -> T]]
  PROVE  \E f : IsWalk(f, N, b, g) /\ \A i \in 0..N : f[i] \in T
<1>0. PICK f : IsWalk(f, N, b, g)
  BY Iterates
<1>1. f = [i \in 0..N |-> IF i = 0 THEN b ELSE g[i][f[i - 1]]]
  BY <1>0 DEF IsWalk
<1> DEFINE B == {i \in 0..N : f[i] \in T}
<1>2. 0 \in B
  BY <1>1
<1>3. ASSUME NEW i \in 1..N, i - 1 \in B PROVE i \in B
  <2>1. i \in 0..N /\ i # 0 /\ f[i - 1] \in T
    BY <1>3
  <2>2. f[i] = g[i][f[i - 1]]
    BY <1>1, <2>1
  <2>3. g[i] \in [T -> T]
    OBVIOUS
  <2> QED
    BY <2>1, <2>2, <2>3
<1>4. \A i \in 0..N : i \in B
  <2> HIDE DEF B
  <2> QED
    BY <1>2, <1>3, GoesOn
<1>5. \A i \in 0..N : f[i] \in T
  BY <1>4
<1> QED
  BY <1>0, <1>5

\* The largest of some numbers up to N.
LEMMA LargestNumber ==
  ASSUME NEW N \in Nat, NEW S \in SUBSET (0..N), S # {}
  PROVE  Max(S) \in S /\ \A n \in S : n <= Max(S)
<1> DEFINE B == {N - n : n \in S}
<1>1. B \subseteq Nat /\ B # {}
  <2>1. \A n \in S : N - n \in Nat
    OBVIOUS
  <2> QED
    BY <2>1
<1>2. PICK k \in B : \A j \in B : k <= j
  <2> HIDE DEF B
  <2> QED
    BY <1>1, LeastNumber
<1>3. PICK m \in S : k = N - m
  OBVIOUS
<1>4. ASSUME NEW n \in S PROVE n <= m
  <2>1. k <= N - n
    BY <1>2
  <2> QED
    BY <1>3, <2>1
<1>5. \A x \in S : (\A y \in S : x >= y) => x = m
  BY <1>4
<1>6. \A y \in S : m >= y
  BY <1>4
<1> QED
  BY <1>4, <1>6 DEF Max

\* Joining and cutting sequences, element by element.
Cat(s, t) == s \o t
Part(s, m, n) == SubSeq(s, m, n)

IsCat(b, s, t) ==
  /\ Len(b) = Len(s) + Len(t)
  /\ \A i \in DOMAIN s : i \in DOMAIN b /\ b[i] = s[i]
  /\ \A i \in DOMAIN t : i + Len(s) \in DOMAIN b /\ b[i + Len(s)] = t[i]
  /\ \A i \in DOMAIN b : i \in DOMAIN s \/ (i > Len(s) /\ i - Len(s) \in DOMAIN t)

\* Joining two sequences, element by element.
LEMMA CatOf ==
  ASSUME NEW S, NEW s \in Seq(S), NEW t \in Seq(S)
  PROVE  Cat(s, t) \in Seq(S) /\ IsCat(Cat(s, t), s, t)
<1>1. PICK n \in Nat, m \in Nat : n = Len(s) /\ m = Len(t)
  OBVIOUS
<1>2. /\ s \o t \in Seq(S) /\ Len(s \o t) = n + m
      /\ DOMAIN s = 1..n /\ DOMAIN t = 1..m /\ DOMAIN (s \o t) = 1..(n + m)
  BY <1>1
<1>3. \A i \in 1..n : i \in 1..(n + m) /\ (s \o t)[i] = s[i]
  BY <1>1
<1>4. \A i \in 1..m : i + n \in 1..(n + m) /\ (s \o t)[i + n] = t[i]
  BY <1>1
<1>5. \A i \in 1..(n + m) : i \in 1..n \/ (i > n /\ i - n \in 1..m)
  BY <1>1
<1> QED
  BY <1>1, <1>2, <1>3, <1>4, <1>5 DEF Cat, IsCat

IsPart(b, s, a, n) ==
  /\ Len(b) = n - a + 1 /\ DOMAIN b = 1..(n - a + 1)
  /\ \A i \in 1..(n - a + 1) : i + a - 1 \in DOMAIN s /\ b[i] = s[i + a - 1]

\* Cutting a sequence, element by element.
LEMMA PartOf ==
  ASSUME NEW S, NEW s \in Seq(S), NEW n \in Nat, n <= Len(s), NEW a \in 1..(n + 1)
  PROVE  Part(s, a, n) \in Seq(S) /\ IsPart(Part(s, a, n), s, a, n)
<1>1. PICK l \in Nat : l = Len(s) /\ DOMAIN s = 1..l
  OBVIOUS
<1> DEFINE t == SubSeq(s, a, n)
<1>2. t \in Seq(S) /\ Len(t) = n - a + 1 /\ \A i \in 1..(n - a + 1) : i + a - 1 \in 1..l /\ t[i] = s[i + a - 1]
  BY <1>1
<1>3. DOMAIN t = 1..(n - a + 1)
  BY <1>2
<1> QED
  BY <1>1, <1>2, <1>3 DEF Part, IsPart

\* The elements of a sequence.
LEMMA ElementsOf ==
  ASSUME NEW S, NEW s \in Seq(S)
  PROVE  Len(s) \in Nat /\ DOMAIN s = 1..Len(s) /\ \A i \in DOMAIN s : s[i] \in S
  OBVIOUS

---------------------------------------------------------------------------
(* The protocol.  A control block, and what it knows of the other one.         *)

QueueSegs == [frg : Nat, len : Nat, msg : Nat]
SndSegs ==
  [sn : Nat, frg : Nat, len : Nat, msg : Nat, xmit : Nat, fastack : Nat, due : BOOLEAN]
RcvSegs == [sn : Nat, frg : Nat, len : Nat, msg : Int]
ControlBlocks ==
  [snd_una : Nat, snd_nxt : Nat, rcv_nxt : Nat, rmt_wnd : Int,
   cwnd : Int, incr : Int, ssthresh : Int, tell : BOOLEAN, probe : {"off", "armed", "due"},
   snd_queue : Seq(QueueSegs), snd_buf : Seq(SndSegs), rcv_queue : Seq(RcvSegs),
   rcv_buf : SUBSET RcvSegs, acklist : Seq(Nat)]

\* Segments on their way, and as a parse takes them.
Segs ==
  [cmd : {"ACK", "PUSH", "WASK", "WINS"}, frg : Nat, wnd : Nat, sn : Nat, una : Nat,
   len : Nat, msg : Int]

\* Segment sn has been received, and is in order or waits for those before it.
Received(k, sn) == sn < k.rcv_nxt \/ \E s \in k.rcv_buf : s.sn = sn
Has(k) == {sn \in Nat : Received(k, sn)}
Held(k, sn) == \E i \in DOMAIN k.snd_buf : k.snd_buf[i].sn = sn

\* What was sent and is not held any more is in A.
Forgets(k, A) == \A sn \in Nat : sn < k.snd_nxt => Held(k, sn) \/ sn \in A
Sorted(buf) == \A i, j \in DOMAIN buf : i < j => buf[i].sn < buf[j].sn

\* Messages are one segment each, of a size that is printed; or the first segment of
\* the first one is already too large for that (or, in a window of one segment,
\* there is none at all).
Short(q) == run.len[q] <= RecvBuf /\ RcvWnd > 1
Kind(q) == IF Short(q) THEN "clean" ELSE "long"
\* What p can have read: that, some of it torn, or anything.
Way(p) == IF read[p] = "shifted" THEN "any" ELSE IF Short(Other(p)) THEN read[p] ELSE "long"

\* Segment sn of short messages as it arrives, and any segment s below nxt.
Arrived(sn, msg, way) == msg = sn + 1 \/ (msg = Torn /\ way = "torn")
Sound(s, nxt, way) ==
  /\ way \in {"clean", "torn"} => s.frg = 0 /\ s.sn < nxt /\ Arrived(s.sn, s.msg, way)
  /\ way = "long" /\ s.sn = 0 => s.len > RecvBuf

\* What is left to send of n messages.
Sends(k, n, kind) ==
  /\ kind = "clean" =>
       /\ k.snd_nxt + Len(k.snd_queue) = n
       /\ \A i \in DOMAIN k.snd_queue : k.snd_queue[i].frg = 0 /\ k.snd_queue[i].msg = k.snd_nxt + i
  /\ kind = "long" => (k.snd_nxt = 0 /\ k.snd_queue # <<>> => k.snd_queue[1].len > RecvBuf)
  /\ \A i \in DOMAIN k.snd_buf : Sound(k.snd_buf[i], k.snd_nxt, kind)

\* What was received, m messages of it printed; nxt is the sender's snd_nxt.
Receives(k, m, nxt, way) ==
  /\ way \in {"clean", "torn"} =>
       /\ m + Len(k.rcv_queue) = k.rcv_nxt
       /\ \A i \in DOMAIN k.rcv_queue :
            k.rcv_queue[i].frg = 0 /\ m + i <= nxt /\ Arrived(m + i - 1, k.rcv_queue[i].msg, way)
  /\ way = "long" =>
       /\ Len(k.rcv_queue) = k.rcv_nxt
       /\ k.rcv_queue # <<>> => k.rcv_queue[1].len > RecvBuf
  /\ \A s \in k.rcv_buf : Sound(s, nxt, way)

\* The sending half of k, with n messages queued so far, when the segments in A may
\* be acknowledged.
SndInv(k, A, n, kind) ==
  /\ k.snd_una <= k.snd_nxt /\ k.snd_nxt <= k.snd_una + SndWnd
  /\ \A i \in DOMAIN k.snd_buf : k.snd_una <= k.snd_buf[i].sn /\ k.snd_buf[i].sn < k.snd_nxt
  /\ Sorted(k.snd_buf)
  /\ Forgets(k, A)
  /\ Sends(k, n, kind)

\* The receiving half, with m messages printed so far.
RcvInv(k, m, nxt, way) ==
  /\ Len(k.rcv_queue) <= RcvWnd
  /\ \A s \in k.rcv_buf : k.rcv_nxt <= s.sn /\ s.sn < k.rcv_nxt + RcvWnd
  /\ \A i \in DOMAIN k.acklist : Received(k, k.acklist[i])
  /\ Receives(k, m, nxt, way)

\* What a segment of a peer that has received A and sent nxt segments may say.
HeaderOk(h, A, nxt, way) ==
  /\ \A sn \in Nat : sn < h.una => sn \in A
  /\ h.cmd = "ACK" => h.sn \in A
  /\ h.cmd = "PUSH" => Sound(h, nxt, way)
Told(A, nxt, way) == {h \in Segs : HeaderOk(h, A, nxt, way)}
\* The datagrams that it may have sent.
Datagrams(A, nxt, kind) == Seq(Told(A, nxt, kind))

\* What may be acknowledged to a process that has read its way: what its peer kq has,
\* or anything.
MayAck(kq, way) == IF way = "any" THEN Nat ELSE Has(kq)

\* What a control block that moves on does not take back.
Later(k, j) == k.snd_nxt <= j.snd_nxt /\ Has(k) \subseteq Has(j)

Prints(s, nq, way) ==
  /\ s \in Seq(Int)
  /\ way \in {"clean", "torn"} => \A i \in DOMAIN s : Arrived(i - 1, s[i], way) /\ i <= nq
  /\ way = "long" => s = <<>>

PeerInv(p) ==
  LET q == Other(p) IN
  /\ kcp[p] \in ControlBlocks /\ queued[p] \in Nat
  /\ read[p] \in {"clean", "torn", "shifted"} /\ run.len[p] \in Nat \ {0}
  /\ SndInv(kcp[p], MayAck(kcp[q], Way(p)), queued[p], Kind(p))
  /\ RcvInv(kcp[p], Len(printed[p]), kcp[q].snd_nxt, Way(p))
  /\ Prints(printed[p], queued[q], Way(p))
  /\ DOMAIN net[p] \subseteq Datagrams(Has(kcp[q]), kcp[q].snd_nxt, Kind(q))

KcpInv ==
  /\ DOMAIN kcp = Peers /\ DOMAIN queued = Peers /\ DOMAIN printed = Peers /\ DOMAIN net = Peers
  /\ DOMAIN read = Peers
  /\ \A p \in Peers : PeerInv(p)

---------------------------------------------------------------------------
(* The sending half.                                                           *)

SameSnd(k, j) ==
  /\ j.snd_una = k.snd_una /\ j.snd_nxt = k.snd_nxt
  /\ j.snd_queue = k.snd_queue /\ j.snd_buf = k.snd_buf
SameRcv(k, j) ==
  /\ j.rcv_nxt = k.rcv_nxt /\ j.rcv_queue = k.rcv_queue
  /\ j.rcv_buf = k.rcv_buf /\ j.acklist = k.acklist

\* The sizes are natural numbers.
LEMMA ConstantSizes ==
  /\ SndWnd \in Nat \ {0} /\ RcvWnd \in Nat \ {0} /\ Mss \in Nat \ {0} /\ Resend \in Nat \ {0}
  /\ FastLimit \in Nat \ {0} /\ Mtu \in Nat \ {0} /\ RecvBuf \in Nat \ {0}
  /\ Overhead \in Nat \ {0} /\ Overhead <= RecvBuf /\ RecvBuf < Mss
  BY SizesAssumption DEF Mss

\* The types of a control block's fields.
LEMMA BlockTypes ==
  ASSUME NEW k \in ControlBlocks
  PROVE  /\ k.snd_una \in Nat /\ k.snd_nxt \in Nat /\ k.rcv_nxt \in Nat /\ k.rmt_wnd \in Int
         /\ k.cwnd \in Int /\ k.incr \in Int /\ k.ssthresh \in Int
         /\ k.snd_queue \in Seq(QueueSegs) /\ k.snd_buf \in Seq(SndSegs)
         /\ k.rcv_queue \in Seq(RcvSegs) /\ k.rcv_buf \in SUBSET RcvSegs
         /\ k.acklist \in Seq(Nat)
  BY DEF ControlBlocks

\* The types of a segment's fields.
LEMMA SegmentTypes ==
  ASSUME NEW buf \in Seq(SndSegs), NEW i \in DOMAIN buf
  PROVE  /\ buf[i] \in SndSegs
         /\ buf[i].sn \in Nat /\ buf[i].frg \in Nat /\ buf[i].len \in Nat /\ buf[i].msg \in Nat
<1>1. buf[i] \in SndSegs
  BY ElementsOf
<1> QED
  BY <1>1 DEF SndSegs

\* What is sound stays so while more is sent.
LEMMA SoundStays ==
  ASSUME NEW s, s.sn \in Nat, NEW nxt \in Nat, NEW x \in Nat, nxt <= x, NEW way, Sound(s, nxt, way)
  PROVE  Sound(s, x, way)
<1>1. s.sn < nxt => s.sn < x
  OBVIOUS
<1> QED
  BY <1>1 DEF Sound

\* A half stays as good as it was while its fields do not change.
LEMMA HalvesStay ==
  ASSUME NEW k, NEW j, NEW A, NEW n, NEW m, NEW nxt, NEW kind, NEW way
  PROVE  /\ SameSnd(k, j) /\ SndInv(k, A, n, kind) => SndInv(j, A, n, kind)
         /\ SameRcv(k, j) /\ RcvInv(k, m, nxt, way) => RcvInv(j, m, nxt, way)
<1>1. ASSUME SameSnd(k, j), SndInv(k, A, n, kind) PROVE SndInv(j, A, n, kind)
  BY <1>1 DEF SameSnd, SndInv, Sends, Forgets, Held
<1>2. ASSUME SameRcv(k, j), RcvInv(k, m, nxt, way) PROVE RcvInv(j, m, nxt, way)
  BY <1>2 DEF SameRcv, RcvInv, Receives, Received
<1> QED
  BY <1>1, <1>2

\* Another buffer, and nothing else.
LEMMA WithBuf ==
  ASSUME NEW k \in ControlBlocks, NEW b \in Seq(SndSegs),
         NEW j, j = [k EXCEPT !.snd_buf = b]
  PROVE  /\ j \in ControlBlocks /\ SameRcv(k, j) /\ j.snd_buf = b
         /\ j.snd_una = k.snd_una /\ j.snd_nxt = k.snd_nxt /\ j.snd_queue = k.snd_queue
  BY DEF ControlBlocks, SameRcv

\* ikcp_shrink_buf: snd_una moves up to the first segment still held.
LEMMA ShrinkKeeps ==
  ASSUME NEW k \in ControlBlocks, NEW A, NEW n, NEW kind, SndInv(k, A, n, kind)
  PROVE  /\ ikcp_shrink_buf(k) \in ControlBlocks /\ SameRcv(k, ikcp_shrink_buf(k))
         /\ SndInv(ikcp_shrink_buf(k), A, n, kind)
         /\ ikcp_shrink_buf(k).snd_nxt = k.snd_nxt
<1>1. PICK u : u = IF k.snd_buf = <<>> THEN k.snd_nxt ELSE Head(k.snd_buf).sn
  OBVIOUS
<1>2. PICK j : j = [k EXCEPT !.snd_una = u]
  OBVIOUS
<1>3. ikcp_shrink_buf(k) = j
  BY <1>1, <1>2 DEF ikcp_shrink_buf
<1>4. k.snd_una \in Nat /\ k.snd_nxt \in Nat /\ k.snd_buf \in Seq(SndSegs) /\ SndWnd \in Nat
  BY BlockTypes, ConstantSizes
<1>5. \A i \in DOMAIN k.snd_buf : k.snd_buf[i].sn \in Nat
  BY <1>4, SegmentTypes
<1>6. /\ u \in Nat /\ k.snd_una <= u /\ u <= k.snd_nxt
      /\ \A i \in DOMAIN k.snd_buf : u <= k.snd_buf[i].sn
  <2>1. CASE k.snd_buf = <<>>
    BY <1>1, <1>4, <2>1 DEF SndInv
  <2>2. CASE k.snd_buf # <<>>
    <3>1. 1 \in DOMAIN k.snd_buf /\ u = k.snd_buf[1].sn
      BY <1>1, <1>4, <2>2
    <3>2. \A i \in DOMAIN k.snd_buf : i = 1 \/ 1 < i
      BY <1>4
    <3>3. \A i \in DOMAIN k.snd_buf : u <= k.snd_buf[i].sn
      BY <1>5, <3>1, <3>2 DEF SndInv, Sorted
    <3> QED
      BY <1>4, <1>5, <3>1, <3>3 DEF SndInv
  <2> QED
    BY <2>1, <2>2
<1>7. /\ j \in ControlBlocks /\ SameRcv(k, j) /\ j.snd_una = u
      /\ j.snd_nxt = k.snd_nxt /\ j.snd_queue = k.snd_queue /\ j.snd_buf = k.snd_buf
  BY <1>2, <1>6 DEF ControlBlocks, SameRcv
<1>8. SndInv(j, A, n, kind)
  <2>1. Forgets(j, A) /\ Sends(j, n, kind)
    BY <1>7 DEF SndInv, Forgets, Held, Sends
  <2> QED
    BY <1>4, <1>6, <1>7, <2>1 DEF SndInv
<1> QED
  BY <1>3, <1>7, <1>8

\* ikcp_parse_una lets go of what the peer has in order.
LEMMA UnaKeeps ==
  ASSUME NEW k \in ControlBlocks, NEW A, NEW n, NEW kind, SndInv(k, A, n, kind),
         NEW una \in Nat, \A sn \in Nat : sn < una => sn \in A
  PROVE  /\ ikcp_parse_una(k, una) \in ControlBlocks /\ SameRcv(k, ikcp_parse_una(k, una))
         /\ SndInv(ikcp_parse_una(k, una), A, n, kind)
         /\ ikcp_parse_una(k, una).snd_nxt = k.snd_nxt
<1>1. PICK buf, l, c : buf = k.snd_buf /\ l = Len(k.snd_buf) /\ c = Before(k.snd_buf, una)
  OBVIOUS
<1>2. buf \in Seq(SndSegs) /\ l \in Nat /\ DOMAIN buf = 1..l
  BY <1>1, BlockTypes
<1>3. \A i \in DOMAIN buf : buf[i].sn \in Nat
  BY <1>2, SegmentTypes
<1>4. c \in 0..l /\ \A i \in 1..c : buf[i].sn < una
  <2> DEFINE S == {m \in 0 .. l : \A i \in 1 .. m : buf[i].sn < una}
  <2>1. S \in SUBSET (0..l) /\ 0 \in S
    BY <1>2
  <2>2. c = Max(S)
    BY <1>1 DEF Before
  <2>3. Max(S) \in S
    <3> HIDE DEF S
    <3>1. S # {}
      BY <2>1
    <3> QED
      BY <1>2, <2>1, <3>1, LargestNumber
  <2> QED
    BY <2>2, <2>3
<1>5. PICK b : b = Part(buf, c + 1, l)
  OBVIOUS
<1>6. /\ b \in Seq(SndSegs) /\ DOMAIN b = 1..(l - c)
      /\ \A i \in 1..(l - c) : i + c \in DOMAIN buf /\ b[i] = buf[i + c]
  <2>1. c + 1 \in 1..(l + 1) /\ l <= Len(buf) /\ l - (c + 1) + 1 = l - c
    BY <1>1, <1>2, <1>4
  <2>2. \A i \in 1..(l - c) : i + (c + 1) - 1 = i + c
    BY <1>4
  <2>3. /\ b \in Seq(SndSegs) /\ DOMAIN b = 1..(l - (c + 1) + 1)
        /\ \A i \in 1..(l - (c + 1) + 1) : i + (c + 1) - 1 \in DOMAIN buf /\ b[i] = buf[i + (c + 1) - 1]
    <3>1. Part(buf, c + 1, l) \in Seq(SndSegs) /\ IsPart(Part(buf, c + 1, l), buf, c + 1, l)
      BY <1>2, <2>1, PartOf
    <3> QED
      BY <1>5, <3>1 DEF IsPart
  <2> QED
    BY <2>1, <2>2, <2>3
<1>7. PICK j : j = [k EXCEPT !.snd_buf = b]
  OBVIOUS
<1>8. ikcp_parse_una(k, una) = j
  BY <1>1, <1>5, <1>7 DEF ikcp_parse_una, Part
<1>9. /\ j \in ControlBlocks /\ SameRcv(k, j) /\ j.snd_buf = b
      /\ j.snd_una = k.snd_una /\ j.snd_nxt = k.snd_nxt /\ j.snd_queue = k.snd_queue
  BY <1>6, <1>7, WithBuf
<1>10. Forgets(j, A)
  <2> SUFFICES ASSUME NEW sn \in Nat, sn < j.snd_nxt, sn \notin A PROVE Held(j, sn)
    BY DEF Forgets
  <2>1. PICK i \in DOMAIN buf : buf[i].sn = sn
    BY <1>1, <1>9 DEF SndInv, Forgets, Held
  <2>2. ~ (sn < una)
    OBVIOUS
  <2>3. i - c \in 1..(l - c) /\ i - c + c = i
    BY <1>2, <1>4, <2>1, <2>2
  <2>4. b[i - c].sn = sn
    BY <1>4, <1>6, <2>1, <2>3
  <2> QED
    BY <1>6, <1>9, <2>3, <2>4 DEF Held
<1>11. Sorted(b)
  <2> SUFFICES ASSUME NEW i \in DOMAIN b, NEW h \in DOMAIN b, i < h PROVE b[i].sn < b[h].sn
    BY DEF Sorted
  <2>1. i + c \in DOMAIN buf /\ h + c \in DOMAIN buf /\ i + c < h + c
    BY <1>4, <1>6
  <2> QED
    BY <1>1, <1>6, <2>1 DEF SndInv, Sorted
<1>12. \A i \in DOMAIN b : k.snd_una <= b[i].sn /\ b[i].sn < k.snd_nxt
  BY <1>1, <1>6 DEF SndInv
<1>13. Sends(j, n, kind)
  BY <1>1, <1>6, <1>9 DEF SndInv, Sends
<1>14. SndInv(j, A, n, kind)
  BY <1>9, <1>10, <1>11, <1>12, <1>13 DEF SndInv
<1> QED
  BY <1>8, <1>9, <1>14

\* ikcp_parse_ack lets go of a segment that the peer has.
LEMMA AckKeeps ==
  ASSUME NEW k \in ControlBlocks, NEW A, NEW n, NEW kind, SndInv(k, A, n, kind),
         NEW sn \in Nat, sn \in A
  PROVE  /\ ikcp_parse_ack(k, sn) \in ControlBlocks /\ SameRcv(k, ikcp_parse_ack(k, sn))
         /\ SndInv(ikcp_parse_ack(k, sn), A, n, kind)
         /\ ikcp_parse_ack(k, sn).snd_nxt = k.snd_nxt
<1>1. PICK buf, l, d : /\ buf = k.snd_buf /\ l = Len(k.snd_buf)
                       /\ d = CHOOSE i \in DOMAIN buf : buf[i].sn = sn
  OBVIOUS
<1>2. buf \in Seq(SndSegs) /\ l \in Nat /\ DOMAIN buf = 1..l /\ Len(buf) = l
  BY <1>1, BlockTypes
<1>3. CASE ValidAck(k, sn) /\ \E i \in DOMAIN buf : buf[i].sn = sn
  <2>1. d \in 1..l /\ buf[d].sn = sn
    BY <1>1, <1>2, <1>3
  <2>2. PICK u, v, b : u = Part(buf, 1, d - 1) /\ v = Part(buf, d + 1, l) /\ b = Cat(u, v)
    OBVIOUS
  <2>3. /\ u \in Seq(SndSegs) /\ Len(u) = d - 1 /\ DOMAIN u = 1..(d - 1)
        /\ \A i \in 1..(d - 1) : u[i] = buf[i]
    <3>1. d - 1 \in Nat /\ d - 1 <= Len(buf) /\ 1 \in 1..(d - 1 + 1) /\ d - 1 - 1 + 1 = d - 1
      BY <1>2, <2>1
    <3>2. \A i \in 1..(d - 1) : i + 1 - 1 = i
      BY <2>1
    <3>3. /\ u \in Seq(SndSegs) /\ Len(u) = d - 1 - 1 + 1 /\ DOMAIN u = 1..(d - 1 - 1 + 1)
          /\ \A i \in 1..(d - 1 - 1 + 1) : u[i] = buf[i + 1 - 1]
      <4>1. Part(buf, 1, d - 1) \in Seq(SndSegs) /\ IsPart(Part(buf, 1, d - 1), buf, 1, d - 1)
        BY <1>2, <3>1, PartOf
      <4> QED
        BY <2>2, <4>1 DEF IsPart
    <3> QED
      BY <3>1, <3>2, <3>3
  <2>4. /\ v \in Seq(SndSegs) /\ DOMAIN v = 1..(l - d)
        /\ \A i \in 1..(l - d) : i + d \in DOMAIN buf /\ v[i] = buf[i + d]
    <3>1. l <= Len(buf) /\ d + 1 \in 1..(l + 1) /\ l - (d + 1) + 1 = l - d
      BY <1>2, <2>1
    <3>2. \A i \in 1..(l - d) : i + (d + 1) - 1 = i + d
      BY <2>1
    <3>3. /\ v \in Seq(SndSegs) /\ DOMAIN v = 1..(l - (d + 1) + 1)
          /\ \A i \in 1..(l - (d + 1) + 1) : i + (d + 1) - 1 \in DOMAIN buf /\ v[i] = buf[i + (d + 1) - 1]
      <4>1. Part(buf, d + 1, l) \in Seq(SndSegs) /\ IsPart(Part(buf, d + 1, l), buf, d + 1, l)
        BY <1>2, <3>1, PartOf
      <4> QED
        BY <2>2, <4>1 DEF IsPart
    <3> QED
      BY <3>1, <3>2, <3>3
  <2>5. /\ b \in Seq(SndSegs)
        /\ \A i \in DOMAIN u : i \in DOMAIN b /\ b[i] = u[i]
        /\ \A i \in DOMAIN v : i + Len(u) \in DOMAIN b /\ b[i + Len(u)] = v[i]
        /\ \A i \in DOMAIN b : i \in DOMAIN u \/ (i > Len(u) /\ i - Len(u) \in DOMAIN v)
    <3>1. u \in Seq(SndSegs) /\ v \in Seq(SndSegs)
      BY <2>3, <2>4
    <3>2. Cat(u, v) \in Seq(SndSegs) /\ IsCat(Cat(u, v), u, v)
      BY <3>1, CatOf
    <3> QED
      BY <2>2, <3>2 DEF IsCat
  <2>6. DOMAIN b \subseteq Nat
    BY <2>5
  \* Where an element of b was in buf.
  <2> DEFINE at(i) == IF i < d THEN i ELSE i + 1
  <2>7. ASSUME NEW i \in DOMAIN b PROVE at(i) \in DOMAIN buf /\ at(i) # d /\ b[i] = buf[at(i)]
    <3>1. CASE i < d
      <4>1. i \in DOMAIN u
        BY <2>1, <2>3, <2>4, <2>5, <2>6, <3>1
      <4> QED
        BY <1>2, <2>1, <2>3, <2>5, <3>1, <4>1
    <3>2. CASE ~ (i < d)
      <4>1. i > Len(u) /\ i - Len(u) \in DOMAIN v
        BY <2>1, <2>3, <2>5, <2>6, <3>2
      <4>2. i - Len(u) + Len(u) = i /\ i - Len(u) + d = i + 1
        BY <2>1, <2>3, <2>6
      <4>3. b[i] = v[i - Len(u)] /\ v[i - Len(u)] = buf[i + 1] /\ i + 1 \in DOMAIN buf
        BY <2>4, <2>5, <4>1, <4>2
      <4> QED
        BY <2>1, <2>6, <3>2, <4>3
    <3> QED
      BY <3>1, <3>2
  <2>8. ASSUME NEW i \in DOMAIN buf, i # d PROVE \E h \in DOMAIN b : b[h] = buf[i]
    <3>1. CASE i < d
      <4>1. i \in 1..(d - 1)
        BY <1>2, <2>1, <3>1
      <4> QED
        BY <2>3, <2>5, <4>1
    <3>2. CASE i > d
      <4>1. i - d \in 1..(l - d) /\ i - d + d = i
        BY <1>2, <2>1, <3>2
      <4> QED
        BY <2>4, <2>5, <4>1
    <3> QED
      BY <1>2, <2>1, <2>8, <3>1, <3>2
  <2>9. PICK j : j = [k EXCEPT !.snd_buf = b]
    OBVIOUS
  <2>10. ikcp_parse_ack(k, sn) = j
    <3>1. b = RemoveAt(buf, d)
      BY <1>2, <2>2 DEF RemoveAt, Cat, Part
    <3> QED
      BY <1>1, <1>3, <2>9, <3>1 DEF ikcp_parse_ack
  <2>11. /\ j \in ControlBlocks /\ SameRcv(k, j) /\ j.snd_buf = b
         /\ j.snd_una = k.snd_una /\ j.snd_nxt = k.snd_nxt /\ j.snd_queue = k.snd_queue
    BY <2>5, <2>9, WithBuf
  <2>12. Forgets(j, A)
    <3> SUFFICES ASSUME NEW x \in Nat, x < j.snd_nxt, x \notin A PROVE Held(j, x)
      BY DEF Forgets
    <3>1. PICK i \in DOMAIN buf : buf[i].sn = x
      BY <1>1, <2>11 DEF SndInv, Forgets, Held
    <3>2. i # d
      BY <2>1, <3>1
    <3> QED
      BY <2>8, <2>11, <3>1, <3>2 DEF Held
  <2>13. Sorted(b)
    <3> SUFFICES ASSUME NEW i \in DOMAIN b, NEW h \in DOMAIN b, i < h PROVE b[i].sn < b[h].sn
      BY DEF Sorted
    <3>1. at(i) < at(h)
      BY <2>1, <2>6
    <3> HIDE DEF at
    <3> QED
      BY <1>1, <2>7, <3>1 DEF SndInv, Sorted
  <2>14. \A i \in DOMAIN b : k.snd_una <= b[i].sn /\ b[i].sn < k.snd_nxt
    <3> HIDE DEF at
    <3> QED
      BY <1>1, <2>7 DEF SndInv
  <2>15. Sends(j, n, kind)
    <3> HIDE DEF at
    <3> QED
      BY <1>1, <2>7, <2>11 DEF SndInv, Sends
  <2>16. SndInv(j, A, n, kind)
    BY <2>11, <2>12, <2>13, <2>14, <2>15 DEF SndInv
  <2> QED
    BY <2>10, <2>11, <2>16
<1>4. CASE ~ (ValidAck(k, sn) /\ \E i \in DOMAIN buf : buf[i].sn = sn)
  BY <1>1, <1>4 DEF ikcp_parse_ack, SameRcv
<1> QED
  BY <1>3, <1>4

\* The same segments, marked otherwise.
SameSeg(s, t) == s.sn = t.sn /\ s.frg = t.frg /\ s.len = t.len /\ s.msg = t.msg
SameSegs(b, buf) ==
  /\ DOMAIN b = DOMAIN buf
  /\ \A i \in DOMAIN b : SameSeg(b[i], buf[i])

\* A segment-wise change that leaves numbers and payloads alone.
LEMMA MapsSegs ==
  ASSUME NEW buf \in Seq(SndSegs), NEW b, DOMAIN b = DOMAIN buf, b = [i \in DOMAIN buf |-> b[i]],
         \A i \in DOMAIN buf : b[i] \in SndSegs /\ SameSeg(b[i], buf[i])
  PROVE  b \in Seq(SndSegs) /\ SameSegs(b, buf)
<1>1. PICK l \in Nat : DOMAIN buf = 1..l
  BY ElementsOf
<1>2. b = [i \in 1..l |-> b[i]] /\ \A i \in 1..l : b[i] \in SndSegs
  BY <1>1
<1>3. b \in Seq(SndSegs)
  BY <1>2
<1> QED
  BY <1>3 DEF SameSegs

\* Marking segments (resent, skipped, due) keeps the sending half.
LEMMA MarkKeeps ==
  ASSUME NEW k \in ControlBlocks, NEW A, NEW n, NEW kind, SndInv(k, A, n, kind),
         NEW b \in Seq(SndSegs), SameSegs(b, k.snd_buf),
         NEW j, j = [k EXCEPT !.snd_buf = b]
  PROVE  j \in ControlBlocks /\ SameRcv(k, j) /\ SndInv(j, A, n, kind) /\ j.snd_nxt = k.snd_nxt
<1>1. /\ j \in ControlBlocks /\ SameRcv(k, j) /\ j.snd_buf = b
      /\ j.snd_una = k.snd_una /\ j.snd_nxt = k.snd_nxt /\ j.snd_queue = k.snd_queue
  BY WithBuf
<1>2. PICK buf : buf = k.snd_buf
  OBVIOUS
<1>3. /\ DOMAIN b = DOMAIN buf
      /\ \A i \in DOMAIN b : SameSeg(b[i], buf[i])
  BY <1>2 DEF SameSegs
<1>4. Forgets(j, A)
  BY <1>1, <1>2, <1>3 DEF SndInv, Forgets, Held, SameSeg
<1>5. Sorted(b)
  BY <1>2, <1>3 DEF SndInv, Sorted, SameSeg
<1>6. \A i \in DOMAIN b : k.snd_una <= b[i].sn /\ b[i].sn < k.snd_nxt
  BY <1>2, <1>3 DEF SndInv, SameSeg
<1>7. Sends(j, n, kind)
  BY <1>1, <1>2, <1>3 DEF SndInv, Sends, Sound, SameSeg
<1>8. SndInv(j, A, n, kind)
  BY <1>1, <1>4, <1>5, <1>6, <1>7 DEF SndInv
<1> QED
  BY <1>1, <1>8

\* ikcp_parse_fastack marks segments only.
LEMMA FastackKeeps ==
  ASSUME NEW k \in ControlBlocks, NEW A, NEW n, NEW kind, SndInv(k, A, n, kind), NEW sn \in Int
  PROVE  /\ ikcp_parse_fastack(k, sn) \in ControlBlocks /\ SameRcv(k, ikcp_parse_fastack(k, sn))
         /\ SndInv(ikcp_parse_fastack(k, sn), A, n, kind)
         /\ ikcp_parse_fastack(k, sn).snd_nxt = k.snd_nxt
<1>1. k.snd_buf \in Seq(SndSegs)
  BY BlockTypes
<1>2. CASE ValidAck(k, sn)
  <2>1. PICK b : b = [i \in DOMAIN k.snd_buf |-> PassedOver(k.snd_buf[i], sn)]
    OBVIOUS
  <2>2. PICK j : j = [k EXCEPT !.snd_buf = b]
    OBVIOUS
  <2>3. ikcp_parse_fastack(k, sn) = j
    BY <1>2, <2>1, <2>2 DEF ikcp_parse_fastack
  <2>4. ASSUME NEW s \in SndSegs
        PROVE  /\ PassedOver(s, sn) \in SndSegs
               /\ SameSeg(PassedOver(s, sn), s)
    <3>1. PICK x \in Nat : x = Least(s.fastack + 1, Resend)
      BY ConstantSizes DEF SndSegs, Least
    <3>2. PassedOver(s, sn) = IF s.sn < sn THEN [s EXCEPT !.fastack = x] ELSE s
      BY <3>1 DEF PassedOver
    <3> QED
      BY <3>2 DEF SndSegs, SameSeg
  <2>5. b \in Seq(SndSegs) /\ SameSegs(b, k.snd_buf)
    <3>1. DOMAIN b = DOMAIN k.snd_buf /\ b = [i \in DOMAIN k.snd_buf |-> b[i]]
      BY <2>1
    <3>2. \A i \in DOMAIN k.snd_buf :
            b[i] \in SndSegs /\ SameSeg(b[i], k.snd_buf[i])
      BY <1>1, <2>1, <2>4, SegmentTypes
    <3> QED
      BY <1>1, <3>1, <3>2, MapsSegs
  <2> QED
    BY <2>2, <2>3, <2>5, MarkKeeps
<1>3. CASE ~ ValidAck(k, sn)
  BY <1>3 DEF ikcp_parse_fastack, SameRcv
<1> QED
  BY <1>2, <1>3

\* The congestion window is another matter.
LEMMA GrowKeeps ==
  ASSUME NEW k \in ControlBlocks
  PROVE  GrowWindow(k) \in ControlBlocks /\ SameRcv(k, GrowWindow(k)) /\ SameSnd(k, GrowWindow(k))
<1>1. /\ k.cwnd \in Int /\ k.incr \in Int /\ k.rmt_wnd \in Int /\ Mss \in Nat \ {0}
  BY BlockTypes, ConstantSizes
<1>2. PICK a : a = Most(k.incr, Mss)
  OBVIOUS
<1>3. a \in Nat \ {0}
  BY <1>1, <1>2 DEF Most
<1>4. Mss * Mss \in Int /\ (Mss * Mss) \div a \in Int /\ Mss \div 16 \in Int
  <2>1. PICK m \in Int : m = Mss * Mss
    BY <1>1
  <2>2. m \div a \in Int
    BY <1>3, <2>1
  <2> QED
    BY <1>1, <2>1, <2>2
<1>5. PICK slow : slow = (k.cwnd < k.ssthresh)
  OBVIOUS
<1>6. PICK incr : incr = IF slow THEN k.incr + Mss ELSE a + (Mss * Mss) \div a + Mss \div 16
  OBVIOUS
<1>7. incr \in Int
  <2>1. PICK x \in Int, y \in Int : x = (Mss * Mss) \div a /\ y = Mss \div 16
    BY <1>4
  <2> QED
    BY <1>1, <1>3, <1>6, <2>1
<1>8. (incr + Mss - 1) \div Mss \in Int
  <2>1. PICK m \in Int : m = incr + Mss - 1
    BY <1>1, <1>7
  <2> QED
    BY <1>1, <2>1
<1>9. PICK cwnd : cwnd = IF slow THEN k.cwnd + 1
              ELSE IF (k.cwnd + 1) * Mss <= incr THEN (incr + Mss - 1) \div Mss
              ELSE k.cwnd
  OBVIOUS
<1>10. cwnd \in Int
  BY <1>1, <1>8, <1>9
<1>11. PICK c, i : c = Least(cwnd, k.rmt_wnd) /\ i = IF cwnd > k.rmt_wnd THEN k.rmt_wnd * Mss ELSE incr
  OBVIOUS
<1>12. c \in Int /\ i \in Int
  <2>1. k.rmt_wnd * Mss \in Int
    BY <1>1
  <2> QED
    BY <1>1, <1>7, <1>10, <1>11, <2>1 DEF Least
<1>13. GrowWindow(k) = IF k.cwnd >= k.rmt_wnd THEN k ELSE [k EXCEPT !.cwnd = c, !.incr = i]
  BY <1>2, <1>5, <1>6, <1>9, <1>11 DEF GrowWindow
<1>14. PICK j : j = [k EXCEPT !.cwnd = c, !.incr = i]
  OBVIOUS
<1>15. j \in ControlBlocks /\ SameRcv(k, j) /\ SameSnd(k, j)
  BY <1>12, <1>14 DEF ControlBlocks, SameRcv, SameSnd
<1> QED
  BY <1>13, <1>14, <1>15 DEF SameRcv, SameSnd

\* The congestion window after a loss touches neither half.
LEMMA BackoffKeeps ==
  ASSUME NEW k \in ControlBlocks, NEW wnd \in Int, NEW change, NEW lost
  PROVE  /\ Backoff(k, wnd, change, lost) \in ControlBlocks
         /\ SameRcv(k, Backoff(k, wnd, change, lost)) /\ SameSnd(k, Backoff(k, wnd, change, lost))
<1>1. Mss \in Nat \ {0} /\ Resend \in Nat \ {0} /\ k.snd_nxt \in Nat /\ k.snd_una \in Nat
  BY BlockTypes, ConstantSizes
<1>2. PICK half, w, one, mss : /\ half = Most((k.snd_nxt - k.snd_una) \div 2, 2)
                               /\ w = Most(wnd \div 2, 2) /\ one = 1 /\ mss = Mss
  OBVIOUS
<1>3. half \in Int /\ w \in Int /\ one \in Int /\ mss \in Int
  <2>1. (k.snd_nxt - k.snd_una) \div 2 \in Int /\ wnd \div 2 \in Int
    BY <1>1
  <2> QED
    BY <1>1, <1>2, <2>1 DEF Most
<1>4. half + Resend \in Int /\ (half + Resend) * Mss \in Int
  <2>1. PICK x \in Int : x = half + Resend
    BY <1>1, <1>3
  <2>2. x * Mss \in Int
    BY <1>1, <2>1
  <2> QED
    BY <2>1, <2>2
<1>5. PICK x, y : x = half + Resend /\ y = (half + Resend) * Mss
  OBVIOUS
<1>6. PICK k1 : k1 = IF change THEN [k EXCEPT !.ssthresh = half, !.cwnd = x, !.incr = y] ELSE k
  OBVIOUS
<1>7. k1 \in ControlBlocks /\ SameRcv(k, k1) /\ SameSnd(k, k1)
  BY <1>3, <1>4, <1>5, <1>6 DEF ControlBlocks, SameRcv, SameSnd
<1>8. PICK k2 : k2 = IF lost THEN [k1 EXCEPT !.ssthresh = w, !.cwnd = one, !.incr = mss] ELSE k1
  OBVIOUS
<1>9. k2 \in ControlBlocks /\ SameRcv(k1, k2) /\ SameSnd(k1, k2)
  <2>1. k1 \in ControlBlocks
    BY <1>7
  <2>2. k2 \in ControlBlocks
    BY <1>3, <1>8, <2>1 DEF ControlBlocks
  <2>3. SameRcv(k1, k2) /\ SameSnd(k1, k2)
    BY <1>3, <1>8, <2>1 DEF ControlBlocks, SameRcv, SameSnd
  <2> QED
    BY <2>2, <2>3
<1>10. PICK k3 : k3 = IF k2.cwnd < 1 THEN [k2 EXCEPT !.cwnd = one, !.incr = mss] ELSE k2
  OBVIOUS
<1>11. k3 \in ControlBlocks /\ SameRcv(k2, k3) /\ SameSnd(k2, k3)
  <2>1. k2 \in ControlBlocks
    BY <1>9
  <2>2. k3 \in ControlBlocks
    BY <1>3, <1>10, <2>1 DEF ControlBlocks
  <2>3. SameRcv(k2, k3) /\ SameSnd(k2, k3)
    BY <1>3, <1>10, <2>1 DEF ControlBlocks, SameRcv, SameSnd
  <2> QED
    BY <2>2, <2>3
<1>12. Backoff(k, wnd, change, lost) = k3
  BY <1>2, <1>5, <1>6, <1>8, <1>10 DEF Backoff
<1> QED
  BY <1>7, <1>9, <1>11, <1>12 DEF SameRcv, SameSnd

\* Least and Most are one of their arguments.
LEMMA LeastMost ==
  ASSUME NEW a \in Int, NEW b \in Int
  PROVE  /\ Least(a, b) \in {a, b} /\ Least(a, b) <= a /\ Least(a, b) <= b
         /\ Most(a, b) \in {a, b} /\ a <= Most(a, b) /\ b <= Most(a, b)
  BY DEF Least, Most

\* The window is never larger than SndWnd.
LEMMA WindowIs ==
  ASSUME NEW k \in ControlBlocks
  PROVE  Window(k) \in Int /\ Window(k) <= SndWnd
<1>1. k.cwnd \in Int /\ k.rmt_wnd \in Int /\ SndWnd \in Int
  BY BlockTypes, ConstantSizes
<1>2. Least(SndWnd, k.rmt_wnd) \in Int /\ Least(SndWnd, k.rmt_wnd) <= SndWnd
  BY <1>1 DEF Least
<1> QED
  BY <1>1, <1>2 DEF Window, Least

\* The segments moved to snd_buf continue the numbering, within the window.
\* The segments moved to snd_buf continue the numbering, within the window.
LEMMA AdmitKeeps ==
  ASSUME NEW k \in ControlBlocks, NEW A, NEW n, NEW kind \in {"clean", "long"}, SndInv(k, A, n, kind)
  PROVE  /\ Admit(k) \in ControlBlocks /\ SameRcv(k, Admit(k))
         /\ SndInv(Admit(k), A, n, kind) /\ k.snd_nxt <= Admit(k).snd_nxt
<1>1. PICK queue, buf, nxt, l, ll, a :
        /\ queue = k.snd_queue /\ buf = k.snd_buf /\ nxt = k.snd_nxt
        /\ l = Len(queue) /\ ll = Len(buf)
        /\ a = Least(Len(k.snd_queue), Most(k.snd_una + Window(k) - k.snd_nxt, 0))
  OBVIOUS
<1>2. /\ queue \in Seq(QueueSegs) /\ buf \in Seq(SndSegs) /\ nxt \in Nat /\ k.snd_una \in Nat
      /\ l \in Nat /\ ll \in Nat /\ DOMAIN queue = 1..l /\ DOMAIN buf = 1..ll
      /\ Window(k) \in Int /\ Window(k) <= SndWnd /\ SndWnd \in Nat
  BY <1>1, BlockTypes, ConstantSizes, WindowIs
<1>3. a \in 0..l /\ (a = 0 \/ nxt + a <= k.snd_una + SndWnd)
  <2>1. PICK d \in Int : d = k.snd_una + Window(k) - k.snd_nxt
    BY <1>1, <1>2
  <2>2. a = Least(l, Most(d, 0))
    BY <1>1, <2>1
  <2>3. Most(d, 0) \in Nat /\ (Most(d, 0) = 0 \/ Most(d, 0) = d)
    BY <2>1 DEF Most
  <2>4. a \in 0..l /\ a <= Most(d, 0)
    BY <1>2, <2>2, <2>3 DEF Least
  <2> QED
    BY <1>1, <1>2, <2>1, <2>3, <2>4
<1>4. PICK new : new = [i \in 1..a |-> NewSeg(k, i)]
  OBVIOUS
<1>5. ASSUME NEW i \in 1..a
      PROVE  /\ i \in DOMAIN queue /\ new[i] \in SndSegs
             /\ new[i].sn = nxt + i - 1
             /\ new[i].frg = queue[i].frg /\ new[i].len = queue[i].len /\ new[i].msg = queue[i].msg
  <2>1. i \in DOMAIN queue /\ nxt + i - 1 \in Nat
    BY <1>2, <1>3
  <2>2. queue[i] \in QueueSegs
    BY <1>2, <2>1, ElementsOf
  <2>3. PICK x : x = nxt + i - 1
    OBVIOUS
  <2>4. new[i] = [sn |-> x, frg |-> queue[i].frg, len |-> queue[i].len,
                  msg |-> queue[i].msg, xmit |-> 0, fastack |-> 0, due |-> FALSE]
    BY <1>1, <1>4, <2>3 DEF NewSeg
  <2>5. new[i] \in SndSegs
    BY <2>1, <2>2, <2>3, <2>4 DEF SndSegs, QueueSegs
  <2> QED
    BY <2>1, <2>3, <2>4, <2>5
<1>6. new \in Seq(SndSegs) /\ Len(new) = a /\ DOMAIN new = 1..a
  <2>1. a \in Nat /\ \A i \in 1..a : new[i] \in SndSegs
    BY <1>3, <1>5
  <2> QED
    BY <1>4, <2>1
<1>7. PICK b, rest : b = Cat(buf, new) /\ rest = Part(queue, a + 1, l)
  OBVIOUS
<1>8. b \in Seq(SndSegs) /\ IsCat(b, buf, new)
  BY <1>2, <1>6, <1>7, CatOf
<1>9. /\ rest \in Seq(QueueSegs) /\ Len(rest) = l - a /\ DOMAIN rest = 1..(l - a)
      /\ \A i \in 1..(l - a) : i + a \in DOMAIN queue /\ rest[i] = queue[i + a]
  <2>1. a + 1 \in 1..(l + 1) /\ l <= Len(queue) /\ l - (a + 1) + 1 = l - a
    <3>1. l \in Nat /\ a \in 0..l /\ Len(queue) = l
      BY <1>1, <1>2, <1>3
    <3>2. a + 1 \in 1..(l + 1)
      BY <3>1
    <3>3. l - (a + 1) + 1 = l - a
      BY <3>1
    <3> QED
      BY <3>1, <3>2, <3>3
  <2>2. \A i \in 1..(l - a) : i + (a + 1) - 1 = i + a
    BY <1>3
  <2>3. Part(queue, a + 1, l) \in Seq(QueueSegs) /\ IsPart(Part(queue, a + 1, l), queue, a + 1, l)
    BY <1>2, <2>1, PartOf
  <2>4. /\ rest \in Seq(QueueSegs) /\ Len(rest) = l - (a + 1) + 1
        /\ DOMAIN rest = 1..(l - (a + 1) + 1)
        /\ \A i \in 1..(l - (a + 1) + 1) : i + (a + 1) - 1 \in DOMAIN queue /\ rest[i] = queue[i + (a + 1) - 1]
    BY <1>7, <2>3 DEF IsPart
  <2> QED
    BY <2>1, <2>2, <2>4
<1>10. PICK x, j : x = nxt + a /\ j = [k EXCEPT !.snd_buf = b, !.snd_queue = rest, !.snd_nxt = x]
  OBVIOUS
<1>11. Admit(k) = j
  BY <1>1, <1>4, <1>7, <1>10 DEF Admit, Cat, Part
<1>12. x \in Nat /\ nxt <= x
  BY <1>2, <1>3, <1>10
<1>13. /\ j \in ControlBlocks /\ SameRcv(k, j)
       /\ j.snd_una = k.snd_una /\ j.snd_nxt = x /\ j.snd_queue = rest /\ j.snd_buf = b
  <2>1. j \in ControlBlocks
    BY <1>8, <1>9, <1>10, <1>12 DEF ControlBlocks
  <2> QED
    BY <1>10, <2>1 DEF ControlBlocks, SameRcv
<1>14. Len(buf) = ll /\ Len(new) = a
  BY <1>1, <1>6
\* An element of b is one of buf or a new one.
<1>15. ASSUME NEW i \in DOMAIN b
       PROVE  \/ i \in DOMAIN buf /\ b[i] = buf[i]
              \/ i > ll /\ i - ll \in 1..a /\ b[i] = new[i - ll]
  <2>1. i \in DOMAIN buf \/ (i > ll /\ i - ll \in 1..a)
    BY <1>6, <1>8, <1>14 DEF IsCat
  <2>2. CASE i \in DOMAIN buf
    BY <1>8, <2>2 DEF IsCat
  <2>3. CASE i > ll /\ i - ll \in 1..a
    <3>1. b[(i - ll) + ll] = new[i - ll]
      BY <1>6, <1>8, <1>14, <2>3 DEF IsCat
    <3>2. DOMAIN b \subseteq Int
      BY <1>8
    <3>3. (i - ll) + ll = i
      BY <1>2, <3>2
    <3> QED
      BY <2>3, <3>1, <3>3
  <2> QED
    BY <2>1, <2>2, <2>3
<1>16. DOMAIN b \subseteq Int /\ \A i \in DOMAIN b : b[i].sn \in Nat
  BY <1>8, SegmentTypes
\* The numbers of the elements.
<1>17. ASSUME NEW i \in DOMAIN b
       PROVE  \/ i \in DOMAIN buf /\ b[i] = buf[i] /\ i <= ll /\ b[i].sn < nxt /\ k.snd_una <= b[i].sn
              \/ i > ll /\ i - ll \in 1..a /\ b[i].sn = nxt + (i - ll) - 1
  <2>1. CASE i \in DOMAIN buf /\ b[i] = buf[i]
    <3>1. i <= ll
      BY <1>2, <2>1
    <3>2. k.snd_una <= buf[i].sn /\ buf[i].sn < nxt
      BY <1>1, <2>1 DEF SndInv
    <3> QED
      BY <2>1, <3>1, <3>2
  <2>2. CASE i > ll /\ i - ll \in 1..a /\ b[i] = new[i - ll]
    BY <1>5, <2>2
  <2> QED
    BY <1>15, <2>1, <2>2
<1>18. Forgets(j, A)
  <2> SUFFICES ASSUME NEW sn \in Nat, sn < x, sn \notin A PROVE Held(j, sn)
    BY <1>13 DEF Forgets
  <2>1. CASE sn < nxt
    <3>1. PICK i \in DOMAIN buf : buf[i].sn = sn
      BY <1>1, <2>1 DEF SndInv, Forgets, Held
    <3>2. i \in DOMAIN b /\ b[i] = buf[i]
      BY <1>8 DEF IsCat
    <3> QED
      BY <1>13, <3>1, <3>2 DEF Held
  <2>2. CASE ~ (sn < nxt)
    <3>1. sn - nxt + 1 \in 1..a
      BY <1>2, <1>3, <1>10, <2>2
    <3>2. PICK i \in 1..a : i = sn - nxt + 1
      BY <3>1
    <3>3. new[i].sn = sn
      <4>1. nxt + i - 1 = sn
        BY <1>2, <3>2
      <4> QED
        BY <1>5, <4>1
    <3>4. i + ll \in DOMAIN b /\ b[i + ll] = new[i]
      BY <1>6, <1>8, <1>14 DEF IsCat
    <3> QED
      BY <1>13, <3>3, <3>4 DEF Held
  <2> QED
    BY <2>1, <2>2
<1>19. Sorted(b)
  <2> SUFFICES ASSUME NEW i \in DOMAIN b, NEW h \in DOMAIN b, i < h PROVE b[i].sn < b[h].sn
    BY DEF Sorted
  <2>1. i \in Int /\ h \in Int
    BY <1>16
  <2>2. CASE h \in DOMAIN buf /\ b[h] = buf[h] /\ h <= ll
    <3>1. i \in DOMAIN buf /\ b[i] = buf[i]
      BY <1>2, <1>17, <2>1, <2>2
    <3> QED
      BY <1>1, <2>2, <3>1 DEF SndInv, Sorted
  <2>3. CASE h > ll /\ h - ll \in 1..a /\ b[h].sn = nxt + (h - ll) - 1
    <3>1. CASE i <= ll /\ b[i].sn < nxt
      BY <1>2, <1>16, <2>1, <2>3, <3>1
    <3>2. CASE i > ll /\ i - ll \in 1..a /\ b[i].sn = nxt + (i - ll) - 1
      BY <1>2, <2>1, <2>3, <3>2
    <3> QED
      BY <1>17, <3>1, <3>2
  <2> QED
    BY <1>17, <2>2, <2>3
<1>20. \A i \in DOMAIN b : k.snd_una <= b[i].sn /\ b[i].sn < x
  <2> SUFFICES ASSUME NEW i \in DOMAIN b PROVE k.snd_una <= b[i].sn /\ b[i].sn < x
    OBVIOUS
  <2>1. i \in Int /\ b[i].sn \in Nat
    BY <1>16
  <2>2. k.snd_una <= nxt
    BY <1>1 DEF SndInv
  <2>3. CASE b[i].sn < nxt /\ k.snd_una <= b[i].sn
    BY <1>2, <1>12, <2>1, <2>3
  <2>4. CASE i > ll /\ i - ll \in 1..a /\ b[i].sn = nxt + (i - ll) - 1
    <3>1. PICK h \in 1..a : h = i - ll /\ b[i].sn = nxt + h - 1
      BY <2>4
    <3>2. nxt <= b[i].sn /\ b[i].sn < nxt + a
      BY <1>2, <1>3, <3>1
    <3> QED
      BY <1>2, <1>3, <1>10, <2>1, <2>2, <3>2
  <2> QED
    BY <1>17, <2>3, <2>4
<1>21. Sends(j, n, kind)
  <2>1. ASSUME kind = "clean"
        PROVE  /\ x + Len(rest) = n
               /\ \A i \in DOMAIN rest : rest[i].frg = 0 /\ rest[i].msg = x + i
    <3>1. nxt + l = n /\ \A i \in DOMAIN queue : queue[i].frg = 0 /\ queue[i].msg = nxt + i
      BY <1>1, <2>1 DEF SndInv, Sends
    <3>2. x + Len(rest) = n
      BY <1>2, <1>3, <1>9, <1>10, <3>1
    <3>3. ASSUME NEW i \in DOMAIN rest PROVE rest[i].frg = 0 /\ rest[i].msg = x + i
      <4>1. rest[i] = queue[i + a] /\ i + a \in DOMAIN queue /\ i \in Int
        BY <1>9
      <4>2. nxt + (i + a) = x + i
        BY <1>2, <1>3, <1>10, <4>1
      <4> QED
        BY <3>1, <4>1, <4>2
    <3> QED
      BY <3>2, <3>3
  <2>2. ASSUME kind = "long", x = 0, rest # <<>> PROVE rest[1].len > RecvBuf
    <3>1. nxt = 0 /\ a = 0
      BY <1>2, <1>3, <1>10, <2>2
    <3>2. l - a # 0
      BY <1>9, <2>2
    <3>3. 1 \in 1..(l - a) /\ 1 + a = 1 /\ queue # <<>>
      BY <1>1, <1>2, <1>3, <3>1, <3>2
    <3>4. rest[1] = queue[1]
      BY <1>9, <3>3
    <3> QED
      BY <1>1, <2>2, <3>1, <3>3, <3>4 DEF SndInv, Sends
  <2>3. ASSUME NEW i \in DOMAIN b PROVE Sound(b[i], x, kind)
    <3>1. CASE i \in DOMAIN buf /\ b[i] = buf[i]
      <4>1. Sound(b[i], nxt, kind)
        BY <1>1, <3>1 DEF SndInv, Sends
      <4> QED
        BY <1>2, <1>12, <1>16, <4>1, SoundStays
    <3>2. CASE i > ll /\ i - ll \in 1..a /\ b[i] = new[i - ll]
      <4>1. PICK h \in 1..a : h = i - ll
        BY <3>2
      <4>2. /\ b[i].sn = nxt + h - 1 /\ b[i].frg = queue[h].frg /\ b[i].len = queue[h].len
            /\ b[i].msg = queue[h].msg /\ h \in DOMAIN queue
        BY <1>5, <3>2, <4>1
      <4>3. nxt + h = (nxt + h - 1) + 1 /\ nxt + h - 1 < x /\ (nxt + h - 1 = 0 => h = 1 /\ nxt = 0)
        BY <1>2, <1>3, <1>10, <4>1
      <4>4. kind # "torn"
        OBVIOUS
      <4>5. kind = "clean" => b[i].frg = 0 /\ b[i].sn < x /\ b[i].msg = b[i].sn + 1
        BY <1>1, <4>2, <4>3 DEF SndInv, Sends
      <4>6. ASSUME kind = "long", b[i].sn = 0 PROVE b[i].len > RecvBuf
        <5>1. h = 1 /\ nxt = 0 /\ queue # <<>>
          BY <1>2, <4>2, <4>3, <4>6
        <5> QED
          BY <1>1, <4>2, <4>6, <5>1 DEF SndInv, Sends
      <4> QED
        BY <4>4, <4>5, <4>6 DEF Sound, Arrived
    <3> QED
      BY <1>15, <3>1, <3>2
  <2> QED
    BY <1>13, <2>1, <2>2, <2>3 DEF Sends
<1>22. k.snd_una <= x /\ x <= k.snd_una + SndWnd
  <2>1. k.snd_una <= nxt /\ nxt <= k.snd_una + SndWnd
    BY <1>1 DEF SndInv
  <2> QED
    BY <1>2, <1>3, <1>10, <1>12, <2>1
<1>23. SndInv(j, A, n, kind)
  BY <1>13, <1>18, <1>19, <1>20, <1>21, <1>22 DEF SndInv
<1> QED
  BY <1>1, <1>11, <1>12, <1>13, <1>23

\* More is told of a peer that has received more and sent more.
LEMMA TellsMore ==
  ASSUME NEW A, NEW B, A \subseteq B, NEW nxt \in Nat, NEW x \in Nat, nxt <= x, NEW way
  PROVE  Told(A, nxt, way) \subseteq Told(B, x, way)
<1> SUFFICES ASSUME NEW h \in Told(A, nxt, way) PROVE h \in Told(B, x, way)
  OBVIOUS
<1>1. h \in Segs /\ HeaderOk(h, A, nxt, way) /\ h.sn \in Nat
  BY DEF Told, Segs
<1>2. Sound(h, nxt, way) => Sound(h, x, way)
  BY <1>1, SoundStays
<1>3. HeaderOk(h, B, x, way)
  BY <1>1, <1>2 DEF HeaderOk
<1> QED
  BY <1>1, <1>3 DEF Told

Packed(S) == [out : Seq(Seq(S)), cur : Seq(S)]

\* One more segment, in this datagram or the next.
LEMMA PackSegStays ==
  ASSUME NEW S, NEW st \in Packed(S), NEW s \in S
  PROVE  PackSeg(st, s) \in Packed(S)
<1>1. st \in [out : Seq(Seq(S)), cur : Seq(S)]
  BY DEF Packed
<1>2. PICK o, c, a, b : o = st.out /\ c = Append(st.cur, s) /\ a = Append(st.out, st.cur) /\ b = <<s>>
  OBVIOUS
<1>3. o \in Seq(Seq(S)) /\ c \in Seq(S) /\ a \in Seq(Seq(S)) /\ b \in Seq(S)
  BY <1>1, <1>2
<1>4. PackSeg(st, s) = [out |-> a, cur |-> b] \/ PackSeg(st, s) = [st EXCEPT !.cur = c]
  BY <1>2 DEF PackSeg
<1>5. [st EXCEPT !.cur = c] = [out |-> o, cur |-> c]
  <2>1. PICK x : st = [out |-> o, cur |-> x]
    BY <1>1, <1>2
  <2> QED
    BY <2>1
<1>6. [out |-> a, cur |-> b] \in Packed(S) /\ [out |-> o, cur |-> c] \in Packed(S)
  BY <1>3 DEF Packed
<1> QED
  BY <1>4, <1>5, <1>6

\* Datagrams are made of the segments that are packed.
LEMMA PackIs ==
  ASSUME NEW S, NEW segs \in Seq(S)
  PROVE  Pack(segs) \in Seq(Seq(S))
<1>1. PICK N, T, b : N = Len(segs) /\ T = Packed(S) /\ b = [out |-> <<>>, cur |-> <<>>]
  OBVIOUS
<1>2. N \in Nat /\ \A i \in 1..N : segs[i] \in S
  BY <1>1, ElementsOf
<1>3. b \in T
  BY <1>1 DEF Packed
<1>4. PICK g : g = [i \in 1..N |-> [st \in T |-> PackSeg(st, segs[i])]]
  OBVIOUS
<1>5. g \in [1..N -> [T -> T]]
  <2>1. ASSUME NEW i \in 1..N, NEW st \in T PROVE PackSeg(st, segs[i]) \in T
    BY <1>1, <1>2, PackSegStays
  <2>2. \A i \in 1..N : [st \in T |-> PackSeg(st, segs[i])] \in [T -> T]
    BY <2>1
  <2> QED
    BY <1>4, <2>2
<1>6. PICK f : IsWalk(f, N, b, g) /\ \A i \in 0..N : f[i] \in T
  BY <1>2, <1>3, <1>5, TypedIterates
<1> DEFINE Walk(h) == h = [i \in 0..N |-> IF i = 0 THEN b ELSE PackSeg(h[i - 1], segs[i])]
<1>7. Walk(f)
  <2>1. f = [i \in 0..N |-> IF i = 0 THEN b ELSE g[i][f[i - 1]]]
    BY <1>6 DEF IsWalk
  <2>2. \A i \in 0..N : i # 0 => g[i][f[i - 1]] = PackSeg(f[i - 1], segs[i])
    BY <1>2, <1>4, <1>6
  <2> QED
    BY <2>1, <2>2
<1> DEFINE packed == CHOOSE h : Walk(h)
<1>8. Pack(segs) = IF packed[N].cur = <<>> THEN packed[N].out ELSE Append(packed[N].out, packed[N].cur)
  BY <1>1 DEF Pack
<1>9. Walk(packed)
  <2> HIDE DEF Walk
  <2> QED
    BY <1>7
<1>10. \A i \in 0..N : packed[i] \in T
  <2> DEFINE B == {i \in 0..N : packed[i] \in T}
  <2> HIDE DEF packed
  <2>1. 0 \in B
    BY <1>2, <1>3, <1>9
  <2>2. ASSUME NEW i \in 1..N, i - 1 \in B PROVE i \in B
    <3>1. i \in 0..N /\ i # 0 /\ packed[i - 1] \in T
      BY <2>2
    <3>2. packed[i] = PackSeg(packed[i - 1], segs[i])
      BY <1>9, <3>1
    <3>3. packed[i] \in T
      BY <1>1, <1>2, <3>1, <3>2, PackSegStays
    <3> QED
      BY <3>1, <3>3
  <2>3. \A i \in 0..N : i \in B
    <3> HIDE DEF B
    <3> QED
      BY <1>2, <2>1, <2>2, GoesOn
  <2> QED
    BY <2>3
<1> HIDE DEF packed
<1>11. packed[N] \in [out : Seq(Seq(S)), cur : Seq(S)]
  BY <1>1, <1>2, <1>10 DEF Packed
<1>12. Append(packed[N].out, packed[N].cur) \in Seq(Seq(S)) /\ packed[N].out \in Seq(Seq(S))
  BY <1>11
<1> QED
  BY <1>1, <1>8, <1>12


\* The segments that are sent are segments of the buffer.
LEMMA PushesAre ==
  ASSUME NEW S, NEW k, NEW buf, NEW N \in Nat, N = Len(buf), \A i \in 1..N : Push(k, buf[i]) \in S
  PROVE  Pushes(k, buf) \in Seq(S)
<1>1. PICK T, b : T = Seq(S) /\ b = <<>>
  OBVIOUS
<1>2. b \in T
  BY <1>1
<1> DEFINE Step(a, i) == IF NeedSend(buf[i]) THEN Append(a, Push(k, buf[i])) ELSE a
<1>3. ASSUME NEW i \in 1..N, NEW a \in T PROVE Step(a, i) \in T
  BY <1>1
<1> HIDE DEF Step
<1>4. PICK g : g = [i \in 1..N |-> [a \in T |-> Step(a, i)]]
  OBVIOUS
<1>5. g \in [1..N -> [T -> T]]
  BY <1>3, <1>4
<1>6. PICK f : IsWalk(f, N, b, g) /\ \A i \in 0..N : f[i] \in T
  BY <1>2, <1>5, TypedIterates
<1> DEFINE Walk(h) == h = [i \in 0..N |-> IF i = 0 THEN b ELSE Step(h[i - 1], i)]
<1>7. Walk(f)
  <2>1. f = [i \in 0..N |-> IF i = 0 THEN b ELSE g[i][f[i - 1]]]
    BY <1>6 DEF IsWalk
  <2>2. \A i \in 0..N : i # 0 => g[i][f[i - 1]] = Step(f[i - 1], i)
    BY <1>4, <1>6
  <2> QED
    BY <2>1, <2>2
<1> DEFINE upto == CHOOSE h : Walk(h)
<1>8. Pushes(k, buf) = upto[N]
  BY <1>1 DEF Pushes, Step
<1>9. Walk(upto)
  <2> HIDE DEF Walk
  <2> QED
    BY <1>7
<1>10. \A i \in 0..N : upto[i] \in T
  <2> DEFINE B == {i \in 0..N : upto[i] \in T}
  <2> HIDE DEF upto
  <2>1. 0 \in B
    BY <1>2, <1>9
  <2>2. ASSUME NEW i \in 1..N, i - 1 \in B PROVE i \in B
    <3>1. i \in 0..N /\ i # 0 /\ upto[i - 1] \in T
      BY <2>2
    <3>2. upto[i] = Step(upto[i - 1], i)
      BY <1>9, <3>1
    <3> QED
      BY <1>3, <3>1, <3>2
  <2>3. \A i \in 0..N : i \in B
    <3> HIDE DEF B
    <3> QED
      BY <2>1, <2>2, GoesOn
  <2> QED
    BY <2>3
<1> HIDE DEF upto
<1> QED
  BY <1>1, <1>8, <1>10

\* What a header says of the control block.
LEMMA HeaderIs ==
  ASSUME NEW k \in ControlBlocks, NEW c \in {"ACK", "PUSH", "WASK", "WINS"}, NEW sn \in Nat
  PROVE  \E w \in Nat : Header(k, c, sn) = [cmd |-> c, frg |-> 0, wnd |-> w, sn |-> sn,
                                          una |-> k.rcv_nxt, len |-> 0, msg |-> NoData]
<1>1. ikcp_wnd_unused(k) \in Nat
  <2>1. Len(k.rcv_queue) \in Nat /\ RcvWnd \in Nat
    BY BlockTypes, ConstantSizes
  <2> QED
    BY <2>1 DEF ikcp_wnd_unused, Most
<1> QED
  BY <1>1 DEF Header

\* ikcp_flush: the new segments and the old ones are held as before, and what is
\* sent is true of the control block it leaves.
LEMMA FlushKeeps ==
  ASSUME NEW k \in ControlBlocks, NEW A, NEW n, NEW kind \in {"clean", "long"}, SndInv(k, A, n, kind),
         NEW m, NEW nxt, NEW way, RcvInv(k, m, nxt, way)
  PROVE  /\ ikcp_flush(k).k \in ControlBlocks
         /\ SndInv(ikcp_flush(k).k, A, n, kind) /\ RcvInv(ikcp_flush(k).k, m, nxt, way)
         /\ Later(k, ikcp_flush(k).k)
         /\ ikcp_flush(k).out \in Seq(Datagrams(Has(ikcp_flush(k).k), ikcp_flush(k).k.snd_nxt, kind))
<1>1. PICK k1 : k1 = Admit(k)
  OBVIOUS
<1>2. /\ k1 \in ControlBlocks /\ SameRcv(k, k1) /\ SndInv(k1, A, n, kind)
      /\ k.snd_nxt <= k1.snd_nxt
  BY <1>1, AdmitKeeps
<1>3. PICK buf, b : buf = k1.snd_buf /\ b = [i \in DOMAIN buf |-> Resent(buf[i])]
  OBVIOUS
<1>4. buf \in Seq(SndSegs)
  BY <1>2, <1>3, BlockTypes
<1>5. ASSUME NEW s \in SndSegs
      PROVE  Resent(s) \in SndSegs /\ SameSeg(Resent(s), s)
  <2>1. PICK x, y : x = Least(s.xmit + 1, FastLimit + 1) /\ y = IF Skipped(s) THEN 0 ELSE s.fastack
    OBVIOUS
  <2>2. x \in Nat /\ y \in Nat
    BY <2>1, ConstantSizes DEF SndSegs, Least
  <2>3. Resent(s) = IF NeedSend(s) THEN [s EXCEPT !.xmit = x, !.due = FALSE, !.fastack = y] ELSE s
    BY <2>1 DEF Resent
  <2> QED
    BY <2>2, <2>3 DEF SndSegs, SameSeg
<1>6. b \in Seq(SndSegs) /\ SameSegs(b, buf)
  <2>1. DOMAIN b = DOMAIN buf /\ b = [i \in DOMAIN buf |-> b[i]]
    BY <1>3
  <2>2. \A i \in DOMAIN buf : b[i] \in SndSegs /\ SameSeg(b[i], buf[i])
    BY <1>3, <1>4, <1>5, SegmentTypes
  <2> QED
    BY <1>4, <2>1, <2>2, MapsSegs
<1>7. PICK j : j = [k1 EXCEPT !.snd_buf = b]
  OBVIOUS
<1>8. j \in ControlBlocks /\ SameRcv(k1, j) /\ SndInv(j, A, n, kind) /\ j.snd_nxt = k1.snd_nxt
  BY <1>2, <1>3, <1>6, <1>7, MarkKeeps
<1>9. PICK pr, e : pr = ProbeNext(k) /\ e = <<>>
  OBVIOUS
<1>10. PICK k2 : k2 = [k1 EXCEPT !.acklist = e, !.tell = FALSE, !.probe = pr, !.snd_buf = b]
  OBVIOUS
<1>11. /\ k2 \in ControlBlocks /\ SameSnd(j, k2)
       /\ k2.rcv_nxt = k.rcv_nxt /\ k2.rcv_queue = k.rcv_queue /\ k2.rcv_buf = k.rcv_buf
       /\ k2.acklist = <<>>
  <2>1. pr \in {"off", "armed", "due"} /\ e \in Seq(Nat)
    BY <1>9 DEF ProbeNext
  <2>2. k2 \in ControlBlocks
    BY <1>2, <1>6, <1>10, <2>1 DEF ControlBlocks
  <2>3. SameSnd(j, k2)
    BY <1>2, <1>7, <1>10 DEF ControlBlocks, SameSnd
  <2>4. k2.rcv_nxt = k1.rcv_nxt /\ k2.rcv_queue = k1.rcv_queue /\ k2.rcv_buf = k1.rcv_buf /\ k2.acklist = e
    BY <1>2, <1>10 DEF ControlBlocks
  <2> QED
    BY <1>2, <1>9, <2>2, <2>3, <2>4 DEF SameRcv
<1>12. SndInv(k2, A, n, kind)
  BY <1>8, <1>11, HalvesStay
<1>13. RcvInv(k2, m, nxt, way)
  <2>1. DOMAIN k2.acklist = {}
    <3>1. DOMAIN e = {}
      BY <1>9
    <3> QED
      BY <1>9, <1>11, <3>1
  <2>2. Receives(k2, m, nxt, way)
    BY <1>11 DEF RcvInv, Receives
  <2> QED
    BY <1>11, <2>1, <2>2 DEF RcvInv
<1>14. PICK ch, lo, w, k3 :
         /\ ch = (\E i \in DOMAIN k1.snd_buf : Skipped(k1.snd_buf[i]))
         /\ lo = (\E i \in DOMAIN k1.snd_buf : Timeout(k1.snd_buf[i]))
         /\ w = Window(k) /\ k3 = Backoff(k2, w, ch, lo)
  OBVIOUS
<1>15. k3 \in ControlBlocks /\ SameRcv(k2, k3) /\ SameSnd(k2, k3)
  BY <1>11, <1>14, BackoffKeeps, WindowIs
<1>16. SndInv(k3, A, n, kind) /\ RcvInv(k3, m, nxt, way)
  BY <1>12, <1>13, <1>15, HalvesStay
<1>17. /\ k3.rcv_nxt = k.rcv_nxt /\ k3.rcv_buf = k.rcv_buf /\ k3.snd_nxt = k1.snd_nxt
  BY <1>8, <1>11, <1>15 DEF SameRcv, SameSnd
<1>18. Has(k3) = Has(k) /\ Later(k, k3)
  <2>1. Has(k3) = Has(k)
    BY <1>17 DEF Has, Received
  <2> QED
    BY <1>2, <1>17, <2>1 DEF Later
<1>19. PICK acks, wask, wins, pushes :
         /\ acks = [i \in DOMAIN k.acklist |-> Header(k, "ACK", k.acklist[i])]
         /\ wask = IF ProbeSent(k) THEN <<Header(k, "WASK", 0)>> ELSE <<>>
         /\ wins = IF k.tell THEN <<Header(k, "WINS", 0)>> ELSE <<>>
         /\ pushes = Pushes(k, k1.snd_buf)
  OBVIOUS
<1>20. ikcp_flush(k) = [k |-> k3, out |-> Pack(acks \o wask \o wins \o pushes)]
  BY <1>1, <1>3, <1>9, <1>10, <1>14, <1>19 DEF ikcp_flush
<1>21. PICK G : G = Told(Has(k3), k3.snd_nxt, kind)
  OBVIOUS
<1>22. k.rcv_nxt \in Nat /\ \A x \in Nat : x < k.rcv_nxt => x \in Has(k3)
  BY <1>18, BlockTypes DEF Has, Received
\* A header that is no PUSH, and what it acknowledges.
<1>23. ASSUME NEW c \in {"ACK", "WASK", "WINS"}, NEW sn \in Nat, c = "ACK" => Received(k, sn)
       PROVE  Header(k, c, sn) \in G
  <2>1. PICK wnd \in Nat :
          Header(k, c, sn) = [cmd |-> c, frg |-> 0, wnd |-> wnd, sn |-> sn,
                              una |-> k.rcv_nxt, len |-> 0, msg |-> NoData]
    <3>1. c \in {"ACK", "PUSH", "WASK", "WINS"}
      OBVIOUS
    <3> QED
      BY <3>1, HeaderIs
  <2>2. PICK h : h = Header(k, c, sn)
    OBVIOUS
  <2>3. h \in Segs /\ h.cmd = c /\ h.sn = sn /\ h.una = k.rcv_nxt
    BY <1>22, <2>1, <2>2 DEF Segs, NoData
  <2>4. c = "ACK" => sn \in Has(k3)
    BY <1>18, <1>23 DEF Has
  <2>5. HeaderOk(h, Has(k3), k3.snd_nxt, kind)
    BY <1>22, <2>3, <2>4 DEF HeaderOk
  <2> QED
    BY <1>21, <2>2, <2>3, <2>5 DEF Told
<1>24. acks \in Seq(G)
  <2>1. k.acklist \in Seq(Nat)
    BY BlockTypes
  <2>2. ASSUME NEW i \in DOMAIN k.acklist PROVE Header(k, "ACK", k.acklist[i]) \in G
    <3>1. k.acklist[i] \in Nat /\ Received(k, k.acklist[i])
      BY <2>1, ElementsOf DEF RcvInv
    <3> QED
      BY <1>23, <3>1
  <2>3. PICK l \in Nat : DOMAIN k.acklist = 1..l
    BY <2>1, ElementsOf
  <2>4. acks = [i \in 1..l |-> acks[i]] /\ \A i \in 1..l : acks[i] \in G
    BY <1>19, <2>2, <2>3
  <2> QED
    BY <2>4
<1>25. wask \in Seq(G) /\ wins \in Seq(G)
  <2>1. PICK x, y : x = Header(k, "WASK", 0) /\ y = Header(k, "WINS", 0)
    OBVIOUS
  <2>2. x \in G /\ y \in G
    BY <1>23, <2>1
  <2>3. wask = (IF ProbeSent(k) THEN <<x>> ELSE <<>>) /\ wins = IF k.tell THEN <<y>> ELSE <<>>
    BY <1>19, <2>1
  <2> QED
    BY <2>2, <2>3
<1>26. pushes \in Seq(G)
  <2>1. ASSUME NEW i \in DOMAIN buf PROVE Push(k, buf[i]) \in G
    <3>1. PICK s : s = buf[i]
      OBVIOUS
    <3>2. s \in SndSegs /\ s.sn \in Nat /\ s.frg \in Nat /\ s.len \in Nat /\ s.msg \in Nat
      BY <1>4, <3>1, SegmentTypes
    <3>3. Sound(s, k3.snd_nxt, kind)
      BY <1>2, <1>3, <1>17, <3>1 DEF SndInv, Sends
    <3>4. PICK wnd \in Nat : Header(k, "PUSH", s.sn) =
                              [cmd |-> "PUSH", frg |-> 0, wnd |-> wnd, sn |-> s.sn,
                               una |-> k.rcv_nxt, len |-> 0, msg |-> NoData]
      BY <3>2, HeaderIs
    <3>5. PICK h : h = Push(k, s)
      OBVIOUS
    <3>6. h = [cmd |-> "PUSH", frg |-> s.frg, wnd |-> wnd, sn |-> s.sn,
               una |-> k.rcv_nxt, len |-> s.len, msg |-> s.msg]
      <4>1. PICK x, frg, len, msg :
              x = Header(k, "PUSH", s.sn) /\ frg = s.frg /\ len = s.len /\ msg = s.msg
        OBVIOUS
      <4>2. h = [x EXCEPT !.frg = frg, !.len = len, !.msg = msg]
        BY <3>5, <4>1 DEF Push
      <4>3. PICK none : x = [cmd |-> "PUSH", frg |-> 0, wnd |-> wnd, sn |-> s.sn,
                             una |-> k.rcv_nxt, len |-> 0, msg |-> none]
        BY <3>4, <4>1
      <4>4. h = [cmd |-> "PUSH", frg |-> frg, wnd |-> wnd, sn |-> s.sn,
                 una |-> k.rcv_nxt, len |-> len, msg |-> msg]
        BY <4>2, <4>3
      <4> QED
        BY <4>1, <4>4
    <3>7. h \in Segs /\ h.cmd = "PUSH" /\ h.una = k.rcv_nxt
          /\ h.sn = s.sn /\ h.frg = s.frg /\ h.len = s.len /\ h.msg = s.msg
      BY <1>22, <3>2, <3>6 DEF Segs
    <3>8. HeaderOk(h, Has(k3), k3.snd_nxt, kind)
      BY <1>22, <3>3, <3>7 DEF HeaderOk, Sound
    <3> QED
      BY <1>21, <3>1, <3>5, <3>7, <3>8 DEF Told
  <2>2. PICK l \in Nat : DOMAIN buf = 1..l /\ l = Len(buf)
    BY <1>4, ElementsOf
  <2> QED
    BY <1>3, <1>19, <2>1, <2>2, PushesAre
<1>27. acks \o wask \o wins \o pushes \in Seq(G)
  <2>1. acks \o wask \in Seq(G)
    BY <1>24, <1>25
  <2>2. (acks \o wask) \o wins \in Seq(G)
    BY <1>25, <2>1
  <2> QED
    BY <1>26, <2>2
<1>28. PICK segs : segs = acks \o wask \o wins \o pushes
  OBVIOUS
<1>29. Pack(segs) \in Seq(Seq(G))
  BY <1>27, <1>28, PackIs
<1>30. ikcp_flush(k).k = k3 /\ ikcp_flush(k).out = Pack(segs)
  BY <1>20, <1>28
<1>31. ikcp_flush(k).out \in Seq(Datagrams(Has(ikcp_flush(k).k), ikcp_flush(k).k.snd_nxt, kind))
  BY <1>21, <1>29, <1>30 DEF Datagrams
<1> QED
  BY <1>15, <1>16, <1>18, <1>30, <1>31

\* The types of what has been received.
LEMMA RcvTypes ==
  ASSUME NEW k \in ControlBlocks
  PROVE  /\ \A s \in k.rcv_buf : s \in RcvSegs /\ s.sn \in Nat /\ s.frg \in Nat /\ s.len \in Nat /\ s.msg \in Int
         /\ \A i \in DOMAIN k.rcv_queue :
              /\ k.rcv_queue[i] \in RcvSegs /\ k.rcv_queue[i].frg \in Nat
              /\ k.rcv_queue[i].len \in Nat /\ k.rcv_queue[i].msg \in Int
<1>1. k.rcv_buf \in SUBSET RcvSegs /\ k.rcv_queue \in Seq(RcvSegs)
  BY BlockTypes
<1>2. \A s \in k.rcv_buf : s \in RcvSegs
  BY <1>1
<1>3. \A i \in DOMAIN k.rcv_queue : k.rcv_queue[i] \in RcvSegs
  BY <1>1, ElementsOf
<1>4. \A s \in RcvSegs : s.sn \in Nat /\ s.frg \in Nat /\ s.len \in Nat /\ s.msg \in Int
  BY DEF RcvSegs
<1> QED
  BY <1>2, <1>3, <1>4

\* As many segments as there is room for, and none is missing between.
LEMMA DeliverableIs ==
  ASSUME NEW k \in ControlBlocks, Len(k.rcv_queue) <= RcvWnd
  PROVE  /\ Deliverable(k) \in 0..(RcvWnd - Len(k.rcv_queue))
         /\ \A i \in 0..(Deliverable(k) - 1) : \E s \in k.rcv_buf : s.sn = k.rcv_nxt + i
<1>1. PICK N : N = RcvWnd - Len(k.rcv_queue)
  OBVIOUS
<1>2. N \in Nat
  <2>1. Len(k.rcv_queue) \in Nat /\ RcvWnd \in Nat
    BY BlockTypes, ConstantSizes
  <2> QED
    BY <1>1, <2>1
<1> DEFINE All(n) == \A i \in 0..(n - 1) : \E s \in k.rcv_buf : s.sn = k.rcv_nxt + i
           S == {n \in 0..N : All(n)} \cup {0}
<1>3. Deliverable(k) = Max(S)
  BY <1>1 DEF Deliverable
<1>4. All(0)
  OBVIOUS
<1>5. S \in SUBSET (0..N) /\ S # {} /\ \A n \in S : All(n)
  BY <1>2, <1>4
<1> HIDE DEF S
<1>6. Max(S) \in S
  BY <1>2, <1>5, LargestNumber
<1>7. Deliverable(k) \in 0..N /\ All(Deliverable(k))
  BY <1>3, <1>5, <1>6
<1> QED
  BY <1>1, <1>7

\* What is moved to rcv_queue is in order and complete.
LEMMA MoveKeeps ==
  ASSUME NEW k \in ControlBlocks, NEW m \in Nat, NEW nxt \in Nat, NEW way, RcvInv(k, m, nxt, way)
  PROVE  /\ MoveInOrder(k) \in ControlBlocks /\ SameSnd(k, MoveInOrder(k))
         /\ RcvInv(MoveInOrder(k), m, nxt, way) /\ Later(k, MoveInOrder(k))
<1>1. PICK n, queue, l, rn, buf :
        /\ n = Deliverable(k) /\ queue = k.rcv_queue /\ l = Len(k.rcv_queue)
        /\ rn = k.rcv_nxt /\ buf = k.rcv_buf
  OBVIOUS
<1>2. /\ queue \in Seq(RcvSegs) /\ l \in Nat /\ Len(queue) = l /\ DOMAIN queue = 1..l /\ rn \in Nat
      /\ RcvWnd \in Nat /\ k.snd_nxt \in Nat /\ l <= RcvWnd
  BY <1>1, BlockTypes, ConstantSizes DEF RcvInv
<1>3. n \in 0..(RcvWnd - l) /\ \A i \in 0..(n - 1) : \E s \in buf : s.sn = rn + i
  BY <1>1, <1>2, DeliverableIs
<1>4. PICK new : new = [i \in 1..n |-> NextSeg(k, i)]
  OBVIOUS
<1>5. ASSUME NEW i \in 1..n PROVE new[i] \in buf /\ new[i].sn = rn + i - 1
  <2>1. PICK s \in buf : s.sn = rn + (i - 1)
    <3>1. i - 1 \in 0..(n - 1)
      BY <1>3
    <3> QED
      BY <1>3, <3>1
  <2>2. rn + (i - 1) = rn + i - 1
    BY <1>2
  <2>3. NextSeg(k, i) \in buf /\ NextSeg(k, i).sn = rn + i - 1
    BY <1>1, <2>1, <2>2 DEF NextSeg
  <2> QED
    BY <1>4, <2>3
<1>6. /\ \A s \in buf : s \in RcvSegs /\ s.sn \in Nat
      /\ \A s \in buf : rn <= s.sn /\ s.sn < rn + RcvWnd
  BY <1>1, RcvTypes DEF RcvInv
<1>7. new \in Seq(RcvSegs) /\ Len(new) = n /\ DOMAIN new = 1..n
  <2>1. n \in Nat /\ \A i \in 1..n : new[i] \in RcvSegs
    BY <1>3, <1>5, <1>6
  <2> QED
    BY <1>4, <2>1
<1>8. PICK c, x, left : c = Cat(queue, new) /\ x = rn + n /\ left = {s \in buf : s.sn >= rn + n}
  OBVIOUS
<1>9. c \in Seq(RcvSegs) /\ IsCat(c, queue, new)
  BY <1>2, <1>7, <1>8, CatOf
<1>10. x \in Nat /\ rn <= x /\ left \in SUBSET RcvSegs
  BY <1>2, <1>3, <1>6, <1>8
<1>11. PICK j : j = [k EXCEPT !.rcv_queue = c, !.rcv_buf = left, !.rcv_nxt = x]
  OBVIOUS
<1>12. MoveInOrder(k) = j
  BY <1>1, <1>4, <1>8, <1>11 DEF MoveInOrder, Cat
<1>13. /\ j \in ControlBlocks /\ SameSnd(k, j)
       /\ j.rcv_queue = c /\ j.rcv_buf = left /\ j.rcv_nxt = x /\ j.acklist = k.acklist
  <2>1. j \in ControlBlocks
    BY <1>9, <1>10, <1>11 DEF ControlBlocks
  <2> QED
    BY <1>11, <2>1 DEF ControlBlocks, SameSnd
<1>14. Len(c) = l + n
  BY <1>2, <1>7, <1>9 DEF IsCat
<1>15. ASSUME NEW sn \in Nat, Received(k, sn) PROVE Received(j, sn)
  <2>1. sn < rn \/ \E s \in buf : s.sn = sn
    BY <1>1, <1>15 DEF Received
  <2>2. sn < x \/ sn >= rn + n
    BY <1>2, <1>3, <1>8
  <2>3. CASE sn < x
    BY <1>13, <2>3 DEF Received
  <2>4. CASE sn >= rn + n
    <3>1. ~ (sn < rn)
      BY <1>2, <1>3, <2>4
    <3>2. PICK s \in buf : s.sn = sn
      BY <2>1, <3>1
    <3>3. s \in left
      BY <1>8, <2>4, <3>2
    <3> QED
      BY <1>13, <3>2, <3>3 DEF Received
  <2> QED
    BY <2>2, <2>3, <2>4
<1>16. Later(k, j)
  BY <1>2, <1>13, <1>15 DEF Later, SameSnd, Has
<1>17. \A s \in left : x <= s.sn /\ s.sn < x + RcvWnd
  <2> SUFFICES ASSUME NEW s \in left PROVE x <= s.sn /\ s.sn < x + RcvWnd
    OBVIOUS
  <2>1. s \in buf /\ s.sn >= rn + n /\ s.sn \in Nat /\ s.sn < rn + RcvWnd
    BY <1>6, <1>8
  <2> QED
    BY <1>2, <1>3, <1>8, <2>1
<1>18. \A i \in DOMAIN j.acklist : Received(j, j.acklist[i])
  <2>1. k.acklist \in Seq(Nat)
    BY BlockTypes
  <2>2. \A i \in DOMAIN k.acklist : k.acklist[i] \in Nat
    BY <2>1, ElementsOf
  <2> QED
    BY <1>13, <1>15, <2>2 DEF RcvInv
<1>19. ASSUME way \in {"clean", "torn"}
       PROVE  /\ m + Len(c) = x
              /\ \A i \in DOMAIN c : c[i].frg = 0 /\ m + i <= nxt /\ Arrived(m + i - 1, c[i].msg, way)
  <2>1. /\ m + l = rn
        /\ \A i \in DOMAIN queue :
             queue[i].frg = 0 /\ m + i <= nxt /\ Arrived(m + i - 1, queue[i].msg, way)
        /\ \A s \in buf : s.frg = 0 /\ s.sn < nxt /\ Arrived(s.sn, s.msg, way)
    BY <1>1, <1>19 DEF RcvInv, Receives, Sound
  <2>2. m + Len(c) = x
    <3>1. m + l = rn
      BY <2>1
    <3> QED
      BY <1>2, <1>3, <1>8, <1>14, <3>1
  <2>3. ASSUME NEW i \in DOMAIN c
        PROVE  c[i].frg = 0 /\ m + i <= nxt /\ Arrived(m + i - 1, c[i].msg, way)
    <3>1. CASE i \in DOMAIN queue
      <4>1. c[i] = queue[i]
        BY <1>9, <3>1 DEF IsCat
      <4> QED
        BY <2>1, <3>1, <4>1
    <3>2. CASE i > l /\ i - l \in 1..n
      <4>1. PICK h \in 1..n : h = i - l
        BY <3>2
      <4>2. i \in Int
        BY <1>9
      <4>3. i = h + l
        BY <1>2, <4>1, <4>2
      <4>4. c[h + l] = new[h]
        BY <1>2, <1>7, <1>9 DEF IsCat
      <4>5. c[i] = new[h] /\ new[h] \in buf /\ new[h].sn = rn + h - 1
        BY <1>5, <4>3, <4>4
      <4>6. rn + h - 1 = m + i - 1 /\ (rn + h - 1 < nxt => m + i <= nxt)
        BY <1>2, <2>1, <4>3
      <4>7. c[i].frg = 0 /\ rn + h - 1 < nxt /\ Arrived(rn + h - 1, c[i].msg, way)
        BY <2>1, <4>5
      <4> QED
        BY <4>6, <4>7
    <3> QED
      BY <1>2, <1>7, <1>9, <3>1, <3>2 DEF IsCat
  <2> QED
    BY <2>2, <2>3
<1>20. ASSUME way = "long"
       PROVE  Len(c) = x /\ (c # <<>> => c[1].len > RecvBuf)
  <2>1. /\ l = rn /\ (queue # <<>> => queue[1].len > RecvBuf)
        /\ \A s \in buf : s.sn = 0 => s.len > RecvBuf
    BY <1>1, <1>20 DEF RcvInv, Receives, Sound
  <2>2. Len(c) = x
    BY <1>8, <1>14, <2>1
  <2>3. CASE queue # <<>>
    <3>1. 1 \in DOMAIN queue
      BY <1>2, <2>3
    <3>2. c[1] = queue[1]
      BY <1>9, <3>1 DEF IsCat
    <3> QED
      BY <2>1, <2>2, <2>3, <3>2
  <2>4. CASE queue = <<>> /\ c # <<>>
    <3>1. l = 0 /\ rn = 0
      BY <1>2, <2>1, <2>4
    <3>2. Len(c) # 0
      BY <1>9, <2>4
    <3>3. 1 \in 1..n /\ 1 + l = 1 /\ rn + 1 - 1 = 0
      BY <1>2, <1>3, <1>14, <3>1, <3>2
    <3>4. c[1 + l] = new[1]
      BY <1>2, <1>7, <1>9, <3>3 DEF IsCat
    <3>5. new[1] \in buf /\ new[1].sn = 0
      BY <1>5, <3>3
    <3> QED
      BY <2>1, <2>2, <3>3, <3>4, <3>5
  <2> QED
    BY <2>2, <2>3, <2>4
<1>21. \A s \in left : Sound(s, nxt, way)
  BY <1>1, <1>8 DEF RcvInv, Receives
<1>22. Receives(j, m, nxt, way)
  BY <1>13, <1>19, <1>20, <1>21 DEF Receives
<1>23. l + n <= RcvWnd
  BY <1>2, <1>3
<1>24. RcvInv(j, m, nxt, way)
  BY <1>13, <1>14, <1>17, <1>18, <1>22, <1>23 DEF RcvInv
<1> QED
  BY <1>12, <1>13, <1>16, <1>24

\* A block whose receiving half is the same has taken nothing back.
LEMMA LaterSame ==
  ASSUME NEW k \in ControlBlocks, NEW j, SameRcv(k, j), j.snd_nxt = k.snd_nxt
  PROVE  Later(k, j)
<1>1. k.snd_nxt \in Nat /\ k.rcv_nxt \in Nat
  BY BlockTypes
<1> QED
  BY <1>1 DEF Later, SameRcv, Has, Received

\* Later is transitive.
LEMMA LaterLater ==
  ASSUME NEW k \in ControlBlocks, NEW j \in ControlBlocks, NEW e \in ControlBlocks,
         Later(k, j), Later(j, e)
  PROVE  Later(k, e)
<1>1. k.snd_nxt \in Nat /\ j.snd_nxt \in Nat /\ e.snd_nxt \in Nat
  BY BlockTypes
<1>2. k.snd_nxt <= e.snd_nxt
  BY <1>1 DEF Later
<1>3. Has(k) \subseteq Has(e)
  BY DEF Later
<1> QED
  BY <1>2, <1>3 DEF Later

\* k keeps both halves of its invariant.
Good(k, A, nxt, n, kind, m, way) ==
  k \in ControlBlocks /\ SndInv(k, A, n, kind) /\ RcvInv(k, m, nxt, way)

\* Only number, fragment, length and payload count.
LEMMA SoundSame ==
  ASSUME NEW s, NEW t, SameSeg(s, t), NEW nxt, NEW way, Sound(t, nxt, way)
  PROVE  Sound(s, nxt, way)
  BY DEF SameSeg, Sound

\* ikcp_ack_push: a segment is acknowledged only when it is there.
LEMMA AckPushKeeps ==
  ASSUME NEW k \in ControlBlocks, NEW m, NEW nxt, NEW way, RcvInv(k, m, nxt, way),
         NEW sn \in Nat
  PROVE  /\ ikcp_ack_push(k, sn) \in ControlBlocks /\ SameSnd(k, ikcp_ack_push(k, sn))
         /\ ikcp_ack_push(k, sn).rcv_nxt = k.rcv_nxt /\ ikcp_ack_push(k, sn).rcv_buf = k.rcv_buf
         /\ Later(k, ikcp_ack_push(k, sn))
         /\ Received(k, sn) => RcvInv(ikcp_ack_push(k, sn), m, nxt, way)
         /\ ikcp_ack_push(k, sn).rcv_queue = k.rcv_queue
         /\ ikcp_ack_push(k, sn).acklist = Append(k.acklist, sn)
<1>1. PICK a, j : a = Append(k.acklist, sn) /\ j = [k EXCEPT !.acklist = a]
  OBVIOUS
<1>2. k.acklist \in Seq(Nat) /\ k.snd_nxt \in Nat /\ k.rcv_nxt \in Nat
  BY BlockTypes
<1>3. a \in Seq(Nat)
  BY <1>1, <1>2
<1>4. /\ j \in ControlBlocks /\ SameSnd(k, j) /\ j.rcv_nxt = k.rcv_nxt /\ j.rcv_buf = k.rcv_buf
      /\ j.rcv_queue = k.rcv_queue /\ j.acklist = a
  <2>1. j \in ControlBlocks
    BY <1>1, <1>3 DEF ControlBlocks
  <2> QED
    BY <1>1, <2>1 DEF ControlBlocks, SameSnd
<1>5. ikcp_ack_push(k, sn) = j
  BY <1>1 DEF ikcp_ack_push
<1>6. \A x : Received(j, x) <=> Received(k, x)
  BY <1>4 DEF Received
<1>7. Later(k, j)
  BY <1>2, <1>4, <1>6 DEF Later, SameSnd, Has
<1>8. ASSUME Received(k, sn) PROVE RcvInv(j, m, nxt, way)
  <2>1. PICK l \in Nat : l = Len(k.acklist) /\ DOMAIN k.acklist = 1..l
    BY <1>2, ElementsOf
  <2>2. DOMAIN a = 1..(l + 1) /\ a[l + 1] = sn /\ \A i \in 1..l : a[i] = k.acklist[i]
    BY <1>1, <1>2, <2>1
  <2>3. \A i \in 1..(l + 1) : i = l + 1 \/ i \in 1..l
    BY <2>1
  <2>4. \A i \in DOMAIN a : Received(j, a[i])
    BY <1>6, <1>8, <2>1, <2>2, <2>3 DEF RcvInv
  <2>5. Receives(j, m, nxt, way)
    BY <1>4 DEF RcvInv, Receives
  <2> QED
    BY <1>4, <2>4, <2>5 DEF RcvInv
<1> QED
  BY <1>1, <1>4, <1>5, <1>7, <1>8

\* A segment that arrives is stored once, and acknowledged because it is there.
LEMMA DataKeeps ==
  ASSUME NEW k \in ControlBlocks, NEW m \in Nat, NEW nxt \in Nat, NEW way, RcvInv(k, m, nxt, way),
         NEW h \in Segs, Sound(h, nxt, way),
         h.sn < k.rcv_nxt + RcvWnd,
         NEW r, r = ikcp_parse_data(ikcp_ack_push(k, h.sn), h)
  PROVE  r \in ControlBlocks /\ SameSnd(k, r) /\ RcvInv(r, m, nxt, way) /\ Later(k, r)
<1>1. /\ h.sn \in Nat /\ h.frg \in Nat /\ h.len \in Nat /\ h.msg \in Int /\ k.rcv_nxt \in Nat /\ RcvWnd \in Nat /\ k.snd_nxt \in Nat
      /\ k.rcv_buf \in SUBSET RcvSegs
  BY BlockTypes, ConstantSizes DEF Segs
<1>2. PICK k1 : k1 = ikcp_ack_push(k, h.sn)
  OBVIOUS
<1>3. /\ k1 \in ControlBlocks /\ SameSnd(k, k1) /\ Later(k, k1)
      /\ k1.rcv_nxt = k.rcv_nxt /\ k1.rcv_buf = k.rcv_buf
      /\ Received(k, h.sn) => RcvInv(k1, m, nxt, way)
      /\ k1.rcv_queue = k.rcv_queue /\ k1.acklist = Append(k.acklist, h.sn)
  BY <1>1, <1>2, AckPushKeeps
<1>4. CASE h.sn < k.rcv_nxt
  <2>1. r = k1
    BY <1>2, <1>3, <1>4 DEF ikcp_parse_data
  <2>2. Received(k, h.sn)
    BY <1>4 DEF Received
  <2> QED
    BY <1>3, <2>1, <2>2
<1>5. CASE ~ (h.sn < k.rcv_nxt) /\ \E s \in k.rcv_buf : s.sn = h.sn
  <2>1. ~ (h.sn >= k1.rcv_nxt + RcvWnd)
    BY <1>1, <1>3
  <2>2. r = MoveInOrder(k1)
    BY <1>2, <1>3, <1>5, <2>1 DEF ikcp_parse_data
  <2>3. Received(k, h.sn)
    BY <1>5 DEF Received
  <2>4. RcvInv(k1, m, nxt, way)
    BY <1>3, <2>3
  <2>5. r \in ControlBlocks /\ SameSnd(k1, r) /\ RcvInv(r, m, nxt, way) /\ Later(k1, r)
    BY <1>3, <2>2, <2>4, MoveKeeps
  <2>6. SameSnd(k, r)
    BY <1>3, <2>5 DEF SameSnd
  <2>7. Later(k, r)
    BY <1>3, <2>5, LaterLater
  <2> QED
    BY <2>5, <2>6, <2>7
<1>6. CASE ~ (h.sn < k.rcv_nxt) /\ ~ \E s \in k.rcv_buf : s.sn = h.sn
  <2>1. ~ (h.sn >= k1.rcv_nxt + RcvWnd)
    BY <1>1, <1>3
  <2>2. PICK s, b : s = [sn |-> h.sn, frg |-> h.frg, len |-> h.len, msg |-> h.msg] /\ b = k1.rcv_buf \cup {s}
    OBVIOUS
  <2>3. PICK k2 : k2 = [k1 EXCEPT !.rcv_buf = b]
    OBVIOUS
  <2>4. r = MoveInOrder(k2)
    BY <1>2, <1>3, <1>6, <2>1, <2>2, <2>3 DEF ikcp_parse_data
  <2>5. s \in RcvSegs /\ s.sn = h.sn /\ Sound(s, nxt, way) /\ b \in SUBSET RcvSegs
    <3>1. s \in RcvSegs /\ SameSeg(s, h)
      BY <1>1, <2>2 DEF RcvSegs, SameSeg
    <3>2. Sound(s, nxt, way)
      BY <3>1, SoundSame
    <3> QED
      BY <1>1, <1>3, <2>2, <3>1, <3>2 DEF SameSeg
  <2>6. /\ k2 \in ControlBlocks /\ SameSnd(k1, k2) /\ k2.rcv_nxt = k.rcv_nxt /\ k2.rcv_buf = b
        /\ k2.rcv_queue = k.rcv_queue /\ k2.acklist = Append(k.acklist, h.sn)
    <3>1. k2 \in ControlBlocks
      BY <1>3, <2>3, <2>5 DEF ControlBlocks
    <3> QED
      BY <1>3, <2>3, <3>1 DEF ControlBlocks, SameSnd
  <2>7. \A x : Received(k, x) => Received(k2, x)
    BY <1>3, <2>2, <2>6 DEF Received
  <2>8. Received(k2, h.sn)
    BY <2>2, <2>5, <2>6 DEF Received
  <2>9. \A i \in DOMAIN k2.acklist : Received(k2, k2.acklist[i])
    <3>1. PICK l \in Nat : l = Len(k.acklist) /\ DOMAIN k.acklist = 1..l /\ k.acklist \in Seq(Nat)
      BY BlockTypes, ElementsOf
    <3>2. PICK a : a = Append(k.acklist, h.sn)
      OBVIOUS
    <3>3. DOMAIN a = 1..(l + 1) /\ a[l + 1] = h.sn /\ \A i \in 1..l : a[i] = k.acklist[i]
      BY <1>1, <3>1, <3>2
    <3>4. \A i \in 1..(l + 1) : i = l + 1 \/ i \in 1..l
      BY <3>1
    <3>5. \A i \in 1..l : Received(k, k.acklist[i])
      BY <3>1 DEF RcvInv
    <3> QED
      BY <2>6, <2>7, <2>8, <3>2, <3>3, <3>4, <3>5
  <2>10. \A t \in b : k.rcv_nxt <= t.sn /\ t.sn < k.rcv_nxt + RcvWnd
    <3>1. k.rcv_nxt <= h.sn
      BY <1>1, <1>6
    <3> QED
      BY <1>3, <2>2, <2>5, <3>1 DEF RcvInv
  <2>11. Receives(k2, m, nxt, way)
    <3>1. \A t \in b : Sound(t, nxt, way)
      BY <1>3, <2>2, <2>5 DEF RcvInv, Receives
    <3> QED
      BY <2>6, <3>1 DEF RcvInv, Receives
  <2>12. RcvInv(k2, m, nxt, way)
    BY <2>6, <2>9, <2>10, <2>11 DEF RcvInv
  <2>13. r \in ControlBlocks /\ SameSnd(k2, r) /\ RcvInv(r, m, nxt, way) /\ Later(k2, r)
    BY <2>4, <2>6, <2>12, MoveKeeps
  <2>14. Later(k, k2)
    BY <1>1, <1>3, <2>6, <2>7 DEF Later, SameSnd, Has
  <2>15. SameSnd(k, r)
    BY <1>3, <2>6, <2>13 DEF SameSnd
  <2>16. Later(k, r)
    BY <2>6, <2>13, <2>14, LaterLater
  <2> QED
    BY <2>13, <2>15, <2>16
<1> QED
  BY <1>4, <1>5, <1>6

\* A segment that tells the truth keeps both halves, whatever its command.
LEMMA SegmentKeeps ==
  ASSUME NEW A, NEW nxt \in Nat, NEW n, NEW kind, NEW m \in Nat, NEW way,
         NEW k, Good(k, A, nxt, n, kind, m, way),
         NEW h \in Told(A, nxt, way)
  PROVE  Good(Segment(k, h), A, nxt, n, kind, m, way) /\ Later(k, Segment(k, h))
<1>1. h \in Segs /\ HeaderOk(h, A, nxt, way)
  BY DEF Told
<1>2. k \in ControlBlocks /\ SndInv(k, A, n, kind) /\ RcvInv(k, m, nxt, way)
  BY DEF Good
<1>3. /\ h.sn \in Nat /\ h.una \in Nat /\ h.wnd \in Nat
      /\ \A sn \in Nat : sn < h.una => sn \in A
  BY <1>1 DEF HeaderOk, Segs
<1>4. PICK w, j : w = h.wnd /\ j = [k EXCEPT !.rmt_wnd = w]
  OBVIOUS
<1>5. j \in ControlBlocks /\ SameSnd(k, j) /\ SameRcv(k, j)
  <2>1. w \in Int
    BY <1>3, <1>4
  <2>2. j \in ControlBlocks
    BY <1>2, <1>4, <2>1 DEF ControlBlocks
  <2> QED
    BY <1>2, <1>4, <2>2 DEF ControlBlocks, SameSnd, SameRcv
<1>6. SndInv(j, A, n, kind)
  BY <1>2, <1>5, HalvesStay
<1>7. PICK e : e = ikcp_parse_una(j, h.una)
  OBVIOUS
<1>8. e \in ControlBlocks /\ SameRcv(j, e) /\ SndInv(e, A, n, kind) /\ e.snd_nxt = j.snd_nxt
  BY <1>3, <1>5, <1>6, <1>7, UnaKeeps
<1>9. PICK k1 : k1 = ikcp_shrink_buf(e)
  OBVIOUS
<1>10. k1 \in ControlBlocks /\ SameRcv(e, k1) /\ SndInv(k1, A, n, kind) /\ k1.snd_nxt = e.snd_nxt
  BY <1>8, <1>9, ShrinkKeeps
<1>11. SameRcv(k, k1) /\ k1.snd_nxt = k.snd_nxt
  BY <1>5, <1>8, <1>10 DEF SameRcv, SameSnd
<1>12. RcvInv(k1, m, nxt, way) /\ Later(k, k1)
  BY <1>2, <1>11, HalvesStay, LaterSame
<1>13. CASE h.cmd = "ACK"
  <2>1. PICK a : a = ikcp_parse_ack(k1, h.sn)
    OBVIOUS
  <2>2. h.sn \in A
    BY <1>1, <1>13 DEF HeaderOk
  <2>3. a \in ControlBlocks /\ SameRcv(k1, a) /\ SndInv(a, A, n, kind) /\ a.snd_nxt = k1.snd_nxt
    BY <1>3, <1>10, <2>1, <2>2, AckKeeps
  <2>4. PICK r : r = ikcp_shrink_buf(a)
    OBVIOUS
  <2>5. r \in ControlBlocks /\ SameRcv(a, r) /\ SndInv(r, A, n, kind) /\ r.snd_nxt = a.snd_nxt
    BY <2>3, <2>4, ShrinkKeeps
  <2>6. SameRcv(k1, r) /\ r.snd_nxt = k1.snd_nxt
    BY <2>3, <2>5 DEF SameRcv
  <2>7. RcvInv(r, m, nxt, way) /\ Later(k1, r)
    BY <1>10, <1>12, <2>6, HalvesStay, LaterSame
  <2>8. Later(k, r)
    BY <1>2, <1>10, <1>12, <2>5, <2>7, LaterLater
  <2>9. Segment(k, h) = r
    BY <1>4, <1>7, <1>9, <1>13, <2>1, <2>4 DEF Segment
  <2> QED
    BY <2>5, <2>7, <2>8, <2>9 DEF Good
<1>14. CASE h.cmd = "PUSH" /\ h.sn < k1.rcv_nxt + RcvWnd
  <2>1. PICK r : r = ikcp_parse_data(ikcp_ack_push(k1, h.sn), h)
    OBVIOUS
  <2>2. Sound(h, nxt, way)
    BY <1>1, <1>14 DEF HeaderOk
  <2>3. r \in ControlBlocks /\ SameSnd(k1, r) /\ RcvInv(r, m, nxt, way) /\ Later(k1, r)
    BY <1>1, <1>3, <1>10, <1>12, <1>14, <2>1, <2>2, DataKeeps
  <2>4. SndInv(r, A, n, kind)
    BY <1>10, <2>3, HalvesStay
  <2>5. Later(k, r)
    BY <1>2, <1>10, <1>12, <2>3, LaterLater
  <2>6. Segment(k, h) = r
    BY <1>4, <1>7, <1>9, <1>14, <2>1 DEF Segment
  <2> QED
    BY <2>3, <2>4, <2>5, <2>6 DEF Good
<1>15. CASE \/ h.cmd = "PUSH" /\ ~ (h.sn < k1.rcv_nxt + RcvWnd)
            \/ h.cmd = "WINS"
  <2>1. Segment(k, h) = k1
    BY <1>4, <1>7, <1>9, <1>15 DEF Segment
  <2> QED
    BY <1>10, <1>12, <2>1 DEF Good
<1>16. CASE h.cmd = "WASK"
  <2>1. PICK r : r = [k1 EXCEPT !.tell = TRUE]
    OBVIOUS
  <2>2. r \in ControlBlocks /\ SameSnd(k1, r) /\ SameRcv(k1, r)
    <3>1. r \in ControlBlocks
      BY <1>10, <2>1 DEF ControlBlocks
    <3> QED
      BY <1>10, <2>1, <3>1 DEF ControlBlocks, SameSnd, SameRcv
  <2>3. SndInv(r, A, n, kind) /\ RcvInv(r, m, nxt, way)
    BY <1>10, <1>12, <2>2, HalvesStay
  <2>4. Later(k1, r)
    BY <1>10, <2>2, LaterSame DEF SameSnd
  <2>5. Later(k, r)
    BY <1>2, <1>10, <1>12, <2>2, <2>4, LaterLater
  <2>6. Segment(k, h) = r
    BY <1>4, <1>7, <1>9, <1>16, <2>1 DEF Segment
  <2> QED
    BY <2>2, <2>3, <2>5, <2>6 DEF Good
<1> QED
  BY <1>1, <1>13, <1>14, <1>15, <1>16 DEF Segs

---------------------------------------------------------------------------
(* The loop over the units of what was read.                                   *)
---------------------------------------------------------------------------
(* The segments of a parse, one after the other.                               *)

\* Between two segments: the control block so far and the highest ack.
Parsed(k, A, nxt, n, kind, m, way) ==
  {st \in [k : ControlBlocks, maxack : Int] :
     Good(st.k, A, nxt, n, kind, m, way) /\ Later(k, st.k)}

\* One more segment.
LEMMA InputStays ==
  ASSUME NEW A, NEW nxt \in Nat, NEW n, NEW kind, NEW m \in Nat, NEW way, NEW k \in ControlBlocks,
         NEW st \in Parsed(k, A, nxt, n, kind, m, way), NEW h \in Told(A, nxt, way)
  PROVE  InputSegment(st, h) \in Parsed(k, A, nxt, n, kind, m, way)
<1>1. /\ st.k \in ControlBlocks /\ st.maxack \in Int
      /\ Good(st.k, A, nxt, n, kind, m, way) /\ Later(k, st.k)
  BY DEF Parsed
<1>2. PICK e, a : e = Segment(st.k, h) /\ a = IF h.cmd = "ACK" THEN Most(st.maxack, h.sn) ELSE st.maxack
  OBVIOUS
<1>3. Good(e, A, nxt, n, kind, m, way) /\ Later(st.k, e)
  BY <1>1, <1>2, SegmentKeeps
<1>4. e \in ControlBlocks
  BY <1>3 DEF Good
<1>5. Later(k, e)
  BY <1>1, <1>3, <1>4, LaterLater
<1>6. a \in Int
  <2>1. h.sn \in Int
    BY DEF Told, Segs
  <2> QED
    BY <1>1, <1>2, <2>1 DEF Most
<1>7. InputSegment(st, h) = [k |-> e, maxack |-> a]
  BY <1>2 DEF InputSegment
<1> QED
  BY <1>3, <1>4, <1>5, <1>6, <1>7 DEF Parsed

\* ikcp_input keeps both halves, if the segments tell the truth.
LEMMA InputKeeps ==
  ASSUME NEW A, NEW nxt \in Nat, NEW n, NEW kind, NEW m \in Nat, NEW way,
         NEW k, Good(k, A, nxt, n, kind, m, way),
         NEW segs \in Seq(Told(A, nxt, way)), NEW fails
  PROVE  /\ Good(ikcp_input(k, segs, fails), A, nxt, n, kind, m, way)
         /\ Later(k, ikcp_input(k, segs, fails))
<1>1. k \in ControlBlocks
  BY DEF Good
<1>2. PICK N, T, b : /\ N = Len(segs) /\ T = Parsed(k, A, nxt, n, kind, m, way)
                     /\ b = [k |-> k, maxack |-> -1]
  OBVIOUS
<1>3. N \in Nat /\ \A i \in 1..N : segs[i] \in Told(A, nxt, way)
  BY <1>2, ElementsOf
<1>4. b \in T
  <2>1. Later(k, k)
    BY <1>1, LaterSame DEF SameRcv
  <2>2. PICK a \in Int : b = [k |-> k, maxack |-> a]
    BY <1>2
  <2> QED
    BY <1>1, <1>2, <2>1, <2>2 DEF Parsed
<1>5. PICK g : g = [i \in 1..N |-> [st \in T |-> InputSegment(st, segs[i])]]
  OBVIOUS
<1>6. g \in [1..N -> [T -> T]]
  <2>1. ASSUME NEW i \in 1..N, NEW st \in T PROVE InputSegment(st, segs[i]) \in T
    BY <1>1, <1>2, <1>3, InputStays
  <2>2. \A i \in 1..N : [st \in T |-> InputSegment(st, segs[i])] \in [T -> T]
    BY <2>1
  <2> QED
    BY <1>5, <2>2
<1>7. PICK f : IsWalk(f, N, b, g) /\ \A i \in 0..N : f[i] \in T
  BY <1>3, <1>4, <1>6, TypedIterates
<1> DEFINE Walk(h) == h = [i \in 0..N |-> IF i = 0 THEN b ELSE InputSegment(h[i - 1], segs[i])]
<1>8. Walk(f)
  <2>1. f = [i \in 0..N |-> IF i = 0 THEN b ELSE g[i][f[i - 1]]]
    BY <1>7 DEF IsWalk
  <2>2. \A i \in 0..N : i # 0 => g[i][f[i - 1]] = InputSegment(f[i - 1], segs[i])
    BY <1>3, <1>5, <1>7
  <2> QED
    BY <2>1, <2>2
<1> DEFINE parsed == CHOOSE h : Walk(h)
<1>9. ikcp_input(k, segs, fails) =
        LET st == parsed[N]
            k1 == IF st.maxack < 0 THEN st.k ELSE ikcp_parse_fastack(st.k, st.maxack)
        IN  IF fails THEN st.k
            ELSE IF k1.snd_una > k.snd_una THEN GrowWindow(k1)
            ELSE k1
  BY <1>2 DEF ikcp_input
<1>10. Walk(parsed)
  <2> HIDE DEF Walk
  <2> QED
    BY <1>8
<1>11. \A i \in 0..N : parsed[i] \in T
  <2> DEFINE B == {i \in 0..N : parsed[i] \in T}
  <2> HIDE DEF parsed
  <2>1. 0 \in B
    BY <1>3, <1>4, <1>10
  <2>2. ASSUME NEW i \in 1..N, i - 1 \in B PROVE i \in B
    <3>1. i \in 0..N /\ i # 0 /\ parsed[i - 1] \in T
      BY <2>2
    <3>2. parsed[i] = InputSegment(parsed[i - 1], segs[i])
      BY <1>10, <3>1
    <3>3. parsed[i] \in T
      BY <1>1, <1>2, <1>3, <3>1, <3>2, InputStays
    <3> QED
      BY <3>1, <3>3
  <2>3. \A i \in 0..N : i \in B
    <3> HIDE DEF B
    <3> QED
      BY <1>3, <2>1, <2>2, GoesOn
  <2> QED
    BY <2>3
<1> HIDE DEF parsed
<1>12. PICK st \in T : st = parsed[N]
  BY <1>3, <1>11
<1>13. st.k \in ControlBlocks /\ Good(st.k, A, nxt, n, kind, m, way) /\ Later(k, st.k) /\ st.maxack \in Int
  BY <1>2, <1>12 DEF Parsed
<1>14. PICK k1 : k1 = IF st.maxack < 0 THEN st.k ELSE ikcp_parse_fastack(st.k, st.maxack)
  OBVIOUS
<1>15. k1 \in ControlBlocks /\ Good(k1, A, nxt, n, kind, m, way) /\ Later(k, k1)
  <2>1. CASE st.maxack < 0
    BY <1>13, <1>14, <2>1
  <2>2. CASE ~ (st.maxack < 0)
    <3>1. SndInv(st.k, A, n, kind) /\ RcvInv(st.k, m, nxt, way)
      BY <1>13 DEF Good
    <3>2. k1 \in ControlBlocks /\ SameRcv(st.k, k1) /\ SndInv(k1, A, n, kind) /\ k1.snd_nxt = st.k.snd_nxt
      BY <1>13, <1>14, <2>2, <3>1, FastackKeeps
    <3>3. RcvInv(k1, m, nxt, way)
      BY <3>1, <3>2, HalvesStay
    <3>4. Later(st.k, k1)
      BY <1>13, <3>2, LaterSame
    <3>5. Later(k, k1)
      BY <1>1, <1>13, <3>2, <3>4, LaterLater
    <3> QED
      BY <3>2, <3>3, <3>5 DEF Good
  <2> QED
    BY <2>1, <2>2
<1>16. PICK k2 : k2 = GrowWindow(k1)
  OBVIOUS
<1>17. Good(k2, A, nxt, n, kind, m, way) /\ Later(k, k2)
  <2>1. k2 \in ControlBlocks /\ SameRcv(k1, k2) /\ SameSnd(k1, k2)
    BY <1>15, <1>16, GrowKeeps
  <2>2. SndInv(k2, A, n, kind) /\ RcvInv(k2, m, nxt, way)
    BY <1>15, <2>1, HalvesStay DEF Good
  <2>3. Later(k1, k2)
    BY <1>15, <2>1, LaterSame DEF SameSnd
  <2>4. Later(k, k2)
    BY <1>1, <1>15, <2>1, <2>3, LaterLater
  <2> QED
    BY <2>1, <2>2, <2>4 DEF Good
<1>18. ikcp_input(k, segs, fails) \in {st.k, k1, k2}
  BY <1>9, <1>12, <1>14, <1>16
<1> QED
  BY <1>13, <1>15, <1>17, <1>18

\* One way is as bad as another, or worse.
AsBad(way, x) == way = x \/ x = "any" \/ (way = "clean" /\ x = "torn")

\* What holds for a way holds for a worse one and for more that may be acknowledged.
LEMMA Weaken ==
  ASSUME NEW A, NEW B, A \subseteq B, NEW n, NEW kind, NEW m, NEW nxt, NEW way, NEW x, AsBad(way, x)
  PROVE  /\ \A k : SndInv(k, A, n, kind) => SndInv(k, B, n, kind)
         /\ \A s : Sound(s, nxt, way) => Sound(s, nxt, x)
         /\ \A k : RcvInv(k, m, nxt, way) => RcvInv(k, m, nxt, x)
         /\ \A s, nq : Prints(s, nq, way) => Prints(s, nq, x)
<1>1. ASSUME NEW k, SndInv(k, A, n, kind) PROVE SndInv(k, B, n, kind)
  <2>1. Forgets(k, B)
    BY <1>1 DEF SndInv, Forgets
  <2> QED
    BY <1>1, <2>1 DEF SndInv
<1>2. \A sn, msg : Arrived(sn, msg, way) /\ x # "any" => Arrived(sn, msg, x)
  BY DEF Arrived, AsBad
<1>3. ASSUME NEW s, Sound(s, nxt, way) PROVE Sound(s, nxt, x)
  BY <1>2, <1>3 DEF Sound, AsBad
<1>4. ASSUME NEW k, RcvInv(k, m, nxt, way) PROVE RcvInv(k, m, nxt, x)
  <2>1. Receives(k, m, nxt, x)
    BY <1>2, <1>3, <1>4 DEF RcvInv, Receives, AsBad
  <2> QED
    BY <1>4, <2>1 DEF RcvInv
<1>5. ASSUME NEW s, NEW nq, Prints(s, nq, way) PROVE Prints(s, nq, x)
  BY <1>2, <1>5 DEF Prints, AsBad
<1> QED
  BY <1>1, <1>3, <1>4, <1>5

\* What the loop of ikcp_recv has taken from k, after s has been printed.
Got(k, A, nxt, n, kind, way, s, nq) ==
  {st \in [k : ControlBlocks, out : Seq(Int)] :
     /\ Good(st.k, A, nxt, n, kind, Len(s) + Len(st.out), way) /\ Later(k, st.k)
     /\ Prints(Cat(s, st.out), nq, way)}

\* One more message printed, in order.
LEMMA PrintsOneMore ==
  ASSUME NEW s \in Seq(Int), NEW o \in Seq(Int), NEW nq, NEW way, way # "long", Prints(Cat(s, o), nq, way),
         NEW x \in Int, NEW m, m = Len(s) + Len(o),
         way \in {"clean", "torn"} => Arrived(m, x, way) /\ m + 1 <= nq
  PROVE  Prints(Cat(s, Append(o, x)), nq, way)
<1>1. PICK a, l, b, c, d :
        a = Len(s) /\ l = Len(o) /\ b = Append(o, x) /\ c = Cat(s, o) /\ d = Cat(s, b)
  OBVIOUS
<1>2. /\ a \in Nat /\ l \in Nat /\ DOMAIN s = 1..a /\ DOMAIN o = 1..l
      /\ b \in Seq(Int) /\ Len(b) = l + 1 /\ DOMAIN b = 1..(l + 1) /\ b[l + 1] = x
      /\ \A i \in 1..l : b[i] = o[i]
  BY <1>1
<1>3. c \in Seq(Int) /\ IsCat(c, s, o) /\ d \in Seq(Int) /\ IsCat(d, s, b)
  BY <1>1, <1>2, CatOf
<1> SUFFICES ASSUME way \in {"clean", "torn"} PROVE \A i \in DOMAIN d : Arrived(i - 1, d[i], way) /\ i <= nq
  BY <1>1, <1>3 DEF Prints
<1>4. \A i \in DOMAIN c : Arrived(i - 1, c[i], way) /\ i <= nq
  BY <1>1 DEF Prints
<1>5. ASSUME NEW i \in DOMAIN d PROVE Arrived(i - 1, d[i], way) /\ i <= nq
  <2>0. i \in Int
    BY <1>3
  <2>1. CASE i \in DOMAIN s
    <3>1. d[i] = s[i] /\ c[i] = s[i] /\ i \in DOMAIN c
      BY <1>3, <2>1 DEF IsCat
    <3> QED
      BY <1>4, <3>1
  <2>2. CASE i - a \in 1..l
    <3>1. PICK j \in 1..l : j = i - a
      BY <2>2
    <3>2. i = j + a /\ j \in 1..(l + 1)
      BY <1>2, <2>0, <3>1
    <3>3. d[j + a] = b[j] /\ c[j + a] = o[j] /\ j + a \in DOMAIN c
      BY <1>1, <1>2, <1>3, <3>2 DEF IsCat
    <3>4. d[i] = c[i] /\ i \in DOMAIN c
      BY <1>2, <3>2, <3>3
    <3> QED
      BY <1>4, <3>4
  <2>3. CASE i - a = l + 1
    <3>0. PICK h \in Int : h = l + 1 /\ h \in 1..(l + 1) /\ m = a + l
      BY <1>1, <1>2
    <3>3. a \in Int /\ i - a = h
      BY <1>2, <2>3, <3>0
    <3>4. \A x1, y1, z1 \in Int : x1 - y1 = z1 => x1 = z1 + y1
      OBVIOUS
    <3>5. i = h + a
      BY <2>0, <3>0, <3>3, <3>4
    <3>8. m = a + l /\ l \in Nat /\ a \in Nat /\ i = (l + 1) + a
      BY <1>2, <3>0, <3>5
    <3>6. i - 1 = m /\ i = m + 1
      BY <3>8
    <3>1. i = (l + 1) + a /\ l + 1 \in 1..(l + 1) /\ i - 1 = m /\ i = m + 1
      BY <3>0, <3>6, <3>8
    <3>2. d[(l + 1) + a] = b[l + 1]
      BY <1>1, <1>2, <1>3, <3>1 DEF IsCat
    <3>7. d[i] = x
      BY <1>2, <3>1, <3>2
    <3> QED
      BY <3>1, <3>7
  <2>4. i \in DOMAIN s \/ i - a \in 1..(l + 1)
    BY <1>1, <1>2, <1>3 DEF IsCat
  <2>5. i - a \in 1..(l + 1) => i - a \in 1..l \/ i - a = l + 1
    BY <1>2, <2>0
  <2> QED
    BY <2>1, <2>2, <2>3, <2>4, <2>5
<1> QED
  BY <1>5

\* The message at the head ends with the first segment numbered 0, or is all there is.
LEMMA TakenIs ==
  ASSUME NEW segs \in Seq(RcvSegs), segs # <<>>
  PROVE  Taken(segs) \in 1..Len(segs) /\ (segs[1].frg = 0 => Taken(segs) = 1)
<1>1. PICK l : l = Len(segs)
  OBVIOUS
<1>2. l \in Nat /\ DOMAIN segs = 1..l /\ 1 \in 1..l /\ l \in 1..l
  BY <1>1
<1>3. PICK S : S = {n \in DOMAIN segs : segs[n].frg = 0} \cup {l}
  OBVIOUS
<1>4. S \subseteq 1..l /\ S # {} /\ (segs[1].frg = 0 => 1 \in S)
  BY <1>2, <1>3
<1>5. PICK x \in S : \A y \in S : x <= y
  <2>1. S \subseteq Nat
    BY <1>4
  <2> QED
    BY <1>4, <2>1, LeastNumber
<1>6. PICK n : n = Min(S)
  OBVIOUS
<1>7. n \in S /\ \A y \in S : n <= y
  BY <1>5, <1>6 DEF Min
<1>8. Taken(segs) = n
  BY <1>1, <1>3, <1>6 DEF Taken
<1>9. 1 \in S => n = 1
  BY <1>4, <1>7
<1> QED
  BY <1>1, <1>4, <1>7, <1>8, <1>9

\* A message is at least as long as its first segment.
LEMMA LengthIs ==
  ASSUME NEW segs \in Seq(RcvSegs), segs # <<>>
  PROVE  segs[1].len \in Nat /\ Length(segs) \in Nat /\ Length(segs) >= segs[1].len
<1>1. PICK N, T, b : N = Len(segs) /\ T = Nat /\ b = 0
  OBVIOUS
<1>2. N \in Nat /\ 1 \in 1..N /\ b \in T /\ \A i \in 1..N : segs[i].len \in Nat
  <2>1. N \in Nat /\ DOMAIN segs = 1..N /\ 1 \in 1..N
    BY <1>1
  <2>2. \A i \in 1..N : segs[i] \in RcvSegs
    BY <2>1, ElementsOf
  <2> QED
    BY <1>1, <2>1, <2>2 DEF RcvSegs
<1>3. PICK g : g = [i \in 1..N |-> [a \in T |-> a + segs[i].len]]
  OBVIOUS
<1>4. g \in [1..N -> [T -> T]]
  <2>1. \A i \in 1..N : [a \in T |-> a + segs[i].len] \in [T -> T]
    BY <1>1, <1>2
  <2> QED
    BY <1>3, <2>1
<1>5. PICK f : IsWalk(f, N, b, g) /\ \A i \in 0..N : f[i] \in T
  BY <1>2, <1>4, TypedIterates
<1> DEFINE Walk(h) == h = [i \in 0..N |-> IF i = 0 THEN 0 ELSE h[i - 1] + segs[i].len]
<1>6. Walk(f)
  <2>1. f = [i \in 0..N |-> IF i = 0 THEN b ELSE g[i][f[i - 1]]]
    BY <1>5 DEF IsWalk
  <2>2. \A i \in 0..N : i # 0 => g[i][f[i - 1]] = f[i - 1] + segs[i].len
    BY <1>2, <1>3, <1>5
  <2> QED
    BY <1>1, <2>1, <2>2
<1> DEFINE upto == CHOOSE h : Walk(h)
<1>7. Length(segs) = upto[Taken(segs)]
  BY <1>1 DEF Length
<1>8. Walk(upto)
  <2> HIDE DEF Walk
  <2> QED
    BY <1>6
<1> HIDE DEF upto
<1>9. upto[0] = 0 /\ \A i \in 1..N : upto[i] = upto[i - 1] + segs[i].len
  BY <1>2, <1>8
<1>10. PICK x \in Nat : x = segs[1].len
  BY <1>2
<1>11. \A i \in 0..N : upto[i] \in Nat /\ (i # 0 => upto[i] >= x)
  <2> DEFINE Is(i) == upto[i] \in Nat /\ (i # 0 => upto[i] >= x)
             B == {i \in 0..N : Is(i)}
  <2>1. 0 \in B
    BY <1>2, <1>9
  <2>2. ASSUME NEW i \in 1..N, i - 1 \in B PROVE i \in B
    <3>1. i \in 0..N /\ upto[i - 1] \in Nat /\ (i - 1 # 0 => upto[i - 1] >= x)
      BY <1>2, <2>2
    <3>2. PICK u \in Nat, y \in Nat : u = upto[i - 1] /\ y = segs[i].len
      BY <1>2, <3>1
    <3>3. upto[i] = u + y
      BY <1>9, <3>2
    <3>4. i = 1 => u = 0 /\ y = x
      BY <1>9, <1>10, <3>2
    <3>5. i # 1 => u >= x
      BY <3>1, <3>2
    <3>6. u + y \in Nat /\ u + y >= x
      BY <3>2, <3>4, <3>5
    <3> QED
      BY <3>1, <3>3, <3>6
  <2>3. \A i \in 0..N : i \in B
    <3> HIDE DEF B
    <3> QED
      BY <1>2, <2>1, <2>2, GoesOn
  <2> QED
    BY <2>3
<1>12. Taken(segs) \in 0..N /\ Taken(segs) # 0
  BY <1>1, TakenIs
<1> QED
  BY <1>7, <1>10, <1>11, <1>12

\* The head of rcv_queue is taken.
LEMMA TakeKeeps ==
  ASSUME NEW k \in ControlBlocks, NEW m \in Nat, NEW nxt \in Nat, NEW way, way # "long",
         RcvInv(k, m, nxt, way), k.rcv_queue # <<>>,
         NEW n, n = Taken(k.rcv_queue),
         NEW j, j = [k EXCEPT !.rcv_queue = SubSeq(@, n + 1, Len(@))]
  PROVE  /\ j \in ControlBlocks /\ SameSnd(k, j) /\ RcvInv(j, m + 1, nxt, way) /\ Later(k, j)
         /\ way \in {"clean", "torn"} => Arrived(m, Head(k.rcv_queue).msg, way) /\ m + 1 <= nxt
         /\ Head(k.rcv_queue).msg \in Int
<1>1. PICK queue, l, two, c : /\ queue = k.rcv_queue /\ l = Len(k.rcv_queue) /\ two = n + 1
                              /\ c = Part(queue, two, l)
  OBVIOUS
<1>2. /\ queue \in Seq(RcvSegs) /\ l \in Nat /\ l > 0 /\ DOMAIN queue = 1..l /\ l <= RcvWnd
      /\ Len(queue) = l /\ RcvWnd \in Nat /\ k.rcv_nxt \in Nat /\ k.snd_nxt \in Nat
  <2>1. /\ queue \in Seq(RcvSegs) /\ queue # <<>> /\ l <= RcvWnd /\ Len(queue) = l
        /\ RcvWnd \in Nat /\ k.rcv_nxt \in Nat /\ k.snd_nxt \in Nat
    BY <1>1, BlockTypes, ConstantSizes DEF RcvInv
  <2>2. l \in Nat /\ l > 0 /\ DOMAIN queue = 1..l
    BY <2>1
  <2> QED
    BY <2>1, <2>2
<1>21. /\ n \in 1..l /\ two \in 1..(l + 1) /\ (queue[1].frg = 0 => n = 1)
  <2>1. n \in 1..l /\ (queue[1].frg = 0 => n = 1)
    BY <1>1, <1>2, TakenIs
  <2> QED
    BY <1>1, <1>2, <2>1
<1>3. c \in Seq(RcvSegs) /\ IsPart(c, queue, two, l)
  BY <1>1, <1>2, <1>21, PartOf
<1>4. j = [k EXCEPT !.rcv_queue = c]
  BY <1>1 DEF Part
<1>5. /\ j \in ControlBlocks /\ SameSnd(k, j) /\ j.rcv_queue = c
      /\ j.rcv_nxt = k.rcv_nxt /\ j.rcv_buf = k.rcv_buf /\ j.acklist = k.acklist /\ j.snd_nxt = k.snd_nxt
  <2>1. j \in ControlBlocks
    BY <1>3, <1>4 DEF ControlBlocks
  <2> QED
    BY <1>4, <2>1 DEF ControlBlocks, SameSnd
<1>6. Len(c) = l - n /\ DOMAIN c = 1..(l - n)
      /\ \A i \in 1..(l - n) : i + n \in 1..l /\ c[i] = queue[i + n]
  <2>1. l - two + 1 = l - n /\ \A i \in 1..(l - n) : i + two - 1 = i + n
    <3>1. two = n + 1 /\ n \in Nat
      BY <1>1, <1>21
    <3>2. l \in Nat
      BY <1>2
    <3> QED
      BY <3>1, <3>2
  <2>2. Len(c) = l - n /\ DOMAIN c = 1..(l - n)
    BY <1>3, <2>1 DEF IsPart
  <2>3. ASSUME NEW i \in 1..(l - n) PROVE i + n \in 1..l /\ c[i] = queue[i + n]
    <3>1. i + two - 1 \in DOMAIN queue /\ c[i] = queue[i + two - 1]
      BY <1>3, <2>1 DEF IsPart
    <3> QED
      BY <1>2, <2>1, <3>1
  <2> QED
    BY <2>2, <2>3
<1>7. \A x : Received(j, x) <=> Received(k, x)
  BY <1>5 DEF Received
<1>8. Later(k, j)
  <2>1. Has(k) = Has(j)
    BY <1>7 DEF Has
  <2>2. k.snd_nxt <= j.snd_nxt
    BY <1>2, <1>5
  <2> QED
    BY <2>1, <2>2 DEF Later
<1>9. ASSUME way \in {"clean", "torn"}
      PROVE  /\ m + l = k.rcv_nxt
             /\ \A i \in 1..l : queue[i].frg = 0 /\ m + i <= nxt /\ Arrived(m + i - 1, queue[i].msg, way)
             /\ n = 1
  <2>1. /\ m + l = k.rcv_nxt
        /\ \A i \in 1..l : queue[i].frg = 0 /\ m + i <= nxt /\ Arrived(m + i - 1, queue[i].msg, way)
    BY <1>1, <1>2, <1>9 DEF RcvInv, Receives
  <2>2. 1 \in 1..l
    BY <1>2
  <2> QED
    BY <1>21, <2>1, <2>2
<1>10. Receives(j, m + 1, nxt, way)
  <2>1. ASSUME way \in {"clean", "torn"} PROVE (m + 1) + Len(c) = j.rcv_nxt
    <3>1. m + l = k.rcv_nxt /\ n = 1
      BY <1>9, <2>1
    <3> QED
      BY <1>2, <1>5, <1>6, <3>1
  <2>2. ASSUME way \in {"clean", "torn"}, NEW i \in DOMAIN c
        PROVE  c[i].frg = 0 /\ (m + 1) + i <= nxt /\ Arrived((m + 1) + i - 1, c[i].msg, way)
    <3>1. i \in 1..(l - 1) /\ i + 1 \in 1..l /\ c[i] = queue[i + 1]
      <4>1. n = 1
        BY <1>9, <2>2
      <4> QED
        BY <1>6, <4>1
    <3>2. m + (i + 1) = (m + 1) + i /\ m + (i + 1) - 1 = (m + 1) + i - 1
      BY <3>1
    <3>3. queue[i + 1].frg = 0 /\ m + (i + 1) <= nxt /\ Arrived(m + (i + 1) - 1, queue[i + 1].msg, way)
      BY <1>9, <2>2, <3>1
    <3> QED
      BY <3>1, <3>2, <3>3
  <2>3. \A s \in j.rcv_buf : Sound(s, nxt, way)
    BY <1>5 DEF RcvInv, Receives
  <2> QED
    BY <1>5, <2>1, <2>2, <2>3 DEF Receives
<1>11. RcvInv(j, m + 1, nxt, way)
  <2>1. Len(c) <= RcvWnd
    BY <1>2, <1>6, <1>21
  <2>2. \A i \in DOMAIN j.acklist : Received(j, j.acklist[i])
    BY <1>5, <1>7 DEF RcvInv
  <2> QED
    BY <1>5, <1>10, <2>1, <2>2 DEF RcvInv
<1>12. Head(queue) = queue[1] /\ 1 \in 1..l
  BY <1>2
<1>13. m + 1 - 1 = m
  OBVIOUS
<1>14. way \in {"clean", "torn"} => m + 1 <= nxt /\ Arrived(m, queue[1].msg, way)
  BY <1>9, <1>12, <1>13
<1>15. queue[1].msg \in Int
  BY <1>1, <1>2, <1>12, RcvTypes
<1> QED
  BY <1>1, <1>5, <1>8, <1>11, <1>12, <1>14, <1>15

\* Asking to tell the window touches neither half.
LEMMA TellKeeps ==
  ASSUME NEW k \in ControlBlocks, NEW t \in BOOLEAN, NEW j, j = [k EXCEPT !.tell = t]
  PROVE  j \in ControlBlocks /\ SameRcv(k, j) /\ SameSnd(k, j)
<1>1. j \in ControlBlocks
  BY DEF ControlBlocks
<1> QED
  BY <1>1 DEF ControlBlocks, SameRcv, SameSnd

\* One ikcp_recv prints the message that is next, if any.
LEMMA RecvStays ==
  ASSUME NEW A, NEW nxt \in Nat, NEW n, NEW kind, NEW way \in {"clean", "torn", "long", "any"},
         NEW s \in Seq(Int), NEW nq \in Nat, way \in {"clean", "torn"} => nxt <= nq,
         NEW k \in ControlBlocks, NEW st \in Got(k, A, nxt, n, kind, way, s, nq)
  PROVE  ikcp_recv(st) \in Got(k, A, nxt, n, kind, way, s, nq)
<1>1. CASE ~ Complete(st.k) \/ Length(st.k.rcv_queue) > RecvBuf
  <2>1. ikcp_recv(st) = st
    BY <1>1 DEF ikcp_recv
  <2> QED
    BY <2>1
<1>2. CASE Complete(st.k) /\ ~ (Length(st.k.rcv_queue) > RecvBuf)
  <2>1. PICK j, o, m : j = st.k /\ o = st.out /\ m = Len(s) + Len(st.out)
    OBVIOUS
  <2>2. /\ j \in ControlBlocks /\ o \in Seq(Int) /\ Good(j, A, nxt, n, kind, m, way)
        /\ Later(k, j) /\ Prints(Cat(s, o), nq, way)
    BY <2>1 DEF Got
  <2>3. m \in Nat
    <3>1. Len(s) \in Nat /\ Len(o) \in Nat
      BY <2>2
    <3> QED
      BY <2>1, <3>1
  <2>4. SndInv(j, A, n, kind) /\ RcvInv(j, m, nxt, way)
    BY <2>1, <2>2 DEF Good
  <2>5. j.rcv_queue # <<>> /\ j.rcv_queue \in Seq(RcvSegs)
    BY <1>2, <2>1, <2>2, BlockTypes DEF Complete
  <2>50. way # "long"
    <3> SUFFICES ASSUME way = "long" PROVE FALSE
      OBVIOUS
    <3>1. j.rcv_queue[1].len > RecvBuf
      BY <2>4, <2>5 DEF RcvInv, Receives
    <3>2. PICK x \in Nat, y \in Nat : x = j.rcv_queue[1].len /\ y = Length(j.rcv_queue) /\ y >= x
      BY <2>5, LengthIs
    <3>3. RecvBuf \in Nat /\ x > RecvBuf /\ ~ (y > RecvBuf)
      BY <1>2, <2>1, <3>1, <3>2, ConstantSizes
    <3> QED
      BY <3>2, <3>3
  <2>51. PICK t0 : t0 = Taken(j.rcv_queue)
    OBVIOUS
  <2>6. PICK j0 : j0 = [j EXCEPT !.rcv_queue = SubSeq(@, t0 + 1, Len(@))]
    OBVIOUS
  <2>7. /\ j0 \in ControlBlocks /\ SameSnd(j, j0) /\ RcvInv(j0, m + 1, nxt, way) /\ Later(j, j0)
        /\ way \in {"clean", "torn"} => Arrived(m, Head(j.rcv_queue).msg, way) /\ m + 1 <= nxt
        /\ Head(j.rcv_queue).msg \in Int
    BY <2>2, <2>3, <2>4, <2>5, <2>50, <2>51, <2>6, TakeKeeps
  <2>8. PICK j1 : j1 = MoveInOrder(j0)
    OBVIOUS
  <2>9. /\ j1 \in ControlBlocks /\ SameSnd(j0, j1) /\ RcvInv(j1, m + 1, nxt, way) /\ Later(j0, j1)
    <3>1. m + 1 \in Nat
      BY <2>3
    <3> QED
      BY <2>3, <2>7, <2>8, <3>1, MoveKeeps
  <2>10. PICK t : t = (j1.tell \/ (Len(j.rcv_queue) >= RcvWnd /\ Len(j1.rcv_queue) < RcvWnd))
    OBVIOUS
  <2>11. PICK e, x : e = [j1 EXCEPT !.tell = t] /\ x = Head(j.rcv_queue).msg
    OBVIOUS
  <2>12. ikcp_recv(st) = [k |-> e, out |-> Append(o, x)]
    <3>1. MoveInOrder([j EXCEPT !.rcv_queue = SubSeq(@, Taken(j.rcv_queue) + 1, Len(@))]) = j1
      BY <2>51, <2>6, <2>8
    <3> QED
      BY <1>2, <2>1, <2>10, <2>11, <3>1 DEF ikcp_recv
  <2>13. e \in ControlBlocks /\ SameRcv(j1, e) /\ SameSnd(j1, e)
    <3>1. t \in BOOLEAN
      <4>1. j1.tell \in BOOLEAN
        BY <2>9 DEF ControlBlocks
      <4> QED
        BY <2>10, <4>1
    <3> QED
      BY <2>9, <2>11, <3>1, TellKeeps
  <2>14. SndInv(e, A, n, kind) /\ RcvInv(e, m + 1, nxt, way)
    <3>1. SndInv(j0, A, n, kind)
      BY <2>4, <2>7, HalvesStay
    <3>2. SndInv(j1, A, n, kind)
      BY <2>9, <3>1, HalvesStay
    <3>3. SndInv(e, A, n, kind)
      BY <2>13, <3>2, HalvesStay
    <3>4. RcvInv(e, m + 1, nxt, way)
      BY <2>9, <2>13, HalvesStay
    <3> QED
      BY <3>3, <3>4
  <2>15. Later(k, e)
    <3>1. Later(k, j0)
      BY <2>2, <2>7, LaterLater
    <3>2. Later(k, j1)
      BY <2>7, <2>9, <3>1, LaterLater
    <3>3. e.snd_nxt = j1.snd_nxt
      BY <2>13 DEF SameSnd
    <3>4. Later(j1, e)
      BY <2>9, <2>13, <3>3, LaterSame
    <3> QED
      BY <2>9, <2>13, <3>2, <3>4, LaterLater
  <2>16. PICK b : b = Append(o, x)
    OBVIOUS
  <2>17. b \in Seq(Int) /\ Len(s) + Len(b) = m + 1
    <3>1. x \in Int
      BY <2>7, <2>11
    <3>2. b \in Seq(Int) /\ Len(b) = Len(o) + 1 /\ Len(o) \in Nat /\ Len(s) \in Nat
      BY <2>2, <2>16, <3>1
    <3> QED
      BY <2>1, <3>2
  <2>18. Prints(Cat(s, b), nq, way)
    <3>1. way \in {"clean", "torn"} => Arrived(m, x, way) /\ m + 1 <= nq
      BY <2>3, <2>7, <2>11
    <3>2. m = Len(s) + Len(o) /\ x \in Int
      BY <2>1, <2>7, <2>11
    <3>3. Prints(Cat(s, Append(o, x)), nq, way)
      BY <2>2, <2>50, <3>1, <3>2, PrintsOneMore
    <3> QED
      BY <2>16, <3>3
  <2>19. PICK r : r = [k |-> e, out |-> b]
    OBVIOUS
  <2>20. r \in [k : ControlBlocks, out : Seq(Int)] /\ r.k = e /\ r.out = b
    BY <2>13, <2>17, <2>19
  <2>21. Good(e, A, nxt, n, kind, m + 1, way)
    BY <2>13, <2>14 DEF Good
  <2>22. r \in Got(k, A, nxt, n, kind, way, s, nq)
    BY <2>15, <2>17, <2>18, <2>20, <2>21 DEF Got
  <2> QED
    BY <2>12, <2>16, <2>19, <2>22
<1> QED
  BY <1>1, <1>2

\* The whole loop.
LEMMA RecvAllKeeps ==
  ASSUME NEW A, NEW nxt \in Nat, NEW n, NEW kind, NEW way \in {"clean", "torn", "long", "any"},
         NEW s \in Seq(Int), NEW nq \in Nat, way \in {"clean", "torn"} => nxt <= nq,
         NEW k \in ControlBlocks, Good(k, A, nxt, n, kind, Len(s), way), Prints(s, nq, way)
  PROVE  RecvAll(k) \in Got(k, A, nxt, n, kind, way, s, nq)
<1>1. PICK N, T, b : N = 2 * RcvWnd /\ T = Got(k, A, nxt, n, kind, way, s, nq) /\ b = [k |-> k, out |-> <<>>]
  OBVIOUS
<1>2. N \in Nat
  BY <1>1, ConstantSizes
<1>3. b \in T
  <2>0. PICK e : e = <<>>
    OBVIOUS
  <2>1. e = <<>> /\ e \in Seq(Int) /\ Len(e) = 0
    BY <2>0
  <2>2. b \in [k : ControlBlocks, out : Seq(Int)] /\ b.k = k /\ b.out = e
    BY <1>1, <2>1
  <2>3. Cat(s, e) = s /\ Len(s) + Len(e) = Len(s)
    BY <2>1 DEF Cat
  <2>4. k.snd_nxt \in Nat
    BY BlockTypes
  <2>5. Later(k, k)
    BY <2>4, LaterSame DEF SameRcv
  <2> QED
    BY <1>1, <2>2, <2>3, <2>5 DEF Got
<1>4. \A st \in T : ikcp_recv(st) \in T
  BY <1>1, RecvStays
<1>5. PICK g : g = [i \in 1..N |-> [st \in T |-> ikcp_recv(st)]]
  OBVIOUS
<1>6. g \in [1..N -> [T -> T]]
  <2>1. [st \in T |-> ikcp_recv(st)] \in [T -> T]
    BY <1>4
  <2> QED
    BY <1>5, <2>1
<1>7. PICK f : IsWalk(f, N, b, g) /\ \A i \in 0..N : f[i] \in T
  BY <1>2, <1>3, <1>6, TypedIterates
<1> DEFINE Walk(h) == h = [i \in 0..N |-> IF i = 0 THEN b ELSE ikcp_recv(h[i - 1])]
<1>8. Walk(f)
  <2>1. f = [i \in 0..N |-> IF i = 0 THEN b ELSE g[i][f[i - 1]]]
    BY <1>7 DEF IsWalk
  <2>2. \A i \in 0..N : i # 0 => g[i][f[i - 1]] = ikcp_recv(f[i - 1])
    BY <1>2, <1>5, <1>7
  <2> QED
    BY <2>1, <2>2
<1> DEFINE got == CHOOSE h : Walk(h)
<1>9. RecvAll(k) = got[N]
  BY <1>1 DEF RecvAll
<1>10. Walk(got)
  <2> HIDE DEF Walk
  <2> QED
    BY <1>8
<1>11. \A i \in 0..N : got[i] \in T
  <2> DEFINE B == {i \in 0..N : got[i] \in T}
  <2> HIDE DEF got
  <2>1. 0 \in B
    BY <1>2, <1>3, <1>10
  <2>2. ASSUME NEW i \in 1..N, i - 1 \in B PROVE i \in B
    <3>1. i \in 0..N /\ i # 0 /\ got[i - 1] \in T
      BY <2>2
    <3>2. got[i] = ikcp_recv(got[i - 1])
      BY <1>10, <3>1
    <3>3. got[i] \in T
      BY <1>4, <3>1, <3>2
    <3> QED
      BY <3>1, <3>3
  <2>3. \A i \in 0..N : i \in B
    <3> HIDE DEF B
    <3> QED
      BY <1>2, <2>1, <2>2, GoesOn
  <2> QED
    BY <2>3
<1> HIDE DEF got
<1> QED
  BY <1>1, <1>2, <1>9, <1>11

\* How many fragments a message has, and that none is shorter than nothing.
LEMMA FragmentsAre ==
  ASSUME NEW p, NEW len \in Nat \ {0}, run.len[p] = len
  PROVE  /\ Fragments(p) \in Nat \ {0}
         /\ \A i \in 1..Fragments(p) : \A m \in Nat : Fragment(p, i, m) \in QueueSegs
         /\ len <= RecvBuf => Fragments(p) = 1
         /\ len > RecvBuf => \A m : Fragment(p, 1, m).len > RecvBuf
<1>1. PICK s, N : s = Mss /\ N = Fragments(p)
  OBVIOUS
<1>2. s \in Nat /\ s > 0 /\ RecvBuf \in Nat /\ RecvBuf < s
  BY <1>1, ConstantSizes
<1>3. N = IF len <= s THEN 1 ELSE (len + s - 1) \div s
  BY <1>1 DEF Fragments
<1>4. N \in Nat /\ N > 0 /\ \A i \in 1..N : len - (i - 1) * s >= 0
  <2>1. CASE len <= s
    <3>1. N = 1
      BY <1>3, <2>1
    <3>2. \A i \in 1..1 : (i - 1) * s = 0
      <4>1. \A i \in 1..1 : i - 1 = 0
        OBVIOUS
      <4>2. 0 * s = 0
        BY <1>2
      <4> QED
        BY <4>1, <4>2
    <3> QED
      BY <3>1, <3>2
  <2>2. CASE ~ (len <= s)
    <3>1. PICK x \in Nat : x = len + s - 1 /\ x >= s
      BY <1>2, <2>2
    <3>2. N = x \div s
      BY <1>3, <2>2, <3>1
    <3>3. N \in Nat /\ N > 0 /\ N * s <= x
      BY <1>2, <3>1, <3>2, SMTT(60)
    <3>4. ASSUME NEW i \in 1..N PROVE len - (i - 1) * s >= 0
      <4>1. PICK a \in Nat, b \in Nat : a = i - 1 /\ b = N - 1 /\ a <= b
        BY <3>3
      <4>2. a * s <= b * s
        BY <1>2, <4>1, SMTT(60)
      <4>3. b * s = N * s - s
        BY <1>2, <3>3, <4>1, SMTT(60)
      <4>4. PICK u \in Int, v \in Int, w \in Int : u = a * s /\ v = b * s /\ w = N * s
        BY <1>2, <3>3, <4>1
      <4>5. u <= v /\ v = w - s /\ w <= len + s - 1
        BY <3>1, <3>3, <4>2, <4>3, <4>4
      <4>6. len - u >= 0
        BY <1>2, <4>4, <4>5
      <4> QED
        BY <4>1, <4>4, <4>6
    <3> QED
      BY <3>3, <3>4
  <2> QED
    BY <2>1, <2>2
<1>5. ASSUME NEW i \in 1..N, NEW m \in Nat PROVE Fragment(p, i, m) \in QueueSegs
  <2>1. PICK y \in Int : y = len - (i - 1) * s /\ y >= 0
    BY <1>2, <1>4
  <2>2. PICK l, f : l = Least(y, s) /\ f = N - i
    OBVIOUS
  <2>3. l \in Nat /\ f \in Nat
    BY <1>2, <1>4, <2>1, <2>2 DEF Least
  <2>4. Fragment(p, i, m) = [frg |-> f, len |-> l, msg |-> m]
    BY <1>1, <2>1, <2>2 DEF Fragment
  <2> QED
    BY <2>3, <2>4 DEF QueueSegs
<1>6. len <= RecvBuf => N = 1
  BY <1>2, <1>3
<1>7. ASSUME len > RecvBuf, NEW m PROVE Fragment(p, 1, m).len > RecvBuf
  <2>1. (1 - 1) * s = 0
    BY <1>2
  <2>2. PICK l : l = Least(len - (1 - 1) * s, s)
    OBVIOUS
  <2>3. l = Least(len, s)
    BY <2>1, <2>2
  <2>4. l > RecvBuf
    BY <1>2, <1>7, <2>3 DEF Least
  <2>5. Fragment(p, 1, m).len = l
    BY <1>1, <2>2 DEF Fragment
  <2> QED
    BY <2>4, <2>5
<1> QED
  BY <1>1, <1>4, <1>5, <1>6, <1>7

\* ikcp_send queues one more message, or refuses it.
LEMMA SendKeeps ==
  ASSUME NEW p, run.len[p] \in Nat \ {0},
         NEW k \in ControlBlocks, NEW A, NEW n \in Nat, SndInv(k, A, n, Kind(p))
  PROVE  /\ ikcp_send(k, p, n + 1) \in ControlBlocks /\ SameRcv(k, ikcp_send(k, p, n + 1))
         /\ SndInv(ikcp_send(k, p, n + 1), A, n + 1, Kind(p))
         /\ ikcp_send(k, p, n + 1).snd_nxt = k.snd_nxt
<1>1. PICK N, new, queue, l, c :
        /\ N = Fragments(p) /\ new = [i \in 1..N |-> Fragment(p, i, n + 1)]
        /\ queue = k.snd_queue /\ l = Len(k.snd_queue) /\ c = Cat(queue, new)
  OBVIOUS
<1>2. queue \in Seq(QueueSegs) /\ l \in Nat /\ DOMAIN queue = 1..l /\ Len(queue) = l /\ k.snd_nxt \in Nat
  BY <1>1, BlockTypes
<1>3. /\ N \in Nat \ {0}
      /\ \A i \in 1..N : Fragment(p, i, n + 1) \in QueueSegs
      /\ run.len[p] <= RecvBuf => N = 1
      /\ run.len[p] > RecvBuf => Fragment(p, 1, n + 1).len > RecvBuf
  <2>1. n + 1 \in Nat
    OBVIOUS
  <2> QED
    BY <1>1, <2>1, FragmentsAre
<1>4. new \in Seq(QueueSegs) /\ Len(new) = N /\ DOMAIN new = 1..N
  BY <1>1, <1>3
<1>5. c \in Seq(QueueSegs) /\ IsCat(c, queue, new)
  BY <1>1, <1>2, <1>4, CatOf
<1>6. PICK j : j = [k EXCEPT !.snd_queue = c]
  OBVIOUS
<1>7. ikcp_send(k, p, n + 1) = IF N >= RcvWnd THEN k ELSE j
  BY <1>1, <1>6 DEF ikcp_send, Cat
<1>8. /\ j \in ControlBlocks /\ SameRcv(k, j) /\ j.snd_queue = c
      /\ j.snd_nxt = k.snd_nxt /\ j.snd_una = k.snd_una /\ j.snd_buf = k.snd_buf
  <2>1. j \in ControlBlocks
    BY <1>5, <1>6 DEF ControlBlocks
  <2> QED
    BY <1>6, <2>1 DEF ControlBlocks, SameRcv
<1>9. Kind(p) \in {"clean", "long"} /\ (Kind(p) = "clean" <=> Short(p))
  BY DEF Kind
<1>10. ASSUME Kind(p) = "clean"
       PROVE  /\ N < RcvWnd /\ j.snd_nxt + Len(c) = n + 1
              /\ \A i \in DOMAIN c : c[i].frg = 0 /\ c[i].msg = j.snd_nxt + i
  <2>1. Sends(k, n, "clean")
    BY <1>10 DEF SndInv
  <2>2. N = 1 /\ N < RcvWnd
    BY <1>3, <1>9, <1>10, ConstantSizes DEF Short
  <2>21. k.snd_nxt + l = n /\ \A i \in 1..l : queue[i].frg = 0 /\ queue[i].msg = k.snd_nxt + i
    BY <1>1, <1>2, <2>1 DEF Sends
  <2>3. Len(c) = l + 1 /\ DOMAIN c = 1..(l + 1)
    BY <1>2, <1>4, <1>5, <2>2 DEF IsCat
  <2>4. new[1].frg = 0 /\ new[1].msg = n + 1
    <3>1. new[1] = Fragment(p, 1, n + 1) /\ N - 1 = 0
      BY <1>1, <2>2
    <3> QED
      BY <1>1, <3>1 DEF Fragment
  <2>5. c[l + 1] = new[1]
    <3>1. c[1 + l] = new[1]
      BY <1>2, <1>4, <1>5, <2>2 DEF IsCat
    <3> QED
      BY <1>2, <3>1
  <2>6. \A i \in 1..l : c[i] = queue[i]
    BY <1>2, <1>5 DEF IsCat
  <2>7. \A i \in 1..(l + 1) : c[i].frg = 0 /\ c[i].msg = k.snd_nxt + i
    <3>1. k.snd_nxt + (l + 1) = n + 1
      <4>1. k.snd_nxt + l = n
        BY <2>21
      <4> QED
        BY <1>2, <4>1
    <3>2. \A i \in 1..(l + 1) : i = l + 1 \/ i \in 1..l
      BY <1>2
    <3> QED
      BY <2>21, <2>4, <2>5, <2>6, <3>1, <3>2
  <2>8. j.snd_nxt + Len(c) = n + 1
    <3>1. PICK x \in Nat : x = k.snd_nxt
      BY <1>2
    <3>2. x + (l + 1) = n + 1
      <4>1. x + l = n
        BY <2>21, <3>1
      <4> QED
        BY <1>2, <3>1, <4>1
    <3>3. j.snd_nxt = x
      BY <1>8, <3>1
    <3> QED
      BY <2>3, <3>2, <3>3
  <2> QED
    BY <1>8, <2>2, <2>3, <2>7, <2>8
<1>11. ASSUME Kind(p) = "long", N < RcvWnd, k.snd_nxt = 0
       PROVE  c[1].len > RecvBuf
  <2>1. run.len[p] > RecvBuf
    BY <1>3, <1>9, <1>11, ConstantSizes DEF Short
  <2>2. CASE queue = <<>>
    <3>1. l = 0 /\ 1 \in DOMAIN new /\ new[1] = Fragment(p, 1, n + 1) /\ Len(queue) = 0
      BY <1>1, <1>2, <1>3, <1>4, <2>2
    <3>2. c[1 + 0] = new[1]
      BY <1>5, <3>1 DEF IsCat
    <3> QED
      BY <1>3, <2>1, <3>1, <3>2
  <2>3. CASE queue # <<>>
    <3>1. 1 \in DOMAIN queue
      BY <1>2, <2>3
    <3>2. c[1] = queue[1]
      BY <1>5, <3>1 DEF IsCat
    <3>3. queue[1].len > RecvBuf
      BY <1>1, <1>11, <2>3 DEF SndInv, Sends
    <3> QED
      BY <3>2, <3>3
  <2> QED
    BY <2>2, <2>3
<1>12. ASSUME N < RcvWnd PROVE SndInv(j, A, n + 1, Kind(p))
  <2>1. Forgets(j, A) /\ Sorted(j.snd_buf)
    BY <1>8 DEF SndInv, Forgets, Held
  <2>2. \A i \in DOMAIN j.snd_buf : Sound(j.snd_buf[i], j.snd_nxt, Kind(p))
    BY <1>8 DEF SndInv, Sends
  <2>3. Sends(j, n + 1, Kind(p))
    BY <1>8, <1>10, <1>11, <1>12, <2>2 DEF Sends
  <2> QED
    BY <1>8, <2>1, <2>3 DEF SndInv
<1>13. ASSUME ~ (N < RcvWnd) PROVE SndInv(k, A, n + 1, Kind(p))
  <2>1. Kind(p) = "long"
    BY <1>9, <1>10, <1>13
  <2>2. Sends(k, n + 1, Kind(p))
    BY <2>1 DEF SndInv, Sends
  <2> QED
    BY <2>2 DEF SndInv
<1>14. N >= RcvWnd <=> ~ (N < RcvWnd)
  BY <1>3, ConstantSizes
<1>15. SameRcv(k, k)
  BY DEF SameRcv
<1> QED
  BY <1>7, <1>8, <1>12, <1>13, <1>14, <1>15

---------------------------------------------------------------------------
(* What is read of the datagrams that arrive.                                  *)

\* What may be read of segments in T: they themselves, with a payload completed by
\* the bytes of another datagram, and whatever shifted bytes are taken for.
Readings(T) == T \cup {[t EXCEPT !.msg = Torn] : t \in T} \cup Headers
Outcomes(T) == [segs : Seq(Readings(T)), fails : BOOLEAN]

\* A datagram's size grows from nothing by its segments.
LEMMA SizesAre ==
  ASSUME NEW d \in Seq(Segs)
  PROVE  Sizes(d)[0] = 0 /\ \A n \in 0..Len(d) : Sizes(d)[n] \in Nat
<1>1. PICK N, T, b, h : N = Len(d) /\ T = Nat /\ b = 0 /\ h = Overhead
  OBVIOUS
<1>2. N \in Nat /\ b \in T /\ h \in Nat /\ \A i \in 1..N : d[i].len \in Nat
  <2>1. N \in Nat /\ \A i \in 1..N : d[i] \in Segs
    BY <1>1, ElementsOf
  <2> QED
    BY <1>1, <2>1, ConstantSizes DEF Segs
<1>3. PICK g : g = [i \in 1..N |-> [a \in T |-> a + h + d[i].len]]
  OBVIOUS
<1>4. g \in [1..N -> [T -> T]]
  <2>1. \A i \in 1..N : [a \in T |-> a + h + d[i].len] \in [T -> T]
    BY <1>1, <1>2
  <2> QED
    BY <1>3, <2>1
<1>5. PICK f : IsWalk(f, N, b, g) /\ \A i \in 0..N : f[i] \in T
  BY <1>2, <1>4, TypedIterates
<1> DEFINE Walk(e) == e = [n \in 0..N |-> IF n = 0 THEN 0 ELSE e[n - 1] + Overhead + d[n].len]
<1>6. Walk(f)
  <2>1. f = [i \in 0..N |-> IF i = 0 THEN b ELSE g[i][f[i - 1]]]
    BY <1>5 DEF IsWalk
  <2>2. \A i \in 0..N : i # 0 => g[i][f[i - 1]] = f[i - 1] + Overhead + d[i].len
    BY <1>1, <1>2, <1>3, <1>5
  <2> QED
    BY <1>1, <2>1, <2>2
<1> DEFINE upto == CHOOSE e : Walk(e)
<1>7. Sizes(d) = upto
  BY <1>1 DEF Sizes
<1>8. Walk(upto)
  <2> HIDE DEF Walk
  <2> QED
    BY <1>6
<1> HIDE DEF upto
<1>9. upto[0] = 0 /\ \A i \in 1..N : upto[i] = upto[i - 1] + h + d[i].len
  <2>1. 0 \in 0..N /\ \A i \in 1..N : i \in 0..N /\ i # 0
    BY <1>2
  <2>2. \A i \in 0..N : upto[i] = IF i = 0 THEN 0 ELSE upto[i - 1] + h + d[i].len
    BY <1>1, <1>8
  <2> QED
    BY <2>1, <2>2
<1>10. \A i \in 0..N : upto[i] \in Nat
  <2> DEFINE B == {i \in 0..N : upto[i] \in Nat}
  <2>1. 0 \in B
    BY <1>2, <1>9
  <2>2. ASSUME NEW i \in 1..N, i - 1 \in B PROVE i \in B
    <3>1. i \in 0..N /\ upto[i - 1] \in Nat
      BY <1>2, <2>2
    <3>2. PICK u \in Nat, y \in Nat : u = upto[i - 1] /\ y = d[i].len
      BY <1>2, <3>1
    <3>3. upto[i] = u + h + y
      BY <1>9, <3>2
    <3>4. u + h + y \in Nat
      BY <1>2, <3>2
    <3> QED
      BY <3>1, <3>3, <3>4
  <2>3. \A i \in 0..N : i \in B
    <3> HIDE DEF B
    <3> QED
      BY <1>2, <2>1, <2>2, GoesOn
  <2> QED
    BY <2>3
<1> QED
  BY <1>1, <1>7, <1>9, <1>10

\* recvfrom leaves some of the segments whole, and behind them, if a stump with a
\* header is left, there is the segment that the header belongs to.
LEMMA FittingIs ==
  ASSUME NEW d \in Seq(Segs)
  PROVE  /\ Fitting(d) \in 0..Len(d)
         /\ Stump(d) >= Overhead => Fitting(d) + 1 \in DOMAIN d
<1>1. PICK N, F, S : /\ N = Len(d) /\ F = Fitting(d)
                     /\ S = {n \in 0..N : Sizes(d)[n] <= RecvBuf}
  OBVIOUS
<1>2. /\ N \in Nat /\ DOMAIN d = 1..N /\ RecvBuf \in Nat /\ Overhead \in Nat \ {0}
      /\ Sizes(d)[0] = 0 /\ \A n \in 0..N : Sizes(d)[n] \in Nat
  BY <1>1, ConstantSizes, SizesAre
<1>3. S \in SUBSET (0..N) /\ S # {}
  <2>1. 0 \in S
    BY <1>1, <1>2
  <2> QED
    BY <1>1, <2>1
<1>4. F = Max(S)
  BY <1>1 DEF Fitting
<1>5. F \in S
  BY <1>2, <1>3, <1>4, LargestNumber
<1>6. F \in 0..N /\ Sizes(d)[F] <= RecvBuf
  BY <1>1, <1>5
<1>7. ASSUME F = N PROVE ~ (Stump(d) >= Overhead)
  <2>1. PICK z \in Nat : z = Sizes(d)[N] /\ z <= RecvBuf
    BY <1>2, <1>6, <1>7
  <2>2. Cut(d) = z
    BY <1>1, <1>2, <2>1 DEF Cut, Least
  <2>3. Stump(d) = 0
    BY <1>1, <1>7, <2>1, <2>2 DEF Stump
  <2> QED
    BY <1>2, <2>3
<1>8. F # N => F + 1 \in 1..N
  BY <1>2, <1>6
<1> QED
  BY <1>1, <1>2, <1>6, <1>7, <1>8

\* From a border on, the segments are read that were sent.
LEMMA FromIs ==
  ASSUME NEW T, T \subseteq Segs, NEW d \in Seq(T), NEW j \in 0..Fitting(d)
  PROVE  /\ From(d, j) \in Outcomes(T)
         /\ From(d, j).segs \in Seq(Readings(T)) /\ From(d, j).fails \in BOOLEAN
<1>1. d \in Seq(Segs)
  OBVIOUS
<1>2. PICK F, b : F = Fitting(d) /\ b = (Stump(d) >= Overhead) /\ b \in BOOLEAN
  <2>1. (Stump(d) >= Overhead) \in BOOLEAN
    OBVIOUS
  <2> QED
    BY <2>1
<1>3. F \in Nat /\ F <= Len(d) /\ j + 1 \in 1..(F + 1)
  <2>1. F \in 0..Len(d) /\ Len(d) \in Nat
    BY <1>1, <1>2, FittingIs
  <2> QED
    BY <1>2, <2>1
<1>4. PICK c : c = SubSeq(d, j + 1, F)
  OBVIOUS
<1>5. c \in Seq(T)
  <2>1. Part(d, j + 1, F) \in Seq(T)
    BY <1>3, PartOf
  <2> QED
    BY <1>4, <2>1 DEF Part
<1>6. c \in Seq(Readings(T))
  <2>1. T \subseteq Readings(T)
    BY DEF Readings
  <2> HIDE DEF Readings
  <2> QED
    BY <1>5, <2>1
<1>7. From(d, j) = [segs |-> c, fails |-> b]
  BY <1>2, <1>4 DEF From
<1> QED
  BY <1>2, <1>6, <1>7 DEF Outcomes

\* What is read behind segments that are known.
LEMMA PrefixedIs ==
  ASSUME NEW T, NEW s \in Seq(Readings(T)), NEW o \in Outcomes(T)
  PROVE  Prefixed(s, o) \in Outcomes(T)
<1>1. PICK R : R = Readings(T)
  OBVIOUS
<1>2. s \in Seq(R) /\ o \in [segs : Seq(R), fails : BOOLEAN]
  BY <1>1 DEF Outcomes
<1>3. PICK u, b : u = o.segs /\ b = o.fails /\ o = [segs |-> u, fails |-> b]
  BY <1>2
<1>4. u \in Seq(R) /\ b \in BOOLEAN
  BY <1>2, <1>3
<1>5. PICK c : c = Cat(s, u)
  OBVIOUS
<1>6. c \in Seq(R)
  BY <1>2, <1>4, <1>5, CatOf
<1>7. Prefixed(s, o) = [segs |-> c, fails |-> b]
  <2>1. Prefixed(s, o) = [o EXCEPT !.segs = c]
    BY <1>3, <1>5, Zenon DEF Cat, Prefixed
  <2>2. [o EXCEPT !.segs = c] = [segs |-> c, fails |-> b]
    BY <1>3
  <2> QED
    BY <2>1, <2>2, Zenon
<1> QED
  BY <1>1, <1>4, <1>6, <1>7 DEF Outcomes

\* Away from the borders, nothing is known but that headers are taken.
LEMMA AstrayIs ==
  ASSUME NEW T, T \subseteq Segs, NEW d \in Seq(T), NEW pos
  PROVE  Astray(d, pos) \subseteq Outcomes(T)
<1>1. PICK R : R = Readings(T) /\ Headers \subseteq R
  BY DEF Readings
<1>2. \A s \in Strays : s \in Seq(R)
  BY <1>1, StraysAssumption
<1>3. Fitting(d) \in Nat
  <2>1. d \in Seq(Segs)
    OBVIOUS
  <2> QED
    BY <2>1, FittingIs
<1> SUFFICES ASSUME NEW o \in Astray(d, pos) PROVE o \in Outcomes(T)
  OBVIOUS
<1>4. CASE Cut(d) - pos < Overhead
  <2>1. PICK e : e = <<>>
    OBVIOUS
  <2>2. e \in Seq(R)
    BY <2>1
  <2>3. o = [segs |-> e, fails |-> FALSE]
    BY <1>4, <2>1 DEF Astray
  <2> QED
    BY <1>1, <2>2, <2>3 DEF Outcomes
<1>5. CASE ~ (Cut(d) - pos < Overhead)
  <2>1. \/ o \in [segs : Strays, fails : {TRUE}]
        \/ o \in [segs : Strays \ {<<>>}, fails : {FALSE}]
        \/ \E s \in Strays \ {<<>>}, j \in {n \in 1 .. Fitting(d) : Sizes(d)[n] > pos} :
             o = Prefixed(s, From(d, j))
    <3> DEFINE E == {Prefixed(s, From(d, j)) :
                      s \in Strays \ {<<>>}, j \in {n \in 1 .. Fitting(d) : Sizes(d)[n] > pos}}
    <3> HIDE DEF E
    <3>1. PICK A, B, C :
            A = [segs : Strays, fails : {TRUE}] /\ B = [segs : Strays \ {<<>>}, fails : {FALSE}] /\ C = E
      OBVIOUS
    <3>2. Astray(d, pos) = A \cup B \cup C
      BY <1>5, <3>1 DEF Astray, E
    <3>3. ASSUME o \in C
          PROVE  \E s \in Strays \ {<<>>}, j \in {n \in 1 .. Fitting(d) : Sizes(d)[n] > pos} :
                   o = Prefixed(s, From(d, j))
      BY <3>1, <3>3 DEF E
    <3> QED
      BY <3>1, <3>2, <3>3
  <2>2. ASSUME NEW s \in Strays \ {<<>>}, NEW j \in {n \in 1 .. Fitting(d) : Sizes(d)[n] > pos}
        PROVE  Prefixed(s, From(d, j)) \in Outcomes(T)
    <3>1. s \in Seq(Readings(T)) /\ j \in 0..Fitting(d)
      BY <1>1, <1>2, <1>3
    <3>2. From(d, j) \in Outcomes(T)
      BY <3>1, FromIs
    <3> QED
      BY <3>1, <3>2, PrefixedIs
  <2>3. o \in [segs : Strays, fails : BOOLEAN] => o \in Outcomes(T)
    BY <1>1, <1>2 DEF Outcomes
  <2> QED
    BY <2>1, <2>2, <2>3
<1> QED
  BY <1>4, <1>5

\* A stump and the datagram behind it.
LEMMA BehindIs ==
  ASSUME NEW T, T \subseteq Segs, NEW cut \in Seq(T), NEW d \in Seq(T)
  PROVE  Behind(cut, d) \subseteq Outcomes(T)
<1>1. PICK t, missing, borders :
        /\ t = cut[Fitting(cut) + 1] /\ missing = Overhead + t.len - Stump(cut)
        /\ borders = {n \in 0 .. Fitting(d) : Sizes(d)[n] = missing}
  OBVIOUS
<1>2. PICK rest : rest = IF borders = {} THEN Astray(d, missing) ELSE {From(d, n) : n \in borders}
  OBVIOUS
<1>3. PICK more : more = {Prefixed(<<[t EXCEPT !.msg = Torn]>>, o) : o \in rest}
  OBVIOUS
<1>4. Behind(cut, d) =
        IF Stump(cut) = 0 THEN {From(d, 0)}
        ELSE IF Stump(cut) < Overhead THEN Astray(d, - Stump(cut))
        ELSE IF missing > Cut(d) THEN {[segs |-> <<>>, fails |-> TRUE]}
        ELSE more
  BY <1>1, <1>2, <1>3 DEF Behind
<1>5. PICK R : R = Readings(T)
  OBVIOUS
<1>6. cut \in Seq(Segs) /\ d \in Seq(Segs)
  OBVIOUS
<1>7. rest \subseteq Outcomes(T)
  <2>1. Astray(d, missing) \subseteq Outcomes(T)
    BY AstrayIs
  <2>2. ASSUME NEW n \in borders PROVE From(d, n) \in Outcomes(T)
    <3>1. n \in 0..Fitting(d)
      BY <1>1
    <3> QED
      BY <3>1, FromIs
  <2> QED
    BY <1>2, <2>1, <2>2
<1>8. Stump(cut) \in Int /\ Overhead \in Int
  <2>1. PICK N, F : N = Len(cut) /\ F = Fitting(cut)
    OBVIOUS
  <2>2. N \in 0..N /\ F \in 0..N /\ RecvBuf \in Nat /\ Overhead \in Nat
    BY <1>6, <2>1, FittingIs, ConstantSizes
  <2>3. Sizes(cut)[N] \in Nat /\ Sizes(cut)[F] \in Nat
    BY <1>6, <2>1, <2>2, SizesAre
  <2>4. Cut(cut) \in Int
    BY <2>1, <2>2, <2>3 DEF Cut, Least
  <2> QED
    BY <2>1, <2>2, <2>3, <2>4 DEF Stump
<1>9. ASSUME Stump(cut) >= Overhead PROVE more \subseteq Outcomes(T)
  <2>1. t \in T
    <3>1. Fitting(cut) + 1 \in DOMAIN cut
      BY <1>6, <1>9, FittingIs
    <3> QED
      BY <1>1, <3>1, ElementsOf
  <2>2. PICK x, e : x = [t EXCEPT !.msg = Torn] /\ e = <<x>>
    OBVIOUS
  <2>3. e \in Seq(R)
    <3>1. x \in R
      BY <1>5, <2>1, <2>2 DEF Readings
    <3> QED
      BY <2>2, <3>1
  <2>4. ASSUME NEW o \in rest PROVE Prefixed(e, o) \in Outcomes(T)
    <3>1. o \in Outcomes(T) /\ e \in Seq(Readings(T))
      BY <1>5, <1>7, <2>3
    <3> QED
      BY <3>1, PrefixedIs
  <2>5. more = {Prefixed(e, o) : o \in rest}
    BY <1>3, <2>2
  <2> QED
    BY <2>4, <2>5
<1>10. From(d, 0) \in Outcomes(T)
  <2>1. 0 \in 0..Fitting(d)
    BY <1>6, FittingIs
  <2> QED
    BY <2>1, FromIs
<1>11. [segs |-> <<>>, fails |-> TRUE] \in Outcomes(T)
  <2>1. PICK e : e = <<>>
    OBVIOUS
  <2>2. e \in Seq(R)
    BY <2>1
  <2>3. [segs |-> e, fails |-> TRUE] \in [segs : Seq(R), fails : BOOLEAN]
    BY <2>2
  <2> QED
    BY <1>5, <2>1, <2>3 DEF Outcomes
<1>12. Astray(d, - Stump(cut)) \subseteq Outcomes(T)
  BY AstrayIs
<1>13. {From(d, 0)} \subseteq Outcomes(T) /\ {[segs |-> <<>>, fails |-> TRUE]} \subseteq Outcomes(T)
  BY <1>10, <1>11
<1>14. CASE Stump(cut) = 0
  BY <1>4, <1>13, <1>14, Zenon
<1>15. CASE Stump(cut) # 0 /\ Stump(cut) < Overhead
  BY <1>4, <1>12, <1>15, Zenon
<1>16. CASE Stump(cut) # 0 /\ ~ (Stump(cut) < Overhead)
  <2>1. more \subseteq Outcomes(T)
    BY <1>8, <1>9, <1>16
  <2> QED
    BY <1>4, <1>13, <1>16, <2>1, Zenon
<1> QED
  BY <1>14, <1>15, <1>16, Zenon

\* What a round of recvfrom reads.
LEMMA ParsesIs ==
  ASSUME NEW T, T \subseteq Segs, NEW p, DOMAIN net[p] \subseteq Seq(T),
         NEW s \in Arrivals(p), s # <<>>
  PROVE  Parses(s) \subseteq Outcomes(T)
<1>1. PICK B : B = DOMAIN net[p]
  OBVIOUS
<1>2. CASE s \in {<<d>> : d \in B}
  <2>1. PICK d \in B : s = <<d>>
    BY <1>2
  <2>2. Len(s) < 2 /\ DOMAIN s = {1} /\ s[1] = d
    BY <2>1
  <2>3. Parses(s) = {From(d, 0)}
    BY <2>2 DEF Parses
  <2>4. d \in Seq(T) /\ d \in Seq(Segs)
    <3>1. d \in Seq(T)
      BY <1>1
    <3> QED
      BY <3>1
  <2>5. 0 \in 0..Fitting(d)
    BY <2>4, FittingIs
  <2> QED
    BY <2>3, <2>4, <2>5, FromIs
<1>3. CASE s \in [1..2 -> B]
  <2>1. ~ (Len(s) < 2)
    <3>1. Len(s) = 2
      <4>1. DOMAIN s = 1..2 /\ s = [i \in 1..2 |-> s[i]] /\ \A i \in 1..2 : s[i] \in B
        BY <1>3
      <4>2. s \in Seq(B)
        BY <4>1
      <4> QED
        BY <4>1, <4>2
    <3> QED
      BY <3>1
  <2>2. PICK a, d : a = s[1] /\ d = s[2]
    OBVIOUS
  <2>3. a \in Seq(T) /\ d \in Seq(T)
    BY <1>1, <1>3, <2>2
  <2>4. a \in Seq(Segs)
    BY <2>3
  <2>5. PICK e : e = From(a, 0).segs
    OBVIOUS
  <2>6. PICK R : R = Readings(T)
    OBVIOUS
  <2>7. e \in Seq(R)
    <3>1. 0 \in 0..Fitting(a)
      BY <2>4, FittingIs
    <3> QED
      BY <2>3, <2>5, <2>6, <3>1, FromIs
  <2>8. Parses(s) = {Prefixed(e, o) : o \in Behind(a, d)}
    BY <2>1, <2>2, <2>5 DEF Parses
  <2>9. ASSUME NEW o \in Behind(a, d) PROVE Prefixed(e, o) \in Outcomes(T)
    <3>1. o \in Outcomes(T) /\ e \in Seq(Readings(T))
      BY <2>3, <2>6, <2>7, BehindIs
    <3> QED
      BY <3>1, PrefixedIs
  <2> QED
    BY <2>8, <2>9
<1> QED
  BY <1>1, <1>2, <1>3 DEF Arrivals, BagToSet

\* The way of a process that has read x, its peer's messages being of that kind.
As(kind, x) == IF x = "shifted" THEN "any" ELSE IF kind = "clean" THEN x ELSE "long"

\* What has been read is true for the way it was read.
LEMMA ReadingsAreTold ==
  ASSUME NEW A, NEW nxt \in Nat, NEW kind \in {"clean", "long"},
         NEW segs \in Seq(Readings(Told(A, nxt, kind))),
         NEW y \in {"clean", "torn", "shifted"}, NEW x, x = Worse(y, Spoilt(segs)),
         NEW w, w = As(kind, x), NEW B, A \subseteq B, w = "any" => B = Nat
  PROVE  segs \in Seq(Told(B, nxt, w))
<1>1. PICK T, told, l : T = Told(A, nxt, kind) /\ told = Told(B, nxt, w) /\ l = Len(segs)
  OBVIOUS
<1>2. l \in Nat /\ DOMAIN segs = 1..l /\ segs = [i \in 1..l |-> segs[i]] /\ \A i \in 1..l : segs[i] \in Readings(T)
  BY <1>1
<1>3. /\ x \in {"clean", "torn", "shifted"}
      /\ w = IF x = "shifted" THEN "any" ELSE IF kind = "clean" THEN x ELSE "long"
  BY DEF Worse, As
<1>4. ASSUME NEW i \in 1..l, x # "shifted" PROVE segs[i].msg # Stray
  BY <1>2, <1>4 DEF Worse, Spoilt
<1>5. ASSUME NEW i \in 1..l, x = "clean" PROVE segs[i].msg # Torn
  BY <1>2, <1>5 DEF Worse, Spoilt
<1>6. ASSUME NEW i \in 1..l PROVE segs[i] \in told
  <2>1. PICK h : h = segs[i]
    OBVIOUS
  <2>2. CASE h \in T
    <3>1. h \in Segs /\ HeaderOk(h, A, nxt, kind)
      BY <1>1, <2>2 DEF Told
    <3>2. AsBad(kind, w)
      BY <1>3 DEF AsBad
    <3>3. Sound(h, nxt, kind) => Sound(h, nxt, w)
      BY <3>2, Weaken
    <3>4. HeaderOk(h, B, nxt, w)
      BY <3>1, <3>3 DEF HeaderOk
    <3> QED
      BY <1>1, <2>1, <3>1, <3>4 DEF Told
  <2>3. CASE h \in {[t EXCEPT !.msg = Torn] : t \in T}
    <3>1. PICK t \in T : h = [t EXCEPT !.msg = Torn]
      BY <2>3
    <3>2. t \in Segs /\ HeaderOk(t, A, nxt, kind)
      BY <1>1 DEF Told
    <3>3. PICK z \in Int : z = Torn /\ h = [t EXCEPT !.msg = z]
      <4>1. Torn \in Int
        BY DEF Torn
      <4> QED
        BY <3>1, <4>1
    <3>4. /\ h \in Segs /\ h.msg = z /\ h.cmd = t.cmd /\ h.sn = t.sn /\ h.una = t.una
          /\ h.frg = t.frg /\ h.len = t.len
      BY <3>2, <3>3 DEF Segs
    <3>5. x # "clean"
      BY <1>5, <2>1, <3>3, <3>4
    <3>6. w \in {"torn", "long", "any"} /\ (w = "torn" => kind = "clean") /\ (w = "long" => kind = "long")
      BY <1>3, <3>5
    <3>7. Sound(t, nxt, kind) => Sound(h, nxt, w)
      BY <3>3, <3>4, <3>6 DEF Sound, Arrived
    <3>8. HeaderOk(h, B, nxt, w)
      BY <3>2, <3>4, <3>7 DEF HeaderOk
    <3> QED
      BY <1>1, <2>1, <3>4, <3>8 DEF Told
  <2>4. CASE h \in Headers
    <3>1. h.msg = Stray
      BY <2>4 DEF Headers
    <3>2. x = "shifted"
      BY <1>4, <2>1, <3>1
    <3>3. w = "any" /\ B = Nat
      BY <1>3, <3>2
    <3>4. h \in Segs
      <4>1. Stray \in Int
        BY DEF Stray
      <4> QED
        BY <2>4, <4>1 DEF Headers, Segs
    <3>5. HeaderOk(h, B, nxt, w)
      BY <3>3, <3>4 DEF HeaderOk, Sound, Segs
    <3> QED
      BY <1>1, <2>1, <3>4, <3>5 DEF Told
  <2> QED
    BY <1>2, <2>1, <2>2, <2>3, <2>4 DEF Readings
<1>7. segs \in Seq(told)
  BY <1>2, <1>6
<1> QED
  BY <1>1, <1>7

\* Bags: what they hold is their domain.
LEMMA BagDomains ==
  ASSUME NEW A, NEW B
  PROVE  DOMAIN (A (-) B) \subseteq DOMAIN A /\ DOMAIN (A (+) B) = DOMAIN A \cup DOMAIN B
  BY DEF (+), (-)

\* Bags made of sequences and of single elements.
LEMMA BagsOf ==
  ASSUME NEW S, NEW s \in Seq(S), NEW d
  PROVE  DOMAIN AsBag(s) \subseteq S /\ DOMAIN SetToBag({d}) = {d} /\ DOMAIN EmptyBag = {}
<1>1. \A i \in DOMAIN s : s[i] \in S
  BY ElementsOf
<1> QED
  BY <1>1 DEF AsBag, Range, SetToBag, EmptyBag

---------------------------------------------------------------------------
(* The steps.  What a peer's invariant says of the other one stays true while  *)
(* the other one moves on.                                                     *)

\* The receiving half, while the other side sends more.
LEMMA RcvStays ==
  ASSUME NEW k \in ControlBlocks, NEW m \in Nat, NEW way, NEW nxt \in Nat, NEW x \in Nat,
         RcvInv(k, m, nxt, way), nxt <= x
  PROVE  RcvInv(k, m, x, way)
<1>1. Receives(k, m, nxt, way)
  BY DEF RcvInv
<1>2. PICK l \in Nat : DOMAIN k.rcv_queue = 1..l
  BY BlockTypes, ElementsOf
<1>3. \A i \in DOMAIN k.rcv_queue : m + i <= nxt => m + i <= x
  BY <1>2
<1>4. \A s \in k.rcv_buf : Sound(s, nxt, way) => Sound(s, x, way)
  BY RcvTypes, SoundStays
<1>5. Receives(k, m, x, way)
  BY <1>1, <1>3, <1>4 DEF Receives
<1> QED
  BY <1>5 DEF RcvInv

\* What is printed stays right while more is queued.
LEMMA PrintsStay ==
  ASSUME NEW s, NEW way, NEW n \in Nat, NEW nq \in Nat, n <= nq, Prints(s, n, way)
  PROVE  Prints(s, nq, way)
<1>1. s \in Seq(Int)
  BY DEF Prints
<1>2. PICK l \in Nat : DOMAIN s = 1..l
  BY <1>1, ElementsOf
<1>3. \A i \in DOMAIN s : i <= n => i <= nq
  BY <1>2
<1> QED
  BY <1>3 DEF Prints

\* What may have been sent may still have been sent later.
LEMMA DatagramsStay ==
  ASSUME NEW k \in ControlBlocks, NEW j \in ControlBlocks, Later(k, j), NEW kind
  PROVE  Datagrams(Has(k), k.snd_nxt, kind) \subseteq Datagrams(Has(j), j.snd_nxt, kind)
<1>1. PICK A, B : A = Has(k) /\ B = Has(j)
  OBVIOUS
<1>2. A \subseteq B /\ k.snd_nxt \in Nat /\ j.snd_nxt \in Nat /\ k.snd_nxt <= j.snd_nxt
  BY <1>1, BlockTypes DEF Later
<1>3. PICK S, T : S = Told(A, k.snd_nxt, kind) /\ T = Told(B, j.snd_nxt, kind)
  OBVIOUS
<1>4. S \subseteq T
  BY <1>2, <1>3, TellsMore
<1>5. Seq(S) \subseteq Seq(T)
  BY <1>4
<1> QED
  BY <1>1, <1>3, <1>5 DEF Datagrams

\* What may be acknowledged.
LEMMA AcksStay ==
  ASSUME NEW k, NEW j, Later(k, j), NEW way, NEW w, AsBad(way, w)
  PROVE  /\ MayAck(k, way) \subseteq MayAck(j, way) /\ MayAck(k, way) \subseteq MayAck(k, w)
         /\ Has(k) \subseteq MayAck(k, w) /\ (w = "any" => MayAck(k, w) = Nat)
  BY DEF MayAck, Has, Later, AsBad

\* Each of the two processes is the other one's other.
LEMMA TwoPeers ==
  ASSUME NEW p \in Peers
  PROVE  /\ Other(p) \in Peers /\ Other(p) # p /\ Other(Other(p)) = p
         /\ \A x \in Peers : x \in {p, Other(p)}
<1>1. PICK a \in Peers, b \in Peers : a # b /\ Peers = {a, b}
  BY PeersAssumption
<1>2. \A x \in Peers : Other(x) \in Peers /\ Other(x) # x
  <2> SUFFICES ASSUME NEW x \in Peers PROVE Other(x) \in Peers /\ Other(x) # x
    OBVIOUS
  <2>1. \E q \in Peers : q # x
    BY <1>1
  <2> QED
    BY <2>1 DEF Other
<1> QED
  BY <1>1, <1>2

\* The ways of reading.
LEMMA WaysAre ==
  ASSUME NEW p, read[p] \in {"clean", "torn", "shifted"}
  PROVE  /\ Way(p) \in {"clean", "torn", "long", "any"} /\ Kind(p) \in {"clean", "long"}
         /\ Way(p) \in {"clean", "torn"} => Kind(Other(p)) = "clean"
         /\ Way(p) = IF read[p] = "shifted" THEN "any"
                     ELSE IF Kind(Other(p)) = "clean" THEN read[p] ELSE "long"
         /\ Way(p) = "any" <=> read[p] = "shifted"
<1>1. Way(p) = IF read[p] = "shifted" THEN "any" ELSE IF Short(Other(p)) THEN read[p] ELSE "long"
  BY DEF Way
<1>2. Kind(Other(p)) = IF Short(Other(p)) THEN "clean" ELSE "long"
  BY DEF Kind
<1>3. Kind(p) \in {"clean", "long"}
  BY DEF Kind
<1> QED
  BY <1>1, <1>2, <1>3

\* One peer moves on, reads, prints, queues, and sends datagrams it may send.
LEMMA MoveOn ==
  ASSUME KcpInv, NEW p \in Peers, NEW q, q = Other(p), run' = run,
         NEW j, NEW s, NEW n \in Nat, NEW w, w = Way(p)',
         DOMAIN kcp' = Peers, kcp'[p] = j, kcp'[q] = kcp[q],
         DOMAIN queued' = Peers, queued'[p] = n, queued'[q] = queued[q], queued[p] <= n,
         DOMAIN printed' = Peers, printed'[p] = s, printed'[q] = printed[q],
         DOMAIN read' = Peers, read'[q] = read[q], read'[p] \in {"clean", "torn", "shifted"},
         Good(j, MayAck(kcp[q], w), kcp[q].snd_nxt, n, Kind(p), Len(s), w), Later(kcp[p], j),
         Prints(s, queued[q], w),
         DOMAIN net' = Peers, DOMAIN net'[p] \subseteq Datagrams(Has(kcp[q]), kcp[q].snd_nxt, Kind(q)),
         DOMAIN net'[q] \subseteq Datagrams(Has(j), j.snd_nxt, Kind(p))
  PROVE  KcpInv'
<1>1. q \in Peers /\ Other(q) = p /\ \A x \in Peers : x \in {p, q}
  BY TwoPeers
<1>2. PeerInv(p) /\ PeerInv(q)
  BY <1>1 DEF KcpInv
<1>3. /\ kcp[p] \in ControlBlocks /\ kcp[q] \in ControlBlocks /\ j \in ControlBlocks
      /\ queued[p] \in Nat /\ queued[q] \in Nat
      /\ run.len[p] \in Nat \ {0} /\ run.len[q] \in Nat \ {0}
      /\ read[p] \in {"clean", "torn", "shifted"} /\ read[q] \in {"clean", "torn", "shifted"}
  BY <1>1, <1>2 DEF PeerInv, Good
<1>4. Kind(p)' = Kind(p) /\ Kind(q)' = Kind(q) /\ Way(q)' = Way(q)
  BY <1>1 DEF Kind, Short, Way
<1>5. PeerInv(p)'
  <2>1. SndInv(j, MayAck(kcp[q], w), n, Kind(p)) /\ RcvInv(j, Len(s), kcp[q].snd_nxt, w)
    BY DEF Good
  <2>2. MayAck(kcp[q], w)' = MayAck(kcp'[q], w) /\ MayAck(kcp'[q], w) = MayAck(kcp[q], w)
    OBVIOUS
  <2> QED
    BY <1>1, <1>3, <1>4, <2>1 DEF PeerInv
<1>6. PeerInv(q)'
  <2>1. PICK v, A, B : v = Way(q) /\ A = MayAck(kcp[p], v) /\ B = MayAck(j, v)
    OBVIOUS
  <2>2. /\ SndInv(kcp[q], A, queued[q], Kind(q))
        /\ RcvInv(kcp[q], Len(printed[q]), kcp[p].snd_nxt, v)
        /\ Prints(printed[q], queued[p], v)
    BY <1>1, <1>2, <2>1 DEF PeerInv
  <2>3. SndInv(kcp[q], B, queued[q], Kind(q))
    <3>1. AsBad(v, v)
      BY DEF AsBad
    <3>2. A \subseteq B
      BY <2>1, <3>1, AcksStay
    <3> QED
      BY <2>2, <3>1, <3>2, Weaken
  <2>4. RcvInv(kcp[q], Len(printed[q]), j.snd_nxt, v)
    <3>1. Len(printed[q]) \in Nat
      BY <2>2 DEF Prints
    <3>2. kcp[p].snd_nxt \in Nat /\ j.snd_nxt \in Nat /\ kcp[p].snd_nxt <= j.snd_nxt
      BY <1>3, BlockTypes DEF Later
    <3> QED
      BY <1>3, <2>2, <3>1, <3>2, RcvStays
  <2>5. Prints(printed[q], n, v)
    BY <1>3, <2>2, PrintsStay
  <2> QED
    BY <1>1, <1>3, <1>4, <2>1, <2>3, <2>4, <2>5 DEF PeerInv
<1> QED
  BY <1>1, <1>5, <1>6 DEF KcpInv

\* What the invariant says of a process and of what is under way.
LEMMA PeerFacts ==
  ASSUME KcpInv, NEW p \in Peers, NEW q, q = Other(p)
  PROVE  /\ q \in Peers /\ q # p
         /\ kcp[p] \in ControlBlocks /\ kcp[q] \in ControlBlocks
         /\ queued[p] \in Nat /\ queued[q] \in Nat /\ run.len[p] \in Nat \ {0}
         /\ read[p] \in {"clean", "torn", "shifted"} /\ printed[p] \in Seq(Int)
         /\ Good(kcp[p], MayAck(kcp[q], Way(p)), kcp[q].snd_nxt, queued[p], Kind(p),
                 Len(printed[p]), Way(p))
         /\ Prints(printed[p], queued[q], Way(p))
         /\ DOMAIN net[p] \subseteq Datagrams(Has(kcp[q]), kcp[q].snd_nxt, Kind(q))
         /\ DOMAIN net[q] \subseteq Datagrams(Has(kcp[p]), kcp[p].snd_nxt, Kind(p))
         /\ Kind(q) = "clean" => kcp[q].snd_nxt <= queued[q]
<1>1. q \in Peers /\ Other(q) = p /\ q # p
  BY TwoPeers
<1>2. PeerInv(p) /\ PeerInv(q)
  BY <1>1 DEF KcpInv
<1>3. ASSUME Kind(q) = "clean" PROVE kcp[q].snd_nxt <= queued[q]
  <2>1. PICK j, n : j = kcp[q] /\ n = queued[q]
    OBVIOUS
  <2>2. j \in ControlBlocks /\ Sends(j, n, Kind(q))
    BY <1>2, <2>1 DEF PeerInv, SndInv
  <2>3. j.snd_nxt \in Nat /\ Len(j.snd_queue) \in Nat
    BY <2>2, BlockTypes
  <2>4. j.snd_nxt + Len(j.snd_queue) = n
    BY <1>3, <2>2 DEF Sends
  <2> QED
    BY <2>1, <2>3, <2>4
<1>4. printed[p] \in Seq(Int)
  BY <1>2 DEF PeerInv, Prints
<1> QED
  BY <1>1, <1>2, <1>3, <1>4 DEF PeerInv, Good

\* What a turn takes out of the block and prints.
LEMMA GotIs ==
  ASSUME NEW k, NEW A, NEW nxt, NEW n, NEW kind, NEW w, NEW s \in Seq(Int), NEW nq,
         NEW st \in Got(k, A, nxt, n, kind, w, s, nq), NEW t, t = Cat(s, st.out)
  PROVE  Good(st.k, A, nxt, n, kind, Len(t), w) /\ Later(k, st.k) /\ Prints(t, nq, w)
<1>1. PICK m : m = Len(s) + Len(st.out)
  OBVIOUS
<1>2. /\ st.out \in Seq(Int) /\ Later(k, st.k)
      /\ Good(st.k, A, nxt, n, kind, m, w) /\ Prints(t, nq, w)
  BY <1>1 DEF Got
<1>3. Len(t) = m
  <2>1. IsCat(t, s, st.out)
    BY <1>2, CatOf
  <2> QED
    BY <1>1, <2>1 DEF IsCat
<1> QED
  BY <1>2, <1>3

\* The block after a turn that may have queued another message.
LEMMA MaySend ==
  ASSUME NEW p, run.len[p] \in Nat \ {0}, NEW n \in Nat,
         NEW A, NEW nxt, NEW m, NEW w, NEW k, Good(k, A, nxt, n, Kind(p), m, w),
         NEW x, NEW j, (x = n /\ j = k) \/ (x = n + 1 /\ j = ikcp_send(k, p, n + 1))
  PROVE  x \in Nat /\ n <= x /\ Good(j, A, nxt, x, Kind(p), m, w) /\ Later(k, j)
<1>1. k \in ControlBlocks /\ SndInv(k, A, n, Kind(p)) /\ RcvInv(k, m, nxt, w)
  BY DEF Good
<1>2. CASE x = n /\ j = k
  <2>1. Later(k, k)
    BY <1>1, LaterSame DEF SameRcv
  <2> QED
    BY <1>2, <2>1
<1>3. CASE x = n + 1 /\ j = ikcp_send(k, p, n + 1)
  <2>1. j \in ControlBlocks /\ SameRcv(k, j) /\ SndInv(j, A, x, Kind(p)) /\ j.snd_nxt = k.snd_nxt
    BY <1>1, <1>3, SendKeeps
  <2>2. RcvInv(j, m, nxt, w)
    BY <1>1, <2>1, HalvesStay
  <2>3. Later(k, j)
    BY <1>1, <2>1, LaterSame
  <2> QED
    BY <1>3, <2>1, <2>2, <2>3 DEF Good
<1> QED
  BY <1>2, <1>3

\* What main reads, and what the block is after it.
LEMMA ReadKeeps ==
  ASSUME KcpInv, NEW p \in Peers, NEW q, q = Other(p),
         NEW f, Good(f, MayAck(kcp[q], Way(p)), kcp[q].snd_nxt, queued[p], Kind(p),
                     Len(printed[p]), Way(p)),
         NEW s \in Arrivals(p),
         NEW o \in IF s = <<>> THEN {[segs |-> <<>>, fails |-> TRUE]} ELSE Parses(s),
         NEW x, x = Worse(read[p], Spoilt(o.segs)),
         NEW w, w = As(Kind(q), x),
         NEW k, k = ikcp_input(f, o.segs, o.fails)
  PROVE  /\ x \in {"clean", "torn", "shifted"}
         /\ Good(k, MayAck(kcp[q], w), kcp[q].snd_nxt, queued[p], Kind(p), Len(printed[p]), w)
         /\ Later(f, k) /\ Prints(printed[p], queued[q], w)
<1>1. /\ kcp[q] \in ControlBlocks /\ read[p] \in {"clean", "torn", "shifted"}
      /\ Len(printed[p]) \in Nat /\ Prints(printed[p], queued[q], Way(p))
      /\ DOMAIN net[p] \subseteq Datagrams(Has(kcp[q]), kcp[q].snd_nxt, Kind(q))
  BY PeerFacts
<1>2. PICK nxt, v, A, m : /\ nxt = kcp[q].snd_nxt /\ v = Way(p) /\ A = MayAck(kcp[q], v)
                          /\ m = Len(printed[p])
  OBVIOUS
<1>3. nxt \in Nat /\ m \in Nat
  BY <1>1, <1>2, BlockTypes
<1>4. x \in {"clean", "torn", "shifted"}
  BY DEF Worse
<1>5. AsBad(v, w)
  <2>1. v = IF read[p] = "shifted" THEN "any" ELSE IF Kind(q) = "clean" THEN read[p] ELSE "long"
    BY <1>1, <1>2, WaysAre
  <2>2. x = read[p] \/ x = "shifted" \/ (x = "torn" /\ read[p] = "clean")
    BY <1>1 DEF Worse, Spoilt
  <2> QED
    BY <1>1, <2>1, <2>2 DEF AsBad, As
<1>6. PICK B : B = MayAck(kcp[q], w)
  OBVIOUS
<1>7. A \subseteq B /\ Has(kcp[q]) \subseteq B /\ (w = "any" => B = Nat)
  <2>1. Later(kcp[q], kcp[q])
    BY <1>1, LaterSame DEF SameRcv
  <2> QED
    BY <1>2, <1>5, <1>6, <2>1, AcksStay
<1>8. Good(f, B, nxt, queued[p], Kind(p), m, w) /\ Prints(printed[p], queued[q], w)
  <2>1. f \in ControlBlocks /\ SndInv(f, A, queued[p], Kind(p)) /\ RcvInv(f, m, nxt, v)
    BY <1>2 DEF Good
  <2>2. SndInv(f, B, queued[p], Kind(p)) /\ RcvInv(f, m, nxt, w)
    BY <1>5, <1>7, <2>1, Weaken
  <2>3. Prints(printed[p], queued[q], w)
    <3>1. Prints(printed[p], queued[q], v)
      BY <1>1, <1>2
    <3>2. \A t, nq : Prints(t, nq, v) => Prints(t, nq, w)
      BY <1>5, <1>7, Weaken
    <3> QED
      BY <3>1, <3>2
  <2> QED
    BY <2>1, <2>2, <2>3 DEF Good
<1>9. o.segs \in Seq(Told(B, nxt, w))
  <2>1. PICK T : T = Told(Has(kcp[q]), nxt, Kind(q)) /\ T \subseteq Segs
    BY DEF Told
  <2>2. o.segs \in Seq(Readings(T))
    <3>1. CASE s = <<>>
      <4>1. PICK e : e = o.segs /\ e = <<>>
        BY <3>1
      <4>2. e \in Seq(Readings(T))
        BY <4>1
      <4> QED
        BY <4>1, <4>2
    <3>2. CASE s # <<>>
      <4>1. DOMAIN net[p] \subseteq Seq(T) /\ o \in Parses(s)
        BY <1>1, <1>2, <2>1, <3>2 DEF Datagrams
      <4>2. o \in Outcomes(T)
        BY <2>1, <3>2, <4>1, ParsesIs
      <4> QED
        BY <4>2 DEF Outcomes
    <3> QED
      BY <3>1, <3>2
  <2>3. Kind(q) \in {"clean", "long"}
    BY DEF Kind
  <2>4. PICK segs, y, kind, H : segs = o.segs /\ y = read[p] /\ kind = Kind(q) /\ H = Has(kcp[q])
    OBVIOUS
  <2>5. /\ T = Told(H, nxt, kind) /\ segs \in Seq(Readings(Told(H, nxt, kind)))
        /\ x = Worse(y, Spoilt(segs)) /\ y \in {"clean", "torn", "shifted"}
        /\ w = As(kind, x)
        /\ kind \in {"clean", "long"} /\ H \subseteq B
    BY <1>1, <1>7, <2>1, <2>2, <2>3, <2>4
  <2>6. segs \in Seq(Told(B, nxt, w))
    BY <1>3, <1>7, <2>5, ReadingsAreTold
  <2> QED
    BY <2>4, <2>6
<1>10. Good(k, B, nxt, queued[p], Kind(p), m, w) /\ Later(f, k)
  BY <1>3, <1>8, <1>9, InputKeeps
<1> QED
  BY <1>2, <1>4, <1>6, <1>8, <1>10

\* One turn of main's loop.
LEMMA TurnKeeps ==
  ASSUME KcpInv, NEW p \in Peers, NEW flush \in BOOLEAN, NEW s \in Arrivals(p), Turn(p, flush, s)
  PROVE  KcpInv'
<1>0. PICK more \in BOOLEAN : more <=> queued[p] < run.msgs[p]
  OBVIOUS
<1>1. PICK q : q = Other(p)
  OBVIOUS
<1>2. PICK f, o, k, r :
        /\ f = IF flush THEN ikcp_flush(kcp[p]) ELSE [k |-> kcp[p], out |-> <<>>]
        /\ o \in IF s = <<>> THEN {[segs |-> <<>>, fails |-> TRUE]} ELSE Parses(s)
        /\ k = ikcp_input(f.k, o.segs, o.fails)
        /\ r = RecvAll(k)
        /\ kcp' = [kcp EXCEPT ![p] = IF more THEN ikcp_send(r.k, p, queued[p] + 1) ELSE r.k]
        /\ queued' = [queued EXCEPT ![p] = IF more THEN @ + 1 ELSE @]
        /\ printed' = [printed EXCEPT ![p] = @ \o r.out]
        /\ net' = [net EXCEPT ![p] = @ (-) AsBag(s), ![q] = @ (+) AsBag(f.out)]
        /\ read' = [read EXCEPT ![p] = Worse(@, Spoilt(o.segs))]
        /\ run' = run
  <2>1. PICK f \in {IF flush THEN ikcp_flush(kcp[p]) ELSE [k |-> kcp[p], out |-> <<>>]} :
          \E o \in IF s = <<>> THEN {[segs |-> <<>>, fails |-> TRUE]} ELSE Parses(s) :
          \E r \in {RecvAll(ikcp_input(f.k, o.segs, o.fails))} :
            /\ kcp' = [kcp EXCEPT ![p] =
                         IF queued[p] < run.msgs[p] THEN ikcp_send(r.k, p, queued[p] + 1) ELSE r.k]
            /\ queued' = [queued EXCEPT ![p] = IF queued[p] < run.msgs[p] THEN @ + 1 ELSE @]
            /\ printed' = [printed EXCEPT ![p] = @ \o r.out]
            /\ net' = [net EXCEPT ![p] = @ (-) AsBag(s), ![Other(p)] = @ (+) AsBag(f.out)]
            /\ read' = [read EXCEPT ![p] = Worse(@, Spoilt(o.segs))]
            /\ run' = run
    BY Zenon DEF Turn
  <2>2. PICK o \in IF s = <<>> THEN {[segs |-> <<>>, fails |-> TRUE]} ELSE Parses(s) :
          \E r \in {RecvAll(ikcp_input(f.k, o.segs, o.fails))} :
            /\ kcp' = [kcp EXCEPT ![p] =
                         IF queued[p] < run.msgs[p] THEN ikcp_send(r.k, p, queued[p] + 1) ELSE r.k]
            /\ queued' = [queued EXCEPT ![p] = IF queued[p] < run.msgs[p] THEN @ + 1 ELSE @]
            /\ printed' = [printed EXCEPT ![p] = @ \o r.out]
            /\ net' = [net EXCEPT ![p] = @ (-) AsBag(s), ![Other(p)] = @ (+) AsBag(f.out)]
            /\ read' = [read EXCEPT ![p] = Worse(@, Spoilt(o.segs))]
            /\ run' = run
    BY <2>1, Zenon
  <2>3. PICK r : r = RecvAll(ikcp_input(f.k, o.segs, o.fails)) /\
            /\ kcp' = [kcp EXCEPT ![p] =
                         IF queued[p] < run.msgs[p] THEN ikcp_send(r.k, p, queued[p] + 1) ELSE r.k]
            /\ queued' = [queued EXCEPT ![p] = IF queued[p] < run.msgs[p] THEN @ + 1 ELSE @]
            /\ printed' = [printed EXCEPT ![p] = @ \o r.out]
            /\ net' = [net EXCEPT ![p] = @ (-) AsBag(s), ![Other(p)] = @ (+) AsBag(f.out)]
            /\ read' = [read EXCEPT ![p] = Worse(@, Spoilt(o.segs))]
            /\ run' = run
    BY <2>2, Zenon
  <2>4. /\ f = IF flush THEN ikcp_flush(kcp[p]) ELSE [k |-> kcp[p], out |-> <<>>]
        /\ o \in IF s = <<>> THEN {[segs |-> <<>>, fails |-> TRUE]} ELSE Parses(s)
    BY <2>1, <2>2, Zenon
  <2>5. CASE more
    BY <1>0, <1>1, <2>3, <2>4, <2>5
  <2>6. CASE ~ more
    BY <1>0, <1>1, <2>3, <2>4, <2>6
  <2> QED
    BY <2>5, <2>6
<1>3. /\ q \in Peers /\ q # p /\ DOMAIN kcp = Peers /\ DOMAIN queued = Peers
      /\ DOMAIN printed = Peers /\ DOMAIN net = Peers /\ DOMAIN read = Peers
  BY <1>1, TwoPeers DEF KcpInv
<1>4. PICK v, A, nxt, m :
        v = Way(p) /\ A = MayAck(kcp[q], v) /\ nxt = kcp[q].snd_nxt /\ m = Len(printed[p])
  OBVIOUS
<1>5. /\ kcp[p] \in ControlBlocks /\ kcp[q] \in ControlBlocks /\ queued[p] \in Nat
      /\ Good(kcp[p], A, nxt, queued[p], Kind(p), m, v)
      /\ DOMAIN net[p] \subseteq Datagrams(Has(kcp[q]), nxt, Kind(q))
      /\ DOMAIN net[q] \subseteq Datagrams(Has(kcp[p]), kcp[p].snd_nxt, Kind(p))
  BY <1>1, <1>4, PeerFacts
<1>6. /\ Good(f.k, A, nxt, queued[p], Kind(p), m, v) /\ Later(kcp[p], f.k)
      /\ f.out \in Seq(Datagrams(Has(f.k), f.k.snd_nxt, Kind(p)))
  <2>1. CASE flush
    <3>1. SndInv(kcp[p], A, queued[p], Kind(p)) /\ RcvInv(kcp[p], m, nxt, v)
      BY <1>5 DEF Good
    <3>2. f = ikcp_flush(kcp[p]) /\ Kind(p) \in {"clean", "long"}
      BY <1>2, <2>1 DEF Kind
    <3> QED
      BY <1>5, <3>1, <3>2, FlushKeeps DEF Good
  <2>2. CASE ~ flush
    <3>1. f.k = kcp[p] /\ f.out = <<>>
      BY <1>2, <2>2
    <3>2. Later(kcp[p], kcp[p])
      BY <1>5, LaterSame DEF SameRcv
    <3> QED
      BY <1>5, <3>1, <3>2
  <2> QED
    BY <2>1, <2>2
<1>7. PICK x, w : /\ x = Worse(read[p], Spoilt(o.segs))
                  /\ w = As(Kind(q), x)
  OBVIOUS
<1>8. /\ x \in {"clean", "torn", "shifted"}
      /\ Good(k, MayAck(kcp[q], w), nxt, queued[p], Kind(p), m, w)
      /\ Later(f.k, k) /\ Prints(printed[p], queued[q], w)
  <2>1. PICK g : g = f.k
    OBVIOUS
  <2>2. /\ Good(g, MayAck(kcp[q], Way(p)), kcp[q].snd_nxt, queued[p], Kind(p), Len(printed[p]), Way(p))
        /\ o \in (IF s = <<>> THEN {[segs |-> <<>>, fails |-> TRUE]} ELSE Parses(s))
        /\ k = ikcp_input(g, o.segs, o.fails)
    BY <1>2, <1>4, <1>6, <2>1
  <2>3. /\ x \in {"clean", "torn", "shifted"}
        /\ Good(k, MayAck(kcp[q], w), kcp[q].snd_nxt, queued[p], Kind(p), Len(printed[p]), w)
        /\ Later(g, k) /\ Prints(printed[p], queued[q], w)
    BY <1>1, <1>7, <2>2, ReadKeeps
  <2> QED
    BY <1>4, <2>1, <2>3
<1>9. w = Way(p)' /\ read'[p] = x /\ read'[q] = read[q] /\ DOMAIN read' = Peers
  <2>1. read'[p] = x /\ read'[q] = read[q] /\ DOMAIN read' = Peers
    BY <1>2, <1>3, <1>7
  <2>2. Kind(q)' = Kind(q)
    BY <1>2 DEF Kind, Short
  <2>3. Way(p)' = IF x = "shifted" THEN "any" ELSE IF Kind(q)' = "clean" THEN x ELSE "long"
    BY <1>1, <1>2, <2>1 DEF Way, Kind, Short
  <2> QED
    BY <1>7, <2>1, <2>2, <2>3 DEF As
<1>10. PICK j, n, t :
        /\ j = IF more THEN ikcp_send(r.k, p, queued[p] + 1) ELSE r.k
        /\ n = IF more THEN queued[p] + 1 ELSE queued[p]
        /\ t = Cat(printed[p], r.out)
  OBVIOUS
<1>11. /\ n \in Nat /\ queued[p] <= n
       /\ Good(j, MayAck(kcp[q], w), nxt, n, Kind(p), Len(t), w) /\ Later(k, j)
       /\ Prints(t, queued[q], w)
  <2>1. PICK B, u, y, nq :
          B = MayAck(kcp[q], w) /\ u = printed[p] /\ y = queued[p] /\ nq = queued[q]
    OBVIOUS
  <2>2. Good(k, B, nxt, y, Kind(p), Len(u), w) /\ Prints(u, nq, w) /\ t = Cat(u, RecvAll(k).out)
    BY <1>2, <1>4, <1>8, <1>10, <2>1
  <2>3. /\ run.len[p] \in Nat \ {0} /\ nxt \in Nat /\ y \in Nat /\ u \in Seq(Int) /\ nq \in Nat
        /\ Kind(q) = "clean" => nxt <= nq
    BY <1>1, <1>4, <2>1, PeerFacts, BlockTypes
  <2>4. w \in {"clean", "torn", "long", "any"} /\ (w \in {"clean", "torn"} => nxt <= nq)
    BY <1>7, <1>8, <2>3 DEF As, Kind
  <2>5. PICK e : e = r.k /\ Good(e, B, nxt, y, Kind(p), Len(t), w) /\ Later(k, e) /\ Prints(t, nq, w)
    <3>1. k \in ControlBlocks
      BY <2>2 DEF Good
    <3>2. RecvAll(k) \in Got(k, B, nxt, y, Kind(p), w, u, nq)
      BY <2>2, <2>3, <2>4, <3>1, RecvAllKeeps
    <3>3. r \in Got(k, B, nxt, y, Kind(p), w, u, nq) /\ t = Cat(u, r.out)
      BY <1>2, <2>2, <3>2
    <3> QED
      BY <2>3, <3>3, GotIs
  <2>6. (n = y /\ j = e) \/ (n = y + 1 /\ j = ikcp_send(e, p, y + 1))
    BY <1>10, <2>1, <2>5
  <2>7. n \in Nat /\ y <= n /\ Good(j, B, nxt, n, Kind(p), Len(t), w) /\ Later(e, j)
    BY <2>3, <2>5, <2>6, MaySend
  <2>8. Later(k, j)
    <3>1. k \in ControlBlocks /\ e \in ControlBlocks /\ j \in ControlBlocks
      BY <2>2, <2>5, <2>7 DEF Good
    <3> QED
      BY <2>5, <2>7, <3>1, LaterLater
  <2> QED
    BY <2>1, <2>5, <2>7, <2>8
<1>12. f.k \in ControlBlocks /\ k \in ControlBlocks /\ j \in ControlBlocks
  BY <1>6, <1>8, <1>11 DEF Good
<1>13. Later(f.k, j) /\ Later(kcp[p], j)
  BY <1>5, <1>6, <1>8, <1>11, <1>12, LaterLater
<1>14. /\ DOMAIN kcp' = Peers /\ kcp'[p] = j /\ kcp'[q] = kcp[q]
       /\ DOMAIN queued' = Peers /\ queued'[p] = n /\ queued'[q] = queued[q]
       /\ DOMAIN printed' = Peers /\ printed'[p] = t /\ printed'[q] = printed[q]
  BY <1>2, <1>3, <1>10 DEF Cat
<1>15. DOMAIN net' = Peers /\ net'[p] = net[p] (-) AsBag(s) /\ net'[q] = net[q] (+) AsBag(f.out)
  BY <1>2, <1>3
<1>16. DOMAIN net'[p] \subseteq Datagrams(Has(kcp[q]), nxt, Kind(q))
  BY <1>5, <1>15, BagDomains
<1>17. DOMAIN net'[q] \subseteq Datagrams(Has(j), j.snd_nxt, Kind(p))
  <2>1. PICK D, E, F : /\ D = Datagrams(Has(j), j.snd_nxt, Kind(p))
                       /\ E = Datagrams(Has(f.k), f.k.snd_nxt, Kind(p))
                       /\ F = Datagrams(Has(kcp[p]), kcp[p].snd_nxt, Kind(p))
    OBVIOUS
  <2>2. E \subseteq D /\ F \subseteq D
    BY <1>5, <1>12, <1>13, <2>1, DatagramsStay
  <2>3. f.out \in Seq(E)
    BY <1>6, <2>1
  <2>4. DOMAIN AsBag(f.out) \subseteq E
    BY <2>3, BagsOf
  <2>5. PICK a, c : a = AsBag(f.out) /\ c = net[q]
    OBVIOUS
  <2>6. net'[q] = c (+) a
    BY <1>15, <2>5
  <2>7. DOMAIN (c (+) a) = DOMAIN c \cup DOMAIN a
    BY BagDomains
  <2> QED
    BY <1>5, <2>1, <2>2, <2>4, <2>5, <2>6, <2>7
<1> QED
  BY <1>1, <1>2, <1>4, <1>8, <1>9, <1>11, <1>13, <1>14, <1>15, <1>16, <1>17, MoveOn

\* Timers that run out change neither half.
LEMMA DueKeeps ==
  ASSUME KcpInv, NEW p \in Peers, NEW j, kcp' = [kcp EXCEPT ![p] = j],
         UNCHANGED <<run, queued, printed, net, read>>, j \in ControlBlocks, SameRcv(kcp[p], j),
         SndInv(j, MayAck(kcp[Other(p)], Way(p)), queued[p], Kind(p)), j.snd_nxt = kcp[p].snd_nxt
  PROVE  KcpInv'
<1>1. PICK q, w : q = Other(p) /\ w = Way(p)
  OBVIOUS
<1>2. /\ q \in Peers /\ q # p /\ DOMAIN kcp = Peers /\ DOMAIN queued = Peers
      /\ DOMAIN printed = Peers /\ DOMAIN net = Peers /\ DOMAIN read = Peers
  BY <1>1, TwoPeers DEF KcpInv
<1>3. /\ kcp[p] \in ControlBlocks /\ queued[p] \in Nat /\ read[p] \in {"clean", "torn", "shifted"}
      /\ RcvInv(kcp[p], Len(printed[p]), kcp[q].snd_nxt, w)
      /\ Prints(printed[p], queued[q], w)
      /\ DOMAIN net[p] \subseteq Datagrams(Has(kcp[q]), kcp[q].snd_nxt, Kind(q))
      /\ DOMAIN net[q] \subseteq Datagrams(Has(kcp[p]), kcp[p].snd_nxt, Kind(p))
  BY <1>1, PeerFacts DEF Good
<1>4. RcvInv(j, Len(printed[p]), kcp[q].snd_nxt, w)
  BY <1>3, HalvesStay
<1>5. Good(j, MayAck(kcp[q], w), kcp[q].snd_nxt, queued[p], Kind(p), Len(printed[p]), w)
  BY <1>1, <1>4 DEF Good
<1>6. Later(kcp[p], j)
  BY <1>3, LaterSame
<1>7. DOMAIN net[q] \subseteq Datagrams(Has(j), j.snd_nxt, Kind(p))
  BY <1>3, <1>6, DatagramsStay
<1>8. kcp'[p] = j /\ kcp'[q] = kcp[q] /\ DOMAIN kcp' = Peers /\ queued[p] <= queued[p]
  BY <1>2, <1>3
<1>9. w = Way(p)'
  BY <1>1 DEF Way, Short
<1> QED
  BY <1>1, <1>2, <1>3, <1>5, <1>6, <1>7, <1>8, <1>9, MoveOn

\* A resend timer runs out.
LEMMA SegmentDueKeeps ==
  ASSUME KcpInv, NEW p \in Peers, NEW i, SegmentDue(p, i)
  PROVE  KcpInv'
<1>1. PICK k, buf, A, n, kind :
        /\ k = kcp[p] /\ buf = kcp[p].snd_buf /\ A = MayAck(kcp[Other(p)], Way(p))
        /\ n = queued[p] /\ kind = Kind(p)
  OBVIOUS
<1>2. k \in ControlBlocks /\ SndInv(k, A, n, kind) /\ buf \in Seq(SndSegs) /\ i \in DOMAIN buf
  BY <1>1, PeerFacts, BlockTypes DEF Good, SegmentDue
<1>3. PICK x, b, j : x = [buf[i] EXCEPT !.due = TRUE] /\ b = [buf EXCEPT ![i] = x] /\ j = [k EXCEPT !.snd_buf = b]
  OBVIOUS
<1>4. x \in SndSegs /\ SameSeg(x, buf[i])
  <2>1. buf[i] \in SndSegs
    BY <1>2, SegmentTypes
  <2> QED
    BY <1>3, <2>1 DEF SndSegs, SameSeg
<1>5. b \in Seq(SndSegs) /\ SameSegs(b, buf)
  <2>1. DOMAIN b = DOMAIN buf /\ b = [h \in DOMAIN buf |-> b[h]]
    BY <1>3
  <2>2. \A h \in DOMAIN buf : b[h] = IF h = i THEN x ELSE buf[h]
    BY <1>2, <1>3
  <2>3. \A h \in DOMAIN buf : buf[h] \in SndSegs
    BY <1>2, SegmentTypes
  <2>4. \A h \in DOMAIN buf : b[h] \in SndSegs /\ SameSeg(b[h], buf[h])
    BY <1>4, <2>2, <2>3 DEF SameSeg
  <2> QED
    BY <1>2, <2>1, <2>4, MapsSegs
<1>6. j \in ControlBlocks /\ SameRcv(k, j) /\ SndInv(j, A, n, kind) /\ j.snd_nxt = k.snd_nxt
  <2>1. SameSegs(b, k.snd_buf)
    BY <1>1, <1>5
  <2>2. j = [k EXCEPT !.snd_buf = b]
    BY <1>3
  <2> QED
    BY <1>2, <1>5, <2>1, <2>2, MarkKeeps
<1>7. kcp' = [kcp EXCEPT ![p] = j] /\ UNCHANGED <<run, queued, printed, net, read>>
  BY <1>1, <1>3 DEF SegmentDue
<1> QED
  BY <1>1, <1>6, <1>7, DueKeeps

\* The window probe's timer runs out.
LEMMA ProbeDueKeeps ==
  ASSUME KcpInv, NEW p \in Peers, ProbeDue(p)
  PROVE  KcpInv'
<1>1. PICK k, j, due, A : /\ k = kcp[p] /\ due = "due" /\ j = [k EXCEPT !.probe = due]
                          /\ A = MayAck(kcp[Other(p)], Way(p))
  OBVIOUS
<1>2. k \in ControlBlocks /\ SndInv(k, A, queued[p], Kind(p))
  BY <1>1, PeerFacts DEF Good
<1>3. j \in ControlBlocks /\ SameRcv(k, j) /\ SameSnd(k, j)
  <2>1. j \in ControlBlocks
    BY <1>1, <1>2 DEF ControlBlocks
  <2> QED
    BY <1>1, <1>2, <2>1 DEF ControlBlocks, SameSnd, SameRcv
<1>4. SndInv(j, A, queued[p], Kind(p)) /\ j.snd_nxt = k.snd_nxt
  BY <1>2, <1>3, HalvesStay DEF SameSnd
<1>5. kcp' = [kcp EXCEPT ![p] = j] /\ UNCHANGED <<run, queued, printed, net, read>>
  BY <1>1 DEF ProbeDue
<1> QED
  BY <1>1, <1>3, <1>4, <1>5, DueKeeps

\* The network holds nothing but what was sent.
LEMMA NetKeeps ==
  ASSUME KcpInv, NEW p \in Peers, UNCHANGED <<kcp, run, queued, printed, read>>, DOMAIN net' = Peers,
         \A x \in Peers : DOMAIN net'[x] \subseteq DOMAIN net[x]
  PROVE  KcpInv'
<1>1. \A x \in Peers : PeerInv(x)'
  BY DEF KcpInv, PeerInv, Kind, Way, Short
<1> QED
  BY <1>1 DEF KcpInv

\* The network loses or duplicates a datagram.
LEMMA NetworkKeeps ==
  ASSUME KcpInv, NEW p \in Peers, NEW d \in BagToSet(net[p]), Lose(p, d) \/ Duplicate(p, d)
  PROVE  KcpInv'
<1>1. PICK b : b = SetToBag({d}) /\ DOMAIN b = {d}
  <2>1. DOMAIN SetToBag({d}) = {d}
    BY DEF SetToBag
  <2> QED
    BY <2>1
<1>2. net' = [net EXCEPT ![p] = @ (-) b] \/ net' = [net EXCEPT ![p] = @ (+) b]
  <2>1. CASE Lose(p, d)
    BY <1>1, <2>1 DEF Lose
  <2>2. CASE Duplicate(p, d)
    BY <1>1, <2>2 DEF Duplicate
  <2> QED
    BY <2>1, <2>2
<1>3. /\ DOMAIN (net[p] (-) b) \subseteq DOMAIN net[p]
      /\ DOMAIN (net[p] (+) b) = DOMAIN net[p] \cup {d} /\ d \in DOMAIN net[p]
  <2>1. PICK c : c = net[p] /\ d \in DOMAIN c
    BY DEF BagToSet
  <2>2. DOMAIN (c (-) b) \subseteq DOMAIN c /\ DOMAIN (c (+) b) = DOMAIN c \cup DOMAIN b
    BY BagDomains
  <2> QED
    BY <1>1, <2>1, <2>2
<1>4. DOMAIN net = Peers
  BY DEF KcpInv
<1>5. DOMAIN net' = Peers /\ \A x \in Peers : DOMAIN net'[x] \subseteq DOMAIN net[x]
  <2>1. PICK a, c : a = net[p] (-) b /\ c = net[p] (+) b
    OBVIOUS
  <2>2. \E e \in {a, c} : net' = [net EXCEPT ![p] = e]
    BY <1>2, <2>1
  <2>3. \A e \in {a, c} : DOMAIN e \subseteq DOMAIN net[p]
    BY <1>3, <2>1
  <2> QED
    BY <1>4, <2>2, <2>3
<1>6. UNCHANGED <<kcp, run, queued, printed, read>>
  BY DEF Lose, Duplicate
<1> QED
  BY <1>5, <1>6, NetKeeps

\* The invariant holds at the start.
LEMMA KcpInvInit ==
  ASSUME Init
  PROVE  KcpInv
<1>1. PICK k, z, e : k = ikcp_create /\ z = 0 /\ e = <<>>
  OBVIOUS
<1>2. e \in Seq(QueueSegs) /\ e \in Seq(SndSegs) /\ e \in Seq(RcvSegs) /\ e \in Seq(Nat) /\ e \in Seq(Int)
      /\ Len(e) = 0 /\ DOMAIN e = {}
  BY <1>1
<1>3. /\ k.snd_una = 0 /\ k.snd_nxt = 0 /\ k.rcv_nxt = 0 /\ k.snd_queue = e /\ k.snd_buf = e
      /\ k.rcv_queue = e /\ k.rcv_buf = {} /\ k.acklist = e
  BY <1>1 DEF ikcp_create
<1>4. k \in ControlBlocks
  <2>1. k = [snd_una |-> 0, snd_nxt |-> 0, rcv_nxt |-> 0, rmt_wnd |-> RcvWnd,
             cwnd |-> 0, incr |-> 0, ssthresh |-> 2, tell |-> FALSE, probe |-> "off",
             snd_queue |-> e, snd_buf |-> e, rcv_queue |-> e, rcv_buf |-> {}, acklist |-> e]
    BY <1>1 DEF ikcp_create
  <2>2. RcvWnd \in Int /\ {} \in SUBSET RcvSegs
    BY ConstantSizes
  <2> QED
    BY <1>2, <2>1, <2>2 DEF ControlBlocks
<1>5. ASSUME NEW A, NEW kind, NEW way
      PROVE  SndInv(k, A, 0, kind) /\ RcvInv(k, 0, 0, way) /\ Prints(e, 0, way)
  <2>1. SndWnd \in Nat /\ RcvWnd \in Nat
    BY ConstantSizes
  <2>2. Forgets(k, A) /\ Sorted(k.snd_buf) /\ Sends(k, 0, kind)
    <3>1. \A sn \in Nat : ~ (sn < 0)
      OBVIOUS
    <3>2. e = <<>>
      BY <1>1
    <3> QED
      BY <1>2, <1>3, <3>1, <3>2 DEF Forgets, Sorted, Sends
  <2>3. Receives(k, 0, 0, way)
    <3>1. e = <<>>
      BY <1>1
    <3> QED
      BY <1>2, <1>3, <3>1 DEF Receives
  <2>4. SndInv(k, A, 0, kind)
    BY <1>2, <1>3, <2>1, <2>2 DEF SndInv
  <2>5. RcvInv(k, 0, 0, way)
    BY <1>2, <1>3, <2>1, <2>3 DEF RcvInv
  <2>6. Prints(e, 0, way)
    BY <1>1, <1>2 DEF Prints
  <2> QED
    BY <2>4, <2>5, <2>6
<1>6. /\ DOMAIN kcp = Peers /\ DOMAIN queued = Peers /\ DOMAIN printed = Peers /\ DOMAIN net = Peers
      /\ DOMAIN read = Peers
      /\ \A p \in Peers : /\ kcp[p] = k /\ queued[p] = 0 /\ printed[p] = e /\ net[p] = EmptyBag
                          /\ read[p] = "clean"
  BY <1>1 DEF Init
<1>7. DOMAIN EmptyBag = {}
  <2>1. EmptyBag = [x \in {} |-> 1]
    BY DEF EmptyBag, SetToBag
  <2> QED
    BY <2>1
<1>8. ASSUME NEW p \in Peers PROVE PeerInv(p)
  <2>1. Other(p) \in Peers
    BY TwoPeers
  <2>2. run.len[p] \in Nat \ {0}
    <3>1. run.len \in [Peers -> Nat \ {0}]
      BY RunsAssumption DEF Init
    <3> QED
      BY <3>1
  <2> QED
    BY <1>2, <1>3, <1>4, <1>5, <1>6, <1>7, <2>1, <2>2 DEF PeerInv
<1> QED
  BY <1>6, <1>8 DEF KcpInv

\* Every step keeps the invariant.
LEMMA KcpInvNext ==
  ASSUME KcpInv, [Next]_vars
  PROVE  KcpInv'
<1>1. ASSUME NEW p \in Peers, Loop(p) PROVE KcpInv'
  BY <1>1, TurnKeeps DEF Loop
<1>2. ASSUME NEW p \in Peers, NEW i \in 1..SndWnd, SegmentDue(p, i) PROVE KcpInv'
  BY <1>2, SegmentDueKeeps
<1>3. ASSUME NEW p \in Peers, ProbeDue(p) PROVE KcpInv'
  BY <1>3, ProbeDueKeeps
<1>4. ASSUME NEW p \in Peers, NEW d \in BagToSet(net[p]), Lose(p, d) \/ Duplicate(p, d) PROVE KcpInv'
  BY <1>4, NetworkKeeps
<1>5. CASE UNCHANGED vars
  <2>1. UNCHANGED <<kcp, run, queued, printed, net, read>>
    BY <1>5 DEF vars
  <2> QED
    BY <2>1 DEF KcpInv, PeerInv, Kind, Way, Short
<1> QED
  BY <1>1, <1>2, <1>3, <1>4, <1>5 DEF Next

\* The invariant holds.
LEMMA KcpInvHolds == Spec => []KcpInv
<1>1. Init => KcpInv
  BY KcpInvInit
<1>2. KcpInv /\ [Next]_vars => KcpInv'
  BY KcpInvNext
<1> QED
  BY <1>1, <1>2, PTL DEF Spec

\* ikcp_recv hands main the messages of the other peer, every one once and in the
\* order they were given to ikcp_send, whatever the network loses, duplicates or
\* delays: for any sizes, as long as main's reader has not completed the stump of a
\* datagram with the bytes of the next one; and even then only the payload of a
\* message is another one, unless the cut was inside a header.
THEOREM PrintsInOrder == Spec => []DeliveredInOrder
<1>1. KcpInv => DeliveredInOrder
  <2> SUFFICES ASSUME KcpInv, NEW p \in Peers, NEW i \in DOMAIN printed[p], read[p] # "shifted"
               PROVE  \/ printed[p][i] = i /\ i <= queued[Other(p)]
                      \/ printed[p][i] = Torn /\ read[p] = "torn"
    BY DEF DeliveredInOrder
  <2>1. /\ Prints(printed[p], queued[Other(p)], Way(p)) /\ printed[p] \in Seq(Int)
        /\ read[p] \in {"clean", "torn", "shifted"}
    BY PeerFacts
  <2>2. i \in Nat
    BY <2>1, ElementsOf
  <2>3. Way(p) # "long"
    <3> SUFFICES ASSUME Way(p) = "long" PROVE FALSE
      OBVIOUS
    <3>1. printed[p] = <<>>
      BY <2>1 DEF Prints
    <3> QED
      BY <3>1
  <2>4. Way(p) = read[p] /\ read[p] \in {"clean", "torn"}
    BY <2>1, <2>3 DEF Way
  <2>5. Arrived(i - 1, printed[p][i], read[p]) /\ i <= queued[Other(p)]
    BY <2>1, <2>4 DEF Prints
  <2>6. i - 1 + 1 = i
    BY <2>2
  <2> QED
    BY <2>5, <2>6 DEF Arrived
<1> QED
  BY <1>1, KcpInvHolds, PTL

\* ikcp_parse_ack and ikcp_parse_una remove from snd_buf only what the other side has
\* accepted, however late or repeated the acknowledgement, and also when payloads
\* around it were cut and completed with other bytes: as long as no bytes were taken
\* for a header that were not sent as one.  Even then snd_buf stays in order and
\* neither side's buffers outgrow the windows.
THEOREM KeepsUntilAccepted == Spec => []ForgetsOnlyAccepted
<1>1. KcpInv => ForgetsOnlyAccepted
  <2> SUFFICES ASSUME KcpInv, NEW p \in Peers
        PROVE  LET k == kcp[p] IN
                 /\ read[p] # "shifted" => Accepted(p)
                 /\ \A i, j \in DOMAIN k.snd_buf : i < j => k.snd_buf[i].sn < k.snd_buf[j].sn
                 /\ k.snd_nxt - k.snd_una <= SndWnd
                 /\ Len(k.rcv_queue) <= RcvWnd
                 /\ \A s \in k.rcv_buf : s.sn - k.rcv_nxt \in 0 .. RcvWnd - 1
    BY DEF ForgetsOnlyAccepted
  <2>1. PICK k, q, A, n, m, nxt, kind, way :
          /\ k = kcp[p] /\ q = kcp[Other(p)] /\ n = queued[p] /\ m = Len(printed[p])
          /\ nxt = q.snd_nxt /\ kind = Kind(p) /\ way = Way(p) /\ A = MayAck(q, way)
    OBVIOUS
  <2>2. /\ k \in ControlBlocks /\ SndInv(k, A, n, kind) /\ RcvInv(k, m, nxt, way)
        /\ read[p] \in {"clean", "torn", "shifted"}
    BY <2>1, PeerFacts DEF Good
  <2>3. k.snd_nxt \in Nat /\ k.snd_una \in Nat /\ k.rcv_nxt \in Nat /\ SndWnd \in Nat /\ RcvWnd \in Nat
    BY <2>2, BlockTypes, ConstantSizes
  <2>4. read[p] # "shifted" => Accepted(p)
    <3> SUFFICES ASSUME read[p] # "shifted" PROVE Accepted(p)
      OBVIOUS
    <3>1. A = Has(q)
      BY <2>1, <2>2, WaysAre DEF MayAck
    <3>2. ASSUME NEW sn \in 0 .. k.snd_nxt - 1, sn \notin {k.snd_buf[i].sn : i \in DOMAIN k.snd_buf}
          PROVE  sn < q.rcv_nxt \/ \E s \in q.rcv_buf : s.sn = sn
      <4>1. sn \in Nat /\ sn < k.snd_nxt
        BY <2>3
      <4>2. ~ Held(k, sn)
        BY <3>2 DEF Held
      <4>3. sn \in Has(q)
        BY <2>2, <3>1, <4>1, <4>2 DEF SndInv, Forgets
      <4> QED
        BY <4>3 DEF Has, Received
    <3> QED
      BY <2>1, <3>2 DEF Accepted
  <2>5. \A i, j \in DOMAIN k.snd_buf : i < j => k.snd_buf[i].sn < k.snd_buf[j].sn
    BY <2>2 DEF SndInv, Sorted
  <2>6. k.snd_nxt - k.snd_una <= SndWnd
    <3>1. k.snd_nxt <= k.snd_una + SndWnd
      BY <2>2 DEF SndInv
    <3> QED
      BY <2>3, <3>1
  <2>7. Len(k.rcv_queue) <= RcvWnd
    BY <2>2 DEF RcvInv
  <2>8. \A s \in k.rcv_buf : s.sn - k.rcv_nxt \in 0 .. RcvWnd - 1
    <3>1. \A s \in k.rcv_buf : s.sn \in Nat /\ k.rcv_nxt <= s.sn /\ s.sn < k.rcv_nxt + RcvWnd
      BY <2>2, RcvTypes DEF RcvInv
    <3> QED
      BY <2>3, <3>1
  <2> QED
    BY <2>1, <2>4, <2>5, <2>6, <2>7, <2>8
<1> QED
  BY <1>1, KcpInvHolds, PTL

---------------------------------------------------------------------------
(* The kv_store reactor.                                                       *)

KvUnits == BodyUnits \cup {HeaderLine(n) : n \in Nat}

---------------------------------------------------------------------------
(* The parser.                                                                 *)

\* The state of the loop over msg: what is left is the end of msg.
Turns(msg) ==
  {st \in [pos : Nat, data : Nat, size : Nat, end : BOOLEAN, overrun : BOOLEAN,
           commands : Seq(Seq(KvUnits))] : st.data + st.size = Len(msg)}
AtStart(msg) == [pos |-> 0, data |-> 0, size |-> Len(msg), end |-> FALSE,
               overrun |-> FALSE, commands |-> <<>>]

\* A line is no longer than what it is taken from, and a header counts at least 0.
LEMMA LineInside ==
  ASSUME NEW rest \in Seq(KvUnits)
  PROVE  LineLen(rest) \in 0..Len(rest)
<1>1. CASE \E p \in DOMAIN rest : rest[p].t # "text"
  <2> DEFINE B == {p \in DOMAIN rest : rest[p].t # "text"}
  <2>1. B \subseteq Nat /\ B # {}
    BY <1>1
  <2>2. PICK p \in B : \A j \in B : p <= j
    BY <2>1, LeastNumber
  <2>3. p \in DOMAIN rest /\ rest[p].t # "text" /\ \A j \in 1 .. p - 1 : rest[j].t = "text"
    BY <2>2
  <2>4. LineLen(rest) \in DOMAIN rest
    BY <1>1, <2>3 DEF LineLen
  <2> QED
    BY <2>4
<1>2. CASE ~ \E p \in DOMAIN rest : rest[p].t # "text"
  BY <1>2 DEF LineLen
<1> QED
  BY <1>1, <1>2

LEMMA HeaderCounts ==
  ASSUME NEW line \in Seq(KvUnits), Len(line) > 0
  PROVE  Atoi(line) \in Nat
<1>1. line[1] \in KvUnits
  OBVIOUS
<1>2. CASE line[1].t = "header"
  <2>1. PICK n \in Nat : line[1] = HeaderLine(n)
    BY <1>1, <1>2 DEF KvUnits, BodyUnits, Text, EndOfLine
  <2> QED
    BY <1>2, <2>1 DEF Atoi, HeaderLine
<1>3. CASE line[1].t # "header"
  BY <1>3 DEF Atoi
<1> QED
  BY <1>2, <1>3

\* n units of msg from a place on.
KvPart(msg, from, n) == SubSeq(msg, from + 1, from + n)

LEMMA PartOfUnits ==
  ASSUME NEW msg \in Seq(KvUnits), NEW from \in Nat, NEW n \in Nat, from + n <= Len(msg)
  PROVE  KvPart(msg, from, n) \in Seq(KvUnits) /\ Len(KvPart(msg, from, n)) = n
  BY DEF KvPart

\* A turn of the loop keeps to msg.
LEMMA AnalyseInside ==
  ASSUME NEW msg \in Seq(KvUnits), NEW st \in Turns(msg)
  PROVE  Analyse(msg, st) \in Turns(msg)
<1> DEFINE line == LineLen(SubSeq(msg, st.data + 1, st.data + st.size))
           pos == st.pos + line
           data == st.data + pos
           size == st.size - pos
           len == Atoi(SubSeq(msg, st.data + 1, st.data + line))
           cmd == SubSeq(msg, data + 1, data + len)
<1>1. /\ st.pos \in Nat /\ st.data \in Nat /\ st.size \in Nat /\ st.data + st.size = Len(msg)
      /\ st.commands \in Seq(Seq(KvUnits))
  BY DEF Turns
<1>2. line \in 0..st.size
  <2> DEFINE rest == KvPart(msg, st.data, st.size)
  <2>1. rest \in Seq(KvUnits) /\ Len(rest) = st.size
    BY <1>1, PartOfUnits
  <2> HIDE DEF rest
  <2>2. LineLen(rest) \in 0..Len(rest)
    BY <2>1, LineInside
  <2> QED
    BY <2>1, <2>2 DEF rest, KvPart
<1>3. [st EXCEPT !.end = TRUE] \in Turns(msg)
      /\ [st EXCEPT !.end = TRUE, !.overrun = TRUE] \in Turns(msg)
  BY DEF Turns
<1> HIDE DEF line
<1>4. [st EXCEPT !.pos = pos, !.end = TRUE] \in Turns(msg)
  <2>1. pos \in Nat
    BY <1>1, <1>2
  <2> HIDE DEF pos
  <2> QED
    BY <1>1, <2>1 DEF Turns
<1>9. line # 0 => len \in Nat
  <2> SUFFICES ASSUME line # 0 PROVE len \in Nat
    OBVIOUS
  <2> DEFINE first == KvPart(msg, st.data, line)
  <2>1. line \in Nat \ {0} /\ st.data + line <= Len(msg)
    BY <1>1, <1>2
  <2>2. first \in Seq(KvUnits) /\ Len(first) = line
    BY <1>1, <2>1, PartOfUnits
  <2> HIDE DEF first
  <2>3. Atoi(first) \in Nat
    BY <2>1, <2>2, HeaderCounts
  <2> QED
    BY <2>3 DEF first, KvPart
<1>5. ASSUME line # 0, size >= 0, size >= len
      PROVE  [st EXCEPT !.pos = pos + len, !.data = data, !.size = size,
                        !.commands = Append(@, cmd)] \in Turns(msg)
  <2>1. line \in Nat \ {0} /\ st.data + line <= Len(msg)
    BY <1>1, <1>2, <1>5
  <2>2. len \in Nat
    BY <1>5, <1>9
  <2>6. size >= 0 /\ size >= len
    BY <1>5
  <2> HIDE DEF len
  <2>7. pos \in Nat /\ data \in Nat /\ size \in Nat
    <3>1. pos \in Nat
      BY <1>1, <2>1
    <3> HIDE DEF pos
    <3>2. data \in Nat
      BY <1>1, <3>1
    <3>3. size \in Int
      BY <1>1, <3>1
    <3>4. size >= 0
      BY <2>6
    <3> HIDE DEF size, data
    <3> QED
      BY <3>1, <3>2, <3>3, <3>4
  <2>8. data + size = Len(msg)
    BY <1>1, <2>1
  <2>3. data \in Nat /\ size \in Nat /\ data + size = Len(msg) /\ data + len <= Len(msg) /\ pos + len \in Nat
    <3> HIDE DEF pos, data, size
    <3> QED
      BY <2>2, <2>6, <2>7, <2>8
  <2> HIDE DEF pos, data, size
  <2>4. cmd \in Seq(KvUnits)
    BY <2>2, <2>3, PartOfUnits DEF KvPart
  <2> HIDE DEF cmd
  <2>5. Append(st.commands, cmd) \in Seq(Seq(KvUnits))
    BY <1>1, <2>4
  <2> QED
    BY <1>1, <2>3, <2>5 DEF Turns
<1>6. line = 0 \/ size < 0 \/ size < len \/ (line # 0 /\ size >= 0 /\ size >= len)
  <2>1. CASE line # 0
    <3>1. line \in Nat \ {0} /\ st.data + line <= Len(msg)
      BY <1>1, <1>2, <2>1
    <3>2. len \in Nat
      BY <1>9, <2>1
    <3> HIDE DEF len
    <3> QED
      BY <1>1, <3>1, <3>2
  <2> QED
    BY <2>1
<1>7. Analyse(msg, st) =
        IF st.end \/ st.pos >= st.size \/ line = 0 THEN [st EXCEPT !.end = TRUE]
        ELSE IF size < 0 THEN [st EXCEPT !.end = TRUE, !.overrun = TRUE]
        ELSE IF size < len THEN [st EXCEPT !.pos = pos, !.end = TRUE]
        ELSE [st EXCEPT !.pos = pos + len, !.data = data, !.size = size,
                        !.commands = Append(@, cmd)]
  BY DEF Analyse, line
<1> HIDE DEF pos, data, size, len, cmd
<1> QED
  BY <1>3, <1>4, <1>5, <1>6, <1>7

\* The loop's turns exist one after the other: the recursive definition of
\* analysis has the values it says.
LEMMA TurnsExist ==
  ASSUME NEW msg, NEW N \in Nat
  PROVE  \E f : f = [p \in 0..N |-> IF p = 0 THEN AtStart(msg) ELSE Analyse(msg, f[p - 1])]
<1> DEFINE Walk(f, q) == f = [p \in 0..q |-> IF p = 0 THEN AtStart(msg) ELSE Analyse(msg, f[p - 1])]
           B == {q \in Nat : ~ \E f : Walk(f, q)}
<1>1. SUFFICES ASSUME B # {} PROVE FALSE
  OBVIOUS
<1>2. PICK q \in B : \A j \in B : q <= j
  <2>1. B \subseteq Nat
    OBVIOUS
  <2> HIDE DEF B
  <2> QED
    BY <1>1, <2>1, LeastNumber
<1>3. CASE q = 0
  <2> DEFINE f == [p \in 0..0 |-> AtStart(msg)]
  <2>1. f = [p \in 0..0 |-> IF p = 0 THEN AtStart(msg) ELSE Analyse(msg, f[p - 1])]
    OBVIOUS
  <2> QED
    BY <1>2, <1>3, <2>1
<1>4. CASE q # 0
  <2>1. q \in Nat /\ q - 1 \in Nat /\ q - 1 \notin B
    <3>1. q \in Nat
      OBVIOUS
    <3> HIDE DEF B
    <3>2. q - 1 \notin B
      BY <1>2, <3>1
    <3> QED
      BY <1>4, <3>1, <3>2
  <2>2. PICK g : Walk(g, q - 1)
    <3> HIDE DEF Walk
    <3> QED
      BY <2>1
  <2> DEFINE f == [p \in 0..q |-> IF p = 0 THEN AtStart(msg)
                                  ELSE IF p = q THEN Analyse(msg, g[q - 1]) ELSE g[p]]
             e == [p \in 0..q |-> IF p = 0 THEN AtStart(msg) ELSE Analyse(msg, f[p - 1])]
  <2>3. ASSUME NEW p \in 0..q PROVE f[p] = e[p]
    <3>1. CASE p = 0
      BY <3>1
    <3>2. CASE p = q /\ p # 0
      <4>1. q - 1 \in 0..q /\ q - 1 # q
        BY <2>1
      <4>2. f[q - 1] = g[q - 1]
        <5>1. q - 1 = 0 => g[q - 1] = AtStart(msg)
          BY <2>1, <2>2
        <5> QED
          BY <4>1, <5>1
      <4> QED
        BY <3>2, <4>2
    <3>3. CASE p \in 1..(q - 1)
      <4>1. p - 1 \in 0..q /\ p - 1 # q /\ p - 1 \in 0..(q - 1) /\ p \in 0..(q - 1)
        BY <2>1, <3>3
      <4>2. f[p - 1] = g[p - 1]
        <5>1. p - 1 = 0 => g[p - 1] = AtStart(msg)
          BY <2>1, <2>2, <4>1
        <5> QED
          BY <4>1, <5>1
      <4>3. g[p] = Analyse(msg, g[p - 1])
        BY <2>2, <3>3, <4>1
      <4> QED
        BY <2>1, <3>3, <4>2, <4>3
    <3> QED
      BY <2>1, <3>1, <3>2, <3>3
  <2>4. f = e
    BY <2>3
  <2>5. Walk(f, q)
    BY <2>4
  <2> QED
    BY <1>2, <2>5
<1> QED
  BY <1>3, <1>4

LEMMA AnalysisTurns ==
  ASSUME NEW msg \in Seq(KvUnits)
  PROVE  \E f : /\ f[0] = AtStart(msg)
                /\ \A p \in 1..(Len(msg) + 1) : f[p] = Analyse(msg, f[p - 1])
                /\ analysis(msg) = f[Len(msg) + 1]
<1> DEFINE N == Len(msg) + 1
           turn == CHOOSE f : f = [p \in 0..N |-> IF p = 0 THEN AtStart(msg) ELSE Analyse(msg, f[p - 1])]
<1>1. N \in Nat
  OBVIOUS
<1>2. analysis(msg) = turn[N]
  BY DEF analysis, AtStart
<1> HIDE DEF N
<1>3. turn = [p \in 0..N |-> IF p = 0 THEN AtStart(msg) ELSE Analyse(msg, turn[p - 1])]
  BY <1>1, TurnsExist
<1> HIDE DEF turn
<1>4. turn[0] = AtStart(msg) /\ \A p \in 1..N : turn[p] = Analyse(msg, turn[p - 1])
  BY <1>1, <1>3
<1> QED
  BY <1>2, <1>4 DEF N

\* What analysis returns, whatever it is given.
LEMMA AnalysisInside ==
  ASSUME NEW msg \in Seq(KvUnits)
  PROVE  analysis(msg) \in Turns(msg)
<1>1. PICK f : /\ f[0] = AtStart(msg)
               /\ \A p \in 1..(Len(msg) + 1) : f[p] = Analyse(msg, f[p - 1])
               /\ analysis(msg) = f[Len(msg) + 1]
  BY AnalysisTurns
<1> DEFINE B == {p \in 0..(Len(msg) + 1) : f[p] \notin Turns(msg)}
<1>2. B = {}
  <2>1. SUFFICES ASSUME B # {} PROVE FALSE
    OBVIOUS
  <2>2. PICK q \in B : \A j \in B : q <= j
    <3>1. B \subseteq Nat
      OBVIOUS
    <3> HIDE DEF B
    <3> QED
      BY <2>1, <3>1, LeastNumber
  <2>3. AtStart(msg) \in Turns(msg)
    <3>1. <<>> \in Seq(Seq(KvUnits))
      OBVIOUS
    <3> QED
      BY <3>1 DEF AtStart, Turns
  <2>4. q # 0
    BY <1>1, <2>2, <2>3
  <2>5. q \in 1..(Len(msg) + 1) /\ q - 1 \in 0..(Len(msg) + 1) /\ f[q - 1] \in Turns(msg)
    BY <2>2, <2>4
  <2>6. f[q] \in Turns(msg)
    BY <1>1, <2>5, AnalyseInside
  <2> QED
    BY <2>2, <2>6
<1> QED
  BY <1>1, <1>2

\* Of one whole command analysis takes out the body and leaves nothing.
LEMMA OneCommand ==
  ASSUME NEW body \in Seq(BodyUnits), NEW msg, msg = <<HeaderLine(Len(body))>> \o body
  PROVE  /\ msg \in Seq(KvUnits)
         /\ analysis(msg).overrun = FALSE
         /\ analysis(msg).pos = Len(msg)
         /\ analysis(msg).commands = <<body>>
<1> DEFINE n == Len(body)
           T1 == [pos |-> n + 1, data |-> 1, size |-> n, end |-> FALSE, overrun |-> FALSE,
                  commands |-> <<body>>]
           T2 == [pos |-> n + 1, data |-> 1, size |-> n, end |-> TRUE, overrun |-> FALSE,
                  commands |-> <<body>>]
<1>1. /\ n \in Nat /\ msg \in Seq(KvUnits) /\ Len(msg) = n + 1
      /\ msg[1] = HeaderLine(n) /\ HeaderLine(n) \in KvUnits
      /\ \A p \in 1..n : msg[p + 1] = body[p]
  <2>1. n \in Nat /\ HeaderLine(n) \in KvUnits
    BY DEF KvUnits
  <2>2. body \in Seq(KvUnits)
    BY DEF KvUnits
  <2> QED
    BY <2>1, <2>2
<1>2. SubSeq(msg, 1, n + 1) = msg
  BY <1>1
<1>3. SubSeq(msg, 1 + 1, 1 + n) = body
  <2> DEFINE u == SubSeq(msg, 1 + 1, 1 + n)
  <2>1. u \in Seq(KvUnits) /\ Len(u) = n /\ \A p \in 1..n : u[p] = msg[p + 1]
    BY <1>1
  <2>2. \A p \in 1..n : u[p] = body[p]
    BY <1>1, <2>1
  <2> HIDE DEF u
  <2> QED
    BY <1>1, <2>1, <2>2
<1>4. LineLen(msg) = 1
  <2>0. PICK m : m = msg
    OBVIOUS
  <2>1. 1 \in DOMAIN m /\ m[1].t # "text" /\ DOMAIN m = 1..(n + 1)
    BY <1>1, <2>0 DEF HeaderLine
  <2>2. ASSUME NEW p \in DOMAIN m, \A j \in 1 .. p - 1 : m[j].t = "text" PROVE p = 1
    <3>1. p \in Nat /\ p >= 1 /\ ~ (1 \in 1 .. p - 1)
      BY <1>1, <2>1, <2>2
    <3> QED
      BY <3>1
  <2>3. LineLen(m) = 1
    BY <2>1, <2>2 DEF LineLen
  <2> QED
    BY <2>0, <2>3
<1>5. Atoi(SubSeq(msg, 1, 1)) = n
  <2>1. SubSeq(msg, 1, 1)[1] = msg[1]
    BY <1>1
  <2> QED
    BY <1>1, <2>1 DEF Atoi, HeaderLine
<1>6. Analyse(msg, AtStart(msg)) = T1
  <2> DEFINE st == AtStart(msg)
  <2>1. /\ st.pos = 0 /\ st.data = 0 /\ st.size = n + 1 /\ st.end = FALSE
        /\ st.overrun = FALSE /\ st.commands = <<>>
    BY <1>1 DEF AtStart
  <2>2. st = [pos |-> 0, data |-> 0, size |-> n + 1, end |-> FALSE,
              overrun |-> FALSE, commands |-> <<>>]
    BY <1>1 DEF AtStart
  <2> HIDE DEF st, n
  <2>3. /\ LineLen(SubSeq(msg, st.data + 1, st.data + st.size)) = 1
        /\ Atoi(SubSeq(msg, st.data + 1, st.data + 1)) = n
    <3>1. st.data + 1 = 1 /\ st.data + st.size = n + 1
      BY <1>1, <2>1
    <3> QED
      BY <1>2, <1>4, <1>5, <3>1
  <2> DEFINE line == LineLen(SubSeq(msg, st.data + 1, st.data + st.size))
             pos == st.pos + line
             data == st.data + pos
             size == st.size - pos
             len == Atoi(SubSeq(msg, st.data + 1, st.data + line))
             next == [st EXCEPT !.pos = pos + len, !.data = data, !.size = size,
                                !.commands = Append(@, SubSeq(msg, data + 1, data + len))]
  <2>4. Analyse(msg, st) =
          IF st.end \/ st.pos >= st.size \/ line = 0 THEN [st EXCEPT !.end = TRUE]
          ELSE IF size < 0 THEN [st EXCEPT !.end = TRUE, !.overrun = TRUE]
          ELSE IF size < len THEN [st EXCEPT !.pos = pos, !.end = TRUE]
          ELSE next
    BY DEF Analyse
  <2>7. line = 1 /\ len = n
    BY <2>3
  <2> HIDE DEF line, len
  <2>8. pos = 1 /\ data = 1 /\ size = n
    BY <1>1, <2>1, <2>7
  <2> HIDE DEF pos, data, size
  <2>9. ~ (st.end \/ st.pos >= st.size \/ line = 0) /\ ~ (size < 0) /\ ~ (size < len)
        /\ pos + len = n + 1
    BY <1>1, <2>1, <2>7, <2>8
  <2>10. Analyse(msg, st) = next
    <3> HIDE DEF next
    <3> QED
      BY <2>4, <2>9
  <2>5. Analyse(msg, st) =
          [st EXCEPT !.pos = n + 1, !.data = 1, !.size = n,
                     !.commands = Append(@, SubSeq(msg, 1 + 1, 1 + n))]
    BY <2>7, <2>8, <2>9, <2>10
  <2>6. Append(<<>>, body) = <<body>>
    OBVIOUS
  <2> QED
    BY <1>3, <2>1, <2>2, <2>5, <2>6 DEF st
<1>7. Analyse(msg, T1) = T2
  <2>1. Analyse(msg, T1) = [T1 EXCEPT !.end = TRUE]
    BY <1>1 DEF Analyse
  <2> QED
    BY <2>1
<1>8. Analyse(msg, T2) = T2
  <2>1. Analyse(msg, T2) = [T2 EXCEPT !.end = TRUE]
    BY DEF Analyse
  <2> QED
    BY <2>1
<1>9. T2.overrun = FALSE /\ T2.pos = n + 1 /\ T2.commands = <<body>>
  OBVIOUS
<1>10. PICK f : /\ f[0] = AtStart(msg)
                /\ \A p \in 1..(Len(msg) + 1) : f[p] = Analyse(msg, f[p - 1])
                /\ analysis(msg) = f[Len(msg) + 1]
  BY <1>1, AnalysisTurns
<1> HIDE DEF T1, T2, n
<1>11. f[1] = T1 /\ f[2] = T2
  <2>1. f[1] = Analyse(msg, f[1 - 1]) /\ f[2] = Analyse(msg, f[2 - 1])
    BY <1>1, <1>10
  <2> QED
    BY <1>6, <1>7, <1>10, <2>1
<1> DEFINE B == {p \in 2..(n + 2) : f[p] # T2}
<1>12. B = {}
  <2>1. SUFFICES ASSUME B # {} PROVE FALSE
    OBVIOUS
  <2>2. PICK q \in B : \A j \in B : q <= j
    <3>1. B \subseteq Nat
      BY <1>1
    <3> HIDE DEF B
    <3> QED
      BY <2>1, <3>1, LeastNumber
  <2>3. q # 2
    BY <1>11, <2>2
  <2>4. q \in 1..(Len(msg) + 1) /\ q - 1 \in 2..(n + 2) /\ f[q - 1] = T2
    BY <1>1, <2>2, <2>3
  <2>5. f[q] = T2
    BY <1>8, <1>10, <2>4
  <2> QED
    BY <2>2, <2>5
<1>13. analysis(msg) = T2
  <2>1. n + 2 \in 2..(n + 2) /\ Len(msg) + 1 = n + 2
    BY <1>1
  <2>2. f[n + 2] = T2
    BY <1>12, <2>1
  <2> QED
    BY <1>10, <2>1, <2>2
<1> QED
  BY <1>1, <1>9, <1>13

\* Of nothing it takes nothing.
LEMMA NoCommand ==
  /\ analysis(<<>>).overrun = FALSE
  /\ analysis(<<>>).pos = 0
  /\ analysis(<<>>).commands = <<>>
<1>1. <<>> \in Seq(KvUnits) /\ Len(<<>>) = 0
  OBVIOUS
<1>2. PICK msg : msg = <<>>
  OBVIOUS
<1>3. PICK f : /\ f[0] = AtStart(msg)
               /\ \A p \in 1..(Len(msg) + 1) : f[p] = Analyse(msg, f[p - 1])
               /\ analysis(msg) = f[Len(msg) + 1]
  BY <1>1, <1>2, AnalysisTurns
<1>4. analysis(msg) = Analyse(msg, AtStart(msg))
  <2>1. f[1] = Analyse(msg, f[1 - 1])
    BY <1>1, <1>2, <1>3
  <2> QED
    BY <1>1, <1>2, <1>3, <2>1
<1>5. AtStart(msg) = [pos |-> 0, data |-> 0, size |-> 0, end |-> FALSE,
                    overrun |-> FALSE, commands |-> <<>>]
  BY <1>1, <1>2 DEF AtStart
<1> DEFINE S0 == [pos |-> 0, data |-> 0, size |-> 0, end |-> FALSE,
                  overrun |-> FALSE, commands |-> <<>>]
<1>6. Analyse(msg, S0) = [S0 EXCEPT !.end = TRUE]
  BY DEF Analyse
<1>7. LET e == [S0 EXCEPT !.end = TRUE] IN e.overrun = FALSE /\ e.pos = 0 /\ e.commands = <<>>
  OBVIOUS
<1> QED
  BY <1>2, <1>4, <1>5, <1>6, <1>7

---------------------------------------------------------------------------
(* What the clients send.                                                      *)

KvCat(s, t) == s \o t

\* The joins of FlattenSeq exist one after the other.
LEMMA JoinsExist ==
  ASSUME NEW seqs, NEW N \in Nat
  PROVE  \E f : f = [p \in 1..N |-> IF p = 1 THEN seqs[p] ELSE KvCat(f[p - 1], seqs[p])]
<1> DEFINE Joins(f, q) == f = [p \in 1..q |-> IF p = 1 THEN seqs[p] ELSE KvCat(f[p - 1], seqs[p])]
           B == {q \in Nat : ~ \E f : Joins(f, q)}
<1>1. SUFFICES ASSUME B # {} PROVE FALSE
  OBVIOUS
<1>2. PICK q \in B : \A j \in B : q <= j
  <2>1. B \subseteq Nat
    OBVIOUS
  <2> HIDE DEF B
  <2> QED
    BY <1>1, <2>1, LeastNumber
<1>3. CASE q = 0
  <2> DEFINE f == [p \in 1..0 |-> seqs]
  <2>1. f = [p \in 1..0 |-> IF p = 1 THEN seqs[p] ELSE KvCat(f[p - 1], seqs[p])]
    OBVIOUS
  <2> QED
    BY <1>2, <1>3, <2>1
<1>4. CASE q # 0
  <2>1. q \in Nat /\ q - 1 \in Nat /\ q - 1 \notin B
    <3>1. q \in Nat
      OBVIOUS
    <3> HIDE DEF B
    <3>2. q - 1 \notin B
      BY <1>2, <3>1
    <3> QED
      BY <1>4, <3>1, <3>2
  <2>2. PICK g : Joins(g, q - 1)
    <3> HIDE DEF Joins
    <3> QED
      BY <2>1
  <2> DEFINE f == [p \in 1..q |-> IF p = 1 THEN seqs[1]
                                  ELSE IF p = q THEN KvCat(g[q - 1], seqs[q]) ELSE g[p]]
             e == [p \in 1..q |-> IF p = 1 THEN seqs[p] ELSE KvCat(f[p - 1], seqs[p])]
  <2>3. ASSUME NEW p \in 1..q PROVE f[p] = e[p]
    <3>1. CASE p = 1
      BY <3>1
    <3>2. CASE p = q /\ p # 1
      <4>1. q - 1 \in 1..q /\ q - 1 # q /\ q - 1 \in 1..(q - 1)
        BY <2>1, <3>2
      <4>2. f[q - 1] = g[q - 1]
        <5>1. q - 1 = 1 => g[q - 1] = seqs[1]
          BY <2>1, <2>2, <4>1
        <5> QED
          BY <4>1, <5>1
      <4> QED
        BY <3>2, <4>2
    <3>3. CASE p \in 2..(q - 1)
      <4>1. p - 1 \in 1..q /\ p - 1 # q /\ p - 1 \in 1..(q - 1) /\ p \in 1..(q - 1)
        BY <2>1, <3>3
      <4>2. f[p - 1] = g[p - 1]
        <5>1. p - 1 = 1 => g[p - 1] = seqs[1]
          BY <2>1, <2>2, <4>1
        <5> QED
          BY <4>1, <5>1
      <4>3. g[p] = KvCat(g[p - 1], seqs[p])
        BY <2>2, <3>3, <4>1
      <4> QED
        BY <2>1, <3>3, <4>2, <4>3
    <3> QED
      BY <2>1, <3>1, <3>2, <3>3
  <2>4. f = e
    BY <2>3
  <2>5. Joins(f, q)
    BY <2>4
  <2> QED
    BY <1>2, <2>5
<1> QED
  BY <1>3, <1>4

\* Sequences of units, joined, are a sequence of units.
LEMMA FlattenUnits ==
  ASSUME NEW seqs \in Seq(Seq(KvUnits))
  PROVE  FlattenSeq(seqs) \in Seq(KvUnits)
<1>1. CASE Len(seqs) = 0
  <2>1. seqs = <<>> /\ FlattenSeq(seqs) = seqs
    BY <1>1 DEF FlattenSeq
  <2>2. <<>> \in Seq(KvUnits)
    OBVIOUS
  <2>3. seqs \in Seq(KvUnits)
    BY <2>1, <2>2
  <2> QED
    BY <2>1, <2>3
<1>2. CASE Len(seqs) # 0
  <2> DEFINE N == Len(seqs)
             flatten == CHOOSE f : f = [p \in 1..N |-> IF p = 1 THEN seqs[p] ELSE KvCat(f[p - 1], seqs[p])]
             B == {p \in 1..N : flatten[p] \notin Seq(KvUnits)}
  <2>1. N \in Nat \ {0} /\ \A p \in 1..N : seqs[p] \in Seq(KvUnits)
    BY <1>2
  <2>2. FlattenSeq(seqs) = flatten[N]
    BY <1>2 DEF FlattenSeq, KvCat
  <2> HIDE DEF N
  <2>3. flatten = [p \in 1..N |-> IF p = 1 THEN seqs[p] ELSE KvCat(flatten[p - 1], seqs[p])]
    BY <2>1, JoinsExist
  <2> HIDE DEF flatten
  <2>4. B = {}
    <3>1. SUFFICES ASSUME B # {} PROVE FALSE
      OBVIOUS
    <3>2. PICK q \in B : \A j \in B : q <= j
      <4>1. B \subseteq Nat
        OBVIOUS
      <4> HIDE DEF B
      <4> QED
        BY <3>1, <4>1, LeastNumber
    <3>3. q # 1
      BY <2>1, <2>3, <3>2
    <3>4. q \in 1..N /\ q - 1 \in 1..N /\ flatten[q - 1] \in Seq(KvUnits)
      BY <2>1, <3>2, <3>3
    <3>5. flatten[q] = KvCat(flatten[q - 1], seqs[q])
      BY <2>3, <3>3, <3>4
    <3>6. flatten[q] \in Seq(KvUnits)
      BY <2>1, <3>4, <3>5 DEF KvCat
    <3> QED
      BY <3>2, <3>6
  <2> QED
    BY <2>1, <2>2, <2>4
<1> QED
  BY <1>1, <1>2

LEMMA StreamOfUnits ==
  ASSUME NEW c \in Clients
  PROVE  Stream(c) \in Seq(KvUnits)
<1>1. Commands[c] \in Seq(Seq(BodyUnits))
  BY CommandsAssumption
<1> DEFINE KvFramed(p) == <<HeaderLine(Len(Commands[c][p]))>> \o Commands[c][p]
           frames == [p \in DOMAIN Commands[c] |-> KvFramed(p)]
<1>2. ASSUME NEW p \in DOMAIN Commands[c] PROVE KvFramed(p) \in Seq(KvUnits)
  <2>1. Commands[c][p] \in Seq(BodyUnits)
    BY <1>1
  <2>2. Commands[c][p] \in Seq(KvUnits) /\ HeaderLine(Len(Commands[c][p])) \in KvUnits
    BY <2>1 DEF KvUnits
  <2> QED
    BY <2>2
<1> HIDE DEF KvFramed
<1>3. frames \in Seq(Seq(KvUnits))
  <2>1. PICK n : n = Len(Commands[c])
    OBVIOUS
  <2>2. n \in Nat /\ DOMAIN Commands[c] = 1..n
    BY <1>1, <2>1
  <2> DEFINE S == Seq(KvUnits)
  <2>3. \A p \in 1..n : KvFramed(p) \in S
    BY <1>2, <2>2
  <2>4. frames = [p \in 1..n |-> KvFramed(p)]
    BY <2>2
  <2> HIDE DEF frames, S
  <2>5. frames \in Seq(S)
    BY <2>2, <2>3, <2>4
  <2> QED
    BY <2>5 DEF S
<1>4. Stream(c) = FlattenSeq(frames)
  BY DEF Stream, KvFramed
<1> QED
  BY <1>3, <1>4, FlattenUnits

---------------------------------------------------------------------------
(* The invariant.                                                              *)

TypeInv ==
  /\ sent \in [Clients -> Nat]
  /\ sock \in [Clients -> Seq(KvUnits)]
  /\ recvBuffer \in [Clients -> Seq(KvUnits)]
  /\ handled \in [Clients -> Seq(Seq(KvUnits))]
  /\ bye \in [Clients -> {"no", "fin", "rst"}]
  /\ \A c \in Clients : bye[c] = "rst" => c \in MayReset

\* What was handled of c, when every read found one command.
InOrder(c) ==
  /\ Len(handled[c]) <= Len(Commands[c])
  /\ \A p \in 1..Len(handled[c]) : handled[c][p] = Commands[c][p]
  /\ recvBuffer[c] = <<>>

FramesInv == \A c \in Clients \ mixed : InOrder(c)

KvInv == TypeInv /\ FramesInv /\ EndsOnlyForCause

\* What joining sequences and cutting the front off one gives.
LEMMA KvJoined ==
  ASSUME NEW S, NEW s \in Seq(S), NEW t \in Seq(S)
  PROVE  /\ KvCat(s, t) \in Seq(S)
         /\ \A p \in DOMAIN t : p + Len(s) \in DOMAIN KvCat(s, t) /\ KvCat(s, t)[p + Len(s)] = t[p]
<1>1. PICK n \in Nat, m \in Nat : n = Len(s) /\ m = Len(t)
  OBVIOUS
<1>2. s \o t \in Seq(S) /\ DOMAIN t = 1..m /\ DOMAIN (s \o t) = 1..(n + m)
  BY <1>1
<1>3. \A p \in 1..m : p + n \in 1..(n + m) /\ (s \o t)[p + n] = t[p]
  BY <1>1
<1> QED
  BY <1>1, <1>2, <1>3 DEF KvCat

LEMMA CutFront ==
  ASSUME NEW s \in Seq(KvUnits), NEW q \in Nat
  PROVE  SubSeq(s, q + 1, Len(s)) \in Seq(KvUnits)
  OBVIOUS

\* A read of whole commands takes them in order; any other is remembered; and
\* the process ends for a reason that can be seen in what was read.
LEMMA ReadsInOrder ==
  ASSUME TypeInv, FramesInv, NEW c \in Clients,
         NEW msg, msg = recvBuffer[c] \o sock[c], RecvImp(c, msg)
  PROVE  /\ recvBuffer' \in [Clients -> Seq(KvUnits)]
         /\ handled' \in [Clients -> Seq(Seq(KvUnits))]
         /\ FramesInv'
         /\ down' = "overrun" => mixed' # {}
         /\ down' = "command" => \E p \in DOMAIN handled'[c] : Known(handled'[c][p])
         /\ down' # "error"
<1> DEFINE a == analysis(msg)
<1>1. /\ msg \in Seq(KvUnits) /\ recvBuffer[c] \in Seq(KvUnits) /\ sock[c] \in Seq(KvUnits)
      /\ handled[c] \in Seq(Seq(KvUnits)) /\ Commands[c] \in Seq(Seq(BodyUnits))
  BY CommandsAssumption DEF TypeInv
<1>2. a.pos \in Nat /\ a.commands \in Seq(Seq(KvUnits))
  BY <1>1, AnalysisInside DEF Turns
<1>3. /\ recvBuffer' = [recvBuffer EXCEPT ![c] = SubSeq(msg, a.pos + 1, Len(msg))]
      /\ handled' = [handled EXCEPT ![c] = @ \o a.commands]
      /\ mixed' = IF WholeCommand(c, msg) THEN mixed ELSE mixed \cup {c}
      /\ IF a.overrun THEN down' = "overrun"
         ELSE IF \E p \in DOMAIN a.commands : Known(a.commands[p])
         THEN down' \in {"no", "command"}
         ELSE down' = "no"
  BY DEF RecvImp
<1> HIDE DEF a
<1>4. SubSeq(msg, a.pos + 1, Len(msg)) \in Seq(KvUnits)
      /\ KvCat(handled[c], a.commands) \in Seq(Seq(KvUnits))
  <2>1. SubSeq(msg, a.pos + 1, Len(msg)) \in Seq(KvUnits)
    BY <1>1, <1>2, CutFront
  <2> DEFINE S == Seq(KvUnits)
  <2> HIDE DEF S
  <2>2. handled[c] \in Seq(S) /\ a.commands \in Seq(S)
    BY <1>1, <1>2 DEF S
  <2>3. KvCat(handled[c], a.commands) \in Seq(S)
    BY <2>2, KvJoined
  <2> QED
    BY <2>1, <2>3 DEF S
<1>5. /\ recvBuffer'[c] = SubSeq(msg, a.pos + 1, Len(msg))
      /\ handled'[c] = KvCat(handled[c], a.commands)
      /\ recvBuffer' \in [Clients -> Seq(KvUnits)]
      /\ handled' \in [Clients -> Seq(Seq(KvUnits))]
      /\ \A d \in Clients : d # c => recvBuffer'[d] = recvBuffer[d] /\ handled'[d] = handled[d]
  BY <1>3, <1>4 DEF TypeInv, KvCat
<1>6. ASSUME WholeCommand(c, msg), c \notin mixed
      PROVE  InOrder(c)' /\ ~ a.overrun
  <2>1. CASE msg = <<>>
    <3>1. a.overrun = FALSE /\ a.pos = 0 /\ a.commands = <<>>
      BY <2>1, NoCommand DEF a
    <3>2. recvBuffer'[c] = <<>> /\ handled'[c] = handled[c]
      BY <1>1, <1>5, <2>1, <3>1 DEF KvCat
    <3> QED
      BY <1>6, <3>1, <3>2 DEF FramesInv, InOrder
  <2>2. CASE msg # <<>>
    <3> DEFINE n == Len(handled[c])
    <3>1. n < Len(Commands[c]) /\ msg = <<HeaderLine(Len(Commands[c][n + 1]))>> \o Commands[c][n + 1]
      BY <1>6, <2>2 DEF WholeCommand
    <3>2. PICK body : body = Commands[c][n + 1]
      OBVIOUS
    <3>3. n \in Nat /\ body \in Seq(BodyUnits) /\ msg = <<HeaderLine(Len(body))>> \o body
      <4>1. n \in Nat /\ Len(Commands[c]) \in Nat /\ Commands[c] \in Seq(Seq(BodyUnits))
        BY <1>1
      <4> DEFINE m == Len(Commands[c])
      <4> HIDE DEF n, m
      <4>2. n + 1 \in 1..m
        BY <3>1, <4>1 DEF m
      <4>3. body \in Seq(BodyUnits)
        BY <3>2, <4>1, <4>2 DEF m
      <4> QED
        BY <3>1, <3>2, <4>1, <4>3, Zenon
    <3> HIDE DEF n
    <3>4. a.overrun = FALSE /\ a.pos = Len(msg) /\ a.commands = <<body>>
      BY <3>3, OneCommand DEF a
    <3>5. recvBuffer'[c] = <<>>
      BY <1>1, <1>5, <3>4
    <3>6. Len(handled'[c]) = n + 1 /\ handled'[c][n + 1] = body
          /\ \A p \in 1..n : handled'[c][p] = handled[c][p]
      <4>1. handled'[c] = handled[c] \o <<body>>
        BY <1>5, <3>4 DEF KvCat
      <4>2. body \in Seq(KvUnits)
        BY <3>3 DEF KvUnits
      <4> QED
        BY <1>1, <4>1, <4>2 DEF n
    <3>7. \A p \in 1..n : handled[c][p] = Commands[c][p]
      BY <1>6 DEF FramesInv, InOrder, n
    <3>8. \A p \in 1..(n + 1) : handled'[c][p] = Commands[c][p]
      BY <3>2, <3>3, <3>6, <3>7
    <3>9. Len(handled'[c]) <= Len(Commands[c])
      <4>1. n \in Nat /\ Len(Commands[c]) \in Nat
        BY <1>1, <3>3
      <4>2. n < Len(Commands[c]) /\ Len(handled'[c]) = n + 1
        BY <3>1, <3>6
      <4> QED
        BY <4>1, <4>2
    <3> QED
      BY <3>4, <3>5, <3>6, <3>8, <3>9 DEF InOrder
  <2> QED
    BY <2>1, <2>2
<1>7. FramesInv'
  <2>1. mixed \subseteq mixed' /\ (c \notin mixed' => c \notin mixed /\ WholeCommand(c, msg))
    BY <1>3
  <2>2. ASSUME NEW d \in Clients \ mixed' PROVE InOrder(d)'
    <3>1. CASE d = c
      BY <1>6, <2>1, <3>1
    <3>2. CASE d # c
      <4>1. InOrder(d)
        BY <2>1 DEF FramesInv
      <4> QED
        BY <1>5, <3>2, <4>1 DEF InOrder
    <3> QED
      BY <3>1, <3>2
  <2> QED
    BY <2>2 DEF FramesInv
<1>8. down' = "overrun" => mixed' # {}
  <2> SUFFICES ASSUME down' = "overrun" PROVE mixed' # {}
    OBVIOUS
  <2>1. a.overrun
    BY <1>3
  <2> QED
    BY <1>3, <1>6, <2>1
<1>9. down' = "command" => \E p \in DOMAIN handled'[c] : Known(handled'[c][p])
  <2> SUFFICES ASSUME down' = "command" PROVE \E p \in DOMAIN handled'[c] : Known(handled'[c][p])
    OBVIOUS
  <2>1. PICK p \in DOMAIN a.commands : Known(a.commands[p])
    BY <1>3
  <2>2. p + Len(handled[c]) \in DOMAIN handled'[c]
        /\ handled'[c][p + Len(handled[c])] = a.commands[p]
    <3> DEFINE S == Seq(KvUnits)
    <3> HIDE DEF S
    <3>1. handled[c] \in Seq(S) /\ a.commands \in Seq(S) /\ p \in DOMAIN a.commands
      BY <1>1, <1>2, <2>1 DEF S
    <3> QED
      BY <1>5, <3>1, KvJoined
  <2> QED
    BY <2>1, <2>2
<1> QED
  BY <1>3, <1>5, <1>7, <1>8, <1>9

LEMMA KvInvInit == KvInit => KvInv
<1> SUFFICES ASSUME KvInit PROVE KvInv
  OBVIOUS
<1>1. <<>> \in Seq(KvUnits) /\ <<>> \in Seq(Seq(KvUnits)) /\ Len(<<>>) = 0
  OBVIOUS
<1>2. TypeInv
  BY <1>1 DEF KvInit, TypeInv
<1>3. FramesInv
  <2>1. ASSUME NEW c \in Clients PROVE InOrder(c)
    <3>1. handled[c] = <<>> /\ recvBuffer[c] = <<>> /\ Len(Commands[c]) \in Nat
      BY CommandsAssumption DEF KvInit
    <3> QED
      BY <1>1, <3>1 DEF InOrder
  <2> QED
    BY <2>1 DEF FramesInv
<1>4. EndsOnlyForCause
  BY DEF KvInit, EndsOnlyForCause
<1> QED
  BY <1>2, <1>3, <1>4 DEF KvInv

\* What the other actions leave alone is all the rest is about.
LEMMA KeepsRest ==
  ASSUME KvInv, UNCHANGED <<recvBuffer, handled, mixed, down, bye>>
  PROVE  FramesInv' /\ EndsOnlyForCause'
<1>1. FramesInv'
  BY DEF KvInv, FramesInv, InOrder
<1>2. EndsOnlyForCause'
  BY DEF KvInv, EndsOnlyForCause
<1> QED
  BY <1>1, <1>2

LEMMA KvInvNext == KvInv /\ [KvNext]_kvVars => KvInv'
<1> SUFFICES ASSUME KvInv, [KvNext]_kvVars PROVE KvInv'
  OBVIOUS
<1>1. ASSUME NEW c \in Clients, Connect(c) PROVE KvInv'
  BY <1>1, KeepsRest DEF KvInv, TypeInv, Connect
<1>2. ASSUME NEW c \in Clients, Send(c) PROVE KvInv'
  <2>1. PICK n \in 1 .. Len(Stream(c)) - sent[c] :
          /\ sent' = [sent EXCEPT ![c] = @ + n]
          /\ sock' = [sock EXCEPT ![c] = @ \o SubSeq(Stream(c), sent[c] + 1, sent[c] + n)]
    BY <1>2 DEF Send
  <2>2. Stream(c) \in Seq(KvUnits) /\ sent[c] \in Nat /\ sock[c] \in Seq(KvUnits)
    BY StreamOfUnits DEF KvInv, TypeInv
  <2>3. n \in Nat /\ sent[c] + n <= Len(Stream(c))
    BY <2>1, <2>2
  <2>4. KvPart(Stream(c), sent[c], n) \in Seq(KvUnits)
    BY <2>2, <2>3, PartOfUnits
  <2>5. KvCat(sock[c], KvPart(Stream(c), sent[c], n)) \in Seq(KvUnits)
    BY <2>2, <2>4 DEF KvCat
  <2>6. sock' = [sock EXCEPT ![c] = KvCat(sock[c], KvPart(Stream(c), sent[c], n))]
    BY <2>1 DEF KvCat, KvPart
  <2>7. TypeInv'
    <3>1. sock' \in [Clients -> Seq(KvUnits)]
      BY <2>5, <2>6 DEF KvInv, TypeInv
    <3>2. sent' \in [Clients -> Nat]
      <4>1. sent[c] + n \in Nat
        BY <2>2, <2>3
      <4> QED
        BY <2>1, <4>1 DEF KvInv, TypeInv
    <3> QED
      BY <1>2, <3>1, <3>2 DEF KvInv, TypeInv, Send
  <2>8. FramesInv' /\ EndsOnlyForCause'
    BY <1>2, KeepsRest DEF Send
  <2> QED
    BY <2>7, <2>8 DEF KvInv
<1>3. ASSUME NEW c \in Clients, Leave(c) PROVE KvInv'
  <2>1. PICK b \in {"fin"} \cup (IF c \in MayReset THEN {"rst"} ELSE {}) :
          /\ bye' = [bye EXCEPT ![c] = b]
          /\ sock' = IF b = "rst" THEN [sock EXCEPT ![c] = <<>>] ELSE sock
    BY <1>3 DEF Leave
  <2>2. <<>> \in Seq(KvUnits)
    OBVIOUS
  <2>3. TypeInv'
    BY <1>3, <2>1, <2>2 DEF KvInv, TypeInv, Leave
  <2>4. FramesInv'
    BY <1>3 DEF KvInv, FramesInv, InOrder, Leave
  <2>5. \A d \in Clients : bye[d] = "rst" => bye'[d] = "rst"
    BY <1>3, <2>1 DEF KvInv, TypeInv, Leave
  <2>6. EndsOnlyForCause'
    BY <1>3, <2>5 DEF KvInv, EndsOnlyForCause, Leave
  <2> QED
    BY <2>3, <2>4, <2>6 DEF KvInv
<1>4. ASSUME EpollWait PROVE KvInv'
  BY <1>4, KeepsRest DEF KvInv, TypeInv, EpollWait
<1>5. ASSUME OnAccept PROVE KvInv'
  BY <1>5, KeepsRest DEF KvInv, TypeInv, OnAccept
<1>6. ASSUME NEW c \in Clients, OnRecv(c) PROVE KvInv'
  <2>1. CASE bye[c] = "rst"
    <3>1. down' = "error" /\ UNCHANGED <<sent, bye, sock, recvBuffer, handled, mixed>>
      BY <1>6, <2>1 DEF OnRecv
    <3>2. c \in MayReset /\ bye'[c] = "rst"
      BY <2>1, <3>1 DEF KvInv, TypeInv
    <3>3. EndsOnlyForCause'
      BY <3>1, <3>2 DEF EndsOnlyForCause
    <3> QED
      BY <3>1, <3>3 DEF KvInv, TypeInv, FramesInv, InOrder
  <2>2. CASE bye[c] # "rst"
    <3>1. PICK msg : msg = recvBuffer[c] \o sock[c]
      OBVIOUS
    <3>2. /\ RecvImp(c, msg) /\ sock' = [sock EXCEPT ![c] = <<>>]
          /\ UNCHANGED <<sent, bye>>
      BY <1>6, <2>2, <3>1 DEF OnRecv
    <3>3. /\ recvBuffer' \in [Clients -> Seq(KvUnits)]
          /\ handled' \in [Clients -> Seq(Seq(KvUnits))]
          /\ FramesInv'
          /\ down' = "overrun" => mixed' # {}
          /\ down' = "command" => \E p \in DOMAIN handled'[c] : Known(handled'[c][p])
          /\ down' # "error"
      BY <3>1, <3>2, ReadsInOrder DEF KvInv
    <3>4. <<>> \in Seq(KvUnits)
      OBVIOUS
    <3>5. TypeInv'
      BY <3>2, <3>3, <3>4 DEF KvInv, TypeInv
    <3>6. EndsOnlyForCause'
      BY <3>3 DEF EndsOnlyForCause
    <3> QED
      BY <3>3, <3>5, <3>6 DEF KvInv
  <2> QED
    BY <2>1, <2>2
<1>7. ASSUME UNCHANGED kvVars PROVE KvInv'
  BY <1>7, KeepsRest DEF KvInv, TypeInv, kvVars
<1> QED
  BY <1>1, <1>2, <1>3, <1>4, <1>5, <1>6, <1>7 DEF KvNext, KvServer

\* Commands reach getCommand as they were sent, and nothing stays in the buffer
\* of a client, as long as every read of ProtocolHelper::analysis found one whole
\* command: for any clients and commands, empty ones included.
THEOREM CommandsAreKept == KvSpec => []FramesKept
<1>1. KvInv => FramesKept
  <2> SUFFICES ASSUME KvInv, NEW c \in Clients \ mixed
               PROVE  IsPrefix(handled[c], Commands[c]) /\ recvBuffer[c] = <<>>
    BY DEF FramesKept
  <2>1. InOrder(c) /\ handled[c] \in Seq(Seq(KvUnits)) /\ Commands[c] \in Seq(Seq(BodyUnits))
    BY CommandsAssumption DEF KvInv, FramesInv, TypeInv
  <2> DEFINE n == Len(handled[c])
             s == SubSeq(handled[c], 1, n)
             t == SubSeq(Commands[c], 1, n)
  <2>2. n \in Nat /\ n <= Len(Commands[c]) /\ \A p \in 1..n : handled[c][p] = Commands[c][p]
    BY <2>1 DEF InOrder
  <2>3. s = [p \in 1..n |-> handled[c][p]] /\ t = [p \in 1..n |-> Commands[c][p]]
    BY <2>1, <2>2
  <2> HIDE DEF n
  <2>4. s = t
    <3> HIDE DEF s, t
    <3> QED
      BY <2>2, <2>3
  <2> QED
    BY <2>1, <2>2, <2>4 DEF IsPrefix, InOrder, n
<1> QED
  BY <1>1, KvInvInit, KvInvNext, PTL DEF KvSpec

\* The server goes down for nothing else than a reset connection (append with the
\* size -1), a command that getCommand knows (it returns nothing) or a buffer that
\* was not one whole command (data runs behind it).
THEOREM DownOnlyForCause == KvSpec => []EndsOnlyForCause
  BY KvInvInit, KvInvNext, PTL DEF KvSpec, KvInv

=============================================================================
