------------------------ MODULE IoUringServerProofs ------------------------
(***************************************************************************)
(* The io_uring echo server keeps one operation per connection and one     *)
(* acceptor, for any number of descriptors and connections and for a       *)
(* submission queue of any size, also one that overflows; and it loses,    *)
(* repeats and reorders no byte.                                           *)
(***************************************************************************)
EXTENDS IoUringServer, SequenceTheorems, FiniteSetTheorems, TLAPS

---------------------------------------------------------------------------
(* Where the operations of a descriptor are: queued in q, with the kernel in o, *)
(* completed in c, or c brings the connection itself.                           *)

Queued(q, fd) == \E i \in DOMAIN q : q[i].fd = fd
Kernels(o, fd) == \E x \in o : x.fd = fd
Completed(c, fd) == \E i \in DOMAIN c : c[i].ctx.fd = fd
Arrival(d) == d.ctx = Acceptor /\ d.ok
Arrives(c, fd) == \E i \in DOMAIN c : Arrival(c[i]) /\ c[i].res = fd
Placed(q, o, c, fd) == Queued(q, fd) \/ Kernels(o, fd) \/ Completed(c, fd) \/ Arrives(c, fd)

\* No descriptor is in two places, nor twice in one.
Unique(q, o, c) ==
  /\ \A i, j \in DOMAIN q : q[i].fd = q[j].fd => i = j
  /\ \A x, y \in o : x.fd = y.fd => x = y
  /\ \A i, j \in DOMAIN c : c[i].ctx.fd = c[j].ctx.fd => i = j
  /\ \A i \in DOMAIN q : ~Kernels(o, q[i].fd) /\ ~Completed(c, q[i].fd)
  /\ \A x \in o : ~Completed(c, x.fd)
  /\ \A i \in DOMAIN c : Arrival(c[i]) =>
       ~Queued(q, c[i].res) /\ ~Kernels(o, c[i].res) /\ ~Completed(c, c[i].res)

Contexts ==
  {x \in [type : {"ACCEPT", "RECV", "SEND"}, fd : Fds \cup {-1}, data : Seq(Nat)] :
     /\ IF x.type = "ACCEPT" THEN x = Acceptor ELSE x.fd \in Fds
     /\ x.type = "RECV" => x = Reader(x.fd)}
Completions ==
  {d \in [ctx : Contexts, ok : BOOLEAN, res : Fds \cup Seq(Nat)] :
     /\ Arrival(d) => d.res \in Fds
     /\ d.ctx.type = "RECV" => d.res \in Seq(Nat)}

TypeInv ==
  /\ sq \in Seq(Contexts) /\ Len(sq) <= SqSize
  /\ ops \subseteq Contexts
  /\ cq \in Seq(Completions)
  /\ \A i \in DOMAIN cq : ~cq[i].ok => failures > 0
  /\ open \subseteq Fds /\ lost \subseteq Contexts /\ failures \in Nat
  /\ inbox \in [Fds -> Seq(Nat)] /\ sent \in [Fds -> Nat]

\* What a state owes to every descriptor: only open ones have an operation, and
\* all that were not abandoned have one.
Kept(q, o, c, opened, gone, failed) ==
  /\ \A fd \in Fds : Placed(q, o, c, fd) => fd \in opened
  /\ \A fd \in opened : Placed(q, o, c, fd) \/ fd \in gone
  /\ Placed(q, o, c, -1) \/ failed > 0 \/ -1 \in gone

Inv ==
  /\ TypeInv
  /\ Unique(sq, ops, cq)
  /\ Kept(sq, ops, cq, open, Abandoned, failures)

---------------------------------------------------------------------------
(* What queueing, submitting, completing and handling do to the places.        *)

\* Queueing a context of a descriptor that is nowhere puts it in one place.
LEMMA QueueOne ==
  ASSUME NEW S, NEW q \in Seq(S), NEW o, NEW c, NEW x \in S,
         Unique(q, o, c), ~Placed(q, o, c, x.fd)
  PROVE  /\ Append(q, x) \in Seq(S)
         /\ Unique(Append(q, x), o, c)
         /\ \A fd : Placed(Append(q, x), o, c, fd) <=> fd = x.fd \/ Placed(q, o, c, fd)
<1> DEFINE r == Append(q, x)
<1>1. r \in Seq(S) /\ DOMAIN r = 1 .. Len(q) + 1 /\ DOMAIN q = 1 .. Len(q) /\ Len(q) \in Nat
  OBVIOUS
<1>2. r[Len(q) + 1] = x /\ \A i \in 1 .. Len(q) : r[i] = q[i]
  OBVIOUS
<1> HIDE DEF r
<1>3. \A fd : Queued(r, fd) <=> fd = x.fd \/ Queued(q, fd)
  BY <1>1, <1>2 DEF Queued
<1>4. \A fd : Placed(r, o, c, fd) <=> fd = x.fd \/ Placed(q, o, c, fd)
  BY <1>3 DEF Placed
<1>5. Unique(r, o, c)
  <2>1. \A i, j \in DOMAIN r : r[i].fd = r[j].fd => i = j
    BY <1>1, <1>2 DEF Unique, Placed, Queued
  <2>2. \A i \in DOMAIN r : ~Kernels(o, r[i].fd) /\ ~Completed(c, r[i].fd)
    BY <1>1, <1>2 DEF Unique, Placed
  <2>3. \A i \in DOMAIN c : Arrival(c[i]) => ~Queued(r, c[i].res)
    BY <1>3 DEF Unique, Placed, Arrives
  <2> QED
    BY <2>1, <2>2, <2>3 DEF Unique
<1> QED
  BY <1>1, <1>4, <1>5 DEF r

\* io_uring_submit moves what is queued to the kernel; no descriptor changes hands.
LEMMA SubmitAll ==
  ASSUME NEW S, NEW q \in Seq(S), NEW o, NEW c, Unique(q, o, c)
  PROVE  /\ Unique(<<>>, o \cup ToSet(q), c)
         /\ \A fd : Placed(<<>>, o \cup ToSet(q), c, fd) <=> Placed(q, o, c, fd)
<1>1. \A x : x \in ToSet(q) <=> \E i \in DOMAIN q : x = q[i]
  BY DEF ToSet
<1>2. DOMAIN <<>> = {}
  OBVIOUS
<1>3. \A fd : Kernels(o \cup ToSet(q), fd) <=> Kernels(o, fd) \/ Queued(q, fd)
  BY <1>1 DEF Kernels, Queued
<1>4. \A fd : ~Queued(<<>>, fd)
  BY <1>2 DEF Queued
<1>5. Unique(<<>>, o \cup ToSet(q), c)
  <2>1. \A x, y \in o \cup ToSet(q) : x.fd = y.fd => x = y
    BY <1>1 DEF Unique, Kernels
  <2>2. \A x \in o \cup ToSet(q) : ~Completed(c, x.fd)
    BY <1>1 DEF Unique
  <2> QED
    BY <1>2, <1>3, <1>4, <2>1, <2>2 DEF Unique
<1> QED
  BY <1>3, <1>4, <1>5 DEF Placed

\* The kernel moves a context to the completions; an accept adds its connection.
LEMMA CompleteOne ==
  ASSUME NEW S, NEW q, NEW o, NEW c \in Seq(S), NEW d \in S,
         Unique(q, o, c), d.ctx \in o, Arrival(d) => ~Placed(q, o, c, d.res)
  PROVE  /\ Append(c, d) \in Seq(S)
         /\ Unique(q, o \ {d.ctx}, Append(c, d))
         /\ \A fd : Placed(q, o \ {d.ctx}, Append(c, d), fd)
                      <=> Placed(q, o, c, fd) \/ (Arrival(d) /\ fd = d.res)
<1> DEFINE r == Append(c, d)
           p == o \ {d.ctx}
<1>1. r \in Seq(S) /\ DOMAIN r = 1 .. Len(c) + 1 /\ DOMAIN c = 1 .. Len(c) /\ Len(c) \in Nat
  OBVIOUS
<1>2. r[Len(c) + 1] = d /\ \A i \in 1 .. Len(c) : r[i] = c[i]
  OBVIOUS
<1>3. \A x : x \in p <=> x \in o /\ x # d.ctx
  OBVIOUS
<1> HIDE DEF r, p
<1>4. \A fd : Completed(r, fd) <=> fd = d.ctx.fd \/ Completed(c, fd)
  BY <1>1, <1>2 DEF Completed
<1>5. \A fd : Arrives(r, fd) <=> (Arrival(d) /\ fd = d.res) \/ Arrives(c, fd)
  BY <1>1, <1>2 DEF Arrives
<1>6. \A fd : Kernels(o, fd) <=> Kernels(p, fd) \/ fd = d.ctx.fd
  BY <1>3 DEF Kernels
<1>7. ~Kernels(p, d.ctx.fd)
  BY <1>3 DEF Kernels, Unique
<1>8. ~Completed(c, d.ctx.fd) /\ ~Queued(q, d.ctx.fd)
  BY DEF Unique, Queued, Kernels
<1>9. Unique(q, p, r)
  <2>1. \A x, y \in p : x.fd = y.fd => x = y
    BY <1>3 DEF Unique
  <2>2. \A i, j \in DOMAIN r : r[i].ctx.fd = r[j].ctx.fd => i = j
    BY <1>1, <1>2, <1>8 DEF Unique, Completed
  <2>3. \A i \in DOMAIN q : ~Kernels(p, q[i].fd) /\ ~Completed(r, q[i].fd)
    BY <1>4, <1>6, <1>8 DEF Unique, Queued
  <2>4. \A x \in p : ~Completed(r, x.fd)
    BY <1>3, <1>4, <1>7 DEF Unique, Kernels
  <2>5. ASSUME NEW i \in DOMAIN r, Arrival(r[i])
        PROVE  ~Queued(q, r[i].res) /\ ~Kernels(p, r[i].res) /\ ~Completed(r, r[i].res)
    <3>1. CASE i = Len(c) + 1
      BY <3>1, <1>2, <1>4, <1>6, <2>5 DEF Placed
    <3>2. CASE i \in DOMAIN c
      BY <3>2, <1>1, <1>2, <1>4, <1>6, <2>5 DEF Unique
    <3> QED
      BY <3>1, <3>2, <1>1
  <2> QED
    BY <2>1, <2>2, <2>3, <2>4, <2>5 DEF Unique
<1> QED
  BY <1>1, <1>4, <1>5, <1>6, <1>9 DEF Placed, r, p

\* A handled completion takes its descriptor, and the connection it brings, away.
LEMMA HandleOne ==
  ASSUME NEW S, NEW q, NEW o, NEW c \in Seq(S), c # <<>>, Unique(q, o, c)
  PROVE  /\ Head(c) \in S /\ Tail(c) \in Seq(S)
         /\ Unique(q, o, Tail(c))
         /\ \A fd : Placed(q, o, Tail(c), fd) <=>
              /\ Placed(q, o, c, fd)
              /\ fd # Head(c).ctx.fd
              /\ ~(Arrival(Head(c)) /\ fd = Head(c).res)
<1> DEFINE r == Tail(c)
           d == Head(c)
<1>1. /\ d \in S /\ d = c[1] /\ 1 \in DOMAIN c
      /\ r \in Seq(S) /\ DOMAIN r = 1 .. Len(c) - 1 /\ DOMAIN c = 1 .. Len(c) /\ Len(c) \in Nat \ {0}
  OBVIOUS
<1>2. \A i \in DOMAIN r : i + 1 \in DOMAIN c /\ i + 1 # 1 /\ r[i] = c[i + 1]
  OBVIOUS
<1>3. \A i \in DOMAIN c : i = 1 \/ \E j \in DOMAIN r : i = j + 1
  <2> SUFFICES ASSUME NEW i \in DOMAIN c, i # 1 PROVE \E j \in DOMAIN r : i = j + 1
    OBVIOUS
  <2>1. i - 1 \in DOMAIN r /\ i = (i - 1) + 1
    BY <1>1
  <2> QED
    BY <2>1
<1> HIDE DEF r, d
<1>4. \A fd : Completed(c, fd) <=> fd = d.ctx.fd \/ Completed(r, fd)
  BY <1>1, <1>2, <1>3 DEF Completed
<1>5. \A fd : Arrives(c, fd) <=> (Arrival(d) /\ fd = d.res) \/ Arrives(r, fd)
  BY <1>1, <1>2, <1>3 DEF Arrives
<1>6. ~Completed(r, d.ctx.fd) /\ ~Kernels(o, d.ctx.fd) /\ ~Queued(q, d.ctx.fd)
  <2>1. ~Completed(r, d.ctx.fd)
    <3> SUFFICES ASSUME NEW i \in DOMAIN r, r[i].ctx.fd = d.ctx.fd PROVE FALSE
      BY DEF Completed
    <3>1. i + 1 = 1
      BY <1>1, <1>2 DEF Unique
    <3> QED
      BY <3>1, <1>2
  <2>2. ~Kernels(o, d.ctx.fd) /\ ~Queued(q, d.ctx.fd)
    BY <1>4 DEF Kernels, Queued, Unique
  <2> QED
    BY <2>1, <2>2
<1>7. ~Arrives(r, d.ctx.fd)
  BY <1>1, <1>2, <1>4 DEF Arrives, Unique
<1>8. Arrival(d) => ~Queued(q, d.res) /\ ~Kernels(o, d.res) /\ ~Completed(r, d.res)
  BY <1>1, <1>4 DEF Unique
<1>9. Arrival(d) => ~Arrives(r, d.res)
  <2> SUFFICES ASSUME Arrival(d), NEW i \in DOMAIN r, Arrival(r[i]) PROVE FALSE
    BY DEF Arrives
  <2>1. c[i + 1].ctx.fd = c[1].ctx.fd /\ i + 1 \in DOMAIN c /\ i + 1 # 1
    BY <1>1, <1>2 DEF Arrival
  <2> QED
    BY <2>1, <1>1 DEF Unique
<1>10. Unique(q, o, r)
  <2>1. ASSUME NEW i \in DOMAIN r, NEW j \in DOMAIN r, r[i].ctx.fd = r[j].ctx.fd
        PROVE  i = j
    <3>1. i + 1 = j + 1
      BY <2>1, <1>2 DEF Unique
    <3> QED
      BY <3>1, <1>1
  <2>2. \A i \in DOMAIN r : Arrival(r[i]) =>
          ~Queued(q, r[i].res) /\ ~Kernels(o, r[i].res) /\ ~Completed(r, r[i].res)
    BY <1>1, <1>2, <1>4 DEF Unique
  <2> QED
    BY <1>4, <2>1, <2>2 DEF Unique
<1> QED
  BY <1>1, <1>4, <1>5, <1>6, <1>7, <1>8, <1>9, <1>10 DEF Placed, r, d

---------------------------------------------------------------------------
(* setEvents queues what there is room for and loses the rest.                 *)

\* The least of two integers, as setEvents computes the room it has.
LEMMA MinOfTwo ==
  ASSUME NEW a \in Int, NEW b \in Int
  PROVE  Min({a, b}) = IF a <= b THEN a ELSE b
<1> DEFINE m == IF a <= b THEN a ELSE b
<1>1. m \in {a, b} /\ \A y \in {a, b} : m <= y
  OBVIOUS
<1>2. \A x \in {a, b} : (\A y \in {a, b} : x <= y) => x = m
  OBVIOUS
<1> QED
  BY <1>1, <1>2 DEF Min

\* The prefixes of the one or two contexts a handler queues.
LEMMA FirstOfTwo ==
  ASSUME NEW x \in Contexts, NEW y \in Contexts
  PROVE  /\ SubSeq(<<x>>, 1, 0) = <<>> /\ SubSeq(<<x>>, 1, 1) = <<x>>
         /\ SubSeq(<<x, y>>, 1, 0) = <<>> /\ SubSeq(<<x, y>>, 1, 1) = <<x>>
         /\ SubSeq(<<x, y>>, 1, 2) = <<x, y>>
<1>1. <<x>> \in Seq(Contexts) /\ <<x, y>> \in Seq(Contexts) /\ <<x, y>>[1] = x
      /\ Len(<<x>>) = 1 /\ Len(<<x, y>>) = 2
  OBVIOUS
<1>2. SubSeq(<<x>>, 1, 0) = <<>> /\ SubSeq(<<x, y>>, 1, 0) = <<>>
  BY SubSeqEmpty
<1>3. SubSeq(<<x>>, 1, 1) = <<x>> /\ SubSeq(<<x, y>>, 1, 2) = <<x, y>>
  BY <1>1, SubSeqFull
<1>4. SubSeq(<<x, y>>, 1, 1) = SubSeq(<<x, y>>, 1, 0) \o <<x>>
  <2>1. 1 \in 1 .. Len(<<x, y>>) /\ 1 - 1 = 0
    BY <1>1
  <2> QED
    BY <1>1, <2>1, SubSeqRecursiveSecond
<1>5. <<>> \o <<x>> = <<x>>
  BY <1>1, ConcatEmptySeq
<1> QED
  BY <1>2, <1>3, <1>4, <1>5

\* One context is queued when there is room, otherwise it is lost.
LEMMA SetOne ==
  ASSUME TypeInv, NEW x \in Contexts, setEvents(<<x>>)
  PROVE  \/ Len(sq) < SqSize /\ sq' = Append(sq, x) /\ lost' = lost
         \/ sq' = sq /\ lost' = lost \cup {x}
<1> DEFINE room == SqSize - Len(sq)
           n == Min({room, 1})
<1>1. room \in Nat /\ Len(sq) \in Nat /\ (room > 0 => Len(sq) < SqSize)
  BY ServerAssumption DEF TypeInv
<1>2. n = IF room <= 1 THEN room ELSE 1
  BY <1>1, MinOfTwo
<1>3. sq' = sq \o SubSeq(<<x>>, 1, n) /\ lost' = lost \cup {<<x>>[i] : i \in (n + 1)..1}
  BY DEF setEvents
<1>4. sq \in Seq(Contexts) /\ sq \o <<>> = sq /\ sq \o <<x>> = Append(sq, x)
  BY ConcatEmptySeq, AppendIsConcat DEF TypeInv
<1>5. (n = 0 \/ n = 1) /\ (n = 1 => Len(sq) < SqSize)
  BY <1>1, <1>2
<1> HIDE DEF n
<1>6. CASE n = 1
  <2>1. (n + 1)..1 = {}
    BY <1>6
  <2>2. sq' = Append(sq, x)
    BY <1>3, <1>4, <1>6, FirstOfTwo
  <2> QED
    BY <1>3, <1>5, <1>6, <2>1, <2>2
<1>7. CASE n = 0
  <2>1. (n + 1)..1 = {1} /\ <<x>>[1] = x
    BY <1>7
  <2>2. sq' = sq
    BY <1>3, <1>4, <1>7, FirstOfTwo
  <2> QED
    BY <1>3, <2>1, <2>2
<1> QED
  BY <1>5, <1>6, <1>7

\* Of two contexts both, the first or none is queued; the others are lost.
LEMMA SetTwo ==
  ASSUME TypeInv, NEW x \in Contexts, NEW y \in Contexts, setEvents(<<x, y>>)
  PROVE  \/ Len(sq) + 1 < SqSize /\ sq' = Append(Append(sq, x), y) /\ lost' = lost
         \/ Len(sq) < SqSize /\ sq' = Append(sq, x) /\ lost' = lost \cup {y}
         \/ sq' = sq /\ lost' = lost \cup {x, y}
<1> DEFINE room == SqSize - Len(sq)
           n == Min({room, 2})
<1>1. room \in Nat /\ Len(sq) \in Nat /\ (room > 0 => Len(sq) < SqSize)
      /\ (room > 1 => Len(sq) + 1 < SqSize)
  BY ServerAssumption DEF TypeInv
<1>2. n = IF room <= 2 THEN room ELSE 2
  BY <1>1, MinOfTwo
<1>3. sq' = sq \o SubSeq(<<x, y>>, 1, n) /\ lost' = lost \cup {<<x, y>>[i] : i \in (n + 1)..2}
  BY DEF setEvents
<1>4. sq \in Seq(Contexts) /\ sq \o <<>> = sq /\ sq \o <<x>> = Append(sq, x)
  BY ConcatEmptySeq, AppendIsConcat DEF TypeInv
<1>5. sq \o <<x, y>> = Append(Append(sq, x), y)
  BY <1>4
<1>6. (n = 0 \/ n = 1 \/ n = 2) /\ (n = 1 => Len(sq) < SqSize) /\ (n = 2 => Len(sq) + 1 < SqSize)
  BY <1>1, <1>2
<1> HIDE DEF n
<1>7. CASE n = 2
  <2>1. (n + 1)..2 = {}
    BY <1>7
  <2>2. sq' = Append(Append(sq, x), y)
    BY <1>3, <1>5, <1>7, FirstOfTwo
  <2> QED
    BY <1>3, <1>6, <1>7, <2>1, <2>2
<1>8. CASE n = 1
  <2>1. (n + 1)..2 = {2} /\ <<x, y>>[2] = y
    BY <1>8
  <2>2. sq' = Append(sq, x)
    BY <1>3, <1>4, <1>8, FirstOfTwo
  <2> QED
    BY <1>3, <1>6, <1>8, <2>1, <2>2
<1>9. CASE n = 0
  <2>1. (n + 1)..2 = {1, 2} /\ <<x, y>>[1] = x /\ <<x, y>>[2] = y
    BY <1>9
  <2>2. sq' = sq
    BY <1>3, <1>4, <1>9, FirstOfTwo
  <2> QED
    BY <1>3, <2>1, <2>2
<1> QED
  BY <1>6, <1>7, <1>8, <1>9

---------------------------------------------------------------------------
(* The steps.                                                                  *)

\* The contexts the server creates are well formed.
LEMMA ContextsMade ==
  /\ Acceptor \in Contexts
  /\ \A fd \in Fds : Reader(fd) \in Contexts
  /\ \A fd \in Fds : \A msg \in Seq(Nat) : Sender(fd, msg) \in Contexts
BY ServerAssumption DEF Contexts, Acceptor, Reader, Sender

\* What the handler of the first completion knows about it.
LEMMA FirstCompletion ==
  ASSUME Inv, cq # <<>>
  PROVE  /\ Head(cq) \in Completions /\ Tail(cq) \in Seq(Completions)
         /\ Unique(sq, ops, Tail(cq))
         /\ \A fd : Placed(sq, ops, Tail(cq), fd) <=>
              /\ Placed(sq, ops, cq, fd)
              /\ fd # Head(cq).ctx.fd
              /\ ~(Arrival(Head(cq)) /\ fd = Head(cq).res)
         /\ Placed(sq, ops, cq, Head(cq).ctx.fd)
         /\ \A i \in DOMAIN Tail(cq) : ~Tail(cq)[i].ok => failures > 0
         /\ ~Head(cq).ok => failures > 0
<1>1. cq \in Seq(Completions) /\ Unique(sq, ops, cq)
      /\ \A i \in DOMAIN cq : ~cq[i].ok => failures > 0
  BY DEF Inv, TypeInv
<1>2. /\ \A i \in DOMAIN Tail(cq) : i + 1 \in DOMAIN cq /\ Tail(cq)[i] = cq[i + 1]
      /\ Head(cq) = cq[1] /\ 1 \in DOMAIN cq
  BY <1>1
<1>3. Placed(sq, ops, cq, Head(cq).ctx.fd)
  BY <1>2 DEF Placed, Completed
<1>4. (\A i \in DOMAIN Tail(cq) : ~Tail(cq)[i].ok => failures > 0) /\ (~Head(cq).ok => failures > 0)
  BY <1>1, <1>2
<1> QED
  BY <1>1, <1>3, <1>4, HandleOne

\* HandleRecv and HandleSend: the connection's next operation, or it is lost.
LEMMA NextOperation ==
  ASSUME Inv, cq # <<>>, cq' = Tail(cq), UNCHANGED <<ops, open, failures, inbox, sent>>,
         ~Arrival(Head(cq)), NEW x \in Contexts, x.fd = Head(cq).ctx.fd, setEvents(<<x>>)
  PROVE  Inv'
<1>1. TypeInv
  BY DEF Inv
<1>2. ~Placed(sq, ops, Tail(cq), x.fd)
  BY FirstCompletion
<1>3. CASE Len(sq) < SqSize /\ sq' = Append(sq, x) /\ lost' = lost
  <2>1. /\ sq' \in Seq(Contexts) /\ Len(sq') <= SqSize
    BY <1>1, <1>3, ServerAssumption DEF TypeInv
  <2>2. TypeInv'
    BY <1>1, <1>3, <2>1, FirstCompletion DEF TypeInv
  <2>3. Unique(sq', ops', cq')
    BY <1>1, <1>2, <1>3, FirstCompletion, QueueOne DEF TypeInv
  <2>4. \A fd : Placed(sq', ops', cq', fd) <=> fd = x.fd \/ Placed(sq, ops, Tail(cq), fd)
    BY <1>1, <1>2, <1>3, FirstCompletion, QueueOne DEF TypeInv
  <2>5. \A fd : Placed(sq', ops', cq', fd) <=> Placed(sq, ops, cq, fd)
    BY <2>4, FirstCompletion
  <2> QED
    BY <1>3, <2>2, <2>3, <2>5 DEF Inv, Kept, Abandoned
<1>4. CASE sq' = sq /\ lost' = lost \cup {x}
  <2>1. TypeInv'
    BY <1>1, <1>4, FirstCompletion DEF TypeInv
  <2>2. Unique(sq', ops', cq')
    BY <1>4, FirstCompletion
  <2>3. \A fd : Placed(sq', ops', cq', fd) <=> Placed(sq, ops, cq, fd) /\ fd # x.fd
    BY <1>4, FirstCompletion
  <2>4. Abandoned' = Abandoned \cup {x.fd}
    BY <1>4 DEF Abandoned
  <2> QED
    BY <2>1, <2>2, <2>3, <2>4 DEF Inv, Kept
<1> QED
  BY <1>1, <1>3, <1>4, SetOne

\* HandleError and HandleClosed: the descriptor is closed.
LEMMA Closes ==
  ASSUME Inv, cq # <<>>, cq' = Tail(cq), UNCHANGED <<sq, ops, lost, failures, inbox, sent>>,
         ~Arrival(Head(cq)), Head(cq).ctx.fd \in Fds \/ failures > 0,
         open' = open \ {Head(cq).ctx.fd}
  PROVE  Inv'
<1>1. TypeInv'
  BY FirstCompletion DEF Inv, TypeInv
<1>2. Unique(sq', ops', cq')
  BY FirstCompletion
<1>3. \A fd : Placed(sq', ops', cq', fd) <=> Placed(sq, ops, cq, fd) /\ fd # Head(cq).ctx.fd
  BY FirstCompletion
<1>4. Abandoned' = Abandoned
  BY DEF Abandoned
<1> QED
  BY <1>1, <1>2, <1>3, <1>4, ServerAssumption DEF Inv, Kept

\* HandleAccept: the acceptor and the first read, as far as there is room.
LEMMA Accepts == Inv /\ HandleAccept => Inv'
<1> SUFFICES ASSUME Inv, HandleAccept PROVE Inv'
  OBVIOUS
<1> DEFINE fd0 == Head(cq).res
           a == Acceptor
           r == Reader(fd0)
<1>1. /\ TypeInv /\ cq # <<>> /\ cq' = Tail(cq) /\ setEvents(<<a, r>>)
      /\ UNCHANGED <<ops, open, failures, inbox, sent>>
  BY DEF Inv, HandleAccept, Completion, clientVars
<1>2. /\ Head(cq).ctx = a /\ Arrival(Head(cq)) /\ fd0 \in Fds
      /\ a \in Contexts /\ r \in Contexts /\ a.fd = -1 /\ r.fd = fd0 /\ fd0 # -1
  BY <1>1, FirstCompletion, ContextsMade, ServerAssumption
     DEF HandleAccept, Completion, Completions, Contexts, Arrival, Acceptor, Reader
<1>3. \A fd : Placed(sq, ops, Tail(cq), fd) <=>
               Placed(sq, ops, cq, fd) /\ fd # -1 /\ fd # fd0
  BY <1>1, <1>2, FirstCompletion
<1>4. Placed(sq, ops, cq, fd0)
  <2>1. 1 \in DOMAIN cq /\ cq[1] = Head(cq)
    BY <1>1 DEF TypeInv
  <2> QED
    BY <1>2, <2>1 DEF Placed, Arrives
<1>5. Placed(sq, ops, cq, -1)
  BY <1>1, <1>2, FirstCompletion
<1>6. sq \in Seq(Contexts) /\ Unique(sq, ops, Tail(cq)) /\ Len(sq) \in Nat
  BY <1>1, FirstCompletion DEF TypeInv
<1> HIDE DEF fd0, a, r
<1>7. /\ Append(sq, a) \in Seq(Contexts) /\ Unique(Append(sq, a), ops, Tail(cq))
      /\ \A fd : Placed(Append(sq, a), ops, Tail(cq), fd) <=> fd = -1 \/ Placed(sq, ops, Tail(cq), fd)
  <2>1. ~Placed(sq, ops, Tail(cq), a.fd)
    BY <1>2, <1>3
  <2>2. /\ Append(sq, a) \in Seq(Contexts) /\ Unique(Append(sq, a), ops, Tail(cq))
        /\ \A fd : Placed(Append(sq, a), ops, Tail(cq), fd)
                     <=> fd = a.fd \/ Placed(sq, ops, Tail(cq), fd)
    BY <1>2, <1>6, <2>1, QueueOne
  <2> QED
    BY <1>2, <2>2
<1>8. CASE Len(sq) + 1 < SqSize /\ sq' = Append(Append(sq, a), r) /\ lost' = lost
  <2>1. /\ sq' \in Seq(Contexts) /\ Unique(sq', ops, Tail(cq))
        /\ \A fd : Placed(sq', ops, Tail(cq), fd)
                     <=> fd = fd0 \/ Placed(Append(sq, a), ops, Tail(cq), fd)
    BY <1>2, <1>3, <1>7, <1>8, QueueOne
  <2>2. Len(sq') <= SqSize
    <3>1. Len(Append(sq, a)) = Len(sq) + 1 /\ Len(sq') = Len(Append(sq, a)) + 1
      BY <1>2, <1>6, <1>7, <1>8, AppendProperties
    <3> QED
      BY <3>1, <1>6, <1>8, ServerAssumption
  <2>3. TypeInv'
    BY <1>1, <1>8, <2>1, <2>2, FirstCompletion DEF TypeInv
  <2>4. \A fd : Placed(sq', ops', cq', fd) <=> Placed(sq, ops, cq, fd)
    BY <1>1, <1>3, <1>4, <1>5, <1>7, <2>1
  <2> QED
    BY <1>1, <1>8, <2>1, <2>3, <2>4 DEF Inv, Kept, Abandoned
<1>9. CASE Len(sq) < SqSize /\ sq' = Append(sq, a) /\ lost' = lost \cup {r}
  <2>1. Len(sq') <= SqSize
    BY <1>2, <1>6, <1>9, ServerAssumption
  <2>2. TypeInv'
    BY <1>1, <1>2, <1>7, <1>9, <2>1, FirstCompletion DEF TypeInv
  <2>3. \A fd : Placed(sq', ops', cq', fd) <=> Placed(sq, ops, cq, fd) /\ fd # fd0
    BY <1>1, <1>2, <1>3, <1>5, <1>7, <1>9
  <2>4. Abandoned' = Abandoned \cup {fd0}
    BY <1>2, <1>9 DEF Abandoned
  <2>5. -1 # fd0
    BY <1>2
  <2> QED
    BY <1>1, <1>7, <1>9, <2>2, <2>3, <2>4, <2>5 DEF Inv, Kept
<1>10. CASE sq' = sq /\ lost' = lost \cup {a, r}
  <2>1. TypeInv'
    BY <1>1, <1>2, <1>10, FirstCompletion DEF TypeInv
  <2>2. Abandoned' = Abandoned \cup {-1, fd0}
    BY <1>2, <1>10 DEF Abandoned
  <2> QED
    BY <1>1, <1>3, <1>6, <1>10, <2>1, <2>2 DEF Inv, Kept
<1> QED
  BY <1>1, <1>2, <1>8, <1>9, <1>10, SetTwo

\* KernelRecv, KernelSend and KernelError: an operation becomes a completion.
LEMMA Completes ==
  ASSUME Inv, NEW ctx, NEW ok, NEW res, Complete(ctx, ok, res),
         [ctx |-> ctx, ok |-> ok, res |-> res] \in Completions,
         ~Arrival([ctx |-> ctx, ok |-> ok, res |-> res]),
         failures' \in {failures, failures + 1}, ~ok => failures' = failures + 1,
         open' = open, inbox' \in [Fds -> Seq(Nat)], sent' = sent
  PROVE  Inv'
<1> DEFINE d == [ctx |-> ctx, ok |-> ok, res |-> res]
<1>1. /\ TypeInv /\ d.ctx \in ops /\ ops' = ops \ {d.ctx} /\ cq' = Append(cq, d)
      /\ UNCHANGED <<sq, lost>> /\ d.ok = ok
  BY DEF Inv, Complete
<1>2. d \in Completions /\ ~Arrival(d)
  OBVIOUS
<1> HIDE DEF d
<1>3. /\ cq' \in Seq(Completions) /\ Unique(sq', ops', cq')
      /\ \A fd : Placed(sq', ops', cq', fd) <=> Placed(sq, ops, cq, fd)
  BY <1>1, <1>2, CompleteOne DEF Inv, TypeInv
<1>4. \A i \in DOMAIN cq' : ~cq'[i].ok => failures' > 0
  <2>1. cq \in Seq(Completions) /\ failures \in Nat /\ \A i \in DOMAIN cq : ~cq[i].ok => failures > 0
    BY <1>1 DEF TypeInv
  <2>2. \A i \in DOMAIN cq' : (i \in DOMAIN cq /\ cq'[i] = cq[i]) \/ cq'[i] = d
    BY <1>1, <1>2, <2>1
  <2> QED
    BY <1>1, <2>1, <2>2
<1>5. TypeInv'
  BY <1>1, <1>3, <1>4 DEF TypeInv
<1>6. failures > 0 => failures' > 0
  BY <1>1 DEF TypeInv
<1>7. Kept(sq', ops', cq', open', Abandoned', failures')
  BY <1>1, <1>3, <1>6 DEF Inv, Kept, Abandoned
<1> QED
  BY <1>3, <1>5, <1>7 DEF Inv

\* accept returns a descriptor that is not open, so nothing works on it.
LEMMA Connected == Inv /\ KernelAccept => Inv'
<1> SUFFICES ASSUME Inv, KernelAccept PROVE Inv'
  OBVIOUS
<1>1. PICK fd0 \in Fds \ open :
        /\ Complete(Acceptor, TRUE, fd0) /\ open' = open \cup {fd0}
        /\ inbox' = [inbox EXCEPT ![fd0] = <<>>] /\ sent' = [sent EXCEPT ![fd0] = 0]
        /\ UNCHANGED failures
  BY DEF KernelAccept
<1> DEFINE d == [ctx |-> Acceptor, ok |-> TRUE, res |-> fd0]
<1>2. d \in Completions /\ Arrival(d) /\ d.ctx = Acceptor /\ d.res = fd0 /\ d.ok
  BY ContextsMade DEF Completions, Arrival, Acceptor
<1>3. /\ TypeInv /\ d.ctx \in ops /\ ops' = ops \ {d.ctx} /\ cq' = Append(cq, d)
      /\ UNCHANGED <<sq, lost>>
  BY <1>1 DEF Inv, Complete
<1> HIDE DEF d
<1>4. ~Placed(sq, ops, cq, fd0)
  BY <1>1 DEF Inv, Kept
<1>5. /\ cq' \in Seq(Completions) /\ Unique(sq', ops', cq')
      /\ \A fd : Placed(sq', ops', cq', fd) <=> Placed(sq, ops, cq, fd) \/ fd = fd0
  <2>1. cq \in Seq(Completions) /\ Unique(sq, ops, cq) /\ ~Placed(sq, ops, cq, d.res)
    BY <1>2, <1>3, <1>4 DEF Inv, TypeInv
  <2>2. /\ Append(cq, d) \in Seq(Completions)
        /\ Unique(sq, ops \ {d.ctx}, Append(cq, d))
        /\ \A fd : Placed(sq, ops \ {d.ctx}, Append(cq, d), fd)
                     <=> Placed(sq, ops, cq, fd) \/ (Arrival(d) /\ fd = d.res)
    BY <1>2, <1>3, <2>1, CompleteOne, Zenon
  <2>3. sq' = sq
    BY <1>3, Zenon
  <2> QED
    BY <1>2, <1>3, <2>2, <2>3, Zenon
<1>6. \A i \in DOMAIN cq' : ~cq'[i].ok => failures' > 0
  <2>1. cq \in Seq(Completions) /\ \A i \in DOMAIN cq : ~cq[i].ok => failures > 0
    BY <1>3 DEF TypeInv
  <2>2. \A i \in DOMAIN cq' : (i \in DOMAIN cq /\ cq'[i] = cq[i]) \/ cq'[i] = d
    BY <1>2, <1>3, <2>1
  <2> QED
    BY <1>1, <1>2, <2>1, <2>2
<1>7. TypeInv'
  <2>1. inbox' \in [Fds -> Seq(Nat)] /\ sent' \in [Fds -> Nat]
    BY <1>1, <1>3 DEF TypeInv
  <2> QED
    BY <1>1, <1>3, <1>5, <1>6, <2>1 DEF TypeInv
<1> QED
  BY <1>1, <1>3, <1>5, <1>7 DEF Inv, Kept, Abandoned

\* The network and the clients touch none of the places.
LEMMA Elsewhere ==
  ASSUME Inv, UNCHANGED <<sq, ops, cq, open, lost, failures>>,
         inbox' \in [Fds -> Seq(Nat)], sent' \in [Fds -> Nat]
  PROVE  Inv'
BY DEF Inv, TypeInv, Kept, Abandoned

\* KernelRecv: the bytes of a recv, or the end of the connection.
LEMMA Received ==
  ASSUME Inv, NEW fd \in Fds, KernelRecv(fd)
  PROVE  Inv'
<1>1. inbox \in [Fds -> Seq(Nat)] /\ Reader(fd) \in Contexts /\ Reader(fd).type = "RECV"
  BY ContextsMade DEF Inv, TypeInv, Reader
<1>2. UNCHANGED <<open, failures, sent>>
  BY DEF KernelRecv
<1>3. \A data \in Seq(Nat) :
        /\ [ctx |-> Reader(fd), ok |-> TRUE, res |-> data] \in Completions
        /\ ~Arrival([ctx |-> Reader(fd), ok |-> TRUE, res |-> data])
  BY <1>1 DEF Completions, Arrival, Acceptor, Reader
<1>4. CASE \E n \in 1..Len(inbox[fd]) :
             /\ Complete(Reader(fd), TRUE, SubSeq(inbox[fd], 1, n))
             /\ inbox' = [inbox EXCEPT ![fd] = SubSeq(@, n + 1, Len(@))]
  <2>1. PICK n \in 1..Len(inbox[fd]) :
             /\ Complete(Reader(fd), TRUE, SubSeq(inbox[fd], 1, n))
             /\ inbox' = [inbox EXCEPT ![fd] = SubSeq(inbox[fd], n + 1, Len(inbox[fd]))]
    BY <1>4
  <2>2. /\ SubSeq(inbox[fd], 1, n) \in Seq(Nat)
        /\ SubSeq(inbox[fd], n + 1, Len(inbox[fd])) \in Seq(Nat)
    BY <1>1
  <2>3. inbox' \in [Fds -> Seq(Nat)]
    BY <1>1, <2>1, <2>2
  <2> QED
    BY <1>2, <1>3, <2>1, <2>2, <2>3, Completes
<1>5. CASE Complete(Reader(fd), TRUE, <<>>) /\ UNCHANGED inbox
  <2>1. <<>> \in Seq(Nat)
    OBVIOUS
  <2> QED
    BY <1>1, <1>2, <1>3, <1>5, <2>1, Completes
<1> QED
  BY <1>4, <1>5 DEF KernelRecv

\* KernelSend: a send of the whole buffer or a part of it.
LEMMA Transmitted ==
  ASSUME Inv, NEW fd \in Fds, KernelSend(fd)
  PROVE  Inv'
<1>1. PICK ctx \in ops : ctx.type = "SEND" /\ ctx.fd = fd
             /\ \E n \in 1..Len(ctx.data) : Complete(ctx, TRUE, SubSeq(ctx.data, 1, n))
  BY DEF KernelSend
<1>2. PICK n \in 1..Len(ctx.data) : Complete(ctx, TRUE, SubSeq(ctx.data, 1, n))
  BY <1>1
<1>3. ctx \in Contexts /\ ctx.data \in Seq(Nat)
  BY DEF Inv, TypeInv, Contexts
<1>4. SubSeq(ctx.data, 1, n) \in Seq(Nat)
  BY <1>3
<1>5. /\ [ctx |-> ctx, ok |-> TRUE, res |-> SubSeq(ctx.data, 1, n)] \in Completions
      /\ ~Arrival([ctx |-> ctx, ok |-> TRUE, res |-> SubSeq(ctx.data, 1, n)])
  BY <1>1, <1>3, <1>4 DEF Completions, Arrival, Acceptor
<1>6. UNCHANGED <<open, failures, sent, inbox>> /\ inbox \in [Fds -> Seq(Nat)]
  BY DEF KernelSend, Inv, TypeInv
<1> QED
  BY <1>2, <1>5, <1>6, Completes

\* KernelError: any operation may fail, the acceptor too.
LEMMA OperationFailed == Inv /\ KernelError => Inv'
<1> SUFFICES ASSUME Inv, KernelError PROVE Inv'
  OBVIOUS
<1>1. PICK ctx \in ops : Complete(ctx, FALSE, <<>>)
  BY DEF KernelError
<1>2. <<>> \in Seq(Nat) /\ ctx \in Contexts
  BY DEF Inv, TypeInv
<1>3. /\ [ctx |-> ctx, ok |-> FALSE, res |-> <<>>] \in Completions
      /\ ~Arrival([ctx |-> ctx, ok |-> FALSE, res |-> <<>>])
  BY <1>2 DEF Completions, Arrival
<1>4. /\ failures' = failures + 1 /\ UNCHANGED <<open, inbox, sent>>
      /\ inbox \in [Fds -> Seq(Nat)]
  BY DEF KernelError, clientVars, Inv, TypeInv
<1> QED
  BY <1>1, <1>3, <1>4, Completes

---------------------------------------------------------------------------
(* The invariant holds initially and in every step.                            *)

\* main starts with the acceptor submitted and no connection.
LEMMA InitInv == Init => Inv
<1> SUFFICES ASSUME Init PROVE Inv
  OBVIOUS
<1>1. DOMAIN sq = {} /\ DOMAIN cq = {} /\ Len(sq) = 0 /\ ops = {Acceptor}
      /\ sq \in Seq(Contexts) /\ cq \in Seq(Completions)
  BY DEF Init
<1>2. TypeInv
  BY <1>1, ContextsMade, ServerAssumption DEF Init, TypeInv
<1>3. Unique(sq, ops, cq)
  BY <1>1 DEF Unique, Completed
<1>4. \A fd : Placed(sq, ops, cq, fd) <=> fd = -1
  BY <1>1 DEF Placed, Queued, Kernels, Completed, Arrives, Acceptor
<1>5. open = {}
  BY DEF Init
<1> QED
  BY <1>2, <1>3, <1>4, <1>5, ServerAssumption DEF Inv, Kept

\* The steps of the loop of main.
LEMMA ServerStep == Inv /\ Server => Inv'
<1> SUFFICES ASSUME Inv, Server PROVE Inv'
  OBVIOUS
<1>1. TypeInv /\ inbox \in [Fds -> Seq(Nat)] /\ sent \in [Fds -> Nat]
  BY DEF Inv, TypeInv
<1>2. CASE WaitCqes \/ EndBatch
  BY <1>1, <1>2, Elsewhere DEF WaitCqes, EndBatch, clientVars, ringVars
<1>3. CASE HandleError
  <2>1. /\ cq # <<>> /\ cq' = Tail(cq) /\ UNCHANGED <<sq, ops, lost, failures, inbox, sent>>
        /\ ~Arrival(Head(cq)) /\ ~Head(cq).ok /\ open' = open \ {Head(cq).ctx.fd}
    BY <1>3 DEF HandleError, clientVars, Arrival
  <2>2. failures > 0
    BY <2>1, FirstCompletion
  <2> QED
    BY <2>1, <2>2, Closes
<1>4. CASE HandleAccept
  BY <1>4, Accepts
<1>5. CASE HandleClosed
  <2>1. /\ cq # <<>> /\ cq' = Tail(cq) /\ UNCHANGED <<sq, ops, lost, failures, inbox, sent>>
        /\ Head(cq).ctx.type = "RECV" /\ open' = open \ {Head(cq).ctx.fd}
    BY <1>5 DEF HandleClosed, Completion, clientVars
  <2>2. ~Arrival(Head(cq)) /\ Head(cq).ctx.fd \in Fds
    BY <2>1, FirstCompletion DEF Arrival, Acceptor, Completions, Contexts
  <2> QED
    BY <2>1, <2>2, Closes
<1>6. CASE HandleRecv
  <2> DEFINE x == Sender(Head(cq).ctx.fd, Head(cq).res)
  <2>1. /\ cq # <<>> /\ cq' = Tail(cq) /\ UNCHANGED <<ops, open, failures, inbox, sent>>
        /\ Head(cq).ctx.type = "RECV" /\ setEvents(<<x>>)
    BY <1>6 DEF HandleRecv, Completion, clientVars
  <2>2. ~Arrival(Head(cq)) /\ Head(cq).ctx.fd \in Fds /\ Head(cq).res \in Seq(Nat)
    BY <2>1, FirstCompletion DEF Arrival, Acceptor, Completions, Contexts
  <2>3. x \in Contexts /\ x.fd = Head(cq).ctx.fd
    BY <2>2, ContextsMade DEF Sender
  <2> QED
    BY <2>1, <2>2, <2>3, NextOperation
<1>7. CASE HandleSend
  <2> DEFINE x == Reader(Head(cq).ctx.fd)
  <2>1. /\ cq # <<>> /\ cq' = Tail(cq) /\ UNCHANGED <<ops, open, failures, inbox, sent>>
        /\ Head(cq).ctx.type = "SEND" /\ setEvents(<<x>>)
    BY <1>7 DEF HandleSend, Completion, clientVars
  <2>2. ~Arrival(Head(cq)) /\ Head(cq).ctx.fd \in Fds
    BY <2>1, FirstCompletion DEF Arrival, Acceptor, Completions, Contexts
  <2>3. x \in Contexts /\ x.fd = Head(cq).ctx.fd
    BY <2>2, ContextsMade DEF Reader
  <2> QED
    BY <2>1, <2>2, <2>3, NextOperation
<1>8. CASE Submit
  <2>1. /\ sq' = <<>> /\ ops' = ops \cup ToSet(sq)
        /\ UNCHANGED <<cq, open, lost, failures, inbox, sent>>
    BY <1>8 DEF Submit, clientVars
  <2>2. /\ Unique(sq', ops', cq')
        /\ \A fd : Placed(sq', ops', cq', fd) <=> Placed(sq, ops, cq, fd)
    BY <1>1, <2>1, SubmitAll DEF Inv, TypeInv
  <2>3. ToSet(sq) \subseteq Contexts
    BY <1>1 DEF TypeInv, ToSet
  <2>4. <<>> \in Seq(Contexts) /\ Len(<<>>) = 0
    OBVIOUS
  <2>5. TypeInv'
    BY <1>1, <2>1, <2>3, <2>4, ServerAssumption DEF TypeInv
  <2> QED
    BY <2>1, <2>2, <2>5 DEF Inv, Kept, Abandoned
<1> QED
  BY <1>2, <1>3, <1>4, <1>5, <1>6, <1>7, <1>8 DEF Server

\* Every step of the server, the kernel and the clients.
LEMMA NextInv == Inv /\ [Next]_vars => Inv'
<1> SUFFICES ASSUME Inv, [Next]_vars PROVE Inv'
  OBVIOUS
<1>1. inbox \in [Fds -> Seq(Nat)] /\ sent \in [Fds -> Nat]
  BY DEF Inv, TypeInv
<1>2. CASE Server
  BY <1>2, ServerStep
<1>3. CASE KernelAccept \/ KernelError
  BY <1>3, Connected, OperationFailed
<1>4. ASSUME NEW fd \in Fds, Kernel(fd) PROVE Inv'
  BY <1>4, Received, Transmitted DEF Kernel
<1>5. ASSUME NEW fd \in Fds, ClientSend(fd) PROVE Inv'
  <2>1. /\ UNCHANGED <<sq, ops, cq, open, lost, failures>>
        /\ inbox' = [inbox EXCEPT ![fd] = Append(inbox[fd], sent[fd] + 1)]
        /\ sent' = [sent EXCEPT ![fd] = sent[fd] + 1]
    BY <1>5 DEF ClientSend, ringVars
  <2>2. sent[fd] + 1 \in Nat /\ Append(inbox[fd], sent[fd] + 1) \in Seq(Nat)
    BY <1>1
  <2> QED
    BY <1>1, <2>1, <2>2, Elsewhere
<1>6. ASSUME NEW fd \in Fds, ClientClose(fd) PROVE Inv'
  BY <1>1, <1>6, Elsewhere DEF ClientClose, ringVars
<1>7. CASE Connect
  BY <1>1, <1>7, Elsewhere DEF Connect, ringVars
<1>8. CASE UNCHANGED vars
  BY <1>1, <1>8, Elsewhere DEF vars
<1> QED
  BY <1>2, <1>3, <1>4, <1>5, <1>6, <1>7, <1>8 DEF Next

---------------------------------------------------------------------------
(* From the places to the numbers of operations.                               *)

\* A set whose elements are all equal has at most one.
LEMMA AtMostOne ==
  ASSUME NEW X, \A x, y \in X : x = y
  PROVE  Cardinality(X) = IF X = {} THEN 0 ELSE 1
<1>1. CASE X = {}
  BY <1>1, FS_EmptySet
<1>2. CASE X # {}
  <2>1. PICK x \in X : TRUE
    BY <1>2
  <2>2. X = {x}
    BY <2>1
  <2> QED
    BY <1>2, <2>2, FS_Singleton
<1> QED
  BY <1>1, <1>2

\* Under the invariant a descriptor has one operation or none.
LEMMA Counted ==
  ASSUME Inv, NEW fd
  PROVE  /\ InFlight(fd) \in {0, 1}
         /\ InFlight(fd) = 1 <=> Queued(sq, fd) \/ Kernels(ops, fd) \/ Completed(cq, fd)
<1> DEFINE Q == {i \in DOMAIN sq : sq[i].fd = fd}
           K == {c \in ops : c.fd = fd}
           C == {i \in DOMAIN cq : cq[i].ctx.fd = fd}
<1>1. (Q # {} <=> Queued(sq, fd)) /\ (K # {} <=> Kernels(ops, fd)) /\ (C # {} <=> Completed(cq, fd))
  BY DEF Queued, Kernels, Completed
<1>2. (\A x, y \in Q : x = y) /\ (\A x, y \in K : x = y) /\ (\A x, y \in C : x = y)
  BY DEF Inv, Unique
<1>3. ~(Queued(sq, fd) /\ Kernels(ops, fd)) /\ ~(Queued(sq, fd) /\ Completed(cq, fd))
      /\ ~(Kernels(ops, fd) /\ Completed(cq, fd))
  BY DEF Inv, Unique, Queued, Kernels
<1>4. InFlight(fd) = Cardinality(Q) + Cardinality(K) + Cardinality(C)
  BY DEF InFlight
<1> HIDE DEF Q, K, C
<1>5. /\ Cardinality(Q) = IF Q = {} THEN 0 ELSE 1
      /\ Cardinality(K) = IF K = {} THEN 0 ELSE 1
      /\ Cardinality(C) = IF C = {} THEN 0 ELSE 1
  BY <1>2, AtMostOne
<1> QED
  BY <1>1, <1>3, <1>4, <1>5

\* One place per descriptor gives the counts that OneOpEach speaks of.
LEMMA InvImplies == Inv => OneOpEach
<1> SUFFICES ASSUME Inv PROVE OneOpEach
  OBVIOUS
<1>1. \A fd : fd \in Arriving <=> Arrives(cq, fd)
  BY DEF Arriving, ToSet, Arrives, Arrival
<1>2. \A fd : Arrives(cq, fd) => ~Queued(sq, fd) /\ ~Kernels(ops, fd) /\ ~Completed(cq, fd)
  BY DEF Inv, Unique, Arrives
<1>3. ~Arrives(cq, -1)
  BY ServerAssumption DEF Inv, TypeInv, Arrives, Completions
<1>4. Acceptors <= 1 /\ (Acceptors = 1 \/ failures > 0 \/ -1 \in Abandoned)
  BY <1>3, Counted DEF Acceptors, Inv, Kept, Placed
<1>5. ASSUME NEW fd \in Fds
      PROVE  LET n == InFlight(fd) + (IF fd \in Arriving THEN 1 ELSE 0) IN
             /\ n <= (IF fd \in open THEN 1 ELSE 0)
             /\ fd \in open \ Abandoned => n = 1
  <2> DEFINE n == InFlight(fd) + (IF fd \in Arriving THEN 1 ELSE 0)
  <2>1. n \in {0, 1} /\ (n = 1 <=> Placed(sq, ops, cq, fd))
    BY <1>1, <1>2, Counted DEF Placed
  <2>2. (Placed(sq, ops, cq, fd) => fd \in open) /\ (fd \in open \ Abandoned => Placed(sq, ops, cq, fd))
    BY DEF Inv, Kept
  <2> QED
    BY <2>1, <2>2
<1> QED
  BY <1>4, <1>5 DEF OneOpEach

\* main of ioURingServer: a connection never has two operations at once and never
\* none while it is open, unless io_uring_get_sqe had no entry left; the acceptor
\* likewise.  For every number of descriptors and every queue size.
THEOREM OneOperationEach == Spec => []OneOpEach
<1>1. Init => Inv
  BY InitInv
<1>2. Inv /\ [Next]_vars => Inv'
  BY NextInv
<1>3. Inv => OneOpEach
  BY InvImplies
<1> QED
  BY <1>1, <1>2, <1>3, PTL DEF Spec

---------------------------------------------------------------------------
(* No byte is lost.  The bytes of a connection are on one line: what came back, *)
(* what the server has in hand, what it has not received.                      *)

\* Concatenation, by what the lemmas below say of it.
Cat(s, t) == s \o t

\* The operations hold the bytes d of connection fd.
Holds(q, o, c, fd, d) ==
  \/ \E i \in DOMAIN c : c[i].ctx = Reader(fd) /\ c[i].res = d
  \/ \E i \in DOMAIN q : q[i].type = "SEND" /\ q[i].fd = fd /\ q[i].data = d
  \/ \E x \in o : x.type = "SEND" /\ x.fd = fd /\ x.data = d

Hand(fd) == IF InHand(fd) = {} THEN <<>> ELSE CHOOSE d \in InHand(fd) : TRUE
Line(fd) == Cat(Cat(echoed[fd], Hand(fd)), inbox[fd])

Up(s) == \A i, j \in DOMAIN s : i < j => s[i] < s[j]
Under(s, n) == \A i \in DOMAIN s : s[i] <= n
Below(s, t) == \A i \in DOMAIN s, j \in DOMAIN t : s[i] < t[j]

\* The bytes on the line are in order whatever happened, and all there unless
\* something went wrong; what came back before the connection was closed stays.
Bytes(fd) ==
  /\ Up(echoed[fd])
  /\ fd \in open => Up(Line(fd)) /\ Under(Line(fd), sent[fd])
  /\ fd \in open \ (cut \cup Abandoned) => Failed(fd) \/ Line(fd) = [i \in 1..sent[fd] |-> i]

ByteInv == Inv /\ echoed \in [Fds -> Seq(Nat)] /\ \A fd \in Fds : Bytes(fd)

\* Concatenation of sequences of bytes.
LEMMA CatBytes == \A s, t \in Seq(Nat) : Cat(s, t) \in Seq(Nat)
BY ConcatProperties DEF Cat

LEMMA CatRegroups == \A s, t, u \in Seq(Nat) : Cat(s, Cat(t, u)) = Cat(Cat(s, t), u)
<1> SUFFICES ASSUME NEW s \in Seq(Nat), NEW t \in Seq(Nat), NEW u \in Seq(Nat)
             PROVE  Cat(s, Cat(t, u)) = Cat(Cat(s, t), u)
  OBVIOUS
<1>1. PICK S : S = Nat
  OBVIOUS
<1>2. s \in Seq(S) /\ t \in Seq(S) /\ u \in Seq(S)
  BY <1>1
<1>3. (s \o t) \o u = s \o (t \o u)
  BY <1>2, SMTT(30)
<1> QED
  BY <1>3, Zenon DEF Cat

LEMMA CatEmpty == \A s \in Seq(Nat) : Cat(s, <<>>) = s
BY ConcatEmptySeq DEF Cat

\* The elements of a concatenation are those of its parts.
LEMMA CatAt ==
  ASSUME NEW s \in Seq(Nat), NEW t \in Seq(Nat)
  PROVE  /\ \A i \in DOMAIN s : i \in DOMAIN Cat(s, t) /\ Cat(s, t)[i] = s[i]
         /\ \A j \in DOMAIN t : Len(s) + j \in DOMAIN Cat(s, t) /\ Cat(s, t)[Len(s) + j] = t[j]
         /\ \A k \in DOMAIN Cat(s, t) : k \in DOMAIN s \/ \E j \in DOMAIN t : k = Len(s) + j
<1> DEFINE r == Cat(s, t)
<1>1. /\ DOMAIN s = 1..Len(s) /\ DOMAIN t = 1..Len(t) /\ Len(s) \in Nat /\ Len(t) \in Nat
  OBVIOUS
<1>2. /\ r \in Seq(Nat) /\ Len(r) = Len(s) + Len(t)
      /\ \A k \in 1..(Len(s) + Len(t)) : r[k] = IF k <= Len(s) THEN s[k] ELSE t[k - Len(s)]
  BY ConcatProperties DEF Cat
<1>3. DOMAIN r = 1..(Len(s) + Len(t))
  BY <1>2
<1> HIDE DEF r
<1>4. ASSUME NEW j \in DOMAIN t PROVE Len(s) + j \in DOMAIN r /\ r[Len(s) + j] = t[j]
  <2>1. Len(s) + j \in 1..(Len(s) + Len(t)) /\ ~(Len(s) + j <= Len(s)) /\ (Len(s) + j) - Len(s) = j
    BY <1>1
  <2> QED
    BY <1>2, <1>3, <2>1
<1>5. ASSUME NEW k \in DOMAIN r PROVE k \in DOMAIN s \/ \E j \in DOMAIN t : k = Len(s) + j
  <2>1. k \in 1..Len(s) \/ (k - Len(s) \in 1..Len(t) /\ k = Len(s) + (k - Len(s)))
    BY <1>1, <1>3
  <2> QED
    BY <1>1, <2>1
<1>6. \A i \in DOMAIN s : i \in DOMAIN r /\ r[i] = s[i]
  BY <1>1, <1>2, <1>3
<1> QED
  BY <1>4, <1>5, <1>6 DEF r

\* A concatenation is in order when its parts are and one is below the other.
LEMMA UpCat ==
  ASSUME NEW s \in Seq(Nat), NEW t \in Seq(Nat)
  PROVE  Up(Cat(s, t)) <=> Up(s) /\ Up(t) /\ Below(s, t)
<1> DEFINE r == Cat(s, t)
<1>1. /\ DOMAIN s = 1..Len(s) /\ DOMAIN t = 1..Len(t) /\ Len(s) \in Nat /\ Len(t) \in Nat
      /\ \A i \in DOMAIN s : s[i] \in Nat
      /\ \A i \in DOMAIN t : t[i] \in Nat
  OBVIOUS
<1>2. /\ \A i \in DOMAIN s : i \in DOMAIN r /\ r[i] = s[i]
      /\ \A j \in DOMAIN t : Len(s) + j \in DOMAIN r /\ r[Len(s) + j] = t[j]
      /\ \A k \in DOMAIN r : k \in DOMAIN s \/ \E j \in DOMAIN t : k = Len(s) + j
  BY CatAt
<1> HIDE DEF r
<1>3. ASSUME Up(r) PROVE Up(s) /\ Up(t) /\ Below(s, t)
  <2>1. Up(s)
    BY <1>2, <1>3 DEF Up
  <2>2. ASSUME NEW i \in DOMAIN t, NEW j \in DOMAIN t, i < j PROVE t[i] < t[j]
    <3>1. Len(s) + i < Len(s) + j
      BY <1>1, <2>2
    <3> QED
      BY <1>2, <1>3, <3>1 DEF Up
  <2>3. ASSUME NEW i \in DOMAIN s, NEW j \in DOMAIN t PROVE s[i] < t[j]
    <3>1. i < Len(s) + j
      BY <1>1
    <3> QED
      BY <1>2, <1>3, <3>1 DEF Up
  <2> QED
    BY <2>1, <2>2, <2>3 DEF Up, Below
<1>4. ASSUME Up(s), Up(t), Below(s, t) PROVE Up(r)
  <2> SUFFICES ASSUME NEW i \in DOMAIN r, NEW j \in DOMAIN r, i < j PROVE r[i] < r[j]
    BY DEF Up
  <2>1. CASE i \in DOMAIN s /\ j \in DOMAIN s
    BY <1>2, <1>4, <2>1 DEF Up
  <2>2. CASE i \in DOMAIN s /\ \E m \in DOMAIN t : j = Len(s) + m
    BY <1>2, <1>4, <2>2 DEF Below
  <2>3. ASSUME NEW n \in DOMAIN t, i = Len(s) + n, NEW m \in DOMAIN t, j = Len(s) + m
        PROVE  r[i] < r[j]
    <3>1. n < m
      BY <1>1, <2>3
    <3> QED
      BY <1>2, <1>4, <2>3, <3>1 DEF Up
  <2>4. ~((\E n \in DOMAIN t : i = Len(s) + n) /\ j \in DOMAIN s)
    BY <1>1
  <2> QED
    BY <1>2, <2>1, <2>2, <2>3, <2>4
<1> QED
  BY <1>3, <1>4 DEF r

\* Bounds of a concatenation.
LEMMA BoundsCat ==
  ASSUME NEW s \in Seq(Nat), NEW t \in Seq(Nat)
  PROVE  /\ \A n : Under(Cat(s, t), n) <=> Under(s, n) /\ Under(t, n)
         /\ \A u : Below(Cat(s, t), u) <=> Below(s, u) /\ Below(t, u)
<1> DEFINE r == Cat(s, t)
<1>1. /\ \A i \in DOMAIN s : i \in DOMAIN r /\ r[i] = s[i]
      /\ \A j \in DOMAIN t : Len(s) + j \in DOMAIN r /\ r[Len(s) + j] = t[j]
      /\ \A k \in DOMAIN r : k \in DOMAIN s \/ \E j \in DOMAIN t : k = Len(s) + j
  BY CatAt
<1> HIDE DEF r
<1>2. \A n : Under(r, n) <=> Under(s, n) /\ Under(t, n)
  BY <1>1 DEF Under
<1>3. \A u : Below(r, u) <=> Below(s, u) /\ Below(t, u)
  BY <1>1 DEF Below
<1> QED
  BY <1>2, <1>3 DEF r

\* What is in order stays in order when a block in the middle goes.
LEMMA BlockGone ==
  ASSUME NEW p \in Seq(Nat), NEW y \in Seq(Nat), NEW b \in Seq(Nat), NEW n,
         Up(Cat(Cat(p, y), b)), Under(Cat(Cat(p, y), b), n)
  PROVE  Up(Cat(p, b)) /\ Under(Cat(p, b), n)
<1>1. Cat(p, y) \in Seq(Nat)
  BY CatBytes
<1>2. /\ Up(Cat(p, y)) /\ Up(b) /\ Below(Cat(p, y), b)
      /\ Under(Cat(p, y), n) /\ Under(b, n)
  BY <1>1, UpCat, BoundsCat
<1>3. Up(p) /\ Below(p, b) /\ Under(p, n)
  BY <1>2, UpCat, BoundsCat
<1> QED
  BY <1>2, <1>3, UpCat, BoundsCat

\* The bytes 1 .. n and the next one.
LEMMA OneMore ==
  ASSUME NEW n \in Nat
  PROVE  Cat([i \in 1..n |-> i], <<n + 1>>) = [i \in 1..(n + 1) |-> i]
<1> DEFINE s == [i \in 1..n |-> i]
           t == [i \in 1..(n + 1) |-> i]
<1>1. s \in Seq(Nat) /\ t \in Seq(Nat) /\ Len(s) = n /\ Len(t) = n + 1 /\ <<n + 1>> \in Seq(Nat)
  OBVIOUS
<1>2. \A i \in 1..n : s[i] = i
  OBVIOUS
<1>3. \A i \in 1..(n + 1) : t[i] = i
  OBVIOUS
<1> HIDE DEF s, t
<1>4. /\ s \o <<n + 1>> \in Seq(Nat) /\ Len(s \o <<n + 1>>) = n + 1
      /\ \A i \in 1..(n + 1) : (s \o <<n + 1>>)[i] = IF i <= n THEN s[i] ELSE <<n + 1>>[i - n]
  BY <1>1, ConcatProperties
<1>5. \A i \in 1..(n + 1) : (s \o <<n + 1>>)[i] = t[i]
  BY <1>2, <1>3, <1>4
<1>6. s \o <<n + 1>> = t
  BY <1>1, <1>4, <1>5, SeqEqual
<1> QED
  BY <1>6 DEF s, t, Cat

\* What recv and send take of the bytes there are.
LEMMA SplitBytes ==
  ASSUME NEW q \in Seq(Nat), NEW n \in 1..Len(q)
  PROVE  /\ SubSeq(q, 1, n) \in Seq(Nat) /\ SubSeq(q, n + 1, Len(q)) \in Seq(Nat)
         /\ q = Cat(SubSeq(q, 1, n), SubSeq(q, n + 1, Len(q)))
         /\ n = Len(q) => SubSeq(q, n + 1, Len(q)) = <<>>
<1> DEFINE x == SubSeq(q, 1, n)
           y == SubSeq(q, n + 1, Len(q))
<1>1. /\ x \in Seq(Nat) /\ Len(x) = n /\ \A i \in 1..n : x[i] = q[i]
  BY SubSeqProperties
<1>2. /\ y \in Seq(Nat) /\ Len(y) = Len(q) - n /\ \A i \in 1..(Len(q) - n) : y[i] = q[n + i]
  BY SubSeqProperties
<1>3. Len(q) \in Nat
  OBVIOUS
<1> HIDE DEF x, y
<1>4. /\ x \o y \in Seq(Nat) /\ Len(x \o y) = Len(q)
      /\ \A i \in 1..Len(q) : (x \o y)[i] = IF i <= n THEN x[i] ELSE y[i - n]
  <2>1. Len(x) + Len(y) = Len(q)
    BY <1>1, <1>2, <1>3
  <2>2. /\ x \o y \in Seq(Nat) /\ Len(x \o y) = Len(x) + Len(y)
        /\ \A i \in 1..(Len(x) + Len(y)) : (x \o y)[i] = IF i <= Len(x) THEN x[i] ELSE y[i - Len(x)]
    BY <1>1, <1>2, ConcatProperties
  <2> QED
    BY <1>1, <2>1, <2>2
<1>5. ASSUME NEW i \in 1..Len(q) PROVE (x \o y)[i] = q[i]
  <2>1. CASE i <= n
    BY <1>1, <1>4, <2>1
  <2>2. CASE ~(i <= n)
    <3>1. i - n \in 1..(Len(q) - n) /\ n + (i - n) = i
      BY <1>3, <2>2
    <3> QED
      BY <1>2, <1>4, <2>2, <3>1
  <2> QED
    BY <2>1, <2>2
<1>6. x \o y = q
  BY <1>4, <1>5, SeqEqual
<1>7. n = Len(q) => y = <<>>
  BY <1>2, <1>3
<1> QED
  BY <1>1, <1>2, <1>6, <1>7 DEF x, y, Cat

\* What is in hand is what the operations hold, and that is one thing or none.
LEMMA HandHeld ==
  /\ \A fd, d : d \in InHand(fd) <=> Holds(sq, ops, cq, fd, d)
  /\ \A fd, d : Holds(sq, ops, cq, fd, d) => Placed(sq, ops, cq, fd)
<1>1. \A fd, d : d \in InHand(fd) <=> Holds(sq, ops, cq, fd, d)
  BY DEF InHand, Holds, ToSet
<1>2. \A fd, d : Holds(sq, ops, cq, fd, d) => Placed(sq, ops, cq, fd)
  BY DEF Holds, Placed, Queued, Kernels, Completed, Reader
<1> QED
  BY <1>1, <1>2

LEMMA HoldsOne ==
  ASSUME Inv, NEW fd, NEW d, Holds(sq, ops, cq, fd, d)
  PROVE  Hand(fd) = d
<1>1. \A e : Holds(sq, ops, cq, fd, e) => e = d
  <2> DEFINE AtC(e) == \E i \in DOMAIN cq : cq[i].ctx = Reader(fd) /\ cq[i].res = e
             AtQ(e) == \E i \in DOMAIN sq : sq[i].type = "SEND" /\ sq[i].fd = fd /\ sq[i].data = e
             AtO(e) == \E x \in ops : x.type = "SEND" /\ x.fd = fd /\ x.data = e
  <2>1. \A e : Holds(sq, ops, cq, fd, e) <=> AtC(e) \/ AtQ(e) \/ AtO(e)
    BY DEF Holds
  <2>2. \A e : /\ AtC(e) => Completed(cq, fd)
               /\ AtQ(e) => Queued(sq, fd)
               /\ AtO(e) => Kernels(ops, fd)
    BY DEF Completed, Queued, Kernels, Reader
  <2>3. /\ ~(Completed(cq, fd) /\ Queued(sq, fd)) /\ ~(Completed(cq, fd) /\ Kernels(ops, fd))
        /\ ~(Queued(sq, fd) /\ Kernels(ops, fd))
    BY DEF Inv, Unique, Queued, Kernels
  <2>4. \A e : (AtC(e) /\ AtC(d) => e = d) /\ (AtQ(e) /\ AtQ(d) => e = d) /\ (AtO(e) /\ AtO(d) => e = d)
    BY DEF Inv, Unique, Reader
  <2> HIDE DEF AtC, AtQ, AtO
  <2> QED
    BY <2>1, <2>2, <2>3, <2>4
<1>2. InHand(fd) = {d}
  BY <1>1, HandHeld
<1> QED
  BY <1>2 DEF Hand

LEMMA HoldsNone ==
  ASSUME NEW fd, \A d : ~Holds(sq, ops, cq, fd, d)
  PROVE  Hand(fd) = <<>>
BY HandHeld DEF Hand

\* What is in hand is a sequence of bytes.
LEMMA HandTyped ==
  ASSUME Inv, NEW fd \in Fds
  PROVE  Hand(fd) \in Seq(Nat)
<1>1. \A d : Holds(sq, ops, cq, fd, d) => d \in Seq(Nat)
  <2>1. \A i \in DOMAIN cq : cq[i] \in Completions
    BY DEF Inv, TypeInv
  <2>2. (\A i \in DOMAIN sq : sq[i] \in Contexts) /\ \A x \in ops : x \in Contexts
    BY DEF Inv, TypeInv
  <2>3. \A i \in DOMAIN cq : cq[i].ctx = Reader(fd) => cq[i].res \in Seq(Nat)
    BY <2>1 DEF Completions, Reader
  <2>4. \A x \in Contexts : x.data \in Seq(Nat)
    BY DEF Contexts
  <2> QED
    BY <2>2, <2>3, <2>4 DEF Holds
<1>2. CASE \E d : Holds(sq, ops, cq, fd, d)
  BY <1>1, <1>2, HoldsOne
<1>3. CASE ~\E d : Holds(sq, ops, cq, fd, d)
  <2>1. Hand(fd) = <<>>
    BY <1>3, HoldsNone
  <2> QED
    BY <2>1
<1> QED
  BY <1>2, <1>3

\* Nothing else holds bytes after a step than before.
LEMMA SameHand ==
  ASSUME NEW fd, \A d : Holds(sq, ops, cq, fd, d)' <=> Holds(sq, ops, cq, fd, d)
  PROVE  Hand(fd)' = Hand(fd)
<1>1. \A d : d \in InHand(fd)' <=> Holds(sq, ops, cq, fd, d)'
  BY DEF InHand, Holds, ToSet, Reader
<1>2. InHand(fd)' = InHand(fd)
  BY <1>1, HandHeld
<1> QED
  BY <1>2 DEF Hand

\* A step that keeps the line of a connection.
LEMMA LineKept ==
  ASSUME NEW fd \in Fds, Bytes(fd), Up(echoed'[fd]), Line(fd)' = Line(fd), sent'[fd] = sent[fd],
         Failed(fd) => Failed(fd)', fd \in open' => fd \in open, fd \in cut => fd \in cut',
         lost \subseteq lost'
  PROVE  Bytes(fd)'
<1>1. Abandoned \subseteq Abandoned'
  BY DEF Abandoned
<1> QED
  BY <1>1 DEF Bytes, Up, Under

\* A step that does not touch the connection.
LEMMA Untouched ==
  ASSUME NEW fd \in Fds, Bytes(fd),
         \A d : Holds(sq, ops, cq, fd, d)' <=> Holds(sq, ops, cq, fd, d),
         UNCHANGED <<echoed[fd], inbox[fd], sent[fd]>>,
         Failed(fd) => Failed(fd)', fd \in open' => fd \in open, fd \in cut => fd \in cut',
         lost \subseteq lost'
  PROVE  Bytes(fd)'
<1>1. Hand(fd)' = Hand(fd)
  BY SameHand
<1>2. Line(fd)' = Line(fd) /\ Up(echoed'[fd])
  BY <1>1 DEF Line, Bytes, Up
<1> QED
  BY <1>2, LineKept

\* A step that drops a block of the line: the send is short, fails or is not queued.
LEMMA LineShrinks ==
  ASSUME NEW fd \in Fds, Bytes(fd), fd \in open, Up(echoed'[fd]), sent'[fd] = sent[fd],
         NEW p \in Seq(Nat), NEW y \in Seq(Nat), NEW b \in Seq(Nat),
         Line(fd) = Cat(Cat(p, y), b), Line(fd)' = Cat(p, b),
         fd \in cut' \cup Abandoned' \/ Failed(fd)'
  PROVE  Bytes(fd)'
<1>1. Up(Line(fd)) /\ Under(Line(fd), sent[fd])
  BY DEF Bytes
<1>2. Up(Cat(p, b)) /\ Under(Cat(p, b), sent[fd])
  BY <1>1, BlockGone
<1>3. Up(Line(fd)') /\ Under(Line(fd)', sent'[fd])
  BY <1>2
<1>4. Up(Line(fd))' /\ Under(Line(fd), sent[fd])'
  BY <1>3 DEF Up, Under
<1> QED
  BY <1>4 DEF Bytes, Up

\* The first completion goes, and contexts that hold no bytes of fd are queued.
LEMMA HandlesOther ==
  ASSUME Inv, NEW fd \in Fds, cq # <<>>, Head(cq).ctx # Reader(fd)
  PROVE  \A d : Holds(sq, ops, Tail(cq), fd, d) <=> Holds(sq, ops, cq, fd, d)
<1> DEFINE r == Tail(cq)
<1>1. /\ DOMAIN r = 1 .. Len(cq) - 1 /\ DOMAIN cq = 1 .. Len(cq) /\ Len(cq) \in Nat \ {0}
      /\ Head(cq) = cq[1]
  BY DEF Inv, TypeInv
<1>2. \A i \in DOMAIN r : i + 1 \in DOMAIN cq /\ r[i] = cq[i + 1]
  BY DEF Inv, TypeInv
<1>3. \A i \in DOMAIN cq : i = 1 \/ \E j \in DOMAIN r : i = j + 1
  <2> SUFFICES ASSUME NEW i \in DOMAIN cq, i # 1 PROVE \E j \in DOMAIN r : i = j + 1
    OBVIOUS
  <2>1. i - 1 \in DOMAIN r /\ i = (i - 1) + 1
    BY <1>1
  <2> QED
    BY <2>1
<1> HIDE DEF r
<1>4. \A d : (\E i \in DOMAIN r : r[i].ctx = Reader(fd) /\ r[i].res = d)
               <=> (\E i \in DOMAIN cq : cq[i].ctx = Reader(fd) /\ cq[i].res = d)
  BY <1>1, <1>2, <1>3
<1> QED
  BY <1>4 DEF Holds, r

LEMMA QueuesOther ==
  ASSUME NEW S, NEW q \in Seq(S), NEW o, NEW c, NEW x \in S, NEW fd,
         ~(x.type = "SEND" /\ x.fd = fd)
  PROVE  \A d : Holds(Append(q, x), o, c, fd, d) <=> Holds(q, o, c, fd, d)
<1> DEFINE r == Append(q, x)
<1>1. DOMAIN r = 1 .. Len(q) + 1 /\ DOMAIN q = 1 .. Len(q) /\ Len(q) \in Nat
  OBVIOUS
<1>2. r[Len(q) + 1] = x /\ \A i \in 1 .. Len(q) : r[i] = q[i]
  OBVIOUS
<1> HIDE DEF r
<1>3. \A d : (\E i \in DOMAIN r : r[i].type = "SEND" /\ r[i].fd = fd /\ r[i].data = d)
               <=> (\E i \in DOMAIN q : q[i].type = "SEND" /\ q[i].fd = fd /\ q[i].data = d)
  BY <1>1, <1>2
<1> QED
  BY <1>3 DEF Holds, r

\* An operation of another descriptor completes.
LEMMA CompletesOther ==
  ASSUME Inv, NEW ctx, NEW ok, NEW res, Complete(ctx, ok, res),
         [ctx |-> ctx, ok |-> ok, res |-> res] \in Completions, NEW fd, ctx.fd # fd
  PROVE  /\ \A d : Holds(sq, ops, cq, fd, d)' <=> Holds(sq, ops, cq, fd, d)
         /\ Failed(fd) => Failed(fd)'
<1> DEFINE e == [ctx |-> ctx, ok |-> ok, res |-> res]
<1>1. e.ctx.fd # fd /\ e.ctx # Reader(fd) /\ e \in Completions
  BY DEF Reader
<1>2. ops' = ops \ {e.ctx} /\ cq' = Append(cq, e) /\ sq' = sq
  BY DEF Complete
<1> HIDE DEF e
<1>3. DOMAIN cq' = 1 .. Len(cq) + 1 /\ DOMAIN cq = 1 .. Len(cq) /\ Len(cq) \in Nat
  BY <1>1, <1>2 DEF Inv, TypeInv
<1>4. cq'[Len(cq) + 1] = e /\ \A i \in 1 .. Len(cq) : cq'[i] = cq[i]
  BY <1>1, <1>2 DEF Inv, TypeInv
<1>5. \A d : (\E i \in DOMAIN cq' : cq'[i].ctx = Reader(fd) /\ cq'[i].res = d)
               <=> (\E i \in DOMAIN cq : cq[i].ctx = Reader(fd) /\ cq[i].res = d)
  BY <1>1, <1>3, <1>4
<1>6. \A d : (\E x \in ops' : x.type = "SEND" /\ x.fd = fd /\ x.data = d)
               <=> (\E x \in ops : x.type = "SEND" /\ x.fd = fd /\ x.data = d)
  BY <1>1, <1>2
<1>7. Failed(fd) => Failed(fd)'
  BY <1>3, <1>4 DEF Failed, ToSet
<1>8. \A d : Holds(sq', ops', cq', fd, d) <=> Holds(sq, ops, cq, fd, d)
  BY <1>2, <1>5, <1>6 DEF Holds
<1> QED
  BY <1>7, <1>8 DEF Holds, Reader

\* An operation of the descriptor itself completes: what it held before, what
\* its completion holds after, and a failure is there to be seen.
LEMMA OwnBefore ==
  ASSUME Inv, NEW ctx \in ops, ctx.fd \in Fds
  PROVE  /\ \A e : Holds(sq, ops, cq, ctx.fd, e) <=> ctx.type = "SEND" /\ e = ctx.data
         /\ ctx.fd \in open
<1>1. PICK fd \in Fds : fd = ctx.fd
  OBVIOUS
<1>2. Kernels(ops, fd) /\ ~Queued(sq, fd) /\ ~Completed(cq, fd) /\ \A x \in ops : x.fd = fd => x = ctx
  BY <1>1 DEF Inv, Unique, Kernels, Queued
<1>3. \A i \in DOMAIN cq : cq[i].ctx # Reader(fd)
  BY <1>2 DEF Completed, Reader
<1>4. \A e : Holds(sq, ops, cq, fd, e) <=> ctx.type = "SEND" /\ e = ctx.data
  BY <1>1, <1>2, <1>3 DEF Holds, Queued
<1>5. fd \in open
  BY <1>2 DEF Inv, Kept, Placed
<1> QED
  BY <1>1, <1>4, <1>5

LEMMA OwnAfter ==
  ASSUME Inv, NEW ctx, NEW ok, NEW res, Complete(ctx, ok, res), ctx.fd \in Fds,
         [ctx |-> ctx, ok |-> ok, res |-> res] \in Completions
  PROVE  /\ \A e : Holds(sq', ops', cq', ctx.fd, e) <=> ctx = Reader(ctx.fd) /\ e = res
         /\ (ok = FALSE) => Failed(ctx.fd)'
<1> DEFINE c == [ctx |-> ctx, ok |-> ok, res |-> res]
<1>1. c.ctx = ctx /\ c.res = res /\ c.ok = ok /\ c \in Completions
  OBVIOUS
<1>2. ctx \in ops /\ ops' = ops \ {ctx} /\ cq' = Append(cq, c) /\ sq' = sq
  BY DEF Complete
<1> HIDE DEF c
<1>3. PICK fd \in Fds : fd = ctx.fd
  OBVIOUS
<1>4. Kernels(ops, fd) /\ ~Queued(sq, fd) /\ ~Completed(cq, fd) /\ \A x \in ops : x.fd = fd => x = ctx
  BY <1>2, <1>3 DEF Inv, Unique, Kernels, Queued
<1>5. DOMAIN cq' = 1 .. Len(cq) + 1 /\ DOMAIN cq = 1 .. Len(cq) /\ Len(cq) \in Nat
  BY <1>1, <1>2 DEF Inv, TypeInv
<1>6. cq'[Len(cq) + 1] = c /\ \A i \in 1 .. Len(cq) : cq'[i] = cq[i]
  BY <1>1, <1>2 DEF Inv, TypeInv
<1>7. \A i \in DOMAIN cq : cq[i].ctx # Reader(fd)
  BY <1>4 DEF Completed, Reader
<1>8. \A e : (\E i \in DOMAIN cq' : cq'[i].ctx = Reader(fd) /\ cq'[i].res = e)
               <=> ctx = Reader(fd) /\ e = res
  BY <1>1, <1>5, <1>6, <1>7
<1>9. \A e : Holds(sq', ops', cq', fd, e) <=> ctx = Reader(fd) /\ e = res
  BY <1>2, <1>4, <1>8 DEF Holds, Queued
<1>10. (ok = FALSE) => Failed(fd)'
  <2>1. c \in ToSet(cq')
    BY <1>5, <1>6 DEF ToSet
  <2> QED
    BY <1>1, <1>3, <2>1 DEF Failed
<1> QED
  BY <1>3, <1>9, <1>10

\* A failure is seen until its completion is handled.
LEMMA FailureSeen ==
  ASSUME Inv, NEW fd, cq # <<>>, cq' = Tail(cq), Head(cq).ok \/ Head(cq).ctx.fd # fd
  PROVE  Failed(fd) => Failed(fd)'
<1>1. /\ DOMAIN cq' = 1 .. Len(cq) - 1 /\ DOMAIN cq = 1 .. Len(cq) /\ Len(cq) \in Nat \ {0}
      /\ Head(cq) = cq[1] /\ \A i \in DOMAIN cq' : cq'[i] = cq[i + 1]
  BY DEF Inv, TypeInv
<1>2. ASSUME NEW i \in DOMAIN cq, cq[i].ctx.fd = fd, ~cq[i].ok
      PROVE  \E j \in DOMAIN cq' : cq'[j] = cq[i]
  <2>1. i # 1
    BY <1>1, <1>2
  <2>2. i - 1 \in DOMAIN cq' /\ (i - 1) + 1 = i
    BY <1>1, <2>1
  <2> QED
    BY <1>1, <2>2
<1> QED
  BY <1>2 DEF Failed, ToSet

\* What is in hand after a step.
LEMMA HandAfter ==
  ASSUME NEW fd, NEW d, \A e : Holds(sq', ops', cq', fd, e) <=> e = d
  PROVE  Hand(fd)' = d
<1>1. \A e : e \in InHand(fd)' <=> Holds(sq', ops', cq', fd, e)
  BY DEF InHand, Holds, ToSet, Reader
<1>2. InHand(fd)' = {d}
  BY <1>1
<1> QED
  BY <1>2 DEF Hand

LEMMA NoHandAfter ==
  ASSUME NEW fd, \A e : ~Holds(sq', ops', cq', fd, e)
  PROVE  Hand(fd)' = <<>>
<1>1. \A e : e \in InHand(fd)' <=> Holds(sq', ops', cq', fd, e)
  BY DEF InHand, Holds, ToSet, Reader
<1> QED
  BY <1>1 DEF Hand

\* The parts of the line.
LEMMA LineTyped ==
  ASSUME ByteInv, NEW fd \in Fds
  PROVE  /\ echoed[fd] \in Seq(Nat) /\ Hand(fd) \in Seq(Nat) /\ inbox[fd] \in Seq(Nat)
         /\ Line(fd) \in Seq(Nat) /\ sent[fd] \in Nat /\ Bytes(fd) /\ Inv
BY HandTyped, CatBytes DEF ByteInv, Inv, TypeInv, Line

\* HandleAccept and HandleSend queue no bytes.
LEMMA HandlesNoBytes ==
  ASSUME ByteInv, cq # <<>>, cq' = Tail(cq), Head(cq).ok, Head(cq).ctx.type # "RECV",
         UNCHANGED <<ops, open, echoed, inbox, sent, cut>>, lost \subseteq lost',
         \A fd \in Fds : \A d : Holds(sq', ops, cq', fd, d) <=> Holds(sq, ops, cq', fd, d)
  PROVE  \A fd \in Fds : Bytes(fd)'
<1> SUFFICES ASSUME NEW fd \in Fds PROVE Bytes(fd)'
  OBVIOUS
<1>1. Inv /\ Bytes(fd)
  BY DEF ByteInv
<1>2. Head(cq).ctx # Reader(fd)
  BY DEF Reader
<1>3. \A d : Holds(sq', ops', cq', fd, d) <=> Holds(sq, ops, cq, fd, d)
  BY <1>1, <1>2, HandlesOther
<1>4. \A d : Holds(sq, ops, cq, fd, d)' <=> Holds(sq, ops, cq, fd, d)
  BY <1>3 DEF Holds, Reader
<1>5. Failed(fd) => Failed(fd)'
  BY <1>1, FailureSeen
<1> QED
  BY <1>1, <1>4, <1>5, Untouched

\* HandleError and HandleClosed: nothing more comes back on the connection.
LEMMA CloseKeepsBytes ==
  ASSUME ByteInv, cq # <<>>, cq' = Tail(cq), open' = open \ {Head(cq).ctx.fd},
         UNCHANGED <<sq, ops, lost, echoed, inbox, sent, cut>>
  PROVE  \A fd \in Fds : Bytes(fd)'
<1> SUFFICES ASSUME NEW fd \in Fds PROVE Bytes(fd)'
  OBVIOUS
<1>1. Inv /\ Bytes(fd)
  BY DEF ByteInv
<1>2. CASE fd = Head(cq).ctx.fd
  <2>1. fd \notin open' /\ echoed'[fd] = echoed[fd]
    BY <1>2, Zenon
  <2>2. Up(echoed[fd])'
    BY <1>1, <2>1, Zenon DEF Bytes, Up
  <2> QED
    BY <2>1, <2>2, Zenon DEF Bytes
<1>3. CASE fd # Head(cq).ctx.fd
  <2>1. Head(cq).ctx # Reader(fd)
    BY <1>3 DEF Reader
  <2>2. \A d : Holds(sq, ops, cq, fd, d)' <=> Holds(sq, ops, cq, fd, d)
    BY <1>1, <2>1, HandlesOther DEF Holds, Reader
  <2>3. Failed(fd) => Failed(fd)'
    BY <1>1, <1>3, FailureSeen
  <2> QED
    BY <1>1, <2>2, <2>3, Untouched
<1> QED
  BY <1>2, <1>3

\* HandleRecv: the bytes go from the completion to the send, or are lost with it.
LEMMA RecvKeepsBytes ==
  ASSUME ByteInv, HandleRecv
  PROVE  \A fd \in Fds : Bytes(fd)'
<1> DEFINE fd0 == Head(cq).ctx.fd
           res == Head(cq).res
           snd == Sender(fd0, res)
<1>1. /\ Inv /\ TypeInv /\ cq # <<>> /\ cq' = Tail(cq) /\ Head(cq).ok /\ setEvents(<<snd>>)
      /\ Head(cq).ctx.type = "RECV"
      /\ UNCHANGED <<ops, open, echoed, inbox, sent, cut>>
  BY DEF HandleRecv, Completion, clientVars, ByteInv, Inv
<1>2. /\ Head(cq) \in Completions /\ ~Arrival(Head(cq)) /\ Head(cq).ctx \in Contexts
  BY <1>1, FirstCompletion DEF Completions, Arrival, Acceptor
<1>3. Head(cq).ctx = Reader(fd0) /\ fd0 \in Fds /\ res \in Seq(Nat)
  BY <1>1, <1>2 DEF Completions, Contexts
<1>4. snd \in Contexts /\ snd.type = "SEND" /\ snd.fd = fd0 /\ snd.data = res
  BY <1>3, ContextsMade DEF Sender
<1>5. /\ \A e : ~Holds(sq, ops, Tail(cq), fd0, e)
      /\ Holds(sq, ops, cq, fd0, res)
  <2>1. ~Placed(sq, ops, Tail(cq), fd0)
    BY <1>1, FirstCompletion
  <2>2. 1 \in DOMAIN cq /\ cq[1] = Head(cq)
    BY <1>1 DEF TypeInv
  <2>3. \A e : Holds(sq, ops, Tail(cq), fd0, e) => Placed(sq, ops, Tail(cq), fd0)
    BY DEF Holds, Placed, Queued, Kernels, Completed, Reader
  <2> QED
    BY <1>3, <2>1, <2>2, <2>3 DEF Holds
<1>6. PICK x \in Contexts, g0 \in Fds, d0 \in Seq(Nat) : x = snd /\ g0 = fd0 /\ d0 = res
  BY <1>3, <1>4
<1>7. \/ sq' = Append(sq, x) /\ lost' = lost
      \/ sq' = sq /\ lost' = lost \cup {x}
  BY <1>1, <1>6, SetOne
<1>8. ASSUME NEW fd \in Fds, fd # g0 PROVE Bytes(fd)'
  <2>1. Head(cq).ctx # Reader(fd) /\ ~(x.type = "SEND" /\ x.fd = fd)
    <3>1. Head(cq).ctx = Reader(g0) /\ x.fd = g0
      BY <1>3, <1>4, <1>6, Zenon
    <3>2. Reader(g0).fd = g0 /\ Reader(fd).fd = fd
      BY DEF Reader
    <3> QED
      BY <1>8, <3>1, <3>2, Zenon
  <2>2. \A d : Holds(sq, ops, Tail(cq), fd, d) <=> Holds(sq, ops, cq, fd, d)
    BY <1>1, <2>1, HandlesOther
  <2>3. \A d : Holds(Append(sq, x), ops, Tail(cq), fd, d) <=> Holds(sq, ops, Tail(cq), fd, d)
    BY <1>1, <2>1, QueuesOther DEF TypeInv
  <2>4. \A d : Holds(sq', ops', cq', fd, d) <=> Holds(sq, ops, cq, fd, d)
    BY <1>1, <1>7, <2>2, <2>3
  <2>5. \A d : Holds(sq, ops, cq, fd, d)' <=> Holds(sq, ops, cq, fd, d)
    BY <2>4 DEF Holds, Reader
  <2>6. Failed(fd) => Failed(fd)'
    BY <1>1, FailureSeen
  <2>7. Bytes(fd) /\ lost \subseteq lost'
    BY <1>7 DEF ByteInv
  <2> QED
    BY <1>1, <2>5, <2>6, <2>7, Untouched
<1>9. Bytes(g0)'
  <2>1. /\ echoed[g0] \in Seq(Nat) /\ inbox[g0] \in Seq(Nat) /\ Bytes(g0)
    BY LineTyped
  <2>2. Hand(g0) = d0
    BY <1>1, <1>5, <1>6, HoldsOne
  <2>3. Up(echoed'[g0])
    BY <1>1, <2>1 DEF Bytes, Up
  <2>4. Failed(g0) => Failed(g0)'
    BY <1>1, FailureSeen
  <2>5. CASE sq' = Append(sq, x) /\ lost' = lost
    <3>1. DOMAIN sq' = 1..(Len(sq) + 1) /\ Len(sq) \in Nat /\ sq'[Len(sq) + 1] = x
          /\ DOMAIN sq = 1..Len(sq) /\ \A i \in DOMAIN sq : sq'[i] = sq[i]
      BY <1>1, <2>5 DEF TypeInv
    <3>2. \A e : Holds(sq', ops', cq', g0, e) <=> e = d0
      <4>1. x.type = "SEND" /\ x.fd = g0 /\ x.data = d0
        BY <1>4, <1>6
      <4>2. /\ \A e : ~\E i \in DOMAIN cq' : cq'[i].ctx = Reader(g0) /\ cq'[i].res = e
            /\ \A e : ~\E i \in DOMAIN sq : sq[i].type = "SEND" /\ sq[i].fd = g0 /\ sq[i].data = e
            /\ \A e : ~\E y \in ops' : y.type = "SEND" /\ y.fd = g0 /\ y.data = e
        BY <1>1, <1>5, <1>6 DEF Holds
      <4>3. \A e : (\E i \in DOMAIN sq' : sq'[i].type = "SEND" /\ sq'[i].fd = g0 /\ sq'[i].data = e)
                     <=> e = d0
        BY <3>1, <4>1, <4>2
      <4> QED
        BY <4>2, <4>3 DEF Holds
    <3>3. Hand(g0)' = d0
      BY <3>2, HandAfter
    <3>4. Line(g0)' = Line(g0)
      BY <1>1, <2>2, <3>3 DEF Line
    <3> QED
      BY <1>1, <2>1, <2>3, <2>4, <2>5, <3>4, LineKept
  <2>6. CASE sq' = sq /\ lost' = lost \cup {x}
    <3>1. \A e : ~Holds(sq', ops', cq', g0, e)
      BY <1>1, <1>5, <1>6, <2>6
    <3>2. Hand(g0)' = <<>>
      BY <3>1, NoHandAfter
    <3>3. Line(g0) = Cat(Cat(echoed[g0], d0), inbox[g0])
      BY <2>2 DEF Line
    <3>4. Line(g0)' = Cat(echoed[g0], inbox[g0])
      BY <1>1, <2>1, <3>2, CatEmpty DEF Line
    <3>5. g0 \in Abandoned'
      BY <1>4, <1>6, <2>6 DEF Abandoned
    <3>6. g0 \in open
      BY <1>1, <1>5, <1>6, HandHeld DEF Inv, Kept
    <3> QED
      BY <1>1, <2>1, <2>3, <3>3, <3>4, <3>5, <3>6, LineShrinks
  <2> QED
    BY <1>7, <2>5, <2>6
<1> QED
  BY <1>8, <1>9

\* The steps of the loop of main.
LEMMA ServerBytes == ByteInv /\ Server => \A fd \in Fds : Bytes(fd)'
<1> SUFFICES ASSUME ByteInv, Server PROVE \A fd \in Fds : Bytes(fd)'
  OBVIOUS
<1>1. Inv /\ TypeInv /\ sq \in Seq(Contexts) /\ \A fd \in Fds : Bytes(fd)
  BY DEF ByteInv, Inv, TypeInv
<1>2. CASE WaitCqes \/ EndBatch \/ Submit
  <2>1. UNCHANGED <<cq, open, lost, echoed, inbox, sent, cut>>
    BY <1>2 DEF WaitCqes, EndBatch, Submit, clientVars, ringVars
  <2>2. UNCHANGED <<sq, ops>> \/ (sq' = <<>> /\ ops' = ops \cup ToSet(sq))
    BY <1>2 DEF WaitCqes, EndBatch, Submit, ringVars
  <2>3. \A fd, d : Holds(sq', ops', cq', fd, d) <=> Holds(sq, ops, cq, fd, d)
    <3>1. CASE UNCHANGED <<sq, ops>>
      BY <2>1, <3>1
    <3>2. CASE sq' = <<>> /\ ops' = ops \cup ToSet(sq)
      <4>1. DOMAIN sq' = {}
        BY <3>2
      <4> QED
        BY <2>1, <3>2, <4>1 DEF Holds, ToSet
    <3> QED
      BY <2>2, <3>1, <3>2
  <2>4. ASSUME NEW fd \in Fds PROVE Bytes(fd)'
    <3>1. \A d : Holds(sq, ops, cq, fd, d)' <=> Holds(sq, ops, cq, fd, d)
      BY <2>3 DEF Holds, Reader
    <3>2. Failed(fd) => Failed(fd)'
      BY <2>1 DEF Failed
    <3> QED
      BY <1>1, <2>1, <3>1, <3>2, Untouched
  <2> QED
    BY <2>4
<1>3. CASE HandleError \/ HandleClosed
  <2>1. /\ cq # <<>> /\ cq' = Tail(cq) /\ open' = open \ {Head(cq).ctx.fd}
        /\ UNCHANGED <<sq, ops, lost, echoed, inbox, sent, cut>>
    BY <1>3 DEF HandleError, HandleClosed, Completion, clientVars
  <2> QED
    BY <2>1, CloseKeepsBytes
<1>4. CASE HandleAccept
  <2> DEFINE r == Reader(Head(cq).res)
  <2>1. /\ cq # <<>> /\ cq' = Tail(cq) /\ Head(cq).ok /\ Head(cq).ctx.type = "ACCEPT"
        /\ setEvents(<<Acceptor, r>>)
        /\ UNCHANGED <<ops, open, echoed, inbox, sent, cut>>
    BY <1>4 DEF HandleAccept, Completion, clientVars
  <2>2. Head(cq) \in Completions /\ Head(cq).ctx = Acceptor /\ Head(cq).res \in Fds
    BY <1>1, <2>1, FirstCompletion DEF Completions, Contexts, Arrival, Acceptor
  <2>3. Acceptor \in Contexts /\ r \in Contexts /\ Acceptor.type # "SEND" /\ r.type # "SEND"
    BY <2>2, ContextsMade DEF Acceptor, Reader
  <2>4. PICK x \in Contexts, y \in Contexts :
          x = Acceptor /\ y = r /\ x.type # "SEND" /\ y.type # "SEND"
    BY <2>3
  <2>5. \/ sq' = Append(Append(sq, x), y) /\ lost' = lost
        \/ sq' = Append(sq, x) /\ lost' = lost \cup {y}
        \/ sq' = sq /\ lost' = lost \cup {x, y}
    BY <1>1, <2>1, <2>4, SetTwo
  <2>6. Append(sq, x) \in Seq(Contexts)
    BY <1>1, <2>4
  <2>7. \A fd \in Fds : \A d : /\ Holds(Append(sq, x), ops, cq', fd, d) <=> Holds(sq, ops, cq', fd, d)
                               /\ Holds(Append(Append(sq, x), y), ops, cq', fd, d)
                                    <=> Holds(Append(sq, x), ops, cq', fd, d)
    BY <1>1, <2>4, <2>6, QueuesOther
  <2>8. \A fd \in Fds : \A d : Holds(sq', ops, cq', fd, d) <=> Holds(sq, ops, cq', fd, d)
    BY <2>5, <2>7
  <2> QED
    BY <2>1, <2>5, <2>8, HandlesNoBytes
<1>5. CASE HandleRecv
  BY <1>5, RecvKeepsBytes
<1>6. CASE HandleSend
  <2> DEFINE r == Reader(Head(cq).ctx.fd)
  <2>1. /\ cq # <<>> /\ cq' = Tail(cq) /\ Head(cq).ok /\ Head(cq).ctx.type = "SEND" /\ setEvents(<<r>>)
        /\ UNCHANGED <<ops, open, echoed, inbox, sent, cut>>
    BY <1>6 DEF HandleSend, Completion, clientVars
  <2>2. Head(cq) \in Completions /\ Head(cq).ctx.fd \in Fds
    BY <1>1, <2>1, FirstCompletion DEF Completions, Contexts
  <2>3. PICK x \in Contexts : x = r /\ x.type # "SEND"
    BY <2>2, ContextsMade DEF Reader
  <2>4. \/ sq' = Append(sq, x) /\ lost' = lost
        \/ sq' = sq /\ lost' = lost \cup {x}
    BY <1>1, <2>1, <2>3, SetOne
  <2>5. \A fd \in Fds : \A d : Holds(Append(sq, x), ops, cq', fd, d) <=> Holds(sq, ops, cq', fd, d)
    BY <1>1, <2>3, QueuesOther
  <2>6. \A fd \in Fds : \A d : Holds(sq', ops, cq', fd, d) <=> Holds(sq, ops, cq', fd, d)
    BY <2>4, <2>5
  <2> QED
    BY <2>1, <2>4, <2>6, HandlesNoBytes
<1> QED
  BY <1>2, <1>3, <1>4, <1>5, <1>6 DEF Server

\* KernelRecv: the bytes go from the network to the completion.
LEMMA KernelRecvBytes ==
  ASSUME ByteInv, NEW fd \in Fds, KernelRecv(fd)
  PROVE  \A g \in Fds : Bytes(g)'
<1>1. /\ Inv /\ inbox \in [Fds -> Seq(Nat)] /\ Reader(fd) \in Contexts /\ Reader(fd).fd = fd
      /\ Reader(fd).type # "SEND"
      /\ echoed[fd] \in Seq(Nat) /\ Bytes(fd)
  BY ContextsMade, LineTyped DEF ByteInv, Inv, TypeInv, Reader
<1>2. PICK res \in Seq(Nat) :
        /\ Complete(Reader(fd), TRUE, res)
        /\ inbox[fd] = Cat(res, inbox'[fd]) /\ inbox'[fd] \in Seq(Nat)
        /\ \A g \in Fds : g # fd => inbox'[g] = inbox[g]
  <2>1. CASE \E n \in 1..Len(inbox[fd]) :
               /\ Complete(Reader(fd), TRUE, SubSeq(inbox[fd], 1, n))
               /\ inbox' = [inbox EXCEPT ![fd] = SubSeq(@, n + 1, Len(@))]
    <3>1. PICK n \in 1..Len(inbox[fd]) :
               /\ Complete(Reader(fd), TRUE, SubSeq(inbox[fd], 1, n))
               /\ inbox' = [inbox EXCEPT ![fd] = SubSeq(inbox[fd], n + 1, Len(inbox[fd]))]
      BY <2>1
    <3>2. inbox[fd] \in Seq(Nat)
      BY <1>1
    <3>3. /\ SubSeq(inbox[fd], 1, n) \in Seq(Nat) /\ SubSeq(inbox[fd], n + 1, Len(inbox[fd])) \in Seq(Nat)
          /\ inbox[fd] = Cat(SubSeq(inbox[fd], 1, n), SubSeq(inbox[fd], n + 1, Len(inbox[fd])))
      BY <3>2, SplitBytes
    <3>4. /\ inbox'[fd] = SubSeq(inbox[fd], n + 1, Len(inbox[fd]))
          /\ \A g \in Fds : g # fd => inbox'[g] = inbox[g]
      BY <1>1, <3>1
    <3> QED
      BY <3>1, <3>3, <3>4
  <2>2. CASE inbox[fd] = <<>> /\ Complete(Reader(fd), TRUE, <<>>) /\ UNCHANGED inbox
    <3>1. <<>> \in Seq(Nat)
      OBVIOUS
    <3>2. Cat(<<>>, <<>>) = <<>>
      BY <3>1, CatEmpty
    <3> QED
      BY <2>2, <3>1, <3>2
  <2> QED
    BY <2>1, <2>2 DEF KernelRecv
<1>3. UNCHANGED <<open, lost, echoed, sent, cut>>
  BY <1>2 DEF KernelRecv, Complete
<1>4. [ctx |-> Reader(fd), ok |-> TRUE, res |-> res] \in Completions
  BY <1>1 DEF Completions, Arrival, Acceptor, Reader
<1>5. ASSUME NEW g \in Fds, g # fd PROVE Bytes(g)'
  <2>1. /\ \A d : Holds(sq, ops, cq, g, d)' <=> Holds(sq, ops, cq, g, d)
        /\ Failed(g) => Failed(g)'
    BY <1>1, <1>2, <1>4, <1>5, CompletesOther
  <2> QED
    BY <1>2, <1>3, <1>5, <2>1, Untouched DEF ByteInv
<1>6. Bytes(fd)'
  <2>1. PICK x : x = Reader(fd)
    OBVIOUS
  <2>2. /\ \A e : ~Holds(sq, ops, cq, fd, e)
        /\ \A e : Holds(sq', ops', cq', fd, e) <=> e = res
    <3>1. Complete(x, TRUE, res) /\ x \in ops /\ x.fd = fd /\ x.type = "RECV"
      BY <1>2, <2>1 DEF Complete, Reader
    <3>2. \A e : Holds(sq, ops, cq, x.fd, e) <=> x.type = "SEND" /\ e = x.data
      BY <1>1, <3>1, OwnBefore
    <3>3. \A e : Holds(sq', ops', cq', x.fd, e) <=> x = Reader(x.fd) /\ e = res
      <4>1. [ctx |-> x, ok |-> TRUE, res |-> res] \in Completions
        BY <1>4, <2>1, Zenon
      <4>2. Inv /\ Complete(x, TRUE, res) /\ x.fd \in Fds
        BY <1>1, <3>1, Zenon
      <4> QED
        BY <4>1, <4>2, OwnAfter, Zenon
    <3> QED
      BY <2>1, <3>1, <3>2, <3>3
  <2>3. Hand(fd) = <<>> /\ Hand(fd)' = res
    BY <2>2, HoldsNone, HandAfter
  <2>4. Line(fd) = Cat(echoed[fd], Cat(res, inbox'[fd]))
    BY <1>1, <1>2, <2>3, CatEmpty DEF Line
  <2>5. Line(fd)' = Cat(Cat(echoed[fd], res), inbox'[fd])
    BY <1>3, <2>3 DEF Line
  <2>6. Line(fd)' = Line(fd)
    BY <1>1, <1>2, <2>4, <2>5, CatRegroups
  <2>7. Failed(fd) => Failed(fd)'
    <3>1. ~Failed(fd)
      <4>1. Reader(fd) \in ops
        BY <1>2 DEF Complete
      <4>2. ~Completed(cq, fd)
        BY <1>1, <4>1 DEF Inv, Unique
      <4> QED
        BY <4>2 DEF Failed, Completed, ToSet
    <3> QED
      BY <3>1
  <2>8. Up(echoed'[fd])
    BY <1>1, <1>3 DEF Bytes, Up
  <2> QED
    BY <1>1, <1>3, <2>6, <2>7, <2>8, LineKept
<1> QED
  BY <1>5, <1>6

\* KernelSend: what is transmitted comes back, what is not is gone.
LEMMA KernelSendBytes ==
  ASSUME ByteInv, NEW fd \in Fds, KernelSend(fd)
  PROVE  echoed' \in [Fds -> Seq(Nat)] /\ \A g \in Fds : Bytes(g)'
<1>1. PICK ctx \in ops : ctx.type = "SEND" /\ ctx.fd = fd
         /\ \E n \in 1..Len(ctx.data) :
              /\ Complete(ctx, TRUE, SubSeq(ctx.data, 1, n))
              /\ echoed' = [echoed EXCEPT ![fd] = Cat(@, SubSeq(ctx.data, 1, n))]
              /\ cut' = IF n < Len(ctx.data) THEN cut \cup {fd} ELSE cut
  BY DEF KernelSend, Cat
<1>2. /\ Inv /\ ctx \in Contexts /\ ctx.data \in Seq(Nat) /\ echoed \in [Fds -> Seq(Nat)]
      /\ echoed[fd] \in Seq(Nat) /\ inbox[fd] \in Seq(Nat) /\ Bytes(fd)
  BY LineTyped DEF ByteInv, Inv, TypeInv, Contexts
<1>3. PICK n \in 1..Len(ctx.data) :
        /\ Complete(ctx, TRUE, SubSeq(ctx.data, 1, n))
        /\ echoed' = [echoed EXCEPT ![fd] = Cat(@, SubSeq(ctx.data, 1, n))]
        /\ cut' = IF n < Len(ctx.data) THEN cut \cup {fd} ELSE cut
  BY <1>1
<1>4. PICK x \in Seq(Nat), y \in Seq(Nat) :
        /\ x = SubSeq(ctx.data, 1, n) /\ ctx.data = Cat(x, y)
        /\ n = Len(ctx.data) => y = <<>>
  <2>1. /\ SubSeq(ctx.data, 1, n) \in Seq(Nat) /\ SubSeq(ctx.data, n + 1, Len(ctx.data)) \in Seq(Nat)
        /\ ctx.data = Cat(SubSeq(ctx.data, 1, n), SubSeq(ctx.data, n + 1, Len(ctx.data)))
        /\ n = Len(ctx.data) => SubSeq(ctx.data, n + 1, Len(ctx.data)) = <<>>
    BY <1>2, SplitBytes
  <2> QED
    BY <2>1
<1>5. /\ Complete(ctx, TRUE, x) /\ echoed' = [echoed EXCEPT ![fd] = Cat(@, x)]
      /\ Cat(echoed[fd], x) \in Seq(Nat)
      /\ UNCHANGED <<open, lost, inbox, sent>>
  BY <1>2, <1>3, <1>4, CatBytes DEF KernelSend, Complete
<1>6. /\ echoed' \in [Fds -> Seq(Nat)] /\ echoed'[fd] = Cat(echoed[fd], x)
      /\ \A g \in Fds : g # fd => echoed'[g] = echoed[g]
  BY <1>2, <1>5
<1>7. [ctx |-> ctx, ok |-> TRUE, res |-> x] \in Completions
  BY <1>1, <1>2 DEF Completions, Arrival, Acceptor
<1>8. ASSUME NEW g \in Fds, g # fd PROVE Bytes(g)'
  <2>1. /\ \A d : Holds(sq, ops, cq, g, d)' <=> Holds(sq, ops, cq, g, d)
        /\ Failed(g) => Failed(g)'
    BY <1>1, <1>2, <1>5, <1>7, <1>8, CompletesOther
  <2> QED
    BY <1>3, <1>5, <1>6, <1>8, <2>1, Untouched DEF ByteInv
<1>9. Bytes(fd)'
  <2>1. ctx # Reader(fd)
    BY <1>1 DEF Reader
  <2>2. /\ \A e : Holds(sq, ops, cq, fd, e) <=> e = ctx.data
        /\ \A e : ~Holds(sq', ops', cq', fd, e)
        /\ fd \in open
    <3>1. ctx.type = "SEND" /\ ctx.fd = fd /\ Inv /\ Complete(ctx, TRUE, x)
      BY <1>1, <1>2, <1>5
    <3>2. /\ \A e : Holds(sq, ops, cq, fd, e) <=> ctx.type = "SEND" /\ e = ctx.data
          /\ \A e : Holds(sq', ops', cq', fd, e) <=> ctx = Reader(fd) /\ e = x
          /\ fd \in open
      BY <1>7, <3>1, OwnBefore, OwnAfter
    <3> QED
      BY <2>1, <3>1, <3>2
  <2>3. Hand(fd) = Cat(x, y) /\ Hand(fd)' = <<>>
    BY <1>2, <1>4, <2>2, HoldsOne, NoHandAfter
  <2> DEFINE p == Cat(echoed[fd], x)
             b == inbox[fd]
  <2>4. Line(fd) = Cat(Cat(p, y), b)
    <3>1. Cat(echoed[fd], Cat(x, y)) = Cat(Cat(echoed[fd], x), y)
      BY <1>2, CatRegroups
    <3> QED
      BY <2>3, <3>1 DEF Line
  <2>5. Line(fd)' = Cat(p, b)
    BY <1>5, <1>6, <2>3, CatEmpty DEF Line
  <2>6. p \in Seq(Nat) /\ b \in Seq(Nat) /\ Cat(p, y) \in Seq(Nat)
    BY <1>2, <1>5, CatBytes
  <2>7. Up(echoed'[fd])
    <3>1. Up(Cat(Cat(p, y), b))
      BY <1>2, <2>2, <2>4 DEF Bytes
    <3> HIDE DEF p, b
    <3>2. Up(p)
      BY <2>6, <3>1, UpCat
    <3> QED
      BY <1>6, <3>2 DEF p
  <2> HIDE DEF p, b
  <2>8. CASE n = Len(ctx.data)
    <3>1. Line(fd)' = Line(fd)
      BY <1>4, <2>4, <2>5, <2>6, <2>8, CatEmpty
    <3>2. ~Failed(fd)
      <4>1. ~Completed(cq, fd)
        BY <1>1, <1>2 DEF Inv, Unique
      <4> QED
        BY <4>1 DEF Failed, Completed, ToSet
    <3>3. fd \in cut => fd \in cut'
      BY <1>3
    <3> QED
      BY <1>2, <1>5, <2>7, <3>1, <3>2, <3>3, LineKept
  <2>9. CASE n # Len(ctx.data)
    <3>1. fd \in cut'
      BY <1>2, <1>3, <2>9
    <3> QED
      BY <1>2, <1>5, <2>2, <2>4, <2>5, <2>6, <2>7, <3>1, LineShrinks
  <2> QED
    BY <2>8, <2>9
<1> QED
  BY <1>6, <1>8, <1>9

\* KernelError: what an operation that fails had in hand is lost.
LEMMA KernelErrorBytes ==
  ASSUME ByteInv, KernelError
  PROVE  \A g \in Fds : Bytes(g)'
<1>1. PICK ctx \in ops : Complete(ctx, FALSE, <<>>)
  BY DEF KernelError
<1>2. /\ Inv /\ ctx \in Contexts /\ UNCHANGED <<open, lost, echoed, inbox, sent, cut>>
  BY <1>1 DEF KernelError, Complete, clientVars, ByteInv, Inv, TypeInv
<1>3. [ctx |-> ctx, ok |-> FALSE, res |-> <<>>] \in Completions
  <2>1. <<>> \in Seq(Nat)
    OBVIOUS
  <2> QED
    BY <1>2, <2>1 DEF Completions, Arrival
<1>4. ASSUME NEW g \in Fds, g # ctx.fd PROVE Bytes(g)'
  <2>1. /\ \A d : Holds(sq, ops, cq, g, d)' <=> Holds(sq, ops, cq, g, d)
        /\ Failed(g) => Failed(g)'
    BY <1>1, <1>2, <1>3, <1>4, CompletesOther
  <2> QED
    BY <1>2, <2>1, Untouched DEF ByteInv
<1>5. ASSUME NEW g \in Fds, g = ctx.fd PROVE Bytes(g)'
  <2>1. /\ \A e : Holds(sq, ops, cq, g, e) <=> ctx.type = "SEND" /\ e = ctx.data
        /\ \A e : Holds(sq', ops', cq', g, e) <=> ctx = Reader(g) /\ e = <<>>
        /\ Failed(g)'
        /\ g \in open
    BY <1>1, <1>2, <1>3, <1>5, OwnBefore, OwnAfter
  <2>2. /\ echoed[g] \in Seq(Nat) /\ inbox[g] \in Seq(Nat) /\ Bytes(g)
        /\ Hand(g) \in Seq(Nat)
    BY LineTyped
  <2>3. Hand(g)' = <<>>
    <3>1. CASE ctx = Reader(g)
      <4>1. \A e : Holds(sq', ops', cq', g, e) <=> e = <<>>
        BY <2>1, <3>1, Zenon
      <4> QED
        BY <4>1, HandAfter, Zenon
    <3>2. CASE ctx # Reader(g)
      BY <2>1, <3>2, NoHandAfter
    <3> QED
      BY <3>1, <3>2
  <2>4. Line(g)' = Cat(echoed[g], inbox[g])
    BY <1>2, <2>2, <2>3, CatEmpty DEF Line
  <2>5. Up(echoed'[g])
    BY <1>2, <2>2 DEF Bytes, Up
  <2>6. Line(g) = Cat(Cat(echoed[g], Hand(g)), inbox[g])
    BY DEF Line
  <2>7. PICK y \in Seq(Nat) : y = Hand(g)
    BY <2>2
  <2> QED
    BY <1>2, <2>1, <2>2, <2>4, <2>5, <2>6, <2>7, LineShrinks
<1> QED
  BY <1>4, <1>5

\* KernelAccept: a new connection starts with nothing, on a descriptor no operation has.
LEMMA KernelAcceptBytes ==
  ASSUME ByteInv, KernelAccept
  PROVE  echoed' \in [Fds -> Seq(Nat)] /\ \A g \in Fds : Bytes(g)'
<1>1. PICK fd0 \in Fds \ open :
        /\ Complete(Acceptor, TRUE, fd0) /\ open' = open \cup {fd0}
        /\ inbox' = [inbox EXCEPT ![fd0] = <<>>] /\ sent' = [sent EXCEPT ![fd0] = 0]
        /\ echoed' = [echoed EXCEPT ![fd0] = <<>>] /\ cut' = cut \ {fd0}
  BY DEF KernelAccept
<1>2. /\ Inv /\ echoed \in [Fds -> Seq(Nat)] /\ inbox \in [Fds -> Seq(Nat)] /\ sent \in [Fds -> Nat]
      /\ lost' = lost /\ <<>> \in Seq(Nat)
  BY <1>1 DEF ByteInv, Inv, TypeInv, Complete
<1>3. /\ [ctx |-> Acceptor, ok |-> TRUE, res |-> fd0] \in Completions
      /\ \A g \in Fds : Acceptor.fd # g
  BY ContextsMade, ServerAssumption DEF Completions, Arrival, Acceptor
<1>4. \A g \in Fds :
        /\ \A d : Holds(sq, ops, cq, g, d)' <=> Holds(sq, ops, cq, g, d)
        /\ Failed(g) => Failed(g)'
  <2>1. PICK x : x = Acceptor
    OBVIOUS
  <2> QED
    BY <1>1, <1>2, <1>3, <2>1, CompletesOther
<1>5. /\ echoed' \in [Fds -> Seq(Nat)] /\ echoed'[fd0] = <<>> /\ inbox'[fd0] = <<>> /\ sent'[fd0] = 0
      /\ \A g \in Fds : g # fd0 => UNCHANGED <<echoed[g], inbox[g], sent[g]>>
  BY <1>1, <1>2
<1>6. ASSUME NEW g \in Fds, g # fd0 PROVE Bytes(g)'
  BY <1>1, <1>2, <1>4, <1>5, <1>6, Untouched DEF ByteInv
<1>7. Bytes(fd0)'
  <2>1. \A d : ~Holds(sq, ops, cq, fd0, d)
    BY <1>1, <1>2, HandHeld DEF Inv, Kept
  <2>2. \A d : ~Holds(sq', ops', cq', fd0, d)
    BY <1>4, <2>1 DEF Holds, Reader
  <2>3. Hand(fd0)' = <<>>
    BY <2>2, NoHandAfter
  <2>4. Cat(<<>>, <<>>) = <<>>
    BY <1>2, CatEmpty
  <2>5. Line(fd0)' = <<>>
    BY <1>5, <2>3, <2>4 DEF Line
  <2>6. [i \in 1..0 |-> i] = <<>>
    OBVIOUS
  <2> QED
    BY <1>5, <2>5, <2>6 DEF Bytes, Up, Under
<1> QED
  BY <1>5, <1>6, <1>7

\* ClientSend: one more byte at the end of the line.
LEMMA ClientSendBytes ==
  ASSUME ByteInv, NEW fd \in Fds, ClientSend(fd)
  PROVE  \A g \in Fds : Bytes(g)'
<1>1. /\ fd \in open /\ UNCHANGED <<sq, ops, cq, open, lost, echoed, cut>>
      /\ sent' = [sent EXCEPT ![fd] = @ + 1]
      /\ inbox' = [inbox EXCEPT ![fd] = Append(@, sent[fd] + 1)]
  BY DEF ClientSend, ringVars
<1>2. /\ inbox \in [Fds -> Seq(Nat)] /\ sent \in [Fds -> Nat]
  BY DEF ByteInv, Inv, TypeInv
<1>3. \A g : /\ \A d : Holds(sq, ops, cq, g, d)' <=> Holds(sq, ops, cq, g, d)
             /\ Failed(g) => Failed(g)'
  BY <1>1 DEF Holds, Reader, Failed
<1>4. ASSUME NEW g \in Fds, g # fd PROVE Bytes(g)'
  <2>1. UNCHANGED <<echoed[g], inbox[g], sent[g]>>
    BY <1>1, <1>2, <1>4
  <2> QED
    BY <1>1, <1>3, <2>1, Untouched DEF ByteInv
<1>5. Bytes(fd)'
  <2>1. PICK n \in Nat : n = sent[fd]
    BY <1>2
  <2>2. PICK x \in Seq(Nat) : x = <<n + 1>> /\ Up(x) /\ Under(x, n + 1) /\ \A i \in DOMAIN x : x[i] = n + 1
    <3> DEFINE one == <<n + 1>>
    <3>1. one \in Seq(Nat) /\ DOMAIN one = {1} /\ one[1] = n + 1 /\ n + 1 \in Nat
      OBVIOUS
    <3> HIDE DEF one
    <3>2. \A i \in DOMAIN one : one[i] = n + 1
      BY <3>1
    <3>3. Up(one)
      BY <3>1 DEF Up
    <3>4. Under(one, n + 1)
      BY <3>1, <3>2 DEF Under
    <3>5. one = <<n + 1>>
      BY DEF one
    <3> QED
      BY <3>1, <3>2, <3>3, <3>4, <3>5
  <2>3. /\ echoed[fd] \in Seq(Nat) /\ Hand(fd) \in Seq(Nat) /\ inbox[fd] \in Seq(Nat) /\ Bytes(fd)
        /\ Line(fd) \in Seq(Nat)
    BY LineTyped
  <2>4. sent'[fd] = n + 1 /\ inbox'[fd] = Cat(inbox[fd], x)
    <3>1. Append(inbox[fd], n + 1) = Cat(inbox[fd], x)
      <4>1. n + 1 \in Nat
        OBVIOUS
      <4>2. Append(inbox[fd], n + 1) = inbox[fd] \o <<n + 1>>
        BY <2>3, <4>1, AppendIsConcat
      <4> QED
        BY <2>2, <4>2 DEF Cat
    <3>2. inbox'[fd] = Append(inbox[fd], n + 1) /\ sent'[fd] = n + 1
      BY <1>1, <1>2, <2>1
    <3> QED
      BY <3>1, <3>2
  <2>5. Hand(fd)' = Hand(fd)
    BY <1>3, SameHand
  <2>6. Line(fd)' = Cat(Line(fd), x)
    <3>1. Line(fd)' = Cat(Cat(echoed[fd], Hand(fd)), Cat(inbox[fd], x))
      BY <1>1, <2>4, <2>5 DEF Line
    <3>2. Cat(echoed[fd], Hand(fd)) \in Seq(Nat)
      BY <2>3, CatBytes
    <3> QED
      BY <2>3, <3>1, <3>2, CatRegroups DEF Line
  <2>7. Up(Line(fd)) /\ Under(Line(fd), n)
    BY <1>1, <2>1, <2>3 DEF Bytes
  <2>8. Up(Cat(Line(fd), x)) /\ Under(Cat(Line(fd), x), n + 1)
    <3>1. \A i \in DOMAIN Line(fd) : Line(fd)[i] \in Nat
      BY <2>3
    <3>2. Below(Line(fd), x) /\ Under(Line(fd), n + 1)
      BY <2>2, <2>7, <3>1 DEF Below, Under
    <3> QED
      BY <2>2, <2>3, <2>7, <3>2, UpCat, BoundsCat
  <2>9. Up(Line(fd))' /\ Under(Line(fd), sent[fd])' /\ Up(echoed[fd])'
    <3>1. Up(Line(fd)') /\ Under(Line(fd)', n + 1)
      BY <2>6, <2>8
    <3> QED
      BY <1>1, <2>3, <2>4, <3>1 DEF Up, Under, Bytes
  <2>10. ASSUME fd \in (open \ (cut \cup Abandoned))', ~Failed(fd)'
         PROVE  Line(fd)' = [i \in 1..sent[fd] |-> i]'
    <3>1. fd \in open \ (cut \cup Abandoned) /\ ~Failed(fd)
      BY <1>1, <1>3, <2>10 DEF Abandoned
    <3>2. Line(fd) = [i \in 1..n |-> i]
      BY <2>1, <2>3, <3>1 DEF Bytes
    <3>3. Cat([i \in 1..n |-> i], <<n + 1>>) = [i \in 1..(n + 1) |-> i]
      BY OneMore
    <3> QED
      BY <2>2, <2>4, <2>6, <3>2, <3>3
  <2> QED
    BY <2>9, <2>10 DEF Bytes
<1> QED
  BY <1>4, <1>5

\* Every step of the server, the kernel and the clients.
LEMMA NextBytes == ByteInv /\ [Next]_vars => ByteInv'
<1> SUFFICES ASSUME ByteInv, [Next]_vars PROVE ByteInv'
  OBVIOUS
<1>1. Inv' /\ echoed \in [Fds -> Seq(Nat)]
  BY NextInv DEF ByteInv
<1> SUFFICES echoed' \in [Fds -> Seq(Nat)] /\ \A fd \in Fds : Bytes(fd)'
  BY <1>1 DEF ByteInv
<1>2. CASE Server
  <2>1. UNCHANGED echoed
    BY <1>2 DEF Server, WaitCqes, HandleError, HandleAccept, HandleClosed, HandleRecv, HandleSend,
                EndBatch, Submit, clientVars
  <2> QED
    BY <1>1, <1>2, <2>1, ServerBytes
<1>3. CASE KernelAccept
  BY <1>3, KernelAcceptBytes
<1>4. CASE KernelError
  BY <1>1, <1>4, KernelErrorBytes DEF KernelError, clientVars
<1>5. ASSUME NEW fd \in Fds, KernelRecv(fd) PROVE echoed' \in [Fds -> Seq(Nat)] /\ \A g \in Fds : Bytes(g)'
  BY <1>1, <1>5, KernelRecvBytes DEF KernelRecv
<1>6. ASSUME NEW fd \in Fds, KernelSend(fd) PROVE echoed' \in [Fds -> Seq(Nat)] /\ \A g \in Fds : Bytes(g)'
  BY <1>6, KernelSendBytes
<1>7. ASSUME NEW fd \in Fds, ClientSend(fd) PROVE echoed' \in [Fds -> Seq(Nat)] /\ \A g \in Fds : Bytes(g)'
  BY <1>1, <1>7, ClientSendBytes DEF ClientSend
<1>8. CASE Connect \/ (\E fd \in Fds : ClientClose(fd)) \/ UNCHANGED vars
  <2>1. UNCHANGED <<sq, ops, cq, open, lost, echoed, inbox, sent, cut>>
    BY <1>8 DEF Connect, ClientClose, ringVars, vars
  <2>2. \A g : /\ \A d : Holds(sq, ops, cq, g, d)' <=> Holds(sq, ops, cq, g, d)
               /\ Failed(g) => Failed(g)'
    BY <2>1 DEF Holds, Reader, Failed
  <2>3. \A g \in Fds : Bytes(g)'
    BY <2>1, <2>2, Untouched DEF ByteInv
  <2> QED
    BY <1>1, <2>1, <2>3
<1> QED
  BY <1>2, <1>3, <1>4, <1>5, <1>6, <1>7, <1>8 DEF Next, Kernel

LEMMA InitBytes == Init => ByteInv
<1> SUFFICES ASSUME Init PROVE ByteInv
  OBVIOUS
<1>1. Inv /\ echoed \in [Fds -> Seq(Nat)] /\ open = {}
  BY InitInv DEF Init
<1>2. \A fd \in Fds : Bytes(fd)
  BY <1>1 DEF Init, Bytes, Up
<1> QED
  BY <1>1, <1>2 DEF ByteInv

\* main of ioURingServer: the bytes a client sent are, in order, those it got back, those
\* in the server's hand and those not received yet, while no operation on the connection
\* fails, is dropped for want of a submission queue entry or sends less than asked for;
\* and whatever happens nothing comes back twice or out of order, although descriptors
\* are used again.
THEOREM NoByteIsLost == Spec => []NoByteLost
<1>1. Init => ByteInv
  BY InitBytes
<1>2. ByteInv /\ [Next]_vars => ByteInv'
  BY NextBytes
<1>3. ByteInv => NoByteLost
  <2> SUFFICES ASSUME ByteInv PROVE NoByteLost
    OBVIOUS
  <2>1. \A fd \in open : fd \in Fds
    BY DEF ByteInv, Inv, TypeInv
  <2>2. \A fd \in open \ (cut \cup Abandoned) :
          Failed(fd) \/ echoed[fd] \o Hand(fd) \o inbox[fd] = [i \in 1..sent[fd] |-> i]
    BY <2>1 DEF ByteInv, Bytes, Line, Cat
  <2>3. \A fd \in Fds : \A i, j \in DOMAIN echoed[fd] : i < j => echoed[fd][i] < echoed[fd][j]
    BY DEF ByteInv, Bytes, Up
  <2> QED
    BY <2>2, <2>3 DEF NoByteLost, Hand
<1> QED
  BY <1>1, <1>2, <1>3, PTL DEF Spec
=============================================================================
