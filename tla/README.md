# Verification of learn-Space

TLA+ models of the programs in this repository, checked with TLC on small
instances, and theorems about them whose proofs TLAPS checks for every value of
the constants. The models are translated from the code; docs and comments are
used only to say what the code is meant to do.

    tlc -config ThreadPool.cfg ThreadPool       # one run; PROJECT.json lists them all
    tlapm ThreadPoolProofs.tla                  # the proofs of one module

PROJECT.json gives, for every definition that models code, the file and the
lines it models, and lists the runs, the mutants that show each property can
fail, the hazards of the code, and the theorems.

## 1. The system

The repository is a collection of independent C++ programs; each directory is
one. What they have in common is servers driven by epoll, io_uring or IOCP,
hand-written containers, and a thread pool.

| Part | State | Operations | What is hard |
|---|---|---|---|
| `ThreadPool/ThreadPool.*` | task queue, stop flag, mutex, condition variable, worker threads | constructor, `addTask` (task / vector), `close`, workers' `doRun` | notification after unlock, workers between test and wait, shutdown while tasks run |
| `ThreadPool/main.cpp` | list of submitted tasks, `sum`, each task's `_ret` | submit, poll `finished()`, print, destroy | flag read by another thread, order of destruction of locals, `_ret` never initialised |
| `Project/Cache` | ring of nodes with a sentry, hash map key to node, size | `put`, `get`, destructor | pointer surgery, map and ring in step, eviction at the limit |
| `ioURingServer` | ring, one `EventContext` per operation, open descriptors | handlers of accept, recv, send completions | submission queue full, short sends, failed accept, descriptor reuse |
| `qpsTool` | pool of contexts, sockets, counters, clock | connect loop, completion loop, report | pool and ring at their limit, failures, ending the test |
| `TCPServer` | `_clSockets` of server and client, epoll interest | accept, `readAll`, `send`, `connect` with time-out, `close` | edge-triggered events, reused descriptors, partial sends, hang-ups |
| `Data Structure/List.hpp` (`List`) | nodes, `m_head`, `m_tail`, `m_size` | append, insert, remove…, swap, clear | consistency of both pointer directions, first and last element |
| `Data Structure/Queue.hpp` | same kind of nodes | push/pop at both ends, clear | last element leaving from either end, use after clear |
| `Data Structure/SpinLock.hpp` | `m_state` | `lock`, `unlock` | several threads exchange one flag |
| `kv_store` reactor and protocol | event map, client buffers, cursor of the parser | `doRun`, `onAccept`, `onRecv`, `recvImp`, `analysis` | one accept per edge, error paths of `recv`, framing across segments, cursor arithmetic |
| `kv_store/CMByteArray.*` | shared buffer, size, capacity | append, insert, remove, find, split, detach | copy on write, growth, arrays appended to themselves |
| `KcpUdp` | control block (windows, send and receive queues and buffers, acknowledgements, timers), UDP socket, clock | `ikcp_send/recv/input/flush/update/check`, the loop of `main` | loss, duplication, reordering, windows that shut, retransmission, a clock that wraps |
| `Network/Windows/iocp.*` | completion port, worker threads, `clntSocketVec`, one context per socket and per operation | `startIocp`, `workFun` (accept, read, write, failure), `close` | workers without a lock, contexts deleted with operations in flight, handles used again, joins |
| `Vector.hpp`, `Stack.hpp`, `StaticList` | arrays and indices | container operations | growth, copies and moves, index arithmetic |
| `Network/Windows`, the rest | sockets, select sets | wrappers, select loop, examples | see section 6 |
| `Coroutine` | `fdCxtMap`, saved contexts, epoll set | hooked accept/recv/send, scheduler | see section 6 |
| `DNS`, `TCP`, `p2p`, `TCPClient`, `Tree.hpp`, `MindMap` | little or none | examples | see section 6 |

Interactions: `ThreadPool/main.cpp` uses the pool (composed in `AddTaskMain`);
`TestTcpClient` and `EchoTcpServer` talk to each other over sockets (composed in
`EchoTcp`); `qpsTool` and `ioURingServer` each talk to the kernel through an
io_uring, and to peers that are not part of the program; two processes of
`KcpUdp` talk to each other over UDP; the reactor of `kv_store` hands what it
reads to the protocol parser; the IOCP workers call the callback of
`WinNetwork.cpp`, which sends; `DataStructure.cpp` uses `List` beside a standard
container and `SpinLock` from eight threads; `Stack` keeps its elements in a
`Vector`.

## 2. Modules

| Module | Models | State and actions |
|---|---|---|
| `TaskPool` | abstract specification | what users of the pool see: a queue, running and finished tasks, a phase |
| `ThreadPool` | `ThreadPool.{h,cpp}` | one action per access to shared state: `WorkerLock/Take/Wait/Exit/Unlock/Run`, `AddTask(s)` and `Client…`, `CloseLock/Swap/Unlock`, `Join`. `accepted`, `handed`, `dropped`, `done` are history |
| `AddTaskMain` | `ThreadPool/main.cpp`, composed with the pool | `EXTENDS ThreadPool`; `Main…` steps and the steps of `AddTask::doRun` replace the pool's `WorkerRun` |
| `LRUSpec` | abstract specification | a recency-ordered sequence with a capacity |
| `LRU`, `MCLRU` | `LRU.hpp` | links, heap and map; every call is one action and follows the code's order of pointer assignments |
| `IoUringServer` | `ioURingServer/main.cpp` | `sq` (queued), `ops` (with the kernel), `cq` (completed); one action per handler; kernel and clients external |
| `QpsTool` | `qpsTool/main.cpp` | `poolElState`, contexts, ring, clock; connect loop, completion loop, report |
| `EchoTcp` | `TCPServer/TcpServer.{h,cpp}` and the two programs of `main.cpp` | state per side; `EpollWait`, `Accept`, `Recv`, `Send`, `Erase`, `ClientConnect`, …; sockets and epoll external |
| `SequenceHelpers` | external: standard containers | the sequence operators of the container modules. They have the names of `SequencesExt`, which is not used there because it brings `Bags` with it: six copies of that in the context make every obligation of the proofs take seven times as long |
| `Nodes` | the nodes of `List.hpp` and `Queue.hpp` | operators on a memory of pointers |
| `List`, `Queue` | `List.hpp` (`List`), `Queue.hpp` | one action per member function, with a reference sequence `ref` beside |
| `Vector`, `Stack`, `StaticList` | `Vector.hpp`, `Stack.hpp`, `List.hpp` (`StaticList`) | the same, with arrays by block name, and `uint` arithmetic modulo `Wrap` |
| `ByteArray` | `kv_store/CMByteArray.*` | arrays that share buffers, with zeros behind the size; `Hold` frees the buffers without an owner, `search` is a call of `find` |
| `DataStructures`, `MCDataStructures` | the callers of all of them, and `DataStructure.cpp` | a behaviour uses one structure (`test`, one of `Tests`), as the program does. `ContainerAssumption`: the head node and Null are not among the nodes, whose number is finite and is `MaxSize` > 2 |
| `KvReactor`, `KvStore` | `ReactorServer.cpp`, `Network.cpp`, `Protocol.cpp` | `EpollWait`, `OnAccept`, `OnRecv` with everything it calls; `analysis` as a recursive function on the units of a stream; clients external |
| `Kcp` | `KcpUdp/ikcp.c` and the loop of `main.cpp` | one turn of a process is one action (`Turn`): flush, read, `ikcp_input`, `ikcp_recv`, print, `ikcp_send`; segments as records with the code's sizes, timers that expire; `Parses` is what a cut datagram and the one behind it may be parsed into; UDP external |
| `KcpClock` | `ikcp_update`, `ikcp_check`, `main`'s `nextUpdate` | one process' milliseconds, modulo 2^`W` |
| `KcpUdp` | both, for TLC | the two are run one at a time (`Protocol`): they share no state but the decision to flush, which `Kcp` leaves open |
| `Iocp`, `MCIocp` | `iocp.{h,cpp}` with the callback of `WinNetwork.cpp` | steps of each worker between two accesses to shared state, `close` in its steps; completion port, AcceptEx and clients external |
| `SpinLock` | `SpinLock.hpp` and its test | `lock` as exchange and spin, increments as read and write, `main`'s start, join, print |

Freed memory is part of the models of containers: `heap` is the set of nodes
allocated; a step that reads or writes a node outside it sets `ub`, after which
nothing is claimed. Uninitialised values are a nondeterministic choice
(`InitialRet` of `AddTaskMain`).

Where the code cannot carry out a call, the model does what the code does and
a constant names the discipline of the caller: `PutPresent` of `LRU`, `Careful`
of `List`. `Queue` needs no such switch: the history variable `stale` says that
the queue has just been cleared. The modules of the other containers list at
their head the calls that the code does not carry out; `careless` becomes TRUE
with the first of them, and nothing is claimed from then on, so that the
properties say exactly which calls are sound. Members that take their element by
`const T&` get an argument `from`, the place of the element if it is one of the
container's own: such an element may have been moved, or freed with the old array,
when the code reads it, and the calls for which that happens are named like the
others. `push` of `Stack` takes its element by value and hands `Vector::append` a
reference to that copy, yet `from` is left open there too. In the same way `down` and `mixed`
of `KvReactor` record why the process ended and which clients were read other
than one command at a time, and `excused` of `Iocp` that handlers overlapped or
a connection ended with an answer under way.

## 3. Runs

| Run | Instance | Shows |
|---|---|---|
| `pool` | 3 workers, 2 clients, 3 tasks, vectors of up to 2, one empty vector, one spurious wake-up | `FifoOrder`, `RunOnce`, `NoLostWakeup`; the pool implements `TaskPool`; every task is served or discarded by `close()`; the destructor returns |
| `add_task_main` | 2 workers, 3 tasks, any initial `_ret` | the printed sum misses only tasks whose flag looked set from the start, and only those may touch `sum` after its scope; the program ends |
| `lru` | capacities 0 to 3, 4 keys, 2 values, symmetric | ring and map intact, each node freed once, implements `LRUSpec` when a key is put only after a miss, as `main.cpp` does |
| `lru_reput_map` | the same, with `put` of present keys | **violation**, see section 5 |
| `iouring` | 2 descriptors, ring of 2, 3 connections, 2 bytes each, 1 failure, short sends | one operation per connection unless the ring had no entry for it, no byte lost, every byte echoed, hung-up clients closed |
| `qps` | 3 sockets, 1 spare context, ring of 3, batches of 2, 3 failures, both modes | contexts and sockets accounted for exactly, pool and ring suffice, the test ends |
| `echo_tcp` | 1 port, 2 connections, 2 descriptors per side, 2 messages, one time-out, one reset, one full buffer, `SendLimit` 0 | no lost edge, entries own their descriptors, nothing lost or reordered, every message answered, every hang-up noticed |
| `list_remove_one` | 3 nodes, any caller of `append` and `removeOne` | **violation**, see section 5 |
| `data_structures` | lists of up to 4 nodes, three of them interchangeable; queues of up to 3 of 4 nodes, 2 values, two vectors, stacks or byte arrays, growth by 1 or 2, `uint` modulo 8, texts of one or two bytes with and without a 0; 3 threads of 2 rounds under the lock | equal to the reference, memory used and freed correctly, the right elements at the ends; the lock excludes, the sum is exact, `main` prints |
| `kcp` | windows of 2 and 3, headers of 2 and datagrams of 8 bytes read into 5, up to 3 messages of 1 to 7 bytes, 2 faults, 2 datagrams per direction; a clock of 6 bits | messages are printed once and in order, except for what a cut datagram becomes; a segment is forgotten only after it was accepted, unless the cut was inside a header; every message that fits the reader with its header is printed, with the same exception; flushes come in time except once at the wrap |
| `kv_reactor` | 2 clients, 3 commands cut into segments everywhere, one known command, one client that may reset | framing holds while each read finds one command; the three causes for which the process ends; no edge is lost, and which connection waits |
| `iocp` | 2 workers, 2 connections of one message, one of which may be reset, 3 handles, `close()` at any time | undefined behaviour needs handlers that overlap, an answer under way at the end of its connection, a failed AcceptEx or `close()` with connections; connections are served while a worker is left; `close()` returns if it finds a read for each worker |

### Bounds

Every bound is a constant named in its module. They are chosen so that the
difficult case occurs: three workers and three tasks, so that one worker can
sleep, one run and one be on its way while a notification is pending; a ring of
two entries for two connections and the acceptor, so that it overflows; as many
descriptors as connections or fewer, so that closed ones are used again; one
spare context, the least for which the order "take the successor's, return the
old one" works (the program has ten); capacity 0 and 1 as well as 3 for the
cache; `SendLimit` 0, so that the limit of sends per turn bites with two
sockets; lists of four, so that `findNode` walks from both ends and a range can
end before, at and after the last element; send windows of two segments for three
messages, so that the window shuts and fast retransmission is reached, and a
message of two fragments that the reader's buffer cannot take; a clock whose
half range holds every interval and time-out several times, as 2^32 ms does; a
header of two bytes, the least that can be cut, and a reader that takes two
segments of a datagram whole, or one and a half, or a header and part of a payload;
commands of one, two and three units for a parser that goes wrong at the second
line; as many workers as connections, so that both may handle completions of one
connection, and no more handles than connections and waiting AcceptEx, so that
closed handles come back. Each property has a mutant, listed in
PROJECT.json, of the kind an editing slip would produce, which breaks it in the
same instance: the instances are large enough for the case to happen.

### Fairness

Fairness is weak and per thread: a thread that can run its next step is
eventually scheduled. This is what an operating system gives, and all the code
relies on.

- `ThreadPool`: each worker, each call of `addTask` in progress, the constructor
  and `close()`. Nobody is obliged to call `addTask` or the destructor, and
  spurious wake-ups may never come. Since the mutex is taken in one step, weak
  fairness of a worker waiting for it suffices in these finite instances only
  because clients submit finitely many tasks.
- `AddTaskMain`: main and each worker, task bodies included.
- `IoUringServer`: the server's thread, and the kernel completing an operation
  that can complete. Clients need not do anything.
- `QpsTool`: the tool's thread, the clock, and each operation completing.
- `EchoTcp`: the two processes. Resets never have to happen.
- `DataStructures`: each thread of the lock's test and main. The lock itself is
  unfair; `MainPrintsSum` holds because every thread makes finitely many rounds.
- `KvReactor`: the loop. Clients may stop anywhere.
- `KcpUdp`: the loops of both processes run for ever, a flush or a read that
  stays possible happens, and timers expire. For a segment's timer this is
  strong fairness: the window probes, which reset nothing of it, come and go.
  The network may lose only finitely many datagrams (`faults`), without which no
  protocol delivers anything.
- `Iocp`: each worker, `close()` once it was called, and the kernel completing
  what can complete. Clients may stop anywhere and nobody has to call `close()`.

The liveness of `KvReactor` and `Kcp` is stated with `[]<>~Can \/ []<><<A>>_v`,
where `Can` is the enabling condition written out; that is weak fairness of `A`
with an ENABLED that TLC evaluates quickly.

Deadlock is checked in `pool`, `add_task_main`, `lru`, `lru_reput_map`, `kcp`
and `echo_tcp`. The other runs stop by design: a client has used up its bound,
the program has ended or met undefined behaviour, a container has been destroyed.

## 4. Theorems

All proofs are checked by TLAPS with SMT, Zenon and LS4, for every value of the
constants allowed by the assumptions of the modules (`threadCount` may be 0;
sets of tasks may be infinite; clients are finite in number). Z3 knows nothing of
the powers in `2 ^ W`: `WidthAssumption` of `KcpClock` states what is needed of them.

**ThreadPoolProofs.** `TypeCorrect`, `DestructionIsQuiet`,
`NothingStartsAfterClose`, `TasksInOrder`, `TasksRunOnce`. The type invariant is
not inductive alone: a worker in "run" must hold a task and an unborn worker has
an index above the constructor's (`TypeInv`). `SafeInv` adds who holds the mutex
at which program counter and what each phase of the owner implies for the flag,
the queue and the joined workers. `TaskInv` adds that submitted tasks are fresh:
batches of different clients are disjoint from each other and from what was
accepted (`FreshInv`), without which a push could duplicate a task. Lemmas on
sequences (`AppendToConcat`, `MoveHead`, `AppendRange`, `TailRange`,
`ConcatInjective`) carry the step where a head moves from `tasks` to `handed`.

`NoWakeupIsLost`: while a worker sleeps and no call of `addTask(vector)` still
has to notify, the number of queued tasks is at most the number of awake workers
plus the number of calls of `addTask(task)` still to notify. The proof counts: a
push adds one notification, a notification turns into an awake worker, a worker
that takes a task leaves the count together with it, and a worker goes to sleep
only when the queue is empty.

`PoolImplementsTaskPool`: with `tasks`, the tasks held by workers and `done` as
the abstract state, every step is a step of `TaskPool` or leaves its state alone.
That at most `threadCount` tasks run follows from an injection of the held tasks
into the workers other than the one that takes.

`SumIsComplete`, of the demo program (the module extends `AddTaskMain`), for any
number of tasks and workers. Every step of the program is a step of the pool or
leaves it alone (`PoolSteps`), so the pool's invariant `TaskInv` holds here too.
On top of it: `SectionInv`, what a worker has read of `sum` under the global mutex
is still true; `SumInv`, `sum` is the number of tasks that have incremented it
(`Summed`, finite), and a flag that is set belongs to one of them or was set from
the start; `WaitInv`, `main` has erased a task from `allTask` only after it saw
its flag. That a task is counted once follows from `RunOnce` of the pool; that a
counted task is not still queued (`NotBoth`) from `FifoOrder` and the freshness of
submissions.

**QpsToolProofs.** `PoolIsExact`, `SocketsHaveOneOp`, `NothingIsLacking` for any
number of sockets, failures and ring entries (at least one per socket) and at
least one spare context. The three are inductive only together: that the pool
has a context for the successor follows, by a pigeonhole on the injection from
contexts in use to sockets, from one operation per socket; that it stays so
follows from no operation being dropped.

**IoUringServerProofs.** `OneOperationEach` for any number of descriptors and
connections, any number of failures and a submission queue of any size, also one
that overflows. `OneOpEach` counts; the invariant says instead where a descriptor
is: queued, with the kernel, completed, or brought by an accept that is not
handled (`Placed`). `Unique`: in one of these and once; this is what makes the
descriptor of the first completion free for its next operation. `Kept`: the
descriptors that are somewhere are open, and every open one is somewhere unless
its operation got no entry; without the first half the kernel could hand out a
descriptor that an operation still uses. `TypeInv` ties failed completions to
`failures`, on which the claim about the acceptor rests. Each step moves one
descriptor from one place to the next (`QueueOne`, `SubmitAll`, `CompleteOne`,
`HandleOne`), and `Counted` turns places into numbers.

`NoByteIsLost`, for the same instances: what came back to a client, what the server
has in hand and what it has not received form one line (`Line`), whose bytes are in
order whatever happened (`Up`) and all there unless a send failed, the connection
was cut or its operation got no entry (`Bytes`). That the bytes in hand are one
piece follows from `Placed` and `Unique`.

**EchoTcpProofs.** `MapsOwnDescriptors` and `EdgesAreKept` for any number of
ports, descriptors, connections, resets and failed sends. `SideInv` describes one program by its
map, descriptors, epoll set, edges, events and the descriptor being handled, so
that what `AddSocket`, `CloseFd` and `EraseEntry` do is proved once, for values
(`Adds`, `Closes`, `Erases`), and used for both programs. Beside ownership
(`Owns`) the invariant needs that edges are those of open descriptors and events
those of entries (the client would otherwise look up a missing one), that the
descriptor being handled is not among the events left (erasing its entry would
otherwise leave one behind), and that the port of a listening event still has a
connection to hand out. A new descriptor was free, so it never replaces a live
object (`Adds`).
`EdgesAreKept` adds to that invariant why an edge reaches the right descriptor:
the descriptors of a side have different connections, made and not closed there
(`Held`), and what waits in a backlog is queued once and neither accepted nor
closed by the server (`QueuedInv`), so a connection that is accepted or made gets
its first descriptor. With that, arriving data, an end or a reset makes an edge on
the one descriptor concerned, a socket that is readable when it is added makes one
itself, and `ReadAllReturns` gives up a descriptor only when nothing is left to
read (`Noticed`). `Held` also says that a turn begins with an empty batch, which
is why epoll_wait overwrites no event.

`MessagesAreKept`: the messages of a connection move along one path, from the
client's sends through both programs back to what it has printed, and are all on it
in order unless the connection was cut or broken (`Whole`, in `FlowInv`). Beside
the edges it needs that a process between two handlers has nothing in hand
(`HandsInv`) and how connections end (`ClosedInv`): the server closes one that is
not broken only after the client did, and the client only before it sent anything.

**IocpAndLRUProofs** holds two sets of proofs that share no fact.

*The cache.* `MapAndListAgree`, `CacheIsMemorySafe` and `CacheImplementsLRU` for
any keys, values, nodes and capacities, for callers that put a key only after a
miss (`~PutPresent`, as `main.cpp` does; the run `lru_reput_map` shows why). Linked
memory is described by a numbering of the ring (`Ring`): the sentry is at 0 and at
`c + 1`, the nodes at 1 to `c`. Every pointer operation turns one numbering into
another (`Pushed`, `Without`, `Moved`), which is where the order of the pointer
assignments counts, and the walk of `clear()` along the next pointers visits the
nodes in the order of the numbering. The refinement reads the abstract sequence
off the numbering (`Order`) and the map.

*The IOCP server.* `SoundWhileSerial`, which is `SafeWhenSerial` for any number of
workers, clients and handles and any order in which the kernel completes
operations and gives handles out again. `PortAssumption` asks for finitely many
workers, handles for the first accepts, and names for the listening socket and
for a free handle that are no client's. Until something excuses the rest of the
execution the invariant is `Sound`: one worker at a time handles a completion and
only it, or `close()`, is in the vector (`Alone`); a handle has one owner and
operations are in progress only on handles of their own connection (`Owned`); what
waits in the port or is in a worker's hand finds its context, its place in the
vector and its handle, or that handle is free because the worker that deletes the
context has just closed it (`Backed`). None of this would survive the deletion
of a context without `OneToken`: AcceptEx and the read that follows are one
operation that goes from the kernel to the port, to a hand and back, so whoever
holds it holds the last reference but for answers under way.

**KcpAndKvReactorProofs** holds two sets of proofs that share no fact.

*The reactor.* `CommandsAreKept` and `DownOnlyForCause` for any number of
clients and any commands. The parser's loop is a recursive function of the number of
turns; what it keeps is proved by the least turn at which it would not
(`AnalysisInside`: cursor and size stay within the buffer unless it reports an
overrun; `OneCommand`: one whole command is taken out exactly). The invariant adds
that the commands handled of a client that is not `mixed` are the first ones of its
stream and that nothing is left in its buffer (`InOrder`).

*KCP.* `FlushesOnTime` for any interval, width and step that leave room
below half the range of the counter. `Left(x, y)` names what is left to `ts_flush`
and to `nextUpdate` on a clock that does not wrap: `ts_flush` is `now + x` and
`nextUpdate` is `now + y` modulo the width, with `y <= x` and no more than an
interval in all. The signed difference of two times is then what it should be
(`Wraps`), except after a turn overslept the wrap.

`PrintsInOrder` and `KeepsUntilAccepted` are about the protocol, for any windows,
sizes (`Overhead <= RecvBuf < Mtu - Overhead`, as 24, 1024 and 1400 are), lengths of
messages, sets of `Strays` and number of faults, on a network that loses, duplicates,
delays and reorders. What a process has read so far decides how much can be said of
it (`Way`): nothing but whole segments ("clean"), also payloads completed by other
bytes ("torn"), or also headers of shifted bytes ("shifted", after which only order
and windows are claimed). A fourth case, "long", is the direction whose messages
`ikcp_recv` refuses: what matters there is that the first one is never taken out
(`Kind` says which direction is of that kind). The invariant (`KcpInv`) ties three
places together:
- `SndInv`: `snd_buf` is sorted and within the window, and every number sent that it
  no longer holds is one that may be acknowledged (`Forgets`, `MayAck`): what the
  other side has accepted, or anything once a shifted header was believed;
- `RcvInv`: `rcv_buf` is within the window, only what was accepted waits to be
  acknowledged, and message, fragment and sequence number of what was received fit
  the messages printed before (`Receives`);
- `Datagrams`: whatever is under way tells the truth, however old: an acknowledged
  segment has been accepted, `una` is no larger than `rcv_nxt`, and a payload is that
  of its sequence number (`Told`).

The last one survives because a control block never takes back what it announced
(`Later`), so a datagram that was true stays true (`DatagramsStay`), late, repeated
or lost. `ReadingsAreTold` is the step from the bytes of the network to the segments
`ikcp_input` sees: a datagram cut at `RecvBuf` and the one behind it parse into
segments that are `Told`, with a payload that may be `Torn`, unless the cut, or the
end of a torn payload, fell inside a header. The parse of `ikcp_input`, the packing of
`ikcp_flush` and the loop around `ikcp_recv` are walks over sequences that stay in a
set (`InputStays`, `PackIs`, `RecvStays`).

**ContainerProofs** and **DataStructuresProofs** are about `DataStructures`: what every
member function that is modelled does, for any number of nodes and any vector size, in
any sequence of calls up to the first one that a module names as not carried out. `ContainersKept` is the inductive invariant, one conjunct per
structure; from it follow `ContainersAreMemorySafe` (`MemorySafe`), `ContainersAsReference`
(`SameAsReference`) and `EndsArePopped` (`PopsTheEnds`).
- *List and Queue* (`ListInv`, `QueueInv`). A function `r` numbers the nodes: the head node
  is at 0, the nodes at 1 to `c`, Null at `c + 1` (`Linked`), and `Carries` says that their
  data are the reference's. Invariants over pointers alone would not do: that both
  directions agree, that no node is met twice and that a walk of k steps arrives at node k
  are one fact about `r`. Every assignment sequence of the code makes one numbering out of
  another (`Inserted`, `Removed`). `findNode`, `clear` and the searches are walks along it
  (`WalksOver`), from either end. `removeOne` unlinks nodes while it walks on:
  `Half` describes the list with the nodes found so far taken out.
- *Vector and Stack* (`VectorInv`, `StackInv`). Each living object owns one array that no
  other object owns, large enough, with the reference in its first places; arrays and owners
  are the same set (`Sound`). A call changes one object and its array and
  leaves the other as it was (`Changed`). Growth copies into a new array and deletes the old
  one before the new element is stored: an own element appended or inserted then is read
  from freed memory, and one that lies behind the gap has been moved when it is read. These
  calls are set apart (`careless`); with room to spare and in front of the gap the own
  element is read unharmed, which is part of what is proved.
- *CMByteArray* (`BytesInv`). Two strings may share a buffer. That a call writes only to a
  buffer of its own, after `detach`, is what makes the other string stay as it was (`Keeps`).
  Insertion and removal are splices (`IsSpliced`). Behind the size a buffer holds zeros, and
  texts may hold zeros too: `find` returns the least place where the pattern occurs in the
  text followed by those zeros, and `split` cuts there (`CutUp`, `CutBy`), so a separator
  that ends in 0 may be found across the end; one that does not is found in the text alone.
  Where the buffer ends inside a comparison the code reads on behind it (`overreads`), with
  a result nobody knows; this happens only if the buffer is full or the pattern has a 0
  before its last byte.
- *StaticList* (`StaticInv`). The indices in list order are an injective function `c`
  (`Indices`): the first is 1, place 0 points to the first and the last, both links of
  neighbours agree, and a place in use has a `previous` other than -1 (`Rowed`). Some places
  outside the list stay marked as in use after a removal; the invariant
  therefore counts the marked ones (`Taken`) and bounds them by the counter of places.

As in the runs, this is claimed until the first call that the code does not carry out
(`stale`, `careless`, and `Careful` of `List`); the modules list these calls.

Most of these calls are loops, written as recursive functions of the number of turns. What
they compute is proved from the least turn at which it would be false.

*The spin lock.* `LockExcludes`, `NoIncrementIsLost`, `PrintedSumIsExact` for
any number of threads and rounds. The sum equals the cardinality of the set of
pairs (thread, round) carried out (`Increments`); adding a pair adds one. The
invariant needs that a thread about to write has read the current sum.

Model-checked only: liveness, which needs fairness and ENABLED, and the prover does not
handle these. Every invariant and every action property of a passing run is stated by a
theorem; the two properties of the violation runs are refuted. Recursive functions are no
obstacle in themselves: that one exists is proved from the set of numbers up to which it does, and what
it computes from the least number at which it would not (`LeastNumber`, `Iterates`).

## 5. Findings

- **LRU, `put` of a present key** (`lru_reput_map`). In `LRU.hpp` line 137 the
  else branch declares a second `node`; line 140 then stores the outer `nullptr`
  in the map. The value is not replaced and the next access dereferences null.
  `main.cpp` never does this: it puts only after `get` has missed.
- **List, `removeOne` of the last element** (`list_remove_one`). `m_tail`, "a
  data node" according to its declaration at line 52, is left pointing to the
  node that lines 436-439 delete.

Behaviour met while modelling that the passing runs make explicit instead:
`Task::_ret` is uninitialised, so a task may look finished before it has
run; `Queue::clear` leaves a stale first pointer; `List::insert` at 0 into a
list with elements and `removeAt(pos, len)` that ends before the last element do
not do what they should; the io_uring server silently forgets a connection when
the ring is full, and stops accepting after one failed accept; `qpsTool` in
Amount mode always reports failure and spins for ever when every socket has
failed.

Behaviour of the parts modelled later, again made explicit by the passing runs:

- `KcpUdp/main.cpp` reads datagrams of up to 1400 bytes into 1024 and appends
  what it reads: a payload may be completed by the header of the next datagram
  (`Torn`), and a header by anything (`Stray`). The model does not compute bytes:
  `Strays` is an overapproximation of what a parse that has lost the borders may see,
  since the conversation number and the text are the user's. What it leads to: eight segments
  of 127 bytes, header included, and the first 8 bytes of a ninth make 1024, so that the
  next datagram's first 16 bytes become time stamp, `sn`, `una` and `len`. Its time stamp
  is taken for `una` and its `sn` for `len`. The comments at `ikcp.c:642` and `ikcp.c:873`
  say that everything before `una` has been received; `ikcp_parse_una` deletes from
  `snd_buf` whatever is below a number of milliseconds, received or not, and it is never
  sent again. That is why `ForgetsOnlyAccepted` and `EveryMessagePrinted` except a side
  that has believed such a header (`shifted`). A message of 1001 to 1376
  bytes is one segment whose datagram is always cut, so it is printed at best with a torn
  end (up to 1024) or never; a longer one is never taken out by `ikcp_recv` and
  blocks its direction for good; one of 128 segments or more is refused by `ikcp_send`.
  `nextUpdate` is compared with `>=`: a turn that oversleeps the wrap of the
  clock does not flush for 49 days (`FlushesInTime`).
- The kv_store parser forgets the header of a command that arrives in two
  segments, and from the second command of a read on the cursor leaves the
  buffer (`mixed`). The process ends at the first command it knows, because
  `getCommand` returns nothing, and at the first connection that is reset. The
  second of two connections that arrive together waits for a third one.
- The IOCP server: two handlers change `clntSocketVec` at once; a reset with an
  answer in flight deletes the context twice; a failed AcceptEx takes the
  listening socket for a context; every failed operation ends a worker;
  `close()` joins workers that nothing wakes; a server with one thread posts no
  AcceptEx at all.
- `List`, `Vector`, `StaticList`, `CMByteArray`: the calls listed at the head of their
  modules, among them those whose argument is an element of the container itself.

## 6. Not modelled

- kv_store: `onSend`, `sendImp` and the EPOLLOUT half of the loop. No descriptor
  is registered for writing and nothing fills `_sendBuffer`, so they never run.
  `KVStore` is not used by the program.
- KCP: the estimate of the round trip (timers may expire at any time), stream mode,
  `nodelay` settings other than the program's, the log. The `sn` of a window probe is a
  leftover of the last acknowledgement in the code and 0 in the model; nobody reads it.
- `Vector::find` returns an undeclared name and does not compile.
- `Iocp`: an AcceptEx that fails at once, for lack of resources; WSARecv and WSASend may
  fail at once on a connection that was reset (`Posted`).
- `CMByteArray::chop` returns nothing; the copies of the class in other
  directories are earlier versions.
- `StaticList`: moves and assignments return nothing, `removeOne` and `swap` do
  not compile. `Vector` and `StaticList` iterators are plain pointers.
  `Stack::size` returns `m_top`, one less than the number of elements; the
  assignments of `Stack` do not compile.
- `Network/Windows`: `network.cpp` wraps Winsock calls one to one; `select.cpp`
  and the `main` of `WinNetwork.cpp`, which returns before its examples, have no
  state beyond the sockets.
- `Coroutine`: saved contexts and stacks need an abstraction of `ucontext` that
  the code's undefined use of it does not support.
- `DNS`: encodes one query and parses one answer; a pure format conversion.
- `p2p`, `TCPClient`: short examples without state of their own.
- `TCP`: unfinished; `findTCB` is defined twice and `tcp()` does nothing with
  what it finds.
- `Tree.hpp`: traversal templates that nothing instantiates.
- `MindMap`: notes.
- Copying and moving of `List` and `Queue`: the constructors use undeclared or
  uninitialised members and cannot be instantiated meaningfully.
- Printing, option parsing, addresses, socket options and timing measurements.

## 7. Plan

1. `Coroutine`: scheduler, saved contexts, descriptors used again.
2. `WinSockets`: `select.cpp` with Winsock as external operations.
3. `DnsMessage`: encoding and parsing of names as operators.
