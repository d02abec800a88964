---------------------------- MODULE DataStructures ----------------------------
(* The data structures of Data Structure/DataStructure and the byte array of    *)
(* kv_store under their callers.  Like DataStructure.cpp, where all tests but   *)
(* one are commented out, a behaviour uses one of them, test; the threads that  *)
(* share a SpinLock are one of the tests.  All others use the same variables.   *)
EXTENDS SpinLock, Sequences

CONSTANTS Tests,   \* the tests that may be run
          NodeIds, m_head, Null, Junk,
          MaxSize  \* elements of the list; the queue is one shorter, the vectors two

VARIABLES test, mem, heap, m_tail, m_size, m_capacity, ub, ref, alive, popped, stale

ASSUME ContainerAssumption ==
  /\ m_head \notin NodeIds /\ Null \notin NodeIds \cup {m_head} \cup Nat
  /\ Null \notin [m_element : Nat \cup {Null}, m_size : Nat, m_step : Nat, m_capacity : Nat]
  /\ IsFiniteSet(NodeIds) /\ MaxSize = Cardinality(NodeIds) /\ MaxSize > 2

L == INSTANCE List WITH Values <- {0, 1}, m_maxSize <- MaxSize + 1, Careful <- TRUE,
       Calls <- {"append", "insert", "removeAt", "removeRange", "removeOne", "swap", "clear", "destroy"}
Q == INSTANCE Queue WITH Values <- {0, 1}, MaxSize <- MaxSize - 1,
       NodeIds <- NodeIds \ {CHOOSE n \in NodeIds : TRUE}
V == INSTANCE Vector WITH Vectors <- {1, 2}, Values <- {0, 1}, Zero <- 0, nullptr <- Null,
       m_maxSize <- MaxSize - 1, m_stepUint <- 2, Wrap <- 2 * MaxSize,
       vec <- mem, arrays <- heap, careless <- stale
S == INSTANCE Stack WITH Vectors <- {1, 2}, Values <- {0, 1}, Zero <- 0, nullptr <- Null,
       m_maxSize <- MaxSize - 1, m_stepUint <- 1, Wrap <- 2 * MaxSize, capacity <- 1,
       vec <- mem, arrays <- heap, careless <- stale, m_top <- m_tail
T == INSTANCE StaticList WITH Values <- {0, 1}, m_stepUint <- MaxSize + 1, m_maxSize <- 2 * MaxSize,
       nodes <- mem, kept <- m_tail, careless <- stale
B == INSTANCE ByteArray WITH Arrays <- {1, 2}, Chars <- {0, 1}, Texts <- {<<1>>, <<1, 0>>, <<0, 1>>},
       Nul <- 0, _defInitcapacity <- 2, MaxLength <- MaxSize - 1,
       bytes <- mem, buffers <- heap, careless <- stale

allVars == <<vars, test, mem, heap, m_tail, m_size, m_capacity, ub, ref, alive, popped, stale>>

MCInit ==
  /\ Init /\ test \in Tests
  /\ \/ test = "SpinLock" /\ mem = Null /\ heap = Null /\ m_tail = Null /\ m_size = Null
        /\ m_capacity = Null /\ ub = FALSE /\ ref = Null /\ alive = Null /\ popped = Null /\ stale = Null
     \/ test = "List" /\ L!Init /\ m_capacity = Null /\ popped = Null /\ stale = Null
     \/ test = "Queue" /\ Q!Init /\ m_capacity = Null
     \/ test = "Vector" /\ V!VectorInit
        /\ m_tail = Null /\ m_size = Null /\ m_capacity = Null /\ alive = Null /\ popped = Null
     \/ test = "Stack" /\ S!StackInit /\ m_size = Null /\ m_capacity = Null /\ alive = Null
     \/ test = "StaticList" /\ T!StaticInit /\ heap = Null /\ alive = Null /\ popped = Null
     \/ test = "CMByteArray" /\ B!BytesInit
        /\ m_tail = Null /\ m_size = Null /\ m_capacity = Null /\ alive = Null /\ popped = Null

MCNext ==
  \/ test = "SpinLock" /\ Next
     /\ UNCHANGED <<mem, heap, m_tail, m_size, m_capacity, ub, ref, alive, popped, stale, test>>
  \/ /\ UNCHANGED <<vars, test>>
     /\ \/ test = "List" /\ L!Next /\ UNCHANGED <<m_capacity, popped, stale>>
        \/ test = "Queue" /\ Q!Next /\ UNCHANGED m_capacity
        \/ test = "Vector" /\ V!VectorNext /\ UNCHANGED <<m_tail, m_size, m_capacity, alive, popped>>
        \/ test = "Stack" /\ S!StackNext /\ UNCHANGED <<m_size, m_capacity, alive>>
        \/ test = "StaticList" /\ T!StaticNext /\ UNCHANGED <<heap, alive, popped>>
        \/ test = "CMByteArray" /\ B!BytesNext
           /\ UNCHANGED <<m_tail, m_size, m_capacity, alive, popped>>

\* The scheduler runs every thread of the SpinLock test again and again.
MCSpec ==
  /\ MCInit /\ [][MCNext]_allVars
  /\ test = "SpinLock" => WF_vars(Main) /\ \A t \in Threads : WF_vars(Thread(t))

---------------------------------------------------------------------------
\* After any sequence of calls, up to the first one that the module of the
\* structure names as not carried out, every structure holds what verify() in
\* DataStructure.cpp compares with: the elements of the reference container, in
\* order, whichever end they are looked for from and whatever shares a buffer.
SameAsReference ==
  /\ test = "List" => L!SameAsReference
  /\ test = "Queue" => Q!HoldsWhatWasPushed
  /\ test \in {"Vector", "Stack"} => V!VectorsAsReference
  /\ test = "Stack" => S!StacksTopped
  /\ test = "StaticList" => T!StaticAsReference
  /\ test = "CMByteArray" => B!BytesAsReference

\* No node, array or buffer is used after it was freed or beyond its end, every
\* one that is allocated is reached from exactly one owner (or shared through
\* shared_ptr), and destructors free all: again up to the first call that the
\* modules name, or for the queue a second clear() with nothing pushed between.
MemorySafe ==
  /\ test = "List" => L!MemorySafe /\ L!WellLinked
  /\ test = "Queue" => Q!MemorySafe
  /\ test \in {"Vector", "Stack"} => V!VectorsOwnArrays
  /\ test = "CMByteArray" => B!BuffersOwned

\* Queue and stack return the elements at their ends, whatever came before.
PopsTheEnds ==
  [][/\ test = "Queue" => (Q!popFront => popped' = <<ref[1]>>) /\ (Q!popBack => popped' = <<ref[Len(ref)]>>)
     /\ test = "Stack" => S!StackPopsLast]_allVars

\* The loops of all threads end and main prints the sum.
MainPrintsSum == test = "SpinLock" => MainPrints
=============================================================================
