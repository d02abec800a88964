-------------------------------- MODULE Stack --------------------------------
(* MContainer::Stack of Data Structure/DataStructure/Stack.hpp: a Vector with   *)
(* capacity 10, and m_top, the position of the last element.  Both constructors *)
(* copy (Stack(Stack&&) passes an lvalue on); the assignments do not compile.   *)
EXTENDS Vector

CONSTANT capacity  \* 10 in the source

VARIABLES m_top, popped

stackVars == <<vectorVars, m_top, popped>>
m_npos == -1

StackInit == VectorInit /\ m_top = [v \in Vectors |-> m_npos] /\ popped = <<>>

stackConstruct(v) ==
  construct(v, capacity) /\ m_top' = [m_top EXCEPT ![v] = m_npos] /\ UNCHANGED popped
stackCopy(v, t) ==
  copyConstruct(v, t) /\ m_top' = [m_top EXCEPT ![v] = m_top[t]] /\ UNCHANGED popped
stackDestroy(v) == destroy(v) /\ UNCHANGED <<m_top, popped>>
stackClear(v) == clear(v) /\ m_top' = [m_top EXCEPT ![v] = m_npos] /\ UNCHANGED popped

push(v, t, from) ==
  append(v, t, from) /\ m_top' = [m_top EXCEPT ![v] = @ + 1] /\ UNCHANGED popped

\* last() throws if the vector is empty.
pop(v) ==
  /\ Callable(v) /\ Size(v) # 0
  /\ popped' = <<Last(Elements(v))>>
  /\ removeAt(v, m_top[v] % Wrap, 1)
  /\ m_top' = [m_top EXCEPT ![v] = @ - 1]

StackNext ==
  \E v \in Vectors :
    \/ stackConstruct(v) \/ stackDestroy(v) \/ stackClear(v) \/ pop(v)
    \/ \E t \in Vectors : t # v /\ stackCopy(v, t)
    \/ \E t \in Values, from \in Positions : push(v, t, from)

---------------------------------------------------------------------------
StacksTopped ==
  ~careless => \A v \in Vectors : Alive(v) => m_top[v] = Len(ref[v]) - 1

StackPopsLast == \A v \in Vectors : pop(v) => popped' = <<Last(ref[v])>>
=============================================================================
