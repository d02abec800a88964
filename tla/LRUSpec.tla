------------------------------- MODULE LRUSpec -------------------------------
(***************************************************************************)
(* What an LRU cache promises: it holds at most capacity entries, get      *)
(* returns the value put last for the key and makes it the most recent,    *)
(* and put of a new key into a full cache discards the entry that was      *)
(* unused for the longest time.  LRU implements this specification.        *)
(***************************************************************************)
EXTENDS Integers, Sequences, SequencesExt

CONSTANTS Keys, Values, MaxCapacity, NoValue

VARIABLES capacity,  \* fixed at construction
          order,     \* entries <<key, value>>, most recently used first
          result     \* what the last get returned (NoValue: a miss)

vars == <<capacity, order, result>>

Init ==
  /\ capacity \in 0..MaxCapacity
  /\ order = <<>>
  /\ result = NoValue

Has(k) == \E i \in DOMAIN order : order[i][1] = k

Get(k) ==
  /\ UNCHANGED capacity
  /\ \/ /\ ~Has(k)
        /\ result' = NoValue
        /\ UNCHANGED order
     \/ \E i \in DOMAIN order :
           /\ order[i][1] = k
           /\ result' = order[i][2]
           /\ order' = <<order[i]>> \o RemoveAt(order, i)

\* The entry becomes the first of the others; the last one goes if it is too many.
Enter(entry, others) ==
  LET entries == <<entry>> \o others
  IN  order' = IF Len(entries) > capacity THEN Front(entries) ELSE entries

Put(k, v) ==
  /\ \/ ~Has(k) /\ Enter(<<k, v>>, order)
     \/ \E i \in DOMAIN order : order[i][1] = k /\ Enter(<<k, v>>, RemoveAt(order, i))
  /\ UNCHANGED <<capacity, result>>

Destroy == order' = <<>> /\ UNCHANGED <<capacity, result>>

Next ==
  \/ \E k \in Keys : Get(k)
  \/ \E k \in Keys, v \in Values : Put(k, v)
  \/ Destroy

Spec == Init /\ [][Next]_vars
==============================================================================
