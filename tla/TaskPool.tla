------------------------------- MODULE TaskPool -------------------------------
(***************************************************************************)
(* What the thread pool promises its users, with no threads and no locks:  *)
(* submitted tasks start in submission order, at most threadCount at a     *)
(* time, each at most once, and none starts after the shutdown, which      *)
(* discards the ones still queued and ends when the started ones have      *)
(* finished.  ThreadPool implements this specification.                    *)
(***************************************************************************)
EXTENDS Integers, Sequences, FiniteSets

CONSTANTS threadCount, Tasks

VARIABLES queue,     \* tasks submitted and not started, oldest first
          running,   \* tasks started and not finished
          finished,  \* tasks that have run to their end
          phase      \* "open", "draining" after the shutdown began, "closed"

vars == <<queue, running, finished, phase>>

Init ==
  /\ queue = <<>>
  /\ running = {}
  /\ finished = {}
  /\ phase = "open"

Submit(t) ==
  /\ phase = "open"
  /\ t \notin running \cup finished
  /\ \A i \in DOMAIN queue : queue[i] # t
  /\ queue' = Append(queue, t)
  /\ UNCHANGED <<running, finished, phase>>

Start ==
  /\ phase = "open"
  /\ queue # <<>>
  /\ Cardinality(running) < threadCount
  /\ queue' = Tail(queue)
  /\ running' = running \cup {Head(queue)}
  /\ UNCHANGED <<finished, phase>>

Finish(t) ==
  /\ t \in running
  /\ running' = running \ {t}
  /\ finished' = finished \cup {t}
  /\ UNCHANGED <<queue, phase>>

Shutdown ==
  /\ phase = "open"
  /\ phase' = "draining"
  /\ queue' = <<>>
  /\ UNCHANGED <<running, finished>>

\* The destructor returns only when no task is running.
Return ==
  /\ phase = "draining"
  /\ running = {}
  /\ phase' = "closed"
  /\ UNCHANGED <<queue, running, finished>>

Next ==
  \/ \E t \in Tasks : Submit(t) \/ Finish(t)
  \/ Start \/ Shutdown \/ Return

Spec == Init /\ [][Next]_vars
==============================================================================
