------------------------------- MODULE MCIocp -------------------------------
(* Two workers, two clients of which one may reset, a handle for each         *)
(* and one for the waiting AcceptEx, so that closed ones are given out again. *)
EXTENDS Iocp

CONSTANTS c1, c2

MCWorkers == {"w1", "w2"}
MCClients == {c1, c2}
MCMayReset == {c2}
MCHandles == 1 .. 3
=============================================================================
