------------------------------- MODULE KvStore -------------------------------
(* kv_store for the model checker: one client with two commands that no table   *)
(* of the server knows, one with a command it knows that may reset.             *)
EXTENDS KvReactor, TLC

CONSTANTS c1, c2

MCWords == KnownWords \cup {"Put"}
MCClients == {c1, c2}
MCCommands ==
  (c1 :> <<<<Text("Put"), EndOfLine>>, <<Text("Put"), Text("Put"), EndOfLine>>>>)
  @@ (c2 :> <<<<Text("Get"), EndOfLine>>>>)
MCMayReset == {c2}
=============================================================================
