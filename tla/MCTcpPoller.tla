---------------------------- MODULE MCTcpPoller ----------------------------
(* TcpPoller on a small instance. *)
EXTENDS TcpPoller, TLC

CONSTANTS agent, http, named, h1

(* All items have the same host. *)
MCAddressOf == [i \in Item |-> h1]

(* Items with addresses, or one with a name. *)
MCAssignments == {{agent, http}, {named}}
=============================================================================
