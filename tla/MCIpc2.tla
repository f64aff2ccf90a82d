------------------------------- MODULE MCIpc2 -------------------------------
(* Ipc2 on a small instance. *)
EXTENDS Ipc2Refinement, TLC

CONSTANTS c1, c2, m1, m2

(* Two queues; one message of normal priority to each, and one of high     *)
(* priority that carries no items (as poller notifications may).           *)
MCRequests == {[to |-> c1, items |-> 2, size |-> 2, msg |-> m1, high |-> FALSE],
               [to |-> c1, items |-> 0, size |-> 1, msg |-> m2, high |-> TRUE],
               [to |-> c2, items |-> 1, size |-> 2, msg |-> m2, high |-> FALSE]}

(* Addresses and senders are interchangeable. *)
Symmetry == Permutations(Addr) \cup Permutations(Producer)

OneQueueRequests == {r \in MCRequests : r.to = c1}
=============================================================================
