---------------------------- MODULE FifoChannel ----------------------------
(***************************************************************************)
(* What libs/zbxipcservice/glb_ipc2 promises its users, without chunks,    *)
(* pointers, locks or memory: one unbounded first-in first-out channel of  *)
(* messages per consumer.  Any process may append to any channel; only the *)
(* consumer takes, always the oldest message, and exactly once.            *)
(***************************************************************************)
EXTENDS Sequences, Naturals

CONSTANTS
    Consumer,   \* consumer ids, 0 .. ipc->consumers - 1
    Msg,        \* message contents
    NoMsg       \* "nothing delivered yet"

VARIABLES
    chan,       \* chan[c]: messages sent to c and not yet delivered
    got,        \* got[c]: the message most recently handed to c's callback
    rcvd        \* rcvd[c]: how many messages c's callback has been given

fvars == <<chan, got, rcvd>>

FInit == /\ chan = [c \in Consumer |-> << >>]
         /\ got = [c \in Consumer |-> NoMsg]
         /\ rcvd = [c \in Consumer |-> 0]

FSend(c, m) == /\ chan' = [chan EXCEPT ![c] = Append(@, m)]
               /\ UNCHANGED <<got, rcvd>>

FReceive(c) == /\ chan[c] # << >>
               /\ got' = [got EXCEPT ![c] = Head(chan[c])]
               /\ chan' = [chan EXCEPT ![c] = Tail(@)]
               /\ rcvd' = [rcvd EXCEPT ![c] = @ + 1]

FNext == \E c \in Consumer : FReceive(c) \/ \E m \in Msg : FSend(c, m)

FSpec == FInit /\ [][FNext]_fvars
=============================================================================
