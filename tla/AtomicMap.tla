------------------------------ MODULE AtomicMap ------------------------------
(***************************************************************************)
(* What libs/zbxalgo/elems_hash promises the state caches that are built   *)
(* on it, without locks, pointers or memory: a map from ids to values on   *)
(* which every operation takes effect at one moment between its call and   *)
(* its return.  Housekeeping is the one operation that is not atomic: it   *)
(* looks at the elements one by one, and removes one by one later.         *)
(***************************************************************************)
CONSTANTS
    Proc,       \* processes that share the map
    Id,         \* ids of elements
    Val,        \* values an element may have
    Outdated,   \* the values that housekeeping removes
    Empty,      \* what cleaning leaves of an outdated value
    NoVal       \* "no such element", and what a failed operation returns

VARIABLES
    map,        \* map[i]: the value of element i
    call,       \* call[p]: the operation p is executing, or executed last
    stage,      \* stage[p]: "idle", "busy" or, once it took effect, "done"
    out,        \* out[p]: what the last operation of p returned
    ids         \* ids[p]: what housekeeping has found to be outdated

avars == <<map, call, stage, out, ids>>

AInit == /\ map = [i \in Id |-> NoVal]
         /\ call \in [Proc -> [kind : {"none"}, id : Id, val : {NoVal}]]
         /\ stage = [p \in Proc |-> "idle"]
         /\ out = [p \in Proc |-> NoVal]
         /\ ids = [p \in Proc |-> {}]

Effect(p, kind) == /\ stage[p] = "busy" /\ call[p].kind = kind
                   /\ \E s \in {"done", "idle"} : stage' = [stage EXCEPT ![p] = s]
                   /\ UNCHANGED <<call, ids>>

ACall(p) == /\ stage[p] = "idle"
            /\ stage' = [stage EXCEPT ![p] = "busy"]
            /\ \E k \in {"set", "get", "delete", "housekeep"}, i \in Id, v \in Val \cup {NoVal} :
                  call' = [call EXCEPT ![p] = [kind |-> k, id |-> i, val |-> v]]
            /\ UNCHANGED <<map, out, ids>>

ASet(p) == /\ Effect(p, "set")
           /\ map' = [map EXCEPT ![call[p].id] = call[p].val]
           /\ out' = [out EXCEPT ![p] = call[p].val]

(* A set may be refused, but only when the element is there already or is  *)
(* being set by another process.                                           *)
ASetFails(p) ==
    /\ Effect(p, "set")
    /\ \/ map[call[p].id] # NoVal
       \/ \E q \in Proc \ {p} : stage[q] = "busy" /\ call[q].kind = "set" /\ call[q].id = call[p].id
    /\ out' = [out EXCEPT ![p] = NoVal]
    /\ UNCHANGED map

AGet(p) == /\ Effect(p, "get")
           /\ out' = [out EXCEPT ![p] = map[call[p].id]]
           /\ UNCHANGED map

ADelete(p) == /\ Effect(p, "delete")
              /\ map' = [map EXCEPT ![call[p].id] = NoVal]
              /\ UNCHANGED out

Housekeeping(p) == stage[p] = "busy" /\ call[p].kind = "housekeep" /\ UNCHANGED <<call, stage, out>>

ACollect(p, i) == /\ Housekeeping(p) /\ map[i] \in Outdated
                  /\ ids' = [ids EXCEPT ![p] = @ \cup {i}]
                  /\ UNCHANGED map

APurge(p, i) == /\ Housekeeping(p) /\ i \in ids[p]
                /\ ids' = [ids EXCEPT ![p] = @ \ {i}]
                /\ map' = [map EXCEPT ![i] = NoVal]

AClean(p, i) == /\ Housekeeping(p) /\ map[i] \in Outdated
                /\ map' = [map EXCEPT ![i] = Empty]
                /\ UNCHANGED ids

AReturn(p) == /\ stage[p] = "done" \/ (stage[p] = "busy" /\ call[p].kind = "housekeep" /\ ids[p] = {})
              /\ stage' = [stage EXCEPT ![p] = "idle"]
              /\ UNCHANGED <<map, call, out, ids>>

ANext == \E p \in Proc :
            \/ ACall(p) \/ ASet(p) \/ ASetFails(p) \/ AGet(p) \/ ADelete(p) \/ AReturn(p)
            \/ \E i \in Id : ACollect(p, i) \/ APurge(p, i) \/ AClean(p, i)

ASpec == AInit /\ [][ANext]_avars
=============================================================================
