------------------------------ MODULE ElemsHash ------------------------------
(***************************************************************************)
(* libs/zbxalgo/elems_hash.c as the state caches of libs/glb_state use it: *)
(* a hash set in shared memory with one read-write lock for the set        *)
(* (meta_lock) and one per element (rw_lock).  One action is one lock      *)
(* operation or one access to shared memory.                               *)
(*                                                                         *)
(* The model has both uses of the hash, chosen in the initial state: the   *)
(* trigger cache, where elements are removed by the housekeeper only       *)
(* (elems_hash_iterate, then elems_hash_mass_delete), and the item cache,  *)
(* where they are removed by the configuration syncer only                 *)
(* (elems_hash_delete) and the housekeeper cleans values in place.         *)
(*                                                                         *)
(* The data of an element has two fields, stored one after the other, so   *)
(* that a missing exclusion shows as a value nobody stored.  Freed         *)
(* addresses are reused.  What a process does through a pointer to a freed *)
(* element is not followed further: it ends the server (Wild).             *)
(***************************************************************************)
EXTENDS Naturals, FiniteSets

CONSTANTS
    Proc,       \* processes that share the hash
    Id,         \* ids of elements
    Addr,       \* addresses of elements in shared memory
    NULL,       \* no pointer, no process
    Val,        \* values of an element
    Outdated,   \* values the housekeeper removes or cleans
    Empty,      \* a cleaned value
    NoVal,      \* "no value": FAIL
    Caches,     \* subset of {"triggers", "items"}
    May,        \* May[p]: the kinds of operations p executes
    MaxCalls    \* MaxCalls[p]: bound on the operations of p

ASSUME ElemsHashAssumption ==
    /\ NULL \notin Addr \cup Proc
    /\ Outdated \subseteq Val /\ Empty \in Val \ Outdated /\ NoVal \notin Val
    /\ Caches \subseteq {"triggers", "items"}
    /\ May \in [Proc -> SUBSET {"set", "get", "delete", "housekeep"}]
    /\ MaxCalls \in [Proc -> Nat]
    /\ Id # {}

(* There is one housekeeper: its number in CONFIG_FORKS (server.c) is no   *)
(* parameter of the configuration file.                                    *)
ASSUME OneHousekeeper ==
    \A p, q \in Proc : "housekeep" \in May[p] /\ "housekeep" \in May[q] => p = q

VARIABLES
    cache,      \* which cache the hash is
    hash,       \* hash[i]: the element with id i (elems->elems)
    live,       \* addresses in use
    eid,        \* eid[a]: id of the element at a
    data1,      \* data1[a], data2[a]: its data
    data2,
    ewr,        \* ewr[a]: the process that holds rw_lock for writing
    erd,        \* erd[a]: the processes that hold it for reading
    mwr,        \* the same for meta_lock
    mrd,
    pc,         \* pc[p]: where p is
    call,       \* call[p]: the operation p executes, or executed last
    ptr,        \* ptr[p]: its pointer elem
    seen,       \* seen[p]: the first field, once a reader has read it
    out,        \* out[p]: what its last operation returned, NoVal for FAIL
    visited,    \* visited[p]: ids the iteration of p has been to
    ids,        \* ids[p]: remove_ids of glb_state_triggers_housekeep
    calls,      \* calls[p]: number of operations begun (bounds the model)
    hit,        \* hit[p]: its element was removed before it could lock meta again (history)
    down        \* the server has stopped

heap == <<hash, live, eid, data1, data2>>
elemLocks == <<ewr, erd>>
metaLock == <<mwr, mrd>>
locals == <<call, ptr, seen, out, visited, ids, calls>>
vars == <<cache, heap, elemLocks, metaLock, pc, locals, hit, down>>

Ptr == Addr \cup {NULL}
Result == Val \cup {NoVal}
(* Mutant: the configuration syncer removes deleted triggers too. *)
OpsDeleteAll == [triggers |-> {"set", "get", "delete", "housekeep"},
                 items |-> {"set", "get", "delete", "housekeep"}]

(* glb_state_items_remove has no counterpart in the trigger cache. *)
Ops == [triggers |-> {"set", "get", "housekeep"}, items |-> {"set", "get", "delete", "housekeep"}]

Goto(p, l) == pc' = [pc EXCEPT ![p] = l]
Return(p, r) == Goto(p, "idle") /\ out' = [out EXCEPT ![p] = r]

(* glb_rwlock_*: spin until the try-lock succeeds. *)
RdLockMeta(p) == mwr = NULL /\ mrd' = mrd \cup {p} /\ UNCHANGED mwr
WrLockMeta(p) == mwr = NULL /\ mrd = {} /\ mwr' = p /\ UNCHANGED mrd
UnlockMeta(p) == mrd' = mrd \ {p} /\ mwr' = IF mwr = p THEN NULL ELSE mwr
RdLockElem(p, a) == ewr[a] = NULL /\ erd' = [erd EXCEPT ![a] = @ \cup {p}] /\ UNCHANGED ewr
WrLockElem(p, a) == ewr[a] = NULL /\ erd[a] = {} /\ ewr' = [ewr EXCEPT ![a] = p] /\ UNCHANGED erd
UnlockElem(p, a) ==
    /\ erd' = [erd EXCEPT ![a] = @ \ {p}]
    /\ ewr' = [ewr EXCEPT ![a] = IF @ = p THEN NULL ELSE @]

TypeOK ==
    /\ cache \in Caches
    /\ hash \in [Id -> Ptr] /\ live \subseteq Addr /\ eid \in [Addr -> Id]
    /\ data1 \in [Addr -> Result] /\ data2 \in [Addr -> Result]
    /\ ewr \in [Addr -> Proc \cup {NULL}] /\ erd \in [Addr -> SUBSET Proc]
    /\ mwr \in Proc \cup {NULL} /\ mrd \subseteq Proc
    /\ pc \in [Proc -> {"idle", "rdlock", "search", "wrlock", "create", "relock", "elock", "func1",
                        "func2", "eunlock", "munlock", "iterlock", "iter", "visit", "look",
                        "massdelete", "remove", "delete", "unlink"}]
    /\ call \in [Proc -> [kind : {"none", "set", "get", "delete", "housekeep"}, id : Id, val : Result]]
    /\ ptr \in [Proc -> Ptr] /\ seen \in [Proc -> Result]
    /\ out \in [Proc -> Result]
    /\ visited \in [Proc -> SUBSET Id] /\ ids \in [Proc -> SUBSET Id]
    /\ calls \in [Proc -> Nat]
    /\ hit \in [Proc -> BOOLEAN] /\ down \in BOOLEAN

Init ==
    /\ cache \in Caches
    /\ hash = [i \in Id |-> NULL] /\ live = {} /\ eid = [a \in Addr |-> CHOOSE i \in Id : TRUE]
    /\ data1 = [a \in Addr |-> NoVal] /\ data2 = [a \in Addr |-> NoVal]
    /\ ewr = [a \in Addr |-> NULL] /\ erd = [a \in Addr |-> {}]
    /\ mwr = NULL /\ mrd = {}
    /\ pc = [p \in Proc |-> "idle"]
    /\ call = [p \in Proc |-> [kind |-> "none", id |-> CHOOSE i \in Id : TRUE, val |-> NoVal]]
    /\ ptr = [p \in Proc |-> NULL] /\ seen = [p \in Proc |-> NoVal] /\ out = [p \in Proc |-> NoVal]
    /\ visited = [p \in Proc |-> {}] /\ ids = [p \in Proc |-> {}]
    /\ calls = [p \in Proc |-> 0]
    /\ hit = [p \in Proc |-> FALSE] /\ down = FALSE

-----------------------------------------------------------------------------
(* Calls.  A set is glb_state_trigger_set_info or one of the setters of    *)
(* glb_state_items, a get one of the getters (ELEM_FLAG_DO_NOT_CREATE,     *)
(* which locks the element for writing all the same, as only               *)
(* ELEMS_HASH_READ_ONLY asks for the read lock).                           *)
Begin(p, k, i, v, l) ==
    /\ pc[p] = "idle" /\ k \in May[p] \cap Ops[cache] /\ calls[p] < MaxCalls[p]
    /\ calls' = [calls EXCEPT ![p] = @ + 1]
    /\ call' = [call EXCEPT ![p] = [kind |-> k, id |-> i, val |-> v]]
    /\ Goto(p, l)
    /\ visited' = [visited EXCEPT ![p] = {}] /\ ids' = [ids EXCEPT ![p] = {}]
    /\ UNCHANGED <<cache, heap, elemLocks, metaLock, ptr, seen, out, hit, down>>

Set(p) == \E i \in Id, v \in Val \ {Empty} : Begin(p, "set", i, v, "rdlock")
Get(p) == \E i \in Id : Begin(p, "get", i, NoVal, "rdlock")
Delete(p) == \E i \in Id : Begin(p, "delete", i, NoVal, "delete")
Housekeep(p) == Begin(p, "housekeep", call[p].id, NoVal, "iterlock")

-----------------------------------------------------------------------------
(* elems_hash_process *)

ProcessRdLock(p) ==
    /\ pc[p] = "rdlock" /\ RdLockMeta(p) /\ Goto(p, "search")
    /\ UNCHANGED <<cache, heap, elemLocks, locals, hit, down>>

(* Mutant: the hash is unlocked as soon as the element is found. *)
SearchFoundUnlocks(p) ==
    /\ pc[p] = "search" /\ hash[call[p].id] # NULL
    /\ ptr' = [ptr EXCEPT ![p] = hash[call[p].id]]
    /\ UnlockMeta(p) /\ Goto(p, "elock")
    /\ UNCHANGED <<cache, heap, elemLocks, call, seen, out, visited, ids, calls, hit, down>>

(* zbx_hashset_search; without an element meta is unlocked, and a reader   *)
(* returns FAIL.                                                           *)
SearchFound(p) ==
    /\ pc[p] = "search" /\ hash[call[p].id] # NULL
    /\ ptr' = [ptr EXCEPT ![p] = hash[call[p].id]]
    /\ Goto(p, "elock")
    /\ UNCHANGED <<cache, heap, elemLocks, metaLock, call, seen, out, visited, ids, calls, hit, down>>

SearchMissing(p) ==
    /\ pc[p] = "search" /\ hash[call[p].id] = NULL
    /\ UnlockMeta(p)
    /\ IF call[p].kind = "get" THEN Return(p, NoVal) ELSE Goto(p, "wrlock") /\ UNCHANGED out
    /\ UNCHANGED <<cache, heap, elemLocks, call, ptr, seen, visited, ids, calls, hit, down>>

ProcessWrLock(p) ==
    /\ pc[p] = "wrlock" /\ WrLockMeta(p) /\ Goto(p, "create")
    /\ UNCHANGED <<cache, heap, elemLocks, locals, hit, down>>

(* Mutant: create_element does not search again. *)
CreateElementBlindly(p) ==
    /\ pc[p] = "create"
    /\ \E a \in Addr \ live :
          /\ live' = live \cup {a}
          /\ eid' = [eid EXCEPT ![a] = call[p].id]
          /\ data1' = [data1 EXCEPT ![a] = NoVal] /\ data2' = [data2 EXCEPT ![a] = NoVal]
          /\ ewr' = [ewr EXCEPT ![a] = p] /\ erd' = [erd EXCEPT ![a] = {}]
          /\ hash' = [hash EXCEPT ![call[p].id] = a]
          /\ ptr' = [ptr EXCEPT ![p] = a]
    /\ UnlockMeta(p) /\ Goto(p, "relock")
    /\ UNCHANGED <<cache, call, seen, out, visited, ids, calls, hit, down>>

(* create_element: the hash is searched again; an element is inserted with *)
(* its lock taken, and meta is unlocked.                                   *)
CreateElement(p) ==
    /\ pc[p] = "create" /\ hash[call[p].id] = NULL
    /\ \E a \in Addr \ live :
          /\ live' = live \cup {a}
          /\ eid' = [eid EXCEPT ![a] = call[p].id]
          /\ data1' = [data1 EXCEPT ![a] = NoVal] /\ data2' = [data2 EXCEPT ![a] = NoVal]
          /\ ewr' = [ewr EXCEPT ![a] = p] /\ erd' = [erd EXCEPT ![a] = {}]
          /\ hash' = [hash EXCEPT ![call[p].id] = a]
          /\ ptr' = [ptr EXCEPT ![p] = a]
    /\ UnlockMeta(p) /\ Goto(p, "relock")
    /\ UNCHANGED <<cache, call, seen, out, visited, ids, calls, hit, down>>

(* Mutant: the early return forgets the lock. *)
CreateFailsLocked(p) ==
    /\ pc[p] = "create" /\ hash[call[p].id] # NULL
    /\ Return(p, NoVal)
    /\ UNCHANGED <<cache, heap, elemLocks, metaLock, call, ptr, seen, visited, ids, calls, hit, down>>

(* Another process created it meanwhile: FAIL. *)
CreateFails(p) ==
    /\ pc[p] = "create" /\ hash[call[p].id] # NULL
    /\ UnlockMeta(p) /\ Return(p, NoVal)
    /\ UNCHANGED <<cache, heap, elemLocks, call, ptr, seen, visited, ids, calls, hit, down>>

(* The creator holds no lock on the hash between CreateElement and here. *)
ProcessRelock(p) ==
    /\ pc[p] = "relock" /\ RdLockMeta(p) /\ Goto(p, "func1")
    /\ UNCHANGED <<cache, heap, elemLocks, locals, hit, down>>

(* Mutant: everybody takes the read lock. *)
ProcessElemRdLock(p) ==
    /\ pc[p] = "elock" /\ RdLockElem(p, ptr[p]) /\ Goto(p, "func1")
    /\ UNCHANGED <<cache, heap, metaLock, locals, hit, down>>

(* elem_lock: none of the callers passes ELEMS_HASH_READ_ONLY. *)
ProcessElemLock(p) ==
    /\ pc[p] = "elock" /\ WrLockElem(p, ptr[p]) /\ Goto(p, "func1")
    /\ UNCHANGED <<cache, heap, metaLock, locals, hit, down>>

(* p has the element it thinks it has. *)
Owns(p) == ptr[p] \in live /\ eid[ptr[p]] = call[p].id /\ (ewr[ptr[p]] = p \/ p \in erd[ptr[p]])

(* process_func: a setter stores both fields, a getter reads both. *)
ProcessFunc1(p) ==
    /\ pc[p] = "func1" /\ Owns(p) /\ Goto(p, "func2")
    /\ IF call[p].kind = "set"
       THEN data1' = [data1 EXCEPT ![ptr[p]] = call[p].val] /\ UNCHANGED seen
       ELSE seen' = [seen EXCEPT ![p] = data1[ptr[p]]] /\ UNCHANGED data1
    /\ UNCHANGED <<cache, hash, live, eid, data2, elemLocks, metaLock, call, ptr, out, visited, ids,
                   calls, hit, down>>

ProcessFunc2(p) ==
    /\ pc[p] = "func2" /\ Goto(p, "eunlock")
    /\ IF call[p].kind = "set"
       THEN /\ data2' = [data2 EXCEPT ![ptr[p]] = call[p].val]
            /\ out' = [out EXCEPT ![p] = call[p].val]
       ELSE /\ out' = [out EXCEPT ![p] = IF seen[p] = data2[ptr[p]] THEN seen[p] ELSE "torn"]
            /\ UNCHANGED data2
    /\ UNCHANGED <<cache, hash, live, eid, data1, elemLocks, metaLock, call, ptr, seen, visited, ids,
                   calls, hit, down>>

(* ELEM_FLAG_DELETE is 2 and is compared with 1: the branch that deletes   *)
(* the element is never taken.                                             *)
ProcessElemUnlock(p) ==
    /\ pc[p] = "eunlock" /\ UnlockElem(p, ptr[p]) /\ Goto(p, "munlock")
    /\ UNCHANGED <<cache, heap, metaLock, locals, hit, down>>

ProcessUnlock(p) ==
    /\ pc[p] = "munlock" /\ UnlockMeta(p) /\ Goto(p, "idle")
    /\ ptr' = [ptr EXCEPT ![p] = NULL] /\ seen' = [seen EXCEPT ![p] = NoVal]
    /\ UNCHANGED <<cache, heap, elemLocks, call, out, visited, ids, calls, hit, down>>

(* The element has been freed.  What is in it then is not defined: only     *)
(* trigger_free_cb clears elem->data, item_free_cb leaves it set, so that   *)
(* the server may crash or may go on and answer with success for an element *)
(* that is gone.  The model stops here, whichever it is.                    *)
Wild(p) ==
    /\ pc[p] = "func1" /\ ~Owns(p) /\ down' = TRUE
    /\ UNCHANGED <<cache, heap, elemLocks, metaLock, pc, locals, hit>>

-----------------------------------------------------------------------------
(* elems_hash_delete, elems_hash_mass_delete: delete_element unlinks and   *)
(* frees the element under the write lock of the hash, whatever the state  *)
(* of the element's own lock.                                              *)
Free(i) ==
    /\ hash' = [hash EXCEPT ![i] = NULL]
    /\ live' = live \ {hash[i]}
    /\ hit' = [q \in Proc |-> hit[q] \/ (pc[q] = "relock" /\ ptr[q] = hash[i])]
    /\ UNCHANGED <<eid, data1, data2, elemLocks>>

DeleteWrLock(p) ==
    /\ pc[p] = "delete" /\ WrLockMeta(p) /\ Goto(p, "unlink")
    /\ UNCHANGED <<cache, heap, elemLocks, locals, hit, down>>

DeleteElement(p) ==
    /\ pc[p] = "unlink"
    /\ IF hash[call[p].id] # NULL
       THEN Free(call[p].id)
       ELSE UNCHANGED <<heap, elemLocks, hit>>
    /\ UnlockMeta(p) /\ Goto(p, "idle")
    /\ UNCHANGED <<cache, locals, down>>

-----------------------------------------------------------------------------
(* elems_hash_iterate with check_outdated_triggers (read lock) or          *)
(* clean_old_values (write lock), then elems_hash_mass_delete.             *)

IterateRdLock(p) ==
    /\ pc[p] = "iterlock" /\ RdLockMeta(p) /\ Goto(p, "iter")
    /\ UNCHANGED <<cache, heap, elemLocks, locals, hit, down>>

(* zbx_hashset_iter_next, in an order nobody promises. *)
IterateNext(p) ==
    /\ pc[p] = "iter"
    /\ \E i \in Id \ visited[p] :
          /\ hash[i] # NULL
          /\ ptr' = [ptr EXCEPT ![p] = hash[i]]
          /\ visited' = [visited EXCEPT ![p] = @ \cup {i}]
    /\ Goto(p, "visit")
    /\ UNCHANGED <<cache, heap, elemLocks, metaLock, call, seen, out, ids, calls, hit, down>>

IterateElemLock(p) ==
    /\ pc[p] = "visit" /\ Goto(p, "look")
    /\ IF cache = "triggers" THEN RdLockElem(p, ptr[p]) ELSE WrLockElem(p, ptr[p])
    /\ UNCHANGED <<cache, heap, metaLock, locals, hit, down>>

IterateFunc(p) ==
    /\ pc[p] = "look" /\ UnlockElem(p, ptr[p]) /\ Goto(p, "iter")
    /\ LET a == ptr[p]
           old == data1[a] \in Outdated
       IN /\ ids' = IF old /\ cache = "triggers" THEN [ids EXCEPT ![p] = @ \cup {eid[a]}] ELSE ids
          /\ data1' = IF old /\ cache = "items" THEN [data1 EXCEPT ![a] = Empty] ELSE data1
          /\ data2' = IF old /\ cache = "items" THEN [data2 EXCEPT ![a] = Empty] ELSE data2
    /\ UNCHANGED <<cache, hash, live, eid, metaLock, call, ptr, seen, out, visited, calls, hit, down>>

IterateUnlock(p) ==
    /\ pc[p] = "iter" /\ \A i \in Id \ visited[p] : hash[i] = NULL
    /\ UnlockMeta(p)
    /\ Goto(p, IF ids[p] = {} THEN "idle" ELSE "massdelete")
    /\ ptr' = [ptr EXCEPT ![p] = NULL] /\ visited' = [visited EXCEPT ![p] = {}]
    /\ UNCHANGED <<cache, heap, elemLocks, call, seen, out, ids, calls, hit, down>>

MassDeleteWrLock(p) ==
    /\ pc[p] = "massdelete" /\ WrLockMeta(p) /\ Goto(p, "remove")
    /\ UNCHANGED <<cache, heap, elemLocks, locals, hit, down>>

(* A stray semicolon ends the if statement: delete_element is called for   *)
(* an id that is not found as well, with NULL.                             *)
MassDelete(p) ==
    /\ pc[p] = "remove"
    /\ \E i \in ids[p] :
          /\ ids' = [ids EXCEPT ![p] = @ \ {i}]
          /\ IF hash[i] # NULL
             THEN Free(i) /\ UNCHANGED down
             ELSE down' = TRUE /\ UNCHANGED <<heap, elemLocks, hit>>
    /\ UNCHANGED <<cache, metaLock, pc, call, ptr, seen, out, visited, calls>>

MassDeleteUnlock(p) ==
    /\ pc[p] = "remove" /\ ids[p] = {}
    /\ UnlockMeta(p) /\ Goto(p, "idle")
    /\ UNCHANGED <<cache, heap, elemLocks, locals, hit, down>>

-----------------------------------------------------------------------------
Step(p) ==
    \/ ProcessRdLock(p) \/ SearchFound(p) \/ SearchMissing(p) \/ ProcessWrLock(p)
    \/ CreateElement(p) \/ CreateFails(p) \/ ProcessRelock(p) \/ ProcessElemLock(p)
    \/ ProcessFunc1(p) \/ ProcessFunc2(p) \/ ProcessElemUnlock(p) \/ ProcessUnlock(p) \/ Wild(p)
    \/ DeleteWrLock(p) \/ DeleteElement(p)
    \/ IterateRdLock(p) \/ IterateNext(p) \/ IterateElemLock(p) \/ IterateFunc(p) \/ IterateUnlock(p)
    \/ MassDeleteWrLock(p) \/ MassDelete(p) \/ MassDeleteUnlock(p)

Call(p) == Set(p) \/ Get(p) \/ Delete(p) \/ Housekeep(p)

(* All operations the bound allows have been executed, or the server has   *)
(* stopped.                                                                *)
Finished == /\ down \/ \A p \in Proc : pc[p] = "idle" /\ calls[p] = MaxCalls[p]
            /\ UNCHANGED vars

Next == (~down /\ \E p \in Proc : Call(p) \/ Step(p)) \/ Finished

Spec == Init /\ [][Next]_vars

(* Every process keeps running: a spinning process gets a lock that stays  *)
(* free.  Nobody has to begin an operation.                                *)
FairSpec == Spec /\ \A p \in Proc : WF_vars(~down /\ Step(p))

-----------------------------------------------------------------------------
(* A process that may access an element has the element it looked up or    *)
(* created, unless elems_hash_delete removed it in the moment between      *)
(* CreateElement and ProcessRelock; the housekeeper of the trigger cache   *)
(* never frees an element under anyone's hands.                            *)
NoUseAfterFree ==
    /\ \A p \in Proc : pc[p] \in {"func1", "func2", "eunlock"} => Owns(p) \/ (cache = "items" /\ hit[p])
    /\ \A p \in Proc : pc[p] \in {"elock", "visit", "look"} => ptr[p] \in live

(* elems_hash_mass_delete finds every id it was given, so that the branch  *)
(* cut off by the stray semicolon is never missed: between the iteration   *)
(* and the removal nobody else removes triggers.                           *)
MassDeleteFindsAll ==
    \A p \in Proc : pc[p] \in {"massdelete", "remove"} => \A i \in ids[p] : hash[i] # NULL

(* No path through an operation, the early returns included, leaves a lock *)
(* behind.                                                                 *)
LocksReturned ==
    \A p \in Proc : pc[p] = "idle" => /\ mwr # p /\ p \notin mrd
                                      /\ \A a \in live : ewr[a] # p /\ p \notin erd[a]

(* The inductive invariant.  The lock of the hash is held by those whose   *)
(* program counter says so, readers together or one writer alone.          *)
Reading == {"search", "elock", "func1", "func2", "eunlock", "munlock", "iter", "visit", "look"}
Writing == {"create", "unlink", "remove"}

MetaInv ==
    /\ \A p \in Proc : (mwr = p <=> pc[p] \in Writing) /\ (p \in mrd <=> pc[p] \in Reading)
    /\ mwr # NULL => mrd = {}

(* The elements in use are those in the hash, each under its own id. *)
HeapInv ==
    /\ \A i \in Id : hash[i] # NULL => hash[i] \in live /\ eid[hash[i]] = i
    /\ \A a \in live : hash[eid[a]] = a

(* The lock of an element is held by those who have a pointer to it and    *)
(* are at the places where it is held.                                     *)
ElemInv ==
    \A a \in live :
        /\ ewr[a] # NULL =>
              /\ erd[a] = {} /\ ptr[ewr[a]] = a
              /\ \/ pc[ewr[a]] \in {"relock", "func1", "func2", "eunlock"} /\ call[ewr[a]].id = eid[a]
                 \/ pc[ewr[a]] = "look" /\ cache = "items"
        /\ \A p \in erd[a] : ptr[p] = a /\ pc[p] = "look" /\ cache = "triggers"

(* What a process points to, and the one way to lose it. *)
Holds(p) == ptr[p] \in live /\ eid[ptr[p]] = call[p].id /\ ewr[ptr[p]] = p

PtrInv ==
    \A p \in Proc :
        /\ pc[p] = "elock" => ptr[p] \in live /\ eid[ptr[p]] = call[p].id
        /\ pc[p] \in {"relock", "func1"} => Holds(p) \/ (cache = "items" /\ hit[p])
        /\ pc[p] \in {"func2", "eunlock"} => Holds(p)
        /\ pc[p] \in {"visit", "look"} => ptr[p] \in live
        /\ pc[p] = "look" => IF cache = "triggers" THEN p \in erd[ptr[p]] ELSE ewr[ptr[p]] = p

(* Which operation a process executes. *)
CallInv ==
    \A p \in Proc :
        /\ pc[p] \in {"rdlock", "search", "elock", "func1", "func2", "eunlock", "munlock"}
              => call[p].kind \in {"set", "get"}
        /\ pc[p] \in {"wrlock", "create", "relock"} => call[p].kind = "set"
        /\ pc[p] \in {"delete", "unlink"} => call[p].kind = "delete" /\ cache = "items"
        /\ pc[p] \in {"iterlock", "iter", "visit", "look", "massdelete", "remove"}
              => call[p].kind = "housekeep" /\ "housekeep" \in May[p]
        /\ call[p].kind = "set" => call[p].val \in Val

(* What the housekeeper has collected is still there, and nobody is        *)
(* creating it.                                                            *)
IdsInv ==
    \A p \in Proc :
        /\ ids[p] # {} => cache = "triggers" /\ pc[p] \in {"iter", "visit", "look", "massdelete", "remove"}
        /\ \A i \in ids[p] : hash[i] # NULL
        /\ \A q \in Proc : pc[q] = "relock" => call[q].id \notin ids[p]

(* The two fields of an element agree and have a value, but for a writer   *)
(* that is about to store them; between its two steps a writer has stored  *)
(* the first, a reader has seen it.                                        *)
DataInv ==
    /\ \A a \in live :
          /\ data1[a] # data2[a] => ewr[a] # NULL /\ pc[ewr[a]] = "func2" /\ call[ewr[a]].kind = "set"
          /\ data2[a] = NoVal => /\ ewr[a] # NULL /\ pc[ewr[a]] \in {"relock", "func1", "func2"}
                                 /\ call[ewr[a]].kind = "set"
    /\ \A p \in Proc : pc[p] = "func2" =>
          data1[ptr[p]] = IF call[p].kind = "set" THEN call[p].val ELSE seen[p]

IInv == TypeOK /\ MetaInv /\ HeapInv /\ ElemInv /\ PtrInv /\ CallInv /\ IdsInv /\ DataInv

(* The map the caches see: an element counts from the moment its creator   *)
(* has stored its value.                                                   *)
AbsMap == [i \in Id |-> IF hash[i] = NULL THEN NoVal ELSE data2[hash[i]]]
AbsStage == [p \in Proc |-> CASE pc[p] = "idle" -> "idle"
                              [] pc[p] \in {"eunlock", "munlock"} -> "done"
                              [] OTHER -> "busy"]
Map == INSTANCE AtomicMap WITH map <- AbsMap, stage <- AbsStage

(* Every operation takes effect atomically: no torn value is read, no      *)
(* element is seen before its creator has filled it in, and an update is   *)
(* dropped only when FAIL is returned, to a process that lost the race to  *)
(* create the element.  Nothing is said of what follows Wild.              *)
Linearizable == Map!ASpec

(* Every operation that is begun returns, when finitely many are begun: a  *)
(* writer that only tries may starve under readers that always overlap.    *)
(* Nothing is said of what follows Wild.                                   *)
EveryCallReturns == \A p \in Proc : pc[p] # "idle" ~> pc[p] = "idle" \/ down

(* A set of the trigger cache is never refused: its callers, such as       *)
(* glb_state_triggers_apply_diffs, take FAIL for impossible.               *)
SetSucceeds ==
    \A p \in Proc : pc[p] = "idle" /\ call[p].kind = "set" => out[p] = call[p].val
=============================================================================
