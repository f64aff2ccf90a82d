-------------------------------- MODULE Ipc2 --------------------------------
(***************************************************************************)
(* libs/zbxipcservice/glb_ipc2.c: the shared-memory queues that carry      *)
(* metrics from pollers to preprocessing workers, from those to history    *)
(* syncers, and item notifications to pollers.                             *)
(*                                                                         *)
(* Each consumer has one singly linked list of chunks in shared memory     *)
(* under a mutex.  A sender allocates a chunk (waiting for memory), fills  *)
(* it, and links it at the tail.  The consumer moves the whole list to a   *)
(* private one under the mutex, then pops, processes and frees chunks      *)
(* without it.  The statements inside a critical section that other        *)
(* processes could tell apart are separate actions, so that what the mutex *)
(* protects is checked and not assumed.                                    *)
(*                                                                         *)
(* The last five variables are history: the queue a chunk was linked to,   *)
(* the position it was given there, and for each queue how many chunks     *)
(* were linked, moved to the private list, and processed.                  *)
(***************************************************************************)
EXTENDS Naturals, FiniteSets, Sequences

CONSTANTS
    Producer,   \* sending processes
    Consumer,   \* consumer ids
    Addr,       \* chunk addresses of the shared memory segment
    NULL,       \* the null pointer, also "no process" and "no message"
    Msg,        \* chunk contents
    Requests,   \* the send calls considered: destination, sizes, content, priority
    TotalMem,   \* mem_info->total_size
    Header,     \* sizeof(ipc2_chunk_t)
    MaxSent     \* bound on the sends to one consumer

Request == [to : Consumer, items : Nat, size : Nat, msg : Msg, high : BOOLEAN]

ASSUME Ipc2Assumption ==
    /\ NULL \notin Addr \cup Producer \cup Consumer \cup Msg
    /\ Producer \cap Consumer = {}
    /\ Requests \subseteq Request /\ Requests # {}
    /\ TotalMem \in Nat /\ Header \in Nat /\ MaxSent \in Nat

VARIABLES
    live, free,                       \* the allocator: addresses in use, free_size
    next, chItems, chSize, data,      \* the chunks, by address
    first, last, count, items,        \* ipc2_chunk_queue_t, by consumer
    sent, itemsSent, lock,
    ppc, req, chunk, dumping,         \* the senders' program state
    cpc, rcvQueue, cur, got,          \* the consumers' program state
    home, stamp, linked, taken, rcvd  \* history

memVars   == <<live, free, next, chItems, chSize, data>>
queueVars == <<first, last, count, items, sent, itemsSent, lock>>
sendVars  == <<ppc, req, chunk, dumping>>
recvVars  == <<cpc, rcvQueue, cur, got>>
histVars  == <<home, stamp, linked, taken, rcvd>>
vars      == <<memVars, queueVars, sendVars, recvVars, histVars>>

Ptr == Addr \cup {NULL}

SendStates == {"idle", "watermark", "malloc", "fill", "lock", "link", "tailFirst", "tailNext"}
RecvStates == {"idle", "take", "clear", "process", "release"}

(* The arguments of a call that is over are gone. *)
NoRequest == CHOOSE r \in Requests : TRUE

(* low_mem_watermark, set once by ipc2_init. *)
LowMemWatermark == TotalMem \div 3

Init ==
    /\ live = {} /\ free = TotalMem
    /\ next = [a \in Addr |-> NULL]
    /\ chItems = [a \in Addr |-> 0]
    /\ chSize = [a \in Addr |-> 0]
    /\ data = [a \in Addr |-> NULL]
    /\ first = [c \in Consumer |-> NULL]
    /\ last = [c \in Consumer |-> NULL]
    /\ count = [c \in Consumer |-> 0]
    /\ items = [c \in Consumer |-> 0]
    /\ sent = [c \in Consumer |-> 0]
    /\ itemsSent = [c \in Consumer |-> 0]
    /\ lock = [c \in Consumer |-> NULL]
    /\ ppc = [p \in Producer |-> "idle"]
    /\ req = [p \in Producer |-> NoRequest]
    /\ chunk = [p \in Producer |-> NULL]
    /\ dumping = [p \in Producer |-> NULL]
    /\ cpc = [c \in Consumer |-> "idle"]
    /\ rcvQueue = [c \in Consumer |-> NULL]
    /\ cur = [c \in Consumer |-> NULL]
    /\ got = [c \in Consumer |-> NULL]
    /\ home = [a \in Addr |-> NULL]
    /\ stamp = [a \in Addr |-> 0]
    /\ linked = [c \in Consumer |-> 0]
    /\ taken = [c \in Consumer |-> 0]
    /\ rcvd = [c \in Consumer |-> 0]

-----------------------------------------------------------------------------
(* Sending *)

InFlightTo(c) == {p \in Producer : ppc[p] # "idle" /\ req[p].to = c}

(* ipc2_send_chunk and ipc2_send_by_cb_fill enter allocate_chunk.  The     *)
(* first returns at once on zero items (no step); the second does not, so  *)
(* a request may carry none.                                               *)
Send(p, r) ==
    /\ ppc[p] = "idle"
    /\ sent[r.to] + Cardinality(InFlightTo(r.to)) < MaxSent
    /\ req' = [req EXCEPT ![p] = r]
    /\ ppc' = [ppc EXCEPT ![p] = IF r.high THEN "malloc" ELSE "watermark"]
    /\ UNCHANGED <<memVars, queueVars, chunk, dumping, recvVars, histVars>>

(* The low-watermark wait of allocate_chunk ends.  free_size is read       *)
(* without a lock, and may be below the watermark again by the malloc.     *)
PassWatermark(p) ==
    /\ ppc[p] = "watermark" /\ dumping[p] = NULL
    /\ free >= LowMemWatermark
    /\ ppc' = [ppc EXCEPT ![p] = "malloc"]
    /\ UNCHANGED <<memVars, queueVars, req, chunk, dumping, recvVars, histVars>>

(* malloc_func succeeds, and the chunk header is initialised. *)
Malloc(p) ==
    /\ ppc[p] = "malloc" /\ dumping[p] = NULL
    /\ req[p].size + Header <= free
    /\ \E a \in Addr \ live :
        /\ live' = live \cup {a}
        /\ chunk' = [chunk EXCEPT ![p] = a]
        /\ next' = [next EXCEPT ![a] = NULL]
        /\ chItems' = [chItems EXCEPT ![a] = req[p].items]
        /\ chSize' = [chSize EXCEPT ![a] = req[p].size]
        /\ data' = [data EXCEPT ![a] = NULL]
    /\ free' = free - (req[p].size + Header)
    /\ ppc' = [ppc EXCEPT ![p] = "fill"]
    /\ UNCHANGED <<queueVars, req, dumping, recvVars, histVars>>

(* A sender that waits for memory calls ipc2_dump_queues, which takes the  *)
(* mutex of one queue after the other and reads the list.                  *)
DumpLock(p, c) ==
    /\ dumping[p] = NULL
    /\ \/ ppc[p] = "watermark" /\ free < LowMemWatermark
       \/ ppc[p] = "malloc" /\ req[p].size + Header > free
    /\ lock[c] = NULL
    /\ lock' = [lock EXCEPT ![c] = p]
    /\ dumping' = [dumping EXCEPT ![p] = c]
    /\ UNCHANGED <<memVars, first, last, count, items, sent, itemsSent, ppc, req, chunk, recvVars, histVars>>

(* Mutant: the dump returns without unlocking. *)
DumpNoUnlock(p) ==
    /\ dumping[p] # NULL
    /\ dumping' = [dumping EXCEPT ![p] = NULL]
    /\ UNCHANGED <<memVars, queueVars, ppc, req, chunk, recvVars, histVars>>

DumpUnlock(p) ==
    /\ dumping[p] # NULL
    /\ lock' = [lock EXCEPT ![dumping[p]] = NULL]
    /\ dumping' = [dumping EXCEPT ![p] = NULL]
    /\ UNCHANGED <<memVars, first, last, count, items, sent, itemsSent, ppc, req, chunk, recvVars, histVars>>

(* memcpy, or the fill callback, writes the payload. *)
Fill(p) ==
    /\ ppc[p] = "fill"
    /\ data' = [data EXCEPT ![chunk[p]] = req[p].msg]
    /\ ppc' = [ppc EXCEPT ![p] = "lock"]
    /\ UNCHANGED <<live, free, next, chItems, chSize, queueVars, req, chunk, dumping, recvVars, histVars>>

(* Mutant: the mutex is not waited for. *)
AddNoLock(p) ==
    /\ ppc[p] = "lock"
    /\ lock' = [lock EXCEPT ![req[p].to] = p]
    /\ ppc' = [ppc EXCEPT ![p] = "link"]
    /\ UNCHANGED <<memVars, first, last, count, items, sent, itemsSent, req, chunk, dumping, recvVars, histVars>>

(* add_chunk_to_queue: take the mutex. *)
AddLock(p) ==
    /\ ppc[p] = "lock"
    /\ lock[req[p].to] = NULL
    /\ lock' = [lock EXCEPT ![req[p].to] = p]
    /\ ppc' = [ppc EXCEPT ![p] = "link"]
    /\ UNCHANGED <<memVars, first, last, count, items, sent, itemsSent, req, chunk, dumping, recvVars, histVars>>

(* History: chunk a becomes the next one of queue c. *)
Stamp(c, a) ==
    /\ home' = [home EXCEPT ![a] = c]
    /\ stamp' = [stamp EXCEPT ![a] = linked[c] + 1]
    /\ linked' = [linked EXCEPT ![c] = @ + 1]
    /\ UNCHANGED <<taken, rcvd>>

(* add_chunk_to_queue: q->first = chunk on an empty queue, otherwise       *)
(* q->last->next = chunk.  From here on the chunk is in the list.          *)
AddLinkFirst(p) ==
    /\ ppc[p] = "link" /\ first[req[p].to] = NULL
    /\ first' = [first EXCEPT ![req[p].to] = chunk[p]]
    /\ ppc' = [ppc EXCEPT ![p] = "tailFirst"]
    /\ Stamp(req[p].to, chunk[p])
    /\ UNCHANGED <<memVars, last, count, items, sent, itemsSent, lock, req, chunk, dumping, recvVars>>

AddLinkNext(p) ==
    /\ ppc[p] = "link" /\ first[req[p].to] # NULL
    /\ next' = [next EXCEPT ![last[req[p].to]] = chunk[p]]
    /\ ppc' = [ppc EXCEPT ![p] = "tailNext"]
    /\ Stamp(req[p].to, chunk[p])
    /\ UNCHANGED <<live, free, chItems, chSize, data, queueVars, req, chunk, dumping, recvVars>>

(* Mutant: q->items is set, not increased. *)
AddTailItemsSet(p) ==
    LET c == req[p].to
    IN /\ ppc[p] \in {"tailFirst", "tailNext"}
       /\ last' = [last EXCEPT ![c] = chunk[p]]
       /\ count' = [count EXCEPT ![c] = IF ppc[p] = "tailFirst" THEN 1 ELSE @ + 1]
       /\ items' = [items EXCEPT ![c] = chItems[chunk[p]]]
       /\ sent' = [sent EXCEPT ![c] = @ + 1]
       /\ itemsSent' = [itemsSent EXCEPT ![c] = @ + req[p].items]
       /\ lock' = [lock EXCEPT ![c] = NULL]
       /\ chunk' = [chunk EXCEPT ![p] = NULL]
       /\ ppc' = [ppc EXCEPT ![p] = "idle"]
       /\ req' = [req EXCEPT ![p] = NoRequest]
       /\ UNCHANGED <<memVars, first, dumping, recvVars, histVars>>

(* add_chunk_to_queue: the tail pointer and the counters, then unlock. *)
AddTail(p) ==
    LET c == req[p].to
        n == chItems[chunk[p]]
    IN /\ ppc[p] \in {"tailFirst", "tailNext"}
       /\ last' = [last EXCEPT ![c] = chunk[p]]
       /\ count' = [count EXCEPT ![c] = IF ppc[p] = "tailFirst" THEN 1 ELSE @ + 1]
       /\ items' = [items EXCEPT ![c] = IF ppc[p] = "tailFirst" THEN n ELSE @ + n]
       /\ sent' = [sent EXCEPT ![c] = @ + 1]
       /\ itemsSent' = [itemsSent EXCEPT ![c] = @ + req[p].items]
       /\ lock' = [lock EXCEPT ![c] = NULL]
       /\ chunk' = [chunk EXCEPT ![p] = NULL]
       /\ ppc' = [ppc EXCEPT ![p] = "idle"]
       /\ req' = [req EXCEPT ![p] = NoRequest]
       /\ UNCHANGED <<memVars, first, dumping, recvVars, histVars>>

-----------------------------------------------------------------------------
(* Receiving: ipc2_receive_one_chunk *)

(* Mutant: the shared list is taken while the private one still holds chunks. *)
RcvLockEarly(c) ==
    /\ cpc[c] = "idle"
    /\ lock[c] = NULL
    /\ lock' = [lock EXCEPT ![c] = c]
    /\ cpc' = [cpc EXCEPT ![c] = "take"]
    /\ UNCHANGED <<memVars, first, last, count, items, sent, itemsSent, sendVars, rcvQueue, cur, got, histVars>>

(* ensure_chunks_in_local_queue: the private list is empty, take the mutex. *)
RcvLock(c) ==
    /\ cpc[c] = "idle" /\ rcvQueue[c] = NULL
    /\ lock[c] = NULL
    /\ lock' = [lock EXCEPT ![c] = c]
    /\ cpc' = [cpc EXCEPT ![c] = "take"]
    /\ UNCHANGED <<memVars, first, last, count, items, sent, itemsSent, sendVars, rcvQueue, cur, got, histVars>>

RcvTake(c) ==
    /\ cpc[c] = "take"
    /\ rcvQueue' = [rcvQueue EXCEPT ![c] = first[c]]
    /\ cpc' = [cpc EXCEPT ![c] = "clear"]
    /\ UNCHANGED <<memVars, queueVars, sendVars, cur, got, histVars>>

(* Mutants: what RcvClear must not forget: q->first and q->count. *)
RcvClearPart(c, head, number) ==
    /\ cpc[c] = "clear"
    /\ first' = [first EXCEPT ![c] = head]
    /\ last' = [last EXCEPT ![c] = NULL]
    /\ count' = [count EXCEPT ![c] = number]
    /\ lock' = [lock EXCEPT ![c] = NULL]
    /\ cpc' = [cpc EXCEPT ![c] = "idle"]
    /\ taken' = [taken EXCEPT ![c] = sent[c]]
    /\ UNCHANGED <<memVars, items, sent, itemsSent, sendVars, rcvQueue, cur, got, home, stamp, linked, rcvd>>

RcvClearKeepsFirst(c) == RcvClearPart(c, first[c], 0)
RcvClearKeepsCount(c) == RcvClearPart(c, NULL, count[c])

(* The shared list is emptied and the mutex released; q->items keeps its   *)
(* old value.  With nothing taken the call returns 0.                      *)
RcvClear(c) ==
    /\ cpc[c] = "clear"
    /\ first' = [first EXCEPT ![c] = NULL]
    /\ last' = [last EXCEPT ![c] = NULL]
    /\ count' = [count EXCEPT ![c] = 0]
    /\ lock' = [lock EXCEPT ![c] = NULL]
    /\ cpc' = [cpc EXCEPT ![c] = "idle"]
    /\ taken' = [taken EXCEPT ![c] = sent[c]]
    /\ UNCHANGED <<memVars, items, sent, itemsSent, sendVars, rcvQueue, cur, got, home, stamp, linked, rcvd>>

(* Pop the head of the private list. *)
RcvPop(c) ==
    /\ cpc[c] = "idle" /\ rcvQueue[c] # NULL
    /\ cur' = [cur EXCEPT ![c] = rcvQueue[c]]
    /\ rcvQueue' = [rcvQueue EXCEPT ![c] = next[rcvQueue[c]]]
    /\ cpc' = [cpc EXCEPT ![c] = "process"]
    /\ UNCHANGED <<memVars, queueVars, sendVars, got, histVars>>

(* receive_func is given the payload. *)
RcvProcess(c) ==
    /\ cpc[c] = "process"
    /\ got' = [got EXCEPT ![c] = data[cur[c]]]
    /\ rcvd' = [rcvd EXCEPT ![c] = @ + 1]
    /\ cpc' = [cpc EXCEPT ![c] = "release"]
    /\ UNCHANGED <<memVars, queueVars, sendVars, rcvQueue, cur, home, stamp, linked, taken>>

(* Mutant: only the payload is returned. *)
RcvReleasePayload(c) ==
    /\ cpc[c] = "release"
    /\ live' = live \ {cur[c]}
    /\ free' = free + chSize[cur[c]]
    /\ cur' = [cur EXCEPT ![c] = NULL]
    /\ cpc' = [cpc EXCEPT ![c] = "idle"]
    /\ home' = [home EXCEPT ![cur[c]] = NULL]
    /\ UNCHANGED <<next, chItems, chSize, data, queueVars, sendVars, rcvQueue, got, stamp, linked, taken, rcvd>>

(* free_func: the memory may be given to another chunk from now on. *)
RcvRelease(c) ==
    /\ cpc[c] = "release"
    /\ live' = live \ {cur[c]}
    /\ free' = free + chSize[cur[c]] + Header
    /\ cur' = [cur EXCEPT ![c] = NULL]
    /\ cpc' = [cpc EXCEPT ![c] = "idle"]
    /\ home' = [home EXCEPT ![cur[c]] = NULL]
    /\ UNCHANGED <<next, chItems, chSize, data, queueVars, sendVars, rcvQueue, got, stamp, linked, taken, rcvd>>

-----------------------------------------------------------------------------
Next ==
    \/ \E p \in Producer :
        \/ \E r \in Requests : Send(p, r)
        \/ PassWatermark(p)
        \/ Malloc(p)
        \/ \E c \in Consumer : DumpLock(p, c)
        \/ DumpUnlock(p)
        \/ Fill(p)
        \/ AddLock(p)
        \/ AddLinkFirst(p)
        \/ AddLinkNext(p)
        \/ AddTail(p)
    \/ \E c \in Consumer :
        \/ RcvLock(c)
        \/ RcvTake(c)
        \/ RcvClear(c)
        \/ RcvPop(c)
        \/ RcvProcess(c)
        \/ RcvRelease(c)

Spec == Init /\ [][Next]_vars

-----------------------------------------------------------------------------
(* Fairness.  Every process keeps running its code; a process waiting for  *)
(* a pthread mutex that is released again and again gets it eventually.    *)
(* Nobody is obliged to start a send.                                      *)
Fairness ==
    /\ \A p \in Producer :
        /\ WF_vars(PassWatermark(p))
        /\ WF_vars(Malloc(p))
        /\ WF_vars(Fill(p))
        /\ WF_vars(DumpUnlock(p))
        /\ WF_vars(AddLinkFirst(p) \/ AddLinkNext(p) \/ AddTail(p))
        /\ SF_vars(AddLock(p))
    /\ \A c \in Consumer :
        /\ SF_vars(RcvLock(c))
        /\ WF_vars(RcvTake(c) \/ RcvClear(c) \/ RcvPop(c) \/ RcvProcess(c) \/ RcvRelease(c))

FairSpec == Spec /\ Fairness

-----------------------------------------------------------------------------
(* Properties *)

(* Every variable of the segment and of the processes has its type. *)
TypeOK ==
    /\ live \subseteq Addr /\ free \in Nat
    /\ next \in [Addr -> Ptr]
    /\ chItems \in [Addr -> Nat] /\ chSize \in [Addr -> Nat]
    /\ data \in [Addr -> Msg \cup {NULL}]
    /\ first \in [Consumer -> Ptr] /\ last \in [Consumer -> Ptr]
    /\ count \in [Consumer -> Nat] /\ items \in [Consumer -> Nat]
    /\ sent \in [Consumer -> Nat] /\ itemsSent \in [Consumer -> Nat]
    /\ lock \in [Consumer -> Producer \cup Consumer \cup {NULL}]
    /\ ppc \in [Producer -> SendStates] /\ req \in [Producer -> Requests]
    /\ chunk \in [Producer -> Ptr] /\ dumping \in [Producer -> Consumer \cup {NULL}]
    /\ cpc \in [Consumer -> RecvStates]
    /\ rcvQueue \in [Consumer -> Ptr] /\ cur \in [Consumer -> Ptr]
    /\ got \in [Consumer -> Msg \cup {NULL}]
    /\ home \in [Addr -> Consumer \cup {NULL}] /\ stamp \in [Addr -> Nat]
    /\ linked \in [Consumer -> Nat] /\ taken \in [Consumer -> Nat] /\ rcvd \in [Consumer -> Nat]

(* Lists never lead into freed memory: the queue heads and tails, the      *)
(* private lists, the chunk being processed, the chunks being filled, and  *)
(* the next pointer of every linked chunk are null or allocated.           *)
(* (add_chunk_to_queue writes q->last->next after the consumer may have    *)
(* taken and freed the list that ended there.)                             *)
NoUseAfterFree ==
    /\ \A c \in Consumer : {first[c], last[c], rcvQueue[c], cur[c]} \subseteq live \cup {NULL}
    /\ \A p \in Producer : chunk[p] \in live \cup {NULL}
    /\ \A a \in Addr : home[a] # NULL => a \in live /\ next[a] \in live \cup {NULL}

(* The chunk handed to receive_func is the one linked to this queue right  *)
(* after the one processed before it, and its payload has been written:    *)
(* nothing is lost, repeated, reordered, misrouted or seen half filled.    *)
InOrderDelivery ==
    \A c \in Consumer : cpc[c] = "process" =>
        /\ home[cur[c]] = c
        /\ stamp[cur[c]] = rcvd[c] + 1
        /\ data[cur[c]] # NULL

(* q->count is the number of chunks linked and not yet taken, and the tail *)
(* pointer is null exactly when the queue is empty, whatever the order in  *)
(* which senders append and the consumer empties the list.                 *)
QueueCounters ==
    \A c \in Consumer :
        /\ count[c] + taken[c] = sent[c]
        /\ last[c] = NULL <=> count[c] = 0

-----------------------------------------------------------------------------
(* The inductive invariant *)

InTail(p) == ppc[p] \in {"tailFirst", "tailNext"}
Holding(p, c) == \/ ppc[p] \in {"link", "tailFirst", "tailNext"} /\ req[p].to = c
                 \/ dumping[p] = c

(* Who holds a mutex, seen from the holders. *)
LockInv ==
    /\ \A c \in Consumer :
        /\ \A p \in Producer : lock[c] = p <=> Holding(p, c)
        /\ lock[c] = c <=> cpc[c] \in {"take", "clear"}
        /\ lock[c] \in Producer \cup {c, NULL}
    /\ \A p \in Producer : dumping[p] # NULL => ppc[p] \in {"watermark", "malloc"}

(* Chunks owned by senders are theirs alone until linked. *)
SenderInv ==
    /\ \A p \in Producer :
        /\ chunk[p] = NULL <=> ppc[p] \in {"idle", "watermark", "malloc"}
        /\ chunk[p] # NULL => chunk[p] \in live
        /\ ppc[p] \in {"fill", "lock", "link"} => home[chunk[p]] = NULL /\ next[chunk[p]] = NULL
        /\ ppc[p] \in {"lock", "link"} => data[chunk[p]] # NULL
        /\ InTail(p) => /\ home[chunk[p]] = req[p].to
                        /\ stamp[chunk[p]] = linked[req[p].to]
        /\ ppc[p] = "tailFirst" => sent[req[p].to] = taken[req[p].to]
    /\ \A p, q \in Producer : chunk[p] = chunk[q] /\ chunk[p] # NULL => p = q

(* The number of the chunk the consumer has in hand or takes next. *)
Oldest(c) == IF cpc[c] = "release" THEN rcvd[c] ELSE rcvd[c] + 1

(* Linked chunks carry consecutive numbers and form one list in that       *)
(* order, cut after the chunks that were taken.                            *)
ListInv ==
    \A a \in Addr : home[a] # NULL =>
        LET c == home[a] IN
        /\ a \in live
        /\ data[a] # NULL
        /\ Oldest(c) <= stamp[a] /\ stamp[a] <= linked[c]
        /\ \A b \in Addr : home[b] = c /\ stamp[b] = stamp[a] => b = a
        /\ IF stamp[a] \in {taken[c], linked[c]}
             THEN next[a] = NULL
             ELSE next[a] \in Addr /\ home[next[a]] = c /\ stamp[next[a]] = stamp[a] + 1

(* a is null if position k has not been filled beyond bound n, and the     *)
(* chunk number k of queue c otherwise.                                    *)
Points(a, c, k, n) ==
    IF k > n THEN a = NULL ELSE a \in Addr /\ home[a] = c /\ stamp[a] = k

QueueInv ==
    \A c \in Consumer :
        /\ rcvd[c] <= taken[c] /\ taken[c] <= sent[c]
        /\ linked[c] = IF \E p \in Producer : InTail(p) /\ req[p].to = c
                         THEN sent[c] + 1 ELSE sent[c]
        /\ Points(first[c], c, taken[c] + 1, linked[c])
        /\ IF sent[c] = taken[c] THEN last[c] = NULL ELSE Points(last[c], c, sent[c], linked[c])
        /\ count[c] + taken[c] = sent[c]

ConsumerInv ==
    \A c \in Consumer :
        /\ cpc[c] \in {"take", "clear"} => rcvd[c] = taken[c]
        /\ cpc[c] = "clear" => rcvQueue[c] = first[c]
        /\ cpc[c] = "take" => rcvQueue[c] = NULL
        /\ cpc[c] \in {"idle", "release"} => Points(rcvQueue[c], c, rcvd[c] + 1, taken[c])
        /\ cpc[c] = "process" => /\ rcvd[c] < taken[c]
                                 /\ Points(cur[c], c, rcvd[c] + 1, taken[c])
                                 /\ Points(rcvQueue[c], c, rcvd[c] + 2, taken[c])
        /\ cpc[c] = "release" => /\ rcvd[c] # 0
                                 /\ Points(cur[c], c, rcvd[c], taken[c])
        /\ cpc[c] \notin {"process", "release"} => cur[c] = NULL

IInv == TypeOK /\ LockInv /\ SenderInv /\ ListInv /\ QueueInv /\ ConsumerInv
=============================================================================
