--------------------------- MODULE Ipc2Refinement ---------------------------
(***************************************************************************)
(* What Ipc2 looks like from outside: following the next pointers turns    *)
(* its lists into the sequences of FifoChannel, and its chunks into the    *)
(* memory and item totals the statistics report.                           *)
(***************************************************************************)
EXTENDS Ipc2, Functions

(* The segment has room for finitely many chunks, and consumers are        *)
(* numbered.                                                               *)
ASSUME FiniteAssumption == IsFiniteSet(Addr) /\ IsFiniteSet(Consumer)

(* The chunks reached from pointer a; at most as many as there are         *)
(* addresses, so that a cycle would not go unnoticed but end.              *)
Walk(a) ==
    LET walk[n \in 0 .. Cardinality(Addr)] ==
            [x \in Ptr |-> IF x = NULL \/ n = 0 THEN << >> ELSE <<x>> \o walk[n - 1][next[x]]]
    IN walk[Cardinality(Addr)][a]

(* Chunks of queue c in the order they will be processed.  Between         *)
(* RcvTake and RcvClear both heads point to the same list.                 *)
Pending(c) ==
    (IF cpc[c] = "process" THEN <<cur[c]>> ELSE << >>)
        \o Walk(rcvQueue[c])
        \o (IF cpc[c] = "clear" THEN << >> ELSE Walk(first[c]))

Contents(c) == [i \in 1 .. Len(Pending(c)) |-> data[Pending(c)[i]]]

Fifo == INSTANCE FifoChannel
            WITH chan <- [c \in Consumer |-> Contents(c)],
                 NoMsg <- NULL

(* Ipc2 implements one first-in first-out channel per consumer: a send is  *)
(* the step that links the chunk, a receive the step that calls            *)
(* receive_func, and every other step is invisible.                        *)
ImplementsFifo == Fifo!FSpec

(* ipc2_get_queue_size: what the statistics report, read without locks. *)
QueueSize == SumFunction(items)

SumItems(s) == SumFunction([i \in DOMAIN s |-> chItems[s[i]]])

(* The reported queue size never hides items that wait in the shared       *)
(* lists: it is their exact number in each nonempty queue (it may be stale *)
(* only for an emptied one, where RcvClear leaves q->items alone).         *)
QueueSizeCoversBacklog ==
    /\ \A c \in Consumer : lock[c] = NULL /\ first[c] # NULL => items[c] = SumItems(Walk(first[c]))
    /\ (\A c \in Consumer : lock[c] = NULL)
         => QueueSize >= SumFunction([c \in Consumer |-> SumItems(Walk(first[c]))])

(* Shared memory is neither leaked nor returned twice: free_size plus all  *)
(* chunks on lists, in senders' hands or being processed is the segment.   *)
Reachable ==
    {chunk[p] : p \in Producer} \cup {cur[c] : c \in Consumer}
        \cup UNION {Range(Pending(c)) : c \in Consumer}

MemoryAccounted ==
    /\ Reachable \ {NULL} = live
    /\ free + SumFunction([a \in live |-> chSize[a] + Header]) = TotalMem

(* What the above needs beyond IInv: every number between the oldest chunk *)
(* and the last one linked belongs to a chunk, and every allocated chunk   *)
(* is linked or in a sender's hands,                                       *)
ThereInv ==
    /\ \A c \in Consumer : \A k \in Oldest(c) .. linked[c] : \E a \in Addr : home[a] = c /\ stamp[a] = k
    /\ \A a \in live : home[a] # NULL \/ \E p \in Producer : chunk[p] = a

(* free_size accounts for the allocated chunks,                            *)
MemoryInv == free + SumFunction([a \in live |-> chSize[a] + Header]) = TotalMem

(* and q->items for those waiting in a queue that is not empty.            *)
ChunkNo(c, k) == CHOOSE a \in Addr : home[a] = c /\ stamp[a] = k
Waiting(c) == [i \in 1 .. sent[c] - taken[c] |-> chItems[ChunkNo(c, taken[c] + i)]]

ItemsInv ==
    /\ \A c \in Consumer : sent[c] # taken[c] => items[c] = SumFunction(Waiting(c))
    /\ \A p \in Producer : ppc[p] = "tailNext" => sent[req[p].to] # taken[req[p].to]

RInv == ThereInv /\ MemoryInv /\ ItemsInv

(* Every chunk linked is processed, and every send returns: senders that   *)
(* wait for memory hold no mutex the consumers need to free it.            *)
EveryChunkProcessed ==
    \A c \in Consumer : \A k \in 1 .. MaxSent : (linked[c] >= k) ~> (rcvd[c] >= k)

EverySendReturns == \A p \in Producer : (ppc[p] # "idle") ~> (ppc[p] = "idle")
=============================================================================
