---------------------------- MODULE Ipc2_proofs ----------------------------
(***************************************************************************)
(* Proofs about Ipc2 for any sets of senders, consumers, addresses and     *)
(* requests: the inductive invariant IInv holds, and with it the type      *)
(* invariant, NoUseAfterFree, InOrderDelivery and QueueCounters.           *)
(*                                                                         *)
(* The argument: linked chunks carry consecutive numbers (ListInv); the    *)
(* heads, tails and private lists point at known numbers (QueueInv,        *)
(* ConsumerInv); at most one process is inside a queue (LockInv), so the   *)
(* number a new chunk gets is the successor of the tail's.                 *)
(***************************************************************************)
EXTENDS Ipc2, TLAPS

(* A request exists to stand for the arguments of a call that is over. *)
LEMMA NoRequestType == NoRequest \in Requests
  BY Ipc2Assumption DEF NoRequest

(* The empty queues of ipc2_init satisfy the invariant. *)
LEMMA InitKeeps == Init => IInv
<1> SUFFICES ASSUME Init PROVE IInv
  OBVIOUS
<1>1. TypeOK
  BY NoRequestType, Ipc2Assumption DEF Init, TypeOK, Ptr, SendStates, RecvStates
<1>2. LockInv
  BY Ipc2Assumption DEF Init, LockInv, Holding
<1>3. SenderInv
  BY DEF Init, SenderInv, InTail
<1>4. ListInv
  BY DEF Init, ListInv
<1>5. QueueInv
  BY DEF Init, QueueInv, InTail, Points
<1>6. ConsumerInv
  BY DEF Init, ConsumerInv, Points
<1> QED
  BY <1>1, <1>2, <1>3, <1>4, <1>5, <1>6 DEF IInv

(* Entering allocate_chunk touches only the sender's own state. *)
LEMMA SendKeeps ==
    ASSUME NEW p \in Producer, NEW r \in Requests, IInv, Send(p, r)
    PROVE  IInv'
<1>1. TypeOK'
  BY Ipc2Assumption DEF IInv, TypeOK, Ptr, SendStates, RecvStates, Request, Send, memVars,
     queueVars, recvVars, histVars
<1>2. LockInv'
  BY Ipc2Assumption DEF IInv, TypeOK, LockInv, Holding, Send, memVars, queueVars, recvVars, histVars
<1>3. SenderInv'
  BY Ipc2Assumption DEF IInv, TypeOK, SenderInv, InTail, Send, memVars, queueVars, recvVars,
     histVars
<1>4. ListInv'
  BY Ipc2Assumption DEF IInv, TypeOK, ListInv, Oldest, Send, memVars, queueVars, recvVars, histVars
<1>5. QueueInv'
  BY Ipc2Assumption DEF IInv, TypeOK, QueueInv, Points, InTail, Send, memVars, queueVars,
     recvVars, histVars
<1>6. ConsumerInv'
  BY Ipc2Assumption DEF IInv, TypeOK, ConsumerInv, Points, Send, memVars, queueVars, recvVars,
     histVars
<1> QED
  BY <1>1, <1>2, <1>3, <1>4, <1>5, <1>6 DEF IInv

(* Leaving the watermark wait touches only the sender's own state. *)
LEMMA PassWatermarkKeeps ==
    ASSUME NEW p \in Producer, IInv, PassWatermark(p)
    PROVE  IInv'
<1>1. TypeOK'
  BY Ipc2Assumption DEF IInv, TypeOK, Ptr, SendStates, RecvStates, Request, PassWatermark,
     memVars, queueVars, recvVars, histVars
<1>2. LockInv'
  BY Ipc2Assumption DEF IInv, TypeOK, LockInv, Holding, PassWatermark, memVars, queueVars,
     recvVars, histVars
<1>3. SenderInv'
  BY Ipc2Assumption DEF IInv, TypeOK, SenderInv, InTail, PassWatermark, memVars, queueVars,
     recvVars, histVars
<1>4. ListInv'
  BY Ipc2Assumption DEF IInv, TypeOK, ListInv, Oldest, PassWatermark, memVars, queueVars,
     recvVars, histVars
<1>5. QueueInv'
  BY Ipc2Assumption DEF IInv, TypeOK, QueueInv, Points, InTail, PassWatermark, memVars,
     queueVars, recvVars, histVars
<1>6. ConsumerInv'
  BY Ipc2Assumption DEF IInv, TypeOK, ConsumerInv, Points, PassWatermark, memVars, queueVars,
     recvVars, histVars
<1> QED
  BY <1>1, <1>2, <1>3, <1>4, <1>5, <1>6 DEF IInv

(* A fresh chunk is on no list and in no other sender's hands. *)
LEMMA MallocKeeps ==
    ASSUME NEW p \in Producer, IInv, Malloc(p)
    PROVE  IInv'
<1>1. TypeOK'
  BY Ipc2Assumption DEF IInv, TypeOK, Ptr, SendStates, RecvStates, Request, Malloc, queueVars,
     recvVars, histVars
<1>2. LockInv'
  BY Ipc2Assumption DEF IInv, TypeOK, LockInv, Holding, Malloc, queueVars, recvVars, histVars
<1>3. SenderInv'
  BY Ipc2Assumption DEF IInv, TypeOK, Ptr, SendStates, RecvStates, Request, SenderInv, InTail,
     LockInv, Holding, ListInv, Malloc, queueVars, recvVars, histVars
<1>4. ListInv'
  BY Ipc2Assumption DEF IInv, TypeOK, ListInv, Oldest, Malloc, queueVars, recvVars, histVars
<1>5. QueueInv'
  BY Ipc2Assumption DEF IInv, TypeOK, QueueInv, Points, InTail, Malloc, queueVars, recvVars,
     histVars
<1>6. ConsumerInv'
  BY Ipc2Assumption DEF IInv, TypeOK, ConsumerInv, Points, Malloc, queueVars, recvVars, histVars
<1> QED
  BY <1>1, <1>2, <1>3, <1>4, <1>5, <1>6 DEF IInv

(* ipc2_dump_queues takes a free mutex and changes no list. *)
LEMMA DumpLockKeeps ==
    ASSUME NEW p \in Producer, NEW c \in Consumer, IInv, DumpLock(p, c)
    PROVE  IInv'
<1>1. TypeOK'
  BY Ipc2Assumption DEF IInv, TypeOK, Ptr, SendStates, RecvStates, Request, DumpLock, memVars,
     recvVars, histVars
<1>2. LockInv'
  BY Ipc2Assumption DEF IInv, TypeOK, LockInv, Holding, DumpLock, memVars, recvVars, histVars
<1>3. SenderInv'
  BY Ipc2Assumption DEF IInv, TypeOK, SenderInv, InTail, DumpLock, memVars, recvVars, histVars
<1>4. ListInv'
  BY Ipc2Assumption DEF IInv, TypeOK, ListInv, Oldest, DumpLock, memVars, recvVars, histVars
<1>5. QueueInv'
  BY Ipc2Assumption DEF IInv, TypeOK, QueueInv, Points, InTail, DumpLock, memVars, recvVars,
     histVars
<1>6. ConsumerInv'
  BY Ipc2Assumption DEF IInv, TypeOK, ConsumerInv, Points, DumpLock, memVars, recvVars, histVars
<1> QED
  BY <1>1, <1>2, <1>3, <1>4, <1>5, <1>6 DEF IInv

(* ipc2_dump_queues gives its mutex back. *)
LEMMA DumpUnlockKeeps ==
    ASSUME NEW p \in Producer, IInv, DumpUnlock(p)
    PROVE  IInv'
<1>1. TypeOK'
  BY Ipc2Assumption DEF IInv, TypeOK, Ptr, SendStates, RecvStates, Request, DumpUnlock, memVars,
     recvVars, histVars
<1>2. LockInv'
  <2>1. /\ dumping[p] \in Consumer /\ lock[dumping[p]] = p /\ dumping[p] # NULL
        /\ ppc[p] \in {"watermark", "malloc"}
    BY DEF IInv, TypeOK, LockInv, Holding, DumpUnlock
  <2>2. /\ lock' = [lock EXCEPT ![dumping[p]] = NULL]
        /\ dumping' = [dumping EXCEPT ![p] = NULL]
        /\ UNCHANGED <<ppc, req, cpc>>
    BY DEF DumpUnlock, recvVars
  <2>3. \A q \in Producer : Holding(q, dumping[p]) => q = p
    BY <2>1 DEF IInv, LockInv
  <2>4. ASSUME NEW c \in Consumer, NEW q \in Producer
        PROVE  lock'[c] = q <=> Holding(q, c)'
    <3>1. CASE c = dumping[p]
      BY <2>1, <2>2, <2>3, <3>1, Ipc2Assumption DEF IInv, TypeOK, Holding
    <3>2. CASE c # dumping[p]
      <4>1. lock'[c] = lock[c]
        BY <2>2, <3>2 DEF IInv, TypeOK
      <4>2. Holding(q, c)' <=> Holding(q, c)
        BY <2>1, <2>2, <3>2, Ipc2Assumption DEF IInv, TypeOK, Holding
      <4> QED
        BY <4>1, <4>2 DEF IInv, LockInv
    <3> QED
      BY <3>1, <3>2
  <2>5. ASSUME NEW c \in Consumer
        PROVE  /\ lock'[c] = c <=> cpc'[c] \in {"take", "clear"}
               /\ lock'[c] \in Producer \cup {c, NULL}
    BY <2>1, <2>2, Ipc2Assumption DEF IInv, TypeOK, LockInv
  <2>6. \A q \in Producer : dumping'[q] # NULL => ppc'[q] \in {"watermark", "malloc"}
    BY <2>2 DEF IInv, TypeOK, LockInv
  <2> QED
    BY <2>4, <2>5, <2>6 DEF LockInv
<1>3. SenderInv'
  BY Ipc2Assumption DEF IInv, TypeOK, SenderInv, InTail, DumpUnlock, memVars, recvVars, histVars
<1>4. ListInv'
  BY Ipc2Assumption DEF IInv, TypeOK, ListInv, Oldest, DumpUnlock, memVars, recvVars, histVars
<1>5. QueueInv'
  BY Ipc2Assumption DEF IInv, TypeOK, QueueInv, Points, InTail, DumpUnlock, memVars, recvVars,
     histVars
<1>6. ConsumerInv'
  BY Ipc2Assumption DEF IInv, TypeOK, ConsumerInv, Points, DumpUnlock, memVars, recvVars, histVars
<1> QED
  BY <1>1, <1>2, <1>3, <1>4, <1>5, <1>6 DEF IInv

(* Filling writes a chunk that is not linked yet. *)
LEMMA FillKeeps ==
    ASSUME NEW p \in Producer, IInv, Fill(p)
    PROVE  IInv'
<1>1. TypeOK'
  <2>1. req[p].msg \in Msg
    BY Ipc2Assumption DEF IInv, TypeOK, Request
  <2>2. data' \in [Addr -> Msg \cup {NULL}]
    BY <2>1 DEF IInv, TypeOK, Fill
  <2>3. ppc' \in [Producer -> SendStates]
    BY DEF IInv, TypeOK, SendStates, Fill
  <2> QED
    BY <2>2, <2>3 DEF IInv, TypeOK, Fill, queueVars, recvVars, histVars
<1>2. LockInv'
  BY Ipc2Assumption DEF IInv, TypeOK, LockInv, Holding, Fill, queueVars, recvVars, histVars
<1>3. SenderInv'
  BY Ipc2Assumption DEF IInv, TypeOK, Ptr, SendStates, RecvStates, Request, SenderInv, InTail,
     Fill, queueVars, recvVars, histVars
<1>4. ListInv'
  BY Ipc2Assumption DEF IInv, TypeOK, Ptr, SendStates, RecvStates, Request, ListInv, Oldest,
     Fill, queueVars, recvVars, histVars
<1>5. QueueInv'
  BY Ipc2Assumption DEF IInv, TypeOK, QueueInv, Points, InTail, Fill, queueVars, recvVars, histVars
<1>6. ConsumerInv'
  BY Ipc2Assumption DEF IInv, TypeOK, ConsumerInv, Points, Fill, queueVars, recvVars, histVars
<1> QED
  BY <1>1, <1>2, <1>3, <1>4, <1>5, <1>6 DEF IInv

(* The mutex of a queue is taken when nobody is inside. *)
LEMMA AddLockKeeps ==
    ASSUME NEW p \in Producer, IInv, AddLock(p)
    PROVE  IInv'
<1>1. TypeOK'
  BY Ipc2Assumption DEF IInv, TypeOK, Ptr, SendStates, RecvStates, Request, AddLock, memVars,
     recvVars, histVars
<1>2. LockInv'
  BY Ipc2Assumption DEF IInv, TypeOK, LockInv, Holding, AddLock, memVars, recvVars, histVars
<1>3. SenderInv'
  BY Ipc2Assumption DEF IInv, TypeOK, SenderInv, InTail, AddLock, memVars, recvVars, histVars
<1>4. ListInv'
  BY Ipc2Assumption DEF IInv, TypeOK, ListInv, Oldest, AddLock, memVars, recvVars, histVars
<1>5. QueueInv'
  BY Ipc2Assumption DEF IInv, TypeOK, QueueInv, Points, InTail, AddLock, memVars, recvVars, histVars
<1>6. ConsumerInv'
  BY Ipc2Assumption DEF IInv, TypeOK, ConsumerInv, Points, AddLock, memVars, recvVars, histVars
<1> QED
  BY <1>1, <1>2, <1>3, <1>4, <1>5, <1>6 DEF IInv

(* What a sender knows once it holds the mutex: its chunk is private, no   *)
(* other sender is inside, and the queue is empty iff all was taken.       *)
LEMMA LinkContext ==
    ASSUME NEW p \in Producer, IInv, ppc[p] = "link"
    PROVE  /\ req[p].to \in Consumer /\ chunk[p] \in Addr /\ chunk[p] # NULL
           /\ chunk[p] \in live /\ home[chunk[p]] = NULL /\ next[chunk[p]] = NULL
           /\ data[chunk[p]] # NULL
           /\ \A q \in Producer : InTail(q) => req[q].to # req[p].to
           /\ linked[req[p].to] = sent[req[p].to]
           /\ cpc[req[p].to] \notin {"take", "clear"}
           /\ first[req[p].to] = NULL <=> taken[req[p].to] = sent[req[p].to]
<1>1. req[p].to \in Consumer
  BY Ipc2Assumption DEF IInv, TypeOK, Request
<1>2. /\ chunk[p] \in Addr /\ chunk[p] # NULL /\ chunk[p] \in live
      /\ home[chunk[p]] = NULL /\ next[chunk[p]] = NULL /\ data[chunk[p]] # NULL
  BY Ipc2Assumption DEF IInv, TypeOK, Ptr, SenderInv
<1>3. lock[req[p].to] = p
  BY <1>1 DEF IInv, LockInv, Holding
<1>4. \A q \in Producer : InTail(q) => req[q].to # req[p].to
  <2> SUFFICES ASSUME NEW q \in Producer, InTail(q), req[q].to = req[p].to PROVE FALSE
    OBVIOUS
  <2>1. lock[req[p].to] = q
    BY <1>1 DEF IInv, LockInv, Holding, InTail
  <2> QED
    BY <2>1, <1>3 DEF InTail
<1>5. linked[req[p].to] = sent[req[p].to]
  BY <1>1, <1>4 DEF IInv, QueueInv
<1>6. cpc[req[p].to] \notin {"take", "clear"}
  BY <1>1, <1>3, Ipc2Assumption DEF IInv, LockInv
<1>7. first[req[p].to] = NULL <=> taken[req[p].to] = sent[req[p].to]
  BY <1>1, <1>5, Ipc2Assumption DEF IInv, TypeOK, QueueInv, Points
<1> QED
  BY <1>1, <1>2, <1>4, <1>5, <1>6, <1>7

(* Linking the first chunk gives it the successor of the last number taken. *)
LEMMA AddLinkFirstKeeps ==
    ASSUME NEW p \in Producer, IInv, AddLinkFirst(p)
    PROVE  IInv'
<1> DEFINE k == req[p].to
<1> DEFINE a == chunk[p]
<1>0. /\ k \in Consumer /\ a \in Addr /\ a # NULL /\ a \in live
      /\ home[a] = NULL /\ next[a] = NULL /\ data[a] # NULL
      /\ \A q \in Producer : InTail(q) => req[q].to # k
      /\ linked[k] = sent[k] /\ taken[k] = sent[k]
      /\ cpc[k] \notin {"take", "clear"}
  BY LinkContext DEF AddLinkFirst
<1>a. /\ first' = [first EXCEPT ![k] = a]
      /\ ppc' = [ppc EXCEPT ![p] = "tailFirst"]
      /\ home' = [home EXCEPT ![a] = k]
      /\ stamp' = [stamp EXCEPT ![a] = linked[k] + 1]
      /\ linked' = [linked EXCEPT ![k] = @ + 1]
      /\ UNCHANGED <<memVars, last, count, items, sent, itemsSent, lock, req, chunk, dumping, recvVars, taken, rcvd>>
  BY DEF AddLinkFirst, Stamp
<1>b. /\ ppc[p] = "link" /\ first[k] = NULL
  BY DEF AddLinkFirst
<1>c. UNCHANGED <<live, free, next, chItems, chSize, data, last, count, items, sent, itemsSent, lock,
                  req, chunk, dumping, cpc, rcvQueue, cur, got, taken, rcvd>>
  BY <1>a DEF memVars, recvVars
<1> HIDE DEF k, a
<1>1. TypeOK'
  BY <1>0, <1>a, <1>c DEF IInv, TypeOK, Ptr, SendStates
<1>2. LockInv'
  BY <1>0, <1>a, <1>b, <1>c DEF k, IInv, TypeOK, LockInv, Holding
<1>3. SenderInv'
  <2>1. ASSUME NEW q \in Producer
        PROVE  /\ (chunk[q] = NULL <=> ppc[q] \in {"idle", "watermark", "malloc"})'
               /\ (chunk[q] # NULL => chunk[q] \in live)'
               /\ (ppc[q] \in {"fill", "lock", "link"} => home[chunk[q]] = NULL /\ next[chunk[q]] = NULL)'
               /\ (ppc[q] \in {"lock", "link"} => data[chunk[q]] # NULL)'
               /\ (InTail(q) => home[chunk[q]] = req[q].to /\ stamp[chunk[q]] = linked[req[q].to])'
               /\ (ppc[q] = "tailFirst" => sent[req[q].to] = taken[req[q].to])'
    <3>1. CASE q = p
      BY <3>1, <1>0, <1>a, <1>b, <1>c DEF k, a, IInv, TypeOK, InTail
    <3>2. CASE q # p
      <4>1. chunk[q] # a
        BY <3>2, <1>0 DEF a, IInv, SenderInv
      <4> QED
        BY <4>1, <3>2, <1>0, <1>a, <1>b, <1>c DEF IInv, TypeOK, Ptr, SenderInv, InTail
    <3> QED BY <3>1, <3>2
  <2>2. (\A q, r \in Producer : chunk[q] = chunk[r] /\ chunk[q] # NULL => q = r)'
    BY <1>c DEF IInv, SenderInv
  <2> QED
    BY <2>1, <2>2 DEF SenderInv
<1>4. ListInv'
  <2>1. \A b \in Addr : home[b] = k => stamp[b] # linked[k] + 1
    BY <1>0, Ipc2Assumption DEF IInv, TypeOK, ListInv
  <2>2. Oldest(k) <= linked[k] + 1
    BY <1>0 DEF IInv, TypeOK, QueueInv, Oldest
  <2> SUFFICES ASSUME NEW b \in Addr, home'[b] # NULL
               PROVE  LET c == home'[b] IN
                      /\ b \in live
                      /\ data[b] # NULL
                      /\ Oldest(c) <= stamp'[b] /\ stamp'[b] <= linked'[c]
                      /\ \A d \in Addr : home'[d] = c /\ stamp'[d] = stamp'[b] => d = b
                      /\ IF stamp'[b] \in {taken[c], linked'[c]}
                           THEN next[b] = NULL
                           ELSE next[b] \in Addr /\ home'[next[b]] = c /\ stamp'[next[b]] = stamp'[b] + 1
    BY <1>c DEF ListInv, Oldest
  <2>3. CASE b = a
    BY <2>1, <2>2, <2>3, <1>0, <1>a DEF IInv, TypeOK
  <2>4. CASE b # a
    <3>1. home'[b] = home[b] /\ stamp'[b] = stamp[b] /\ home[b] \in Consumer
      BY <2>4, <1>a DEF IInv, TypeOK
    <3>2. next[b] # a
      BY <3>1, <1>0, Ipc2Assumption DEF IInv, ListInv
    <3> QED
      BY <2>1, <2>4, <3>1, <3>2, <1>0, <1>a DEF IInv, TypeOK, ListInv
  <2> QED
    BY <2>3, <2>4
<1>p. \A x, c, m, n : c \in Consumer /\ Points(x, c, m, n) => Points(x, c, m, n)'
  BY <1>0, <1>a, Ipc2Assumption DEF IInv, TypeOK, Points
<1>5. QueueInv'
  <2>1. ASSUME NEW c \in Consumer
        PROVE  (\E q \in Producer : InTail(q) /\ req[q].to = c)' <=>
               c = k \/ \E q \in Producer : InTail(q) /\ req[q].to = c
    BY <1>0, <1>a, <1>b, <1>c DEF k, IInv, TypeOK, InTail
  <2> SUFFICES ASSUME NEW c \in Consumer
               PROVE  /\ rcvd[c] <= taken[c] /\ taken[c] <= sent[c]
                      /\ linked'[c] = IF (\E q \in Producer : InTail(q) /\ req[q].to = c)'
                                        THEN sent[c] + 1 ELSE sent[c]
                      /\ Points(first[c], c, taken[c] + 1, linked[c])'
                      /\ IF sent[c] = taken[c] THEN last[c] = NULL ELSE Points(last[c], c, sent[c], linked[c])'
                      /\ count[c] + taken[c] = sent[c]
    BY <1>c DEF QueueInv
  <2>2. CASE c = k
    BY <2>1, <2>2, <1>0, <1>a, <1>c DEF IInv, TypeOK, QueueInv, Points
  <2>3. CASE c # k
    BY <2>1, <2>3, <1>0, <1>a, <1>c, <1>p DEF IInv, TypeOK, QueueInv
  <2> QED
    BY <2>2, <2>3
<1>6. ConsumerInv'
  BY <1>0, <1>a, <1>c, <1>p DEF IInv, TypeOK, ConsumerInv
<1> QED
  BY <1>1, <1>2, <1>3, <1>4, <1>5, <1>6 DEF IInv

(* Linking behind the tail gives the chunk the successor of the tail's number. *)
LEMMA AddLinkNextKeeps ==
    ASSUME NEW p \in Producer, IInv, AddLinkNext(p)
    PROVE  IInv'
<1> DEFINE k == req[p].to
<1> DEFINE a == chunk[p]
<1> DEFINE t == last[req[p].to]
<1>0. /\ k \in Consumer /\ a \in Addr /\ a # NULL /\ a \in live
      /\ home[a] = NULL /\ next[a] = NULL /\ data[a] # NULL
      /\ \A q \in Producer : InTail(q) => req[q].to # k
      /\ linked[k] = sent[k] /\ taken[k] # sent[k]
      /\ cpc[k] \notin {"take", "clear"}
  BY LinkContext DEF AddLinkNext
<1>1. t \in Addr /\ home[t] = k /\ stamp[t] = sent[k] /\ t # a
  BY <1>0, Ipc2Assumption DEF IInv, TypeOK, QueueInv, Points
<1>a. /\ next' = [next EXCEPT ![t] = a]
      /\ ppc' = [ppc EXCEPT ![p] = "tailNext"]
      /\ home' = [home EXCEPT ![a] = k]
      /\ stamp' = [stamp EXCEPT ![a] = linked[k] + 1]
      /\ linked' = [linked EXCEPT ![k] = @ + 1]
  BY DEF AddLinkNext, Stamp
<1>b. ppc[p] = "link" /\ first[k] # NULL
  BY DEF AddLinkNext
<1>c. UNCHANGED <<live, free, chItems, chSize, data, first, last, count, items, sent, itemsSent, lock,
                  req, chunk, dumping, cpc, rcvQueue, cur, got, taken, rcvd>>
  BY DEF AddLinkNext, Stamp, queueVars, recvVars
<1>p. \A x, c, m, n : c \in Consumer /\ Points(x, c, m, n) => Points(x, c, m, n)'
  BY <1>0, <1>a, Ipc2Assumption DEF IInv, TypeOK, Points
<1> HIDE DEF k, a, t
<1>2. TypeOK'
  BY <1>0, <1>1, <1>a, <1>c DEF IInv, TypeOK, Ptr, SendStates
<1>3. LockInv'
  BY <1>0, <1>a, <1>b, <1>c DEF k, IInv, TypeOK, LockInv, Holding
<1>4. SenderInv'
  <2>1. ASSUME NEW q \in Producer
        PROVE  /\ (chunk[q] = NULL <=> ppc[q] \in {"idle", "watermark", "malloc"})'
               /\ (chunk[q] # NULL => chunk[q] \in live)'
               /\ (ppc[q] \in {"fill", "lock", "link"} => home[chunk[q]] = NULL /\ next[chunk[q]] = NULL)'
               /\ (ppc[q] \in {"lock", "link"} => data[chunk[q]] # NULL)'
               /\ (InTail(q) => home[chunk[q]] = req[q].to /\ stamp[chunk[q]] = linked[req[q].to])'
               /\ (ppc[q] = "tailFirst" => sent[req[q].to] = taken[req[q].to])'
    <3>1. CASE q = p
      BY <3>1, <1>0, <1>a, <1>b, <1>c DEF k, a, IInv, TypeOK, InTail
    <3>2. CASE q # p
      <4>1. chunk[q] # a
        BY <3>2, <1>0 DEF a, IInv, SenderInv
      <4> QED
        BY <4>1, <3>2, <1>0, <1>1, <1>a, <1>b, <1>c, Ipc2Assumption DEF IInv, TypeOK, Ptr, SenderInv, InTail
    <3> QED BY <3>1, <3>2
  <2>2. (\A q, r \in Producer : chunk[q] = chunk[r] /\ chunk[q] # NULL => q = r)'
    BY <1>c DEF IInv, SenderInv
  <2> QED
    BY <2>1, <2>2 DEF SenderInv
<1>5. ListInv'
  <2>1. \A b \in Addr : home[b] = k => stamp[b] # linked[k] + 1
    BY <1>0, Ipc2Assumption DEF IInv, TypeOK, ListInv
  <2>2. Oldest(k) <= linked[k] + 1 /\ taken[k] < sent[k]
    BY <1>0 DEF IInv, TypeOK, QueueInv, Oldest
  <2> SUFFICES ASSUME NEW b \in Addr, home'[b] # NULL
               PROVE  LET c == home'[b] IN
                      /\ b \in live
                      /\ data[b] # NULL
                      /\ Oldest(c) <= stamp'[b] /\ stamp'[b] <= linked'[c]
                      /\ \A d \in Addr : home'[d] = c /\ stamp'[d] = stamp'[b] => d = b
                      /\ IF stamp'[b] \in {taken[c], linked'[c]}
                           THEN next'[b] = NULL
                           ELSE next'[b] \in Addr /\ home'[next'[b]] = c /\ stamp'[next'[b]] = stamp'[b] + 1
    BY <1>c DEF ListInv, Oldest
  <2>3. CASE b = a
    BY <2>1, <2>2, <2>3, <1>0, <1>1, <1>a DEF IInv, TypeOK
  <2>4. CASE b = t
    BY <2>1, <2>2, <2>4, <1>0, <1>1, <1>a, Ipc2Assumption DEF IInv, TypeOK, ListInv
  <2>5. CASE b # a /\ b # t
    <3>1. /\ home'[b] = home[b] /\ stamp'[b] = stamp[b] /\ home[b] \in Consumer
          /\ next'[b] = next[b]
      BY <2>5, <1>a DEF IInv, TypeOK
    <3>2. next[b] # a
      BY <3>1, <1>0, Ipc2Assumption DEF IInv, ListInv
    <3>3. home[b] = k => stamp[b] # linked[k]
      BY <2>5, <1>0, <1>1, Ipc2Assumption DEF IInv, ListInv
    <3> QED
      BY <2>1, <2>5, <3>1, <3>2, <3>3, <1>0, <1>a DEF IInv, TypeOK, ListInv
  <2> QED
    BY <2>3, <2>4, <2>5
<1>6. QueueInv'
  <2>1. ASSUME NEW c \in Consumer
        PROVE  (\E q \in Producer : InTail(q) /\ req[q].to = c)' <=>
               c = k \/ \E q \in Producer : InTail(q) /\ req[q].to = c
    BY <1>0, <1>a, <1>b, <1>c DEF k, IInv, TypeOK, InTail
  <2> SUFFICES ASSUME NEW c \in Consumer
               PROVE  /\ rcvd[c] <= taken[c] /\ taken[c] <= sent[c]
                      /\ linked'[c] = IF (\E q \in Producer : InTail(q) /\ req[q].to = c)'
                                        THEN sent[c] + 1 ELSE sent[c]
                      /\ Points(first[c], c, taken[c] + 1, linked[c])'
                      /\ IF sent[c] = taken[c] THEN last[c] = NULL ELSE Points(last[c], c, sent[c], linked[c])'
                      /\ count[c] + taken[c] = sent[c]
    BY <1>c DEF QueueInv
  <2>2. CASE c = k
    <3>0. rcvd[k] <= taken[k] /\ taken[k] <= sent[k] /\ count[k] + taken[k] = sent[k]
      BY <1>0 DEF IInv, QueueInv
    <3>1. /\ taken[k] + 1 <= sent[k] /\ linked'[k] = sent[k] + 1
          /\ taken[k] \in Nat /\ sent[k] \in Nat
      BY <3>0, <1>0, <1>a DEF IInv, TypeOK
    <3>2. first[k] \in Addr /\ home[first[k]] = k /\ stamp[first[k]] = taken[k] + 1
      BY <3>1, <1>0 DEF IInv, QueueInv, Points
    <3>3. /\ home'[first[k]] = k /\ stamp'[first[k]] = taken[k] + 1
          /\ home'[t] = k /\ stamp'[t] = sent[k] /\ t = last[k]
      BY <3>2, <1>0, <1>1, <1>a, Ipc2Assumption DEF k, t, IInv, TypeOK
    <3>4. Points(first[c], c, taken[c] + 1, linked[c])'
      BY <2>2, <3>1, <3>2, <3>3, <1>c DEF Points
    <3>5. Points(last[c], c, sent[c], linked[c])'
      BY <2>2, <3>1, <3>3, <1>1, <1>c DEF Points
    <3> QED
      BY <2>1, <2>2, <3>0, <3>1, <3>4, <3>5, <1>0
  <2>3. CASE c # k
    BY <2>1, <2>3, <1>0, <1>a, <1>c, <1>p DEF IInv, TypeOK, QueueInv
  <2> QED
    BY <2>2, <2>3
<1>7. ConsumerInv'
  BY <1>0, <1>a, <1>c, <1>p DEF IInv, TypeOK, ConsumerInv
<1> QED
  BY <1>2, <1>3, <1>4, <1>5, <1>6, <1>7 DEF IInv

(* Publishing the tail and the counters closes the critical section. *)
LEMMA AddTailKeeps ==
    ASSUME NEW p \in Producer, IInv, AddTail(p)
    PROVE  IInv'
<1>a. req[p].to \in Consumer /\ req[p].items \in Nat
  BY Ipc2Assumption DEF IInv, TypeOK, Request
<1>b. ppc[p] \in {"tailFirst", "tailNext"}
  BY DEF AddTail
<1>c. chunk[p] \in Addr /\ chItems[chunk[p]] \in Nat
  BY <1>b DEF IInv, TypeOK, Ptr, SenderInv
<1>0. /\ req[p].to \in Consumer /\ req[p].items \in Nat
      /\ chunk[p] \in Addr /\ chItems[chunk[p]] \in Nat
  BY <1>a, <1>c
<1>1. TypeOK'
  BY <1>0, NoRequestType DEF IInv, TypeOK, Ptr, SendStates, AddTail, memVars, recvVars, histVars
<1>11. LockInv'
  BY Ipc2Assumption DEF IInv, TypeOK, LockInv, Holding, AddTail, memVars, recvVars, histVars
<1>12. SenderInv'
  BY Ipc2Assumption DEF IInv, TypeOK, Ptr, SendStates, RecvStates, Request, SenderInv, InTail,
     LockInv, Holding, AddTail, memVars, recvVars, histVars
<1>13. ListInv'
  BY Ipc2Assumption DEF IInv, TypeOK, ListInv, Oldest, AddTail, memVars, recvVars, histVars
<1>14. QueueInv'
  BY Ipc2Assumption DEF IInv, TypeOK, Ptr, SendStates, RecvStates, Request, QueueInv, Points,
     InTail, SenderInv, LockInv, Holding, AddTail, memVars, recvVars, histVars
<1>15. ConsumerInv'
  BY Ipc2Assumption DEF IInv, TypeOK, ConsumerInv, Points, AddTail, memVars, recvVars, histVars
<1> QED
  BY <1>1, <1>11, <1>12, <1>13, <1>14, <1>15 DEF IInv

(* The consumer enters its queue's critical section. *)
LEMMA RcvLockKeeps ==
    ASSUME NEW c \in Consumer, IInv, RcvLock(c)
    PROVE  IInv'
<1>1. TypeOK'
  BY Ipc2Assumption DEF IInv, TypeOK, Ptr, SendStates, RecvStates, Request, RcvLock, memVars,
     sendVars, histVars
<1>2. LockInv'
  BY Ipc2Assumption DEF IInv, TypeOK, LockInv, Holding, RcvLock, memVars, sendVars, histVars
<1>3. SenderInv'
  BY Ipc2Assumption DEF IInv, TypeOK, SenderInv, InTail, RcvLock, memVars, sendVars, histVars
<1>4. ListInv'
  BY Ipc2Assumption DEF IInv, TypeOK, ListInv, Oldest, RcvLock, memVars, sendVars, histVars
<1>5. QueueInv'
  BY Ipc2Assumption DEF IInv, TypeOK, QueueInv, Points, InTail, RcvLock, memVars, sendVars, histVars
<1>6. ConsumerInv'
  BY Ipc2Assumption DEF IInv, TypeOK, Ptr, SendStates, RecvStates, Request, ConsumerInv, Points,
     QueueInv, LockInv, Holding, RcvLock, memVars, sendVars, histVars
<1> QED
  BY <1>1, <1>2, <1>3, <1>4, <1>5, <1>6 DEF IInv

(* The private list starts where the shared one does. *)
LEMMA RcvTakeKeeps ==
    ASSUME NEW c \in Consumer, IInv, RcvTake(c)
    PROVE  IInv'
<1>1. TypeOK'
  BY Ipc2Assumption DEF IInv, TypeOK, Ptr, SendStates, RecvStates, Request, RcvTake, memVars,
     queueVars, sendVars, histVars
<1>2. LockInv'
  BY Ipc2Assumption DEF IInv, TypeOK, LockInv, Holding, RcvTake, memVars, queueVars, sendVars,
     histVars
<1>3. SenderInv'
  BY Ipc2Assumption DEF IInv, TypeOK, SenderInv, InTail, RcvTake, memVars, queueVars, sendVars,
     histVars
<1>4. ListInv'
  BY Ipc2Assumption DEF IInv, TypeOK, ListInv, Oldest, RcvTake, memVars, queueVars, sendVars,
     histVars
<1>5. QueueInv'
  BY Ipc2Assumption DEF IInv, TypeOK, QueueInv, Points, InTail, RcvTake, memVars, queueVars,
     sendVars, histVars
<1>6. ConsumerInv'
  BY Ipc2Assumption DEF IInv, TypeOK, ConsumerInv, Points, RcvTake, memVars, queueVars, sendVars,
     histVars
<1> QED
  BY <1>1, <1>2, <1>3, <1>4, <1>5, <1>6 DEF IInv

(* The shared list is cut off: what it held is now the private list. *)
LEMMA RcvClearKeeps ==
    ASSUME NEW c \in Consumer, IInv, RcvClear(c)
    PROVE  IInv'
<1>1. /\ \A q \in Producer : InTail(q) => req[q].to # c
      /\ linked[c] = sent[c] /\ rcvd[c] = taken[c] /\ rcvQueue[c] = first[c]
  <2>1. lock[c] = c
    BY DEF IInv, LockInv, RcvClear
  <2>2. \A q \in Producer : InTail(q) => req[q].to # c
    BY <2>1, Ipc2Assumption DEF IInv, LockInv, Holding, InTail
  <2> QED
    BY <2>2 DEF IInv, QueueInv, ConsumerInv, RcvClear
<1>4. ListInv'
  BY <1>1 DEF IInv, TypeOK, ListInv, Oldest, QueueInv, RcvClear, memVars, sendVars
<1>6. ConsumerInv'
  BY <1>1 DEF IInv, TypeOK, ConsumerInv, Points, QueueInv, RcvClear, memVars, sendVars
<1>11. TypeOK'
  BY Ipc2Assumption DEF IInv, TypeOK, Ptr, SendStates, RecvStates, Request, RcvClear, memVars,
     sendVars
<1>12. LockInv'
  BY Ipc2Assumption DEF IInv, TypeOK, LockInv, Holding, RcvClear, memVars, sendVars
<1>13. SenderInv'
  BY Ipc2Assumption DEF IInv, TypeOK, SenderInv, InTail, RcvClear, memVars, sendVars
<1>14. QueueInv'
  BY Ipc2Assumption DEF IInv, TypeOK, Ptr, SendStates, RecvStates, Request, QueueInv, Points,
     InTail, SenderInv, LockInv, Holding, RcvClear, memVars, sendVars
<1> QED
  BY <1>11, <1>12, <1>13, <1>4, <1>14, <1>6 DEF IInv

(* The private list advances to the next number. *)
LEMMA RcvPopKeeps ==
    ASSUME NEW c \in Consumer, IInv, RcvPop(c)
    PROVE  IInv'
<1>1. /\ rcvQueue[c] \in Addr /\ home[rcvQueue[c]] = c /\ stamp[rcvQueue[c]] = rcvd[c] + 1
      /\ rcvd[c] < taken[c] /\ taken[c] <= linked[c]
  BY DEF IInv, TypeOK, RcvPop, ConsumerInv, QueueInv, Points
<1>2. Points(next[rcvQueue[c]], c, rcvd[c] + 2, taken[c])
  BY <1>1, Ipc2Assumption DEF IInv, TypeOK, ListInv, Points
<1>6. ConsumerInv'
  BY <1>1, <1>2 DEF IInv, TypeOK, RcvPop, ConsumerInv, Points, memVars, queueVars, sendVars,
     histVars
<1>11. TypeOK'
  BY Ipc2Assumption DEF IInv, TypeOK, Ptr, SendStates, RecvStates, Request, RcvPop, memVars,
     queueVars, sendVars, histVars
<1>12. LockInv'
  BY Ipc2Assumption DEF IInv, TypeOK, LockInv, Holding, RcvPop, memVars, queueVars, sendVars,
     histVars
<1>13. SenderInv'
  BY Ipc2Assumption DEF IInv, TypeOK, SenderInv, InTail, RcvPop, memVars, queueVars, sendVars,
     histVars
<1>14. ListInv'
  BY Ipc2Assumption DEF IInv, TypeOK, ListInv, Oldest, RcvPop, memVars, queueVars, sendVars,
     histVars
<1>15. QueueInv'
  BY Ipc2Assumption DEF IInv, TypeOK, QueueInv, Points, InTail, RcvPop, memVars, queueVars,
     sendVars, histVars
<1> QED
  BY <1>11, <1>12, <1>13, <1>14, <1>15, <1>6 DEF IInv

(* receive_func consumes the next number. *)
LEMMA RcvProcessKeeps ==
    ASSUME NEW c \in Consumer, IInv, RcvProcess(c)
    PROVE  IInv'
<1>1. TypeOK'
  BY Ipc2Assumption DEF IInv, TypeOK, Ptr, SendStates, RecvStates, Request, SenderInv,
     ConsumerInv, Points, RcvProcess, memVars, queueVars, sendVars
<1>2. LockInv'
  BY Ipc2Assumption DEF IInv, TypeOK, LockInv, Holding, RcvProcess, memVars, queueVars, sendVars
<1>3. SenderInv'
  BY Ipc2Assumption DEF IInv, TypeOK, SenderInv, InTail, RcvProcess, memVars, queueVars, sendVars
<1>4. ListInv'
  BY Ipc2Assumption DEF IInv, TypeOK, ListInv, Oldest, RcvProcess, memVars, queueVars, sendVars
<1>5. QueueInv'
  BY Ipc2Assumption DEF IInv, TypeOK, Ptr, SendStates, RecvStates, Request, QueueInv, Points,
     InTail, ConsumerInv, LockInv, Holding, RcvProcess, memVars, queueVars, sendVars
<1>6. ConsumerInv'
  BY Ipc2Assumption DEF IInv, TypeOK, ConsumerInv, Points, RcvProcess, memVars, queueVars, sendVars
<1> QED
  BY <1>1, <1>2, <1>3, <1>4, <1>5, <1>6 DEF IInv

(* The freed chunk is the oldest, and no list leads to it. *)
LEMMA RcvReleaseKeeps ==
    ASSUME NEW c \in Consumer, IInv, RcvRelease(c)
    PROVE  IInv'
<1>0. /\ cur[c] \in Addr /\ home[cur[c]] = c /\ stamp[cur[c]] = rcvd[c]
      /\ rcvd[c] <= taken[c] /\ c # NULL /\ cpc[c] = "release"
  BY Ipc2Assumption DEF IInv, TypeOK, ConsumerInv, QueueInv, Points, RcvRelease
<1>1. TypeOK'
  BY <1>0, Ipc2Assumption DEF IInv, TypeOK, Ptr, RecvStates, RcvRelease, queueVars, sendVars
<1>2. \A a \in Addr : home[a] = c => a = cur[c] \/ stamp[a] > rcvd[c]
  BY <1>0 DEF IInv, TypeOK, ListInv, Oldest
<1>3. \A a \in Addr : home[a] # NULL => next[a] # cur[c]
  BY <1>0, <1>2, Ipc2Assumption DEF IInv, TypeOK, ListInv, Oldest
<1>4. SenderInv'
  <2>1. \A p \in Producer : chunk[p] # NULL /\ ~InTail(p) => chunk[p] # cur[c]
    BY <1>0 DEF IInv, TypeOK, SendStates, SenderInv, InTail
  <2>2. \A p \in Producer : InTail(p) => chunk[p] # cur[c]
    <3>1. ASSUME NEW p \in Producer, InTail(p), req[p].to = c
          PROVE  stamp[chunk[p]] = sent[c] + 1
      BY <3>1 DEF IInv, SenderInv, QueueInv
    <3>2. taken[c] <= sent[c] /\ rcvd[c] \in Nat /\ taken[c] \in Nat /\ sent[c] \in Nat
      BY DEF IInv, TypeOK, QueueInv
    <3>3. stamp[cur[c]] # sent[c] + 1
      BY <1>0, <3>2
    <3>4. \A p \in Producer : InTail(p) => home[chunk[p]] = req[p].to
      BY DEF IInv, SenderInv
    <3> QED
      BY <1>0, <3>1, <3>3, <3>4, Zenon
  <2> QED
    BY <2>1, <2>2, <1>0 DEF IInv, TypeOK, Ptr, SenderInv, InTail, RcvRelease, queueVars, sendVars
<1>5. ListInv'
  BY <1>0, <1>2, <1>3 DEF IInv, TypeOK, ListInv, Oldest, RcvRelease, queueVars, sendVars
<1>11. LockInv'
  BY Ipc2Assumption DEF IInv, TypeOK, LockInv, Holding, RcvRelease, queueVars, sendVars
<1>12. QueueInv'
  BY Ipc2Assumption DEF IInv, TypeOK, Ptr, SendStates, RecvStates, Request, QueueInv, Points,
     InTail, ConsumerInv, LockInv, Holding, RcvRelease, queueVars, sendVars
<1>13. ConsumerInv'
  BY Ipc2Assumption DEF IInv, TypeOK, ConsumerInv, Points, RcvRelease, queueVars, sendVars
<1> QED
  BY <1>1, <1>11, <1>4, <1>5, <1>12, <1>13 DEF IInv

(* Every step of every process, and stuttering, keeps the invariant. *)
LEMMA NextKeeps == IInv /\ [Next]_vars => IInv'
<1> SUFFICES ASSUME IInv, [Next]_vars PROVE IInv'
  OBVIOUS
<1>1. ASSUME NEW p \in Producer, NEW r \in Requests, Send(p, r) PROVE IInv'
  BY <1>1, SendKeeps
<1>2. ASSUME NEW p \in Producer, NEW c \in Consumer, DumpLock(p, c) PROVE IInv'
  BY <1>2, DumpLockKeeps
<1>3. ASSUME NEW p \in Producer,
             PassWatermark(p) \/ Malloc(p) \/ DumpUnlock(p) \/ Fill(p) \/ AddLock(p)
      PROVE  IInv'
  BY <1>3, PassWatermarkKeeps, MallocKeeps, DumpUnlockKeeps, FillKeeps, AddLockKeeps
<1>4. ASSUME NEW p \in Producer, AddLinkFirst(p) \/ AddLinkNext(p) \/ AddTail(p)
      PROVE  IInv'
  BY <1>4, AddLinkFirstKeeps, AddLinkNextKeeps, AddTailKeeps
<1>5. ASSUME NEW c \in Consumer,
             RcvLock(c) \/ RcvTake(c) \/ RcvClear(c) \/ RcvPop(c) \/ RcvProcess(c) \/ RcvRelease(c)
      PROVE  IInv'
  BY <1>5, RcvLockKeeps, RcvTakeKeeps, RcvClearKeeps, RcvPopKeeps, RcvProcessKeeps, RcvReleaseKeeps
<1>6. CASE UNCHANGED vars
  BY <1>6 DEF vars, memVars, queueVars, sendVars, recvVars, histVars, IInv, TypeOK, LockInv,
     Holding,
              SenderInv, InTail, ListInv, Oldest, QueueInv, Points, ConsumerInv
<1> QED
  BY <1>1, <1>2, <1>3, <1>4, <1>5, <1>6 DEF Next

(* The inductive invariant holds in every reachable state. *)
THEOREM Ipc2Invariant == Spec => []IInv
<1> QED
  BY InitKeeps, NextKeeps, PTL DEF Spec

(* Every variable keeps its type. *)
THEOREM TypeCorrect == Spec => []TypeOK
<1>1. IInv => TypeOK
  BY DEF IInv
<1> QED
  BY <1>1, Ipc2Invariant, PTL

(* receive_func is given the chunks of its queue in the order they were    *)
(* linked, each exactly once, never another queue's and never one whose    *)
(* payload is not written yet.                                             *)
THEOREM DeliveryInOrder == Spec => []InOrderDelivery
<1>1. IInv => InOrderDelivery
  <2> SUFFICES ASSUME IInv, NEW c \in Consumer, cpc[c] = "process"
               PROVE  home[cur[c]] = c /\ stamp[cur[c]] = rcvd[c] + 1 /\ data[cur[c]] # NULL
    BY DEF InOrderDelivery
  <2>1. cur[c] \in Addr /\ home[cur[c]] = c /\ stamp[cur[c]] = rcvd[c] + 1
    BY DEF IInv, TypeOK, ConsumerInv, Points
  <2> QED
    BY <2>1, Ipc2Assumption DEF IInv, ListInv
<1> QED
  BY <1>1, Ipc2Invariant, PTL

(* No list, tail pointer, sender or consumer ever leads to a chunk that    *)
(* was given back to the allocator.                                        *)
THEOREM NoDanglingPointers == Spec => []NoUseAfterFree
<1>1. IInv => NoUseAfterFree
  <2> SUFFICES ASSUME IInv PROVE NoUseAfterFree
    OBVIOUS
  <2>1. \A a \in Addr : home[a] # NULL => a \in live
    BY DEF IInv, ListInv
  <2>2. ASSUME NEW a \in Addr, home[a] # NULL PROVE next[a] \in live \cup {NULL}
    BY <2>1, <2>2, Ipc2Assumption DEF IInv, ListInv
  <2>3. ASSUME NEW p \in Producer PROVE chunk[p] \in live \cup {NULL}
    BY DEF IInv, SenderInv
  <2>4. ASSUME NEW c \in Consumer, NEW x, NEW k, NEW n, Points(x, c, k, n)
        PROVE  x \in live \cup {NULL}
    BY <2>1, <2>4, Ipc2Assumption DEF Points
  <2>5. ASSUME NEW c \in Consumer
        PROVE  {first[c], last[c], rcvQueue[c], cur[c]} \subseteq live \cup {NULL}
    <3>1. first[c] \in live \cup {NULL} /\ last[c] \in live \cup {NULL}
      BY <2>4 DEF IInv, QueueInv
    <3>2. rcvQueue[c] \in live \cup {NULL}
      BY <2>4, <3>1 DEF IInv, TypeOK, RecvStates, ConsumerInv
    <3>3. cur[c] \in live \cup {NULL}
      BY <2>4 DEF IInv, TypeOK, RecvStates, ConsumerInv
    <3> QED
      BY <3>1, <3>2, <3>3
  <2> QED
    BY <2>1, <2>2, <2>3, <2>5 DEF NoUseAfterFree
<1> QED
  BY <1>1, Ipc2Invariant, PTL

(* The chunk counter always says how many chunks wait in the shared list,  *)
(* and the tail pointer is null exactly when none does.                    *)
THEOREM CountersExact == Spec => []QueueCounters
<1>1. IInv => QueueCounters
  <2> SUFFICES ASSUME IInv, NEW c \in Consumer
               PROVE  count[c] + taken[c] = sent[c] /\ (last[c] = NULL <=> count[c] = 0)
    BY DEF QueueCounters
  <2>0. count[c] \in Nat /\ taken[c] \in Nat /\ sent[c] \in Nat /\ linked[c] \in Nat
    BY DEF IInv, TypeOK
  <2>1. count[c] + taken[c] = sent[c] /\ linked[c] \in {sent[c], sent[c] + 1}
    BY DEF IInv, QueueInv
  <2>2. /\ sent[c] = taken[c] => last[c] = NULL
        /\ sent[c] # taken[c] => Points(last[c], c, sent[c], linked[c])
    BY DEF IInv, QueueInv
  <2>3. Points(last[c], c, sent[c], linked[c]) => last[c] # NULL
    BY <2>0, <2>1, Ipc2Assumption DEF Points
  <2> QED
    BY <2>0, <2>1, <2>2, <2>3
<1> QED
  BY <1>1, Ipc2Invariant, PTL
=============================================================================
