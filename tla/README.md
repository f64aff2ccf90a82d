# Formal models of Glaber

TLA+ models of the parts of Glaber (a fork of Zabbix) that carry its own
concurrent logic: the shared memory queues between its processes and the
pipeline of metrics on top of them, the shared hash of its caches, the failover
of a server cluster, and the asynchronous pollers. Every definition is
translated from the C source; `PROJECT.json` maps it to its lines.

    tlc -workers 2 -config MCIpc2.cfg MCIpc2      # one model-checking run
    tlapm Ipc2_proofs.tla                         # the proofs of one module

## 1. The system

A Glaber server is a set of processes forked from one main process. They share
memory segments and exchange data through them.

| part | state | operations | talks to |
|---|---|---|---|
| shared memory IPC (`glb_ipc2.c`) | per consumer a linked list of chunks, counters and a mutex; a segment with a free size | send a chunk, receive one chunk, dump queues, statistics | pollers, preprocessing workers, history syncers |
| HA manager and main loop (`ha_manager.c`, `server.c`) | table `ha_node` and the failover delay in the database; in each manager the node status, offline ticks, database status; in each main process the status and the time of the last heartbeat | register, check nodes, take over, tick, heartbeat, pause, stop, remove node, set delay; start up and tear down the working processes | database, main process, administrator |
| asynchronous SNMP poller (`glb_poller.c`, `poller_async_io.c`, `poller_sessions.c`, `snmp*.c`) | items with poll state, poll timer, timeout timer, request id, retries, walk data; a table of open request ids; lookups in progress | create, delete, poll, resolve, answer, timeout, retry, next request of a walk, lost items check | libevent, evdns, devices, configuration cache |
| metric pipeline (`glb_preproc_ipc.c`, `glb_serial_buffer.c`) | local buffers per sender and queue, two IPC segments | add a metric, flush by time, by size or by force, receive | IPC, preprocessing, history |
| preprocessing workers and manager | per worker the configuration and history of its items; the chunk it processes | receive, run steps, derive dependent metrics, dispatch, send on | metric pipeline |
| `elems_hash`, `obj_index`, `event_queue` | shared hash sets with a lock per element; two inverse indexes; a heap of timed events | process, update, delete, iterate | state caches, preprocessing |
| TCP poller, contention (`poller_tcp.c`, `poller_contention.c`), worker pollers | connections, counters of connections per host, delayed polls; child processes | connect, send, receive, close, housekeeping | devices, DNS |
| state caches (`glb_state`) | items, triggers, hosts, problems | set, get, expire, load, dump | all processes |
| history storage, configuration cache, alerter, escalator, LLD, services, proxy, agents, frontend | database and external storages | | |

What is hard here, and hardly reached by a test:

* senders, receivers and senders out of memory interleave at every access to a
  queue, and memory freed by one process is given to another at once;
* two hosts agree on who serves only by timers and a table each of them may
  lose sight of, at any point of a transaction; the process that decides and
  the process that serves are different ones and talk by messages;
* a poller meets late, lost and duplicated answers, timeouts that race them,
  lookups that end after the item they were started for is gone, connections
  that call back into items, and limits that are looked at only in some paths
  and counters that are decremented only in some;
* processes look up, create, change and free elements of one hash under two
  levels of spinning locks, with gaps between them;
* a metric passes through buffers that are flushed by three different rules and
  through processes that wait for memory.

What makes each part correct: the IPC delivers every chunk once, in order, from
memory that is still its own, and nobody waits for ever; of a cluster at most
one server serves, it holds a lease in the table, and some server serves again
soon after a fault; every poll ends, its session and its timer end with it, and
no answer is used for another request than its own; a connection belongs to the
item it calls back; the hash behaves as a map whose operations are atomic;
every metric and what derives from it reaches history once and in order. The
hazards are listed line
by line in `PROJECT.json`.

## 2. Modules

| module | models | composes |
|---|---|---|
| `FifoChannel` | what the IPC promises: a FIFO channel per consumer | |
| `Ipc2` | `glb_ipc2.c`, one action per shared access; its inductive invariant | |
| `Ipc2Refinement` | the mapping from lists to channels, memory and item totals, liveness | `Ipc2`, `FifoChannel` |
| `Ipc2_proofs` | theorems about `Ipc2` | `Ipc2` |
| `Ipc2Refinement_proofs` | theorems about `Ipc2Refinement`, the refinement of `FifoChannel` among them | `Ipc2Refinement`, `Ipc2_proofs`, `NatSets_proofs` |
| `HaManager` | managers, main processes, table `ha_node`, faults, time; its inductive invariant | |
| `HaManager_proofs` | theorems about `HaManager` | `HaManager`, `NatSets_proofs` |
| `SnmpPoller` | the SNMP poller process, its timers, its network | |
| `SnmpPoller_proofs` | theorems about `SnmpPoller` | `SnmpPoller` |
| `TcpPoller` | the TCP poller process, its connections, the contention table; its inductive invariant | |
| `TcpPoller_proofs` | theorems about `TcpPoller` and the contention table | `TcpPoller` |
| `AtomicMap` | what the shared hash promises: an atomic map, housekeeping in two phases | |
| `ElemsHash` | `elems_hash.c`, one action per lock operation or shared access, as the trigger and the item cache use it; its inductive invariant | `AtomicMap` (refinement) |
| `ElemsHash_proofs` | theorems about `ElemsHash`, the refinement among them | `ElemsHash`, `AtomicMap` |
| `MetricPipeline` | `glb_preproc_ipc.c` and the workers' loop, with a FIFO channel for each queue, which `Ipc2Refinement` justifies | |
| `MetricPipeline_proofs` | theorems about `MetricPipeline` | `MetricPipeline`, `NatSets_proofs` |
| `NatSets_proofs` | induction over numbers, stated for sets, and sums over finite domains | |
| `MCIpc2`, `MCHaManager`, `MCSnmpPoller`, `MCTcpPoller`, `MCElemsHash`, `MCMetricPipeline` | instances for TLC | |

Definitions introduced by a comment `Mutant:` are plausible errors of the
definition that follows; `PROJECT.json` says which property finds each of them.

### Ipc2

`live` and `free` stand for the allocator, `next`, `chItems`, `chSize`, `data`
for the chunks, `first`, `last`, `count`, `items`, `sent`, `itemsSent`, `lock`
for `ipc2_chunk_queue_t`. A sender (`ppc`) enters `allocate_chunk` (`Send`),
waits for the watermark of one third of the memory unless its priority is high
(`PassWatermark`), allocates (`Malloc`) or, while it has to wait, takes the
mutex of one queue after the other to print statistics (`DumpLock`,
`DumpUnlock`), fills the chunk (`Fill`) and links it under the mutex (`AddLock`,
`AddLinkFirst`/`AddLinkNext`, `AddTail`). A consumer (`cpc`) moves the list to
its private queue under the mutex (`RcvLock`, `RcvTake`, `RcvClear`) and pops,
processes and frees chunks without it (`RcvPop`, `RcvProcess`, `RcvRelease`).
The stores inside the critical sections are separate actions, so that mutual
exclusion is a result and not an assumption. Freed addresses are reused by the
next `Malloc`, so a dangling pointer leads into another chunk. Payloads are
model values. Five history variables number the chunks of each queue.

### HaManager

One action is a transaction of a manager (`CreateNode`, `RegisterNode`,
`CheckNodes`: the table is locked), a tick without one (`MgrTick`,
`PauseTick`), a runtime command (`RemoveNode`, which reads the table without
locking it, and the `DeleteNode` that follows; `SetFailoverDelay`), a step of
the main process (`Start`, `ObtainStatus`, `StartupDone`, `MainLoop`, `Stop`,
`Stopped`), a fault (`Crash`, `LoseDatabase`, `RestoreDatabase`, `Hang`, and
the outcome of a transaction: committed, rolled back, committed with the
answer lost, or failed for good, after which the manager is in error), or `Second`, which passes time when all processes had their turn.
`EndCheck` is what the loop of `ha_manager_thread` does after a check,
`Dispatch` is `zbx_ha_dispatch_message`. The clock is the database's; all hosts
count seconds at the same rate, in any phase. The node is identified by name,
`ha_nodeid` by order of creation, a session by the server and its number of
starts.

### SnmpPoller

The process is one event loop, so a callback is one action: `CreateItem`,
`DeleteItem` (`new_items_check_cb`), `PollDelayed`, `PollDisabled`,
`StartPoll`, `StartLookup` (`item_poll_cb`), `LookupFailed`, `LookupReady`
(`poller_async_resolve_cb`), `Answer` (`process_result`), `Timeout`
(`timeout_event_cb`), `LostItem` (`lost_items_check_cb`). `Lose` and the copy
that `Answer` may leave behind are the network. Timers are armed or not; an
armed one may fire at any time, so every race of a timer is included. Two
functions of the source, `snmp_fill_pdu_header` and `poller_async_resolve`,
have no `return`: what their callers read instead is described at `SendNothing`
and `StartLookup`, and both outcomes are kept where both can be produced.

### TcpPoller

Again one action per callback: `PollDelayed` (`POLL_NEED_DELAY`), `StartPoll`,
`StartLookup`, `LookupFailed`, `LookupReady`, `CreateItem`, `DeleteItem`,
`LostItem`; `Connected`, `Failed`, `Eof`, `ResponseFinish`, `ResponseContinue`
for a connection; `Housekeep` for `poller_contention_housekeep`. `SendRequest`
has the three outcomes of `tcp_bev_request`. A connection (`conn`) remembers the
item it was made for, and whether that still exists, independently of what the
item knows (`bev`): callbacks of connections an item has lost are part of the
model, and one that meets a freed item ends the process (`Wild`). What
`SnmpPoller` shows of poll events and invalid delays is not repeated. The keys
of the contention table, pointers into a string pool, are addresses here; what a
response says is data. An end of file with unread data is left out, since
libevent hands the data over first. The build is the one with `HAVE_IPV6`.

### AtomicMap and ElemsHash

`hash`, `live`, `eid`, `data1`, `data2` are the shared memory, `mwr`, `mrd` the
lock of the hash, `ewr`, `erd` those of the elements. The callbacks store and
read two fields in two steps. `cache` is chosen in the initial state: triggers,
which only the housekeeper removes (`IterateRdLock` .. `MassDeleteUnlock`), or
items, which only the configuration syncer removes (`DeleteWrLock`,
`DeleteElement`) while the housekeeper cleans them in place. That a value is
outdated is a fact about the value, not about a clock. Addresses are reused. An
element of the item cache may be freed between its creation and the second lock
(`hit`). What the creator then finds there is not defined (`item_free_cb` does not
clear `elem->data`, so that it may go on and report success): the model ends at
that point (`Wild`), which is the one exception in `NoUseAfterFree`, and
`Linearizable` and `EveryCallReturns` say nothing of what follows it. The refinement mapping takes an
operation to its effect on `AtomicMap` at its linearization point: the access to
the second field, the removal from the hash, or the refusal.

### MetricPipeline

A sender buffers (`PreprocessSendMetric`, `ProcessingSendFromProxy`), a flush decides which
buffers are due (`Due`) and sends them one by one (`FlushSend`), waiting for the
watermark and the memory; a worker takes a chunk (`PreprocReceive`), derives from
each metric what `Execute` says (`Preprocess`: dependent metrics in depth, a
dispatched metric goes to another worker with high priority), and gives the
memory back when the chunk is done (`PreprocRelease`); `IpcFlush` is its timer;
`ProcessReceive` is a syncer. Buffers carry the seconds since they were cleaned,
up to the largest period compared with. `preprocessing_flush` is called without
the priority it reads, so that either priority may be taken. Steps that discard
a metric, and what a send writes into the item cache, are left out.

`ExactlyOnce` is stated as an account. A claim is a result (an item, with a value
or without) of the nth metric a sender sent; `Expected` is how often the syncers
are to get it, which `Yields` computes from the configuration: dependent items
and dispatches followed to their end. `Total` is what there is for the claim at
the moment: every metric in a buffer, in a queued chunk, in a worker's hands or
with a syncer counts what will come of it (`Worth`; 1 or 0 once it is a result).
No step may change the one without the other. `InOrder` is about what the
syncers have received.

## 3. Runs

| run | cfg | result |
|---|---|---|
| `ipc2` | two senders, two consumers, three addresses, a segment that cannot hold all messages, messages with and without items and of both priorities | `IInv` (type correctness and the structure of the lists), no dangling pointer, delivery in order and exactly once, exact counters, statistics that do not hide a backlog, memory neither leaked nor returned twice, refinement of `FifoChannel` |
| `ipc2_live` | one queue, three messages | every linked chunk is processed, every sender returns |
| `ha` | two nodes, poll period 5, delay 10, startups of up to 3 seconds, two starts of a server; one of: a hang in a check, a transaction rolled back, failed for good or with its answer lost, a lost database, a crash, a stop, the removal of a node, hangs and losses also in the middle of a startup (but no hang in the registration, finding 1, and no change of the delay) | at most one serving node, the serving node's lease, takeover not before the delay, recovery within `2 * delay + 4 * Poll` seconds |
| `ha_two_faults` | poll period 2, delays 4 and 6, startups of up to 3 seconds, longer than the poll period, servers with different names or with one; two of: a crash, a lost database (not in the middle of a startup), a commit whose answer is lost, a change of the delay | at most one serving node and the lease, while two servers dispute a row and the copies of the delay disagree |
| `ha_boot_hang` | one hang of a manager that registers | **violated**: finding 1 |
| `ha_flaky` | three failed transactions | **violated**: finding 2 |
| `snmp` | two simple items (one with an invalid delay) and a walk, four ids | `AddressedInv`: sessions, timers, states and walk data agree and no item is forgotten; its parts that matter most; the session limit; no stale answer; all of it for items with addresses |
| `snmp_live` | an item with an address, a walk with a name | every poll ends, sessions of items with addresses are closed, walk data although late lookups restart requests |
| `tcp` | an agent item and a simple check of one host, or an item with a name; one connection per host, two sockets | connections of addressed items are owned by the item they call back, whatever fails, times out or is replaced; both limits of connections come down again; every poll ends |
| `elems_hash` | a process that sets and gets, the syncer, the housekeeper; two ids, two addresses, either cache | no use of freed elements, mass delete finds what it was given, no lock left behind, refinement of `AtomicMap`, every operation returns |
| `elems_create` | the same, one id | **violated**: finding 3 |
| `pipeline` | a poller, a proxy trapper, a worker, a syncer; a polled item with a dependent one, with memory for two chunks; or dispatch to another item with a discovery rule | no metric nor anything that derives from it is lost or duplicated, at any moment; what arrives is in order; chunks fit the syncer's array; everything arrives |

Bounds. `Ipc2`: two senders and a receiver suffice for every conflict over one
queue, the second queue for misrouting and for dumps that hold another queue's
mutex; two sends per queue (three in the liveness run) let a chunk be linked to
an empty list, to a nonempty one, and behind one whose memory has been freed
and reused. Addresses and senders are symmetric in the safety run; the liveness
run uses no symmetry. `HaManager`: time is not bounded; a view identifies
states with the same ages, and cuts ages off above the largest number of
seconds any guard or property compares them with. `ha` uses the periods of the
code and the smallest delay it accepts; `ha_two_faults` uses smaller ones with
the same order (the delay is at least twice the poll period). Faults and starts are
bounded by `MaxFaults` and `MaxStarts`; `MaxStartup` is 3 in the two passing
runs, where it is less and more than a poll period, and is discussed below (it is
0 in the two violated runs, whose traces need no startup that takes time). Deadlock is checked everywhere: none of the systems stops (in
`Ipc2` consumers go on looking at their queues; a server or poller that has
crashed stutters, and so does a hash whose processes made all their calls).
`SnmpPoller`: as many ids as can be open, and one more, so that a late answer
meets a closed and a reopened id; `MaxSessions` is 0 or 1, so that the limit is
reached; the number of lookups of an item in progress is bounded by
`MaxLookups`.
`TcpPoller`: one connection per host and more than `MaxSessions` of them let both
limits be reached; two sockets let an item have a connection it has lost and a
new one; `UnreachableDelay` is 1, so that every counter may be outdated or not
when it is looked at and housekeeping runs in any second; `MaxChanges` allows an
item to be created, replaced and created again. `assigned` separates the two
kinds of items, which do not interact but through the counters.
`ElemsHash`: three processes, of which one calls twice; with two addresses freed
memory is reused, with two ids an iteration goes on after an element is removed
behind it. Calls are bounded by `MaxCalls`. `MetricPipeline`: buffers are flushed
at two metrics, so that both the limit and the timer send, and a full array is
reached; the poller sends two metrics, so that they may overtake each other, or
one beside one of the trapper, which compete for the memory of both segments.
Where metrics are dispatched memory is ample: a worker that waits for memory in
the middle of the chunk that holds it would wait for ever (a hazard).

Fairness. `Ipc2!Fairness`: every process keeps running its own code (weak), and
one that waits for a mutex that is free again and again gets it (strong, what
pthread mutexes give in practice); nobody has to start a send.
`SnmpPoller!FairSpec`: libevent fires armed timers, the lost items check runs
every 30 seconds, and evdns ends a lookup after its timeout. Nothing is assumed
of devices or of the administrator. `TcpPoller!FairSpec`: time passes, timer
events fire, lookups end, and a connection ends or times out, except one whose
response goes on little by little, as each part restarts libevent's timeout; no
poll has to start. `ElemsHash!FairSpec`: every process keeps running. The locks
spin on try-locks without any order, so that a writer may starve when readers
overlap for ever; `EveryCallReturns` is a statement about finitely many calls.
`MetricPipeline!FairSpec`: pollers, workers and syncers run and so does their
time; nothing is assumed of trappers, which flush when a batch is done, if then
at all: a forced flush skips buffers cleaned in the same second (a hazard).
`HaManager` has no liveness: recovery is
the invariant `RecoveryBounded`, with time in the state.

### What the HA runs assume

`server_startup` keeps the main process from dispatching messages for as long as
the configuration takes to be synchronised, which nothing bounds. The heartbeats
that the manager sends meanwhile wait in the queue and count as new when they
are read, however old they are. As long as nothing goes wrong during the startup
the manager goes on accessing its row, and the lease holds for a startup of any
length (proved, and checked in `ha_two_faults` with startups longer than the poll
period). What may go wrong is that the server loses the database, or that the
manager hangs, after the manager has become active and before the main process
has caught up with its messages (`Starting`); such a fault is of the kind
"startup". If every startup ends before the next check is due (`Prompt`: at most
`Poll - 2` seconds) the lease survives it (proved, and checked in `ha`). After a
longer one the server serves on heartbeats from before the fault: with poll
period 5 and delay 10 `LeaseHeld` is violated from startups of 4 seconds on, and
with startups of 7 seconds `AtMostOneActive` is. That need not end soon: when the
database is back, both rows may be active, and an active manager looks for nodes
that are unavailable, not for another active one, so that two servers may go on
serving for good. No run claims anything of this case, and no document of the
code speaks of it; it is recorded as a hazard.

`ha_two_faults` chooses the names of the servers in the initial
state, different ones or one for both, and leaves out the orderly stop, because
`ha_db_update_exit_status` does not compare the session and writes into the row
of the new owner, a hazard too.

### Findings

1. `ha_boot_hang`: a manager whose first registration takes longer than
   `ZBX_HA_SERVICE_TIMEOUT` becomes active and never reports it, since only the
   loop calls `ha_update_parent`. Its main process stays in standby, its row
   stays fresh, nobody serves.
2. `ha_flaky`: `offline_ticks_active` counts checks, not seconds, and checks
   follow each other every second after a failed transaction. Three failures of
   a standby's transactions let it replace a healthy active node.
3. `elems_create`: between the read lock under which an id is not found and the
   write lock under which it is created another process may create it; the update
   is then refused, which the callers take for a programming error, instead of
   applied to the element that is there.

A remark without a run of its own: a name lookup is not cancelled when its item
is replaced, and the address it finds is used for the new configuration, so that
`SnmpPoller!NoStaleResult` is violated as soon as `NamedItem` is not empty. In
the TCP poller items with names also lose connections (`OwnConnection` excludes
them): a request is sent while the lookup is in progress and is overwritten by
that of the finished lookup.

## 4. Proofs

`Ipc2_proofs` proves, for any number of senders, consumers, addresses and
messages (assumption: `Ipc2Assumption`, the types of the constants and that a
process is a sender or a consumer, not both):

* `Ipc2Invariant`: `Spec => []IInv`;
* `TypeCorrect`, `NoDanglingPointers`, `DeliveryInOrder`, `CountersExact`, which
  follow from it.

`InOrderDelivery` is not inductive: that the next chunk is the right one depends
on how lists were linked. `IInv` adds that a mutex is held by exactly the
process whose program counter is inside (`LockInv`), that a chunk being filled
is on no list (`SenderInv`), that linked chunks carry consecutive numbers and
each points to its successor, except the last one linked and the last one taken
(`ListInv`), where heads, tails and counters stand in this numbering
(`QueueInv`), and what a consumer holds (`ConsumerInv`). There is one lemma per
action; the delicate ones are `AddLinkNext`, where the tail must not have been
taken, and `RcvRelease`, where no list may lead to the freed chunk.

`Ipc2Refinement_proofs` proves what is said of the queues as channels, with the
further assumption `FiniteAssumption` (the addresses are finitely many, and the
consumers are):

* `ChannelInvariant`: `Spec => [](IInv /\ RInv /\ Named)`;
* `QueueSizeIsEnough` and `NothingLeaks`, which state `QueueSizeCoversBacklog` and
  `MemoryAccounted`;
* `Ipc2ImplementsFifo`: `Spec => ImplementsFifo`. The step that links a chunk is
  the channel's send, the step that processes one is its receipt, and every other
  step, among them the move of a list to the consumer's private queue, is a
  stutter.

What the channel holds is the list as a value: `Walk` follows `next` until null.
The prover cannot compute it, but it can show by induction (`Induct` of
`NatSets_proofs`) that the chunk at position `i` of a walk is the one whose number
is `i` more than that of the last one taken, which is what `ListInv` says of each
single link. For that every number between the oldest chunk and the last one
linked has to belong to a chunk, which `IInv` does not say and `ThereInv` adds,
together with the converse, that an allocated chunk is on its way to a queue or
in one. `MemoryInv` (free memory and the sizes of the allocated chunks make the
segment) and `ItemsInv` (`q->items` is the sum over the chunks that wait) are sums
over sets that grow and shrink; `SumIsCells` of `NatSets_proofs` identifies such a
sum with the cardinality of a set of unit cells, from which that it does not
depend on an order, and what an added or removed summand changes, follow.

`ElemsHash_proofs` proves, for any number of processes, ids, addresses and
values, in both caches:

* `ElemsHashInvariant`: `Spec => []IInv`;
* `ElemsHashTypeCorrect`, `ElemsHashNoUseAfterFree`, `ElemsHashMassDelete`,
  `ElemsHashLocksReturned`, which follow from it;
* `ElemsHashRefinement`: `Spec => Linearizable`, the detailed hash implements
  `AtomicMap`, as far as the first use of a freed element (`Wild`).

`NoUseAfterFree` is not inductive: that an element is there when it is used
depends on who holds which lock and where. `IInv` says that the hash lock is
held by those whose program counter is inside, writers alone (`MetaInv`); that
the elements in use are those in the hash (`HeapInv`); who holds the lock of an
element (`ElemInv`); what a process points to, with the one window in which it
may lose it, between `create_element` and the lock that follows it in the item
cache (`PtrInv`); which operation is at which place (`CallInv`); that what the
housekeeper has collected is still there (`IdsInv`); and that the two fields of
an element differ only while a writer is between its two stores (`DataInv`).
`IdsInv` needs the assumption `OneHousekeeper`: one process removes outdated
elements, which holds because `CONFIG_HOUSEKEEPER_FORKS` is 1 (`server.c:281`)
and only that process calls it (`housekeeper.c:1161`). In the refinement a
`set` takes effect with its second store, a `get` with its second read or when
it does not find the element, a `delete` when it takes the element out, and a
`set` that loses the race to create the element is the abstract refusal; every
other step is a stutter.

`TcpPoller_proofs` proves, for any items, connections, addresses and limits:

* `TcpPollerInvariant`: `Spec => []IInv`;
* `TcpPollerTypeCorrect`, part of which is that the poller's session counter is
  never below the sum of the counters of the contention table, so that it never
  wraps when the table forgets an address;
* `TcpPollerOwnConnection`: an item with an address has its connection to itself.

The sum over the table is the cardinality of the set of its `Entries`, one for
each session it counts (`Covers`), so that adding and removing a session, and
forgetting an address, are facts about finite sets. `OwnConnection` needs
`BevInv` (the connection an item knows was made for it) and `LookupInv` (only
names are looked up, so no late answer connects an item a second time).

`SnmpPoller_proofs` proves, for any items, ids and limits:

* `SnmpGeneralInvariant`: `Spec => []GeneralInv`, and from it `SnmpTypeCorrect`,
  `WalkDataThere` and `ItemsNeverForgotten`, for every poller;
* when every item has an address (`Addressed`, `NamedItem = {}`; for items with
  names `NoStaleResult` is false, see the remark above) `SnmpInvariant`:
  `Addressed /\ Spec => []AddressedInv`, and from it `NoSessionLeak`,
  `RequestsTimeOut`, `AnswersAreCurrent`;
* `SessionLimit`, under the same hypothesis: the limit of sessions is exceeded
  by at most one, although retries and walks do not look at it. The requests of
  finished lookups do not either, so that items with names may exceed it by more.

`AddressedInv` joins the properties that need each other (a session is owned by
the item that waits for it, and conversely; states, timers and walk data agree)
and adds `ArmedIsKnown`, `NoLookups` and `DatagramsCurrent`: a datagram whose id
is open was made for the present configuration of the item that waits for it.

`MetricPipeline_proofs` proves, for any processes, items, configurations and
sizes (`PipelineAssumption`):

* `PipelineInvariant`: `Spec => []IInv`;
* `PipelineTypeCorrect`, `PipelineChunkBounded`, `PipelineMemoryAccounted`;
* `PipelineExactlyOnce`: `DispatchEnds /\ Spec => []ExactlyOnce`, for finitely many
  processes, queues and items (`FiniteAssumption`).

`ChunkBounded` rests on `FlushInv` (a flush under way is in one segment, and its
next buffer has metrics) and `LimitInv` (a buffer at the limit is being
flushed, so nothing is added to it). `MemoryInv` counts memory in units, each a
pair of a chunk and a number up to its cost: what is in use is the cardinality
of that set, which gives both that memory is not leaked and that it is not given
back twice. What comes of a metric (`Execute`, which follows dependent items to
any depth, and `FlattenSeq`) is defined by recursion. Its type is proved with
`LeastNat` and `Induct` of `NatSets_proofs`, which state induction for a set of
numbers instead of for an operator.

The account of `ExactlyOnce` needs one more invariant, `HeldInv`: a worker that has
no chunk has none of its metrics left, so that receiving a chunk overwrites
nothing. `LedgerInv` says that `Total` is `Expected` for every claim, also for
metrics not sent yet, of which there must be nothing. `Total` is written as a sum
over the queues of sums over buffers, chunks and metrics, each metric weighed by
its share in the claim; a lemma per action says what moves (`TotalChange` and
`Balanced`: at most one queue, one column of buffers and one process change), and
the step that sends adds to both sides. The step that preprocesses replaces a
metric by its outputs: `WorthSplits` shows that these are worth together what the
metric was. It needs `DispatchEnds`, which says of the configuration that
dispatches do not lead in a circle (items have ranks that a dispatch lowers):
in a circle a metric goes round for ever, no number of results is the right one,
and `Yields`, which follows at most as many dispatches as there are items, is cut
off. TLC evaluates `DispatchEnds` for the instance it checks.

`HaManager_proofs` proves, for any servers, names, periods and bounds:

* `HaTypeInvariant`, `HaTypeCorrect`: type correctness of every cluster, whatever
  goes wrong in it;
* for every `Orderly` cluster `HaLeaseInvariant`: `Orderly /\ Spec => []LeaseInv`,
  and from it `HaLeaseHeld`, `HaAtMostOneActive` and `HaTakeoverAfterDelay`, with
  any number of servers, startups of any length, crashes, restarts, orderly stops,
  removals, losses of the database and hangs in a check.

A cluster is `Orderly` when its nodes have different names, `ServiceTimeout` is not
0 (it is 10 in the code), and these kinds of trouble do not occur: failed
transactions (with enough of them the statements are false, finding 2), hangs in
the first registration (finding 1), changes of the failover delay, and, unless the
cluster is `Prompt` (see above), a lost database or a hang in the middle of a
startup, after which the statements are false. How long a startup takes is not
restricted. The delay cannot be changed freely either: `RemoveNode` sets the
database status when it has read the table, so that the delay may be set, before
the next check, to less than the age of the row. A single failed transaction,
changes of the delay and servers that share a name are covered by TLC only, in
`ha` and `ha_two_faults`.

`LeaseHeld` is not inductive: a lease is kept by the manager's countdown, its
messages and the main process's timer together, and is safe from the others only
as long as their counts of offline ticks say less than the clock. `LeaseInv` adds
that ids are unique, that at most one row is active, and that access times are
not in the future (`RowInv`); that a manager knows the id of its own row only and
removes only others (`KnowsId`);
that it counts at most one offline tick per poll period (`ManagerOK`, with
`OfflineUntil`); what the main process may be doing (`MainOK`); that only the
first queued message may change the status, to the one the manager has
(`MessagesOK`); and that an active manager owns the active row, checks it within
a poll period of the last access, or has stopped its heartbeats, and that while a
server starts up heartbeats wait for it and its database is there (`LeaderOK`). At
the end of a long startup the messages may be as old as the poll period; then a
check is due this very second and nothing keeps the manager from it (`CheckNow`). The
two arguments with numbers are lemmas: `LeaderFresh`, the active row is younger
than any other node may count, and `CountedTicks`, ticks times the poll period
against the delay. Each action has a lemma that lists its cases and one that shows
the invariant.

Only model-checked: liveness, which the prover does not support
(`EveryMetricArrives`, `EveryCallReturns`, `LimitsHeal`, `PollsEnd`, the liveness
of `Ipc2` and `SnmpPoller`); `InOrder`, which holds only of configurations in which
an item is reached from another one in one way, a condition on whole chains of
dependent and dispatched items under which the order of every pair of metrics
would have to be followed through buffers, queues and workers at once;
`RecoveryBounded`, a bound on time, for which each healthy server would need a
measure of how far it is from taking over; and the lease of clusters that are not
`Orderly`.

## 5. Not modelled

* Ipc2: the allocator's fragmentation (an allocation succeeds when the free size
  suffices), processes that die inside a critical section.
* HaManager: standalone mode, audit, listing of nodes, a clock that goes
  backwards, hosts whose clocks run at different rates, a shutdown while the
  manager hangs, a database that serves different data to different nodes.
* SnmpPoller: conversion of values, interface availability beyond "disabled or
  not", a random request id that equals that of a datagram still on the way,
  `POLL_NEED_DELAY` (TCP pollers).
* TcpPoller: the contents of responses. The buffer in which an agent's response
  is put together is not emptied when a connection ends in the middle of one, so
  that the next response is appended to it (a hazard); interface availability.
* ElemsHash: `elems_hash_update` and `elems_hash_replace`, whose only caller is
  `obj_index`; `elems_hash_destroy`, which runs alone; the host and interface
  caches, which use the same operations.
* MetricPipeline: the preprocessing steps, which convert data; changes of the
  configuration while metrics are on the way; a worker that dies.
* `obj_index` is used only by `libs/glb_objects`, which is not built, and
  `event_queue` by nobody.
* Worker pollers (child processes and pipes), history storages, the alerter: input
  and output, for the most part. Configuration cache, escalator, LLD, services,
  the database schema and its upgrades, the proxy, the agents and the frontend are
  inherited from Zabbix, as is most of the code (and of the rest much is vendored,
  as the JavaScript engine); they keep their state in the database and are not
  what Glaber adds.

## 6. Plan

Modelled: the IPC and its users, the hash of the caches, the HA cluster, the SNMP
and the TCP poller. What is left are proofs, in this order:

1. `MetricPipeline`: `InOrder`, with the condition on configurations as a
   hypothesis and the route of an item as a sequence of places.
2. `HaManager`: the lease with a single failed transaction and with changes of the
   delay; `RecoveryBounded`.
3. A composition of `MetricPipeline` with `Ipc2`, in place of the argument that a
   queue is a channel.
