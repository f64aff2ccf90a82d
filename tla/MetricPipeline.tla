--------------------------- MODULE MetricPipeline ---------------------------
(***************************************************************************)
(* The way of a metric through zabbix_server/preprocessor: pollers and     *)
(* trappers buffer metrics per preprocessing worker and send the buffers   *)
(* as chunks over one ipc2 segment; workers preprocess them, derive        *)
(* dependent metrics, forward dispatched ones to other workers over the    *)
(* same segment, and send results over a second segment to the history     *)
(* syncers.  A queue of ipc2 is a first-in first-out channel here, which   *)
(* Ipc2Refinement shows it to be; the memory of the segments, and the      *)
(* waiting for it, are modelled.                                           *)
(*                                                                         *)
(* Buffers belong to one process and carry the time of their last cleaning *)
(* (age counts the seconds since).  What a flush sends is decided when it  *)
(* begins, as only the process itself touches its buffers.                 *)
(*                                                                         *)
(* A send also records the poll in the item cache                          *)
(* (glb_state_items_set_poll_result, glb_state_item_set_lastdata), which   *)
(* is one of the sets of ElemsHash and has no effect here.                 *)
(***************************************************************************)
EXTENDS Naturals, Sequences, FiniteSets, SequencesExt

CONSTANTS
    Poller,     \* senders that call preprocessing_flush from a timer
    Trapper,    \* senders that call the force_flush functions after a batch
    Worker,     \* the preprocessing workers
    Syncer,     \* the history syncers
    ConsumerId, \* their numbers in the queues of their segment
    Item,
    None,       \* no item
    WorkerOf,   \* WorkerOf[i]: hostid % number of workers
    SyncerOf,   \* SyncerOf[i]: hostid % number of syncers
    Sends,      \* Sends[s]: items sender s has metrics of
    Proxied,    \* items of hosts monitored by proxies, preprocessed there
    Conf,       \* items the workers have a configuration of
    Discovery,  \* discovery rules among them
    Dependent,  \* Dependent[i]: sequence of items that depend on i
    MaxLevel,   \* MAX_DEPENDENCY_LEVEL
    Limit,      \* items at which a buffer for processing is flushed (1000)
    HistMax,    \* ZBX_HC_SYNC_MAX
    Header,     \* sizeof(ipc2_chunk_t), in metrics
    Setups      \* see setup

Sender == Poller \cup Trapper
Process == Sender \cup Worker
Queue == Worker \cup Syncer
Segment == {"preproc", "proc"}

ASSUME PipelineAssumption ==
    /\ None \notin Item /\ Limit \in Nat \ {0} /\ HistMax \in Nat /\ Limit <= HistMax /\ Header \in Nat
    /\ Worker \cap Syncer = {} /\ ConsumerId \in [Queue -> Nat]
    /\ \A w, v \in Worker : ConsumerId[w] = ConsumerId[v] => w = v
    /\ \A y, z \in Syncer : ConsumerId[y] = ConsumerId[z] => y = z
    /\ WorkerOf \in [Item -> Worker] /\ SyncerOf \in [Item -> Syncer]
    /\ Sends \in [Sender -> SUBSET Item]
    /\ Dependent \in [Item -> Seq(Item)] /\ MaxLevel \in Nat
    /\ \A s \in Poller : Sends[s] \cap Proxied = {}
    /\ \A u \in Setups : u.total \in Nat /\ u.dispatch \in [Item -> Item \cup {None}]
                           /\ u.metrics \in [Sender -> Nat]

ASSUME FiniteAssumption == IsFiniteSet(Process) /\ IsFiniteSet(Queue) /\ IsFiniteSet(Item)

VARIABLES
    setup,      \* size of a segment (total), the item to which a dispatch step redirects item i
                \* (dispatch[i]), bound on the metrics of sender s (metrics[s])
    buf,        \* buf[p][q]: metrics process p has buffered for queue q
    age,        \* age[p][q]: seconds since time_created of that buffer
    flush,      \* flush[p]: the buffers_flush_ext p executes: buffers to send, priority
    passed,     \* passed[p]: its chunk passed the watermark
    second,     \* second[p]: p has a second flush to do after this one
    chan,       \* chan[q]: chunks in queue q
    used,       \* used[g]: memory of segment g in use
    loop,       \* loop[w]: worker w is in the loop of process_incoming_metrics
    chunk,      \* chunk[w]: number of metrics of the chunk worker w processes
    held,       \* held[w]: those of them it has not begun
    todo,       \* todo[w]: what it will send for the metric it processes
    sent,       \* sent[s]: items of the metrics s has sent, in order
    history     \* history[y]: what syncer y has received

vars == <<setup, buf, age, flush, passed, second, chan, used, loop, chunk, held, todo, sent, history>>
workerVars == <<loop, chunk, held, todo>>

Consumers == [preproc |-> Worker, proc |-> Syncer]
SegmentOf(q) == IF q \in Worker THEN "preproc" ELSE "proc"
Cost(n) == Header + n

(* p may put a metric into its buffer for q. *)
Fills(p, q) ==
    IF p \in Sender
    THEN setup.metrics[p] > 0 /\ \E i \in Sends[p] : q = IF i \in Proxied THEN SyncerOf[i] ELSE WorkerOf[i]
    ELSE q \in Syncer \/ \E i \in Item : setup.dispatch[i] # None /\ q = WorkerOf[setup.dispatch[i]]

(* The age of a buffer is compared with periods up to 1 for preprocessing  *)
(* and up to 2 for processing.  That of a buffer which stays empty decides *)
(* nothing.                                                                *)
MaxAge(p, q) == IF ~Fills(p, q) THEN 0 ELSE IF q \in Worker THEN 2 ELSE 3

(* A metric knows, for the properties, which one of whose metrics it is or *)
(* derives from.                                                           *)
Metric == [from : Sender, n : Nat, item : Item, none : BOOLEAN]

TypeOK ==
    /\ setup \in Setups
    /\ buf \in [Process -> [Queue -> Seq(Metric)]]
    /\ age \in [Process -> [Queue -> Nat]] /\ \A p \in Process, q \in Queue : age[p][q] <= MaxAge(p, q)
    /\ flush \in [Process -> [to : SUBSET Queue, high : BOOLEAN]]
    /\ passed \in [Process -> BOOLEAN] /\ second \in [Process -> BOOLEAN]
    /\ chan \in [Queue -> Seq(Seq(Metric) \ {<< >>})]
    /\ used \in [Segment -> 0 .. setup.total]
    /\ loop \in [Worker -> BOOLEAN] /\ chunk \in [Worker -> Nat]
    /\ held \in [Worker -> Seq(Metric)] /\ todo \in [Worker -> Seq(Metric \X BOOLEAN)]
    /\ sent \in [Sender -> Seq(Item)]
    /\ history \in [Syncer -> Seq(Metric)]

Init ==
    /\ setup \in Setups
    /\ buf = [p \in Process |-> [q \in Queue |-> << >>]]
    /\ age = [p \in Process |-> [q \in Queue |-> 0]]
    /\ flush = [p \in Process |-> [to |-> {}, high |-> FALSE]]
    /\ passed = [p \in Process |-> FALSE] /\ second = [p \in Process |-> FALSE]
    /\ chan = [q \in Queue |-> << >>]
    /\ used = [g \in Segment |-> 0]
    /\ loop = [w \in Worker |-> FALSE]
    /\ chunk = [w \in Worker |-> 0] /\ held = [w \in Worker |-> << >>] /\ todo = [w \in Worker |-> << >>]
    /\ sent = [s \in Sender |-> << >>]
    /\ history = [y \in Syncer |-> << >>]

-----------------------------------------------------------------------------
(* Buffers and flushes *)

(* Mutant: the limit may be exceeded by one. *)
DueLate(b, a, period, limit) == a > period \/ (limit > 0 /\ limit < Len(b))

(* buffers_flush_ext: a buffer is sent when it is older than the period, a *)
(* limit of 0 being none.                                                  *)
Due(b, a, period, limit) == a > period \/ (limit > 0 /\ limit <= Len(b))

(* The buffers of a segment are visited in the order of the consumers. *)
Reached(q, r) == SegmentOf(q) = SegmentOf(r) /\ ConsumerId[q] <= ConsumerId[r]

(* The flush of process p goes on with the buffers l, b being its buffers: *)
(* ipc2_send_chunk returns at once for an empty one, and it is cleaned.    *)
Continue(p, b, l, high) ==
    LET full == {q \in l : b[q] # << >>}
        rest == {r \in l : \E q \in full : Reached(q, r)}
    IN /\ buf' = [buf EXCEPT ![p] = b]
       /\ flush' = [flush EXCEPT ![p] = [to |-> rest, high |-> high /\ full # {}]]
       /\ age' = [age EXCEPT ![p] = [q \in Queue |-> IF q \in l \ rest THEN 0 ELSE @[q]]]

(* No flush is under way in p. *)
Ready(p) == flush[p].to = {} /\ ~second[p]

DueBuffers(p, b, g, period, limit) == {q \in Consumers[g] : Due(b[q], age[p][q], period, limit)}

BuffersFlush(p, b, g, period, limit, high) == Continue(p, b, DueBuffers(p, b, g, period, limit), high)

(* A flush of one segment and then of the other, at once if there is       *)
(* nothing to send in the first.                                           *)
FlushBoth(p, g, h, period, high) ==
    LET first == DueBuffers(p, buf[p], g, period, 0)
        then == DueBuffers(p, buf[p], h, period, 0)
    IN IF \E q \in first : buf[p][q] # << >>
       THEN Continue(p, buf[p], first, high) /\ second' = [second EXCEPT ![p] = TRUE]
       ELSE Continue(p, buf[p], first \cup then, FALSE) /\ UNCHANGED second

(* Mutant: a metric is put in front of those that wait in its buffer. *)
AddAndFlushFront(p, q, m, period, limit, high) ==
    BuffersFlush(p, [buf[p] EXCEPT ![q] = <<m>> \o @], SegmentOf(q), period, limit, high)

(* buffer_add_metric, then the flush of all buffers of the segment. *)
AddAndFlush(p, q, m, period, limit, high) ==
    BuffersFlush(p, [buf[p] EXCEPT ![q] = Append(@, m)], SegmentOf(q), period, limit, high)

(* The buffer the flush of p sends next. *)
NextBuffer(p) == CHOOSE q \in flush[p].to : \A r \in flush[p].to : Reached(q, r)

(* allocate_chunk: normal priority waits while less than a third is free,  *)
FlushPass(p) ==
    /\ flush[p].to # {} /\ ~passed[p]
    /\ flush[p].high \/ setup.total - used[SegmentOf(NextBuffer(p))] >= setup.total \div 3
    /\ passed' = [passed EXCEPT ![p] = TRUE]
    /\ UNCHANGED <<setup, buf, age, flush, second, chan, used, workerVars, sent, history>>

(* Mutant: memory is taken whether there is enough or not. *)
FlushSendUnchecked(p) ==
    /\ passed[p]
    /\ LET q == NextBuffer(p)
           g == SegmentOf(q)
       IN /\ used' = [used EXCEPT ![g] = @ + Cost(Len(buf[p][q]))]
          /\ chan' = [chan EXCEPT ![q] = Append(@, buf[p][q])]
          /\ Continue(p, [buf[p] EXCEPT ![q] = << >>], flush[p].to, flush[p].high)
    /\ passed' = [passed EXCEPT ![p] = FALSE]
    /\ UNCHANGED <<setup, second, workerVars, sent, history>>

(* Mutant: serial_buffer_clean is forgotten. *)
FlushSendKeeps(p) ==
    /\ passed[p]
    /\ LET q == NextBuffer(p)
           g == SegmentOf(q)
           cost == Cost(Len(buf[p][q]))
       IN /\ used[g] + cost <= setup.total
          /\ used' = [used EXCEPT ![g] = @ + cost]
          /\ chan' = [chan EXCEPT ![q] = Append(@, buf[p][q])]
          /\ Continue(p, buf[p], flush[p].to \ {q}, flush[p].high)
    /\ passed' = [passed EXCEPT ![p] = FALSE]
    /\ UNCHANGED <<setup, second, workerVars, sent, history>>

(* and everyone until there is memory for the chunk. *)
FlushSend(p) ==
    /\ passed[p]
    /\ LET q == NextBuffer(p)
           g == SegmentOf(q)
           cost == Cost(Len(buf[p][q]))
       IN /\ used[g] + cost <= setup.total
          /\ used' = [used EXCEPT ![g] = @ + cost]
          /\ chan' = [chan EXCEPT ![q] = Append(@, buf[p][q])]
          /\ Continue(p, [buf[p] EXCEPT ![q] = << >>], flush[p].to, flush[p].high)
    /\ passed' = [passed EXCEPT ![p] = FALSE]
    /\ UNCHANGED <<setup, second, workerVars, sent, history>>

-----------------------------------------------------------------------------
(* Senders *)

NewMetric(s, i) == [from |-> s, n |-> Len(sent[s]) + 1, item |-> i, none |-> FALSE]

MaySend(s, i) == i \in Sends[s] /\ Ready(s) /\ Len(sent[s]) < setup.metrics[s]

(* preprocess_send_metric *)
PreprocessSendMetric(s, i) ==
    /\ MaySend(s, i) /\ i \notin Proxied
    /\ AddAndFlush(s, WorkerOf[i], NewMetric(s, i), 1, 0, FALSE)
    /\ sent' = [sent EXCEPT ![s] = Append(@, i)]
    /\ UNCHANGED <<setup, passed, second, chan, used, workerVars, history>>

(* processing_send_agent_result_from_proxy, processing_send_error_from_proxy *)
ProcessingSendFromProxy(s, i) ==
    /\ MaySend(s, i) /\ i \in Proxied
    /\ AddAndFlush(s, SyncerOf[i], NewMetric(s, i), 2, Limit, FALSE)
    /\ sent' = [sent EXCEPT ![s] = Append(@, i)]
    /\ UNCHANGED <<setup, passed, second, chan, used, workerVars, history>>

(* preprocessing_flush is called without its argument: any priority. *)
PreprocessingFlush(s) ==
    /\ s \in Poller /\ Ready(s)
    /\ \E high \in BOOLEAN : BuffersFlush(s, buf[s], "preproc", 1, 0, high)
    /\ UNCHANGED <<setup, passed, second, chan, used, workerVars, sent, history>>

(* The end of zbx_process_history_data: processing_force_flush and         *)
(* preprocessing_force_flush.  A period of 0 leaves the buffers that were  *)
(* cleaned in the same second.                                             *)
ForceFlush(s) ==
    /\ s \in Trapper /\ Ready(s)
    /\ FlushBoth(s, "proc", "preproc", 0, FALSE)
    /\ UNCHANGED <<setup, passed, chan, used, workerVars, sent, history>>

ForceFlushSecond(s) ==
    /\ s \in Trapper /\ second[s] /\ flush[s].to = {}
    /\ BuffersFlush(s, buf[s], "preproc", 0, 0, FALSE)
    /\ second' = [second EXCEPT ![s] = FALSE]
    /\ UNCHANGED <<setup, passed, chan, used, workerVars, sent, history>>

-----------------------------------------------------------------------------
(* Preprocessing workers *)

(* preprocess_metric_execute_steps and process_dependent_metrics: what is  *)
(* sent for a metric of item i at dependency level l, in order.  Dispatch  *)
(* (pp_execute_dispatch) redirects the value and leaves none; a discovery  *)
(* rule goes to the LLD manager.                                           *)
Execute[l \in 0 .. MaxLevel] == [i \in Item |-> [none \in BOOLEAN |->
    IF none \/ i \notin Conf
    THEN << [fwd |-> FALSE, item |-> i, none |-> none] >>
    ELSE LET target == setup.dispatch[i]
             gone == target # None
             forward == IF gone THEN << [fwd |-> TRUE, item |-> target, none |-> FALSE] >> ELSE << >>
             result == IF i \in Discovery THEN << >> ELSE << [fwd |-> FALSE, item |-> i, none |-> gone] >>
             dependents == IF l = 0 THEN << >>
                           ELSE FlattenSeq([k \in DOMAIN Dependent[i] |-> Execute[l - 1][Dependent[i][k]][gone]])
         IN forward \o result \o dependents]]

(* process_incoming_metrics, a timer event, receives chunks until there is *)
(* none.  Finding none at once changes nothing.                            *)
PreprocReceive(w) ==
    /\ Ready(w) /\ chunk[w] = 0 /\ chan[w] # << >>
    /\ loop' = [loop EXCEPT ![w] = TRUE]
    /\ held' = [held EXCEPT ![w] = Head(chan[w])]
    /\ chunk' = [chunk EXCEPT ![w] = Len(Head(chan[w]))]
    /\ chan' = [chan EXCEPT ![w] = Tail(@)]
    /\ UNCHANGED <<setup, buf, age, flush, passed, second, used, todo, sent, history>>

PreprocReceiveEnd(w) ==
    /\ loop[w] /\ Ready(w) /\ chunk[w] = 0 /\ chan[w] = << >>
    /\ loop' = [loop EXCEPT ![w] = FALSE]
    /\ UNCHANGED <<setup, buf, age, flush, passed, second, chan, used, chunk, held, todo, sent, history>>

(* metrics_proc_cb for the next metric of the chunk. *)
Preprocess(w) ==
    /\ Ready(w) /\ todo[w] = << >> /\ held[w] # << >>
    /\ LET m == Head(held[w])
           outputs == Execute[MaxLevel][m.item][m.none]
       IN todo' = [todo EXCEPT ![w] = [k \in DOMAIN outputs |->
             <<[m EXCEPT !.item = outputs[k].item, !.none = outputs[k].none], outputs[k].fwd>>]]
    /\ held' = [held EXCEPT ![w] = Tail(@)]
    /\ UNCHANGED <<setup, buf, age, flush, passed, second, chan, used, loop, chunk, sent, history>>

(* preprocess_send_metric_hi_priority *)
PreprocessSendHigh(w) ==
    /\ Ready(w) /\ todo[w] # << >> /\ Head(todo[w])[2]
    /\ LET m == Head(todo[w])[1] IN AddAndFlush(w, WorkerOf[m.item], m, 1, 0, TRUE)
    /\ todo' = [todo EXCEPT ![w] = Tail(@)]
    /\ UNCHANGED <<setup, passed, second, chan, used, loop, chunk, held, sent, history>>

(* processing_send_metric *)
ProcessingSendMetric(w) ==
    /\ Ready(w) /\ todo[w] # << >> /\ ~Head(todo[w])[2]
    /\ LET m == Head(todo[w])[1] IN AddAndFlush(w, SyncerOf[m.item], m, 2, Limit, FALSE)
    /\ todo' = [todo EXCEPT ![w] = Tail(@)]
    /\ UNCHANGED <<setup, passed, second, chan, used, loop, chunk, held, sent, history>>

(* The end of ipc2_receive_one_chunk: only now is the memory free. *)
PreprocRelease(w) ==
    /\ Ready(w) /\ chunk[w] # 0 /\ held[w] = << >> /\ todo[w] = << >>
    /\ used' = [used EXCEPT !["preproc"] = @ - Cost(chunk[w])]
    /\ chunk' = [chunk EXCEPT ![w] = 0]
    /\ UNCHANGED <<setup, buf, age, flush, passed, second, chan, loop, held, todo, sent, history>>

(* Mutant: the buffers for processing are left to the senders. *)
IpcFlushPreproc(w) ==
    /\ Ready(w) /\ ~loop[w]
    /\ \E high \in BOOLEAN : BuffersFlush(w, buf[w], "preproc", 1, 0, high)
    /\ UNCHANGED <<setup, passed, second, chan, used, workerVars, sent, history>>

(* ipc_flush, a timer event: preprocessing_flush, without its argument,    *)
(* and processing_flush.  It does not interrupt process_incoming_metrics.  *)
IpcFlush(w) ==
    /\ Ready(w) /\ ~loop[w]
    /\ \E high \in BOOLEAN : FlushBoth(w, "preproc", "proc", 1, high)
    /\ UNCHANGED <<setup, passed, chan, used, workerVars, sent, history>>

ProcessingFlush(w) ==
    /\ w \in Worker /\ second[w] /\ flush[w].to = {}
    /\ BuffersFlush(w, buf[w], "proc", 1, 0, FALSE)
    /\ second' = [second EXCEPT ![w] = FALSE]
    /\ UNCHANGED <<setup, passed, chan, used, workerVars, sent, history>>

-----------------------------------------------------------------------------
(* process_receive_metrics in a history syncer: the chunk is copied into   *)
(* an array of ZBX_HC_SYNC_MAX values and released.                        *)
ProcessReceive(y) ==
    /\ chan[y] # << >>
    /\ history' = [history EXCEPT ![y] = @ \o Head(chan[y])]
    /\ used' = [used EXCEPT !["proc"] = @ - Cost(Len(Head(chan[y])))]
    /\ chan' = [chan EXCEPT ![y] = Tail(@)]
    /\ UNCHANGED <<setup, buf, age, flush, passed, second, workerVars, sent>>

(* One second passes. *)
Tick ==
    /\ age' = [p \in Process |-> [q \in Queue |-> IF age[p][q] < MaxAge(p, q) THEN age[p][q] + 1 ELSE age[p][q]]]
    /\ UNCHANGED <<setup, buf, flush, passed, second, chan, used, workerVars, sent, history>>

-----------------------------------------------------------------------------
FlushStep(p) == FlushPass(p) \/ FlushSend(p)

SendStep(s) == \E i \in Item : PreprocessSendMetric(s, i) \/ ProcessingSendFromProxy(s, i)

WorkerStep(w) ==
    \/ PreprocReceive(w) \/ PreprocReceiveEnd(w) \/ Preprocess(w) \/ PreprocessSendHigh(w) \/ ProcessingSendMetric(w)
    \/ PreprocRelease(w) \/ IpcFlush(w) \/ ProcessingFlush(w)

Next ==
    \/ \E p \in Process : FlushStep(p)
    \/ \E s \in Sender : SendStep(s)
    \/ \E s \in Poller : PreprocessingFlush(s)
    \/ \E s \in Trapper : ForceFlush(s) \/ ForceFlushSecond(s)
    \/ \E w \in Worker : WorkerStep(w)
    \/ \E y \in Syncer : ProcessReceive(y)
    \/ Tick

Spec == Init /\ [][Next]_vars

(* Pollers, workers and syncers run, their timers fire and time passes.    *)
(* Nobody has to send, and nothing is assumed of trappers.                 *)
FairSpec ==
    /\ Spec
    /\ WF_vars(Tick)
    /\ \A s \in Poller : WF_vars(FlushStep(s) \/ PreprocessingFlush(s))
    /\ \A w \in Worker : WF_vars(FlushStep(w) \/ WorkerStep(w)) /\ WF_vars(PreprocReceive(w))
    /\ \A y \in Syncer : WF_vars(ProcessReceive(y))

-----------------------------------------------------------------------------
Result == [item : Item, none : BOOLEAN]

Is(r, i, none) == IF r = [item |-> i, none |-> none] THEN 1 ELSE 0

(* How often r is among the results of a metric of item i, those of        *)
(* forwarded metrics included (h is a bound on the length of a chain of    *)
(* dispatches).                                                            *)
Yields[h \in 0 .. Cardinality(Item)] == [i \in Item |-> [none \in BOOLEAN |-> [r \in Result |->
    LET outputs == Execute[MaxLevel][i][none]
    IN SumFunction([k \in DOMAIN outputs |->
          IF ~outputs[k].fwd THEN Is(r, outputs[k].item, outputs[k].none)
          ELSE IF h = 0 THEN 0 ELSE Yields[h - 1][outputs[k].item][outputs[k].none][r]])]]]

(* The same of a metric that is still to be preprocessed (raw) or not. *)
Worth(r, i, none, raw) == IF raw THEN Yields[Cardinality(Item)][i][none][r] ELSE Is(r, i, none)

(* A claim: the results r of the nth metric of a sender. *)
Claim == [from : Sender, n : Nat \ {0}, r : Result]

(* How often there will be r at the syncers in the end. *)
Expected(c) ==
    IF c.n \in DOMAIN sent[c.from]
    THEN LET i == sent[c.from][c.n] IN Worth(c.r, i, FALSE, i \notin Proxied)
    ELSE 0

(* What a metric contributes to that, and what a sequence of them does. *)
Share(c, raw, m) == IF m.from = c.from /\ m.n = c.n THEN Worth(c.r, m.item, m.none, raw) ELSE 0
Tally(c, raw, xs) == SumFunction([k \in DOMAIN xs |-> Share(c, raw, xs[k])])

(* What there is for the claim c in the queue q and in the buffers for it, *)
(* and with the worker or syncer that receives from it.                    *)
Queued(c, q) == SumFunction([k \in DOMAIN chan[q] |-> Tally(c, q \in Worker, chan[q][k])])
Buffered(c, q) == SumFunction([p \in Process |-> Tally(c, q \in Worker, buf[p][q])])
Processed(c, w) == Tally(c, TRUE, held[w]) + SumFunction([k \in DOMAIN todo[w] |-> Share(c, todo[w][k][2], todo[w][k][1])])
Stored(c, y) == Tally(c, FALSE, history[y])
Found(c, q) == Queued(c, q) + Buffered(c, q) + IF q \in Worker THEN Processed(c, q) ELSE Stored(c, q)
Total(c) == SumFunction([q \in Queue |-> Found(c, q)])

(* No metric is lost or duplicated between a poller or trapper and history *)
(* syncing, whatever is buffered, waits for memory, is forwarded or is     *)
(* derived: what there is of it and what will be derived from that is what *)
(* its configuration says.                                                 *)
ExactlyOnce ==
    \A s \in Sender : \A n \in DOMAIN sent[s] : \A r \in Result :
       LET c == [from |-> s, n |-> n, r |-> r] IN Total(c) = Expected(c)

(* The metrics of an item of one sender come to history in the order in    *)
(* which they were sent (when an item is reached from another one in one   *)
(* way only).                                                              *)
InOrder ==
    \A y \in Syncer : \A j, k \in DOMAIN history[y] :
       LET a == history[y][j]
           b == history[y][k]
       IN j < k /\ a.from = b.from /\ a.item = b.item /\ sent[a.from][a.n] = sent[b.from][b.n] => a.n < b.n

(* Dispatches do not lead back to an item they came from: items have ranks *)
(* that a dispatch lowers and a dependency does not raise.                 *)
DispatchEnds ==
    \A u \in Setups : \E rank \in [Item -> 0 .. Cardinality(Item)] : \A i \in Item :
       /\ u.dispatch[i] # None => rank[u.dispatch[i]] < rank[i]
       /\ \A k \in DOMAIN Dependent[i] : rank[Dependent[i][k]] <= rank[i]

(* A history syncer copies a chunk into an array of ZBX_HC_SYNC_MAX values *)
(* without looking at its size (the max_count it passes is ignored): only  *)
(* the senders' limit keeps it from writing past the end.                  *)
ChunkBounded == \A y \in Syncer : \A k \in DOMAIN chan[y] : Len(chan[y][k]) <= HistMax

(* The inductive invariant behind ChunkBounded and TypeOK.  A flush under  *)
(* way is in one segment, and the buffer it sends next is not empty.       *)
FlushInv ==
    \A p \in Process :
       /\ passed[p] => flush[p].to # {}
       /\ \A q, r \in flush[p].to : SegmentOf(q) = SegmentOf(r)
       /\ \A r \in flush[p].to : \E q \in flush[p].to : buf[p][q] # << >> /\ Reached(q, r)

(* A buffer for processing that has reached the limit is being flushed. *)
LimitInv ==
    \A p \in Process, y \in Syncer : Len(buf[p][y]) < Limit \/ (Len(buf[p][y]) = Limit /\ y \in flush[p].to)

(* The chunks in the memory of segment g, <<q, k>> being the kth one in     *)
(* queue q, or with k = 0 the one that worker q processes; their sizes, and *)
(* the units of memory that chunks of sizes z occupy.                       *)
Places(q) == DOMAIN chan[q] \cup (IF q \in Worker /\ chunk[q] # 0 THEN {0} ELSE {})
Chunks(g) == UNION {{q} \X Places(q) : q \in Consumers[g]}
Sizes(g) == [x \in Chunks(g) |-> Cost(IF x[2] = 0 THEN chunk[x[1]] ELSE Len(chan[x[1]][x[2]]))]
Units(z) == UNION {{x} \X (1 .. z[x]) : x \in DOMAIN z}

(* The memory of a segment that is in use is that of its chunks. *)
MemoryInv == \A g \in Segment : IsFiniteSet(Units(Sizes(g))) /\ used[g] = Cardinality(Units(Sizes(g)))

IInv == TypeOK /\ FlushInv /\ LimitInv /\ MemoryInv /\ ChunkBounded

(* The metrics that are not with a syncer yet. *)
Underway ==
    UNION {Range(buf[p][q]) : p \in Process, q \in Queue} \cup UNION {Range(ms) : ms \in UNION {Range(chan[q]) : q \in Queue}}
    \cup UNION {Range(held[w]) \cup {x[1] : x \in Range(todo[w])} : w \in Worker}

(* A metric of a sender that flushes periodically arrives at the syncers,  *)
(* as does all that derives from it, when no worker waits for memory that  *)
(* is taken by its own queue.                                              *)
Arrived(s, n) ==
    /\ \A m \in Underway : m.from # s \/ m.n # n
    /\ \A r \in Result :
          LET c == [from |-> s, n |-> n, r |-> r] IN SumFunction([y \in Syncer |-> Stored(c, y)]) = Expected(c)

MaxMetrics == Max({u.metrics[s] : u \in Setups, s \in Poller})

EveryMetricArrives ==
    \A s \in Poller : \A n \in 1 .. MaxMetrics : Len(sent[s]) >= n ~> Len(sent[s]) >= n /\ Arrived(s, n)
=============================================================================
