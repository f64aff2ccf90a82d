------------------------------ MODULE TcpPoller ------------------------------
(***************************************************************************)
(* zabbix_server/glb_poller/poller_tcp.c and poller_contention.c: the      *)
(* poller of agent items and of simple checks over TCP, on top of the      *)
(* items, polls and lookups of glb_poller.c and poller_async_io.c          *)
(* (SnmpPoller has those in more detail: here an item that exists always   *)
(* has its poll event armed, which NeverForgotten shows, and delays are    *)
(* valid).  One action is one callback of the event loop.                  *)
(*                                                                         *)
(* Connections are libevent's bufferevents, which call back with the item  *)
(* they were made for, whether or not it still owns them or exists.  What  *)
(* the process does through a pointer to a freed item is not followed      *)
(* further: it ends the poller.  Timeouts may strike at any time; the time *)
(* in the model is that of the contention table, which counts connections  *)
(* per address and forgets an address some time after its last connection. *)
(* The build is the one with HAVE_IPV6.                                    *)
(***************************************************************************)
EXTENDS Naturals, FiniteSets

CONSTANTS
    Item,            \* itemids
    HttpItem,        \* simple checks: a connection is all they want
    NamedItem,       \* items whose interface is given by name (useip = 0)
    Assignments,     \* the sets of items the poller may be given
    AddressOf,       \* AddressOf[i]: the address of item i, or of its name
    Conn,            \* bufferevents, each with its socket
    None,            \* NULL
    MaxPerHost,      \* DEFAULT_TCP_HOST_CONTENTION
    MaxSessions,     \* POLLER_MAX_SESSIONS
    UnreachableDelay, \* CONFIG_UNREACHABLE_DELAY
    MaxLookups,      \* bound on the lookups of an item in progress
    MaxChanges       \* bound on the changes of the configuration

Host == {AddressOf[i] : i \in Item}
Key == Host \cup {None}

ASSUME TcpAssumption ==
    /\ HttpItem \subseteq Item /\ NamedItem \subseteq Item /\ Assignments \subseteq SUBSET Item
    /\ None \notin Host \cup Conn \cup Item
    /\ {MaxPerHost, MaxSessions, UnreachableDelay, MaxLookups, MaxChanges} \subseteq Nat
    /\ MaxPerHost > 0

VARIABLES
    assigned,   \* the items of this poller in the configuration cache
    known,      \* itemids in conf.items
    state,      \* poll_state
    bev,        \* bev[i]: tcp_item->bev
    ipaddr,     \* ipaddr[i]
    fresh,      \* fresh[i]: next_resolve has not passed
    conn,       \* conn[c]: the item c was made for, whether that still exists, and how far c is
    dns,        \* dns[i]: lookups in progress, by whether their item still exists
    count,      \* count[k]: sess_count of key k, 0 when it is not in the table
    age,        \* age[k]: seconds since its last_added_time
    sessions,
    hkAge,      \* seconds since last_housekeep
    changes,    \* number of changes of the configuration (bounds the model)
    lost,       \* lost[i]: the lost items check took i for lost during a response, ever (history)
    down        \* the process has crashed

itemVars == <<known, state, bev, ipaddr, fresh>>
table == <<count, age, sessions>>
vars == <<assigned, itemVars, conn, dns, table, hkAge, changes, lost, down>>

Free == [item |-> None, cur |-> FALSE, st |-> "free"]

All(S, v) == [x \in S |-> v]
NoLookup == [cur |-> 0, old |-> 0]

Init ==
    /\ assigned \in Assignments
    /\ known = {}
    /\ state = All(Item, "queued")
    /\ bev = All(Item, None) /\ ipaddr = All(Item, None) /\ fresh = All(Item, FALSE)
    /\ conn = All(Conn, Free)
    /\ dns = All(Item, NoLookup)
    /\ count = All(Key, 0) /\ age = All(Key, 0) /\ sessions = 0
    /\ hkAge = 0 /\ changes = 0
    /\ lost = All(Item, FALSE) /\ down = FALSE

(* The sessions a table f counts: f[k] for every key k. *)
Entries(f) == UNION {{k} \X (1 .. f[k]) : k \in Key}
Total(f) == Cardinality(Entries(f))

-----------------------------------------------------------------------------
(* poller_contention.c *)

HousekeepPeriod == UnreachableDelay \div 4

(* last_added_time + CONFIG_UNREACHABLE_DELAY < now *)
Outdated(k) == count[k] > 0 /\ age[k] > UnreachableDelay

(* poller_contention_get_sessions: the table and the total afterwards. *)
CountAfterGet(k) == IF Outdated(k) THEN [count EXCEPT ![k] = 0] ELSE count
SessionsAfterGet(k) == IF Outdated(k) THEN sessions - count[k] ELSE sessions

(* poller_contention_add_session; None is a key as any other. *)
AddSession(k, cnt, total) ==
    /\ count' = [cnt EXCEPT ![k] = @ + 1]
    /\ age' = [age EXCEPT ![k] = 0]
    /\ sessions' = total + 1

(* Mutant: the total is reduced for an address that is not in the table. *)
RemoveSessionAlways(k) ==
    /\ count' = IF count[k] > 0 THEN [count EXCEPT ![k] = @ - 1] ELSE count
    /\ sessions' = sessions - 1
    /\ UNCHANGED age

(* poller_contention_remove_session *)
RemoveSession(k) ==
    IF k # None /\ count[k] > 0
    THEN count' = [count EXCEPT ![k] = @ - 1] /\ sessions' = sessions - 1 /\ UNCHANGED age
    ELSE UNCHANGED table

(* Mutant: the total is not reset. *)
HousekeepAddsUp ==
    /\ hkAge >= HousekeepPeriod
    /\ hkAge' = 0
    /\ sessions' = sessions + Total(count)
    /\ count' = [k \in Key |-> IF Outdated(k) THEN 0 ELSE count[k]]
    /\ UNCHANGED <<itemVars, conn, dns, age, changes, lost, down>>

(* poller_contention_housekeep, from async_io: what is removed is added to *)
(* the total all the same, from memory that has just been freed and still  *)
(* holds it.                                                               *)
Housekeep ==
    /\ hkAge >= HousekeepPeriod
    /\ hkAge' = 0
    /\ sessions' = Total(count)
    /\ count' = [k \in Key |-> IF Outdated(k) THEN 0 ELSE count[k]]
    /\ UNCHANGED <<itemVars, conn, dns, age, changes, lost, down>>

-----------------------------------------------------------------------------
(* Requests *)

(* tcp_send_request and tcp_bev_request for item i in state st, with the   *)
(* contention table at cnt and total.  Without an address it is the local  *)
(* host that is connected to.                                              *)
(*   - no socket, or the source address cannot be bound: the item stays    *)
(*     where it is;                                                        *)
(*   - the connection cannot be started: async_tcp_destroy_session;        *)
(*   - it is started (which of the free bufferevents it is makes no        *)
(*     difference).                                                        *)
(* A connection the item had before is not looked at.                      *)
SendRequest(i, k, st, cnt, total) ==
    \/ /\ state' = [state EXCEPT ![i] = st]
       /\ count' = cnt /\ sessions' = total
       /\ UNCHANGED <<bev, conn, age>>
    \/ /\ state' = [state EXCEPT ![i] = "queued"]
       /\ bev' = [bev EXCEPT ![i] = None]
       /\ count' = cnt /\ sessions' = total
       /\ UNCHANGED <<conn, age>>
    \/ LET c == CHOOSE d \in Conn : conn[d] = Free IN
       /\ \E d \in Conn : conn[d] = Free
       /\ conn' = [conn EXCEPT ![c] = [item |-> i, cur |-> TRUE, st |-> "connecting"]]
       /\ bev' = [bev EXCEPT ![i] = c]
       /\ state' = [state EXCEPT ![i] = st]
       /\ AddSession(k, cnt, total)

(* item_poll_cb goes on to start_poll.  Otherwise its event is armed again *)
(* and nothing changes.                                                    *)
MayPoll(i) == i \in known /\ sessions <= MaxSessions /\ state[i] = "queued"

Contended(k) == CountAfterGet(k)[k] >= MaxPerHost

(* tcp_start_connection returns POLL_NEED_DELAY: the item goes back to the *)
(* queue, and is tried again after CONFIG_REPOLL_DELAY.                    *)
PollDelayed(i) ==
    /\ MayPoll(i) /\ Contended(ipaddr[i])
    /\ UNCHANGED vars

(* An address, or a name that was looked up not long ago. *)
StartPoll(i) ==
    /\ MayPoll(i) /\ ~Contended(ipaddr[i])
    /\ i \notin NamedItem \/ fresh[i]
    /\ SendRequest(i, ipaddr[i], "polling", CountAfterGet(ipaddr[i]), SessionsAfterGet(ipaddr[i]))
    /\ UNCHANGED <<known, ipaddr, fresh, dns, hkAge, changes, lost, down>>

(* A name.  poller_async_resolve returns no value, and what is read in its *)
(* place is not FAIL when the lookup has been started; when it has not,    *)
(* anything.  After it the request is sent, to the old address or to none. *)
StartLookup(i) ==
    /\ MayPoll(i) /\ ~Contended(ipaddr[i])
    /\ i \in NamedItem /\ ~fresh[i]
    /\ \/ /\ dns[i].cur + dns[i].old < MaxLookups
          /\ dns' = [dns EXCEPT ![i].cur = @ + 1]
          /\ SendRequest(i, ipaddr[i], "polling", CountAfterGet(ipaddr[i]), SessionsAfterGet(ipaddr[i]))
       \/ /\ UNCHANGED dns
          /\ SendRequest(i, ipaddr[i], "polling", CountAfterGet(ipaddr[i]), SessionsAfterGet(ipaddr[i]))
       \/ /\ count' = CountAfterGet(ipaddr[i]) /\ sessions' = SessionsAfterGet(ipaddr[i])
          /\ UNCHANGED <<dns, state, bev, conn, age>>
    /\ UNCHANGED <<known, ipaddr, fresh, hkAge, changes, lost, down>>

(* poller_async_resolve_cb: an error (the item goes to the queue), an      *)
(* answer without records, or an item that is gone.                        *)
LookupFailed(i, g) ==
    /\ dns[i][g] > 0
    /\ dns' = [dns EXCEPT ![i][g] = @ - 1]
    /\ \/ i \in known /\ state' = [state EXCEPT ![i] = "queued"]
       \/ UNCHANGED state
    /\ UNCHANGED <<known, bev, ipaddr, fresh, conn, table, hkAge, changes, lost, down>>

(* resolve_ready_func_cb: no limit is looked at. *)
LookupReady(i, g) ==
    /\ dns[i][g] > 0 /\ i \in known
    /\ dns' = [dns EXCEPT ![i][g] = @ - 1]
    /\ ipaddr' = [ipaddr EXCEPT ![i] = AddressOf[i]]
    /\ fresh' = [fresh EXCEPT ![i] = TRUE]
    /\ SendRequest(i, AddressOf[i], state[i], count, sessions)
    /\ UNCHANGED <<known, hkAge, changes, lost, down>>

(* DNS_TTL *)
AddressExpires(i) ==
    /\ fresh[i]
    /\ fresh' = [fresh EXCEPT ![i] = FALSE]
    /\ UNCHANGED <<known, state, bev, ipaddr, conn, dns, table, hkAge, changes, lost, down>>

-----------------------------------------------------------------------------
(* Callbacks of connection c, which was made for item i. *)

(* async_tcp_destroy_session: the connection the item has now, which need  *)
(* not be c, is freed.  c is in state st afterwards if it is still there.  *)
DestroySession(i, c, st) ==
    /\ conn' = [d \in Conn |-> IF d = bev[i] THEN Free
                               ELSE IF d = c THEN [conn[c] EXCEPT !.st = st] ELSE conn[d]]
    /\ bev' = [bev EXCEPT ![i] = None]
    /\ state' = [state EXCEPT ![i] = "queued"]

Callback(c, i) == conn[c].item = i /\ conn[c].cur /\ conn[c].st # "dead"

(* events_cb, BEV_EVENT_CONNECTED: a simple check is done. *)
Connected(c, i) ==
    /\ Callback(c, i) /\ conn[c].st = "connecting"
    /\ IF i \in HttpItem
       THEN DestroySession(i, c, "up") /\ RemoveSession(ipaddr[i])
       ELSE conn' = [conn EXCEPT ![c].st = "up"] /\ UNCHANGED <<state, bev, table>>
    /\ UNCHANGED <<known, ipaddr, fresh, dns, hkAge, changes, lost, down>>

(* BEV_EVENT_ERROR and BEV_EVENT_TIMEOUT, at any time.  The connection is  *)
(* not removed from the contention table.                                  *)
Failed(c, i) ==
    /\ Callback(c, i)
    /\ DestroySession(i, c, "dead")
    /\ UNCHANGED <<known, ipaddr, fresh, dns, table, hkAge, changes, lost, down>>

(* BEV_EVENT_EOF; all that has arrived has been read by response_cb. *)
Eof(c, i) ==
    /\ Callback(c, i) /\ conn[c].st \in {"up", "part"}
    /\ IF bev[i] = None
       THEN conn' = [conn EXCEPT ![c].st = "dead"] /\ UNCHANGED <<state, bev>>
       ELSE DestroySession(i, c, "dead")
    /\ UNCHANGED <<known, ipaddr, fresh, dns, table, hkAge, changes, lost, down>>

(* response_cb reads from the connection the item has now: from another    *)
(* one than c there is nothing to read, which is enough for a simple check *)
(* and never for an agent item.  What an agent sends is complete or in     *)
(* need of more.                                                           *)
ResponseFinish(c, i) ==
    /\ Callback(c, i) /\ conn[c].st \in {"up", "part"}
    /\ bev[i] = c \/ (bev[i] # None /\ i \in HttpItem)
    /\ DestroySession(i, c, conn[c].st)
    /\ RemoveSession(ipaddr[i])
    /\ UNCHANGED <<known, ipaddr, fresh, dns, hkAge, changes, lost, down>>

ResponseContinue(c, i) ==
    /\ Callback(c, i) /\ conn[c].st = "up" /\ bev[i] # None /\ i \notin HttpItem
    /\ conn' = [conn EXCEPT ![c].st = "part"]
    /\ UNCHANGED <<itemVars, dns, table, hkAge, changes, lost, down>>

(* A connection whose item has been freed calls back: the end.             *)
Wild(c) ==
    /\ conn[c].st \notin {"free", "dead"} /\ ~conn[c].cur
    /\ down' = TRUE
    /\ known' = {} /\ conn' = All(Conn, Free) /\ dns' = All(Item, NoLookup)
    /\ state' = All(Item, "queued") /\ bev' = All(Item, None)
    /\ ipaddr' = All(Item, None) /\ fresh' = All(Item, FALSE)
    /\ count' = All(Key, 0) /\ age' = All(Key, 0) /\ sessions' = 0
    /\ hkAge' = 0 /\ changes' = 0 /\ lost' = All(Item, FALSE)

-----------------------------------------------------------------------------
(* Configuration changes: new_items_check_cb. *)

(* Mutant: the connection outlives its item. *)
ForgetKeepsConnection(i) ==
    /\ changes < MaxChanges /\ changes' = changes + 1
    /\ conn' = [c \in Conn |-> IF conn[c].item = i THEN [conn[c] EXCEPT !.cur = FALSE] ELSE conn[c]]
    /\ bev' = [bev EXCEPT ![i] = None]
    /\ state' = [state EXCEPT ![i] = "queued"]
    /\ fresh' = [fresh EXCEPT ![i] = FALSE]
    /\ dns' = [dns EXCEPT ![i] = [cur |-> 0, old |-> @.cur + @.old]]
    /\ UNCHANGED <<table, hkAge, lost, down>>

(* glb_poller_delete_item, tcp_free_item: the connection the item has is   *)
(* freed; others of it, lookups and the contention table are left alone.   *)
Forget(i) ==
    /\ changes < MaxChanges /\ changes' = changes + 1
    /\ conn' = [c \in Conn |-> IF c = bev[i] THEN Free
                               ELSE IF conn[c].item = i THEN [conn[c] EXCEPT !.cur = FALSE] ELSE conn[c]]
    /\ bev' = [bev EXCEPT ![i] = None]
    /\ state' = [state EXCEPT ![i] = "queued"]
    /\ fresh' = [fresh EXCEPT ![i] = FALSE]
    /\ dns' = [dns EXCEPT ![i] = [cur |-> 0, old |-> @.cur + @.old]]
    /\ UNCHANGED <<table, hkAge, lost, down>>

(* Also a changed item that tcp_init_item refuses. *)
DeleteItem(i) ==
    /\ i \in known /\ Forget(i)
    /\ known' = known \ {i}
    /\ ipaddr' = [ipaddr EXCEPT ![i] = None]

(* glb_poller_create_item, tcp_init_item *)
CreateItem(i) ==
    /\ i \in assigned /\ Forget(i)
    /\ known' = known \cup {i}
    /\ ipaddr' = [ipaddr EXCEPT ![i] = IF i \in NamedItem THEN None ELSE AddressOf[i]]

(* Mutant: there is no lost items check. *)
NoLostItem(i) ==
    /\ FALSE /\ i \in known
    /\ UNCHANGED vars

(* lost_items_check_cb, ITEMS_REINIT_INTERVAL (300 s) after the poll:      *)
(* lookups and connections without an answer are over by then, a response  *)
(* that comes little by little need not be.                                *)
LostItem(i) ==
    /\ i \in known /\ state[i] = "polling" /\ dns[i].cur = 0
    /\ bev[i] # None => conn[bev[i]].st = "part"
    /\ state' = [state EXCEPT ![i] = "queued"]
    /\ lost' = [lost EXCEPT ![i] = @ \/ bev[i] # None]
    /\ UNCHANGED <<known, bev, ipaddr, fresh, conn, dns, table, hkAge, changes, down>>

(* A second passes. *)
Tick ==
    /\ age' = [k \in Key |-> IF count[k] > 0 /\ age[k] <= UnreachableDelay THEN age[k] + 1 ELSE age[k]]
    /\ hkAge' = IF hkAge < HousekeepPeriod THEN hkAge + 1 ELSE hkAge
    /\ UNCHANGED <<itemVars, conn, dns, count, sessions, changes, lost, down>>

-----------------------------------------------------------------------------
Lookup(i, g) == LookupFailed(i, g) \/ LookupReady(i, g)

ItemStep(i) ==
    \/ PollDelayed(i) \/ StartPoll(i) \/ StartLookup(i) \/ AddressExpires(i)
    \/ \E g \in {"cur", "old"} : Lookup(i, g)
    \/ DeleteItem(i) \/ CreateItem(i) \/ LostItem(i)

ConnStep(c) ==
    \/ \E i \in Item : \/ Connected(c, i) \/ Failed(c, i) \/ Eof(c, i)
                       \/ ResponseFinish(c, i) \/ ResponseContinue(c, i)
    \/ Wild(c)

Crashed == down /\ UNCHANGED vars

Up == ~down /\ UNCHANGED assigned

Next == \/ /\ Up
           /\ (\E i \in Item : ItemStep(i)) \/ (\E c \in Conn : ConnStep(c)) \/ Housekeep \/ Tick
        \/ Crashed

Spec == Init /\ [][Next]_vars

(* Time passes, housekeeping and the lost items check are timer events,    *)
(* evdns ends every lookup.  A connection ends or times out, unless its    *)
(* response goes on for ever.                                              *)
FairSpec ==
    /\ Spec
    /\ WF_vars(Up /\ Tick) /\ WF_vars(Up /\ Housekeep)
    /\ \A i \in Item : /\ WF_vars(Up /\ LostItem(i))
                       /\ \A g \in {"cur", "old"} : WF_vars(Up /\ Lookup(i, g))
    /\ \A c \in Conn : WF_vars(Up /\ conn[c].st # "part" /\ ConnStep(c))

-----------------------------------------------------------------------------
(* A table, and a total that covers what it counts. *)
Covers(total, f) ==
    f \in [Key -> Nat] /\ IsFiniteSet(Entries(f)) /\ total \in Nat /\ total >= Total(f)

ItemsOK ==
    /\ assigned \in Assignments /\ known \subseteq assigned
    /\ state \in [Item -> {"queued", "polling"}]
    /\ bev \in [Item -> Conn \cup {None}]
    /\ ipaddr \in [Item -> Key] /\ fresh \in [Item -> BOOLEAN]
    /\ conn \in [Conn -> [item : Item \cup {None}, cur : BOOLEAN,
                          st : {"free", "connecting", "up", "part", "dead"}]]
    /\ dns \in [Item -> [cur : 0 .. MaxLookups, old : 0 .. MaxLookups]]
    /\ changes \in 0 .. MaxChanges /\ lost \in [Item -> BOOLEAN] /\ down \in BOOLEAN

TableOK ==
    /\ Covers(sessions, count)
    /\ age \in [Key -> 0 .. UnreachableDelay + 1] /\ hkAge \in 0 .. HousekeepPeriod

(* The fields of items, connections and the contention table; the number   *)
(* of sessions, an int that several functions subtract from, is at least   *)
(* what the table holds and never negative.                                *)
TypeOK == ItemsOK /\ TableOK

(* Items with addresses: every connection is that of an item which exists, *)
(* knows it and is being polled, so that no callback meets a freed item or *)
(* another connection's data and no socket is left behind; an item in the  *)
(* queue has none that the next poll would overwrite.  The one way to lose *)
(* a connection is a response that outlasts the lost items check.          *)
OwnConnection ==
    \A i \in Item \ NamedItem : ~lost[i] =>
       /\ \A c \in Conn : conn[c].item = i => conn[c].cur /\ bev[i] = c /\ i \in known
       /\ bev[i] # None => state[i] = "polling" /\ conn[bev[i]].item = i

(* The inductive invariant.  The connection an item has is the one that    *)
(* was made for it, and nobody else's.                                     *)
BevInv ==
    \A i \in Item : bev[i] # None => /\ conn[bev[i]].item = i /\ conn[bev[i]].cur
                                     /\ i \in known

(* Only names are looked up. *)
LookupInv ==
    \A i \in Item : /\ dns[i].cur + dns[i].old <= MaxLookups
                    /\ i \notin NamedItem => dns[i] = NoLookup

IInv == TypeOK /\ BevInv /\ LookupInv /\ OwnConnection

(* Connections that fail, time out or are deleted stay in the contention   *)
(* table, and housekeeping counts what it removes.  All the same neither   *)
(* limit stops polling for ever: an address at its limit, and a poller at  *)
(* its own, come below it again.                                           *)
LimitsHeal ==
    /\ \A k \in Key : Contended(k) ~> ~Contended(k) \/ down
    /\ sessions > MaxSessions ~> sessions <= MaxSessions \/ down

(* Every poll ends, by an answer, an error, a timeout or, when there was   *)
(* not even a socket, by the lost items check.                             *)
PollsEnd == \A i \in Item : state[i] = "polling" ~> state[i] = "queued" \/ down
=============================================================================
