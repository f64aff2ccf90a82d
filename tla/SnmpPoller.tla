----------------------------- MODULE SnmpPoller -----------------------------
(***************************************************************************)
(* zabbix_server/glb_poller: the asynchronous SNMP poller process, that is *)
(* glb_poller.c (items and their poll events), poller_async_io.c (libevent *)
(* timers, DNS), poller_sessions.c (request ids), snmp.c, snmp_get.c and   *)
(* snmp_walk.c (requests, answers, timeouts, retries).                     *)
(*                                                                         *)
(* The process is one event loop, so a callback is one action.  What it    *)
(* interleaves with is outside: answers that are late, lost or duplicated, *)
(* name lookups, timers, and configuration changes that delete an item or  *)
(* replace it by a new one with the same itemid.  Timers are only armed or *)
(* not: an armed one may fire at any time.                                 *)
(*                                                                         *)
(* History: a datagram and a lookup remember whether the item they were    *)
(* made for is still the one in the poller (cur), and stale remembers that *)
(* the result of one made for a previous item was used for the present.    *)
(***************************************************************************)
EXTENDS Naturals, FiniteSets

CONSTANTS
    Item,        \* itemids
    WalkItem,    \* the discovery items, polled by a walk
    NamedItem,   \* the items whose interface is given by name (useip = 0)
    BadDelay,    \* the items whose delay cannot be parsed
    Id,          \* request ids
    NoId,        \* 0
    MaxSessions, \* POLLER_MAX_SESSIONS
    MaxRetries,  \* SNMP_MAX_RETRIES
    MaxLookups   \* bound on the lookups of an item in progress

ASSUME SnmpAssumption ==
    /\ WalkItem \subseteq Item /\ NamedItem \subseteq Item /\ BadDelay \subseteq Item
    /\ NoId \notin Id \cup Item
    /\ MaxSessions \in Nat /\ MaxRetries \in Nat /\ MaxLookups \in Nat

VARIABLES
    known,      \* itemids in conf.items
    state,      \* poll_state
    pollTimer,  \* is poll_event armed
    tmTimer,    \* is tm_event armed
    sessid,     \* the request the item waits for, or NoId
    retries,
    walking,    \* a walk is in progress (snmp_item->data)
    sess,       \* poller_sessions: the item of a request id, or NoId
    net,        \* requests on the way, at a device, or answered
    dns,        \* lookups in progress, by item and whether it is current
    stale       \* history

itemVars == <<known, state, pollTimer, tmTimer, sessid, retries, walking>>
vars == <<itemVars, sess, net, dns, stale>>

Datagram == [id : Id, item : Item, cur : BOOLEAN]

Init ==
    /\ known = {}
    /\ state = [i \in Item |-> "queued"]
    /\ pollTimer = [i \in Item |-> FALSE]
    /\ tmTimer = [i \in Item |-> FALSE]
    /\ sessid = [i \in Item |-> NoId]
    /\ retries = [i \in Item |-> 0]
    /\ walking = [i \in Item |-> FALSE]
    /\ sess = [k \in Id |-> NoId]
    /\ net = {}
    /\ dns = [i \in Item |-> [cur |-> 0, old |-> 0]]
    /\ stale = FALSE

Sessions == {k \in Id : sess[k] # NoId}
Lookups(i) == dns[i].cur + dns[i].old

(* poller_sessions_close_session *)
Closed(k, table) == [x \in Id |-> IF x = k THEN NoId ELSE table[x]]

-----------------------------------------------------------------------------
(* Sending, in a callback that runs with session table tab. *)

(* Mutant: the timeout is not armed. *)
SendPacketNoTimer(i, tab, others) ==
    \E k \in Id :
        /\ sess[k] = NoId
        /\ sess' = [tab EXCEPT ![k] = i]
        /\ sessid' = [sessid EXCEPT ![i] = k]
        /\ tmTimer' = tmTimer
        /\ net' = {m \in others : m.id # k} \cup {[id |-> k, item |-> i, cur |-> TRUE]}

(* snmp_send_packet with poller_sessions_create_session: the random id is   *)
(* not in the table.  That it is the one just closed, or of a request still *)
(* on the way, is not considered (one in 2^31): a datagram is lost at the   *)
(* latest when the few ids of the model make its id come again.             *)
SendPacket(i, tab, others) ==
    \E k \in Id :
        /\ sess[k] = NoId
        /\ sess' = [tab EXCEPT ![k] = i]
        /\ sessid' = [sessid EXCEPT ![i] = k]
        /\ tmTimer' = [tmTimer EXCEPT ![i] = TRUE]
        /\ net' = {m \in others : m.id # k} \cup {[id |-> k, item |-> i, cur |-> TRUE]}

(* Nothing is sent: too soon after the last answer, or a broken item.       *)
(* snmp_fill_pdu_header is not a reason: it returns no value, and what its  *)
(* callers read instead is a version or a length, never FAIL.               *)
SendNothing(i, tab, others) ==
    /\ sess' = tab
    /\ sessid' = sessid
    /\ tmTimer' = tmTimer
    /\ net' = others

(* snmp_get_send_request *)
GetRequest(i, st) ==
    \/ SendPacket(i, sess, net) /\ state' = [state EXCEPT ![i] = st]
    \/ SendNothing(i, sess, net) /\ state' = [state EXCEPT ![i] = "queued"]

(* snmp_walk_send_first_request: refused while a walk is in progress; a     *)
(* discovery key that does not parse leaves the item in its state, an OID   *)
(* that does not parse returns it to the queue.                             *)
WalkRequest(i, st) ==
    \/ /\ SendNothing(i, sess, net)
       /\ walking' = walking
       /\ state' = [state EXCEPT ![i] = st]
    \/ /\ ~walking[i]
       /\ SendNothing(i, Closed(sessid[i], sess), net)
       /\ walking' = walking
       /\ state' = [state EXCEPT ![i] = "queued"]
    \/ /\ ~walking[i]
       /\ SendPacket(i, sess, net)
       /\ walking' = [walking EXCEPT ![i] = TRUE]
       /\ state' = [state EXCEPT ![i] = st]

(* snmp_send_request for an item whose state is st. *)
SendRequest(i, st) ==
    /\ retries' = [retries EXCEPT ![i] = 0]
    /\ IF i \in WalkItem THEN WalkRequest(i, st)
       ELSE GetRequest(i, st) /\ walking' = walking

-----------------------------------------------------------------------------
(* Configuration changes: new_items_check_cb. *)

(* Mutant: the session of a deleted item stays. *)
ForgetKeepsSession(i, tab) ==
    /\ sess' = tab
    /\ sessid' = [sessid EXCEPT ![i] = NoId]
    /\ tmTimer' = [tmTimer EXCEPT ![i] = FALSE]
    /\ retries' = [retries EXCEPT ![i] = 0]
    /\ walking' = [walking EXCEPT ![i] = FALSE]
    /\ state' = [state EXCEPT ![i] = "queued"]
    /\ net' = {IF m.item = i THEN [m EXCEPT !.cur = FALSE] ELSE m : m \in net}
    /\ dns' = [dns EXCEPT ![i] = [cur |-> 0, old |-> Lookups(i)]]
    /\ UNCHANGED stale

(* glb_poller_delete_item and free_item: the session is closed and both     *)
(* events are destroyed; lookups and datagrams are on their own.            *)
Forget(i, tab) ==
    /\ sess' = Closed(sessid[i], tab)
    /\ sessid' = [sessid EXCEPT ![i] = NoId]
    /\ tmTimer' = [tmTimer EXCEPT ![i] = FALSE]
    /\ retries' = [retries EXCEPT ![i] = 0]
    /\ walking' = [walking EXCEPT ![i] = FALSE]
    /\ state' = [state EXCEPT ![i] = "queued"]
    /\ net' = {IF m.item = i THEN [m EXCEPT !.cur = FALSE] ELSE m : m \in net}
    /\ dns' = [dns EXCEPT ![i] = [cur |-> 0, old |-> Lookups(i)]]
    /\ UNCHANGED stale

(* Also a changed item that init_item refuses: the old one is gone. *)
DeleteItem(i) ==
    /\ i \in known
    /\ Forget(i, sess)
    /\ known' = known \ {i}
    /\ pollTimer' = [pollTimer EXCEPT ![i] = FALSE]

(* glb_poller_create_item: an item that is there is deleted first. *)
CreateItem(i) ==
    /\ Forget(i, sess)
    /\ known' = known \cup {i}
    /\ pollTimer' = [pollTimer EXCEPT ![i] = TRUE]

-----------------------------------------------------------------------------
(* The poll event: item_poll_cb. *)

Rearm(i) == pollTimer' = [pollTimer EXCEPT ![i] = i \notin BadDelay]

(* Too many sessions, or not in the queue: the event is armed again. *)
PollDelayed(i) ==
    /\ pollTimer[i]
    /\ Cardinality(Sessions) > MaxSessions \/ state[i] # "queued"
    /\ UNCHANGED vars

(* Mutant: the poll event is not armed again. *)
PollDisabledForever(i) ==
    /\ pollTimer[i] /\ Cardinality(Sessions) <= MaxSessions
    /\ state[i] = "queued"
    /\ pollTimer' = [pollTimer EXCEPT ![i] = FALSE]
    /\ UNCHANGED <<known, state, tmTimer, sessid, retries, walking, sess, net, dns, stale>>

(* The interface is disabled: the event is armed for when it is enabled. *)
PollDisabled(i) ==
    /\ pollTimer[i] /\ Cardinality(Sessions) <= MaxSessions
    /\ state[i] = "queued"
    /\ Rearm(i)
    /\ UNCHANGED <<known, state, tmTimer, sessid, retries, walking, sess, net, dns, stale>>

(* Mutant: the limit on sessions is not looked at. *)
StartPollUnlimited(i) ==
    /\ pollTimer[i]
    /\ state[i] = "queued" /\ i \notin NamedItem
    /\ SendRequest(i, "polling")
    /\ Rearm(i)
    /\ UNCHANGED <<known, dns, stale>>

(* start_poll_item of an item with an address. *)
StartPoll(i) ==
    /\ pollTimer[i] /\ Cardinality(Sessions) <= MaxSessions
    /\ state[i] = "queued" /\ i \notin NamedItem
    /\ SendRequest(i, "polling")
    /\ Rearm(i)
    /\ UNCHANGED <<known, dns, stale>>

(* start_poll_item of an item with a name.  poller_async_resolve returns no *)
(* value.  When the lookup has started its caller reads a counter or a part *)
(* of a pointer, not FAIL; when it has not, whatever the logging left.      *)
StartLookup(i) ==
    /\ pollTimer[i] /\ Cardinality(Sessions) <= MaxSessions
    /\ state[i] = "queued" /\ i \in NamedItem
    /\ \/ /\ Lookups(i) < MaxLookups
          /\ dns' = [dns EXCEPT ![i].cur = @ + 1]
          /\ state' = [state EXCEPT ![i] = "polling"]
       \/ /\ UNCHANGED dns
          /\ \E st \in {"polling", "queued"} : state' = [state EXCEPT ![i] = st]
    /\ Rearm(i)
    /\ UNCHANGED <<known, tmTimer, sessid, retries, walking, sess, net, stale>>

-----------------------------------------------------------------------------
(* poller_async_resolve_cb: the item is looked up by its id.                *)
Looked(i, c) == /\ dns[i][c] > 0
                /\ dns' = [dns EXCEPT ![i][c] = @ - 1]

(* An error, or an answer without records, or an item that is gone. *)
LookupFailed(i, c) ==
    /\ Looked(i, c)
    /\ \/ i \in known /\ state' = [state EXCEPT ![i] = "queued"]
       \/ UNCHANGED state
    /\ UNCHANGED <<known, pollTimer, tmTimer, sessid, retries, walking, sess, net, stale>>

(* resolve_ready_cb *)
LookupReady(i, c) ==
    /\ Looked(i, c) /\ i \in known
    /\ SendRequest(i, state[i])
    /\ stale' = (stale \/ c = "old")
    /\ UNCHANGED <<known, pollTimer>>

-----------------------------------------------------------------------------
(* Answers and timeouts. *)

(* Mutant: the timeout stays armed after the answer. *)
AcceptedKeepsTimer(i, tab, others) ==
    /\ retries' = [retries EXCEPT ![i] = 0]
    /\ sess' = tab /\ net' = others
    /\ sessid' = [sessid EXCEPT ![i] = NoId]
    /\ walking' = [walking EXCEPT ![i] = FALSE]
    /\ state' = [state EXCEPT ![i] = "queued"]
    /\ UNCHANGED tmTimer

(* The effect of an accepted answer after the session is closed (tab) and   *)
(* the timer and the retries are reset: snmp_get_process_result ends the    *)
(* poll, snmp_walk_process_result goes on or ends it.                       *)
Accepted(i, tab, others) ==
    /\ retries' = [retries EXCEPT ![i] = 0]
    /\ \/ /\ sess' = tab /\ net' = others
          /\ sessid' = [sessid EXCEPT ![i] = NoId]
          /\ tmTimer' = [tmTimer EXCEPT ![i] = FALSE]
          /\ walking' = [walking EXCEPT ![i] = FALSE]
          /\ state' = [state EXCEPT ![i] = "queued"]
       \/ /\ i \in WalkItem /\ walking[i]
          /\ SendPacket(i, tab, others)
          /\ UNCHANGED <<walking, state>>

(* process_result for an answer; a duplicate of it may follow.  An answer   *)
(* to no session is dropped, one for an item that is gone closes it.        *)
Answer(m) ==
    /\ m \in net
    /\ \E others \in {net, net \ {m}} :
         IF sess[m.id] = NoId
         THEN /\ net' = others
              /\ UNCHANGED <<itemVars, sess, dns, stale>>
         ELSE IF sess[m.id] \notin known
         THEN /\ net' = others
              /\ sess' = Closed(m.id, sess)
              /\ UNCHANGED <<itemVars, dns, stale>>
         ELSE /\ Accepted(sess[m.id], Closed(m.id, sess), others)
              /\ stale' = (stale \/ ~m.cur)
              /\ UNCHANGED <<known, pollTimer, dns>>

Lose(m) ==
    /\ m \in net
    /\ net' = net \ {m}
    /\ UNCHANGED <<itemVars, sess, dns, stale>>

(* Mutant: the retries are not limited. *)
TimeoutUnlimited(i) ==
    /\ tmTimer[i]
    /\ retries' = [retries EXCEPT ![i] = IF @ < MaxRetries + 1 THEN @ + 1 ELSE @]
    /\ SendPacket(i, Closed(sessid[i], sess), net)
    /\ UNCHANGED <<known, state, walking, pollTimer, dns, stale>>

(* Mutant: the session is not closed before the retry. *)
TimeoutKeepsSession(i) ==
    /\ tmTimer[i]
    /\ retries' = [retries EXCEPT ![i] = @ + 1]
    /\ IF retries[i] < MaxRetries THEN SendPacket(i, sess, net) /\ UNCHANGED <<walking, state>>
       ELSE /\ sessid' = [sessid EXCEPT ![i] = NoId]
            /\ tmTimer' = [tmTimer EXCEPT ![i] = FALSE]
            /\ walking' = [walking EXCEPT ![i] = FALSE]
            /\ state' = [state EXCEPT ![i] = "queued"]
            /\ UNCHANGED <<sess, net>>
    /\ UNCHANGED <<known, pollTimer, dns, stale>>

(* timeout_event_cb: the session is closed; after the last retry the item   *)
(* goes back to the queue, before it the request is sent again.             *)
Timeout(i) ==
    LET tab == Closed(sessid[i], sess) IN
    /\ tmTimer[i]
    /\ \/ /\ retries[i] >= MaxRetries
          /\ sess' = tab
          /\ sessid' = [sessid EXCEPT ![i] = NoId]
          /\ tmTimer' = [tmTimer EXCEPT ![i] = FALSE]
          /\ walking' = [walking EXCEPT ![i] = FALSE]
          /\ state' = [state EXCEPT ![i] = "queued"]
          /\ UNCHANGED <<retries, net>>
       \/ /\ retries[i] < MaxRetries
          /\ retries' = [retries EXCEPT ![i] = @ + 1]
          /\ \/ SendPacket(i, tab, net) /\ UNCHANGED state
             \/ /\ i \notin WalkItem
                /\ sess' = tab
                /\ sessid' = [sessid EXCEPT ![i] = NoId]
                /\ tmTimer' = [tmTimer EXCEPT ![i] = FALSE]
                /\ state' = [state EXCEPT ![i] = "queued"]
                /\ UNCHANGED net
          /\ UNCHANGED walking
    /\ UNCHANGED <<known, pollTimer, dns, stale>>

(* Mutant: there is no lost items check. *)
LostItemIgnored(i) ==
    /\ FALSE /\ i \in known
    /\ UNCHANGED vars

(* lost_items_check_cb: an item polled ITEMS_REINIT_INTERVAL (300 s) ago    *)
(* and still not back.  Lookups and the retries of one request are over by  *)
(* then, a walk need not be.                                                *)
LostItem(i) ==
    /\ i \in known /\ state[i] = "polling"
    /\ i \in WalkItem \/ (~tmTimer[i] /\ Lookups(i) = 0)
    /\ state' = [state EXCEPT ![i] = "queued"]
    /\ UNCHANGED <<known, pollTimer, tmTimer, sessid, retries, walking, sess, net, dns, stale>>

-----------------------------------------------------------------------------
Next ==
    \/ \E i \in Item :
         \/ CreateItem(i) \/ DeleteItem(i)
         \/ PollDelayed(i) \/ PollDisabled(i) \/ StartPoll(i) \/ StartLookup(i)
         \/ (\E c \in {"cur", "old"} : LookupFailed(i, c) \/ LookupReady(i, c))
         \/ Timeout(i) \/ LostItem(i)
    \/ \E m \in net : Answer(m) \/ Lose(m)

Spec == Init /\ [][Next]_vars

(* Armed timers fire, the lost items check runs every 30 seconds, and evdns *)
(* ends every lookup (timeout 4).  Nothing is assumed of the devices.       *)
LookupDone(i, c) == LookupFailed(i, c) \/ LookupReady(i, c)
FairSpec ==
    /\ Spec
    /\ \A i \in Item :
         /\ WF_vars(Timeout(i)) /\ WF_vars(LostItem(i))
         /\ \A c \in {"cur", "old"} : WF_vars(LookupDone(i, c))

-----------------------------------------------------------------------------
(* The fields of items, sessions and datagrams; retries stays within        *)
(* SNMP_MAX_RETRIES.                                                        *)
TypeOK ==
    /\ known \subseteq Item
    /\ state \in [Item -> {"queued", "polling"}]
    /\ pollTimer \in [Item -> BOOLEAN] /\ tmTimer \in [Item -> BOOLEAN]
    /\ walking \in [Item -> BOOLEAN]
    /\ sessid \in [Item -> Id \cup {NoId}]
    /\ retries \in [Item -> 0 .. MaxRetries]
    /\ sess \in [Id -> Item \cup {NoId}]
    /\ net \subseteq Datagram
    /\ dns \in [Item -> [cur : 0 .. MaxLookups, old : 0 .. MaxLookups]]
    /\ stale \in BOOLEAN

(* A request id in the session table is the one its item waits for, and the *)
(* item exists: no retry, answer, end of a walk or deletion leaves a        *)
(* session behind, where it would count against POLLER_MAX_SESSIONS for as  *)
(* long as the process lives.  This, the two properties that follow and     *)
(* NoStaleResult hold where all items have addresses.                       *)
SessionOwned ==
    \A k \in Sessions : sess[k] \in known /\ sessid[sess[k]] = k

(* The converse: an item that waits for an answer has its session in the    *)
(* table and its timeout armed, so that an answer is found and a loss is    *)
(* noticed; one that does not wait has no timeout that could hit the next   *)
(* request.                                                                 *)
WaitingHasTimer ==
    \A i \in Item :
        /\ sessid[i] # NoId => i \in known /\ tmTimer[i] /\ sess[sessid[i]] = i
        /\ tmTimer[i] => sessid[i] # NoId

(* A simple item with an address is in the state POLLING exactly while its  *)
(* request is open: it neither waits in the queue with an open request,     *)
(* which the next poll would double, nor in POLLING without one, where only *)
(* the lost items check would find it minutes later.                        *)
PollingIsWaiting ==
    \A i \in Item \ (WalkItem \cup NamedItem) : state[i] = "polling" <=> sessid[i] # NoId

(* The limit of item_poll_cb holds although retries and walks open sessions *)
(* without looking at it: at most one more than POLLER_MAX_SESSIONS.  This  *)
(* is so where all items have addresses: a finished lookup of an item with  *)
(* a name opens a session without looking at the limit too, and with such   *)
(* items there may be more.                                                 *)
SessionsBounded == Cardinality(Sessions) <= MaxSessions + 1

(* snmp_walk_timeout and the answers of a walk dereference the walk's data: *)
(* while a walk's request is open the data is there.                        *)
OpenWalkHasData == \A i \in WalkItem : tmTimer[i] => walking[i]

(* An item of the poller has its poll event armed, whatever happened to its *)
(* polls, unless its delay is not valid: no item silently stops being       *)
(* polled.                                                                  *)
NeverForgotten == \A i \in known \ BadDelay : pollTimer[i]

(* When a changed item replaces the old one, no answer or name lookup made  *)
(* for the old configuration is used for the new one.                       *)
NoStaleResult == ~stale

(* What holds whether or not items have to be looked up, and is inductive   *)
(* as it stands.                                                            *)
GeneralInv ==
    /\ TypeOK /\ OpenWalkHasData /\ NeverForgotten
    /\ \A i \in Item : Lookups(i) <= MaxLookups

(* What makes the above inductive when every item has an address: timers    *)
(* belong to items that exist, nothing is looked up, and a request on the   *)
(* way whose id is open was made for the item that waits for it now.        *)
ArmedIsKnown == \A i \in Item : pollTimer[i] => i \in known
NoLookups == \A i \in Item : dns[i] = [cur |-> 0, old |-> 0]
DatagramsCurrent == \A m \in net : sess[m.id] # NoId => m.cur /\ m.item = sess[m.id]

(* The inductive invariant: the session table, the timers and the states    *)
(* of the items agree.                                                      *)
AddressedInv ==
    /\ TypeOK /\ SessionOwned /\ WaitingHasTimer /\ PollingIsWaiting /\ OpenWalkHasData
    /\ NeverForgotten /\ NoStaleResult /\ ArmedIsKnown /\ NoLookups /\ DatagramsCurrent

(* A poll ends: by an answer, by the retries, or by the lost items check. *)
PollingReturns == \A i \in Item : (state[i] = "polling") ~> (state[i] = "queued")

(* No request of an item with an address stays in the session table for     *)
(* ever, answered or not.  (One sent for a late lookup may: see             *)
(* NoStaleResult.)                                                          *)
SessionsClosed ==
    \A k \in Id : (sess[k] \in Item \ NamedItem) ~> (sess[k] \notin Item \ NamedItem)
=============================================================================
