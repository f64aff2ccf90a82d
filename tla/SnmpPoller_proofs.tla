-------------------------- MODULE SnmpPoller_proofs --------------------------
(***************************************************************************)
(* Proofs about SnmpPoller, for any number of items, request ids, sessions *)
(* and retries: what holds of every poller, and what holds when every item *)
(* has an address.                                                         *)
(***************************************************************************)
EXTENDS SnmpPoller, FiniteSetTheorems, TLAPS

(* Every interface is given by its address (useip = 1). *)
Addressed == NamedItem = {}

(* A poller begins with idle items. *)
LEMMA InitInv == Init => AddressedInv
<1> SUFFICES ASSUME Init PROVE AddressedInv
    OBVIOUS
<1> USE SnmpAssumption DEF Init
<1>1. TypeOK
  <2>1. retries \in [Item -> 0 .. MaxRetries]
    OBVIOUS
  <2>2. dns \in [Item -> [cur : 0 .. MaxLookups, old : 0 .. MaxLookups]]
    OBVIOUS
  <2> QED
    BY <2>1, <2>2 DEF TypeOK
<1>2. SessionOwned /\ WaitingHasTimer /\ DatagramsCurrent
    BY DEF SessionOwned, Sessions, WaitingHasTimer, DatagramsCurrent
<1>3. PollingIsWaiting /\ OpenWalkHasData
    BY DEF PollingIsWaiting, OpenWalkHasData
<1>4. NeverForgotten /\ NoStaleResult /\ ArmedIsKnown /\ NoLookups
    BY DEF NeverForgotten, NoStaleResult, ArmedIsKnown, NoLookups
<1> QED
    BY <1>1, <1>2, <1>3, <1>4 DEF AddressedInv

(* Marking a datagram as made for a previous item changes nothing else. *)
LEMMA OldDatagram ==
    ASSUME NEW m \in Datagram
    PROVE  /\ [m EXCEPT !.cur = FALSE] \in Datagram
           /\ [m EXCEPT !.cur = FALSE].id = m.id
           /\ [m EXCEPT !.cur = FALSE].item = m.item
BY DEF Datagram

(* glb_poller_create_item and glb_poller_delete_item keep the invariant. *)
LEMMA ConfigStep ==
    ASSUME AddressedInv, NEW i \in Item, CreateItem(i) \/ DeleteItem(i)
    PROVE  AddressedInv'
<1> USE SnmpAssumption
<1>1. TypeOK'
  <2>1. net' \subseteq Datagram
    <3>1. net' = {IF m.item = i THEN [m EXCEPT !.cur = FALSE] ELSE m : m \in net}
      BY DEF CreateItem, DeleteItem, Forget
    <3>2. net \subseteq Datagram
      BY DEF AddressedInv, TypeOK
    <3> QED
      BY <3>1, <3>2, OldDatagram
  <2>2. dns' \in [Item -> [cur : 0 .. MaxLookups, old : 0 .. MaxLookups]]
    <3>1. dns[i].cur = 0 /\ dns[i].old = 0 /\ Lookups(i) = 0
      BY DEF AddressedInv, TypeOK, NoLookups, Lookups
    <3>2. dns' = [dns EXCEPT ![i] = [cur |-> 0, old |-> 0]]
      BY <3>1 DEF CreateItem, DeleteItem, Forget
    <3> QED
      BY <3>2 DEF AddressedInv, TypeOK
  <2>3. sess' \in [Id -> Item \cup {NoId}] /\ sessid' \in [Item -> Id \cup {NoId}]
    BY DEF AddressedInv, TypeOK, CreateItem, DeleteItem, Forget, Closed
  <2>4. known' \subseteq Item /\ retries' \in [Item -> 0 .. MaxRetries]
    BY DEF AddressedInv, TypeOK, CreateItem, DeleteItem, Forget
  <2>5. state' \in [Item -> {"queued", "polling"}] /\ stale' \in BOOLEAN
    BY DEF AddressedInv, TypeOK, CreateItem, DeleteItem, Forget
  <2>6. tmTimer' \in [Item -> BOOLEAN] /\ walking' \in [Item -> BOOLEAN]
    BY DEF AddressedInv, TypeOK, CreateItem, DeleteItem, Forget
  <2>7. pollTimer' \in [Item -> BOOLEAN]
    BY DEF AddressedInv, TypeOK, CreateItem, DeleteItem
  <2> QED
    BY <2>1, <2>2, <2>3, <2>4, <2>5, <2>6, <2>7 DEF TypeOK
<1>2. SessionOwned'
    BY DEF AddressedInv, TypeOK, SessionOwned, WaitingHasTimer, CreateItem, DeleteItem, Forget,
        Closed, Sessions
<1>3. WaitingHasTimer'
    BY DEF AddressedInv, TypeOK, SessionOwned, WaitingHasTimer, CreateItem, DeleteItem, Forget,
        Closed, Sessions
<1>4. PollingIsWaiting' /\ OpenWalkHasData'
  <2>1. PollingIsWaiting'
    BY DEF AddressedInv, TypeOK, PollingIsWaiting, CreateItem, DeleteItem, Forget
  <2>2. OpenWalkHasData'
    BY DEF AddressedInv, TypeOK, OpenWalkHasData, CreateItem, DeleteItem, Forget
  <2> QED
    BY <2>1, <2>2
<1>5. NeverForgotten' /\ ArmedIsKnown' /\ NoStaleResult'
    BY DEF AddressedInv, TypeOK, NeverForgotten, ArmedIsKnown, NoStaleResult, CreateItem,
        DeleteItem, Forget
<1>6. NoLookups'
    BY DEF AddressedInv, TypeOK, NoLookups, Lookups, CreateItem, DeleteItem, Forget
<1>7. DatagramsCurrent'
  <2> SUFFICES ASSUME NEW d \in net', sess'[d.id] # NoId
               PROVE  d.cur /\ d.item = sess'[d.id]
    BY DEF DatagramsCurrent
  <2>1. PICK m \in net : d = IF m.item = i THEN [m EXCEPT !.cur = FALSE] ELSE m
    BY DEF CreateItem, DeleteItem, Forget
  <2>2. m \in Datagram /\ d.id = m.id /\ m.id \in Id
    BY <2>1, OldDatagram DEF AddressedInv, TypeOK, Datagram
  <2>3. sess' = Closed(sessid[i], sess)
    BY DEF CreateItem, DeleteItem, Forget
  <2>4. m.id # sessid[i] /\ sess[m.id] # NoId /\ sess'[d.id] = sess[m.id]
    BY <2>2, <2>3 DEF Closed
  <2>5. m.cur /\ m.item = sess[m.id]
    BY <2>4 DEF AddressedInv, DatagramsCurrent
  <2>6. m.item # i
    BY <2>2, <2>4, <2>5 DEF AddressedInv, SessionOwned, Sessions
  <2> QED
    BY <2>1, <2>4, <2>5, <2>6
<1> QED
    BY <1>1, <1>2, <1>3, <1>4, <1>5, <1>6, <1>7 DEF AddressedInv

-----------------------------------------------------------------------------
(* What the session table, the items and the timers say about each other,   *)
(* which every way to open or close a session keeps.                        *)
Agree ==
    /\ sess \in [Id -> Item \cup {NoId}] /\ sessid \in [Item -> Id \cup {NoId}]
    /\ tmTimer \in [Item -> BOOLEAN]
    /\ net \subseteq Datagram
    /\ SessionOwned /\ WaitingHasTimer /\ DatagramsCurrent

(* The parts of AddressedInv that relate sessions, timers and states. *)
LEMMA AgreeHolds == AddressedInv => Agree
BY DEF AddressedInv, Agree, TypeOK

(* An item that does not wait has no session to close. *)
LEMMA NothingToClose ==
    ASSUME AddressedInv, NEW i \in Item, sessid[i] = NoId
    PROVE  Closed(sessid[i], sess) = sess
BY SnmpAssumption DEF AddressedInv, TypeOK, Closed

(* snmp_send_packet after the previous request was closed, if there was one. *)
LEMMA SendKeeps ==
    ASSUME Agree, NEW i \in known, known \subseteq Item, known' = known,
           NEW others \in SUBSET net, SendPacket(i, Closed(sessid[i], sess), others)
    PROVE  /\ Agree'
           /\ sessid'[i] # NoId
           /\ \A j \in Item : j # i => sessid'[j] = sessid[j] /\ tmTimer'[j] = tmTimer[j]
<1> USE SnmpAssumption
<1>1. PICK k \in Id :
        /\ sess[k] = NoId
        /\ sess' = [Closed(sessid[i], sess) EXCEPT ![k] = i]
        /\ sessid' = [sessid EXCEPT ![i] = k]
        /\ tmTimer' = [tmTimer EXCEPT ![i] = TRUE]
        /\ net' = {m \in others : m.id # k} \cup {[id |-> k, item |-> i, cur |-> TRUE]}
    BY DEF SendPacket
<1>2. /\ sess' \in [Id -> Item \cup {NoId}] /\ sessid' \in [Item -> Id \cup {NoId}]
      /\ tmTimer' \in [Item -> BOOLEAN]
    BY <1>1 DEF Agree, Closed
<1>3. net' \subseteq Datagram
  <2>1. [id |-> k, item |-> i, cur |-> TRUE] \in Datagram
    BY DEF Datagram
  <2>2. net \subseteq Datagram
    BY DEF Agree
  <2> QED
    BY <1>1, <2>1, <2>2
<1>4. \A x \in Id : sess'[x] = IF x = k THEN i ELSE IF x = sessid[i] THEN NoId ELSE sess[x]
    BY <1>1 DEF Agree, Closed
<1>5. \A j \in Item : sessid'[j] = IF j = i THEN k ELSE sessid[j]
    BY <1>1 DEF Agree
<1>6. \A j \in Item : tmTimer'[j] = IF j = i THEN TRUE ELSE tmTimer[j]
    BY <1>1 DEF Agree
<1>7. SessionOwned'
  <2> SUFFICES ASSUME NEW x \in Id, sess'[x] # NoId
               PROVE  sess'[x] \in known' /\ sessid'[sess'[x]] = x
    BY DEF SessionOwned, Sessions
  <2>1. CASE x = k
    BY <2>1, <1>4, <1>5
  <2>2. CASE x # k
    <3>1. x # sessid[i] /\ sess'[x] = sess[x]
      BY <2>2, <1>4
    <3>2. sess[x] \in known /\ sessid[sess[x]] = x
      BY <3>1 DEF Agree, SessionOwned, Sessions
    <3> QED
      BY <3>1, <3>2, <1>5
  <2> QED
    BY <2>1, <2>2
<1>8. WaitingHasTimer'
  <2> SUFFICES ASSUME NEW j \in Item
               PROVE  /\ sessid'[j] # NoId => j \in known' /\ tmTimer'[j] /\ sess'[sessid'[j]] = j
                      /\ tmTimer'[j] => sessid'[j] # NoId
    BY DEF WaitingHasTimer
  <2>1. CASE j = i
    BY <2>1, <1>4, <1>5, <1>6, ZenonT(60)
  <2>2. CASE j # i
    <3>1. sessid'[j] = sessid[j] /\ tmTimer'[j] = tmTimer[j]
      BY <2>2, <1>5, <1>6
    <3>2. sessid[j] # NoId => sess[sessid[j]] = j /\ sessid[j] \in Id
      BY DEF Agree, WaitingHasTimer
    <3>3. sessid[i] # NoId => sess[sessid[i]] = i
      BY DEF Agree, WaitingHasTimer
    <3>4. sessid[j] # NoId => sess'[sessid[j]] = j
      BY <2>2, <3>2, <3>3, <1>1, <1>4
    <3> QED
      BY <3>1, <3>4 DEF Agree, WaitingHasTimer
  <2> QED
    BY <2>1, <2>2
<1>9. DatagramsCurrent'
  <2> SUFFICES ASSUME NEW m \in net', sess'[m.id] # NoId
               PROVE  m.cur /\ m.item = sess'[m.id]
    BY DEF DatagramsCurrent
  <2>1. CASE m = [id |-> k, item |-> i, cur |-> TRUE]
    BY <2>1, <1>4
  <2>2. CASE m \in others /\ m.id # k
    <3>1. m \in net /\ m.id \in Id
      BY <2>2 DEF Agree, Datagram
    <3>2. sess[m.id] # NoId /\ sess'[m.id] = sess[m.id]
      BY <2>2, <3>1, <1>4
    <3> QED
      BY <3>1, <3>2 DEF Agree, DatagramsCurrent
  <2> QED
    BY <1>1, <2>1, <2>2
<1> QED
    BY <1>2, <1>3, <1>5, <1>6, <1>7, <1>8, <1>9 DEF Agree

(* The end of a request: its session is closed, its timer is off. *)
LEMMA EndKeeps ==
    ASSUME Agree, NEW i \in Item, known \subseteq Item, known' = known, net' \subseteq net,
           sess' = Closed(sessid[i], sess),
           sessid' = [sessid EXCEPT ![i] = NoId],
           tmTimer' = [tmTimer EXCEPT ![i] = FALSE]
    PROVE  /\ Agree'
           /\ sessid'[i] = NoId /\ ~tmTimer'[i]
           /\ \A j \in Item : j # i => sessid'[j] = sessid[j] /\ tmTimer'[j] = tmTimer[j]
<1> USE SnmpAssumption
<1>1. /\ sess' \in [Id -> Item \cup {NoId}] /\ sessid' \in [Item -> Id \cup {NoId}]
      /\ tmTimer' \in [Item -> BOOLEAN] /\ net' \subseteq Datagram
    BY DEF Agree, Closed
<1>2. \A x \in Id : sess'[x] = IF x = sessid[i] THEN NoId ELSE sess[x]
    BY DEF Agree, Closed
<1>3. \A j \in Item : sessid'[j] = IF j = i THEN NoId ELSE sessid[j]
    BY DEF Agree
<1>4. \A j \in Item : tmTimer'[j] = IF j = i THEN FALSE ELSE tmTimer[j]
    BY DEF Agree
<1>5. SessionOwned'
    BY <1>2, <1>3 DEF Agree, SessionOwned, Sessions, WaitingHasTimer
<1>6. WaitingHasTimer'
    BY <1>2, <1>3, <1>4 DEF Agree, WaitingHasTimer
<1>7. DatagramsCurrent'
    BY <1>2 DEF Agree, DatagramsCurrent, Datagram
<1> QED
    BY <1>1, <1>3, <1>4, <1>5, <1>6, <1>7 DEF Agree

-----------------------------------------------------------------------------
(* item_poll_cb starts a request for an item that has none. *)
LEMMA StartPollStep ==
    ASSUME AddressedInv, NEW i \in Item, StartPoll(i)
    PROVE  AddressedInv'
<1> USE SnmpAssumption, AgreeHolds
<1>1. i \in known /\ known \subseteq Item /\ known' = known
    BY DEF AddressedInv, TypeOK, ArmedIsKnown, StartPoll
<1>2. /\ dns' = dns /\ stale' = stale
      /\ retries' = [retries EXCEPT ![i] = 0]
      /\ pollTimer' = [pollTimer EXCEPT ![i] = i \notin BadDelay]
    BY DEF StartPoll, SendRequest, Rearm
<1>3. /\ NoLookups' /\ NoStaleResult' /\ NeverForgotten' /\ ArmedIsKnown'
    BY <1>1, <1>2 DEF AddressedInv, TypeOK, NoLookups, NoStaleResult, NeverForgotten, ArmedIsKnown
<1>4. i \notin WalkItem => sessid[i] = NoId
    BY DEF AddressedInv, PollingIsWaiting, StartPoll
<1>5. i \in WalkItem /\ ~walking[i] => sessid[i] = NoId
    BY DEF AddressedInv, WaitingHasTimer, OpenWalkHasData
<1>6. Agree' /\ OpenWalkHasData' /\ PollingIsWaiting'
      /\ walking' \in [Item -> BOOLEAN] /\ state' \in [Item -> {"queued", "polling"}]
  <2>1. CASE i \notin WalkItem /\ SendPacket(i, sess, net) /\ state' = [state EXCEPT ![i] = "polling"]
    <3>1. SendPacket(i, Closed(sessid[i], sess), net)
      BY <2>1, <1>4, NothingToClose
    <3>2. /\ Agree' /\ sessid'[i] # NoId
          /\ \A j \in Item : j # i => sessid'[j] = sessid[j] /\ tmTimer'[j] = tmTimer[j]
      BY <3>1, <1>1, SendKeeps
    <3>3. walking' = walking
      BY <2>1 DEF StartPoll, SendRequest
    <3> QED
      BY <2>1, <3>2, <3>3 DEF AddressedInv, TypeOK, OpenWalkHasData, PollingIsWaiting
  <2>2. CASE i \notin WalkItem /\ SendNothing(i, sess, net) /\ state' = [state EXCEPT ![i] = "queued"]
    <3>1. walking' = walking
      BY <2>2 DEF StartPoll, SendRequest
    <3>2. Agree'
      BY <2>2, <1>1 DEF SendNothing, Agree, SessionOwned, Sessions, WaitingHasTimer, DatagramsCurrent
    <3> QED
      BY <2>2, <3>1, <3>2, <1>4 DEF AddressedInv, TypeOK, OpenWalkHasData, PollingIsWaiting, SendNothing
  <2>3. CASE i \in WalkItem /\ SendPacket(i, sess, net) /\ ~walking[i]
             /\ walking' = [walking EXCEPT ![i] = TRUE] /\ state' = [state EXCEPT ![i] = "polling"]
    <3>1. SendPacket(i, Closed(sessid[i], sess), net)
      BY <2>3, <1>5, NothingToClose
    <3>2. /\ Agree' /\ sessid'[i] # NoId
          /\ \A j \in Item : j # i => sessid'[j] = sessid[j] /\ tmTimer'[j] = tmTimer[j]
      BY <3>1, <1>1, SendKeeps
    <3> QED
      BY <2>3, <3>2 DEF AddressedInv, TypeOK, OpenWalkHasData, PollingIsWaiting
  <2>4. CASE i \in WalkItem /\ SendNothing(i, sess, net) /\ walking' = walking
             /\ state' \in [Item -> {"queued", "polling"}]
             /\ \A j \in Item : j # i => state'[j] = state[j]
    <3>1. Agree'
      BY <2>4, <1>1 DEF SendNothing, Agree, SessionOwned, Sessions, WaitingHasTimer, DatagramsCurrent
    <3> QED
      BY <2>4, <3>1 DEF AddressedInv, TypeOK, OpenWalkHasData, PollingIsWaiting, SendNothing
  <2>5. i \notin WalkItem => GetRequest(i, "polling")
    BY DEF StartPoll, SendRequest
  <2>6. i \in WalkItem => WalkRequest(i, "polling")
    BY DEF StartPoll, SendRequest
  <2>7. CASE i \notin WalkItem
    BY <2>1, <2>2, <2>5, <2>7 DEF GetRequest
  <2>8. CASE i \in WalkItem
    <3>1. ~walking[i] => Closed(sessid[i], sess) = sess
      BY <1>5, <2>8, NothingToClose
    <3> QED
      BY <2>3, <2>4, <2>6, <2>8, <3>1 DEF WalkRequest, AddressedInv, TypeOK
  <2> QED
    BY <2>7, <2>8
<1>7. TypeOK'
  <2>1. retries' \in [Item -> 0 .. MaxRetries] /\ pollTimer' \in [Item -> BOOLEAN]
    BY <1>2 DEF AddressedInv, TypeOK
  <2> QED
    BY <2>1, <1>1, <1>2, <1>6 DEF AddressedInv, TypeOK, Agree
<1> QED
    BY <1>3, <1>6, <1>7 DEF AddressedInv, Agree

(* timeout_event_cb: the item that waits gives up or asks again. *)
LEMMA TimeoutStep ==
    ASSUME AddressedInv, NEW i \in Item, Timeout(i)
    PROVE  AddressedInv'
<1> USE SnmpAssumption, AgreeHolds
<1>1. i \in known /\ sessid[i] # NoId /\ known \subseteq Item /\ known' = known
    BY DEF AddressedInv, TypeOK, WaitingHasTimer, Timeout
<1>2. dns' = dns /\ stale' = stale /\ pollTimer' = pollTimer
    BY DEF Timeout
<1>3. NoLookups' /\ NoStaleResult' /\ NeverForgotten' /\ ArmedIsKnown'
    BY <1>1, <1>2 DEF AddressedInv, NoLookups, NoStaleResult, NeverForgotten, ArmedIsKnown
<1>5. retries' \in [Item -> 0 .. MaxRetries]
    BY DEF AddressedInv, TypeOK, Timeout
<1>6. Agree' /\ OpenWalkHasData' /\ PollingIsWaiting'
      /\ walking' \in [Item -> BOOLEAN] /\ state' \in [Item -> {"queued", "polling"}]
  <2>1. CASE /\ sess' = Closed(sessid[i], sess) /\ net' = net
             /\ sessid' = [sessid EXCEPT ![i] = NoId]
             /\ tmTimer' = [tmTimer EXCEPT ![i] = FALSE]
             /\ state' = [state EXCEPT ![i] = "queued"]
             /\ walking' = [walking EXCEPT ![i] = FALSE] \/ (i \notin WalkItem /\ walking' = walking)
    <3>1. /\ Agree' /\ sessid'[i] = NoId /\ ~tmTimer'[i]
          /\ \A j \in Item : j # i => sessid'[j] = sessid[j] /\ tmTimer'[j] = tmTimer[j]
      BY <2>1, <1>1, EndKeeps
    <3> QED
      BY <2>1, <3>1 DEF AddressedInv, TypeOK, OpenWalkHasData, PollingIsWaiting
  <2>2. CASE SendPacket(i, Closed(sessid[i], sess), net) /\ UNCHANGED <<state, walking>>
    <3>1. /\ Agree' /\ sessid'[i] # NoId
          /\ \A j \in Item : j # i => sessid'[j] = sessid[j] /\ tmTimer'[j] = tmTimer[j]
      BY <2>2, <1>1, SendKeeps
    <3>2. i \in WalkItem => walking[i]
      BY DEF AddressedInv, OpenWalkHasData, Timeout
    <3> QED
      BY <2>2, <3>1, <3>2, <1>1 DEF AddressedInv, TypeOK, OpenWalkHasData, PollingIsWaiting
  <2> QED
    BY <2>1, <2>2 DEF Timeout
<1>7. TypeOK'
    BY <1>1, <1>2, <1>5, <1>6 DEF AddressedInv, TypeOK, Agree
<1> QED
    BY <1>3, <1>6, <1>7 DEF AddressedInv, Agree

(* process_result: an answer is dropped, ends the poll, or goes on with the *)
(* walk.                                                                    *)
LEMMA AnswerStep ==
    ASSUME AddressedInv, NEW m \in net, Answer(m)
    PROVE  AddressedInv'
<1> USE SnmpAssumption, AgreeHolds
<1>1. m \in Datagram /\ m.id \in Id
    BY DEF AddressedInv, TypeOK, Datagram
<1>2. PICK others \in {net, net \ {m}} :
         IF sess[m.id] = NoId
         THEN /\ net' = others
              /\ UNCHANGED <<itemVars, sess, dns, stale>>
         ELSE IF sess[m.id] \notin known
         THEN /\ net' = others
              /\ sess' = Closed(m.id, sess)
              /\ UNCHANGED <<itemVars, dns, stale>>
         ELSE /\ Accepted(sess[m.id], Closed(m.id, sess), others)
              /\ stale' = (stale \/ ~m.cur)
              /\ UNCHANGED <<known, pollTimer, dns>>
    BY DEF Answer
<1>3. CASE sess[m.id] = NoId
    BY <1>2, <1>3 DEF itemVars, AddressedInv, TypeOK, SessionOwned, Sessions, WaitingHasTimer,
        PollingIsWaiting, OpenWalkHasData, NeverForgotten, NoStaleResult, ArmedIsKnown, NoLookups,
        DatagramsCurrent
<1>4. CASE sess[m.id] # NoId
  <2> DEFINE i == sess[m.id]
  <2>1. i \in known /\ i \in Item /\ known \subseteq Item /\ sessid[i] = m.id /\ m.cur
    BY <1>1, <1>4 DEF AddressedInv, TypeOK, SessionOwned, Sessions, DatagramsCurrent
  <2>2. /\ Accepted(i, Closed(sessid[i], sess), others)
        /\ known' = known /\ pollTimer' = pollTimer /\ dns' = dns /\ stale' = (stale \/ ~m.cur)
    BY <1>2, <1>4, <2>1
  <2> HIDE DEF i
  <2>3. NoLookups' /\ NoStaleResult' /\ NeverForgotten' /\ ArmedIsKnown'
    BY <2>1, <2>2 DEF AddressedInv, NoLookups, NoStaleResult, NeverForgotten, ArmedIsKnown
  <2>4. retries' \in [Item -> 0 .. MaxRetries]
    BY <2>1, <2>2 DEF AddressedInv, TypeOK, Accepted
  <2>5. Agree' /\ OpenWalkHasData' /\ PollingIsWaiting'
        /\ walking' \in [Item -> BOOLEAN] /\ state' \in [Item -> {"queued", "polling"}]
    <3>1. CASE /\ sess' = Closed(sessid[i], sess) /\ net' = others
               /\ sessid' = [sessid EXCEPT ![i] = NoId]
               /\ tmTimer' = [tmTimer EXCEPT ![i] = FALSE]
               /\ walking' = [walking EXCEPT ![i] = FALSE]
               /\ state' = [state EXCEPT ![i] = "queued"]
      <4>1. /\ Agree' /\ sessid'[i] = NoId /\ ~tmTimer'[i]
            /\ \A j \in Item : j # i => sessid'[j] = sessid[j] /\ tmTimer'[j] = tmTimer[j]
        BY <3>1, <2>1, <2>2, EndKeeps
      <4> QED
        BY <2>1, <3>1, <4>1 DEF AddressedInv, TypeOK, OpenWalkHasData, PollingIsWaiting
    <3>2. CASE /\ i \in WalkItem /\ walking[i]
               /\ SendPacket(i, Closed(sessid[i], sess), others)
               /\ UNCHANGED <<walking, state>>
      <4>1. /\ Agree' /\ sessid'[i] # NoId
            /\ \A j \in Item : j # i => sessid'[j] = sessid[j] /\ tmTimer'[j] = tmTimer[j]
        BY <3>2, <2>1, <2>2, SendKeeps
      <4> QED
        BY <3>2, <4>1 DEF AddressedInv, TypeOK, OpenWalkHasData, PollingIsWaiting
    <3> QED
      BY <2>2, <3>1, <3>2 DEF Accepted
  <2>6. stale' = FALSE
    BY <2>1, <2>2 DEF AddressedInv, TypeOK, NoStaleResult
  <2>7. TypeOK'
    BY <2>1, <2>2, <2>4, <2>5, <2>6 DEF AddressedInv, TypeOK, Agree
  <2> QED
    BY <2>3, <2>5, <2>7 DEF AddressedInv, Agree
<1> QED
    BY <1>3, <1>4

(* Every step keeps the invariant when no item has to be looked up. *)
LEMMA NextInv ==
    ASSUME AddressedInv, Addressed, [Next]_vars
    PROVE  AddressedInv'
<1> USE SnmpAssumption
<1>1. CASE UNCHANGED vars
    BY <1>1 DEF vars, itemVars, AddressedInv, TypeOK, SessionOwned, Sessions, WaitingHasTimer,
        PollingIsWaiting, OpenWalkHasData, NeverForgotten, NoStaleResult, ArmedIsKnown, NoLookups,
        DatagramsCurrent
<1>2. ASSUME NEW i \in Item, PollDisabled(i)
      PROVE  AddressedInv'
    BY <1>2 DEF PollDisabled, Rearm, AddressedInv, TypeOK, SessionOwned, Sessions, WaitingHasTimer,
        PollingIsWaiting, OpenWalkHasData, NeverForgotten, NoStaleResult, ArmedIsKnown, NoLookups,
        DatagramsCurrent
<1>3. ASSUME NEW i \in Item, LostItem(i)
      PROVE  AddressedInv'
  <2>1. state' \in [Item -> {"queued", "polling"}]
    BY <1>3 DEF AddressedInv, TypeOK, LostItem
  <2>2. PollingIsWaiting'
    BY <1>3 DEF AddressedInv, TypeOK, WaitingHasTimer, PollingIsWaiting, LostItem
  <2> QED
    BY <1>3, <2>1, <2>2 DEF LostItem, AddressedInv, TypeOK, SessionOwned, Sessions, WaitingHasTimer,
        OpenWalkHasData, NeverForgotten, NoStaleResult, ArmedIsKnown, NoLookups, DatagramsCurrent
<1>4. ASSUME NEW m \in net, Lose(m)
      PROVE  AddressedInv'
    BY <1>4 DEF Lose, itemVars, AddressedInv, TypeOK, SessionOwned, Sessions, WaitingHasTimer,
        PollingIsWaiting, OpenWalkHasData, NeverForgotten, NoStaleResult, ArmedIsKnown, NoLookups,
        DatagramsCurrent
<1>5. \A i \in Item : ~StartLookup(i)
    BY DEF Addressed, StartLookup
<1>6. \A i \in Item, c \in {"cur", "old"} : ~LookupFailed(i, c) /\ ~LookupReady(i, c)
  <2> TAKE i \in Item, c \in {"cur", "old"}
  <2>1. dns[i] = [cur |-> 0, old |-> 0]
    BY DEF AddressedInv, NoLookups
  <2>2. dns[i][c] = 0
    BY <2>1
  <2>3. ~Looked(i, c)
    BY <2>2 DEF Looked
  <2> QED
    BY <2>3 DEF LookupFailed, LookupReady
<1>7. \A i \in Item : PollDelayed(i) => UNCHANGED vars
    BY DEF PollDelayed
<1> QED
    BY <1>1, <1>2, <1>3, <1>4, <1>5, <1>6, <1>7, ConfigStep, StartPollStep, TimeoutStep, AnswerStep
    DEF Next

(* The session table, the timers and the states of the items agree, in      *)
(* every poller whose items have addresses.                                 *)
THEOREM SnmpInvariant == Addressed /\ Spec => []AddressedInv
<1>1. Addressed /\ AddressedInv /\ [Next]_vars => AddressedInv'
    BY NextInv
<1>2. Addressed => Addressed'
    BY DEF Addressed
<1> QED
    BY InitInv, <1>1, <1>2, PTL DEF Spec

(* No session is ever left behind by poller_sessions.c and its callers, in  *)
(* a poller whose items have addresses.                                     *)
THEOREM NoSessionLeak == Addressed /\ Spec => []SessionOwned
<1>1. AddressedInv => SessionOwned
    BY DEF AddressedInv
<1> QED
    BY <1>1, SnmpInvariant, PTL

(* A request that waits has its timeout armed, and only such a request, in  *)
(* a poller whose items have addresses.                                     *)
THEOREM RequestsTimeOut == Addressed /\ Spec => []WaitingHasTimer
<1>1. AddressedInv => WaitingHasTimer
    BY DEF AddressedInv
<1> QED
    BY <1>1, SnmpInvariant, PTL

(* An answer to a request of a previous configuration of the item is never  *)
(* used for the present one, in a poller whose items have addresses.        *)
THEOREM AnswersAreCurrent == Addressed /\ Spec => []NoStaleResult
<1>1. AddressedInv => NoStaleResult
    BY DEF AddressedInv
<1> QED
    BY <1>1, SnmpInvariant, PTL

-----------------------------------------------------------------------------
(* The limit on sessions. *)
Bounded == IsFiniteSet(Sessions) /\ Cardinality(Sessions) <= MaxSessions + 1

(* Closing sessions keeps the limit. *)
LEMMA FewerSessions ==
    ASSUME Bounded, Sessions' \subseteq Sessions
    PROVE  Bounded'
<1>1. /\ IsFiniteSet(Sessions') /\ Cardinality(Sessions') <= Cardinality(Sessions)
      /\ Cardinality(Sessions) \in Nat
    BY FS_Subset, FS_CardinalityType DEF Bounded
<1>2. Cardinality(Sessions') \in Nat
    BY <1>1, FS_CardinalityType
<1> QED
    BY <1>1, <1>2, SnmpAssumption DEF Bounded

(* snmp_send_packet opens one session: the limit is kept when it was looked *)
(* at, or when the item's previous session is closed.                       *)
LEMMA SendBounded ==
    ASSUME AddressedInv, Bounded, NEW i \in Item, NEW others,
           SendPacket(i, Closed(sessid[i], sess), others),
           Cardinality(Sessions) <= MaxSessions \/ sessid[i] # NoId
    PROVE  Bounded'
<1>1. PICK k \in Id : sess[k] = NoId /\ sess' = [Closed(sessid[i], sess) EXCEPT ![k] = i]
    BY DEF SendPacket
<1>2. Sessions' = (Sessions \ {sessid[i]}) \cup {k}
    BY <1>1, SnmpAssumption DEF AddressedInv, TypeOK, Sessions, Closed
<1>3. sessid[i] # NoId => sessid[i] \in Sessions
    BY SnmpAssumption DEF AddressedInv, TypeOK, WaitingHasTimer, Sessions
<1> DEFINE S == Sessions \ {sessid[i]}
<1>4. /\ IsFiniteSet(S) /\ Cardinality(S) \in Nat /\ Cardinality(Sessions) \in Nat
      /\ Cardinality(S) = IF sessid[i] \in Sessions THEN Cardinality(Sessions) - 1 ELSE Cardinality(Sessions)
    BY FS_RemoveElement, FS_CardinalityType DEF Bounded
<1>5. /\ IsFiniteSet(S \cup {k}) /\ Cardinality(S \cup {k}) <= Cardinality(S) + 1
  <2> HIDE DEF S
  <2>1. /\ IsFiniteSet(S \cup {k})
        /\ Cardinality(S \cup {k}) = IF k \in S THEN Cardinality(S) ELSE Cardinality(S) + 1
    BY <1>4, FS_AddElement
  <2> QED
    BY <1>4, <2>1
<1>6. IsFiniteSet(Sessions') /\ Cardinality(Sessions') <= Cardinality(S) + 1 /\ Cardinality(Sessions') \in Nat
    BY <1>2, <1>5, FS_CardinalityType
<1> QED
    BY <1>3, <1>4, <1>6, SnmpAssumption DEF Bounded

(* Every step of a poller whose items have addresses keeps the limit: only  *)
(* StartPoll adds a session, and it looks at the limit.                     *)
LEMMA NextBounded ==
    ASSUME AddressedInv, Bounded, Addressed, [Next]_vars
    PROVE  Bounded'
<1>1. CASE sess' = sess
    BY <1>1 DEF Bounded, Sessions
<1>2. ASSUME NEW k, sess' = Closed(k, sess) PROVE Bounded'
  <2>1. Sessions' \subseteq Sessions
    BY <1>2 DEF Sessions, Closed
  <2> QED
    BY <2>1, FewerSessions
<1>3. ASSUME NEW i \in Item, StartPoll(i) PROVE Bounded'
  <2>1. Cardinality(Sessions) <= MaxSessions
    BY <1>3 DEF StartPoll
  <2>2. CASE SendPacket(i, sess, net) /\ (i \in WalkItem => ~walking[i])
    <3>1. sessid[i] = NoId
      BY <1>3, <2>2 DEF AddressedInv, PollingIsWaiting, OpenWalkHasData, WaitingHasTimer, StartPoll
    <3>2. Closed(sessid[i], sess) = sess
      BY <3>1, NothingToClose
    <3> QED
      BY <2>1, <2>2, <3>2, SendBounded
  <2>3. SendNothing(i, sess, net) => sess' = sess
    BY DEF SendNothing
  <2>4. SendNothing(i, Closed(sessid[i], sess), net) => sess' = Closed(sessid[i], sess)
    BY DEF SendNothing
  <2> QED
    BY <1>1, <1>2, <1>3, <2>2, <2>3, <2>4 DEF StartPoll, SendRequest, GetRequest, WalkRequest
<1>4. ASSUME NEW i \in Item, Timeout(i) PROVE Bounded'
  <2>1. sessid[i] # NoId
    BY <1>4 DEF AddressedInv, WaitingHasTimer, Timeout
  <2> QED
    BY <1>2, <1>4, <2>1, SendBounded DEF Timeout
<1>5. ASSUME NEW m \in net, Answer(m) PROVE Bounded'
  <2>1. m.id \in Id
    BY DEF AddressedInv, TypeOK, Datagram
  <2>2. PICK others \in {net, net \ {m}} :
           \/ sess' = sess
           \/ sess' = Closed(m.id, sess)
           \/ sess[m.id] # NoId /\ Accepted(sess[m.id], Closed(m.id, sess), others)
    BY <1>5 DEF Answer
  <2>3. CASE sess[m.id] # NoId /\ Accepted(sess[m.id], Closed(m.id, sess), others)
    <3>1. sess[m.id] \in Item /\ sessid[sess[m.id]] = m.id /\ m.id # NoId
      BY <2>1, <2>3, SnmpAssumption DEF AddressedInv, TypeOK, SessionOwned, Sessions
    <3>2. CASE sess' = Closed(m.id, sess)
      BY <1>2, <3>2
    <3>3. CASE SendPacket(sess[m.id], Closed(m.id, sess), others)
      BY <3>1, <3>3, SendBounded
    <3> QED
      BY <2>3, <3>2, <3>3 DEF Accepted
  <2> QED
    BY <1>1, <1>2, <2>2, <2>3
<1>6. ASSUME NEW i \in Item, CreateItem(i) \/ DeleteItem(i) PROVE Bounded'
    BY <1>2, <1>6 DEF CreateItem, DeleteItem, Forget
<1>7. \A i \in Item : PollDelayed(i) \/ PollDisabled(i) \/ LostItem(i) => sess' = sess
    BY DEF PollDelayed, PollDisabled, LostItem, vars
<1>8. \A m \in net : Lose(m) => sess' = sess
    BY DEF Lose
<1>9. \A i \in Item : ~StartLookup(i) /\ \A c \in {"cur", "old"} : ~LookupFailed(i, c) /\ ~LookupReady(i, c)
  <2> TAKE i \in Item
  <2>1. dns[i].cur = 0 /\ dns[i].old = 0
    BY DEF AddressedInv, NoLookups
  <2> QED
    BY <2>1 DEF Addressed, StartLookup, LookupFailed, LookupReady, Looked
<1> QED
    BY <1>1, <1>3, <1>4, <1>5, <1>6, <1>7, <1>8, <1>9 DEF Next, vars

(* The limit of item_poll_cb is exceeded by one session at most, although   *)
(* retries and walks do not look at it, in a poller whose items have        *)
(* addresses.                                                               *)
THEOREM SessionLimit == Addressed /\ Spec => []SessionsBounded
<1>1. Init => Bounded
  <2> SUFFICES ASSUME Init PROVE Bounded
    OBVIOUS
  <2>1. Sessions = {}
    BY DEF Init, Sessions
  <2> QED
    BY <2>1, FS_EmptySet, SnmpAssumption DEF Bounded
<1>2. AddressedInv /\ Bounded /\ Addressed /\ [Next]_vars => Bounded'
    BY NextBounded
<1>3. Bounded => SessionsBounded
    BY DEF Bounded, SessionsBounded
<1>4. Addressed => Addressed'
    BY DEF Addressed
<1> QED
    BY <1>1, <1>2, <1>3, <1>4, SnmpInvariant, PTL DEF Spec

-----------------------------------------------------------------------------
(* What a request does, for any item and any session table of the right     *)
(* type: the types stay, and a walk that waits has its data.                *)
Fields ==
    /\ sess \in [Id -> Item \cup {NoId}] /\ sessid \in [Item -> Id \cup {NoId}]
    /\ tmTimer \in [Item -> BOOLEAN] /\ walking \in [Item -> BOOLEAN]
    /\ state \in [Item -> {"queued", "polling"}] /\ net \subseteq Datagram
    /\ OpenWalkHasData

(* A request leaves the tables typed. *)
LEMMA SendFields ==
    ASSUME Fields, NEW i \in Item, NEW tab \in [Id -> Item \cup {NoId}], NEW others \in SUBSET Datagram,
           SendPacket(i, tab, others)
    PROVE  /\ sess' \in [Id -> Item \cup {NoId}] /\ sessid' \in [Item -> Id \cup {NoId}]
           /\ tmTimer' = [tmTimer EXCEPT ![i] = TRUE] /\ net' \subseteq Datagram
<1>1. PICK k \in Id :
        /\ sess' = [tab EXCEPT ![k] = i] /\ sessid' = [sessid EXCEPT ![i] = k]
        /\ tmTimer' = [tmTimer EXCEPT ![i] = TRUE]
        /\ net' = {m \in others : m.id # k} \cup {[id |-> k, item |-> i, cur |-> TRUE]}
    BY DEF SendPacket
<1>2. [id |-> k, item |-> i, cur |-> TRUE] \in Datagram
    BY DEF Datagram
<1> QED
    BY <1>1, <1>2 DEF Fields

(* Closing a session leaves a table of sessions. *)
LEMMA ClosedType ==
    ASSUME NEW k, NEW tab \in [Id -> Item \cup {NoId}]
    PROVE  Closed(k, tab) \in [Id -> Item \cup {NoId}]
BY DEF Closed

(* snmp_send_request *)
LEMMA RequestFields ==
    ASSUME Fields, NEW i \in Item, NEW st \in {"queued", "polling"}, SendRequest(i, st)
    PROVE  Fields'
<1>1. net \subseteq Datagram /\ sess \in [Id -> Item \cup {NoId}]
    BY DEF Fields
<1>2. CASE /\ SendPacket(i, sess, net) /\ state' = [state EXCEPT ![i] = st]
           /\ \/ i \notin WalkItem /\ walking' = walking
              \/ walking' = [walking EXCEPT ![i] = TRUE]
  <2>1. /\ sess' \in [Id -> Item \cup {NoId}] /\ sessid' \in [Item -> Id \cup {NoId}]
        /\ tmTimer' = [tmTimer EXCEPT ![i] = TRUE] /\ net' \subseteq Datagram
    BY <1>1, <1>2, SendFields
  <2> QED
    BY <1>2, <2>1, SnmpAssumption DEF Fields, OpenWalkHasData
<1>3. CASE /\ \E tab \in {sess, Closed(sessid[i], sess)} : SendNothing(i, tab, net)
           /\ walking' = walking /\ \E s \in {"queued", st} : state' = [state EXCEPT ![i] = s]
  <2>1. sess' \in [Id -> Item \cup {NoId}]
    BY <1>1, <1>3, ClosedType DEF SendNothing
  <2>2. sessid' = sessid /\ tmTimer' = tmTimer /\ net' = net
    BY <1>3 DEF SendNothing
  <2> QED
    BY <1>3, <2>1, <2>2 DEF Fields, OpenWalkHasData
<1> QED
    BY <1>2, <1>3 DEF SendRequest, GetRequest, WalkRequest

(* The invariant of every poller. *)
LEMMA GeneralInit == Init => GeneralInv
<1> SUFFICES ASSUME Init PROVE GeneralInv
    OBVIOUS
<1>1. TypeOK /\ OpenWalkHasData /\ NeverForgotten
    BY InitInv DEF AddressedInv
<1>2. \A i \in Item : Lookups(i) <= MaxLookups
    BY SnmpAssumption DEF Init, Lookups
<1> QED
    BY <1>1, <1>2 DEF GeneralInv

(* Lookups begin and end within their bound. *)
LEMMA LookupCounts ==
    ASSUME GeneralInv, NEW i \in Item,
           \/ Lookups(i) < MaxLookups /\ dns' = [dns EXCEPT ![i].cur = @ + 1]
           \/ \E c \in {"cur", "old"} : Looked(i, c)
           \/ dns' = [dns EXCEPT ![i] = [cur |-> 0, old |-> Lookups(i)]]
           \/ dns' = dns
    PROVE  /\ dns' \in [Item -> [cur : 0 .. MaxLookups, old : 0 .. MaxLookups]]
           /\ (\A j \in Item : Lookups(j) <= MaxLookups)'
<1>1. /\ dns \in [Item -> [cur : 0 .. MaxLookups, old : 0 .. MaxLookups]]
      /\ \A j \in Item : dns[j].cur + dns[j].old <= MaxLookups
    BY DEF GeneralInv, TypeOK, Lookups
<1>2. CASE Lookups(i) < MaxLookups /\ dns' = [dns EXCEPT ![i].cur = @ + 1]
    BY <1>1, <1>2, SnmpAssumption DEF Lookups
<1>3. CASE Looked(i, "cur")
    BY <1>1, <1>3, SnmpAssumption DEF Lookups, Looked
<1>4. CASE Looked(i, "old")
    BY <1>1, <1>4, SnmpAssumption DEF Lookups, Looked
<1>5. CASE dns' = [dns EXCEPT ![i] = [cur |-> 0, old |-> Lookups(i)]]
    BY <1>1, <1>5, SnmpAssumption DEF Lookups
<1>6. CASE dns' = dns
    BY <1>1, <1>6 DEF Lookups
<1> QED
    BY <1>2, <1>3, <1>4, <1>5, <1>6

(* Every step of every poller keeps it. *)
LEMMA GeneralNext ==
    ASSUME GeneralInv, [Next]_vars
    PROVE  GeneralInv'
<1> USE SnmpAssumption
<1>1. Fields /\ known \subseteq Item
    BY DEF GeneralInv, TypeOK, Fields
<1>2. CASE UNCHANGED vars
    BY <1>2 DEF vars, itemVars, GeneralInv, TypeOK, OpenWalkHasData, NeverForgotten, Lookups
<1>3. ASSUME NEW i \in Item, CreateItem(i) \/ DeleteItem(i) PROVE GeneralInv'
  <2>1. net' \subseteq Datagram
    <3>1. net' = {IF m.item = i THEN [m EXCEPT !.cur = FALSE] ELSE m : m \in net}
      BY <1>3 DEF CreateItem, DeleteItem, Forget
    <3> QED
      BY <1>1, <3>1, OldDatagram DEF Fields
  <2>2. dns' \in [Item -> [cur : 0 .. MaxLookups, old : 0 .. MaxLookups]]
        /\ (\A j \in Item : Lookups(j) <= MaxLookups)'
    BY <1>3, LookupCounts DEF CreateItem, DeleteItem, Forget
  <2>3. sess' \in [Id -> Item \cup {NoId}]
    BY <1>1, <1>3, ClosedType DEF CreateItem, DeleteItem, Forget, Fields
  <2>4. /\ sessid' = [sessid EXCEPT ![i] = NoId] /\ tmTimer' = [tmTimer EXCEPT ![i] = FALSE]
        /\ retries' = [retries EXCEPT ![i] = 0] /\ walking' = [walking EXCEPT ![i] = FALSE]
        /\ state' = [state EXCEPT ![i] = "queued"] /\ stale' = stale
        /\ \/ known' = known \cup {i} /\ pollTimer' = [pollTimer EXCEPT ![i] = TRUE]
           \/ known' = known \ {i} /\ pollTimer' = [pollTimer EXCEPT ![i] = FALSE]
    BY <1>3 DEF CreateItem, DeleteItem, Forget
  <2>5. retries' \in [Item -> 0 .. MaxRetries]
    BY <2>4 DEF GeneralInv, TypeOK
  <2>6. pollTimer' \in [Item -> BOOLEAN] /\ known' \subseteq Item /\ NeverForgotten'
    <3>1. CASE known' = known \cup {i} /\ pollTimer' = [pollTimer EXCEPT ![i] = TRUE]
      BY <3>1 DEF GeneralInv, TypeOK, NeverForgotten
    <3>2. CASE known' = known \ {i} /\ pollTimer' = [pollTimer EXCEPT ![i] = FALSE]
      BY <3>2 DEF GeneralInv, TypeOK, NeverForgotten
    <3> QED
      BY <2>4, <3>1, <3>2
  <2>7. OpenWalkHasData'
    BY <2>4 DEF GeneralInv, TypeOK, OpenWalkHasData
  <2> QED
    BY <2>1, <2>2, <2>3, <2>4, <2>5, <2>6, <2>7 DEF GeneralInv, TypeOK
<1>4. ASSUME NEW i \in Item, StartPoll(i) \/ StartLookup(i) \/ PollDisabled(i) PROVE GeneralInv'
  <2>1. /\ pollTimer' = [pollTimer EXCEPT ![i] = i \notin BadDelay] /\ known' = known /\ stale' = stale
        /\ retries' = [retries EXCEPT ![i] = 0] \/ retries' = retries
    BY <1>4 DEF StartPoll, StartLookup, PollDisabled, Rearm, SendRequest
  <2>2. Fields'
    <3>1. CASE StartPoll(i)
      BY <1>1, <3>1, RequestFields DEF StartPoll
    <3>2. CASE StartLookup(i) \/ PollDisabled(i)
      <4>1. UNCHANGED <<tmTimer, sessid, walking, sess, net>>
        BY <3>2 DEF StartLookup, PollDisabled
      <4>2. state' \in [Item -> {"queued", "polling"}]
        BY <1>1, <3>2 DEF StartLookup, PollDisabled, Fields
      <4> QED
        BY <1>1, <4>1, <4>2 DEF Fields, OpenWalkHasData
    <3> QED
      BY <1>4, <3>1, <3>2
  <2>3. dns' \in [Item -> [cur : 0 .. MaxLookups, old : 0 .. MaxLookups]]
        /\ (\A j \in Item : Lookups(j) <= MaxLookups)'
    BY <1>4, LookupCounts DEF StartPoll, StartLookup, PollDisabled
  <2>4. retries' \in [Item -> 0 .. MaxRetries]
    BY <2>1 DEF GeneralInv, TypeOK
  <2>5. pollTimer' \in [Item -> BOOLEAN] /\ NeverForgotten'
    BY <2>1 DEF GeneralInv, TypeOK, NeverForgotten
  <2> QED
    BY <2>1, <2>2, <2>3, <2>4, <2>5 DEF GeneralInv, TypeOK, Fields
<1>5. ASSUME NEW i \in Item, NEW c \in {"cur", "old"}, LookupFailed(i, c) \/ LookupReady(i, c)
      PROVE  GeneralInv'
  <2>1. /\ pollTimer' = pollTimer /\ known' = known /\ Looked(i, c)
        /\ retries' = [retries EXCEPT ![i] = 0] \/ retries' = retries
        /\ stale' = stale \/ stale' = (stale \/ c = "old")
    BY <1>5 DEF LookupFailed, LookupReady, SendRequest
  <2>2. Fields'
    <3>1. CASE LookupReady(i, c)
      <4>1. state[i] \in {"queued", "polling"}
        BY <1>1 DEF Fields
      <4> QED
        BY <1>1, <3>1, <4>1, RequestFields DEF LookupReady
    <3>2. CASE LookupFailed(i, c)
      <4>1. UNCHANGED <<tmTimer, sessid, walking, sess, net>>
        BY <3>2 DEF LookupFailed
      <4>2. state' \in [Item -> {"queued", "polling"}]
        BY <1>1, <3>2 DEF LookupFailed, Fields
      <4> QED
        BY <1>1, <4>1, <4>2 DEF Fields, OpenWalkHasData
    <3> QED
      BY <1>5, <3>1, <3>2
  <2>3. dns' \in [Item -> [cur : 0 .. MaxLookups, old : 0 .. MaxLookups]]
        /\ (\A j \in Item : Lookups(j) <= MaxLookups)'
    BY <2>1, LookupCounts
  <2>4. retries' \in [Item -> 0 .. MaxRetries]
    BY <2>1 DEF GeneralInv, TypeOK
  <2>5. stale' \in BOOLEAN
    BY <2>1 DEF GeneralInv, TypeOK
  <2> QED
    BY <2>1, <2>2, <2>3, <2>4, <2>5 DEF GeneralInv, TypeOK, NeverForgotten, Fields
<1>6. ASSUME NEW i \in Item, Timeout(i) PROVE GeneralInv'
  <2>1. UNCHANGED <<known, pollTimer, dns, stale>> /\ tmTimer[i]
    BY <1>6 DEF Timeout
  <2>2. retries' \in [Item -> 0 .. MaxRetries]
    BY <1>6 DEF Timeout, GeneralInv, TypeOK
  <2>3. i \in WalkItem => walking[i]
    BY <2>1 DEF GeneralInv, OpenWalkHasData
  <2>4. Closed(sessid[i], sess) \in [Id -> Item \cup {NoId}]
    BY <1>1, ClosedType DEF Fields
  <2>5. Fields'
    <3>1. CASE SendPacket(i, Closed(sessid[i], sess), net) /\ UNCHANGED <<state, walking>>
      <4>1. /\ sess' \in [Id -> Item \cup {NoId}] /\ sessid' \in [Item -> Id \cup {NoId}]
            /\ tmTimer' = [tmTimer EXCEPT ![i] = TRUE] /\ net' \subseteq Datagram
        BY <1>1, <2>4, <3>1, SendFields DEF Fields
      <4> QED
        BY <1>1, <2>3, <3>1, <4>1 DEF Fields, OpenWalkHasData
    <3>2. CASE /\ sess' = Closed(sessid[i], sess) /\ sessid' = [sessid EXCEPT ![i] = NoId]
               /\ tmTimer' = [tmTimer EXCEPT ![i] = FALSE] /\ state' = [state EXCEPT ![i] = "queued"]
               /\ net' = net /\ (walking' = walking \/ walking' = [walking EXCEPT ![i] = FALSE])
      BY <1>1, <2>4, <3>2 DEF Fields, OpenWalkHasData
    <3> QED
      BY <1>6, <3>1, <3>2 DEF Timeout
  <2> QED
    BY <2>1, <2>2, <2>5 DEF GeneralInv, TypeOK, NeverForgotten, Lookups, Fields
<1>7. ASSUME NEW m \in net, Answer(m) PROVE GeneralInv'
  <2>1. PICK others \in SUBSET net :
           \/ net' = others /\ UNCHANGED <<itemVars, dns, stale>> /\ (sess' = sess \/ sess' = Closed(m.id, sess))
           \/ /\ sess[m.id] \in known /\ Accepted(sess[m.id], Closed(m.id, sess), others)
              /\ stale' = (stale \/ ~m.cur) /\ UNCHANGED <<known, pollTimer, dns>>
    BY <1>7 DEF Answer
  <2>2. Closed(m.id, sess) \in [Id -> Item \cup {NoId}]
    BY <1>1, ClosedType DEF Fields
  <2>3. CASE net' = others /\ UNCHANGED <<itemVars, dns, stale>> /\ (sess' = sess \/ sess' = Closed(m.id, sess))
    BY <2>1, <2>2, <2>3 DEF itemVars, GeneralInv, TypeOK, OpenWalkHasData, NeverForgotten, Lookups
  <2>4. CASE /\ sess[m.id] \in known /\ Accepted(sess[m.id], Closed(m.id, sess), others)
             /\ stale' = (stale \/ ~m.cur) /\ UNCHANGED <<known, pollTimer, dns>>
    <3> DEFINE i == sess[m.id]
    <3>1. i \in Item /\ others \subseteq Datagram
      BY <1>1, <2>1, <2>4 DEF Fields
    <3> HIDE DEF i
    <3>2. Accepted(i, Closed(m.id, sess), others) /\ retries' = [retries EXCEPT ![i] = 0]
      BY <2>4 DEF i, Accepted
    <3>3. Fields'
      <4>1. CASE /\ i \in WalkItem /\ walking[i] /\ SendPacket(i, Closed(m.id, sess), others)
                 /\ UNCHANGED <<walking, state>>
        <5>1. /\ sess' \in [Id -> Item \cup {NoId}] /\ sessid' \in [Item -> Id \cup {NoId}]
              /\ tmTimer' = [tmTimer EXCEPT ![i] = TRUE] /\ net' \subseteq Datagram
          BY <1>1, <2>2, <3>1, <4>1, SendFields
        <5> QED
          BY <1>1, <4>1, <5>1 DEF Fields, OpenWalkHasData
      <4>2. CASE /\ sess' = Closed(m.id, sess) /\ net' = others
                 /\ sessid' = [sessid EXCEPT ![i] = NoId] /\ tmTimer' = [tmTimer EXCEPT ![i] = FALSE]
                 /\ walking' = [walking EXCEPT ![i] = FALSE] /\ state' = [state EXCEPT ![i] = "queued"]
        BY <1>1, <2>2, <3>1, <4>2 DEF Fields, OpenWalkHasData
      <4> QED
        BY <3>2, <4>1, <4>2 DEF Accepted
    <3>4. retries' \in [Item -> 0 .. MaxRetries]
      <4>1. 0 \in 0 .. MaxRetries /\ retries \in [Item -> 0 .. MaxRetries]
        BY DEF GeneralInv, TypeOK
      <4> QED
        BY <3>2, <4>1
    <3>5. stale' \in BOOLEAN
      BY <2>4
    <3> QED
      BY <2>4, <3>3, <3>4, <3>5 DEF GeneralInv, TypeOK, NeverForgotten, Lookups, Fields
  <2> QED
    BY <2>1, <2>3, <2>4
<1>8. ASSUME NEW i \in Item, LostItem(i) PROVE GeneralInv'
  <2>1. state' \in [Item -> {"queued", "polling"}]
    BY <1>1, <1>8 DEF LostItem, Fields
  <2> QED
    BY <1>8, <2>1 DEF LostItem, GeneralInv, TypeOK, OpenWalkHasData, NeverForgotten, Lookups
<1>9. ASSUME NEW m \in net, Lose(m) PROVE GeneralInv'
    BY <1>9 DEF Lose, itemVars, GeneralInv, TypeOK, OpenWalkHasData, NeverForgotten, Lookups
<1>10. \A i \in Item : PollDelayed(i) => UNCHANGED vars
    BY DEF PollDelayed
<1> QED
    BY <1>2, <1>3, <1>4, <1>5, <1>6, <1>7, <1>8, <1>9, <1>10 DEF Next

(* The invariant of every poller, whether or not names are looked up. *)
THEOREM SnmpGeneralInvariant == Spec => []GeneralInv
<1>1. GeneralInv /\ [Next]_vars => GeneralInv'
    BY GeneralNext
<1> QED
    BY GeneralInit, <1>1, PTL DEF Spec

(* The variables keep their types, the retries stay within                  *)
(* SNMP_MAX_RETRIES.                                                        *)
THEOREM SnmpTypeCorrect == Spec => []TypeOK
<1>1. GeneralInv => TypeOK
    BY DEF GeneralInv
<1> QED
    BY <1>1, SnmpGeneralInvariant, PTL

(* The timeout of a walk finds the walk's data, also when late lookups have *)
(* opened more than one request of the item.                                *)
THEOREM WalkDataThere == Spec => []OpenWalkHasData
<1>1. GeneralInv => OpenWalkHasData
    BY DEF GeneralInv
<1> QED
    BY <1>1, SnmpGeneralInvariant, PTL

(* No item with a valid delay stops being polled. *)
THEOREM ItemsNeverForgotten == Spec => []NeverForgotten
<1>1. GeneralInv => NeverForgotten
    BY DEF GeneralInv
<1> QED
    BY <1>1, SnmpGeneralInvariant, PTL
===============================================================================
