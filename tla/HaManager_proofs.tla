--------------------------- MODULE HaManager_proofs ---------------------------
(***************************************************************************)
(* Theorems about HaManager, for any servers, node names, periods and      *)
(* bounds.  The types hold in every cluster.  The lease (who serves holds  *)
(* a fresh row of its own), that at most one server serves, and that no    *)
(* node is declared unavailable early hold in every Orderly cluster.       *)
(*                                                                         *)
(* Each action has a lemma on what it changes (its Cases, or Type), used   *)
(* for both parts, and one on LeaseInv (its Lease).                        *)
(***************************************************************************)
EXTENDS HaManager, NatSets_proofs, TLAPS

-----------------------------------------------------------------------------
(* Types. *)

(* What the constants are. *)
LEMMA Constants ==
    /\ Poll \in Nat /\ Poll > 1 /\ MaxStartup \in Nat /\ ServiceTimeout \in Nat
    /\ MaxStarts \in Nat /\ MaxFaults \in Nat
    /\ Delays \subseteq Nat /\ DefaultDelay \in Delays
    /\ \A d \in Delays : d >= 2 * Poll
BY HaAssumption

(* The fields of a manager. *)
LEMMA ManagerFields ==
    ASSUME NEW m \in Manager
    PROVE  /\ m.pc \in {"off", "boot", "register", "idle", "pause"} /\ m.st \in Status /\ m.nodeid \in Nat
           /\ m.fd \in Delays /\ m.seen \in Nat /\ m.off \in Nat /\ m.wait \in Nat /\ m.wait <= 3 * Poll
           /\ m.dbok \in BOOLEAN /\ m.ticked \in BOOLEAN /\ m.hung \in BOOLEAN /\ m.removing \in Nat
BY Constants DEF Manager

(* The fields of a main process. *)
LEMMA MainFields ==
    ASSUME NEW p \in MainProcess
    PROVE  /\ p.phase \in {"off", "boot", "startup", "asking", "run", "stopping"}
           /\ p.ha \in Status /\ p.old \in Status /\ p.hb \in Nat /\ p.fd \in Delays
           /\ p.busy \in Nat /\ p.polled \in BOOLEAN /\ p.inc \in 0 .. MaxStarts
BY DEF MainProcess

(* The fields of a row. *)
LEMMA RowFields ==
    ASSUME NEW r \in Row
    PROVE  r.status \in RowStatus /\ r.lastaccess \in Nat /\ r.sess \in Session /\ r.id \in Nat
BY DEF Row

(* The messages. *)
LEMMA MessageFields ==
    /\ Heartbeat \in Message
    /\ \A st \in Status, fd \in Delays : Update(st, fd) \in Message
    /\ \A msg \in Message : \/ msg = Heartbeat
                            \/ \E st \in Status, fd \in Delays : msg = Update(st, fd)
BY DEF Message

(* A message is posted at the end, unless it is there already. *)
LEMMA PostSeq ==
    ASSUME NEW q \in Seq(Message), NEW msg \in Message
    PROVE  /\ Post(q, msg) \in Seq(Message) /\ Post(q, msg) # << >>
           /\ \A k \in DOMAIN Post(q, msg) :
                 \/ Post(q, msg)[k] = msg
                 \/ k \in DOMAIN q /\ Post(q, msg)[k] = q[k]
           /\ q = << >> => Post(q, msg) = << msg >>
           /\ q # << >> => Post(q, msg)[1] = q[1]
<1>1. CASE q # << >> /\ Last(q) = msg
    BY <1>1 DEF Post, Last
<1>2. CASE ~(q # << >> /\ Last(q) = msg)
  <2>1. Post(q, msg) = Append(q, msg)
    BY <1>2 DEF Post
  <2>2. Append(q, msg) \in Seq(Message) /\ Append(q, msg) # << >>
    <3>1. Append(q, msg) \in Seq(Message)
      OBVIOUS
    <3>2. Len(Append(q, msg)) = Len(q) + 1 /\ Len(q) \in Nat
      OBVIOUS
    <3>3. Len(<< >>) = 0
      OBVIOUS
    <3> QED
      BY <3>1, <3>2, <3>3
  <2>3. \A k \in DOMAIN Append(q, msg) :
           Append(q, msg)[k] = msg \/ (k \in DOMAIN q /\ Append(q, msg)[k] = q[k])
    OBVIOUS
  <2>4. q = << >> => Append(q, msg) = << msg >>
    OBVIOUS
  <2>5. q # << >> => Append(q, msg)[1] = q[1]
    OBVIOUS
  <2> QED
    BY <2>1, <2>2, <2>3, <2>4, <2>5, Zenon
<1> QED
    BY <1>1, <1>2

(* Another message behind a single one. *)
LEMMA PostSecond ==
    ASSUME NEW q \in Seq(Message), NEW msg \in Message, Len(q) = 1, q[1] # msg
    PROVE  Len(Post(q, msg)) > 1
<1>1. Last(q) # msg
    BY DEF Last
<1>2. Post(q, msg) = Append(q, msg)
    BY ONLY <1>1 DEF Post
<1>3. Len(Append(q, msg)) = Len(q) + 1
    OBVIOUS
<1> QED
    BY <1>2, <1>3

(* The rest of the messages. *)
LEMMA TailSeq ==
    ASSUME NEW q \in Seq(Message), q # << >>
    PROVE  /\ Head(q) \in Message /\ Head(q) = q[1] /\ 1 \in DOMAIN q
           /\ Tail(q) \in Seq(Message)
           /\ \A k \in DOMAIN Tail(q) : k + 1 \in DOMAIN q /\ Tail(q)[k] = q[k + 1] /\ k + 1 # 1
OBVIOUS

-----------------------------------------------------------------------------
(* The end of a check. *)

(* EndCheck in terms of what is posted. *)
Reported(s, m) == IF Reports(s, m) THEN Post(rtc[s], Update(m.st, m.fd)) ELSE rtc[s]

(* What a manager is after a check that left it m. *)
LEMMA EndCheckEffect ==
    ASSUME TypeOK, NEW s \in Server, NEW m \in Manager, EndCheck(s, m)
    PROVE  /\ mgr' \in [Server -> Manager] /\ rtc' \in [Server -> Seq(Message)]
           /\ \A t \in Server \ {s} : mgr'[t] = mgr[t] /\ rtc'[t] = rtc[t]
           /\ mgr'[s].pc = (IF m.st = "ERROR" THEN "pause" ELSE "idle")
           /\ mgr'[s].st = m.st /\ mgr'[s].nodeid = m.nodeid /\ mgr'[s].fd = m.fd
           /\ mgr'[s].seen = m.seen /\ mgr'[s].off = m.off /\ mgr'[s].dbok = m.dbok
           /\ mgr'[s].ticked = TRUE /\ mgr'[s].hung = FALSE /\ mgr'[s].removing = m.removing
           /\ mgr[s].wait = 0 => mgr'[s].wait = (IF m.st = "STANDBY" THEN 3 * Poll ELSE Poll) - 1
           /\ mgr[s].wait # 0 => mgr'[s].wait = IF m.dbok THEN Poll ELSE 1
           /\ mgr'[s].wait \in Nat \ {0}
           /\ Reported(s, m) \in Seq(Message)
           /\ rtc'[s] = IF m.st # "ERROR" /\ Beats(m) THEN Post(Reported(s, m), Heartbeat) ELSE Reported(s, m)
<1> DEFINE w == IF mgr[s].wait = 0 THEN (IF m.st = "STANDBY" THEN 3 * Poll ELSE Poll) - 1
                ELSE IF m.dbok THEN Poll ELSE 1
           m2 == [m EXCEPT !.pc = IF m.st = "ERROR" THEN "pause" ELSE "idle",
                           !.wait = w, !.ticked = TRUE, !.hung = FALSE]
           q2 == IF m.st # "ERROR" /\ Beats(m) THEN Post(Reported(s, m), Heartbeat) ELSE Reported(s, m)
<1>1. mgr' = [mgr EXCEPT ![s] = m2] /\ rtc' = [rtc EXCEPT ![s] = q2]
    BY DEF EndCheck, Reported
<1>2. w \in 0 .. 3 * Poll /\ w # 0
    BY Constants
<1>3. m2 \in Manager
    BY <1>2 DEF Manager
<1>4. /\ m2.pc = (IF m.st = "ERROR" THEN "pause" ELSE "idle")
      /\ m2.st = m.st /\ m2.nodeid = m.nodeid /\ m2.fd = m.fd
      /\ m2.seen = m.seen /\ m2.off = m.off /\ m2.dbok = m.dbok
      /\ m2.ticked = TRUE /\ m2.hung = FALSE /\ m2.wait = w /\ m2.removing = m.removing
    BY DEF Manager
<1>5. rtc[s] \in Seq(Message) /\ Update(m.st, m.fd) \in Message /\ Heartbeat \in Message
    BY MessageFields, ManagerFields DEF TypeOK
<1>6. Reported(s, m) \in Seq(Message)
    BY <1>5, PostSeq DEF Reported
<1>7. q2 \in Seq(Message)
    BY <1>5, <1>6, PostSeq
<1> HIDE DEF m2, q2
<1>8. mgr \in [Server -> Manager] /\ rtc \in [Server -> Seq(Message)]
    BY DEF TypeOK
<1>9. mgr'[s] = m2 /\ rtc'[s] = q2
    BY <1>1, <1>8
<1>10. /\ mgr' \in [Server -> Manager] /\ rtc' \in [Server -> Seq(Message)]
       /\ \A t \in Server \ {s} : mgr'[t] = mgr[t] /\ rtc'[t] = rtc[t]
    BY <1>1, <1>3, <1>7, <1>8
<1>11. w \in Nat \ {0}
    BY <1>2, Constants
<1>12. /\ mgr[s].wait = 0 => w = (IF m.st = "STANDBY" THEN 3 * Poll ELSE Poll) - 1
       /\ mgr[s].wait # 0 => w = IF m.dbok THEN Poll ELSE 1
    OBVIOUS
<1> HIDE DEF w
<1> QED
    BY <1>4, <1>6, <1>9, <1>10, <1>11, <1>12 DEF q2

-----------------------------------------------------------------------------
(* The table. *)

(* NoRow is a row. *)
LEMMA NoRowType == NoRow \in Row
BY DEF NoRow, Row, RowStatus, Session

(* The query of ha_check_active_node finds an active row, when there is one. *)
LEMMA FirstActiveRow ==
    ASSUME TypeOK, ActiveRows # {}
    PROVE  FirstActive \in ActiveRows /\ FirstActive \in Name /\ row[FirstActive] \in Row
<1>1. PICK B : B = {row[n].id : n \in ActiveRows}
    OBVIOUS
<1>2. ActiveRows \subseteq Name /\ \A n \in ActiveRows : row[n] \in Row /\ row[n].id \in Nat
    BY RowFields DEF TypeOK, ActiveRows, Rows
<1>3. B \in SUBSET Nat /\ B # {}
    BY <1>1, <1>2
<1>4. PICK i \in B : \A k \in B : i <= k
    BY ONLY <1>3, LeastNat
<1>5. PICK n \in ActiveRows : \A k \in ActiveRows : row[n].id <= row[k].id
    BY <1>1, <1>4
<1>6. FirstActive \in ActiveRows
    BY <1>5 DEF FirstActive
<1> QED
    BY <1>2, <1>6

(* What the update of the own row and of rows that are unavailable does. *)
LEMMA WriteOwnType ==
    ASSUME TypeOK, NEW id, NEW new \in [Name -> Row]
    PROVE  /\ WriteOwn(id, new) \in [Name -> Row]
           /\ \A n \in Name : WriteOwn(id, new)[n] = IF row[n].id = id /\ id # 0 THEN new[n] ELSE row[n]
BY DEF WriteOwn, TypeOK

(* Marking rows changes their status only. *)
LEMMA MarkType ==
    ASSUME NEW table \in [Name -> Row], NEW set
    PROVE  /\ MarkUnavailable(table, set) \in [Name -> Row]
           /\ \A n \in Name : n \notin set => MarkUnavailable(table, set)[n] = table[n]
           /\ \A n \in Name : n \in set =>
                 /\ MarkUnavailable(table, set)[n].status = "UNAVAILABLE"
                 /\ MarkUnavailable(table, set)[n].id = table[n].id
                 /\ MarkUnavailable(table, set)[n].sess = table[n].sess
                 /\ MarkUnavailable(table, set)[n].lastaccess = table[n].lastaccess
<1> DEFINE e(n) == [table[n] EXCEPT !.status = "UNAVAILABLE"]
<1>1. ASSUME NEW n \in Name
      PROVE  /\ e(n) \in Row /\ e(n).status = "UNAVAILABLE" /\ e(n).id = table[n].id
             /\ e(n).sess = table[n].sess /\ e(n).lastaccess = table[n].lastaccess
    BY DEF Row, RowStatus
<1>2. MarkUnavailable(table, set) = [n \in Name |-> IF n \in set THEN e(n) ELSE table[n]]
    BY DEF MarkUnavailable
<1> HIDE DEF e
<1> QED
    BY <1>1, <1>2

(* A row that is accessed, with a status that a running manager has. *)
LEMMA NewRowType ==
    ASSUME NEW r \in Row, NEW t \in Nat, NEW ses \in Session, NEW st \in RowStatus
    PROVE  /\ [r EXCEPT !.lastaccess = t] \in Row
           /\ [r EXCEPT !.lastaccess = t, !.status = st] \in Row
           /\ [r EXCEPT !.status = st, !.lastaccess = t] \in Row
           /\ [r EXCEPT !.lastaccess = t, !.sess = ses, !.status = st] \in Row
BY DEF Row

-----------------------------------------------------------------------------
(* TypeInv, one lemma for each action. *)

(* Faults are counted. *)
LEMMA FaultType ==
    ASSUME TypeOK, NEW kind, Fault(kind)
    PROVE  faults' \in 0 .. MaxFaults /\ calm' \in Nat /\ kind \in FaultKinds
BY Constants DEF Fault, TypeOK

(* The outcome of a transaction. *)
LEMMA OutcomeType ==
    ASSUME TypeOK, NEW s \in Server, NEW o, CountOutcome(s, o)
    PROVE  faults' \in 0 .. MaxFaults /\ calm' \in Nat /\ (o # "ok" => o \in FaultKinds)
BY FaultType DEF CountOutcome, TypeOK

(* Steps of one server leave the states of the others alone. *)
LEMMA StatesFrame ==
    ASSUME TypeInv, NEW s \in Server, StatesOK(s)',
           \A t \in Server \ {s} : mgr'[t] = mgr[t] /\ main'[t] = main[t]
    PROVE  \A t \in Server : StatesOK(t)'
BY DEF TypeInv, StatesOK

(* New managers and main processes. *)
LEMMA NewTypes ==
    /\ NewManager("off", "UNKNOWN", 0) \in Manager /\ NewManager("boot", "UNKNOWN", 0) \in Manager
    /\ NewManager("idle", "STANDBY", 3 * Poll) \in Manager
    /\ NoMain \in MainProcess
BY Constants DEF NewManager, Manager, Status, NoMain, MainProcess

(* The types after a check. *)
LEMMA CheckTypes ==
    ASSUME TypeInv, NEW s \in Server, NEW m \in Manager, EndCheck(s, m), main' = main, mgr[s].pc # "off",
           m.st \in {"UNKNOWN", "STANDBY", "ACTIVE", "ERROR"}
    PROVE  /\ mgr' \in [Server -> Manager] /\ rtc' \in [Server -> Seq(Message)]
           /\ \A t \in Server : StatesOK(t)'
<1>1. TypeOK /\ StatesOK(s)
    BY DEF TypeInv
<1>2. /\ mgr' \in [Server -> Manager] /\ rtc' \in [Server -> Seq(Message)]
      /\ \A t \in Server \ {s} : mgr'[t] = mgr[t]
      /\ mgr'[s].pc = (IF m.st = "ERROR" THEN "pause" ELSE "idle") /\ mgr'[s].st = m.st
    BY <1>1, EndCheckEffect
<1>3. StatesOK(s)'
    BY <1>1, <1>2 DEF StatesOK
<1> QED
    BY <1>2, <1>3, StatesFrame

(* MgrTick *)
LEMMA MgrTickType ==
    ASSUME TypeInv, NEW s \in Server, MgrTick(s)
    PROVE  TypeInv'
<1>1. TypeOK /\ StatesOK(s) /\ mgr[s] \in Manager /\ rtc[s] \in Seq(Message)
    BY DEF TypeInv, TypeOK
<1> DEFINE m2 == [mgr[s] EXCEPT !.wait = mgr[s].wait - 1, !.ticked = TRUE]
<1>2. mgr' = [mgr EXCEPT ![s] = m2]
    BY <1>1 DEF MgrTick, TypeOK
<1>3. mgr[s].wait - 1 \in 0 .. 3 * Poll
    BY <1>1, Constants, ManagerFields DEF MgrTick
<1>4. m2 \in Manager /\ m2.pc = mgr[s].pc /\ m2.st = mgr[s].st
    BY <1>1, <1>3 DEF Manager
<1> HIDE DEF m2
<1>5. /\ mgr' \in [Server -> Manager] /\ mgr'[s] = m2
      /\ \A t \in Server \ {s} : mgr'[t] = mgr[t]
    BY <1>1, <1>2, <1>4 DEF TypeOK
<1>6. rtc' \in [Server -> Seq(Message)]
    BY <1>1, PostSeq, MessageFields DEF TypeOK, MgrTick
<1>7. main' = main
    BY DEF MgrTick
<1>8. StatesOK(s)'
    BY <1>1, <1>4, <1>5, <1>7 DEF StatesOK
<1> QED
    BY <1>1, <1>5, <1>6, <1>7, <1>8, StatesFrame DEF TypeInv, TypeOK, MgrTick

(* A transaction of the database that fails after it has begun. *)
Flaky == "rollback" \in FaultKinds \/ "ackLost" \in FaultKinds \/ "error" \in FaultKinds

(* What the outcome of a transaction makes of the manager's status. *)
LEMMA ResultCases ==
    ASSUME NEW o \in Outcome, NEW m, NEW st
    PROVE  /\ Result(o, m, st) \in {st, m.st, "ERROR"}
           /\ o = "ok" => Result(o, m, st) = st
BY DEF Result, Outcome

(* Manager m1 has what a check does not change of manager m. *)
SameCheck(m1, m) ==
    /\ m1.pc = m.pc /\ m1.wait = m.wait /\ m1.ticked = m.ticked /\ m1.hung = m.hung
    /\ m1.removing = m.removing
SameCount(m1, m) == m1.seen = m.seen /\ m1.off = m.off

(* The check of ha_db_create_node ends, or the registration goes on. *)
CreateEnds(s, m) ==
    \/ (m.nodeid = 0 \/ m.st = "ERROR") /\ EndCheck(s, m)
    \/ /\ m.nodeid # 0 /\ m.st # "ERROR" /\ rtc' = rtc
       /\ mgr' = [mgr EXCEPT ![s] = [m EXCEPT !.pc = "register", !.hung = FALSE]]

(* What ha_db_create_node did to the table. *)
CreateFound(s, m) ==
    \/ m.nodeid = mgr[s].nodeid /\ m.fd = mgr[s].fd /\ row' = row /\ nextId' = nextId
    \/ m.nodeid = row[nameOf[s]].id /\ m.fd = cfgDelay /\ row[nameOf[s]] # NoRow /\ row' = row /\ nextId' = nextId
    \/ /\ m.nodeid = nextId /\ m.fd = cfgDelay /\ row[nameOf[s]] = NoRow
       /\ nextId' = nextId + 1
       /\ row' = [row EXCEPT ![nameOf[s]] =
                    [status |-> "STOPPED", lastaccess |-> now, sess |-> << >>, id |-> nextId]]

(* CreateNode: who it is for, what it knows afterwards, what it wrote. *)
LEMMA CreateNodeCases ==
    ASSUME TypeInv, NEW s \in Server, CreateNode(s)
    PROVE  /\ Ready(s, "boot") \/ (CheckDue(s) /\ mgr[s].st = "UNKNOWN")
           /\ UNCHANGED <<nameOf, now, cfgDelay, dbUp, main>> /\ faults' \in 0 .. MaxFaults /\ calm' \in Nat
           /\ row' \in [Name -> Row] /\ nextId' \in Nat \ {0}
           /\ \E m \in Manager : /\ SameCheck(m, mgr[s]) /\ SameCount(m, mgr[s]) /\ m.st \in {"UNKNOWN", "ERROR"}
                                 /\ CreateEnds(s, m) /\ (Flaky \/ (CreateFound(s, m) /\ m.st = "UNKNOWN"))
<1> DEFINE n == nameOf[s]
           new == [status |-> "STOPPED", lastaccess |-> now, sess |-> << >>, id |-> nextId]
           Goal == \E m \in Manager : /\ SameCheck(m, mgr[s]) /\ SameCount(m, mgr[s]) /\ m.st \in {"UNKNOWN", "ERROR"}
                                      /\ CreateEnds(s, m) /\ (Flaky \/ (CreateFound(s, m) /\ m.st = "UNKNOWN"))
<1>1. TypeOK /\ StatesOK(s) /\ mgr[s] \in Manager /\ n \in Name /\ row[n] \in Row
    BY HaAssumption DEF TypeInv, TypeOK
<1>2. (Ready(s, "boot") \/ (CheckDue(s) /\ mgr[s].st = "UNKNOWN")) /\ mgr[s].st = "UNKNOWN"
    BY <1>1 DEF CreateNode, StatesOK, Ready
<1>3. UNCHANGED <<nameOf, now, cfgDelay, dbUp, main>>
    BY DEF CreateNode
<1>4. CASE ~dbUp[s]
  <2> DEFINE m == [mgr[s] EXCEPT !.dbok = FALSE]
  <2>1. /\ CountOutcome(s, "ok") /\ row' = row /\ nextId' = nextId
        /\ IF mgr[s].nodeid = 0 THEN EndCheck(s, m)
           ELSE mgr' = [mgr EXCEPT ![s] = [m EXCEPT !.pc = "register", !.hung = FALSE]] /\ rtc' = rtc
    BY <1>4 DEF CreateNode
  <2>2. /\ m \in Manager /\ SameCheck(m, mgr[s]) /\ SameCount(m, mgr[s]) /\ m.st = mgr[s].st
        /\ m.nodeid = mgr[s].nodeid /\ m.fd = mgr[s].fd
    BY <1>1 DEF Manager, SameCheck, SameCount
  <2>3. faults' \in 0 .. MaxFaults /\ calm' \in Nat
    BY <1>1, <2>1, OutcomeType
  <2> HIDE DEF m
  <2>4. CreateEnds(s, m) /\ CreateFound(s, m)
    BY <1>2, <2>1, <2>2 DEF CreateEnds, CreateFound
  <2>5. Goal
    BY <1>2, <2>2, <2>4
  <2>6. row' \in [Name -> Row] /\ nextId' \in Nat \ {0}
    BY <1>1, <2>1 DEF TypeOK
  <2> QED
    BY <1>2, <1>3, <2>3, <2>5, <2>6
<1>5. CASE dbUp[s]
  <2> DEFINE id == IF row[n] = NoRow THEN nextId ELSE row[n].id
  <2>1. PICK o \in Outcome :
          /\ CountOutcome(s, o)
          /\ IF row[n] = NoRow
             THEN Commit(o, [row EXCEPT ![n] = new]) /\ nextId' = nextId + 1
             ELSE UNCHANGED <<row, nextId>>
          /\ LET m1 == [mgr[s] EXCEPT !.fd = cfgDelay, !.dbok = o = "ok", !.st = Result(o, mgr[s], @),
                                      !.nodeid = IF o = "ok" THEN id ELSE @]
             IN IF m1.nodeid = 0 \/ m1.st = "ERROR" THEN EndCheck(s, m1)
                ELSE mgr' = [mgr EXCEPT ![s] = [m1 EXCEPT !.pc = "register", !.hung = FALSE]] /\ rtc' = rtc
    BY <1>5 DEF CreateNode
  <2>2. faults' \in 0 .. MaxFaults /\ calm' \in Nat /\ (o # "ok" => Flaky)
    BY <1>1, <2>1, OutcomeType DEF Outcome, Flaky
  <2>3. PICK b \in BOOLEAN : b = (o = "ok")
    OBVIOUS
  <2>4. PICK i : i = IF o = "ok" THEN id ELSE mgr[s].nodeid
    OBVIOUS
  <2>5. i \in Nat
    BY <1>1, <2>4, ManagerFields, RowFields DEF TypeOK
  <2>14. PICK x : x = Result(o, mgr[s], mgr[s].st)
    OBVIOUS
  <2>15. x \in {"UNKNOWN", "ERROR"} /\ (o = "ok" => x = "UNKNOWN")
    BY <1>2, <2>14, ResultCases
  <2> DEFINE m == [mgr[s] EXCEPT !.fd = cfgDelay, !.dbok = b, !.st = x, !.nodeid = i]
  <2>6. m = [mgr[s] EXCEPT !.fd = cfgDelay, !.dbok = o = "ok", !.st = Result(o, mgr[s], @),
                           !.nodeid = IF o = "ok" THEN id ELSE @]
    BY <2>3, <2>4, <2>14
  <2>7. IF m.nodeid = 0 \/ m.st = "ERROR" THEN EndCheck(s, m)
        ELSE mgr' = [mgr EXCEPT ![s] = [m EXCEPT !.pc = "register", !.hung = FALSE]] /\ rtc' = rtc
    BY <2>1, <2>6
  <2>8. /\ m \in Manager /\ SameCheck(m, mgr[s]) /\ SameCount(m, mgr[s]) /\ m.st = x
        /\ m.nodeid = i /\ m.fd = cfgDelay
    BY <1>1, <2>5, <2>15 DEF Manager, SameCheck, SameCount, TypeOK, Status
  <2> HIDE DEF m
  <2>9. CreateEnds(s, m)
    BY <2>7, <2>8 DEF CreateEnds
  <2>10. Flaky \/ CreateFound(s, m)
    BY <2>1, <2>2, <2>4, <2>8 DEF CreateFound, Commit
  <2>11. new \in Row
    BY <1>1 DEF TypeOK, Row, RowStatus, Session
  <2>12. row' \in [Name -> Row] /\ nextId' \in Nat \ {0}
    <3>1. row \in [Name -> Row] /\ nextId \in Nat \ {0}
      BY <1>1 DEF TypeOK
    <3>2. row' = row \/ row' = [row EXCEPT ![n] = new]
      BY <2>1 DEF Commit
    <3>3. nextId' = nextId \/ nextId' = nextId + 1
      BY <2>1
    <3> HIDE DEF new
    <3> QED
      BY <2>11, <3>1, <3>2, <3>3
  <2>13. Goal
    BY <2>2, <2>8, <2>9, <2>10, <2>15
  <2> QED
    BY <1>2, <1>3, <2>2, <2>12, <2>13
<1>6. dbUp[s] \in BOOLEAN
    BY <1>1 DEF TypeOK
<1> QED
    BY <1>4, <1>5, <1>6

(* What a transaction that accesses the row id and marks the rows lost does *)
(* to the table; ses gives the session of the row it accesses.             *)
TableChange(id, st, ses, lost) ==
    \A n \in Name :
       /\ row'[n].id = row[n].id
       /\ row[n].id = id /\ id # 0 =>
             row'[n].lastaccess = now /\ row'[n].status = st /\ row'[n].sess = ses[n]
       /\ ~(row[n].id = id /\ id # 0) /\ n \notin lost => row'[n] = row[n]
       /\ n \in lost =>
             row'[n].status = "UNAVAILABLE" /\ row'[n].lastaccess = row[n].lastaccess

(* The two writes of a transaction, new being what the rows would become. *)
TableWrite(id, st, ses, lost, new) ==
    /\ row' = MarkUnavailable(WriteOwn(id, new), lost)
    /\ \A n \in lost : row[n].id # id
    /\ new \in [Name -> Row]
    /\ \A n \in Name : /\ new[n].id = row[n].id /\ new[n].lastaccess = now
                       /\ new[n].status = st /\ new[n].sess = ses[n]

(* They change the table as described. *)
LEMMA TableEffect ==
    ASSUME TypeOK, NEW id, NEW st, NEW ses, NEW lost, NEW new, TableWrite(id, st, ses, lost, new)
    PROVE  TableChange(id, st, ses, lost) /\ row' \in [Name -> Row]
<1> USE DEF TableWrite
<1>1. PICK T : T = WriteOwn(id, new)
    OBVIOUS
<1>2. /\ T \in [Name -> Row]
      /\ \A n \in Name : T[n] = IF row[n].id = id /\ id # 0 THEN new[n] ELSE row[n]
    BY <1>1, WriteOwnType
<1>3. row' = MarkUnavailable(T, lost)
    BY <1>1
<1>4. /\ MarkUnavailable(T, lost) \in [Name -> Row]
      /\ \A n \in Name : n \notin lost => MarkUnavailable(T, lost)[n] = T[n]
      /\ \A n \in Name : n \in lost =>
                 /\ MarkUnavailable(T, lost)[n].status = "UNAVAILABLE"
                 /\ MarkUnavailable(T, lost)[n].id = T[n].id
                 /\ MarkUnavailable(T, lost)[n].lastaccess = T[n].lastaccess
    BY ONLY <1>2, MarkType
<1>5. row' \in [Name -> Row]
    BY <1>3, <1>4
<1>6. ASSUME NEW n \in Name
      PROVE  /\ row'[n].id = row[n].id
             /\ row[n].id = id /\ id # 0 =>
                   row'[n].lastaccess = now /\ row'[n].status = st /\ row'[n].sess = ses[n]
             /\ ~(row[n].id = id /\ id # 0) /\ n \notin lost => row'[n] = row[n]
             /\ n \in lost =>
                   row'[n].status = "UNAVAILABLE" /\ row'[n].lastaccess = row[n].lastaccess
  <2>1. CASE n \in lost
    BY <1>2, <1>3, <1>4, <2>1
  <2>2. CASE n \notin lost
    BY <1>2, <1>3, <1>4, <2>2, SMTT(40)
  <2> QED
    BY <2>1, <2>2
<1> QED
    BY <1>5, <1>6 DEF TableChange

(* What a registration wrote: the row gets the session and the status. *)
RegisterWrote(s, m) ==
    LET lost == IF m.st = "ACTIVE" THEN UnavailableNodes(m.nodeid, m.fd) ELSE {}
    IN /\ m.st = IF Activate(m.fd) THEN "ACTIVE" ELSE "STANDBY"
       /\ m.dbok /\ dbUp[s] /\ row[nameOf[s]] # NoRow
       /\ TableChange(m.nodeid, m.st, [n \in Name |-> Sess(s)], lost)

(* RegisterNode: how the check ends and what it wrote. *)
LEMMA RegisterNodeCases ==
    ASSUME TypeInv, NEW s \in Server, RegisterNode(s)
    PROVE  /\ Ready(s, "register")
           /\ UNCHANGED <<nameOf, now, cfgDelay, nextId, dbUp, main>>
           /\ faults' \in 0 .. MaxFaults /\ calm' \in Nat /\ row' \in [Name -> Row]
           /\ \E m \in Manager :
                 /\ SameCheck(m, mgr[s]) /\ SameCount(m, mgr[s]) /\ m.nodeid = mgr[s].nodeid /\ m.fd = mgr[s].fd
                 /\ m.st \in {"UNKNOWN", "STANDBY", "ACTIVE", "ERROR"}
                 /\ EndCheck(s, m)
                 /\ Flaky \/ (row' = row /\ m.st \in {mgr[s].st, "ERROR"}) \/ RegisterWrote(s, m)
<1> DEFINE n == nameOf[s]
           Goal == \E m \in Manager :
                 /\ SameCheck(m, mgr[s]) /\ SameCount(m, mgr[s]) /\ m.nodeid = mgr[s].nodeid /\ m.fd = mgr[s].fd
                 /\ m.st \in {"UNKNOWN", "STANDBY", "ACTIVE", "ERROR"}
                 /\ EndCheck(s, m)
                 /\ Flaky \/ (row' = row /\ m.st \in {mgr[s].st, "ERROR"}) \/ RegisterWrote(s, m)
<1>1. TypeOK /\ mgr[s] \in Manager /\ n \in Name /\ row \in [Name -> Row] /\ StatesOK(s)
    BY HaAssumption DEF TypeInv, TypeOK
<1>2. Ready(s, "register") /\ UNCHANGED <<nameOf, now, cfgDelay, nextId, dbUp, main>>
    BY DEF RegisterNode
<1>3. mgr[s].st = "UNKNOWN"
    BY <1>1, <1>2 DEF Ready, StatesOK
<1>4. CASE /\ ~dbUp[s] /\ EndCheck(s, [mgr[s] EXCEPT !.dbok = FALSE])
           /\ CountOutcome(s, "ok") /\ row' = row
  <2> DEFINE m == [mgr[s] EXCEPT !.dbok = FALSE]
  <2>1. /\ m \in Manager /\ SameCheck(m, mgr[s]) /\ SameCount(m, mgr[s]) /\ m.st = mgr[s].st
        /\ m.nodeid = mgr[s].nodeid /\ m.fd = mgr[s].fd
    BY <1>1 DEF Manager, SameCheck, SameCount
  <2>2. EndCheck(s, m)
    BY <1>4
  <2> HIDE DEF m
  <2>3. Goal
    BY <1>3, <1>4, <2>1, <2>2
  <2> QED
    BY <1>1, <1>2, <1>4, <2>3, OutcomeType
<1>5. CASE /\ EndCheck(s, [mgr[s] EXCEPT !.st = "ERROR", !.dbok = TRUE])
           /\ CountOutcome(s, "ok") /\ row' = row
  <2> DEFINE m == [mgr[s] EXCEPT !.st = "ERROR", !.dbok = TRUE]
  <2>1. /\ m \in Manager /\ SameCheck(m, mgr[s]) /\ SameCount(m, mgr[s]) /\ m.st = "ERROR"
        /\ m.nodeid = mgr[s].nodeid /\ m.fd = mgr[s].fd
    BY <1>1 DEF Manager, SameCheck, SameCount, Status
  <2>2. EndCheck(s, m)
    BY <1>5
  <2> HIDE DEF m
  <2>3. Goal
    BY <1>5, <2>1, <2>2
  <2> QED
    BY <1>1, <1>2, <1>5, <2>3, OutcomeType
<1> DEFINE new == IF Activate(mgr[s].fd) THEN "ACTIVE" ELSE "STANDBY"
           table == [k \in Name |-> [row[k] EXCEPT !.lastaccess = now, !.sess = Sess(s), !.status = new]]
           lost == IF new = "ACTIVE" THEN UnavailableNodes(mgr[s].nodeid, mgr[s].fd) ELSE {}
<1>6. CASE /\ row[n] # NoRow /\ dbUp[s]
           /\ \E o \in Outcome :
                  /\ CountOutcome(s, o)
                  /\ Commit(o, MarkUnavailable(WriteOwn(mgr[s].nodeid, table), lost))
                  /\ EndCheck(s, [mgr[s] EXCEPT !.dbok = o = "ok", !.st = Result(o, mgr[s], new)])
  <2>1. PICK o \in Outcome :
                  /\ CountOutcome(s, o)
                  /\ Commit(o, MarkUnavailable(WriteOwn(mgr[s].nodeid, table), lost))
                  /\ EndCheck(s, [mgr[s] EXCEPT !.dbok = o = "ok", !.st = Result(o, mgr[s], new)])
    BY <1>6
  <2>2. faults' \in 0 .. MaxFaults /\ calm' \in Nat /\ (o # "ok" => Flaky)
    BY <1>1, <2>1, OutcomeType DEF Outcome, Flaky
  <2>3. PICK b \in BOOLEAN : b = (o = "ok")
    OBVIOUS
  <2>4. PICK x : x = Result(o, mgr[s], new)
    OBVIOUS
  <2>5. x \in {"UNKNOWN", "STANDBY", "ACTIVE", "ERROR"} /\ (b => x = new)
    BY <1>3, <2>3, <2>4, ResultCases
  <2> DEFINE m == [mgr[s] EXCEPT !.dbok = b, !.st = x]
  <2>6. EndCheck(s, m)
    BY <2>1, <2>3, <2>4
  <2>7. /\ m \in Manager /\ SameCheck(m, mgr[s]) /\ SameCount(m, mgr[s]) /\ m.st = x /\ m.dbok = b
        /\ m.nodeid = mgr[s].nodeid /\ m.fd = mgr[s].fd
    BY <1>1, <2>5 DEF Manager, SameCheck, SameCount, Status
  <2> HIDE DEF m
  <2>8. Sess(s) \in Session /\ new \in RowStatus /\ now \in Nat
    <3>1. main[s].phase # "off" /\ main[s] \in MainProcess
      BY <1>1, <1>2 DEF StatesOK, Ready, TypeOK
    <3>2. main[s].inc \in 1 .. MaxStarts
      BY <1>1, <3>1, MainFields, Constants DEF StatesOK
    <3> QED
      BY <1>1, <3>2 DEF Sess, Session, RowStatus, TypeOK
  <2>9. PICK T : T = table
    OBVIOUS
  <2>10. PICK L : L = lost
    OBVIOUS
  <2>11. PICK U : U = [k \in Name |-> Sess(s)]
    OBVIOUS
  <2>12. /\ T \in [Name -> Row]
         /\ \A k \in Name : /\ T[k].id = row[k].id /\ T[k].lastaccess = now
                            /\ T[k].status = new /\ T[k].sess = U[k]
    <3> HIDE DEF new
    <3>1. ASSUME NEW k \in Name
          PROVE  LET r == [row[k] EXCEPT !.lastaccess = now, !.sess = Sess(s), !.status = new]
                 IN r \in Row /\ r.id = row[k].id /\ r.lastaccess = now /\ r.sess = Sess(s) /\ r.status = new
      BY <1>1, <2>8 DEF Row
    <3> QED
      BY <2>9, <2>11, <3>1
  <2>13. \A k \in L : row[k].id # mgr[s].nodeid
    BY <2>10 DEF UnavailableNodes
  <2>14. row' = row \/ row' = MarkUnavailable(WriteOwn(mgr[s].nodeid, T), L)
    BY <2>1, <2>9, <2>10 DEF Commit
  <2>15. PICK i : i = mgr[s].nodeid
    OBVIOUS
  <2>16. PICK y : y = new
    OBVIOUS
  <2>17. row' = MarkUnavailable(WriteOwn(i, T), L) => TableChange(i, y, U, L) /\ row' \in [Name -> Row]
    <3>1. \A k \in L : row[k].id # i
      BY <2>13, <2>15
    <3>2. \A k \in Name : /\ T[k].id = row[k].id /\ T[k].lastaccess = now
                          /\ T[k].status = y /\ T[k].sess = U[k]
      BY <2>12, <2>16
    <3>3. SUFFICES ASSUME row' = MarkUnavailable(WriteOwn(i, T), L)
                   PROVE  TableWrite(i, y, U, L, T)
      BY <1>1, TableEffect
    <3> QED
      BY <2>12, <3>1, <3>2, <3>3 DEF TableWrite
  <2>18. row' \in [Name -> Row]
    BY <1>1, <2>14, <2>15, <2>17
  <2>19. CASE o = "ok"
    <3>1. row' = MarkUnavailable(WriteOwn(i, T), L)
      BY <2>1, <2>9, <2>10, <2>15, <2>19 DEF Commit
    <3>2. TableChange(i, y, U, L) /\ b /\ x = new
      BY <2>3, <2>5, <2>17, <2>19, <3>1
    <3>3. RegisterWrote(s, m)
      BY <1>6, <2>7, <2>10, <2>11, <2>15, <2>16, <3>2 DEF RegisterWrote
    <3>4. Goal
      BY <2>5, <2>6, <2>7, <3>3
    <3> QED
      BY <1>2, <2>2, <2>18, <3>4
  <2>20. CASE o # "ok"
    <3>1. Goal
      BY <2>2, <2>5, <2>6, <2>7, <2>20, SMTT(40)
    <3> QED
      BY <1>2, <2>2, <2>18, <3>1
  <2> QED
    BY <2>19, <2>20
<1>7. <1>4!1 \/ <1>5!1 \/ <1>6!1
    BY DEF RegisterNode
<1> QED
    BY <1>4, <1>5, <1>6, <1>7

(* What a check did in the manager of the active node, and in another one: *)
(* the manager m after it and the rows it found unavailable.               *)
ActiveCheck(s, m, lost) ==
    /\ mgr[s].st = "ACTIVE" /\ m.st = "ACTIVE" /\ SameCount(m, mgr[s])
    /\ lost = UnavailableNodes(m.nodeid, cfgDelay)
PassiveCheck(s, m, lost) ==
    /\ mgr[s].st # "ACTIVE"
    /\ \/ /\ ActiveRows = {} \/ row[FirstActive].id = m.nodeid
          /\ m.st = "ACTIVE" /\ SameCount(m, mgr[s]) /\ lost = {}
       \/ /\ ActiveRows # {} /\ row[FirstActive].id # m.nodeid
          /\ m.seen = row[FirstActive].lastaccess
          /\ m.off = IF row[FirstActive].lastaccess = mgr[s].seen THEN mgr[s].off + 1 ELSE 0
          /\ \/ cfgDelay \div Poll < m.off /\ m.st = "ACTIVE" /\ lost = {FirstActive}
             \/ m.st = mgr[s].st /\ lost = {}

CheckWrote(s, m) ==
    /\ Owned(s) /\ m.dbok /\ dbUp[s] /\ m.fd = cfgDelay
    /\ m.nodeid = IF mgr[s].nodeid = 0 THEN row[nameOf[s]].id ELSE mgr[s].nodeid
    /\ \E lost : /\ ActiveCheck(s, m, lost) \/ PassiveCheck(s, m, lost)
                 /\ TableChange(m.nodeid, m.st, [n \in Name |-> row[n].sess], lost)

(* CheckActiveNode in terms of PassiveCheck. *)
LEMMA CheckActiveNodeCases ==
    ASSUME TypeInv, NEW s \in Server, CheckDue(s), mgr[s].st \notin {"UNKNOWN", "ACTIVE"},
           NEW m1 \in Manager, SameCount(m1, mgr[s]), m1.st = mgr[s].st,
           NEW res, res = CheckActiveNode(m1, cfgDelay)
    PROVE  /\ res.m \in Manager /\ SameCheck(res.m, m1) /\ res.m.nodeid = m1.nodeid /\ res.m.fd = m1.fd
           /\ res.st \in {"STANDBY", "ACTIVE"}
           /\ \A n \in res.lost : row[n].id # m1.nodeid
           /\ \A m \in Manager :
                 m.st = res.st /\ SameCount(m, res.m) /\ m.nodeid = m1.nodeid => PassiveCheck(s, m, res.lost)
<1>1. TypeOK /\ StatesOK(s) /\ mgr[s] \in Manager /\ mgr[s].st = "STANDBY"
    BY DEF TypeInv, TypeOK, StatesOK, CheckDue, Ready
<1>2. CASE ActiveRows = {} \/ row[FirstActive].id = m1.nodeid
  <2>1. res = [m |-> m1, st |-> "ACTIVE", lost |-> {}]
    BY <1>2 DEF CheckActiveNode
  <2>2. res.m = m1 /\ res.st = "ACTIVE" /\ res.lost = {}
    BY <2>1
  <2> QED
    BY <1>1, <1>2, <2>2 DEF PassiveCheck, SameCount, SameCheck
<1>3. CASE ~(ActiveRows = {} \/ row[FirstActive].id = m1.nodeid)
  <2>1. FirstActive \in Name /\ row[FirstActive] \in Row
    BY <1>1, <1>3, FirstActiveRow
  <2>2. PICK la : la = row[FirstActive].lastaccess
    OBVIOUS
  <2>3. la \in Nat
    BY <2>1, <2>2, RowFields
  <2>4. PICK off : off = IF la = mgr[s].seen THEN mgr[s].off + 1 ELSE 0
    OBVIOUS
  <2>5. off \in Nat
    BY <1>1, <2>4, ManagerFields
  <2> DEFINE m2 == [m1 EXCEPT !.seen = la, !.off = off]
  <2>6. off = OfflineTicks(m1, row[FirstActive])
    BY <2>2, <2>4 DEF OfflineTicks, SameCount
  <2>7. PICK b \in BOOLEAN : b <=> (cfgDelay \div Poll < off)
    OBVIOUS
  <2>8. res = [m    |-> m2,
               st   |-> IF b THEN "ACTIVE" ELSE m1.st,
               lost |-> IF b THEN {FirstActive} ELSE {}]
    BY <1>3, <2>2, <2>6, <2>7 DEF CheckActiveNode
  <2>9. /\ m2 \in Manager /\ SameCheck(m2, m1) /\ m2.nodeid = m1.nodeid /\ m2.fd = m1.fd
        /\ m2.seen = la /\ m2.off = off
    BY <2>3, <2>5 DEF Manager, SameCheck
  <2> HIDE DEF m2
  <2>10. /\ res.m = m2 /\ res.st = (IF b THEN "ACTIVE" ELSE m1.st)
         /\ res.lost = IF b THEN {FirstActive} ELSE {}
    BY <2>8
  <2>11. ASSUME NEW m \in Manager, m.st = res.st, SameCount(m, res.m), m.nodeid = m1.nodeid
         PROVE  PassiveCheck(s, m, res.lost)
    <3>1. m.seen = la /\ m.off = off
      BY <2>9, <2>10, <2>11 DEF SameCount
    <3>2. CASE b
      BY <1>1, <1>3, <2>2, <2>4, <2>7, <2>10, <2>11, <3>1, <3>2 DEF PassiveCheck
    <3>3. CASE ~b
      BY <1>1, <1>3, <2>2, <2>4, <2>7, <2>10, <2>11, <3>1, <3>3 DEF PassiveCheck
    <3> QED
      BY <3>2, <3>3
  <2>12. \A n \in res.lost : row[n].id # m1.nodeid
    BY <1>3, <2>10
  <2>13. res.st \in {"STANDBY", "ACTIVE"}
    BY <1>1, <2>10, SMTT(40)
  <2> QED
    BY <2>9, <2>10, <2>11, <2>12, <2>13
<1> QED
    BY <1>2, <1>3

(* CheckNodes: how the check ends and what it wrote. *)
LEMMA CheckNodesCases ==
    ASSUME TypeInv, NEW s \in Server, CheckNodes(s)
    PROVE  /\ CheckDue(s) /\ mgr[s].st \in {"STANDBY", "ACTIVE"}
           /\ UNCHANGED <<nameOf, now, cfgDelay, nextId, dbUp, main>>
           /\ faults' \in 0 .. MaxFaults /\ calm' \in Nat /\ row' \in [Name -> Row]
           /\ \E m \in Manager :
                 /\ SameCheck(m, mgr[s]) /\ m.st \in {"STANDBY", "ACTIVE", "ERROR"}
                 /\ EndCheck(s, m)
                 /\ \/ Flaky
                    \/ /\ row' = row /\ SameCount(m, mgr[s]) /\ m.nodeid = mgr[s].nodeid /\ m.fd = mgr[s].fd
                       /\ (m.st = mgr[s].st /\ ~m.dbok /\ ~dbUp[s]) \/ (m.st = "ERROR" /\ ~Owned(s))
                    \/ CheckWrote(s, m)
<1> DEFINE n == nameOf[s]
           Goal == \E m \in Manager :
                 /\ SameCheck(m, mgr[s]) /\ m.st \in {"STANDBY", "ACTIVE", "ERROR"}
                 /\ EndCheck(s, m)
                 /\ \/ Flaky
                    \/ /\ row' = row /\ SameCount(m, mgr[s]) /\ m.nodeid = mgr[s].nodeid /\ m.fd = mgr[s].fd
                       /\ (m.st = mgr[s].st /\ ~m.dbok /\ ~dbUp[s]) \/ (m.st = "ERROR" /\ ~Owned(s))
                    \/ CheckWrote(s, m)
           id1 == IF mgr[s].nodeid = 0 THEN row[n].id ELSE mgr[s].nodeid
           m1 == [mgr[s] EXCEPT !.nodeid = IF @ = 0 THEN row[n].id ELSE @, !.fd = cfgDelay]
           R == IF mgr[s].st = "ACTIVE"
                THEN [m |-> m1, st |-> mgr[s].st, lost |-> UnavailableNodes(m1.nodeid, cfgDelay)]
                ELSE CheckActiveNode(m1, cfgDelay)
<1>1. TypeOK /\ mgr[s] \in Manager /\ n \in Name /\ row \in [Name -> Row] /\ StatesOK(s)
    BY HaAssumption DEF TypeInv, TypeOK
<1>2. CheckDue(s) /\ UNCHANGED <<nameOf, now, cfgDelay, nextId, dbUp, main>> /\ mgr[s].st # "UNKNOWN"
    BY DEF CheckNodes
<1>3. mgr[s].st \in {"STANDBY", "ACTIVE"}
    BY <1>1, <1>2 DEF Ready, StatesOK, CheckDue
<1>4. CASE /\ ~dbUp[s] /\ EndCheck(s, [mgr[s] EXCEPT !.dbok = FALSE])
           /\ CountOutcome(s, "ok") /\ row' = row
  <2> DEFINE m == [mgr[s] EXCEPT !.dbok = FALSE]
  <2>1. /\ m \in Manager /\ SameCheck(m, mgr[s]) /\ SameCount(m, mgr[s]) /\ m.st = mgr[s].st
        /\ m.nodeid = mgr[s].nodeid /\ m.fd = mgr[s].fd /\ ~m.dbok
    BY <1>1 DEF Manager, SameCheck, SameCount
  <2>2. EndCheck(s, m)
    BY <1>4
  <2> HIDE DEF m
  <2>3. Goal
    BY <1>3, <1>4, <2>1, <2>2
  <2> QED
    BY <1>1, <1>2, <1>3, <1>4, <2>3, OutcomeType
<1>5. CASE /\ EndCheck(s, [mgr[s] EXCEPT !.st = "ERROR", !.dbok = TRUE])
           /\ CountOutcome(s, "ok") /\ row' = row /\ ~Owned(s)
  <2> DEFINE m == [mgr[s] EXCEPT !.st = "ERROR", !.dbok = TRUE]
  <2>1. /\ m \in Manager /\ SameCheck(m, mgr[s]) /\ SameCount(m, mgr[s]) /\ m.st = "ERROR"
        /\ m.nodeid = mgr[s].nodeid /\ m.fd = mgr[s].fd
    BY <1>1 DEF Manager, SameCheck, SameCount, Status
  <2>2. EndCheck(s, m)
    BY <1>5
  <2> HIDE DEF m
  <2>3. Goal
    BY <1>5, <2>1, <2>2
  <2> QED
    BY <1>1, <1>2, <1>3, <1>5, <2>3, OutcomeType
<1>6. CASE /\ Owned(s) /\ dbUp[s]
           /\ \E o \in Outcome :
                  /\ CountOutcome(s, o)
                  /\ Commit(o, MarkUnavailable(WriteOwn(m1.nodeid,
                                  [k \in Name |-> [row[k] EXCEPT !.lastaccess = now, !.status = R.st]]), R.lost))
                  /\ EndCheck(s, [R.m EXCEPT !.dbok = o = "ok", !.st = Result(o, mgr[s], R.st)])
  <2>1. PICK res : res = R
    OBVIOUS
  <2>2. PICK i : i = id1
    OBVIOUS
  <2>3. i \in Nat
    BY <1>1, <2>2, ManagerFields, RowFields
  <2>4. PICK mm : mm = [mgr[s] EXCEPT !.nodeid = i, !.fd = cfgDelay]
    OBVIOUS
  <2>5. /\ mm \in Manager /\ SameCheck(mm, mgr[s]) /\ SameCount(mm, mgr[s]) /\ mm.st = mgr[s].st
        /\ mm.nodeid = i /\ mm.fd = cfgDelay
    BY <1>1, <2>3, <2>4 DEF Manager, SameCheck, SameCount, TypeOK
  <2>6. mm = m1
    BY <2>2, <2>4
  <2> HIDE DEF m1
  <2>7. /\ res.m \in Manager /\ SameCheck(res.m, mgr[s]) /\ res.m.nodeid = i /\ res.m.fd = cfgDelay
        /\ res.m.st = mgr[s].st
        /\ res.st \in {"STANDBY", "ACTIVE"}
        /\ \A k \in res.lost : row[k].id # i
        /\ \A m \in Manager : m.st = res.st /\ SameCount(m, res.m) /\ m.nodeid = i
                                 => ActiveCheck(s, m, res.lost) \/ PassiveCheck(s, m, res.lost)
    <3>1. CASE mgr[s].st = "ACTIVE"
      <4>1. res = [m |-> mm, st |-> mgr[s].st, lost |-> UnavailableNodes(i, cfgDelay)]
        BY <2>1, <2>5, <2>6, <3>1
      <4>2. res.m = mm /\ res.st = "ACTIVE" /\ res.lost = UnavailableNodes(i, cfgDelay)
        BY <3>1, <4>1
      <4>3. \A k \in res.lost : row[k].id # i
        BY <4>2 DEF UnavailableNodes
      <4>4. \A m \in Manager : m.st = res.st /\ SameCount(m, res.m) /\ m.nodeid = i
                                 => ActiveCheck(s, m, res.lost)
        BY <2>5, <3>1, <4>2 DEF ActiveCheck, SameCount
      <4> QED
        BY <2>5, <3>1, <4>2, <4>3, <4>4
    <3>2. CASE mgr[s].st # "ACTIVE"
      <4>1. res = CheckActiveNode(mm, cfgDelay) /\ mgr[s].st \notin {"UNKNOWN", "ACTIVE"}
        BY <1>3, <2>1, <2>6, <3>2
      <4>2. /\ res.m \in Manager /\ SameCheck(res.m, mm) /\ res.m.nodeid = mm.nodeid /\ res.m.fd = mm.fd
            /\ res.st \in {"STANDBY", "ACTIVE"}
            /\ \A k \in res.lost : row[k].id # mm.nodeid
            /\ \A m \in Manager :
                 m.st = res.st /\ SameCount(m, res.m) /\ m.nodeid = mm.nodeid => PassiveCheck(s, m, res.lost)
        BY <1>2, <2>5, <4>1, CheckActiveNodeCases
      <4>3. res.m.st = mgr[s].st
        BY <2>5, <4>1 DEF CheckActiveNode, Manager
      <4> QED
        BY <2>5, <4>2, <4>3 DEF SameCheck
    <3> QED
      BY <3>1, <3>2
  <2> HIDE DEF R
  <2>8. PICK o \in Outcome :
                  /\ CountOutcome(s, o)
                  /\ Commit(o, MarkUnavailable(WriteOwn(i,
                                  [k \in Name |-> [row[k] EXCEPT !.lastaccess = now, !.status = res.st]]), res.lost))
                  /\ EndCheck(s, [res.m EXCEPT !.dbok = o = "ok", !.st = Result(o, mgr[s], res.st)])
    BY <1>6, <2>1, <2>5, <2>6
  <2>9. faults' \in 0 .. MaxFaults /\ calm' \in Nat /\ (o # "ok" => Flaky)
    BY <1>1, <2>8, OutcomeType DEF Outcome, Flaky
  <2>10. PICK b \in BOOLEAN : b = (o = "ok")
    OBVIOUS
  <2>11. PICK x : x = Result(o, mgr[s], res.st)
    OBVIOUS
  <2>12. x \in {"STANDBY", "ACTIVE", "ERROR"} /\ (b => x = res.st)
    <3>1. x \in {res.st, mgr[s].st, "ERROR"} /\ (o = "ok" => x = res.st)
      BY ONLY <2>11, ResultCases
    <3>2. res.st \in {"STANDBY", "ACTIVE"}
      BY <2>7
    <3> QED
      BY ONLY <1>3, <2>10, <3>1, <3>2
  <2>13. PICK m : m = [res.m EXCEPT !.dbok = b, !.st = x]
    OBVIOUS
  <2>14. EndCheck(s, m)
    BY <2>8, <2>10, <2>11, <2>13
  <2>15. PICK rm : rm = res.m
    OBVIOUS
  <2>16. /\ m \in Manager /\ SameCheck(m, rm) /\ SameCount(m, rm) /\ m.st = x /\ m.dbok = b
         /\ m.nodeid = rm.nodeid /\ m.fd = rm.fd
    <3>1. rm \in Manager /\ m = [rm EXCEPT !.dbok = b, !.st = x]
      BY <2>7, <2>13, <2>15
    <3> QED
      BY <2>12, <3>1 DEF Manager, SameCheck, SameCount, Status
  <2>17. /\ m \in Manager /\ SameCheck(m, mgr[s]) /\ SameCount(m, res.m) /\ m.st = x /\ m.dbok = b
         /\ m.nodeid = i /\ m.fd = cfgDelay
    BY <2>7, <2>15, <2>16 DEF SameCheck
  <2>18. PICK T : T = [k \in Name |-> [row[k] EXCEPT !.lastaccess = now, !.status = res.st]]
    OBVIOUS
  <2>19. PICK L : L = res.lost
    OBVIOUS
  <2>20. PICK U : U = [k \in Name |-> row[k].sess]
    OBVIOUS
  <2>21. PICK y : y = res.st
    OBVIOUS
  <2>22. y \in RowStatus /\ now \in Nat
    BY <1>1, <2>7, <2>21 DEF RowStatus, TypeOK
  <2>23. /\ T \in [Name -> Row]
         /\ \A k \in Name : /\ T[k].id = row[k].id /\ T[k].lastaccess = now
                            /\ T[k].status = y /\ T[k].sess = U[k]
    <3>1. ASSUME NEW k \in Name
          PROVE  LET r == [row[k] EXCEPT !.lastaccess = now, !.status = y]
                 IN r \in Row /\ r.id = row[k].id /\ r.lastaccess = now /\ r.sess = row[k].sess /\ r.status = y
      BY <1>1, <2>22 DEF Row
    <3> QED
      BY <2>18, <2>20, <2>21, <3>1
  <2>24. row' = MarkUnavailable(WriteOwn(i, T), L) => TableChange(i, y, U, L) /\ row' \in [Name -> Row]
    <3>1. \A k \in L : row[k].id # i
      BY <2>7, <2>19
    <3>2. SUFFICES ASSUME row' = MarkUnavailable(WriteOwn(i, T), L)
                   PROVE  TableWrite(i, y, U, L, T)
      BY <1>1, TableEffect
    <3> QED
      BY <2>23, <3>1, <3>2 DEF TableWrite
  <2>25. row' = row \/ row' = MarkUnavailable(WriteOwn(i, T), L)
    BY <2>8, <2>18, <2>19 DEF Commit
  <2>26. row' \in [Name -> Row]
    BY <1>1, <2>24, <2>25
  <2>27. Goal
    <3>1. CASE o = "ok"
      <4>1. row' = MarkUnavailable(WriteOwn(i, T), L)
        BY <2>8, <2>18, <2>19, <3>1 DEF Commit
      <4>2. TableChange(i, y, U, L) /\ b /\ x = res.st
        BY <2>10, <2>12, <2>24, <3>1, <4>1
      <4>3. TableChange(m.nodeid, m.st, [k \in Name |-> row[k].sess], L)
        BY <2>17, <2>20, <2>21, <4>2
      <4>4. ActiveCheck(s, m, L) \/ PassiveCheck(s, m, L)
        BY <2>7, <2>17, <2>19, <4>2
      <4>5. CheckWrote(s, m)
        BY <1>6, <2>2, <2>17, <4>2, <4>3, <4>4 DEF CheckWrote
      <4> QED
        BY <2>12, <2>14, <2>17, <4>5
    <3>2. CASE o # "ok"
      BY <2>9, <2>12, <2>14, <2>17, <3>2, SMTT(40)
    <3> QED
      BY <3>1, <3>2
  <2> QED
    BY <1>2, <1>3, <2>9, <2>26, <2>27
<1>7. <1>4!1 \/ <1>5!1 \/ <1>6!1
    BY DEF CheckNodes
<1> QED
    BY <1>4, <1>5, <1>6, <1>7, ZenonT(60)

(* CreateNode *)
LEMMA CreateNodeType ==
    ASSUME TypeInv, NEW s \in Server, CreateNode(s)
    PROVE  TypeInv'
<1>1. TypeOK /\ StatesOK(s) /\ mgr[s] \in Manager
    BY DEF TypeInv, TypeOK
<1>2. /\ Ready(s, "boot") \/ (CheckDue(s) /\ mgr[s].st = "UNKNOWN")
      /\ UNCHANGED <<nameOf, now, cfgDelay, dbUp, main>> /\ faults' \in 0 .. MaxFaults /\ calm' \in Nat
      /\ row' \in [Name -> Row] /\ nextId' \in Nat \ {0}
    BY CreateNodeCases
<1>3. PICK m \in Manager : m.st \in {"UNKNOWN", "ERROR"} /\ CreateEnds(s, m)
    BY CreateNodeCases
<1>4. mgr[s].pc # "off"
    BY <1>1, <1>2, <1>3 DEF Ready, CheckDue, StatesOK
<1>5. mgr' \in [Server -> Manager] /\ rtc' \in [Server -> Seq(Message)] /\ \A t \in Server : StatesOK(t)'
  <2>1. CASE EndCheck(s, m)
    BY <1>2, <1>3, <1>4, <2>1, CheckTypes
  <2>2. CASE /\ m.st # "ERROR" /\ rtc' = rtc
             /\ mgr' = [mgr EXCEPT ![s] = [m EXCEPT !.pc = "register", !.hung = FALSE]]
    <3> DEFINE m2 == [m EXCEPT !.pc = "register", !.hung = FALSE]
    <3>1. m2 \in Manager /\ m2.pc = "register" /\ m2.st = "UNKNOWN"
      BY <1>3, <2>2 DEF Manager
    <3> HIDE DEF m2
    <3>2. mgr' = [mgr EXCEPT ![s] = m2]
      BY <2>2 DEF m2
    <3>3. mgr' \in [Server -> Manager] /\ mgr'[s] = m2 /\ \A t \in Server \ {s} : mgr'[t] = mgr[t]
      BY <1>1, <3>1, <3>2 DEF TypeOK
    <3>4. StatesOK(s)'
      BY <1>1, <1>2, <1>4, <3>1, <3>3 DEF StatesOK
    <3> QED
      BY <1>1, <1>2, <2>2, <3>3, <3>4, StatesFrame DEF TypeOK
  <2> QED
    BY <1>3, <2>1, <2>2 DEF CreateEnds
<1> QED
    BY <1>1, <1>2, <1>5 DEF TypeInv, TypeOK

(* RegisterNode *)
LEMMA RegisterNodeType ==
    ASSUME TypeInv, NEW s \in Server, RegisterNode(s)
    PROVE  TypeInv'
<1>1. /\ Ready(s, "register") /\ UNCHANGED <<nameOf, now, cfgDelay, nextId, dbUp, main>>
      /\ faults' \in 0 .. MaxFaults /\ calm' \in Nat /\ row' \in [Name -> Row]
    BY RegisterNodeCases
<1>2. PICK m \in Manager : m.st \in {"UNKNOWN", "STANDBY", "ACTIVE", "ERROR"} /\ EndCheck(s, m)
    BY RegisterNodeCases
<1>3. mgr[s].pc # "off"
    BY <1>1 DEF Ready
<1>4. mgr' \in [Server -> Manager] /\ rtc' \in [Server -> Seq(Message)] /\ \A t \in Server : StatesOK(t)'
    BY <1>1, <1>2, <1>3, CheckTypes
<1> QED
    BY <1>1, <1>4 DEF TypeInv, TypeOK

(* CheckNodes *)
LEMMA CheckNodesType ==
    ASSUME TypeInv, NEW s \in Server, CheckNodes(s)
    PROVE  TypeInv'
<1>1. /\ CheckDue(s) /\ UNCHANGED <<nameOf, now, cfgDelay, nextId, dbUp, main>>
      /\ faults' \in 0 .. MaxFaults /\ calm' \in Nat /\ row' \in [Name -> Row]
    BY CheckNodesCases
<1>2. PICK m \in Manager : m.st \in {"UNKNOWN", "STANDBY", "ACTIVE", "ERROR"} /\ EndCheck(s, m)
    BY CheckNodesCases
<1>3. mgr[s].pc # "off"
    BY <1>1 DEF Ready, CheckDue
<1>4. mgr' \in [Server -> Manager] /\ rtc' \in [Server -> Seq(Message)] /\ \A t \in Server : StatesOK(t)'
    BY <1>1, <1>2, <1>3, CheckTypes
<1> QED
    BY <1>1, <1>4 DEF TypeInv, TypeOK

(* What a pause does to the row of the manager, and the end of it. *)
LEMMA OwnRowType ==
    ASSUME TypeOK, NEW id, NEW st \in RowStatus
    PROVE  /\ WriteOwn(id, [k \in Name |-> [row[k] EXCEPT !.lastaccess = now]]) \in [Name -> Row]
           /\ WriteOwn(id, [k \in Name |-> [row[k] EXCEPT !.status = st, !.lastaccess = now]]) \in [Name -> Row]
           /\ \A n \in Name :
                 LET r == WriteOwn(id, [k \in Name |-> [row[k] EXCEPT !.lastaccess = now]])[n]
                     q == WriteOwn(id, [k \in Name |-> [row[k] EXCEPT !.status = st, !.lastaccess = now]])[n]
                 IN /\ r.id = row[n].id /\ q.id = row[n].id /\ r.status = row[n].status
                    /\ r.lastaccess \in {row[n].lastaccess, now} /\ q.lastaccess \in {row[n].lastaccess, now}
                    /\ q.status \in {row[n].status, st}
                    /\ ~(row[n].id = id /\ id # 0) => r = row[n] /\ q = row[n]
<1>1. PICK f : f = [k \in Name |-> [row[k] EXCEPT !.lastaccess = now]]
    OBVIOUS
<1>2. PICK g : g = [k \in Name |-> [row[k] EXCEPT !.status = st, !.lastaccess = now]]
    OBVIOUS
<1>3. ASSUME NEW k \in Name
      PROVE  /\ f[k] \in Row /\ f[k].id = row[k].id /\ f[k].status = row[k].status /\ f[k].lastaccess = now
             /\ g[k] \in Row /\ g[k].id = row[k].id /\ g[k].status = st /\ g[k].lastaccess = now
    BY <1>1, <1>2 DEF TypeOK, Row
<1>4. f \in [Name -> Row] /\ g \in [Name -> Row]
    BY <1>1, <1>2, <1>3
<1>5. /\ WriteOwn(id, f) \in [Name -> Row] /\ WriteOwn(id, g) \in [Name -> Row]
      /\ \A n \in Name : WriteOwn(id, f)[n] = IF row[n].id = id /\ id # 0 THEN f[n] ELSE row[n]
      /\ \A n \in Name : WriteOwn(id, g)[n] = IF row[n].id = id /\ id # 0 THEN g[n] ELSE row[n]
    BY <1>4, WriteOwnType
<1> QED
    BY <1>1, <1>2, <1>3, <1>5, ZenonT(60)

(* A step that changes one manager only. *)
LEMMA ManagerStepType ==
    ASSUME TypeInv, NEW s \in Server, NEW m \in Manager, mgr' = [mgr EXCEPT ![s] = m], main' = main,
           m.pc = "idle" => m.st \in {"UNKNOWN", "STANDBY", "ACTIVE"},
           m.pc \in {"boot", "register"} => m.st = "UNKNOWN",
           m.pc = "off" <=> mgr[s].pc = "off"
    PROVE  /\ mgr' \in [Server -> Manager] /\ mgr'[s] = m
           /\ \A t \in Server \ {s} : mgr'[t] = mgr[t]
           /\ \A t \in Server : StatesOK(t)'
<1>1. TypeOK /\ StatesOK(s)
    BY DEF TypeInv
<1>2. mgr' \in [Server -> Manager] /\ mgr'[s] = m /\ \A t \in Server \ {s} : mgr'[t] = mgr[t]
    BY <1>1 DEF TypeOK
<1>3. StatesOK(s)'
    BY <1>1, <1>2 DEF StatesOK
<1> QED
    BY <1>2, <1>3, StatesFrame

(* PauseTick *)
LEMMA PauseTickCases ==
    ASSUME TypeInv, NEW s \in Server, PauseTick(s)
    PROVE  /\ TypeInv' /\ UNCHANGED <<nameOf, now, cfgDelay, nextId, dbUp, main, rtc, faults, calm>>
           /\ mgr[s].pc = "pause" /\ mgr'[s].pc = "pause" /\ mgr'[s].st = mgr[s].st
           /\ mgr'[s].nodeid = mgr[s].nodeid /\ mgr'[s].fd = mgr[s].fd
           /\ mgr'[s].wait # 0 /\ mgr'[s].hung = mgr[s].hung /\ mgr'[s].removing = mgr[s].removing
           /\ \A t \in Server \ {s} : mgr'[t] = mgr[t]
           /\ \A n \in Name : /\ row'[n].id = row[n].id /\ row'[n].status = row[n].status
                              /\ row'[n].lastaccess \in {row[n].lastaccess, now}
                              /\ ~(row[n].id = mgr[s].nodeid /\ mgr[s].nodeid # 0) => row'[n] = row[n]
<1>1. TypeOK /\ StatesOK(s) /\ mgr[s] \in Manager
    BY DEF TypeInv, TypeOK
<1>2. PICK w : w = IF mgr[s].wait <= 1 THEN Poll ELSE mgr[s].wait - 1
    OBVIOUS
<1>3. w \in 0 .. 3 * Poll /\ w # 0
    BY <1>1, <1>2, ManagerFields, Constants
<1>4. PICK b : b = IF mgr[s].wait = 1 /\ mgr[s].st \in {"STANDBY", "ACTIVE"} THEN dbUp[s] ELSE mgr[s].dbok
    OBVIOUS
<1>5. b \in BOOLEAN
    BY <1>1, <1>4, ManagerFields DEF TypeOK
<1>6. PICK m : m = [mgr[s] EXCEPT !.wait = w, !.ticked = TRUE, !.dbok = b]
    OBVIOUS
<1>7. /\ m \in Manager /\ m.pc = mgr[s].pc /\ m.st = mgr[s].st /\ m.nodeid = mgr[s].nodeid
      /\ m.fd = mgr[s].fd /\ m.wait = w /\ m.hung = mgr[s].hung /\ m.removing = mgr[s].removing
    BY <1>1, <1>3, <1>5, <1>6 DEF Manager
<1>8. mgr' = [mgr EXCEPT ![s] = m]
    BY <1>1, <1>2, <1>4, <1>6 DEF PauseTick, TypeOK
<1>9. /\ mgr[s].pc = "pause" /\ UNCHANGED <<nameOf, now, cfgDelay, nextId, dbUp, main, rtc, faults, calm>>
      /\ row' = row \/ row' = WriteOwn(mgr[s].nodeid, [k \in Name |-> [row[k] EXCEPT !.lastaccess = now]])
    BY DEF PauseTick
<1>10. /\ mgr' \in [Server -> Manager] /\ mgr'[s] = m
       /\ \A t \in Server \ {s} : mgr'[t] = mgr[t]
       /\ \A t \in Server : StatesOK(t)'
    BY <1>7, <1>8, <1>9, ManagerStepType
<1>11. /\ row' \in [Name -> Row]
       /\ \A n \in Name : /\ row'[n].id = row[n].id /\ row'[n].status = row[n].status
                          /\ row'[n].lastaccess \in {row[n].lastaccess, now}
                          /\ ~(row[n].id = mgr[s].nodeid /\ mgr[s].nodeid # 0) => row'[n] = row[n]
  <2>1. CASE row' = row
    BY <1>1, <2>1 DEF TypeOK
  <2>2. CASE row' = WriteOwn(mgr[s].nodeid, [k \in Name |-> [row[k] EXCEPT !.lastaccess = now]])
    <3>1. PICK i : i = mgr[s].nodeid
      OBVIOUS
    <3>2. "STOPPED" \in RowStatus
      BY DEF RowStatus
    <3> QED
      BY <1>1, <2>2, <3>1, <3>2, OwnRowType
  <2> QED
    BY <1>9, <2>1, <2>2
<1>12. TypeInv'
    BY <1>1, <1>9, <1>10, <1>11 DEF TypeInv, TypeOK
<1> QED
    BY <1>3, <1>7, <1>9, <1>10, <1>11, <1>12

(* RemoveNode *)
LEMMA RemoveNodeCases ==
    ASSUME TypeInv, NEW s \in Server, NEW n \in Name, RemoveNode(s, n)
    PROVE  /\ TypeInv' /\ UNCHANGED <<nameOf, now, cfgDelay, row, nextId, dbUp, main, rtc>>
           /\ Commandable(s)
           /\ \E b \in BOOLEAN, i \in Nat :
                 /\ mgr'[s] = [mgr[s] EXCEPT !.dbok = b, !.removing = i]
                 /\ i = mgr[s].removing \/ (i = row[n].id /\ row[n] # NoRow /\ row[n].status # "ACTIVE")
           /\ \A t \in Server \ {s} : mgr'[t] = mgr[t]
<1>1. TypeOK /\ StatesOK(s) /\ mgr[s] \in Manager /\ row[n] \in Row
    BY DEF TypeInv, TypeOK
<1>2. PICK b \in BOOLEAN : b = dbUp[s]
    BY <1>1 DEF TypeOK
<1>3. PICK i : i = IF b THEN row[n].id ELSE mgr[s].removing
    OBVIOUS
<1>4. i \in Nat
    BY <1>1, <1>3, ManagerFields, RowFields
<1>5. PICK m : m = [mgr[s] EXCEPT !.dbok = b, !.removing = i]
    OBVIOUS
<1>6. m \in Manager /\ m.pc = mgr[s].pc /\ m.st = mgr[s].st
    BY <1>1, <1>4, <1>5 DEF Manager
<1>7. mgr' = [mgr EXCEPT ![s] = m]
  <2>1. CASE b
    BY <1>1, <1>2, <1>3, <1>5, <2>1 DEF RemoveNode, TypeOK
  <2>2. CASE ~b
    <3>1. m = [mgr[s] EXCEPT !.dbok = FALSE]
      BY <1>1, <1>3, <1>5, <2>2 DEF Manager
    <3> QED
      BY <1>1, <1>2, <2>2, <3>1 DEF RemoveNode, TypeOK
  <2> QED
    BY <2>1, <2>2
<1>8. /\ UNCHANGED <<nameOf, now, cfgDelay, row, nextId, dbUp, main, rtc>> /\ Fault("remove")
      /\ Commandable(s) /\ (b => row[n] # NoRow /\ row[n].status # "ACTIVE")
    BY <1>2 DEF RemoveNode, Rows
<1>9. /\ mgr' \in [Server -> Manager] /\ mgr'[s] = m
      /\ \A t \in Server \ {s} : mgr'[t] = mgr[t]
      /\ \A t \in Server : StatesOK(t)'
    BY <1>1, <1>6, <1>7, <1>8, ManagerStepType DEF StatesOK
<1>10. faults' \in 0 .. MaxFaults /\ calm' \in Nat
    BY <1>1, <1>8, FaultType
<1>11. TypeInv'
    BY <1>1, <1>8, <1>9, <1>10 DEF TypeInv, TypeOK
<1> QED
    BY <1>3, <1>4, <1>5, <1>8, <1>9, <1>11

(* DeleteNode *)
LEMMA DeleteNodeCases ==
    ASSUME TypeInv, NEW s \in Server, DeleteNode(s)
    PROVE  /\ TypeInv' /\ UNCHANGED <<nameOf, now, cfgDelay, nextId, dbUp, main, rtc>>
           /\ mgr[s].removing # 0
           /\ \E b \in BOOLEAN : mgr'[s] = [mgr[s] EXCEPT !.dbok = b, !.removing = 0]
           /\ \A t \in Server \ {s} : mgr'[t] = mgr[t]
           /\ \A n \in Name : row'[n] = row[n] \/ (row'[n] = NoRow /\ row[n].id = mgr[s].removing)
<1>1. TypeOK /\ StatesOK(s) /\ mgr[s] \in Manager
    BY DEF TypeInv, TypeOK
<1>2. PICK b \in BOOLEAN : b = dbUp[s]
    BY <1>1 DEF TypeOK
<1>3. PICK m : m = [mgr[s] EXCEPT !.dbok = b, !.removing = 0]
    OBVIOUS
<1>4. m \in Manager /\ m.pc = mgr[s].pc /\ m.st = mgr[s].st
    BY <1>1, <1>3 DEF Manager
<1>5. mgr' = [mgr EXCEPT ![s] = m]
    BY <1>1, <1>2, <1>3 DEF DeleteNode, TypeOK
<1>6. /\ UNCHANGED <<nameOf, now, cfgDelay, nextId, dbUp, main, rtc, faults, calm>> /\ mgr[s].removing # 0
      /\ \/ row' = row
         \/ row' = [n \in Name |-> IF row[n].id = mgr[s].removing THEN NoRow ELSE row[n]]
    BY DEF DeleteNode
<1>7. /\ mgr' \in [Server -> Manager] /\ mgr'[s] = m
      /\ \A t \in Server \ {s} : mgr'[t] = mgr[t]
      /\ \A t \in Server : StatesOK(t)'
    BY <1>1, <1>4, <1>5, <1>6, ManagerStepType DEF StatesOK
<1>8. /\ row' \in [Name -> Row]
      /\ \A n \in Name : row'[n] = row[n] \/ (row'[n] = NoRow /\ row[n].id = mgr[s].removing)
    BY <1>1, <1>6, NoRowType DEF TypeOK
<1>9. TypeInv'
    BY <1>1, <1>6, <1>7, <1>8 DEF TypeInv, TypeOK
<1> QED
    BY <1>3, <1>6, <1>7, <1>8, <1>9

(* SetFailoverDelay *)
LEMMA SetFailoverDelayType ==
    ASSUME TypeInv, NEW s \in Server, NEW d \in Delays, SetFailoverDelay(s, d)
    PROVE  TypeInv' /\ "delay" \in FaultKinds
<1>1. TypeOK /\ StatesOK(s) /\ mgr[s] \in Manager
    BY DEF TypeInv, TypeOK
<1>2. PICK b \in BOOLEAN : b = (mgr[s].dbok /\ dbUp[s])
    OBVIOUS
<1>3. PICK f : f = IF b THEN d ELSE mgr[s].fd
    OBVIOUS
<1>4. f \in Delays
    BY <1>1, <1>3, ManagerFields
<1>5. PICK m : m = [mgr[s] EXCEPT !.fd = f, !.dbok = b]
    OBVIOUS
<1>6. m \in Manager /\ m.pc = mgr[s].pc /\ m.st = mgr[s].st
    BY <1>1, <1>4, <1>5 DEF Manager
<1>7. /\ mgr' = [mgr EXCEPT ![s] = m]
      /\ rtc' = [rtc EXCEPT ![s] = Post(rtc[s], Update(mgr[s].st, f))]
      /\ cfgDelay' = IF b THEN d ELSE cfgDelay
    BY <1>1, <1>2, <1>3, <1>5 DEF SetFailoverDelay, TypeOK
<1>8. UNCHANGED <<nameOf, now, row, nextId, dbUp, main>> /\ Fault("delay")
    BY DEF SetFailoverDelay
<1>9. mgr' \in [Server -> Manager] /\ \A t \in Server : StatesOK(t)'
    BY <1>1, <1>6, <1>7, <1>8, ManagerStepType DEF StatesOK
<1>10. rtc' \in [Server -> Seq(Message)]
  <2>1. rtc[s] \in Seq(Message) /\ Update(mgr[s].st, f) \in Message
    BY <1>1, <1>4, MessageFields, ManagerFields DEF TypeOK
  <2>2. Post(rtc[s], Update(mgr[s].st, f)) \in Seq(Message)
    BY <2>1, PostSeq
  <2> QED
    BY <1>1, <1>7, <2>2 DEF TypeOK
<1>11. faults' \in 0 .. MaxFaults /\ calm' \in Nat /\ "delay" \in FaultKinds
    BY <1>1, <1>8, FaultType
<1> QED
    BY <1>1, <1>7, <1>8, <1>9, <1>10, <1>11 DEF TypeInv, TypeOK

(* The server s is down, and the manager of s is a new one in standby mode. *)
IsDown(s) ==
    /\ main'[s].phase = "off" /\ main'[s].old = "UNKNOWN" /\ main'[s].inc = main[s].inc
    /\ mgr'[s].pc = "off" /\ mgr'[s].st = "UNKNOWN" /\ mgr'[s].nodeid = 0 /\ mgr'[s].wait = 0
    /\ mgr'[s].seen = 0 /\ mgr'[s].off = 0 /\ ~mgr'[s].hung /\ rtc'[s] = << >> /\ mgr'[s].removing = 0
IsFresh(s) ==
    /\ mgr'[s].pc = "idle" /\ mgr'[s].st = "STANDBY" /\ mgr'[s].nodeid = 0 /\ mgr'[s].wait = 3 * Poll
    /\ mgr'[s].seen = 0 /\ mgr'[s].off = 0 /\ ~mgr'[s].hung /\ rtc'[s] = << >> /\ mgr'[s].removing = 0
OthersKept(s) == \A t \in Server \ {s} : mgr'[t] = mgr[t] /\ main'[t] = main[t] /\ rtc'[t] = rtc[t]
ProcessTypes == /\ mgr' \in [Server -> Manager] /\ main' \in [Server -> MainProcess]
                /\ rtc' \in [Server -> Seq(Message)] /\ \A t \in Server : StatesOK(t)'

(* Both processes end. *)
LEMMA DownEffect ==
    ASSUME TypeInv, NEW s \in Server, Down(s)
    PROVE  ProcessTypes /\ IsDown(s) /\ OthersKept(s)
<1>1. TypeOK /\ StatesOK(s) /\ main[s] \in MainProcess
    BY DEF TypeInv, TypeOK
<1>2. PICK p : p = [NoMain EXCEPT !.inc = main[s].inc]
    OBVIOUS
<1>3. p \in MainProcess /\ p.phase = "off" /\ p.old = "UNKNOWN" /\ p.inc = main[s].inc
    BY <1>1, <1>2, MainFields, NewTypes DEF MainProcess, NoMain
<1>4. PICK m : m = NewManager("off", "UNKNOWN", 0)
    OBVIOUS
<1>5. /\ m \in Manager /\ m.pc = "off" /\ m.st = "UNKNOWN" /\ m.nodeid = 0 /\ m.wait = 0
      /\ m.seen = 0 /\ m.off = 0 /\ ~m.hung /\ m.removing = 0
    BY <1>4, NewTypes DEF NewManager
<1>6. main' = [main EXCEPT ![s] = p] /\ mgr' = [mgr EXCEPT ![s] = m] /\ rtc' = [rtc EXCEPT ![s] = << >>]
    BY <1>2, <1>4 DEF Down
<1>7. << >> \in Seq(Message)
    OBVIOUS
<1>8. /\ mgr' \in [Server -> Manager] /\ main' \in [Server -> MainProcess] /\ rtc' \in [Server -> Seq(Message)]
      /\ mgr'[s] = m /\ main'[s] = p /\ rtc'[s] = << >> /\ OthersKept(s)
    BY <1>1, <1>3, <1>5, <1>6, <1>7 DEF TypeOK, OthersKept
<1>9. StatesOK(s)'
    BY <1>3, <1>5, <1>8 DEF StatesOK
<1>10. \A t \in Server : StatesOK(t)'
    BY <1>8, <1>9, StatesFrame DEF OthersKept
<1> QED
    BY <1>3, <1>5, <1>8, <1>10 DEF ProcessTypes, IsDown

(* The manager is restarted while the main process goes on as p. *)
LEMMA RestartEffect ==
    ASSUME TypeInv, NEW s \in Server, RestartManager(s), NEW p \in MainProcess, main' = [main EXCEPT ![s] = p],
           p.phase = "run", p.inc = main[s].inc, main[s].phase # "off"
    PROVE  ProcessTypes /\ IsFresh(s) /\ OthersKept(s) /\ main'[s] = p
<1>1. TypeOK /\ StatesOK(s) /\ main[s] \in MainProcess
    BY DEF TypeInv, TypeOK
<1>4. PICK m : m = NewManager("idle", "STANDBY", 3 * Poll)
    OBVIOUS
<1>5. /\ m \in Manager /\ m.pc = "idle" /\ m.st = "STANDBY" /\ m.nodeid = 0 /\ m.wait = 3 * Poll
      /\ m.seen = 0 /\ m.off = 0 /\ ~m.hung /\ m.removing = 0
    BY <1>4, NewTypes DEF NewManager
<1>6. mgr' = [mgr EXCEPT ![s] = m] /\ rtc' = [rtc EXCEPT ![s] = << >>]
    BY <1>4 DEF RestartManager
<1>7. << >> \in Seq(Message)
    OBVIOUS
<1>8. /\ mgr' \in [Server -> Manager] /\ main' \in [Server -> MainProcess] /\ rtc' \in [Server -> Seq(Message)]
      /\ mgr'[s] = m /\ main'[s] = p /\ rtc'[s] = << >> /\ OthersKept(s)
    BY <1>1, <1>5, <1>6, <1>7 DEF TypeOK, OthersKept
<1>9. StatesOK(s)'
    BY <1>1, <1>5, <1>8 DEF StatesOK
<1>10. \A t \in Server : StatesOK(t)'
    BY <1>8, <1>9, StatesFrame DEF OthersKept
<1> QED
    BY <1>5, <1>8, <1>10 DEF ProcessTypes, IsFresh

(* The main process goes on as p, with messages q, and the manager as it is. *)
LEMMA MainEffect ==
    ASSUME TypeInv, NEW s \in Server, NEW p \in MainProcess, NEW q \in Seq(Message),
           main' = [main EXCEPT ![s] = p], mgr' = mgr, rtc' = [rtc EXCEPT ![s] = q],
           p.phase # "off", p.inc = main[s].inc, main[s].phase # "off"
    PROVE  ProcessTypes /\ OthersKept(s) /\ main'[s] = p /\ rtc'[s] = q /\ mgr'[s] = mgr[s]
<1>1. TypeOK /\ StatesOK(s)
    BY DEF TypeInv
<1>2. /\ mgr' \in [Server -> Manager] /\ main' \in [Server -> MainProcess] /\ rtc' \in [Server -> Seq(Message)]
      /\ mgr'[s] = mgr[s] /\ main'[s] = p /\ rtc'[s] = q /\ OthersKept(s)
    BY <1>1 DEF TypeOK, OthersKept
<1>3. StatesOK(s)'
    BY <1>1, <1>2 DEF StatesOK
<1>4. \A t \in Server : StatesOK(t)'
    BY <1>2, <1>3, StatesFrame DEF OthersKept
<1> QED
    BY <1>2, <1>4 DEF ProcessTypes

(* Start *)
LEMMA StartCases ==
    ASSUME TypeInv, NEW s \in Server, Start(s)
    PROVE  /\ TypeInv' /\ UNCHANGED <<nameOf, now, cfgDelay, row, nextId, dbUp, faults>>
           /\ main'[s].phase = "boot" /\ main'[s].ha = "UNKNOWN" /\ main'[s].old = "UNKNOWN"
           /\ main'[s].hb = 0 /\ main'[s].busy = ServiceTimeout
           /\ mgr'[s].pc = "boot" /\ mgr'[s].st = "UNKNOWN" /\ mgr'[s].nodeid = 0 /\ mgr'[s].wait = 0
           /\ mgr'[s].seen = 0 /\ mgr'[s].off = 0 /\ ~mgr'[s].hung /\ ~mgr'[s].ticked
           /\ mgr'[s].removing = 0 /\ rtc'[s] = << >> /\ OthersKept(s)
<1>1. TypeOK /\ StatesOK(s) /\ main[s] \in MainProcess
    BY DEF TypeInv, TypeOK
<1>2. PICK p : p = [NoMain EXCEPT !.phase = "boot", !.inc = main[s].inc + 1, !.busy = ServiceTimeout]
    OBVIOUS
<1>3. /\ p \in MainProcess /\ p.phase = "boot" /\ p.old = "UNKNOWN" /\ p.ha = "UNKNOWN"
      /\ p.hb = 0 /\ p.inc > 0 /\ p.busy = ServiceTimeout
  <2>1. main[s].inc + 1 \in 0 .. MaxStarts /\ main[s].inc + 1 > 0 /\ ServiceTimeout \in Nat /\ DefaultDelay \in Delays
    BY <1>1, MainFields, Constants DEF Start
  <2> QED
    BY <1>2, <2>1 DEF MainProcess, NoMain, Status
<1>4. PICK m : m = NewManager("boot", "UNKNOWN", 0)
    OBVIOUS
<1>5. /\ m \in Manager /\ m.pc = "boot" /\ m.st = "UNKNOWN" /\ m.nodeid = 0 /\ m.wait = 0
      /\ m.seen = 0 /\ m.off = 0 /\ ~m.hung /\ ~m.ticked /\ m.removing = 0
    BY <1>4, NewTypes DEF NewManager
<1>6. main' = [main EXCEPT ![s] = p] /\ mgr' = [mgr EXCEPT ![s] = m] /\ rtc' = [rtc EXCEPT ![s] = << >>]
    BY <1>2, <1>4 DEF Start
<1>7. << >> \in Seq(Message)
    OBVIOUS
<1>8. /\ mgr' \in [Server -> Manager] /\ main' \in [Server -> MainProcess] /\ rtc' \in [Server -> Seq(Message)]
      /\ mgr'[s] = m /\ main'[s] = p /\ rtc'[s] = << >> /\ OthersKept(s)
    BY <1>1, <1>3, <1>5, <1>6, <1>7 DEF TypeOK, OthersKept
<1>9. StatesOK(s)'
    BY <1>3, <1>5, <1>8 DEF StatesOK
<1>10. \A t \in Server : StatesOK(t)'
    BY <1>8, <1>9, StatesFrame DEF OthersKept
<1>11. UNCHANGED <<nameOf, now, cfgDelay, row, nextId, dbUp, faults>> /\ calm' = now
    BY DEF Start
<1>12. TypeInv'
    BY <1>1, <1>8, <1>10, <1>11 DEF TypeInv, TypeOK
<1> QED
    BY <1>3, <1>5, <1>8, <1>11, <1>12

(* The types of everything else. *)
LEMMA RestTypes ==
    ASSUME TypeInv, ProcessTypes, UNCHANGED <<nameOf, now, cfgDelay, row, nextId, dbUp>>,
           faults' \in 0 .. MaxFaults, calm' \in Nat
    PROVE  TypeInv'
BY DEF TypeInv, TypeOK, ProcessTypes

(* StartupDone *)
LEMMA StartupDoneCases ==
    ASSUME TypeInv, NEW s \in Server, StartupDone(s)
    PROVE  /\ TypeInv' /\ UNCHANGED <<nameOf, now, cfgDelay, row, nextId, dbUp, mgr, rtc>> /\ OthersKept(s)
           /\ main[s].phase = "startup" /\ main[s].busy = 0 /\ main'[s].phase = "asking"
           /\ main'[s].ha = main[s].ha /\ main'[s].old = main[s].old /\ main'[s].hb = main[s].hb
           /\ main'[s].fd = main[s].fd /\ main'[s].inc = main[s].inc
<1>1. TypeOK /\ StatesOK(s) /\ main[s] \in MainProcess /\ rtc[s] \in Seq(Message)
    BY DEF TypeInv, TypeOK
<1>2. PICK p : p = [main[s] EXCEPT !.phase = "asking", !.busy = ServiceTimeout]
    OBVIOUS
<1>3. /\ p \in MainProcess /\ p.phase = "asking" /\ p.ha = main[s].ha /\ p.old = main[s].old
      /\ p.hb = main[s].hb /\ p.fd = main[s].fd /\ p.inc = main[s].inc
    BY <1>1, <1>2, Constants DEF MainProcess
<1>4. /\ main' = [main EXCEPT ![s] = p] /\ main[s].phase = "startup" /\ main[s].busy = 0
      /\ UNCHANGED <<nameOf, now, cfgDelay, row, nextId, dbUp, mgr, rtc, faults, calm>>
    BY <1>1, <1>2 DEF StartupDone, TypeOK
<1>5. PICK q : q = rtc[s]
    OBVIOUS
<1>6. rtc' = [rtc EXCEPT ![s] = q] /\ q \in Seq(Message) /\ p.phase # "off" /\ main[s].phase # "off" /\ mgr' = mgr
    BY <1>1, <1>3, <1>4, <1>5 DEF TypeOK
<1>7. ProcessTypes /\ OthersKept(s) /\ main'[s] = p
    BY <1>3, <1>4, <1>6, MainEffect
<1>8. faults' \in 0 .. MaxFaults /\ calm' \in Nat
    BY <1>1, <1>4 DEF TypeOK
<1>9. UNCHANGED <<nameOf, now, cfgDelay, row, nextId, dbUp>>
    BY <1>4
<1> QED
    BY <1>3, <1>4, <1>7, <1>8, <1>9, RestTypes

(* What the main process is after it has obtained the status. *)
Obtained(s, p) ==
    /\ p.ha = StatusReply(s).ha /\ p.old = p.ha /\ p.fd = StatusReply(s).fd
    /\ p.inc = main[s].inc /\ p.hb = main[s].hb /\ p.polled = main[s].polled

(* ObtainStatus *)
LEMMA ObtainStatusCases ==
    ASSUME TypeInv, NEW s \in Server, ObtainStatus(s)
    PROVE  /\ TypeInv' /\ UNCHANGED <<nameOf, now, cfgDelay, row, nextId, dbUp>> /\ OthersKept(s)
           /\ main[s].phase \in {"boot", "asking"} /\ (Answers(s) \/ main[s].busy = 0)
           /\ \/ IsDown(s)
              \/ \E p \in MainProcess :
                   /\ Obtained(s, p) /\ main'[s] = p
                   /\ \/ /\ p.ha = "ACTIVE" /\ main[s].phase = "boot" /\ p.phase = "startup"
                         /\ p.busy \in 0 .. MaxStartup /\ mgr'[s] = mgr[s] /\ rtc'[s] = rtc[s]
                      \/ /\ p.ha = "ACTIVE" /\ main[s].phase # "boot" /\ p.phase = "run"
                         /\ mgr'[s] = mgr[s] /\ rtc'[s] = rtc[s]
                      \/ /\ p.ha \notin {"ERROR", "ACTIVE"} /\ main[s].phase = "boot" /\ p.phase = "run"
                         /\ mgr'[s] = mgr[s] /\ rtc'[s] = rtc[s]
                      \/ /\ p.ha \notin {"ERROR", "ACTIVE"} /\ main[s].phase # "boot" /\ p.phase = "run"
                         /\ IsFresh(s)
<1>1. TypeOK /\ StatesOK(s) /\ main[s] \in MainProcess /\ rtc[s] \in Seq(Message) /\ mgr[s] \in Manager
    BY DEF TypeInv, TypeOK
<1>2. PICK a : a = StatusReply(s)
    OBVIOUS
<1>3. a.ha \in Status /\ a.fd \in Delays
    BY <1>1, <1>2, ManagerFields, MainFields DEF StatusReply, Status
<1>4. PICK p : p = [main[s] EXCEPT !.phase = "run", !.ha = a.ha, !.old = a.ha, !.fd = a.fd, !.busy = 0]
    OBVIOUS
<1>5. p \in MainProcess /\ p.phase = "run" /\ Obtained(s, p)
    BY <1>1, <1>2, <1>3, <1>4 DEF MainProcess, Obtained
<1>6. /\ UNCHANGED <<nameOf, now, cfgDelay, row, nextId, dbUp, faults, calm>>
      /\ main[s].phase \in {"boot", "asking"} /\ (Answers(s) \/ main[s].busy = 0)
      /\ \/ a.ha = "ERROR" /\ Down(s)
         \/ a.ha = "ACTIVE" /\ main[s].phase = "boot" /\ BeginStartup(s, p) /\ UNCHANGED <<mgr, rtc>>
         \/ a.ha = "ACTIVE" /\ main[s].phase # "boot" /\ main' = [main EXCEPT ![s] = p] /\ UNCHANGED <<mgr, rtc>>
         \/ /\ a.ha \notin {"ERROR", "ACTIVE"}
            /\ main' = [main EXCEPT ![s] = p]
            /\ IF main[s].phase = "boot" THEN UNCHANGED <<mgr, rtc>> ELSE RestartManager(s)
    BY <1>2, <1>4 DEF ObtainStatus
<1>7. faults' \in 0 .. MaxFaults /\ calm' \in Nat /\ UNCHANGED <<nameOf, now, cfgDelay, row, nextId, dbUp>>
    BY <1>1, <1>6 DEF TypeOK
<1>8. PICK q : q = rtc[s]
    OBVIOUS
<1>9. q \in Seq(Message) /\ rtc = [rtc EXCEPT ![s] = q]
    BY <1>1, <1>8 DEF TypeOK
<1>10. CASE Down(s)
  <2>1. ProcessTypes /\ IsDown(s) /\ OthersKept(s)
    BY <1>10, DownEffect
  <2> QED
    BY <1>6, <1>7, <2>1, RestTypes
<1>11. CASE a.ha = "ACTIVE" /\ main[s].phase = "boot" /\ BeginStartup(s, p) /\ UNCHANGED <<mgr, rtc>>
  <2>1. PICK d \in 0 .. MaxStartup : main' = [main EXCEPT ![s] = [p EXCEPT !.phase = "startup", !.busy = d]]
    BY <1>11 DEF BeginStartup
  <2>2. PICK p2 : p2 = [p EXCEPT !.phase = "startup", !.busy = d]
    OBVIOUS
  <2>3. p2 \in MainProcess /\ p2.phase = "startup" /\ p2.busy = d /\ Obtained(s, p2) /\ p2.inc = main[s].inc
    <3>1. d \in Nat
      BY Constants
    <3>2. /\ p2 \in MainProcess /\ p2.phase = "startup" /\ p2.busy = d
          /\ p2.ha = p.ha /\ p2.old = p.old /\ p2.fd = p.fd /\ p2.inc = p.inc
          /\ p2.hb = p.hb /\ p2.polled = p.polled
      BY <1>5, <2>2, <3>1 DEF MainProcess
    <3> QED
      BY <1>5, <3>2 DEF Obtained
  <2>4. main' = [main EXCEPT ![s] = p2] /\ mgr' = mgr /\ rtc' = [rtc EXCEPT ![s] = q]
    BY <1>9, <1>11, <2>1, <2>2
  <2>5. ProcessTypes /\ OthersKept(s) /\ main'[s] = p2 /\ mgr'[s] = mgr[s] /\ rtc'[s] = q
    BY <1>9, <1>11, <2>3, <2>4, MainEffect, ZenonT(60)
  <2>6. p2.ha = "ACTIVE"
    BY <1>2, <1>11, <2>3 DEF Obtained
  <2>7. TypeInv'
    BY <1>7, <2>5, RestTypes
  <2> QED
    BY <1>6, <1>7, <1>8, <1>11, <2>3, <2>5, <2>6, <2>7
<1>12. CASE main' = [main EXCEPT ![s] = p] /\ UNCHANGED <<mgr, rtc>> /\ ((a.ha = "ACTIVE" /\ main[s].phase # "boot")
               \/ (a.ha \notin {"ERROR", "ACTIVE"} /\ main[s].phase = "boot"))
  <2>1. mgr' = mgr /\ rtc' = [rtc EXCEPT ![s] = q] /\ p.inc = main[s].inc /\ main[s].phase # "off"
    BY <1>5, <1>6, <1>9, <1>12 DEF Obtained
  <2>2. ProcessTypes /\ OthersKept(s) /\ main'[s] = p /\ mgr'[s] = mgr[s] /\ rtc'[s] = q
    BY <1>5, <1>9, <1>12, <2>1, MainEffect, ZenonT(60)
  <2>3. p.ha = a.ha
    BY <1>2, <1>5 DEF Obtained
  <2>4. TypeInv'
    BY <1>7, <2>2, RestTypes
  <2> QED
    BY <1>5, <1>6, <1>7, <1>8, <1>12, <2>2, <2>3, <2>4
<1>13. CASE main' = [main EXCEPT ![s] = p] /\ RestartManager(s) /\ a.ha \notin {"ERROR", "ACTIVE"} /\ main[s].phase # "boot"
  <2>1. p.inc = main[s].inc /\ main[s].phase # "off" /\ p.ha = a.ha
    BY <1>2, <1>5, <1>6 DEF Obtained
  <2>2. ProcessTypes /\ IsFresh(s) /\ OthersKept(s) /\ main'[s] = p
    BY <1>5, <1>13, <2>1, RestartEffect
  <2>3. TypeInv'
    BY <1>7, <2>2, RestTypes
  <2> QED
    BY <1>5, <1>6, <1>7, <1>13, <2>1, <2>2, <2>3
<1> QED
    BY <1>6, <1>10, <1>11, <1>12, <1>13

(* What zbx_ha_dispatch_message makes of main process p. *)
Dispatched(p, msg, d) ==
    LET ha == IF msg.code = "STATUS" THEN msg.st ELSE p.ha
        fd == IF msg.code = "STATUS" THEN msg.fd ELSE p.fd
        hb == IF msg.code = "HEARTBEAT" \/ ha # p.ha THEN now ELSE p.hb
    IN \/ ha = "ERROR" /\ d.ha = "ERROR"
       \/ /\ ha # "ERROR" /\ Silent(hb, fd) /\ d.fd = fd /\ d.hb = 0
          /\ d.ha = IF ha = "ACTIVE" THEN "STANDBY" ELSE "HATIMEOUT"
       \/ ha # "ERROR" /\ ~Silent(hb, fd) /\ d.ha = ha /\ d.fd = fd /\ d.hb = hb

(* Dispatch changes what the main process knows and nothing else. *)
LEMMA DispatchEffect ==
    ASSUME NEW p \in MainProcess, NEW msg \in Message \cup {NoMessage}, now \in Nat,
           NEW d, d = [Dispatch(p, msg) EXCEPT !.polled = TRUE]
    PROVE  /\ d \in MainProcess /\ d.polled = TRUE /\ Dispatched(p, msg, d)
           /\ d.phase = p.phase /\ d.old = p.old /\ d.inc = p.inc /\ d.busy = p.busy
<1>1. /\ msg.code = "STATUS" => msg.st \in Status /\ msg.fd \in Delays
      /\ NoMessage.code # "STATUS" /\ Heartbeat.code # "STATUS"
    BY DEF Message, Update, Heartbeat, NoMessage
<1>2. PICK ha : ha = IF msg.code = "STATUS" THEN msg.st ELSE p.ha
    OBVIOUS
<1>3. PICK fd : fd = IF msg.code = "STATUS" THEN msg.fd ELSE p.fd
    OBVIOUS
<1>4. PICK hb : hb = IF msg.code = "HEARTBEAT" \/ ha # p.ha THEN now ELSE p.hb
    OBVIOUS
<1>5. ha \in Status /\ fd \in Delays /\ hb \in Nat
    BY <1>1, <1>2, <1>3, <1>4, MainFields
<1>6. CASE ha = "ERROR"
  <2>1. d = [[p EXCEPT !.ha = ha, !.fd = fd] EXCEPT !.polled = TRUE]
    BY <1>2, <1>3, <1>4, <1>6 DEF Dispatch
  <2>2. /\ d \in MainProcess /\ d.polled = TRUE /\ d.ha = ha
        /\ d.phase = p.phase /\ d.old = p.old /\ d.inc = p.inc /\ d.busy = p.busy
    BY <1>5, <2>1 DEF MainProcess
  <2> QED
    BY <1>2, <1>6, <2>2 DEF Dispatched
<1>7. CASE ha # "ERROR" /\ Silent(hb, fd)
  <2>1. PICK x : x = IF ha = "ACTIVE" THEN "STANDBY" ELSE "HATIMEOUT"
    OBVIOUS
  <2>2. x \in Status
    BY <2>1 DEF Status
  <2>3. d = [[p EXCEPT !.fd = fd, !.hb = 0, !.ha = x] EXCEPT !.polled = TRUE]
    BY <1>2, <1>3, <1>4, <1>7, <2>1 DEF Dispatch
  <2>5. PICK p1 : p1 = [p EXCEPT !.fd = fd, !.hb = 0, !.ha = x]
    OBVIOUS
  <2>6. /\ p1 \in MainProcess /\ p1.ha = x /\ p1.fd = fd /\ p1.hb = 0
        /\ p1.phase = p.phase /\ p1.old = p.old /\ p1.inc = p.inc /\ p1.busy = p.busy
    BY <1>5, <2>2, <2>5 DEF MainProcess
  <2>7. d = [p1 EXCEPT !.polled = TRUE]
    BY <2>3, <2>5
  <2>4. /\ d \in MainProcess /\ d.polled = TRUE /\ d.ha = x /\ d.fd = fd /\ d.hb = 0
        /\ d.phase = p.phase /\ d.old = p.old /\ d.inc = p.inc /\ d.busy = p.busy
    BY <2>6, <2>7 DEF MainProcess
  <2> QED
    BY <1>2, <1>3, <1>4, <1>7, <2>1, <2>4 DEF Dispatched
<1>8. CASE ha # "ERROR" /\ ~Silent(hb, fd)
  <2>1. d = [[p EXCEPT !.ha = ha, !.fd = fd, !.hb = hb] EXCEPT !.polled = TRUE]
    BY <1>2, <1>3, <1>4, <1>8 DEF Dispatch
  <2>2. /\ d \in MainProcess /\ d.polled = TRUE /\ d.ha = ha /\ d.fd = fd /\ d.hb = hb
        /\ d.phase = p.phase /\ d.old = p.old /\ d.inc = p.inc /\ d.busy = p.busy
    BY <1>5, <2>1 DEF MainProcess
  <2> QED
    BY <1>2, <1>3, <1>4, <1>8, <2>2 DEF Dispatched
<1> QED
    BY <1>6, <1>7, <1>8

(* What a round of the main loop made of main process and messages. *)
LoopEnds(s, d) ==
    \/ IsDown(s)
    \/ /\ d.ha = "HATIMEOUT" /\ IsFresh(s)
       /\ main'[s].ha = "STANDBY" /\ main'[s].old = d.old /\ main'[s].phase = "run"
    \/ /\ d.ha = "STANDBY" /\ IsFresh(s)
       /\ main'[s].ha = "STANDBY" /\ main'[s].old = "STANDBY" /\ main'[s].phase = "run"
    \/ /\ d.ha = "ACTIVE" /\ d.old # "ACTIVE" /\ mgr'[s] = mgr[s]
       /\ main'[s].phase = "startup" /\ main'[s].busy \in 0 .. MaxStartup
       /\ main'[s].ha = "ACTIVE" /\ main'[s].old = "ACTIVE" /\ main'[s].hb = d.hb /\ main'[s].fd = d.fd
       /\ main'[s].inc = d.inc
       /\ rtc'[s] = IF rtc[s] = << >> THEN << >> ELSE Tail(rtc[s])
    \/ /\ d.ha \in {"UNKNOWN", d.old} /\ d.ha \notin {"ERROR", "HATIMEOUT"}
       /\ main'[s] = d /\ mgr'[s] = mgr[s]
       /\ rtc'[s] = IF rtc[s] = << >> THEN << >> ELSE Tail(rtc[s])

(* MainLoop *)
LEMMA MainLoopCases ==
    ASSUME TypeInv, NEW s \in Server, MainLoop(s)
    PROVE  /\ TypeInv' /\ UNCHANGED <<nameOf, now, cfgDelay, row, nextId, dbUp>> /\ OthersKept(s)
           /\ main[s].phase = "run"
           /\ \E d \in MainProcess :
                 /\ Dispatched(main[s], IF rtc[s] = << >> THEN NoMessage ELSE rtc[s][1], d)
                 /\ d.polled = TRUE /\ d.phase = "run" /\ d.old = main[s].old /\ d.inc = main[s].inc
                 /\ LoopEnds(s, d)
<1>1. TypeOK /\ StatesOK(s) /\ main[s] \in MainProcess /\ rtc[s] \in Seq(Message) /\ mgr[s] \in Manager
    BY DEF TypeInv, TypeOK
<1>2. PICK msg : msg = IF rtc[s] = << >> THEN NoMessage ELSE Head(rtc[s])
    OBVIOUS
<1>3. msg \in Message \cup {NoMessage} /\ msg = IF rtc[s] = << >> THEN NoMessage ELSE rtc[s][1]
    BY <1>1, <1>2, TailSeq
<1>4. PICK d : d = [Dispatch(main[s], msg) EXCEPT !.polled = TRUE]
    OBVIOUS
<1>5. /\ d \in MainProcess /\ d.polled = TRUE /\ Dispatched(main[s], msg, d)
      /\ d.phase = main[s].phase /\ d.old = main[s].old /\ d.inc = main[s].inc
  <2>1. PICK p : p = main[s]
    OBVIOUS
  <2>2. now \in Nat /\ p \in MainProcess /\ d = [Dispatch(p, msg) EXCEPT !.polled = TRUE]
    BY <1>1, <1>4, <2>1 DEF TypeOK
  <2>3. /\ d \in MainProcess /\ d.polled = TRUE /\ Dispatched(p, msg, d)
        /\ d.phase = p.phase /\ d.old = p.old /\ d.inc = p.inc
    <3>1. now \in Nat
      BY <2>2
    <3>2. p \in MainProcess
      BY <2>2
    <3>3. msg \in Message \cup {NoMessage}
      BY <1>3
    <3>4. d = [Dispatch(p, msg) EXCEPT !.polled = TRUE]
      BY <2>2
    <3> QED
      BY ONLY <3>1, <3>2, <3>3, <3>4, DispatchEffect, Zenon
  <2> QED
    BY <2>1, <2>3
<1>6. PICK q : q = IF rtc[s] = << >> THEN << >> ELSE Tail(rtc[s])
    OBVIOUS
<1>7. q \in Seq(Message)
    BY <1>1, <1>6, TailSeq
<1>8. /\ main[s].phase = "run"
      /\ UNCHANGED <<nameOf, now, cfgDelay, row, nextId, dbUp, faults, calm>>
      /\ \/ Down(s)
         \/ /\ d.ha = "HATIMEOUT"
            /\ main' = [main EXCEPT ![s] = [d EXCEPT !.ha = "STANDBY"]]
            /\ RestartManager(s)
         \/ /\ d.ha = "ACTIVE" /\ d.ha \notin {"UNKNOWN", d.old}
            /\ BeginStartup(s, [d EXCEPT !.old = d.ha])
            /\ rtc' = [rtc EXCEPT ![s] = q]
            /\ UNCHANGED mgr
         \/ /\ d.ha = "STANDBY" /\ d.ha \notin {"UNKNOWN", d.old}
            /\ main' = [main EXCEPT ![s] = [d EXCEPT !.old = d.ha]]
            /\ RestartManager(s)
         \/ /\ d.ha \notin {"ERROR", "HATIMEOUT"} /\ d.ha \in {"UNKNOWN", d.old}
            /\ main' = [main EXCEPT ![s] = d]
            /\ rtc' = [rtc EXCEPT ![s] = q]
            /\ UNCHANGED mgr
    BY <1>2, <1>4, <1>6 DEF MainLoop
<1>9. SUFFICES ProcessTypes /\ OthersKept(s) /\ LoopEnds(s, d)
  <2>1. faults' \in 0 .. MaxFaults /\ calm' \in Nat /\ UNCHANGED <<nameOf, now, cfgDelay, row, nextId, dbUp>>
    BY <1>1, <1>8 DEF TypeOK
  <2>2. ASSUME ProcessTypes PROVE TypeInv'
    BY <2>1, <2>2, RestTypes
  <2> QED
    BY <1>3, <1>5, <1>8, <2>2
<1>10. CASE Down(s)
  <2>1. ProcessTypes /\ IsDown(s) /\ OthersKept(s)
    BY <1>10, DownEffect
  <2> QED
    BY <2>1 DEF LoopEnds
<1>11. CASE /\ d.ha = "HATIMEOUT" /\ RestartManager(s)
            /\ main' = [main EXCEPT ![s] = [d EXCEPT !.ha = "STANDBY"]]
  <2>1. PICK p : p = [d EXCEPT !.ha = "STANDBY"]
    OBVIOUS
  <2>2. p \in MainProcess /\ p.ha = "STANDBY" /\ p.old = d.old /\ p.phase = "run" /\ p.inc = main[s].inc
    BY <1>5, <1>8, <2>1 DEF MainProcess, Status
  <2>3. ProcessTypes /\ IsFresh(s) /\ OthersKept(s) /\ main'[s] = p
    BY <1>8, <1>11, <2>1, <2>2, RestartEffect
  <2> QED
    BY <1>11, <2>2, <2>3 DEF LoopEnds
<1>12. CASE /\ d.ha = "STANDBY" /\ RestartManager(s)
            /\ main' = [main EXCEPT ![s] = [d EXCEPT !.old = d.ha]]
  <2>1. PICK p : p = [d EXCEPT !.old = d.ha]
    OBVIOUS
  <2>2. p \in MainProcess /\ p.ha = "STANDBY" /\ p.old = "STANDBY" /\ p.phase = "run" /\ p.inc = main[s].inc
    BY <1>5, <1>8, <1>12, <2>1 DEF MainProcess, Status
  <2>3. ProcessTypes /\ IsFresh(s) /\ OthersKept(s) /\ main'[s] = p
    BY <1>8, <1>12, <2>1, <2>2, RestartEffect
  <2> QED
    BY <1>12, <2>2, <2>3 DEF LoopEnds
<1>13. CASE /\ d.ha = "ACTIVE" /\ d.old # "ACTIVE" /\ BeginStartup(s, [d EXCEPT !.old = d.ha])
            /\ rtc' = [rtc EXCEPT ![s] = q] /\ UNCHANGED mgr
  <2>1. PICK e \in 0 .. MaxStartup :
           main' = [main EXCEPT ![s] = [[d EXCEPT !.old = d.ha] EXCEPT !.phase = "startup", !.busy = e]]
    BY <1>13 DEF BeginStartup
  <2>2. PICK p : p = [[d EXCEPT !.old = d.ha] EXCEPT !.phase = "startup", !.busy = e]
    OBVIOUS
  <2>3. e \in Nat
    BY Constants
  <2>4. /\ p \in MainProcess /\ p.phase = "startup" /\ p.busy = e /\ p.old = "ACTIVE" /\ p.ha = "ACTIVE"
        /\ p.hb = d.hb /\ p.fd = d.fd /\ p.inc = d.inc
    BY <1>5, <1>13, <2>2, <2>3 DEF MainProcess
  <2>5. main' = [main EXCEPT ![s] = p] /\ p.phase # "off" /\ p.inc = main[s].inc /\ main[s].phase # "off"
    BY <1>5, <1>8, <2>1, <2>2, <2>4
  <2>6. ProcessTypes /\ OthersKept(s) /\ main'[s] = p /\ rtc'[s] = q /\ mgr'[s] = mgr[s]
    BY <1>7, <1>13, <2>4, <2>5, MainEffect
  <2> QED
    BY <1>6, <1>13, <2>4, <2>6 DEF LoopEnds
<1>14. CASE /\ d.ha \notin {"ERROR", "HATIMEOUT"} /\ d.ha \in {"UNKNOWN", d.old}
            /\ main' = [main EXCEPT ![s] = d]
            /\ rtc' = [rtc EXCEPT ![s] = q]
            /\ UNCHANGED mgr
  <2>1. d.phase # "off" /\ d.inc = main[s].inc /\ main[s].phase # "off"
    BY <1>5, <1>8
  <2>2. ProcessTypes /\ OthersKept(s) /\ main'[s] = d /\ rtc'[s] = q /\ mgr'[s] = mgr[s]
    BY <1>5, <1>7, <1>14, <2>1, MainEffect
  <2> QED
    BY <1>6, <1>14, <2>2 DEF LoopEnds
<1> QED
    BY <1>8, <1>10, <1>11, <1>12, <1>13, <1>14

(* Stop *)
LEMMA StopCases ==
    ASSUME TypeInv, NEW s \in Server, Stop(s)
    PROVE  /\ TypeInv' /\ UNCHANGED <<nameOf, now, cfgDelay, row, nextId, dbUp, rtc>> /\ OthersKept(s)
           /\ main[s].phase = "run" /\ InLoop(s) /\ mgr'[s].removing = 0
           /\ main'[s].phase = "stopping" /\ main'[s].old = main[s].old
           /\ mgr'[s].pc = "pause" /\ mgr'[s].st = mgr[s].st /\ mgr'[s].nodeid = mgr[s].nodeid
           /\ mgr'[s].fd = mgr[s].fd /\ mgr'[s].wait = Poll /\ mgr'[s].hung = mgr[s].hung
<1>1. TypeOK /\ StatesOK(s) /\ main[s] \in MainProcess /\ mgr[s] \in Manager
    BY DEF TypeInv, TypeOK
<1>2. PICK p : p = [main[s] EXCEPT !.phase = "stopping"]
    OBVIOUS
<1>3. p \in MainProcess /\ p.phase = "stopping" /\ p.old = main[s].old /\ p.inc = main[s].inc
    BY <1>1, <1>2 DEF MainProcess
<1>4. PICK m : m = [mgr[s] EXCEPT !.pc = "pause", !.wait = Poll]
    OBVIOUS
<1>5. /\ m \in Manager /\ m.pc = "pause" /\ m.st = mgr[s].st /\ m.nodeid = mgr[s].nodeid
      /\ m.fd = mgr[s].fd /\ m.wait = Poll /\ m.hung = mgr[s].hung /\ m.removing = mgr[s].removing
  <2>1. Poll \in 0 .. 3 * Poll
    BY Constants
  <2> QED
    BY <1>1, <1>4, <2>1 DEF Manager
<1>6. /\ main' = [main EXCEPT ![s] = p] /\ mgr' = [mgr EXCEPT ![s] = m] /\ rtc' = rtc
      /\ main[s].phase = "run" /\ InLoop(s) /\ Fault("stop")
      /\ UNCHANGED <<nameOf, now, cfgDelay, row, nextId, dbUp, rtc>>
    BY <1>1, <1>2, <1>4 DEF Stop, TypeOK
<1>7. /\ mgr' \in [Server -> Manager] /\ main' \in [Server -> MainProcess] /\ rtc' \in [Server -> Seq(Message)]
      /\ mgr'[s] = m /\ main'[s] = p /\ OthersKept(s)
    BY <1>1, <1>3, <1>5, <1>6 DEF TypeOK, OthersKept
<1>8. StatesOK(s)'
    BY <1>1, <1>3, <1>5, <1>6, <1>7 DEF StatesOK, InLoop
<1>9. ProcessTypes
    BY <1>7, <1>8, StatesFrame DEF OthersKept, ProcessTypes
<1>10. faults' \in 0 .. MaxFaults /\ calm' \in Nat
    BY <1>1, <1>6, FaultType
<1>11. TypeInv'
    BY <1>6, <1>9, <1>10, RestTypes
<1> QED
    BY <1>3, <1>5, <1>6, <1>7, <1>11 DEF InLoop

(* Stopped *)
LEMMA StoppedCases ==
    ASSUME TypeInv, NEW s \in Server, Stopped(s)
    PROVE  /\ TypeInv' /\ UNCHANGED <<nameOf, now, cfgDelay, nextId, dbUp>> /\ OthersKept(s) /\ IsDown(s)
           /\ \A n \in Name : /\ row'[n].id = row[n].id /\ row'[n].status \in {row[n].status, "STOPPED"}
                              /\ row'[n].lastaccess \in {row[n].lastaccess, now}
                              /\ ~(row[n].id = mgr[s].nodeid /\ mgr[s].nodeid # 0) => row'[n] = row[n]
<1>1. TypeOK
    BY DEF TypeInv
<1>2. /\ Down(s) /\ calm' = now /\ UNCHANGED <<nameOf, now, cfgDelay, nextId, dbUp, faults>>
      /\ \/ row' = row
         \/ row' = WriteOwn(mgr[s].nodeid, [k \in Name |-> [row[k] EXCEPT !.status = "STOPPED", !.lastaccess = now]])
    BY DEF Stopped
<1>3. ProcessTypes /\ IsDown(s) /\ OthersKept(s)
    BY <1>2, DownEffect
<1>4. /\ row' \in [Name -> Row]
      /\ \A n \in Name : /\ row'[n].id = row[n].id /\ row'[n].status \in {row[n].status, "STOPPED"}
                         /\ row'[n].lastaccess \in {row[n].lastaccess, now}
                         /\ ~(row[n].id = mgr[s].nodeid /\ mgr[s].nodeid # 0) => row'[n] = row[n]
  <2>1. CASE row' = row
    BY <1>1, <2>1 DEF TypeOK
  <2>2. CASE row' = WriteOwn(mgr[s].nodeid, [k \in Name |-> [row[k] EXCEPT !.status = "STOPPED", !.lastaccess = now]])
    <3>1. PICK i : i = mgr[s].nodeid
      OBVIOUS
    <3>2. "STOPPED" \in RowStatus
      BY DEF RowStatus
    <3> QED
      BY <1>1, <2>2, <3>1, <3>2, OwnRowType, ZenonT(60)
  <2> QED
    BY <1>2, <2>1, <2>2
<1>5. TypeInv'
    BY <1>1, <1>2, <1>3, <1>4 DEF TypeInv, TypeOK, ProcessTypes
<1> QED
    BY <1>2, <1>3, <1>4, <1>5

(* Crash *)
LEMMA CrashCases ==
    ASSUME TypeInv, NEW s \in Server, Crash(s)
    PROVE  TypeInv' /\ UNCHANGED <<nameOf, now, cfgDelay, row, nextId, dbUp>> /\ OthersKept(s) /\ IsDown(s)
<1>1. Down(s) /\ Fault("crash") /\ UNCHANGED <<nameOf, now, cfgDelay, row, nextId, dbUp>> /\ TypeOK
    BY DEF Crash, TypeInv
<1>2. ProcessTypes /\ IsDown(s) /\ OthersKept(s)
    BY <1>1, DownEffect
<1>3. faults' \in 0 .. MaxFaults /\ calm' \in Nat
    BY <1>1, FaultType
<1> QED
    BY <1>1, <1>2, <1>3, RestTypes

(* LoseDatabase, RestoreDatabase *)
LEMMA DatabaseCases ==
    ASSUME TypeInv, NEW s \in Server, LoseDatabase(s) \/ RestoreDatabase(s)
    PROVE  /\ TypeInv' /\ UNCHANGED <<nameOf, now, cfgDelay, row, nextId, mgr, main, rtc>>
           /\ \A t \in Server : dbUp[t] /\ ~dbUp'[t] => t = s /\ Kind(s, "database") \in FaultKinds
<1>1. TypeOK
    BY DEF TypeInv
<1>2. /\ UNCHANGED <<nameOf, now, cfgDelay, row, nextId, mgr, main, rtc>>
      /\ Fault(Kind(s, "database")) \/ (calm' = now /\ faults' = faults)
      /\ \/ dbUp' = [dbUp EXCEPT ![s] = FALSE] /\ Kind(s, "database") \in FaultKinds
         \/ dbUp' = [dbUp EXCEPT ![s] = TRUE]
    BY DEF LoseDatabase, RestoreDatabase, Fault
<1>3. faults' \in 0 .. MaxFaults /\ calm' \in Nat
    BY <1>1, <1>2, FaultType DEF TypeOK
<1>4. dbUp' \in [Server -> BOOLEAN]
    BY <1>1, <1>2 DEF TypeOK
<1> QED
    BY <1>1, <1>2, <1>3, <1>4 DEF TypeInv, TypeOK, StatesOK

(* Hang *)
LEMMA HangCases ==
    ASSUME TypeInv, NEW s \in Server, Hang(s)
    PROVE  /\ TypeInv' /\ UNCHANGED <<nameOf, now, cfgDelay, row, nextId, dbUp, main, rtc>> /\ OthersKept(s)
           /\ Kind(s, mgr[s].pc) \in FaultKinds /\ (Ready(s, "boot") \/ Ready(s, "register") \/ CheckDue(s))
           /\ mgr'[s].hung = TRUE /\ mgr'[s].pc = mgr[s].pc /\ mgr'[s].st = mgr[s].st
           /\ mgr'[s].nodeid = mgr[s].nodeid /\ mgr'[s].fd = mgr[s].fd /\ mgr'[s].wait = mgr[s].wait
           /\ mgr'[s].seen = mgr[s].seen /\ mgr'[s].off = mgr[s].off /\ mgr'[s].ticked = mgr[s].ticked
           /\ mgr'[s].removing = mgr[s].removing
<1>1. TypeOK /\ StatesOK(s) /\ mgr[s] \in Manager
    BY DEF TypeInv, TypeOK
<1>2. PICK m : m = [mgr[s] EXCEPT !.hung = TRUE]
    OBVIOUS
<1>3. /\ m \in Manager /\ m.hung = TRUE /\ m.pc = mgr[s].pc /\ m.st = mgr[s].st
      /\ m.nodeid = mgr[s].nodeid /\ m.fd = mgr[s].fd /\ m.wait = mgr[s].wait
      /\ m.seen = mgr[s].seen /\ m.off = mgr[s].off /\ m.ticked = mgr[s].ticked /\ m.removing = mgr[s].removing
    BY <1>1, <1>2 DEF Manager
<1>4. /\ mgr' = [mgr EXCEPT ![s] = m] /\ main' = main /\ rtc' = rtc /\ Fault(Kind(s, mgr[s].pc))
      /\ UNCHANGED <<nameOf, now, cfgDelay, row, nextId, dbUp>>
      /\ Ready(s, "boot") \/ Ready(s, "register") \/ CheckDue(s)
    BY <1>1, <1>2 DEF Hang, TypeOK
<1>5. /\ mgr' \in [Server -> Manager] /\ mgr'[s] = m /\ \A t \in Server \ {s} : mgr'[t] = mgr[t]
      /\ \A t \in Server : StatesOK(t)'
    BY <1>1, <1>3, <1>4, ManagerStepType DEF StatesOK
<1>6. faults' \in 0 .. MaxFaults /\ calm' \in Nat /\ Kind(s, mgr[s].pc) \in FaultKinds
    BY <1>1, <1>4, FaultType
<1>7. ProcessTypes /\ OthersKept(s)
    BY <1>1, <1>4, <1>5 DEF ProcessTypes, OthersKept, TypeOK
<1>8. TypeInv'
    BY <1>4, <1>6, <1>7, RestTypes
<1> QED
    BY <1>3, <1>4, <1>5, <1>6, <1>7, <1>8

(* Second *)
LEMMA SecondCases ==
    ASSUME TypeInv, Second
    PROVE  /\ TypeInv' /\ now' = now + 1 /\ UNCHANGED <<nameOf, cfgDelay, row, nextId, dbUp, rtc>>
           /\ \A s \in Server :
                 /\ TurnTaken(s)
                 /\ mgr'[s].ticked = FALSE /\ mgr'[s].pc = mgr[s].pc /\ mgr'[s].st = mgr[s].st
                 /\ mgr'[s].nodeid = mgr[s].nodeid /\ mgr'[s].fd = mgr[s].fd /\ mgr'[s].wait = mgr[s].wait
                 /\ mgr'[s].seen = mgr[s].seen /\ mgr'[s].off = mgr[s].off /\ mgr'[s].hung = mgr[s].hung
                 /\ mgr'[s].removing = mgr[s].removing
                 /\ main'[s].polled = FALSE /\ main'[s].phase = main[s].phase /\ main'[s].ha = main[s].ha
                 /\ main'[s].old = main[s].old /\ main'[s].hb = main[s].hb /\ main'[s].fd = main[s].fd
                 /\ main'[s].inc = main[s].inc
                 /\ main'[s].busy = IF main[s].busy = 0 THEN 0 ELSE main[s].busy - 1
<1>1. TypeOK /\ \A s \in Server : StatesOK(s)
    BY DEF TypeInv
<1>2. /\ now' = now + 1 /\ UNCHANGED <<nameOf, cfgDelay, row, nextId, dbUp, rtc, faults, calm>>
      /\ \A s \in Server : TurnTaken(s)
      /\ mgr' = [s \in Server |-> [mgr[s] EXCEPT !.ticked = FALSE]]
      /\ main' = [s \in Server |-> [main[s] EXCEPT !.polled = FALSE,
                                                   !.busy = IF main[s].busy = 0 THEN 0 ELSE main[s].busy - 1]]
    BY DEF Second
<1>3. ASSUME NEW s \in Server
      PROVE  /\ mgr'[s] \in Manager
             /\ mgr'[s].ticked = FALSE /\ mgr'[s].pc = mgr[s].pc /\ mgr'[s].st = mgr[s].st
             /\ mgr'[s].nodeid = mgr[s].nodeid /\ mgr'[s].fd = mgr[s].fd /\ mgr'[s].wait = mgr[s].wait
             /\ mgr'[s].seen = mgr[s].seen /\ mgr'[s].off = mgr[s].off /\ mgr'[s].hung = mgr[s].hung
             /\ mgr'[s].removing = mgr[s].removing
  <2>1. mgr[s] \in Manager /\ mgr'[s] = [mgr[s] EXCEPT !.ticked = FALSE]
    BY <1>1, <1>2 DEF TypeOK
  <2> QED
    BY <2>1 DEF Manager
<1>4. ASSUME NEW s \in Server
      PROVE  /\ main'[s] \in MainProcess
             /\ main'[s].polled = FALSE /\ main'[s].phase = main[s].phase /\ main'[s].ha = main[s].ha
             /\ main'[s].old = main[s].old /\ main'[s].hb = main[s].hb /\ main'[s].fd = main[s].fd
             /\ main'[s].inc = main[s].inc
             /\ main'[s].busy = IF main[s].busy = 0 THEN 0 ELSE main[s].busy - 1
  <2>1. PICK b : b = IF main[s].busy = 0 THEN 0 ELSE main[s].busy - 1
    OBVIOUS
  <2>2. main[s] \in MainProcess /\ main'[s] = [main[s] EXCEPT !.polled = FALSE, !.busy = b]
    BY <1>1, <1>2, <2>1 DEF TypeOK
  <2>3. b \in Nat
    BY <2>1, <2>2, MainFields
  <2> QED
    BY <2>1, <2>2, <2>3 DEF MainProcess
<1>5. mgr' \in [Server -> Manager] /\ main' \in [Server -> MainProcess]
    BY <1>2, <1>3, <1>4
<1>6. ASSUME NEW s \in Server
      PROVE  StatesOK(s)'
  <2>1. StatesOK(s)
    BY <1>1
  <2>2. mgr'[s].pc = mgr[s].pc /\ mgr'[s].st = mgr[s].st
    BY <1>3
  <2>3. main'[s].phase = main[s].phase /\ main'[s].inc = main[s].inc
    BY <1>4
  <2> QED
    BY <2>1, <2>2, <2>3 DEF StatesOK
<1>7. TypeInv'
  <2>1. now' = now + 1 /\ UNCHANGED <<nameOf, cfgDelay, row, nextId, dbUp, rtc, faults, calm>>
    BY <1>2
  <2>2. TypeOK
    BY <1>1
  <2>3. TypeOK'
    BY ONLY <1>5, <2>1, <2>2 DEF TypeOK
  <2> QED
    BY <1>6, <2>3 DEF TypeInv
<1> QED
    BY <1>2, <1>3, <1>4, <1>7, ZenonT(60)

(* The initial states. *)
LEMMA InitType == Init => TypeInv
<1> SUFFICES ASSUME Init PROVE TypeInv
    OBVIOUS
<1>1. /\ nameOf \in Naming /\ now = 1 /\ cfgDelay \in Delays /\ row = [n \in Name |-> NoRow]
      /\ nextId = 1 /\ dbUp = [s \in Server |-> TRUE]
      /\ mgr = [s \in Server |-> NewManager("off", "UNKNOWN", 0)]
      /\ main = [s \in Server |-> NoMain] /\ rtc = [s \in Server |-> << >>] /\ faults = 0 /\ calm = 1
    BY DEF Init
<1>2. PICK m : m = NewManager("off", "UNKNOWN", 0)
    OBVIOUS
<1>3. m \in Manager /\ m.pc = "off" /\ NoMain \in MainProcess /\ NoMain.phase = "off"
    BY <1>2, NewTypes DEF NewManager, NoMain
<1>4. mgr \in [Server -> Manager] /\ main \in [Server -> MainProcess] /\ row \in [Name -> Row]
    BY <1>1, <1>2, <1>3, NoRowType
<1>5. dbUp \in [Server -> BOOLEAN] /\ rtc \in [Server -> Seq(Message)] /\ faults \in 0 .. MaxFaults
      /\ nextId \in Nat \ {0} /\ now \in Nat /\ calm \in Nat
    BY <1>1, Constants
<1>6. \A s \in Server : StatesOK(s)
    BY <1>1, <1>2, <1>3 DEF StatesOK
<1> QED
    BY <1>1, <1>4, <1>5, <1>6 DEF TypeInv, TypeOK

(* Every step keeps the types. *)
LEMMA NextType == TypeInv /\ [Next]_vars => TypeInv'
<1> SUFFICES ASSUME TypeInv, [Next]_vars PROVE TypeInv'
    OBVIOUS
<1>1. CASE UNCHANGED vars
    BY <1>1 DEF TypeInv, TypeOK, StatesOK, vars
<1>2. ASSUME NEW s \in Server, ManagerStep(s) PROVE TypeInv'
    BY <1>2, MgrTickType, CreateNodeType, RegisterNodeType, CheckNodesType, PauseTickCases DEF ManagerStep
<1>3. ASSUME NEW s \in Server, MainStep(s) PROVE TypeInv'
    BY <1>3, StartCases, StartupDoneCases, ObtainStatusCases, MainLoopCases, StopCases, StoppedCases DEF MainStep
<1>4. ASSUME NEW s \in Server, Request(s) PROVE TypeInv'
    BY <1>4, RemoveNodeCases, DeleteNodeCases, SetFailoverDelayType DEF Request
<1>5. ASSUME NEW s \in Server, Environment(s) PROVE TypeInv'
    BY <1>5, CrashCases, DatabaseCases, HangCases DEF Environment
<1>6. CASE Second
    BY <1>6, SecondCases
<1> QED
    BY <1>1, <1>2, <1>3, <1>4, <1>5, <1>6 DEF Next

(* What each process may be in, for every cluster, whatever goes wrong. *)
THEOREM HaTypeInvariant == Spec => []TypeInv
BY InitType, NextType, PTL DEF Spec

(* The table, the managers, the main processes and their messages keep     *)
(* their types; in particular the countdown of ha_manager_thread never     *)
(* runs below zero or above three poll periods, whatever the database does. *)
THEOREM HaTypeCorrect == Spec => []TypeOK
<1>1. TypeInv => TypeOK
    BY DEF TypeInv
<1> QED
    BY <1>1, HaTypeInvariant, PTL

-----------------------------------------------------------------------------
(* The lease. *)

(* What Orderly says of the constants. *)
LEMMA OrderlyFacts ==
    ASSUME Orderly, TypeInv
    PROVE  /\ ~Flaky /\ "delay" \notin FaultKinds /\ "boot" \notin FaultKinds /\ "register" \notin FaultKinds
           /\ ServiceTimeout > 0 /\ (Prompt \/ "startup" \notin FaultKinds)
           /\ \A s, t \in Server : nameOf[s] = nameOf[t] => s = t
BY DEF Orderly, Flaky, TypeInv, TypeOK

(* The types of what a server's invariant is about. *)
LEMMA ServerTypes ==
    ASSUME TypeInv, NEW s \in Server
    PROVE  /\ mgr[s] \in Manager /\ main[s] \in MainProcess /\ rtc[s] \in Seq(Message)
           /\ nameOf[s] \in Name /\ row[nameOf[s]] \in Row /\ row[nameOf[s]].lastaccess \in Nat
           /\ row[nameOf[s]].id \in Nat
           /\ now \in Nat /\ cfgDelay \in Nat /\ cfgDelay >= 2 * Poll /\ cfgDelay \in Delays /\ nextId \in Nat /\ nextId > 0
           /\ StatesOK(s)
<1>1. nameOf[s] \in Name /\ row \in [Name -> Row]
    BY HaAssumption DEF TypeInv, TypeOK
<1> QED
    BY <1>1, RowFields, Constants DEF TypeInv, TypeOK

(* The numbers in it. *)
LEMMA ServerNumbers ==
    ASSUME TypeInv, NEW s \in Server
    PROVE  /\ mgr[s].wait \in Nat /\ mgr[s].nodeid \in Nat /\ OfflineUntil(mgr[s]) \in Nat /\ mgr[s].ticked \in BOOLEAN
           /\ mgr[s].hung \in BOOLEAN
           /\ main[s].hb \in Nat /\ main[s].busy \in Nat /\ main[s].fd \in Nat /\ main[s].polled \in BOOLEAN
           /\ Untick(mgr[s]) \in {0, 1} /\ (mgr[s].ticked <=> Untick(mgr[s]) = 0)
<1>1. PICK m : m = mgr[s]
    OBVIOUS
<1>2. PICK p : p = main[s]
    OBVIOUS
<1>3. m \in Manager /\ p \in MainProcess
    BY <1>1, <1>2, ServerTypes
<1>4. m.off * Poll \in Nat
    BY <1>3, ManagerFields, Constants
<1>5. OfflineUntil(m) \in Nat
    BY <1>3, <1>4, ManagerFields, Constants DEF OfflineUntil
<1>6. /\ m.wait \in Nat /\ m.nodeid \in Nat /\ m.ticked \in BOOLEAN /\ m.hung \in BOOLEAN
    BY <1>3, ManagerFields
<1>7. p.hb \in Nat /\ p.busy \in Nat /\ p.fd \in Nat /\ p.polled \in BOOLEAN
    BY <1>3, MainFields, Constants
<1>8. Untick(m) \in {0, 1} /\ (m.ticked <=> Untick(m) = 0)
    BY DEF Untick
<1> QED
    BY <1>1, <1>2, <1>5, <1>6, <1>7, <1>8

(* The row of an active manager is active, and was accessed less than the  *)
(* failover delay ago.                                                     *)
LEMMA LeaderFresh ==
    ASSUME LeaseInv, Orderly, NEW s \in Server, Leading(s)
    PROVE  /\ now + 1 <= row[nameOf[s]].lastaccess + cfgDelay
           /\ row[nameOf[s]].status = "ACTIVE" /\ row[nameOf[s]].sess = Sess(s)
<1>1. TypeInv /\ ManagerOK(s) /\ MainOK(s) /\ LeaderOK(s)
    BY DEF LeaseInv, ServerInv
<1>2. PICK la \in Nat : la = row[nameOf[s]].lastaccess
    BY <1>1, ServerTypes
<1>3. /\ now \in Nat /\ cfgDelay \in Nat /\ cfgDelay >= 2 * Poll /\ Poll \in Nat /\ Poll > 1
    BY <1>1, ServerTypes, Constants
<1>4. main[s].hb \in Nat /\ main[s].phase \in {"off", "boot", "startup", "asking", "run", "stopping"}
    BY <1>1, ServerNumbers, ServerTypes, MainFields
<1>5. main[s].phase \notin {"off", "stopping"}
    BY <1>1, ServerTypes DEF MainOK, Leading, StatesOK
<1>6. /\ main[s].phase = "boot" => now = la
      /\ main[s].phase \in {"startup", "asking"} => rtc[s] # << >>
      /\ main[s].phase = "run" /\ main[s].old # "ACTIVE" => now = la
      /\ rtc[s] # << >> => now + 1 <= la + Poll \/ now = la + Poll
      /\ main[s].phase = "run" /\ main[s].old = "ACTIVE" /\ rtc[s] = << >> =>
             /\ main[s].hb + 1 <= la + Poll \/ (main[s].hb = now /\ now = la + Poll)
             /\ now + Poll + (IF main[s].polled THEN 1 ELSE 0) <= main[s].hb + cfgDelay
    BY <1>1, <1>2 DEF LeaderOK, CheckNow
<1>7. now + 1 <= la + cfgDelay
  <2>1. CASE rtc[s] # << >>
    BY <1>3, <1>6, <2>1
  <2>2. CASE main[s].phase = "boot" \/ (main[s].phase = "run" /\ main[s].old # "ACTIVE")
    BY <1>3, <1>6, <2>2
  <2>3. CASE main[s].phase = "run" /\ main[s].old = "ACTIVE" /\ rtc[s] = << >>
    BY <1>3, <1>4, <1>6, <2>3
  <2> QED
    BY <1>4, <1>5, <1>6, <2>1, <2>2, <2>3
<1> QED
    BY <1>1, <1>2, <1>7 DEF LeaderOK

(* What a step of server s leaves of server t. *)
LEMMA ServerFrame ==
    ASSUME LeaseInv, Orderly, NEW s \in Server, NEW t \in Server \ {s}, OthersKept(s), TypeInv', RowInv',
           UNCHANGED <<nameOf, now, cfgDelay, dbUp>>, nextId' \in {nextId, nextId + 1},
           \A n \in Name : \/ row'[n].id = row[n].id
                           \/ row'[n] = NoRow
                           \/ n = nameOf[s] /\ row'[n].id = nextId,
           Leading(t) => row'[nameOf[t]] = row[nameOf[t]]
    PROVE  ServerInv(t)'
<1>1. TypeInv /\ RowInv /\ ServerInv(t)
    BY DEF LeaseInv
<1>2. mgr'[t] = mgr[t] /\ main'[t] = main[t] /\ rtc'[t] = rtc[t]
    BY DEF OthersKept
<1>3. ManagerOK(t)' /\ MainOK(t)' /\ MessagesOK(t)'
    BY <1>1, <1>2 DEF ServerInv, ManagerOK, MainOK, MessagesOK, Serving, Leading, Running, OfflineUntil, Untick
<1>4. LeaderOK(t)'
    BY <1>1, <1>2 DEF ServerInv, LeaderOK, CheckNow, Serving, Leading, Sess, Untick
<1>5. KnowsId(t)'
  <2>1. PICK i : i = mgr[t].nodeid
    OBVIOUS
  <2>2. /\ i \in Nat /\ nextId \in Nat /\ nameOf[t] \in Name
        /\ i < nextId /\ (i # 0 => mgr[t].fd = cfgDelay)
        /\ \A n \in Name : row[n].id = i /\ i # 0 => n = nameOf[t]
        /\ i # 0 /\ row[nameOf[t]] # NoRow => row[nameOf[t]].id = i
        /\ mgr[t].removing # 0 => Leading(t) /\ ~mgr[t].hung /\ mgr[t].removing # i
    BY <1>1, <2>1, ServerTypes, ServerNumbers DEF ServerInv, KnowsId
  <2>3. NoRow.id = 0
    BY DEF NoRow
  <2>4. i < nextId'
    BY <2>2
  <2>5. \A n \in Name : row'[n].id = i /\ i # 0 => n = nameOf[t]
    BY <2>2, <2>3
  <2>6. i # 0 /\ row'[nameOf[t]] # NoRow => row'[nameOf[t]].id = i
    <3>1. nameOf[t] # nameOf[s]
      BY <1>1, OrderlyFacts
    <3>2. row'[nameOf[t]] # NoRow => row'[nameOf[t]].id # 0
      BY <2>2 DEF RowInv
    <3>3. row[nameOf[t]].id # 0 => row[nameOf[t]] # NoRow
      BY <2>3
    <3> QED
      BY <2>2, <3>1, <3>2, <3>3
  <2> QED
    BY <1>2, <2>1, <2>2, <2>4, <2>5, <2>6 DEF KnowsId, Leading
<1> QED
    BY <1>3, <1>4, <1>5 DEF ServerInv

(* A step of server s that changes no row. *)
LEMMA ServerStep ==
    ASSUME LeaseInv, Orderly, NEW s \in Server, OthersKept(s), TypeInv',
           UNCHANGED <<nameOf, now, cfgDelay, row, nextId, dbUp>>, ServerInv(s)'
    PROVE  LeaseInv'
<1>1. RowInv'
    BY DEF LeaseInv, RowInv
<1>2. ASSUME NEW t \in Server \ {s} PROVE ServerInv(t)'
    BY <1>1, <1>2, ServerFrame
<1> QED
    BY <1>1, <1>2 DEF LeaseInv

(* A server that is down. *)
LEMMA DownOK ==
    ASSUME TypeInv', NEW s \in Server, IsDown(s)
    PROVE  ServerInv(s)'
<1>1. nextId' \in Nat /\ nextId' > 0
    BY DEF TypeInv, TypeOK
<1>2. KnowsId(s)'
    BY <1>1 DEF IsDown, KnowsId
<1>3. ManagerOK(s)'
    BY DEF IsDown, ManagerOK
<1>4. MainOK(s)' /\ MessagesOK(s)' /\ LeaderOK(s)'
    BY DEF IsDown, MainOK, MessagesOK, LeaderOK, Serving, Leading, Running
<1> QED
    BY <1>2, <1>3, <1>4 DEF ServerInv

(* A server whose manager is restarted. *)
LEMMA FreshOK ==
    ASSUME TypeInv', NEW s \in Server, IsFresh(s), main'[s].phase = "run",
           main'[s].ha \in {"UNKNOWN", "STANDBY"}, main'[s].old # "ACTIVE", now' > 0
    PROVE  ServerInv(s)'
<1>1. nextId' \in Nat /\ nextId' > 0 /\ now' \in Nat
    BY DEF TypeInv, TypeOK
<1>2. KnowsId(s)'
    BY <1>1 DEF IsFresh, KnowsId
<1>3. OfflineUntil(mgr[s])' = Poll /\ Untick(mgr[s])' \in {0, 1}
    BY Constants DEF IsFresh, OfflineUntil, Untick
<1>4. ManagerOK(s)'
    BY <1>1, <1>3, Constants DEF IsFresh, ManagerOK
<1>5. MainOK(s)' /\ MessagesOK(s)' /\ LeaderOK(s)'
    BY DEF IsFresh, MainOK, MessagesOK, LeaderOK, Serving, Leading, Running
<1> QED
    BY <1>2, <1>4, <1>5 DEF ServerInv

(* Crash *)
LEMMA CrashLease ==
    ASSUME LeaseInv, Orderly, NEW s \in Server, Crash(s)
    PROVE  LeaseInv'
<1>1. TypeInv
    BY DEF LeaseInv
<1>2. TypeInv' /\ UNCHANGED <<nameOf, now, cfgDelay, row, nextId, dbUp>> /\ OthersKept(s) /\ IsDown(s)
    BY <1>1, CrashCases
<1>3. ServerInv(s)'
    BY <1>2, DownOK
<1> QED
    BY <1>2, <1>3, ServerStep

(* LoseDatabase, RestoreDatabase *)
LEMMA DatabaseLease ==
    ASSUME LeaseInv, Orderly, NEW s \in Server, LoseDatabase(s) \/ RestoreDatabase(s)
    PROVE  LeaseInv'
<1>1. TypeInv
    BY DEF LeaseInv
<1>2. /\ TypeInv' /\ UNCHANGED <<nameOf, now, cfgDelay, row, nextId, mgr, main, rtc>>
      /\ \A t \in Server : dbUp[t] /\ ~dbUp'[t] => t = s /\ Kind(s, "database") \in FaultKinds
    BY <1>1, DatabaseCases
<1>3. RowInv'
    BY <1>2 DEF LeaseInv, RowInv
<1>4. Prompt \/ "startup" \notin FaultKinds
    BY <1>1, OrderlyFacts
<1>5. ASSUME NEW t \in Server PROVE ServerInv(t)'
  <2>1. ServerInv(t)
    BY DEF LeaseInv
  <2>2. KnowsId(t)' /\ ManagerOK(t)' /\ MainOK(t)' /\ MessagesOK(t)'
    BY <1>2, <2>1 DEF ServerInv, KnowsId, ManagerOK, MainOK, MessagesOK, Serving, Leading, Running,
                      OfflineUntil, Untick
  <2>3. LeaderOK(t)
    BY <2>1 DEF ServerInv
  <2>4. Starting(t) /\ ~Prompt /\ dbUp[t] => dbUp'[t]
    BY <1>2, <1>4 DEF Kind
  <2>5. CheckNow(t) /\ Starting(t) => CheckNow(t)'
    BY <1>2, <2>4 DEF CheckNow
  <2>11. ~Leading(t) => LeaderOK(t)'
    BY <1>2 DEF LeaderOK, Leading
  <2>6. SUFFICES ASSUME Leading(t) PROVE LeaderOK(t)'
    BY <2>2, <2>11 DEF ServerInv
  <2>7. ~(main[t].phase = "run" /\ main[t].old = "ACTIVE") => Starting(t)
    BY <2>6 DEF Starting
  <2>8. /\ rtc[t] # << >> /\ CheckNow(t) => Starting(t)
        /\ main[t].hb = now /\ CheckNow(t) => Starting(t)
    BY <2>6 DEF Starting, CheckNow
  <2>9. ~(main[t].phase = "run" /\ main[t].old = "ACTIVE") => Prompt \/ dbUp'[t]
    BY <2>3, <2>4, <2>6, <2>7 DEF LeaderOK
  <2>10. LeaderOK(t)'
    BY <1>2, <2>3, <2>5, <2>6, <2>8, <2>9 DEF LeaderOK, Serving, Leading, Sess, Untick
  <2> QED
    BY <2>2, <2>10 DEF ServerInv
<1> QED
    BY <1>2, <1>3, <1>5 DEF LeaseInv

(* Start *)
LEMMA StartLease ==
    ASSUME LeaseInv, Orderly, NEW s \in Server, Start(s)
    PROVE  LeaseInv'
<1>1. TypeInv
    BY DEF LeaseInv
<1>2. /\ TypeInv' /\ UNCHANGED <<nameOf, now, cfgDelay, row, nextId, dbUp>> /\ OthersKept(s)
      /\ main'[s].phase = "boot" /\ main'[s].ha = "UNKNOWN" /\ main'[s].old = "UNKNOWN"
      /\ main'[s].hb = 0 /\ main'[s].busy = ServiceTimeout
      /\ mgr'[s].pc = "boot" /\ mgr'[s].st = "UNKNOWN" /\ mgr'[s].nodeid = 0 /\ mgr'[s].wait = 0
      /\ mgr'[s].seen = 0 /\ mgr'[s].off = 0 /\ ~mgr'[s].hung /\ ~mgr'[s].ticked
      /\ mgr'[s].removing = 0 /\ rtc'[s] = << >>
    BY <1>1, StartCases
<1>3. nextId' \in Nat /\ nextId' > 0
    BY <1>2 DEF TypeInv, TypeOK
<1>4. KnowsId(s)'
    BY <1>2, <1>3 DEF KnowsId
<1>5. ManagerOK(s)'
    BY <1>2 DEF ManagerOK
<1>6. ServiceTimeout > 0
    BY <1>1, OrderlyFacts
<1>7. MainOK(s)' /\ MessagesOK(s)' /\ LeaderOK(s)'
    BY <1>2, <1>6 DEF MainOK, MessagesOK, LeaderOK, Serving, Leading, Running
<1>8. ServerInv(s)'
    BY <1>4, <1>5, <1>7 DEF ServerInv
<1> QED
    BY <1>2, <1>8, ServerStep

(* A manager whose id and delay do not change. *)
LEMMA KnowsSame ==
    ASSUME NEW s \in Server, KnowsId(s), mgr'[s].nodeid = mgr[s].nodeid, mgr'[s].fd = mgr[s].fd,
           UNCHANGED <<nameOf, cfgDelay, row, nextId>>,
           \/ mgr'[s].removing = 0
           \/ /\ mgr'[s].removing = mgr[s].removing /\ mgr'[s].hung = mgr[s].hung
              /\ Leading(s) => Leading(s)'
    PROVE  KnowsId(s)'
BY DEF KnowsId

(* StartupDone *)
LEMMA StartupDoneLease ==
    ASSUME LeaseInv, Orderly, NEW s \in Server, StartupDone(s)
    PROVE  LeaseInv'
<1>1. TypeInv /\ KnowsId(s) /\ ManagerOK(s) /\ MainOK(s) /\ MessagesOK(s) /\ LeaderOK(s)
    BY DEF LeaseInv, ServerInv
<1>2. /\ TypeInv' /\ UNCHANGED <<nameOf, now, cfgDelay, row, nextId, dbUp, mgr, rtc>> /\ OthersKept(s)
      /\ main[s].phase = "startup" /\ main[s].busy = 0 /\ main'[s].phase = "asking"
      /\ main'[s].ha = main[s].ha /\ main'[s].old = main[s].old /\ main'[s].hb = main[s].hb
      /\ main'[s].fd = main[s].fd /\ main'[s].inc = main[s].inc
    BY <1>1, StartupDoneCases
<1>3. KnowsId(s)'
    BY <1>1, <1>2, KnowsSame DEF Leading
<1>4. ManagerOK(s)'
    BY <1>1, <1>2 DEF ManagerOK, OfflineUntil, Untick
<1>5. MainOK(s)' /\ MessagesOK(s)'
    BY <1>1, <1>2 DEF MainOK, MessagesOK, Serving, Leading, Running
<1>6. now \in Nat /\ (CheckNow(s)' <=> CheckNow(s))
    BY <1>1, <1>2, ServerTypes DEF CheckNow
<1>7. LeaderOK(s)'
    BY <1>1, <1>2, <1>6 DEF LeaderOK, Serving, Leading, Sess, Untick
<1>8. ServerInv(s)'
    BY <1>3, <1>4, <1>5, <1>7 DEF ServerInv
<1> QED
    BY <1>2, <1>8, ServerStep

(* ObtainStatus: the manager of a server that starts or serves answers.    *)
LEMMA ObtainStatusLease ==
    ASSUME LeaseInv, Orderly, NEW s \in Server, ObtainStatus(s)
    PROVE  LeaseInv'
<1>1. TypeInv /\ RowInv /\ KnowsId(s) /\ ManagerOK(s) /\ MainOK(s) /\ MessagesOK(s) /\ LeaderOK(s) /\ StatesOK(s)
    BY DEF LeaseInv, ServerInv, TypeInv
<1>2. /\ TypeInv' /\ UNCHANGED <<nameOf, now, cfgDelay, row, nextId, dbUp>> /\ OthersKept(s)
      /\ main[s].phase \in {"boot", "asking"} /\ (Answers(s) \/ main[s].busy = 0)
    BY <1>1, ObtainStatusCases
<1>3. SUFFICES ServerInv(s)'
    BY <1>2, ServerStep
<1>4. main[s].phase = "boot" => Answers(s)
    BY <1>1, <1>2, ServerNumbers DEF MainOK
<1>5. /\ Answers(s) => StatusReply(s).ha = mgr[s].st /\ StatusReply(s).fd = mgr[s].fd
      /\ ~Answers(s) => StatusReply(s).ha = "STANDBY"
    BY DEF StatusReply
<1>6. MaxStartup \in Nat /\ now \in Nat /\ now > 0
    BY <1>1, Constants, ServerTypes DEF RowInv
<1>7. CASE IsDown(s)
    BY <1>2, <1>7, DownOK
<1>8. ASSUME NEW p \in MainProcess, Obtained(s, p), main'[s] = p, mgr'[s] = mgr[s], rtc'[s] = rtc[s],
             Answers(s),
             p.phase \in {"startup", "run"},
             \/ p.ha = "ACTIVE" /\ main[s].phase = "boot" /\ p.phase = "startup" /\ p.busy \in 0 .. MaxStartup
             \/ p.ha = "ACTIVE" /\ main[s].phase # "boot" /\ p.phase = "run"
             \/ p.ha \notin {"ERROR", "ACTIVE"} /\ main[s].phase = "boot" /\ p.phase = "run"
      PROVE  ServerInv(s)'
  <2>1. /\ p.ha = mgr[s].st /\ p.old = p.ha /\ p.fd = mgr[s].fd /\ p.inc = main[s].inc /\ p.hb = main[s].hb
        /\ p.polled = main[s].polled
    BY <1>5, <1>8 DEF Obtained
  <2>2. mgr[s].pc = "idle" /\ mgr[s].st \in {"UNKNOWN", "STANDBY", "ACTIVE"} /\ ~mgr[s].hung
    <3>1. mgr[s].pc = "pause" => mgr[s].st = "ERROR"
      BY <1>1, <1>2 DEF ManagerOK
    <3> QED
      BY <1>1, <1>8, <2>1, <3>1 DEF Answers, InLoop, StatesOK
  <2>3. KnowsId(s)'
    BY <1>1, <1>2, <1>8, KnowsSame DEF Leading
  <2>4. ManagerOK(s)'
    BY <1>1, <1>2, <1>8, <2>2 DEF ManagerOK, OfflineUntil, Untick
  <2>5. MainOK(s)'
    BY <1>8, <2>1, <2>2 DEF MainOK, Serving, Leading, Running
  <2>6. MessagesOK(s)'
    <3>1. \A k \in DOMAIN rtc[s] : rtc[s][k] = Heartbeat
      BY <1>1, <1>2 DEF MessagesOK
    <3>2. p.phase = "run" => mgr[s].ticked \/ p.old = "ACTIVE"
      BY <1>1, <1>8, <2>1, <2>2 DEF MainOK
    <3> QED
      BY <1>8, <3>1, <3>2 DEF MessagesOK, Serving
  <2>7. LeaderOK(s)'
    <3>1. SUFFICES ASSUME Leading(s) PROVE LeaderOK(s)'
      BY <1>8 DEF LeaderOK, Leading
    <3>2. PICK la \in Nat : la = row[nameOf[s]].lastaccess
      BY <1>1, ServerTypes
    <3>3. /\ mgr[s].nodeid # 0 /\ row[nameOf[s]].id = mgr[s].nodeid /\ row[nameOf[s]].status = "ACTIVE"
          /\ row[nameOf[s]].sess = Sess(s)
          /\ mgr[s].wait > 1 => now + mgr[s].wait <= la + Poll + Untick(mgr[s])
          /\ la + Poll + Untick(mgr[s]) <= now + mgr[s].wait + 1
          /\ rtc[s] # << >> => now + 1 <= la + Poll \/ CheckNow(s)
          /\ main[s].phase = "boot" => now = la
          /\ rtc[s] # << >> /\ (Prompt \/ dbUp[s])
      BY <1>1, <1>2, <3>1, <3>2 DEF LeaderOK
    <3>4. p.ha = "ACTIVE" /\ p.old = "ACTIVE" /\ p.fd = cfgDelay
      BY <1>1, <2>1, <3>1, <3>3 DEF Leading, KnowsId
    <3>7. CheckNow(s)' <=> CheckNow(s)
      BY <1>2, <1>8 DEF CheckNow
    <3>5. CASE main[s].phase = "boot"
      <4>1. p.phase = "startup" /\ p.busy \in 0 .. MaxStartup
        BY <1>1, <1>8, <2>1, <3>4, <3>5 DEF MainOK
      <4>2. now + p.busy <= la + MaxStartup
        BY <1>6, <3>3, <3>5, <4>1
      <4> QED
        BY <1>2, <1>8, <2>1, <3>2, <3>3, <3>4, <3>5, <3>7, <4>1, <4>2 DEF LeaderOK, Serving, Leading, Sess, Untick
    <3>6. CASE main[s].phase = "asking"
      <4>1. p.phase = "run"
        BY <1>8, <3>4, <3>6
      <4> QED
        BY <1>2, <1>8, <2>1, <3>2, <3>3, <3>4, <3>6, <3>7, <4>1 DEF LeaderOK, Serving, Leading, Sess, Untick
    <3> QED
      BY <1>2, <3>5, <3>6
  <2> QED
    BY <2>3, <2>4, <2>5, <2>6, <2>7 DEF ServerInv
<1>9. main[s].phase # "boot" => mgr[s].st = "ACTIVE"
    BY <1>1, <1>2 DEF MainOK, Serving, Leading
<1>10. ASSUME NEW p \in MainProcess, Obtained(s, p), main'[s] = p, IsFresh(s), p.phase = "run", ~Answers(s)
       PROVE  ServerInv(s)'
    BY <1>2, <1>5, <1>6, <1>10, FreshOK DEF Obtained
<1> QED
  <2>1. \/ IsDown(s)
        \/ \E p \in MainProcess :
              /\ Obtained(s, p) /\ main'[s] = p
              /\ \/ /\ p.ha = "ACTIVE" /\ main[s].phase = "boot" /\ p.phase = "startup"
                    /\ p.busy \in 0 .. MaxStartup /\ mgr'[s] = mgr[s] /\ rtc'[s] = rtc[s]
                 \/ /\ p.ha = "ACTIVE" /\ main[s].phase # "boot" /\ p.phase = "run"
                    /\ mgr'[s] = mgr[s] /\ rtc'[s] = rtc[s]
                 \/ /\ p.ha \notin {"ERROR", "ACTIVE"} /\ main[s].phase = "boot" /\ p.phase = "run"
                    /\ mgr'[s] = mgr[s] /\ rtc'[s] = rtc[s]
                 \/ /\ p.ha \notin {"ERROR", "ACTIVE"} /\ main[s].phase # "boot" /\ p.phase = "run"
                    /\ IsFresh(s)
    BY <1>1, ObtainStatusCases
  <2>2. CASE Answers(s)
    BY <1>5, <1>7, <1>8, <1>9, <2>1, <2>2 DEF Obtained
  <2>3. CASE ~Answers(s)
    BY <1>4, <1>5, <1>7, <1>10, <2>1, <2>3 DEF Obtained
  <2> QED
    BY <2>2, <2>3

(* The messages that are left after one has been read. *)
LEMMA RestOK ==
    ASSUME NEW s \in Server, rtc[s] \in Seq(Message), MessagesOK(s), main[s].phase = "run",
           rtc'[s] = IF rtc[s] = << >> THEN << >> ELSE Tail(rtc[s]), mgr'[s] = mgr[s],
           main'[s].phase = "startup" \/ main'[s].old = main[s].old
    PROVE  MessagesOK(s)' /\ (rtc'[s] # << >> => rtc[s] # << >>)
<1>1. rtc'[s] # << >> => rtc[s] # << >>
    OBVIOUS
<1>2. \A k \in DOMAIN rtc'[s] : rtc'[s][k] = Heartbeat
  <2>1. CASE rtc[s] = << >>
    BY <2>1
  <2>2. CASE rtc[s] # << >>
    BY <2>2, TailSeq DEF MessagesOK
  <2> QED
    BY <2>1, <2>2
<1>3. main'[s].phase = "run" /\ rtc'[s] # << >> => mgr'[s].ticked \/ Serving(s)'
    BY <1>1 DEF MessagesOK, Serving
<1> QED
    BY <1>1, <1>2, <1>3 DEF MessagesOK

(* The codes of the messages. *)
LEMMA Codes ==
    /\ Heartbeat.code = "HEARTBEAT" /\ NoMessage.code = "NONE"
    /\ \A st, fd : /\ Update(st, fd).code = "STATUS" /\ Update(st, fd).st = st /\ Update(st, fd).fd = fd
                   /\ Update(st, fd) # Heartbeat
BY DEF Heartbeat, NoMessage, Update

(* MainLoop of a server that does not serve. *)
LEMMA IdleLoopLease ==
    ASSUME LeaseInv, Orderly, NEW s \in Server, main[s].phase = "run", main[s].old # "ACTIVE",
           TypeInv', UNCHANGED <<nameOf, now, cfgDelay, row, nextId, dbUp>>, NEW d \in MainProcess,
           Dispatched(main[s], IF rtc[s] = << >> THEN NoMessage ELSE rtc[s][1], d),
           d.polled = TRUE, d.phase = "run", d.old = main[s].old, d.inc = main[s].inc, LoopEnds(s, d)
    PROVE  ServerInv(s)'
<1>1. /\ TypeInv /\ RowInv /\ KnowsId(s) /\ ManagerOK(s) /\ MainOK(s) /\ MessagesOK(s) /\ LeaderOK(s)
      /\ StatesOK(s) /\ rtc[s] \in Seq(Message) /\ main[s] \in MainProcess
    BY ServerTypes DEF LeaseInv, ServerInv
<1>2. /\ Poll \in Nat /\ Poll > 1 /\ MaxStartup \in Nat /\ now \in Nat /\ cfgDelay \in Nat
      /\ cfgDelay >= 2 * Poll /\ now > 0
    BY <1>1, Constants, ServerTypes DEF RowInv
<1>3. /\ main[s].ha \in {"UNKNOWN", "STANDBY"} /\ ~Serving(s)
    BY <1>1 DEF MainOK, Serving, Running
<1>4. PICK msg : msg = IF rtc[s] = << >> THEN NoMessage ELSE rtc[s][1]
    OBVIOUS
<1>5. msg.code = "STATUS" => rtc[s] # << >> /\ msg = Update(mgr[s].st, mgr[s].fd)
  <2>1. rtc[s] # << >> => 1 \in DOMAIN rtc[s]
    BY <1>1, TailSeq
  <2> QED
    BY <1>1, <1>4, <2>1, Codes DEF MessagesOK
<1>6. Dispatched(main[s], msg, d)
    BY <1>4
<1>7. Leading(s) => d.ha = "ACTIVE" /\ d.fd = cfgDelay
  <2>1. SUFFICES ASSUME Leading(s) PROVE d.ha = "ACTIVE" /\ d.fd = cfgDelay
    OBVIOUS
  <2>2. Len(rtc[s]) > 1 /\ rtc[s] # << >> /\ rtc[s][1] = Update("ACTIVE", cfgDelay)
    <3>1. Len(rtc[s]) > 1 /\ rtc[s][1] = Update("ACTIVE", cfgDelay)
      BY <1>1, <2>1 DEF LeaderOK
    <3>2. Len(<< >>) = 0
      OBVIOUS
    <3> QED
      BY <3>1, <3>2
  <2>3. msg.code = "STATUS" /\ msg.st = "ACTIVE" /\ msg.fd = cfgDelay
    BY <1>4, <2>2, Codes
  <2>4. ~Silent(now, cfgDelay)
    BY <1>2 DEF Silent
  <2> QED
    BY <1>3, <1>6, <2>2, <2>3, <2>4 DEF Dispatched
<1>8. CASE IsDown(s)
    BY <1>8, DownOK
<1>9. CASE IsFresh(s) /\ main'[s].phase = "run" /\ main'[s].ha = "STANDBY" /\ main'[s].old \in {"STANDBY", d.old}
    BY <1>2, <1>9, FreshOK
<1>10. CASE /\ d.ha = "ACTIVE" /\ mgr'[s] = mgr[s]
            /\ main'[s].phase = "startup" /\ main'[s].busy \in 0 .. MaxStartup
            /\ main'[s].ha = "ACTIVE" /\ main'[s].old = "ACTIVE" /\ main'[s].hb = d.hb /\ main'[s].fd = d.fd
            /\ main'[s].inc = d.inc
            /\ rtc'[s] = IF rtc[s] = << >> THEN << >> ELSE Tail(rtc[s])
  <2>1. msg.code = "STATUS" /\ msg.st = "ACTIVE"
    BY <1>3, <1>6, <1>10 DEF Dispatched
  <2>2. mgr[s].st = "ACTIVE" /\ rtc[s] # << >>
    BY <1>5, <2>1, Codes
  <2>3. Leading(s)
    BY <1>1, <2>2, ServerTypes, ManagerFields DEF StatesOK, ManagerOK, Leading
  <2>4. mgr[s].ticked /\ ~mgr[s].hung
    BY <1>1, <1>3, <2>2 DEF MessagesOK, ManagerOK
  <2>5. MessagesOK(s)' /\ (rtc'[s] # << >> => rtc[s] # << >>)
    BY <1>1, <1>10, RestOK
  <2>6. KnowsId(s)'
    BY <1>1, <1>10, KnowsSame DEF Leading
  <2>7. ManagerOK(s)'
    BY <1>1, <1>10, <2>3, <2>4 DEF ManagerOK, OfflineUntil, Untick, Leading
  <2>8. MainOK(s)'
    BY <1>10, <2>3, <2>4 DEF MainOK, Serving, Leading, Running
  <2>9. PICK la \in Nat : la = row[nameOf[s]].lastaccess
    BY <1>1, ServerTypes
  <2>10. now = la /\ Len(rtc[s]) > 1 /\ (Prompt \/ dbUp[s])
    BY <1>1, <2>3, <2>9 DEF LeaderOK
  <2>11. now + main'[s].busy <= la + MaxStartup /\ now + 1 <= la + Poll
    BY <1>2, <1>10, <2>10
  <2>13. rtc'[s] # << >>
    <3>1. PICK q : q = rtc[s]
      OBVIOUS
    <3>2. q \in Seq(Message) /\ q # << >> /\ Len(q) > 1 /\ rtc'[s] = Tail(q)
      BY <1>1, <1>10, <2>2, <2>10, <3>1
    <3>3. Len(Tail(q)) > 0
      BY <3>2
    <3>4. Tail(q) # << >>
      BY <3>3
    <3> QED
      BY <3>2, <3>4, Zenon
  <2>14. /\ mgr[s].nodeid # 0 /\ row[nameOf[s]].id = mgr[s].nodeid /\ row[nameOf[s]].status = "ACTIVE"
         /\ row[nameOf[s]].sess = Sess(s)
         /\ mgr[s].wait > 1 => now + mgr[s].wait <= la + Poll + Untick(mgr[s])
         /\ la + Poll + Untick(mgr[s]) <= now + mgr[s].wait + 1
    BY <1>1, <2>3, <2>9 DEF LeaderOK
  <2>15. /\ mgr'[s] = mgr[s] /\ main'[s].phase = "startup" /\ main'[s].inc = main[s].inc
         /\ main'[s].fd = cfgDelay
    BY <1>7, <1>10, <2>3
  <2>12. LeaderOK(s)'
    BY <2>9, <2>10, <2>11, <2>13, <2>14, <2>15 DEF LeaderOK, Serving, Leading, Sess, Untick
  <2> QED
    BY <2>5, <2>6, <2>7, <2>8, <2>12 DEF ServerInv
<1>11. CASE /\ d.ha \in {"UNKNOWN", d.old} /\ d.ha \notin {"ERROR", "HATIMEOUT"}
            /\ main'[s] = d /\ mgr'[s] = mgr[s]
            /\ rtc'[s] = IF rtc[s] = << >> THEN << >> ELSE Tail(rtc[s])
  <2>1. d.ha # "ACTIVE" /\ ~Leading(s)
    BY <1>7, <1>11
  <2>2. MessagesOK(s)' /\ (rtc'[s] # << >> => rtc[s] # << >>)
    BY <1>1, <1>11, RestOK
  <2>3. KnowsId(s)'
    BY <1>1, <1>11, KnowsSame DEF Leading
  <2>4. ManagerOK(s)'
    BY <1>1, <1>11, <2>2 DEF ManagerOK, OfflineUntil, Untick
  <2>5. d.ha \in {"UNKNOWN", "STANDBY"}
    BY <1>11, <2>1, MainFields DEF Status
  <2>6. MainOK(s)'
    BY <1>11, <2>1, <2>5 DEF MainOK, Serving, Leading, Running
  <2>7. LeaderOK(s)'
    BY <1>11, <2>1 DEF LeaderOK, Leading
  <2> QED
    BY <2>2, <2>3, <2>4, <2>6, <2>7 DEF ServerInv
<1> QED
    BY <1>8, <1>9, <1>10, <1>11 DEF LoopEnds

(* MainLoop of a server that serves. *)
LEMMA ServingLoopLease ==
    ASSUME LeaseInv, Orderly, NEW s \in Server, main[s].phase = "run", main[s].old = "ACTIVE",
           TypeInv', UNCHANGED <<nameOf, now, cfgDelay, row, nextId, dbUp>>, NEW d \in MainProcess,
           Dispatched(main[s], IF rtc[s] = << >> THEN NoMessage ELSE rtc[s][1], d),
           d.polled = TRUE, d.phase = "run", d.old = main[s].old, d.inc = main[s].inc, LoopEnds(s, d)
    PROVE  ServerInv(s)'
<1>1. /\ TypeInv /\ RowInv /\ KnowsId(s) /\ ManagerOK(s) /\ MainOK(s) /\ MessagesOK(s) /\ LeaderOK(s)
      /\ StatesOK(s) /\ rtc[s] \in Seq(Message) /\ main[s] \in MainProcess
    BY ServerTypes DEF LeaseInv, ServerInv
<1>2. /\ Poll \in Nat /\ Poll > 1 /\ now \in Nat /\ cfgDelay \in Nat
      /\ cfgDelay >= 2 * Poll /\ now > 0 /\ main[s].hb \in Nat
    BY <1>1, Constants, ServerTypes, ServerNumbers DEF RowInv
<1>3. Serving(s) /\ Leading(s) /\ main[s].ha = "ACTIVE" /\ main[s].fd = cfgDelay
    BY <1>1 DEF MainOK, Serving, Running, LeaderOK
<1>4. PICK msg : msg = IF rtc[s] = << >> THEN NoMessage ELSE rtc[s][1]
    OBVIOUS
<1>5. msg = IF rtc[s] = << >> THEN NoMessage ELSE Heartbeat
  <2>1. rtc[s] # << >> => 1 \in DOMAIN rtc[s]
    BY <1>1, TailSeq
  <2> QED
    BY <1>1, <1>3, <1>4, <2>1 DEF MessagesOK
<1>6. PICK hb : hb = IF rtc[s] = << >> THEN main[s].hb ELSE now
    OBVIOUS
<1>7. \/ Silent(hb, cfgDelay) /\ d.ha = "STANDBY"
      \/ ~Silent(hb, cfgDelay) /\ d.ha = "ACTIVE" /\ d.fd = cfgDelay /\ d.hb = hb
  <2>1. Dispatched(main[s], msg, d)
    BY <1>4
  <2>2. msg.code # "STATUS" /\ (msg.code = "HEARTBEAT" <=> rtc[s] # << >>)
    BY <1>5, Codes
  <2> QED
    BY <1>3, <1>6, <2>1, <2>2 DEF Dispatched
<1>8. CASE IsDown(s)
    BY <1>8, DownOK
<1>9. CASE IsFresh(s) /\ main'[s].phase = "run" /\ main'[s].ha = "STANDBY" /\ main'[s].old = "STANDBY"
    BY <1>2, <1>9, FreshOK
<1>10. CASE /\ d.ha \in {"UNKNOWN", d.old}
            /\ main'[s] = d /\ mgr'[s] = mgr[s]
            /\ rtc'[s] = IF rtc[s] = << >> THEN << >> ELSE Tail(rtc[s])
  <2>1. ~Silent(hb, cfgDelay) /\ d.ha = "ACTIVE" /\ d.fd = cfgDelay /\ d.hb = hb
    BY <1>7, <1>10
  <2>2. MessagesOK(s)' /\ (rtc'[s] # << >> => rtc[s] # << >>)
    BY <1>1, <1>10, RestOK
  <2>3. KnowsId(s)'
    BY <1>1, <1>10, KnowsSame DEF Leading
  <2>4. ManagerOK(s)'
    BY <1>1, <1>10, <2>2 DEF ManagerOK, OfflineUntil, Untick
  <2>5. MainOK(s)'
    BY <1>3, <1>10, <2>1 DEF MainOK, Serving, Leading, Running
  <2>6. PICK la \in Nat : la = row[nameOf[s]].lastaccess
    BY <1>1, ServerTypes
  <2>7. /\ rtc[s] # << >> => now + 1 <= la + Poll \/ CheckNow(s)
        /\ rtc[s] = << >> => main[s].hb # 0 /\ (main[s].hb + 1 <= la + Poll \/ (main[s].hb = now /\ CheckNow(s)))
    BY <1>1, <1>3, <2>6 DEF LeaderOK
  <2>8. hb \in Nat /\ hb # 0 /\ (hb + 1 <= la + Poll \/ (hb = now /\ CheckNow(s)))
    BY <1>2, <1>6, <2>7
  <2>11. /\ rtc'[s] # << >> => now + 1 <= la + Poll \/ CheckNow(s)
         /\ CheckNow(s)' <=> CheckNow(s)
    BY <1>10, <2>2, <2>7 DEF CheckNow
  <2>9. now + Poll + 1 <= hb + cfgDelay
    BY <1>2, <2>1, <2>8 DEF Silent
  <2>10. LeaderOK(s)'
    BY <1>1, <1>3, <1>10, <2>1, <2>6, <2>8, <2>9, <2>11 DEF LeaderOK, Serving, Leading, Sess, Untick
  <2> QED
    BY <2>2, <2>3, <2>4, <2>5, <2>10 DEF ServerInv
<1> QED
    BY <1>7, <1>8, <1>9, <1>10 DEF LoopEnds

(* MainLoop *)
LEMMA MainLoopLease ==
    ASSUME LeaseInv, Orderly, NEW s \in Server, MainLoop(s)
    PROVE  LeaseInv'
<1>1. TypeInv
    BY DEF LeaseInv
<1>2. /\ TypeInv' /\ UNCHANGED <<nameOf, now, cfgDelay, row, nextId, dbUp>> /\ OthersKept(s)
      /\ main[s].phase = "run"
    BY <1>1, MainLoopCases
<1>3. PICK d \in MainProcess :
         /\ Dispatched(main[s], IF rtc[s] = << >> THEN NoMessage ELSE rtc[s][1], d)
         /\ d.polled = TRUE /\ d.phase = "run" /\ d.old = main[s].old /\ d.inc = main[s].inc
         /\ LoopEnds(s, d)
    BY <1>1, MainLoopCases
<1>4. ServerInv(s)'
    BY <1>2, <1>3, IdleLoopLease, ServingLoopLease
<1> QED
    BY <1>2, <1>4, ServerStep

(* Stop *)
LEMMA StopLease ==
    ASSUME LeaseInv, Orderly, NEW s \in Server, Stop(s)
    PROVE  LeaseInv'
<1>1. TypeInv /\ KnowsId(s) /\ MessagesOK(s)
    BY DEF LeaseInv, ServerInv
<1>2. /\ TypeInv' /\ UNCHANGED <<nameOf, now, cfgDelay, row, nextId, dbUp, rtc>> /\ OthersKept(s)
      /\ InLoop(s) /\ mgr'[s].removing = 0 /\ main'[s].phase = "stopping"
      /\ mgr'[s].pc = "pause" /\ mgr'[s].st = mgr[s].st /\ mgr'[s].nodeid = mgr[s].nodeid
      /\ mgr'[s].fd = mgr[s].fd /\ mgr'[s].wait = Poll /\ mgr'[s].hung = mgr[s].hung
    BY <1>1, StopCases
<1>3. KnowsId(s)'
    BY <1>1, <1>2, KnowsSame
<1>4. ManagerOK(s)'
    BY <1>2, Constants DEF ManagerOK, InLoop
<1>5. MainOK(s)' /\ LeaderOK(s)'
    BY <1>2 DEF MainOK, LeaderOK, Serving, Leading, Running
<1>6. MessagesOK(s)'
    BY <1>1, <1>2 DEF MessagesOK, Serving
<1>7. ServerInv(s)'
    BY <1>3, <1>4, <1>5, <1>6 DEF ServerInv
<1> QED
    BY <1>2, <1>7, ServerStep

(* Hang: no check is due while a server starts, when startups are prompt;   *)
(* when they are not, a manager does not hang before the server has started. *)
LEMMA HangLease ==
    ASSUME LeaseInv, Orderly, NEW s \in Server, Hang(s)
    PROVE  LeaseInv'
<1>1. /\ TypeInv /\ KnowsId(s) /\ ManagerOK(s) /\ MainOK(s) /\ MessagesOK(s) /\ LeaderOK(s)
    BY DEF LeaseInv, ServerInv
<1>2. /\ TypeInv' /\ UNCHANGED <<nameOf, now, cfgDelay, row, nextId, dbUp, main, rtc>> /\ OthersKept(s)
      /\ Kind(s, mgr[s].pc) \in FaultKinds /\ (Ready(s, "boot") \/ Ready(s, "register") \/ CheckDue(s))
      /\ mgr'[s].hung = TRUE /\ mgr'[s].pc = mgr[s].pc /\ mgr'[s].st = mgr[s].st
      /\ mgr'[s].nodeid = mgr[s].nodeid /\ mgr'[s].fd = mgr[s].fd /\ mgr'[s].wait = mgr[s].wait
      /\ mgr'[s].seen = mgr[s].seen /\ mgr'[s].off = mgr[s].off /\ mgr'[s].ticked = mgr[s].ticked
      /\ mgr'[s].removing = mgr[s].removing
    BY <1>1, HangCases
<1>3. /\ mgr[s].pc = "idle" /\ mgr[s].wait = 1 /\ ~mgr[s].ticked /\ mgr[s].removing = 0
      /\ Prompt \/ ~Starting(s)
    BY <1>1, <1>2, OrderlyFacts DEF Ready, CheckDue, Kind, Starting, Leading
<1>4. main[s].phase \notin {"startup", "asking"}
  <2>1. SUFFICES ASSUME main[s].phase \in {"startup", "asking"} PROVE FALSE
    OBVIOUS
  <2>2. PICK la \in Nat : la = row[nameOf[s]].lastaccess
    BY <1>1, ServerTypes
  <2>3. Leading(s)
    BY <1>1, <2>1 DEF MainOK, Serving
  <2>4. /\ la + Poll + Untick(mgr[s]) <= now + mgr[s].wait + 1
        /\ main[s].phase = "startup" /\ Prompt => now + main[s].busy <= la + MaxStartup
        /\ main[s].phase = "asking" /\ Prompt => now <= la + MaxStartup
    BY <1>1, <2>2, <2>3 DEF LeaderOK
  <2>5. Untick(mgr[s]) = 1
    BY <1>3 DEF Untick
  <2>6. main[s].busy \in Nat /\ now \in Nat /\ Poll \in Nat /\ MaxStartup \in Nat
    BY <1>1, ServerNumbers, ServerTypes, Constants
  <2>7. Prompt
    BY <1>3, <2>1, <2>3, Zenon DEF Starting
  <2>8. MaxStartup + 2 <= Poll
    BY <2>7 DEF Prompt
  <2> QED
    BY <1>3, <2>1, <2>4, <2>5, <2>6, <2>7, <2>8
<1>5. KnowsId(s)'
    BY <1>1, <1>2, <1>3, KnowsSame
<1>6. OfflineUntil(mgr[s])' = OfflineUntil(mgr[s]) /\ Untick(mgr[s])' = Untick(mgr[s])
    BY <1>2 DEF OfflineUntil, Untick
<1>7. ManagerOK(s)'
    BY <1>1, <1>2, <1>3, <1>6 DEF ManagerOK
<1>8. MainOK(s)' /\ MessagesOK(s)'
    BY <1>1, <1>2, <1>4 DEF MainOK, MessagesOK, Serving, Leading, Running
<1>11. Leading(s) => ~(CheckNow(s) /\ (rtc[s] # << >> \/ main[s].hb = now))
    BY <1>3 DEF CheckNow, Starting
<1>9. LeaderOK(s)'
    BY <1>1, <1>2, <1>6, <1>11 DEF LeaderOK, Serving, Leading, Sess
<1>10. ServerInv(s)'
    BY <1>5, <1>7, <1>8, <1>9 DEF ServerInv
<1> QED
    BY <1>2, <1>10, ServerStep

(* MgrTick: what it changes. *)
LEMMA MgrTickCases ==
    ASSUME TypeInv, NEW s \in Server, MgrTick(s)
    PROVE  /\ TypeInv' /\ UNCHANGED <<nameOf, now, cfgDelay, row, nextId, dbUp, main>> /\ OthersKept(s)
           /\ Ready(s, "idle") /\ mgr[s].wait > 1
           /\ mgr'[s].pc = "idle" /\ mgr'[s].st = mgr[s].st /\ mgr'[s].nodeid = mgr[s].nodeid
           /\ mgr'[s].fd = mgr[s].fd /\ mgr'[s].wait = mgr[s].wait - 1 /\ mgr'[s].ticked = TRUE
           /\ mgr'[s].seen = mgr[s].seen /\ mgr'[s].off = mgr[s].off /\ mgr'[s].hung = mgr[s].hung
           /\ mgr'[s].removing = mgr[s].removing /\ rtc'[s] \in {rtc[s], Post(rtc[s], Heartbeat)}
<1>1. TypeInv'
    BY MgrTickType
<1>2. mgr[s] \in Manager /\ mgr \in [Server -> Manager] /\ rtc \in [Server -> Seq(Message)]
    BY DEF TypeInv, TypeOK
<1>3. PICK m2 : m2 = [mgr[s] EXCEPT !.wait = mgr[s].wait - 1, !.ticked = TRUE]
    OBVIOUS
<1>4. mgr' = [mgr EXCEPT ![s] = m2]
    BY <1>2, <1>3 DEF MgrTick
<1>5. /\ m2.pc = mgr[s].pc /\ m2.st = mgr[s].st /\ m2.nodeid = mgr[s].nodeid /\ m2.fd = mgr[s].fd
      /\ m2.wait = mgr[s].wait - 1 /\ m2.ticked = TRUE
      /\ m2.seen = mgr[s].seen /\ m2.off = mgr[s].off /\ m2.hung = mgr[s].hung /\ m2.removing = mgr[s].removing
    BY <1>2, <1>3 DEF Manager
<1>6. rtc' = rtc \/ rtc' = [rtc EXCEPT ![s] = Post(rtc[s], Heartbeat)]
    BY <1>2 DEF MgrTick
<1>7. rtc'[s] \in {rtc[s], Post(rtc[s], Heartbeat)}
    BY <1>2, <1>6
<1>8. main' = main /\ mgr'[s] = m2 /\ UNCHANGED <<nameOf, now, cfgDelay, row, nextId, dbUp>>
    BY <1>2, <1>4 DEF MgrTick
<1>9. OthersKept(s)
    BY <1>2, <1>4, <1>6, <1>8 DEF OthersKept
<1>10. Ready(s, "idle") /\ mgr[s].wait > 1
    BY DEF MgrTick
<1> QED
    BY <1>1, <1>5, <1>7, <1>8, <1>9, <1>10 DEF Ready

(* MgrTick *)
LEMMA MgrTickLease ==
    ASSUME LeaseInv, Orderly, NEW s \in Server, MgrTick(s)
    PROVE  LeaseInv'
<1>1. /\ TypeInv /\ KnowsId(s) /\ ManagerOK(s) /\ MainOK(s) /\ MessagesOK(s) /\ LeaderOK(s)
      /\ rtc[s] \in Seq(Message)
    BY ServerTypes DEF LeaseInv, ServerInv
<1>2. /\ TypeInv' /\ UNCHANGED <<nameOf, now, cfgDelay, row, nextId, dbUp, main>> /\ OthersKept(s)
      /\ Ready(s, "idle") /\ mgr[s].wait > 1
      /\ mgr'[s].pc = "idle" /\ mgr'[s].st = mgr[s].st /\ mgr'[s].nodeid = mgr[s].nodeid
      /\ mgr'[s].fd = mgr[s].fd /\ mgr'[s].wait = mgr[s].wait - 1 /\ mgr'[s].ticked = TRUE
      /\ mgr'[s].seen = mgr[s].seen /\ mgr'[s].off = mgr[s].off /\ mgr'[s].hung = mgr[s].hung
      /\ mgr'[s].removing = mgr[s].removing /\ rtc'[s] \in {rtc[s], Post(rtc[s], Heartbeat)}
    BY <1>1, MgrTickCases
<1>3. mgr[s].pc = "idle" /\ ~mgr[s].ticked /\ main[s].phase # "boot" /\ ~mgr[s].hung
    BY <1>1, <1>2 DEF Ready, MainOK, ManagerOK
<1>4. /\ mgr[s].wait \in Nat /\ OfflineUntil(mgr[s]) \in Nat /\ now \in Nat /\ Poll \in Nat
    BY <1>1, ServerNumbers, ServerTypes, Constants
<1>5. /\ OfflineUntil(mgr[s])' = OfflineUntil(mgr[s]) /\ Untick(mgr[s])' = 0 /\ Untick(mgr[s]) = 1
    BY <1>2, <1>3 DEF OfflineUntil, Untick
<1>6. KnowsId(s)'
    BY <1>1, <1>2, KnowsSame DEF Leading
<1>7. ManagerOK(s)'
  <2>1. OfflineUntil(mgr[s]) + 1 <= now + mgr[s].wait
    BY <1>1, <1>2, <1>3, <1>4, <1>5 DEF ManagerOK
  <2>2. OfflineUntil(mgr[s]) + 0 <= now + (mgr[s].wait - 1) /\ mgr[s].wait - 1 # 0
    BY <1>2, <1>4, <2>1
  <2> QED
    BY <1>2, <1>3, <1>5, <2>2 DEF ManagerOK
<1>8. MainOK(s)'
    BY <1>1, <1>2, <1>3 DEF MainOK, Serving, Leading, Running
<1>9. /\ \A k \in DOMAIN rtc'[s] : rtc'[s][k] = Heartbeat \/ (k \in DOMAIN rtc[s] /\ rtc'[s][k] = rtc[s][k])
      /\ rtc[s] # << >> => rtc'[s] # << >>
  <2>1. CASE rtc'[s] = rtc[s]
    BY <2>1
  <2>2. CASE rtc'[s] = Post(rtc[s], Heartbeat)
    BY <1>1, <2>2, PostSeq, MessageFields
  <2> QED
    BY <1>2, <2>1, <2>2
<1>10. MessagesOK(s)'
    BY <1>1, <1>2, <1>9 DEF MessagesOK, Serving
<1>11. LeaderOK(s)'
  <2>1. SUFFICES ASSUME Leading(s) PROVE LeaderOK(s)'
    BY <1>2, <1>3 DEF LeaderOK, Leading
  <2>2. PICK la \in Nat : la = row[nameOf[s]].lastaccess
    BY <1>1, ServerTypes
  <2>3. /\ now + mgr[s].wait <= la + Poll + 1
        /\ la + Poll + 1 <= now + mgr[s].wait + 1
    BY <1>1, <1>2, <1>5, <2>1, <2>2 DEF LeaderOK
  <2>4. /\ now + (mgr[s].wait - 1) <= la + Poll + 0 /\ la + Poll + 0 <= now + (mgr[s].wait - 1) + 1
        /\ now + 1 <= la + Poll
    BY <1>2, <1>4, <2>3
  <2>5. ~(main[s].phase = "run" /\ main[s].old # "ACTIVE")
    BY <1>1, <1>3, <2>1 DEF LeaderOK, MessagesOK, Serving
  <2> QED
    BY <1>1, <1>2, <1>3, <1>5, <1>9, <2>1, <2>2, <2>4, <2>5 DEF LeaderOK, Serving, Leading, Sess
<1>12. ServerInv(s)'
    BY <1>6, <1>7, <1>8, <1>10, <1>11 DEF ServerInv
<1> QED
    BY <1>2, <1>12, ServerStep

(* Second: every process that must act has acted. *)
LEMMA SecondLease ==
    ASSUME LeaseInv, Orderly, Second
    PROVE  LeaseInv'
<1>1. TypeInv /\ RowInv
    BY DEF LeaseInv
<1>2. TypeInv' /\ now' = now + 1 /\ UNCHANGED <<nameOf, cfgDelay, row, nextId, dbUp, rtc>>
    BY <1>1, SecondCases
<1>3. RowInv'
  <2>1. now \in Nat /\ \A n \in Name : row[n].lastaccess \in Nat
    BY <1>1, RowFields DEF TypeInv, TypeOK
  <2> QED
    BY <1>1, <1>2, <2>1 DEF RowInv
<1>4. ASSUME NEW s \in Server PROVE ServerInv(s)'
  <2>1. KnowsId(s) /\ ManagerOK(s) /\ MainOK(s) /\ MessagesOK(s) /\ LeaderOK(s) /\ StatesOK(s)
    BY <1>1, ServerTypes DEF LeaseInv, ServerInv
  <2>2. /\ TurnTaken(s)
        /\ mgr'[s].ticked = FALSE /\ mgr'[s].pc = mgr[s].pc /\ mgr'[s].st = mgr[s].st
        /\ mgr'[s].nodeid = mgr[s].nodeid /\ mgr'[s].fd = mgr[s].fd /\ mgr'[s].wait = mgr[s].wait
        /\ mgr'[s].seen = mgr[s].seen /\ mgr'[s].off = mgr[s].off /\ mgr'[s].hung = mgr[s].hung
        /\ mgr'[s].removing = mgr[s].removing
        /\ main'[s].polled = FALSE /\ main'[s].phase = main[s].phase /\ main'[s].ha = main[s].ha
        /\ main'[s].old = main[s].old /\ main'[s].hb = main[s].hb /\ main'[s].fd = main[s].fd
        /\ main'[s].inc = main[s].inc
        /\ main'[s].busy = IF main[s].busy = 0 THEN 0 ELSE main[s].busy - 1
    BY <1>1, SecondCases
  <2>3. /\ main[s].phase \in {"off", "boot", "startup", "asking", "run", "stopping"}
        /\ mgr[s].pc \in {"off", "boot", "register", "idle", "pause"}
    BY <1>1, ServerTypes, ManagerFields, MainFields
  <2>4. /\ main[s].phase = "off" \/ ((mgr[s].ticked \/ mgr[s].hung) /\ mgr[s].removing = 0)
        /\ main[s].phase = "run" => main[s].polled /\ rtc[s] = << >>
        /\ main[s].phase = "startup" => main[s].busy > 0
        /\ main[s].phase \in {"boot", "asking"} => ~Answers(s)
    BY <2>2 DEF TurnTaken
  <2>5. mgr[s].pc \notin {"boot", "register"}
    BY <2>1, <2>4 DEF ManagerOK, StatesOK
  <2>6. main[s].phase \notin {"boot", "asking"}
    <3>1. ASSUME main[s].phase = "boot" PROVE FALSE
      <4>1. mgr[s].pc \in {"idle", "pause"}
        BY <2>1, <2>3, <2>5, <3>1 DEF StatesOK
      <4> QED
        BY <2>1, <2>4, <3>1, <4>1 DEF Answers, InLoop, MainOK, ManagerOK
    <3>2. ASSUME main[s].phase = "asking" PROVE FALSE
      BY <2>1, <2>4, <3>2 DEF Answers, InLoop, MainOK, Serving, Leading
    <3> QED
      BY <3>1, <3>2
  <2>7. /\ mgr[s].wait \in Nat /\ OfflineUntil(mgr[s]) \in Nat /\ now \in Nat /\ Poll \in Nat /\ Poll > 1
        /\ MaxStartup \in Nat /\ cfgDelay \in Nat
        /\ Untick(mgr[s]) \in {0, 1} /\ (mgr[s].ticked <=> Untick(mgr[s]) = 0)
        /\ main[s].busy \in Nat /\ main[s].hb \in Nat
    BY <1>1, ServerNumbers, ServerTypes, Constants, OrderlyFacts
  <2>8. OfflineUntil(mgr[s])' = OfflineUntil(mgr[s]) /\ Untick(mgr[s])' = 1
    BY <2>2 DEF OfflineUntil, Untick
  <2>9. KnowsId(s)'
    BY <1>2, <2>1, <2>2, KnowsSame DEF Leading
  <2>10. ManagerOK(s)'
    <3>1. mgr[s].pc = "idle" /\ mgr[s].wait # 0 => OfflineUntil(mgr[s]) + 1 <= (now + 1) + mgr[s].wait
      BY <2>1, <2>7 DEF ManagerOK
    <3> QED
      BY <1>2, <2>1, <2>2, <2>5, <2>8, <3>1 DEF ManagerOK
  <2>11. MainOK(s)'
    BY <1>2, <2>1, <2>2, <2>6 DEF MainOK, Serving, Leading, Running
  <2>12. MessagesOK(s)'
    BY <1>2, <2>1, <2>2, <2>4 DEF MessagesOK, Serving
  <2>13. LeaderOK(s)'
    <3>1. SUFFICES ASSUME Leading(s) PROVE LeaderOK(s)'
      BY <2>2 DEF LeaderOK, Leading
    <3>2. PICK la \in Nat : la = row[nameOf[s]].lastaccess
      BY <1>1, ServerTypes
    <3>3. main[s].phase \in {"startup", "run"}
      BY <2>1, <2>3, <2>6, <3>1 DEF Leading, StatesOK, MainOK
    <3>4. /\ mgr[s].wait > 1 => now + mgr[s].wait <= la + Poll + Untick(mgr[s])
          /\ la + Poll + Untick(mgr[s]) <= now + mgr[s].wait + 1
          /\ main[s].phase = "startup" =>
                /\ rtc[s] # << >> /\ (now + 1 <= la + Poll \/ CheckNow(s)) /\ (Prompt \/ dbUp[s])
                /\ Prompt => now + main[s].busy <= la + MaxStartup
      BY <2>1, <3>1, <3>2 DEF LeaderOK
    <3>9. ~CheckNow(s)
      BY <2>1, <2>3, <2>4, <3>3 DEF CheckNow
    <3>10. main[s].phase = "run" => /\ main[s].old = "ACTIVE" /\ main[s].hb # 0 /\ main[s].hb + 1 <= la + Poll
                                    /\ now + Poll + 1 <= main[s].hb + cfgDelay
      <4>1. SUFFICES ASSUME main[s].phase = "run"
                     PROVE  /\ main[s].old = "ACTIVE" /\ main[s].hb # 0 /\ main[s].hb + 1 <= la + Poll
                            /\ now + Poll + 1 <= main[s].hb + cfgDelay
        OBVIOUS
      <4>2. rtc[s] = << >> /\ main[s].polled /\ ~(Len(rtc[s]) > 1)
        <5>1. Len(<< >>) = 0
          OBVIOUS
        <5> QED
          BY <2>4, <4>1, <5>1
      <4>3. main[s].old = "ACTIVE"
        BY <2>1, <3>1, <4>1, <4>2 DEF LeaderOK
      <4> QED
        BY <2>1, <3>1, <3>2, <3>9, <4>1, <4>2, <4>3 DEF LeaderOK
    <3>5. mgr[s].wait > 1 => mgr[s].ticked
      BY <2>1, <2>3, <2>4, <3>3 DEF ManagerOK
    <3>6. /\ mgr[s].wait > 1 => (now + 1) + mgr[s].wait <= la + Poll + 1
          /\ la + Poll + 1 <= (now + 1) + mgr[s].wait + 1
      BY <2>7, <3>4, <3>5
    <3>7. main[s].phase = "startup" /\ Prompt => (now + 1) + main'[s].busy <= la + MaxStartup
      BY <2>2, <2>4, <2>7, <3>4
    <3>11. main[s].phase = "startup" => (now + 1) + 1 <= la + Poll \/ CheckNow(s)'
      <4>1. SUFFICES ASSUME main[s].phase = "startup", ~((now + 1) + 1 <= la + Poll) PROVE CheckNow(s)'
        OBVIOUS
      <4>2. now + 1 = la + Poll
        BY <2>7, <3>4, <3>9, <4>1
      <4>3. ~Prompt
        BY <2>4, <2>7, <3>4, <4>1, <4>2 DEF Prompt
      <4>4. ~mgr[s].hung
        BY <2>1, <4>1 DEF MainOK
      <4> QED
        BY <1>2, <2>2, <3>2, <3>4, <4>1, <4>2, <4>3, <4>4 DEF CheckNow
    <3>8. main[s].phase = "run" => (now + 1) + Poll + 0 <= main[s].hb + cfgDelay
      BY <2>7, <3>10
    <3>12. /\ mgr[s].nodeid # 0 /\ row[nameOf[s]].id = mgr[s].nodeid /\ row[nameOf[s]].status = "ACTIVE"
           /\ row[nameOf[s]].sess = Sess(s) /\ (Serving(s) => main[s].fd = cfgDelay)
      BY <2>1, <3>1 DEF LeaderOK
    <3> QED
      BY <1>2, <2>2, <2>4, <2>8, <3>2, <3>3, <3>4, <3>6, <3>7, <3>8, <3>10, <3>11, <3>12
         DEF LeaderOK, Serving, Leading, Sess
  <2> QED
    BY <2>9, <2>10, <2>11, <2>12, <2>13 DEF ServerInv
<1> QED
    BY <1>2, <1>3, <1>4 DEF LeaseInv

(* A step of server s that changes rows, but none of an active manager. *)
LEMMA RowStep ==
    ASSUME LeaseInv, Orderly, NEW s \in Server, OthersKept(s), TypeInv', RowInv',
           UNCHANGED <<nameOf, now, cfgDelay, dbUp>>, nextId' \in {nextId, nextId + 1},
           \A n \in Name : \/ row'[n].id = row[n].id
                           \/ row'[n] = NoRow
                           \/ n = nameOf[s] /\ row'[n].id = nextId,
           \A t \in Server \ {s} : Leading(t) => row'[nameOf[t]] = row[nameOf[t]],
           ServerInv(s)'
    PROVE  LeaseInv'
<1>1. ASSUME NEW t \in Server \ {s} PROVE ServerInv(t)'
    BY ServerFrame
<1> QED
    BY <1>1 DEF LeaseInv

(* A change of the table that creates and removes no row. *)
RowsKept ==
    \A n \in Name : /\ row'[n].id = row[n].id
                    /\ row'[n].lastaccess = row[n].lastaccess \/ row'[n].lastaccess = now
                    /\ row[n].id = 0 => row'[n] = row[n]

(* It keeps what is known of the table, if at most one row becomes active. *)
LEMMA RowsKeptOK ==
    ASSUME TypeInv, RowInv, RowsKept, UNCHANGED <<now, nextId>>,
           \A n, k \in Name : row'[n].status = "ACTIVE" /\ row'[k].status = "ACTIVE" => n = k
    PROVE  RowInv'
<1>1. now \in Nat
    BY DEF TypeInv, TypeOK
<1>2. NoRow.id = 0
    BY DEF NoRow
<1>3. ASSUME NEW n \in Name
      PROVE  /\ row'[n].id = 0 <=> row'[n] = NoRow
             /\ row'[n].id < nextId /\ row'[n].lastaccess <= now
             /\ row'[n].id # 0 => row'[n].lastaccess > 0
    BY <1>1, <1>2 DEF RowsKept, RowInv
<1>4. \A n, k \in Name : row'[n].id = row'[k].id /\ row'[n].id # 0 => n = k
    BY DEF RowsKept, RowInv
<1> QED
    BY <1>3, <1>4 DEF RowInv

(* What a manager knows of ids stays true. *)
LEMMA KnowsKept ==
    ASSUME NEW s \in Server, TypeInv, KnowsId(s), RowInv',
           \A n \in Name : row'[n].id = row[n].id \/ row'[n] = NoRow,
           mgr'[s].nodeid = mgr[s].nodeid, mgr'[s].fd = mgr[s].fd, mgr'[s].removing = 0,
           UNCHANGED <<nameOf, cfgDelay, nextId>>
    PROVE  KnowsId(s)'
<1>1. NoRow.id = 0 /\ nameOf[s] \in Name
    BY ServerTypes DEF NoRow
<1>2. row'[nameOf[s]] # NoRow => row'[nameOf[s]].id # 0 /\ row[nameOf[s]].id = row'[nameOf[s]].id
    BY <1>1 DEF RowInv
<1> QED
    BY <1>1, <1>2 DEF KnowsId

(* A manager that writes by its id leaves the rows of the others alone. *)
LEMMA OthersRows ==
    ASSUME LeaseInv, Orderly, NEW s \in Server, NEW id, \A n \in Name : row[n].id = id /\ id # 0 => n = nameOf[s],
           \A n \in Name : ~(row[n].id = id /\ id # 0) => row'[n] = row[n]
    PROVE  \A t \in Server \ {s} : row'[nameOf[t]] = row[nameOf[t]]
<1>1. TypeInv
    BY DEF LeaseInv
<1> QED
    BY <1>1, OrderlyFacts, ServerTypes

(* PauseTick *)
LEMMA PauseTickLease ==
    ASSUME LeaseInv, Orderly, NEW s \in Server, PauseTick(s)
    PROVE  LeaseInv'
<1>1. TypeInv /\ RowInv /\ KnowsId(s) /\ ManagerOK(s) /\ MainOK(s) /\ MessagesOK(s) /\ LeaderOK(s)
    BY DEF LeaseInv, ServerInv
<1>2. /\ TypeInv' /\ UNCHANGED <<nameOf, now, cfgDelay, nextId, dbUp, main, rtc>>
      /\ mgr[s].pc = "pause" /\ mgr'[s].pc = "pause" /\ mgr'[s].st = mgr[s].st
      /\ mgr'[s].nodeid = mgr[s].nodeid /\ mgr'[s].fd = mgr[s].fd
      /\ mgr'[s].wait # 0 /\ mgr'[s].hung = mgr[s].hung /\ mgr'[s].removing = mgr[s].removing
      /\ \A t \in Server \ {s} : mgr'[t] = mgr[t]
      /\ \A n \in Name : /\ row'[n].id = row[n].id /\ row'[n].status = row[n].status
                         /\ row'[n].lastaccess \in {row[n].lastaccess, now}
                         /\ ~(row[n].id = mgr[s].nodeid /\ mgr[s].nodeid # 0) => row'[n] = row[n]
    BY <1>1, PauseTickCases
<1>3. ~mgr[s].ticked
    BY DEF PauseTick
<1>4. RowsKept
    BY <1>2 DEF RowsKept
<1>5. RowInv'
  <2>1. \A n, k \in Name : row'[n].status = "ACTIVE" /\ row'[k].status = "ACTIVE" => n = k
    BY <1>1, <1>2 DEF RowInv
  <2> QED
    BY <1>1, <1>2, <1>4, <2>1, RowsKeptOK
<1>6. KnowsId(s)'
  <2>1. mgr'[s].removing = 0
    BY <1>1, <1>2 DEF KnowsId, Leading
  <2> QED
    BY <1>1, <1>2, <1>5, <2>1, KnowsKept
<1>7. OthersKept(s)
    BY <1>2 DEF OthersKept
<1>8. \A t \in Server \ {s} : row'[nameOf[t]] = row[nameOf[t]]
  <2>1. \A n \in Name : row[n].id = mgr[s].nodeid /\ mgr[s].nodeid # 0 => n = nameOf[s]
    BY <1>1 DEF KnowsId
  <2>2. PICK id : id = mgr[s].nodeid
    OBVIOUS
  <2>3. /\ \A n \in Name : row[n].id = id /\ id # 0 => n = nameOf[s]
        /\ \A n \in Name : ~(row[n].id = id /\ id # 0) => row'[n] = row[n]
    BY <1>2, <2>1, <2>2
  <2> QED
    BY <2>3, OthersRows
<1>9. ManagerOK(s)'
    BY <1>1, <1>2 DEF ManagerOK
<1>10. ~Serving(s) /\ main[s].phase \notin {"boot", "startup", "asking"}
    BY <1>1, <1>2, <1>3 DEF MainOK, Serving, Leading
<1>11. MainOK(s)'
    BY <1>1, <1>2, <1>10 DEF MainOK, Serving, Running
<1>12. MessagesOK(s)' /\ LeaderOK(s)'
    BY <1>1, <1>2, <1>3, <1>10 DEF MessagesOK, LeaderOK, Serving, Leading
<1>13. ServerInv(s)'
    BY <1>6, <1>9, <1>11, <1>12 DEF ServerInv
<1>14. nextId' \in {nextId, nextId + 1} /\ \A n \in Name : row'[n].id = row[n].id
    BY <1>2
<1> QED
    BY <1>2, <1>5, <1>7, <1>8, <1>13, <1>14, RowStep

(* RemoveNode: an active manager removes neither its own row ... *)
LEMMA RemoveNodeLease ==
    ASSUME LeaseInv, Orderly, NEW s \in Server, NEW n \in Name, RemoveNode(s, n)
    PROVE  LeaseInv'
<1>1. /\ TypeInv /\ RowInv /\ KnowsId(s) /\ ManagerOK(s) /\ MainOK(s) /\ MessagesOK(s) /\ LeaderOK(s)
      /\ mgr[s] \in Manager /\ nameOf[s] \in Name
    BY ServerTypes DEF LeaseInv, ServerInv
<1>2. /\ TypeInv' /\ UNCHANGED <<nameOf, now, cfgDelay, row, nextId, dbUp, main, rtc>>
      /\ Commandable(s) /\ \A t \in Server \ {s} : mgr'[t] = mgr[t]
    BY <1>1, RemoveNodeCases
<1>3. PICK b \in BOOLEAN, i \in Nat :
          /\ mgr'[s] = [mgr[s] EXCEPT !.dbok = b, !.removing = i]
          /\ i = mgr[s].removing \/ (i = row[n].id /\ row[n] # NoRow /\ row[n].status # "ACTIVE")
    BY <1>1, RemoveNodeCases
<1>4. /\ mgr'[s].pc = mgr[s].pc /\ mgr'[s].st = mgr[s].st /\ mgr'[s].nodeid = mgr[s].nodeid
      /\ mgr'[s].fd = mgr[s].fd /\ mgr'[s].wait = mgr[s].wait /\ mgr'[s].ticked = mgr[s].ticked
      /\ mgr'[s].seen = mgr[s].seen /\ mgr'[s].off = mgr[s].off /\ mgr'[s].hung = mgr[s].hung
      /\ mgr'[s].removing = i
    BY <1>1, <1>3 DEF Manager
<1>5. Leading(s) /\ ~mgr[s].hung
    BY <1>1, <1>2 DEF Commandable, InLoop, MainOK, Running, Serving
<1>6. i # mgr[s].nodeid
  <2>1. row[nameOf[s]].id = mgr[s].nodeid /\ mgr[s].nodeid # 0 /\ row[nameOf[s]].status = "ACTIVE"
    BY <1>1, <1>5 DEF LeaderOK
  <2>2. CASE i = mgr[s].removing
    BY <1>1, <2>1, <2>2 DEF KnowsId
  <2>3. CASE i = row[n].id /\ row[n].status # "ACTIVE"
    BY <1>1, <2>1, <2>3 DEF KnowsId
  <2> QED
    BY <1>3, <2>2, <2>3
<1>7. KnowsId(s)'
    BY <1>1, <1>2, <1>4, <1>5, <1>6 DEF KnowsId, Leading
<1>8. ManagerOK(s)' /\ MainOK(s)' /\ MessagesOK(s)'
    BY <1>1, <1>2, <1>4 DEF ManagerOK, MainOK, MessagesOK, Serving, Leading, Running, OfflineUntil, Untick
<1>9. LeaderOK(s)'
    BY <1>1, <1>2, <1>4 DEF LeaderOK, CheckNow, Serving, Leading, Sess, Untick
<1>10. ServerInv(s)' /\ OthersKept(s)
    BY <1>2, <1>7, <1>8, <1>9 DEF ServerInv, OthersKept
<1> QED
    BY <1>2, <1>10, ServerStep

(* DeleteNode: ... nor that of another active manager, for there is none.  *)
LEMMA DeleteNodeLease ==
    ASSUME LeaseInv, Orderly, NEW s \in Server, DeleteNode(s)
    PROVE  LeaseInv'
<1>1. /\ TypeInv /\ RowInv /\ KnowsId(s) /\ ManagerOK(s) /\ MainOK(s) /\ MessagesOK(s) /\ LeaderOK(s)
      /\ mgr[s] \in Manager /\ nextId \in Nat /\ nextId > 0 /\ now \in Nat /\ nameOf[s] \in Name
    BY ServerTypes DEF LeaseInv, ServerInv
<1>2. /\ TypeInv' /\ UNCHANGED <<nameOf, now, cfgDelay, nextId, dbUp, main, rtc>>
      /\ mgr[s].removing # 0 /\ \A t \in Server \ {s} : mgr'[t] = mgr[t]
      /\ \A n \in Name : row'[n] = row[n] \/ (row'[n] = NoRow /\ row[n].id = mgr[s].removing)
    BY <1>1, DeleteNodeCases
<1>3. PICK b \in BOOLEAN : mgr'[s] = [mgr[s] EXCEPT !.dbok = b, !.removing = 0]
    BY <1>1, DeleteNodeCases
<1>4. /\ mgr'[s].pc = mgr[s].pc /\ mgr'[s].st = mgr[s].st /\ mgr'[s].nodeid = mgr[s].nodeid
      /\ mgr'[s].fd = mgr[s].fd /\ mgr'[s].wait = mgr[s].wait /\ mgr'[s].ticked = mgr[s].ticked
      /\ mgr'[s].seen = mgr[s].seen /\ mgr'[s].off = mgr[s].off /\ mgr'[s].hung = mgr[s].hung
      /\ mgr'[s].removing = 0
    BY <1>1, <1>3 DEF Manager
<1>5. RowInv'
  <2>1. NoRow.id = 0 /\ NoRow.lastaccess = 0 /\ NoRow.status # "ACTIVE"
    BY DEF NoRow
  <2>2. ASSUME NEW k \in Name
        PROVE  /\ row'[k].id = 0 <=> row'[k] = NoRow
               /\ row'[k].id < nextId /\ row'[k].lastaccess <= now
               /\ row'[k].id # 0 => row'[k].lastaccess > 0
    BY <1>1, <1>2, <2>1 DEF RowInv
  <2>3. \A j, k \in Name : row'[j].id = row'[k].id /\ row'[j].id # 0 => j = k
    BY <1>1, <1>2, <2>1 DEF RowInv
  <2>4. \A j, k \in Name : row'[j].status = "ACTIVE" /\ row'[k].status = "ACTIVE" => j = k
    BY <1>1, <1>2, <2>1 DEF RowInv
  <2> QED
    BY <1>1, <1>2, <2>2, <2>3, <2>4 DEF RowInv
<1>6. \A k \in Name : row'[k].id = row[k].id \/ row'[k] = NoRow
    BY <1>2
<1>7. KnowsId(s)'
    BY <1>1, <1>2, <1>4, <1>5, <1>6, KnowsKept
<1>8. \A t \in Server : Leading(t) => row'[nameOf[t]] = row[nameOf[t]]
  <2>1. SUFFICES ASSUME NEW t \in Server, Leading(t), row'[nameOf[t]] # row[nameOf[t]] PROVE FALSE
    OBVIOUS
  <2>2. nameOf[t] \in Name /\ row[nameOf[t]].status = "ACTIVE"
    BY <1>1, <2>1, LeaderFresh, ServerTypes
  <2>3. row[nameOf[t]].id = mgr[s].removing
    BY <1>2, <2>1, <2>2
  <2>4. Leading(s) /\ mgr[s].removing # mgr[s].nodeid
    BY <1>1, <1>2 DEF KnowsId
  <2>5. row[nameOf[s]].status = "ACTIVE" /\ row[nameOf[s]].id = mgr[s].nodeid
    BY <1>1, <2>4 DEF LeaderOK
  <2> QED
    BY <1>1, <2>2, <2>3, <2>4, <2>5 DEF RowInv
<1>9. ManagerOK(s)' /\ MainOK(s)' /\ MessagesOK(s)'
    BY <1>1, <1>2, <1>4 DEF ManagerOK, MainOK, MessagesOK, Serving, Leading, Running, OfflineUntil, Untick
<1>10. LeaderOK(s)'
    BY <1>1, <1>2, <1>4, <1>8 DEF LeaderOK, CheckNow, Serving, Leading, Sess, Untick
<1>11. ServerInv(s)'
    BY <1>7, <1>9, <1>10 DEF ServerInv
<1>12. OthersKept(s) /\ nextId' \in {nextId, nextId + 1}
    BY <1>2 DEF OthersKept
<1> QED
    BY <1>2, <1>5, <1>6, <1>8, <1>11, <1>12, RowStep

(* Stopped *)
LEMMA StoppedLease ==
    ASSUME LeaseInv, Orderly, NEW s \in Server, Stopped(s)
    PROVE  LeaseInv'
<1>1. TypeInv /\ RowInv /\ KnowsId(s)
    BY DEF LeaseInv, ServerInv
<1>2. /\ TypeInv' /\ UNCHANGED <<nameOf, now, cfgDelay, nextId, dbUp>> /\ OthersKept(s) /\ IsDown(s)
      /\ \A n \in Name : /\ row'[n].id = row[n].id /\ row'[n].status \in {row[n].status, "STOPPED"}
                         /\ row'[n].lastaccess \in {row[n].lastaccess, now}
                         /\ ~(row[n].id = mgr[s].nodeid /\ mgr[s].nodeid # 0) => row'[n] = row[n]
    BY <1>1, StoppedCases
<1>3. ServerInv(s)'
    BY <1>2, DownOK
<1>4. RowsKept
    BY <1>2 DEF RowsKept
<1>5. RowInv'
  <2>1. \A n, k \in Name : row'[n].status = "ACTIVE" /\ row'[k].status = "ACTIVE" => n = k
    BY <1>1, <1>2 DEF RowInv
  <2> QED
    BY <1>1, <1>2, <1>4, <2>1, RowsKeptOK
<1>6. \A t \in Server \ {s} : row'[nameOf[t]] = row[nameOf[t]]
  <2>1. \A n \in Name : row[n].id = mgr[s].nodeid /\ mgr[s].nodeid # 0 => n = nameOf[s]
    BY <1>1 DEF KnowsId
  <2>2. PICK id : id = mgr[s].nodeid
    OBVIOUS
  <2>3. /\ \A n \in Name : row[n].id = id /\ id # 0 => n = nameOf[s]
        /\ \A n \in Name : ~(row[n].id = id /\ id # 0) => row'[n] = row[n]
    BY <1>2, <2>1, <2>2
  <2> QED
    BY <2>3, OthersRows
<1>7. nextId' \in {nextId, nextId + 1} /\ \A n \in Name : row'[n].id = row[n].id
    BY <1>2
<1> QED
    BY <1>2, <1>3, <1>5, <1>6, <1>7, RowStep

(* A manager that is not active is about to look at the database. *)
PassiveTurn(s) ==
    /\ ~mgr[s].ticked /\ rtc[s] = << >> /\ mgr[s].st \in {"UNKNOWN", "STANDBY"} /\ ~Serving(s)
    /\ main[s].phase \in {"boot", "run"} /\ (main[s].phase = "boot" <=> mgr[s].wait = 0)
    /\ mgr[s].wait \in {0, 1}
    /\ OfflineUntil(mgr[s]) <= now + (IF mgr[s].wait = 0 THEN Poll - 1 ELSE 0)

(* When that is so. *)
LEMMA PassiveTurnOK ==
    ASSUME LeaseInv, Orderly, NEW s \in Server,
           Ready(s, "boot") \/ Ready(s, "register") \/ (CheckDue(s) /\ mgr[s].st \in {"UNKNOWN", "STANDBY"})
    PROVE  PassiveTurn(s)
<1>1. TypeInv /\ RowInv /\ ManagerOK(s) /\ MainOK(s) /\ MessagesOK(s) /\ StatesOK(s)
    BY ServerTypes DEF LeaseInv, ServerInv
<1>2. /\ ~mgr[s].ticked /\ mgr[s].pc \in {"boot", "register", "idle"} /\ mgr[s].st \in {"UNKNOWN", "STANDBY"}
      /\ mgr[s].pc = "idle" => mgr[s].wait = 1
    BY <1>1 DEF Ready, CheckDue, StatesOK
<1>3. ~Serving(s)
    BY <1>1, <1>2 DEF MainOK, Leading
<1>4. main[s].phase \in {"boot", "run"}
  <2>1. main[s].phase \in {"off", "boot", "startup", "asking", "run", "stopping"}
    BY <1>1, ServerTypes, MainFields
  <2>2. main[s].phase \notin {"startup", "asking"}
    BY <1>1, <1>3 DEF MainOK, Serving
  <2> QED
    BY <1>1, <1>2, <2>1, <2>2 DEF MainOK, StatesOK
<1>5. mgr[s].wait \in {0, 1} /\ (main[s].phase = "boot" <=> mgr[s].wait = 0)
    BY <1>1, <1>2, <1>4 DEF ManagerOK, MainOK
<1>6. rtc[s] = << >>
    BY <1>1, <1>2, <1>3, <1>4 DEF ManagerOK, MessagesOK, MainOK
<1>7. OfflineUntil(mgr[s]) <= now + (IF mgr[s].wait = 0 THEN Poll - 1 ELSE 0)
  <2>1. now \in Nat /\ now > 0 /\ Poll \in Nat /\ OfflineUntil(mgr[s]) \in Nat
    BY <1>1, ServerTypes, ServerNumbers, Constants DEF RowInv
  <2>2. CASE mgr[s].wait = 0
    <3>1. OfflineUntil(mgr[s]) = Poll
      BY <1>1, <2>2, Constants DEF ManagerOK, OfflineUntil
    <3> QED
      BY <2>1, <2>2, <3>1
  <2>3. CASE mgr[s].wait = 1
    <3>1. mgr[s].pc \in {"idle", "register"}
      BY <1>1, <1>2, <1>5, <2>3 DEF ManagerOK
    <3>2. Untick(mgr[s]) = 1
      BY <1>2 DEF Untick
    <3>3. OfflineUntil(mgr[s]) + 1 <= now + 1
      BY <1>1, <2>3, <3>1, <3>2 DEF ManagerOK
    <3> QED
      BY <2>1, <2>3, <3>3
  <2> QED
    BY <1>5, <2>2, <2>3
<1> QED
    BY <1>2, <1>3, <1>4, <1>5, <1>6, <1>7 DEF PassiveTurn

(* A manager that has become active has written its row. *)
Wrote(s, m) ==
    /\ m.dbok /\ dbUp[s] /\ m.nodeid # 0 /\ m.fd = cfgDelay
    /\ row'[nameOf[s]].id = m.nodeid /\ row'[nameOf[s]].status = "ACTIVE"
    /\ row'[nameOf[s]].sess = Sess(s) /\ row'[nameOf[s]].lastaccess = now

(* The end of its look. *)
LEMMA PassiveEnd ==
    ASSUME TypeInv, TypeInv', NEW s \in Server, MainOK(s), now > 0, PassiveTurn(s), NEW m \in Manager,
           EndCheck(s, m), UNCHANGED <<nameOf, now, cfgDelay, dbUp, main>>, KnowsId(s)',
           m.st \in {"UNKNOWN", "STANDBY", "ACTIVE", "ERROR"}, m.st = "ACTIVE" => Wrote(s, m),
           OfflineUntil(m) <= now + (IF mgr[s].wait = 0 THEN Poll - 1 ELSE IF m.dbok THEN Poll ELSE 1)
    PROVE  ServerInv(s)'
<1>1. /\ mgr'[s].pc = (IF m.st = "ERROR" THEN "pause" ELSE "idle")
      /\ mgr'[s].st = m.st /\ mgr'[s].nodeid = m.nodeid /\ mgr'[s].fd = m.fd
      /\ mgr'[s].seen = m.seen /\ mgr'[s].off = m.off
      /\ mgr'[s].ticked = TRUE /\ mgr'[s].hung = FALSE
      /\ mgr[s].wait = 0 => mgr'[s].wait = (IF m.st = "STANDBY" THEN 3 * Poll ELSE Poll) - 1
      /\ mgr[s].wait # 0 => mgr'[s].wait = IF m.dbok THEN Poll ELSE 1
      /\ mgr'[s].wait \in Nat \ {0}
      /\ Reported(s, m) \in Seq(Message)
      /\ rtc'[s] = IF m.st # "ERROR" /\ Beats(m) THEN Post(Reported(s, m), Heartbeat) ELSE Reported(s, m)
    BY EndCheckEffect, ZenonT(60) DEF TypeInv
<1>2. /\ Poll \in Nat /\ Poll > 1 /\ now \in Nat /\ OfflineUntil(m) \in Nat
  <2>1. m.seen \in Nat /\ m.off \in Nat /\ Poll \in Nat /\ Poll > 1
    BY ManagerFields, Constants
  <2>2. PICK c \in Nat : c = m.off * Poll
    BY <2>1
  <2>3. OfflineUntil(m) = m.seen + c + Poll
    BY <2>2 DEF OfflineUntil
  <2>4. OfflineUntil(m) \in Nat
    BY <2>1, <2>2, <2>3
  <2>5. now \in Nat
    BY ServerTypes
  <2> QED
    BY <2>1, <2>4, <2>5
<1>3. OfflineUntil(mgr[s])' = OfflineUntil(m) /\ Untick(mgr[s])' = 0
    BY <1>1 DEF OfflineUntil, Untick
<1>4. ManagerOK(s)'
  <2>1. OfflineUntil(m) + 0 <= now + mgr'[s].wait
    BY <1>1, <1>2 DEF PassiveTurn
  <2> QED
    BY <1>1, <1>3, <2>1 DEF ManagerOK
<1>5. MainOK(s)'
    BY <1>1 DEF PassiveTurn, MainOK, Serving, Leading, Running
<1>6. /\ Reported(s, m) = << >> \/ (Reported(s, m) = << Update(m.st, m.fd) >> /\ mgr[s].wait # 0)
      /\ m.st = "ACTIVE" /\ mgr[s].wait # 0 => Reported(s, m) = << Update(m.st, m.fd) >>
  <2>1. Update(m.st, m.fd) \in Message /\ << >> \in Seq(Message)
    BY ManagerFields, MessageFields
  <2>2. Post(<< >>, Update(m.st, m.fd)) = << Update(m.st, m.fd) >>
    BY <2>1, PostSeq
  <2> QED
    BY <2>2 DEF Reported, Reports, PassiveTurn
<1>7. /\ \A k \in DOMAIN Reported(s, m) : k = 1 /\ Reported(s, m)[k] = Update(m.st, m.fd) /\ mgr[s].wait # 0
      /\ m.st = "ACTIVE" /\ mgr[s].wait # 0 =>
            Reported(s, m) # << >> /\ Reported(s, m)[1] = Update(m.st, m.fd)
    BY <1>6
<1>8. /\ \A k \in DOMAIN rtc'[s] :
            rtc'[s][k] = Heartbeat \/ (k = 1 /\ rtc'[s][k] = Update(m.st, m.fd) /\ mgr[s].wait # 0)
      /\ m.st = "ACTIVE" => rtc'[s] # << >>
      /\ m.st = "ACTIVE" /\ mgr[s].wait # 0 => rtc'[s][1] = Update(m.st, m.fd)
  <2>1. PICK q \in Seq(Message) : q = Reported(s, m)
    BY <1>1
  <2>2. /\ \A k \in DOMAIN Post(q, Heartbeat) :
              Post(q, Heartbeat)[k] = Heartbeat \/ (k \in DOMAIN q /\ Post(q, Heartbeat)[k] = q[k])
        /\ Post(q, Heartbeat) # << >> /\ (q # << >> => Post(q, Heartbeat)[1] = q[1])
    BY PostSeq, MessageFields
  <2>3. m.st = "ACTIVE" => Beats(m)
    BY DEF Wrote, Beats
  <2> QED
    BY <1>1, <1>7, <2>1, <2>2, <2>3
<1>9. MessagesOK(s)'
    BY <1>1, <1>8 DEF MessagesOK, PassiveTurn, Serving
<1>10. LeaderOK(s)'
  <2>1. SUFFICES ASSUME m.st = "ACTIVE" PROVE LeaderOK(s)'
    BY <1>1 DEF LeaderOK, Leading
  <2>2. mgr'[s].wait \in {Poll - 1, Poll}
    BY <1>1, <2>1 DEF Wrote, PassiveTurn
  <2>3. now + mgr'[s].wait <= now + Poll + 0 /\ now + Poll + 0 <= now + mgr'[s].wait + 1 /\ now + 1 <= now + Poll
    BY <1>2, <2>2
  <2>4. main[s].phase \in {"boot", "run"} /\ (main[s].phase = "run" => mgr[s].wait # 0 /\ main[s].old # "ACTIVE")
    BY DEF PassiveTurn, Serving
  <2>5. mgr[s].wait # 0 => Len(rtc'[s]) > 1
    <3>1. SUFFICES ASSUME mgr[s].wait # 0 PROVE Len(rtc'[s]) > 1
      OBVIOUS
    <3>2. PICK u : u = Update(m.st, m.fd)
      OBVIOUS
    <3>3. Reported(s, m) = << u >> /\ u # Heartbeat
      BY <1>6, <2>1, <3>1, <3>2, Codes
    <3>4. PICK q \in Seq(Message) : q = Reported(s, m)
      BY <1>1
    <3>5. rtc'[s] = Post(q, Heartbeat)
      BY <1>1, <2>1, <3>4 DEF Wrote, Beats
    <3>6. Len(q) = 1 /\ q[1] # Heartbeat
      BY <3>3, <3>4
    <3> QED
      BY <3>5, <3>6, MessageFields, PostSecond
  <2> QED
    <3>1. /\ mgr'[s].nodeid # 0 /\ row'[nameOf[s]].id = mgr'[s].nodeid /\ row'[nameOf[s]].status = "ACTIVE"
          /\ row'[nameOf[s]].sess = Sess(s) /\ row'[nameOf[s]].lastaccess = now
          /\ rtc'[s] # << >> /\ dbUp[s] /\ ~Serving(s)
          /\ mgr[s].wait # 0 => rtc'[s][1] = Update("ACTIVE", cfgDelay)
      BY <1>1, <1>8, <2>1, <2>4 DEF Wrote, Serving
    <3> QED
      BY <1>3, <2>3, <2>4, <2>5, <3>1 DEF LeaderOK, Sess, Serving
<1> QED
    BY <1>4, <1>5, <1>9, <1>10 DEF ServerInv

(* The table after a row has been created. *)
LEMMA CreatedRow ==
    ASSUME TypeInv, RowInv, NEW n \in Name, now' = now, nextId' = nextId + 1, row[n] = NoRow,
           row' = [row EXCEPT ![n] = [status |-> "STOPPED", lastaccess |-> now, sess |-> << >>, id |-> nextId]]
    PROVE  /\ RowInv' /\ row'[n].id = nextId /\ row'[n] # NoRow
           /\ \A k \in Name \ {n} : row'[k] = row[k] /\ row[k].id < nextId
<1> DEFINE new == [status |-> "STOPPED", lastaccess |-> now, sess |-> << >>, id |-> nextId]
<1>1. /\ now \in Nat /\ now > 0 /\ nextId \in Nat /\ nextId # 0 /\ row \in [Name -> Row]
      /\ \A k \in Name : row[k].id \in Nat
    BY RowFields DEF TypeInv, TypeOK, RowInv
<1>2. new.status = "STOPPED" /\ new.lastaccess = now /\ new.id = nextId /\ NoRow.id = 0
    BY DEF NoRow
<1> HIDE DEF new
<1>3. row'[n] = new /\ \A k \in Name \ {n} : row'[k] = row[k]
    BY <1>1 DEF new
<1>4. new # NoRow
    BY <1>1, <1>2
<1>5. ASSUME NEW k \in Name
      PROVE  /\ row'[k].id = 0 <=> row'[k] = NoRow
             /\ row'[k].id < nextId + 1 /\ row'[k].lastaccess <= now
             /\ row'[k].id # 0 => row'[k].lastaccess > 0
  <2>1. CASE k = n
    BY <1>1, <1>2, <1>3, <1>4, <2>1
  <2>2. CASE k # n
    BY <1>1, <1>3, <2>2 DEF RowInv
  <2> QED
    BY <2>1, <2>2
<1>6. \A j, k \in Name : row'[j].id = row'[k].id /\ row'[j].id # 0 => j = k
    BY <1>1, <1>2, <1>3 DEF RowInv
<1>7. \A j, k \in Name : row'[j].status = "ACTIVE" /\ row'[k].status = "ACTIVE" => j = k
    BY <1>2, <1>3 DEF RowInv
<1>8. RowInv'
    BY <1>1, <1>5, <1>6, <1>7 DEF RowInv
<1> QED
    BY <1>2, <1>3, <1>4, <1>8 DEF RowInv

(* CreateNode *)
LEMMA CreateNodeLease ==
    ASSUME LeaseInv, Orderly, NEW s \in Server, CreateNode(s)
    PROVE  LeaseInv'
<1>1. /\ TypeInv /\ RowInv /\ KnowsId(s) /\ ManagerOK(s) /\ MainOK(s) /\ MessagesOK(s) /\ LeaderOK(s) /\ StatesOK(s)
      /\ now \in Nat /\ now > 0 /\ nextId \in Nat /\ nameOf[s] \in Name
    BY ServerTypes DEF LeaseInv, ServerInv, RowInv
<1>2. /\ TypeInv' /\ UNCHANGED <<nameOf, now, cfgDelay, dbUp, main>>
      /\ Ready(s, "boot") \/ (CheckDue(s) /\ mgr[s].st = "UNKNOWN")
    BY <1>1, CreateNodeCases, CreateNodeType
<1>3. PICK m \in Manager : /\ SameCheck(m, mgr[s]) /\ SameCount(m, mgr[s]) /\ m.st = "UNKNOWN"
                           /\ CreateEnds(s, m) /\ CreateFound(s, m)
    BY <1>1, CreateNodeCases, OrderlyFacts
<1>4. PassiveTurn(s)
    BY <1>1, <1>2, PassiveTurnOK
<1>5. m.st = "UNKNOWN" /\ m.removing = 0
    BY <1>1, <1>2, <1>3 DEF Ready, CheckDue, SameCheck
<1>6. /\ RowInv' /\ nextId' \in {nextId, nextId + 1}
      /\ \A n \in Name : row'[n].id = row[n].id \/ (n = nameOf[s] /\ row'[n].id = nextId)
      /\ \A n \in Name \ {nameOf[s]} : row'[n] = row[n]
  <2>1. CASE row' = row /\ nextId' = nextId
    BY <1>1, <1>2, <2>1 DEF RowInv
  <2>2. CASE /\ row[nameOf[s]] = NoRow /\ nextId' = nextId + 1
             /\ row' = [row EXCEPT ![nameOf[s]] =
                          [status |-> "STOPPED", lastaccess |-> now, sess |-> << >>, id |-> nextId]]
    <3>1. PICK n \in Name : n = nameOf[s]
      BY <1>1
    <3> QED
      BY <1>1, <1>2, <2>2, <3>1, CreatedRow
  <2> QED
    BY <1>3, <2>1, <2>2 DEF CreateFound
<1>7. /\ m.nodeid < nextId' /\ (m.nodeid # 0 => m.fd = cfgDelay)
      /\ \A n \in Name : row'[n].id = m.nodeid /\ m.nodeid # 0 => n = nameOf[s]
      /\ m.nodeid # 0 /\ row'[nameOf[s]] # NoRow => row'[nameOf[s]].id = m.nodeid
  <2>1. CASE m.nodeid = mgr[s].nodeid /\ m.fd = mgr[s].fd /\ row' = row /\ nextId' = nextId
    BY <1>1, <2>1 DEF KnowsId
  <2>2. CASE m.nodeid = row[nameOf[s]].id /\ m.fd = cfgDelay /\ row' = row /\ nextId' = nextId
    BY <1>1, <2>2 DEF RowInv
  <2>3. CASE /\ m.nodeid = nextId /\ m.fd = cfgDelay /\ row[nameOf[s]] = NoRow /\ nextId' = nextId + 1
             /\ row' = [row EXCEPT ![nameOf[s]] =
                          [status |-> "STOPPED", lastaccess |-> now, sess |-> << >>, id |-> nextId]]
    <3>1. PICK n \in Name : n = nameOf[s]
      BY <1>1
    <3>2. row'[n].id = nextId /\ \A k \in Name \ {n} : row'[k] = row[k] /\ row[k].id < nextId
      BY <1>1, <1>2, <2>3, <3>1, CreatedRow
    <3>3. \A k \in Name : row[k].id \in Nat
      BY <1>1, RowFields DEF TypeInv, TypeOK
    <3> QED
      BY <1>1, <2>3, <3>1, <3>2, <3>3
  <2> QED
    BY <1>3, <2>1, <2>2, <2>3 DEF CreateFound
<1>8. mgr'[s].nodeid = m.nodeid /\ mgr'[s].fd = m.fd /\ mgr'[s].removing = 0 => KnowsId(s)'
    BY <1>2, <1>7 DEF KnowsId
<1>9. \A t \in Server \ {s} : row'[nameOf[t]] = row[nameOf[t]]
    BY <1>1, <1>6, OrderlyFacts, ServerTypes
<1>10. OfflineUntil(m) = OfflineUntil(mgr[s])
    BY <1>3 DEF SameCount, OfflineUntil
<1>11. CASE EndCheck(s, m)
  <2>1. KnowsId(s)' /\ OthersKept(s)
    BY <1>1, <1>2, <1>5, <1>8, <1>11, EndCheckEffect, ZenonT(60) DEF TypeInv, OthersKept
  <2>2. OfflineUntil(m) <= now + (IF mgr[s].wait = 0 THEN Poll - 1 ELSE IF m.dbok THEN Poll ELSE 1)
    <3>1. OfflineUntil(m) \in Nat /\ Poll \in Nat
      BY <1>1, <1>10, ServerNumbers, Constants
    <3> QED
      BY <1>1, <1>4, <1>10, <3>1 DEF PassiveTurn
  <2>3. ServerInv(s)'
    BY <1>1, <1>2, <1>4, <1>5, <1>11, <2>1, <2>2, PassiveEnd
  <2> QED
    BY <1>2, <1>6, <1>9, <2>1, <2>3, RowStep
<1>12. CASE /\ m.nodeid # 0 /\ m.st # "ERROR" /\ rtc' = rtc
            /\ mgr' = [mgr EXCEPT ![s] = [m EXCEPT !.pc = "register", !.hung = FALSE]]
  <2>1. PICK m2 : m2 = [m EXCEPT !.pc = "register", !.hung = FALSE]
    OBVIOUS
  <2>2. /\ m2.pc = "register" /\ m2.st = m.st /\ m2.nodeid = m.nodeid /\ m2.fd = m.fd /\ m2.wait = m.wait
        /\ m2.seen = m.seen /\ m2.off = m.off /\ m2.ticked = m.ticked /\ m2.hung = FALSE
        /\ m2.removing = m.removing
    BY <2>1 DEF Manager
  <2>3. mgr'[s] = m2 /\ OthersKept(s)
    BY <1>1, <1>2, <1>12, <2>1 DEF TypeInv, TypeOK, OthersKept
  <2>4. /\ m2.wait = mgr[s].wait /\ m2.ticked = mgr[s].ticked /\ m2.seen = mgr[s].seen /\ m2.off = mgr[s].off
    BY <1>3, <2>2 DEF SameCheck, SameCount
  <2>5. KnowsId(s)'
    BY <1>5, <1>8, <2>2, <2>3
  <2>6. ManagerOK(s)'
    <3>1. mgr[s].wait = 0 => m2.seen = 0 /\ m2.off = 0
      BY <1>1, <2>4 DEF ManagerOK
    <3>2. mgr[s].wait # 0 => mgr[s].wait = 1 /\ main[s].phase # "boot" /\ OfflineUntil(mgr[s]) + Untick(mgr[s]) <= now + mgr[s].wait
      BY <1>1, <1>2, <1>4 DEF ManagerOK, PassiveTurn, Ready, CheckDue
    <3>3. OfflineUntil(mgr[s])' = OfflineUntil(mgr[s]) /\ Untick(mgr[s])' = Untick(mgr[s])
      BY <2>3, <2>4 DEF OfflineUntil, Untick
    <3>4. mgr[s].wait = 0 => main[s].phase = "boot"
      BY <1>4 DEF PassiveTurn
    <3>5. ~mgr[s].ticked /\ rtc[s] = << >>
      BY <1>4 DEF PassiveTurn
    <3> QED
      BY <1>2, <1>12, <2>2, <2>3, <2>4, <3>1, <3>2, <3>3, <3>4, <3>5 DEF ManagerOK
  <2>7. MainOK(s)' /\ MessagesOK(s)' /\ LeaderOK(s)'
    BY <1>1, <1>2, <1>3, <1>4, <1>12, <2>2, <2>3 DEF MainOK, MessagesOK, LeaderOK, PassiveTurn, Serving, Leading, Running
  <2>8. ServerInv(s)'
    BY <2>5, <2>6, <2>7 DEF ServerInv
  <2> QED
    BY <1>2, <1>6, <1>9, <2>3, <2>8, RowStep
<1> QED
    BY <1>3, <1>11, <1>12 DEF CreateEnds

(* What a transaction of server s does to the table as a whole; own is the *)
(* row that it accesses, st the status it gives to it.                     *)
LEMMA ChangeOK ==
    ASSUME TypeInv, RowInv, NEW s \in Server, NEW id \in Nat, NEW st, NEW ses, NEW lost, TableChange(id, st, ses, lost),
           UNCHANGED <<now, nextId>>, \A n \in Name : row[n].id = id /\ id # 0 => n = nameOf[s],
           \A n \in Name : n \in lost => row[n] # NoRow,
           st # "ACTIVE" \/ \A n \in Name : row[n].status = "ACTIVE" => n \in lost \/ (row[n].id = id /\ id # 0)
    PROVE  RowInv' /\ RowsKept
<1>1. RowsKept
    BY DEF TableChange, RowsKept, RowInv
<1>2. ASSUME NEW n \in Name, row'[n].status = "ACTIVE"
      PROVE  IF st = "ACTIVE" THEN n = nameOf[s] ELSE row[n].status = "ACTIVE"
  <2>1. n \notin lost
    BY <1>2 DEF TableChange
  <2>2. CASE row[n].id = id /\ id # 0
    BY <1>2, <2>2 DEF TableChange
  <2>3. CASE ~(row[n].id = id /\ id # 0)
    BY <1>2, <2>1, <2>3 DEF TableChange
  <2> QED
    BY <2>2, <2>3
<1>3. \A n, k \in Name : row'[n].status = "ACTIVE" /\ row'[k].status = "ACTIVE" => n = k
    BY <1>2 DEF RowInv
<1> QED
    BY <1>1, <1>3, RowsKeptOK

(* The row of an active manager is among those that ha_check_cluster_config *)
(* looks at, and not among the unavailable ones.                           *)
LEMMA LeaderSeen ==
    ASSUME LeaseInv, Orderly, NEW t \in Server, Leading(t)
    PROVE  /\ nameOf[t] \in Others(cfgDelay) /\ nameOf[t] \in ActiveRows /\ row[nameOf[t]].status = "ACTIVE"
           /\ \A id : nameOf[t] \notin UnavailableNodes(id, cfgDelay)
<1>1. TypeInv
    BY DEF LeaseInv
<1>2. PICK la \in Nat : la = row[nameOf[t]].lastaccess
    BY <1>1, ServerTypes
<1>3. now + 1 <= la + cfgDelay /\ row[nameOf[t]].status = "ACTIVE" /\ nameOf[t] \in Name
    BY <1>1, <1>2, LeaderFresh, ServerTypes
<1>4. now \in Nat /\ cfgDelay \in Nat
    BY <1>1, ServerTypes
<1>5. row[nameOf[t]] # NoRow
    BY <1>3 DEF NoRow
<1>6. la + cfgDelay > now /\ ~(now >= la + cfgDelay)
    BY <1>3, <1>4
<1> QED
    BY <1>2, <1>3, <1>5, <1>6 DEF Others, ActiveRows, Rows, IsAvailable, UnavailableNodes

(* An active row is seen or unavailable. *)
LEMMA ActiveSeen ==
    ASSUME TypeInv, NEW n \in Name, row[n].status = "ACTIVE", NEW id, row[n].id # id
    PROVE  n \in Others(cfgDelay) \/ n \in UnavailableNodes(id, cfgDelay)
<1>1. row[n] # NoRow
    BY DEF NoRow
<1>2. PICK la \in Nat : la = row[n].lastaccess
    BY RowFields DEF TypeInv, TypeOK
<1>3. now \in Nat /\ cfgDelay \in Nat
    BY Constants DEF TypeInv, TypeOK
<1>4. la + cfgDelay > now \/ now >= la + cfgDelay
    BY <1>3
<1> QED
    BY <1>1, <1>2, <1>4 DEF Others, Rows, IsAvailable, UnavailableNodes

(* RegisterNode *)
LEMMA RegisterNodeLease ==
    ASSUME LeaseInv, Orderly, NEW s \in Server, RegisterNode(s)
    PROVE  LeaseInv'
<1>1. /\ TypeInv /\ RowInv /\ KnowsId(s) /\ ManagerOK(s) /\ MainOK(s) /\ StatesOK(s)
      /\ now \in Nat /\ now > 0 /\ nextId \in Nat /\ nameOf[s] \in Name
    BY ServerTypes DEF LeaseInv, ServerInv, RowInv
<1>2. /\ TypeInv' /\ UNCHANGED <<nameOf, now, cfgDelay, nextId, dbUp, main>>
      /\ Ready(s, "register")
    BY <1>1, RegisterNodeCases, RegisterNodeType
<1>3. PICK m \in Manager :
         /\ SameCheck(m, mgr[s]) /\ SameCount(m, mgr[s]) /\ m.nodeid = mgr[s].nodeid /\ m.fd = mgr[s].fd
         /\ m.st \in {"UNKNOWN", "STANDBY", "ACTIVE", "ERROR"}
         /\ EndCheck(s, m)
         /\ (row' = row /\ m.st \in {mgr[s].st, "ERROR"}) \/ RegisterWrote(s, m)
    BY <1>1, RegisterNodeCases, OrderlyFacts
<1>4. PassiveTurn(s)
    BY <1>2, PassiveTurnOK
<1>5. m.nodeid # 0 /\ m.fd = cfgDelay /\ mgr[s].st = "UNKNOWN" /\ m.nodeid \in Nat
    BY <1>1, <1>2, <1>3, ManagerFields DEF Ready, ManagerOK, KnowsId, StatesOK
<1>6. OthersKept(s) /\ mgr'[s].nodeid = mgr[s].nodeid /\ mgr'[s].fd = mgr[s].fd /\ mgr'[s].removing = 0
  <2>1. m.removing = 0
    BY <1>2, <1>3 DEF Ready, SameCheck
  <2> QED
    BY <1>1, <1>2, <1>3, <2>1, EndCheckEffect, ZenonT(60) DEF TypeInv, OthersKept
<1>7. OfflineUntil(m) <= now + (IF mgr[s].wait = 0 THEN Poll - 1 ELSE IF m.dbok THEN Poll ELSE 1)
  <2>1. OfflineUntil(m) = OfflineUntil(mgr[s])
    BY <1>3 DEF SameCount, OfflineUntil
  <2>2. OfflineUntil(m) \in Nat /\ Poll \in Nat
    BY <1>1, <2>1, ServerNumbers, Constants
  <2> QED
    BY <1>1, <1>4, <2>1, <2>2 DEF PassiveTurn
<1>8. CASE row' = row /\ m.st \in {mgr[s].st, "ERROR"}
  <2>1. KnowsId(s)'
    BY <1>1, <1>2, <1>6, <1>8, KnowsSame
  <2>2. ServerInv(s)'
    BY <1>1, <1>2, <1>3, <1>4, <1>5, <1>7, <1>8, <2>1, PassiveEnd
  <2> QED
    BY <1>2, <1>6, <1>8, <2>2, ServerStep
<1>9. CASE RegisterWrote(s, m)
  <2>1. PICK lost : lost = IF m.st = "ACTIVE" THEN UnavailableNodes(m.nodeid, cfgDelay) ELSE {}
    OBVIOUS
  <2>2. PICK id \in Nat : id = m.nodeid
    BY <1>5
  <2>3. PICK st : st = m.st
    OBVIOUS
  <2>4. PICK ses : ses = [n \in Name |-> Sess(s)]
    OBVIOUS
  <2>5. /\ st = IF Activate(cfgDelay) THEN "ACTIVE" ELSE "STANDBY"
        /\ m.dbok /\ dbUp[s] /\ row[nameOf[s]] # NoRow /\ TableChange(id, st, ses, lost)
    BY <1>5, <1>9, <2>1, <2>2, <2>3, <2>4 DEF RegisterWrote
  <2>6. /\ \A n \in Name : row[n].id = id /\ id # 0 => n = nameOf[s]
        /\ row[nameOf[s]].id = id
    BY <1>1, <1>3, <1>5, <2>2, <2>5 DEF KnowsId
  <2>7. \A n \in Name : n \in lost => row[n] # NoRow
    BY <2>1 DEF UnavailableNodes, Rows
  <2>8. st # "ACTIVE" \/ \A n \in Name : row[n].status = "ACTIVE" => n \in lost \/ (row[n].id = id /\ id # 0)
    <3>1. SUFFICES ASSUME st = "ACTIVE", NEW n \in Name, row[n].status = "ACTIVE", row[n].id # id
                   PROVE  n \in lost
      BY <1>5, <2>2
    <3>2. n \notin Others(cfgDelay)
      BY <2>5, <3>1 DEF Activate
    <3> QED
      BY <1>1, <2>1, <2>2, <2>3, <3>1, <3>2, ActiveSeen
  <2>9. RowInv' /\ RowsKept
    BY <1>1, <1>2, <2>5, <2>6, <2>7, <2>8, ChangeOK
  <2>10. \A n \in Name : row'[n].id = row[n].id
    BY <2>9 DEF RowsKept
  <2>11. KnowsId(s)'
    BY <1>1, <1>2, <1>6, <2>9, <2>10, KnowsKept
  <2>12. ses[nameOf[s]] = Sess(s)
    BY <1>1, <2>4
  <2>13. m.st = "ACTIVE" => Wrote(s, m)
    BY <1>1, <1>5, <2>2, <2>3, <2>5, <2>6, <2>12 DEF Wrote, TableChange
  <2>14. ServerInv(s)'
    BY <1>1, <1>2, <1>3, <1>4, <1>7, <2>11, <2>13, PassiveEnd
  <2>15. ASSUME NEW t \in Server \ {s}, Leading(t)
         PROVE  row'[nameOf[t]] = row[nameOf[t]]
    <3>1. /\ nameOf[t] \in Others(cfgDelay) /\ row[nameOf[t]].status = "ACTIVE" /\ nameOf[t] \in Name
      BY <1>1, <2>15, LeaderSeen, ServerTypes
    <3>2. st # "ACTIVE" /\ lost = {}
      BY <2>1, <2>3, <2>5, <3>1 DEF Activate
    <3>3. nameOf[t] # nameOf[s]
      BY <1>1, OrderlyFacts
    <3> QED
      BY <2>5, <2>6, <3>1, <3>2, <3>3 DEF TableChange
  <2> QED
    BY <1>2, <1>6, <2>9, <2>10, <2>14, <2>15, RowStep
<1> QED
    BY <1>3, <1>8, <1>9

(* Multiplication is monotonic. *)
LEMMA Mono ==
    ASSUME NEW a \in Nat, NEW b \in Nat, NEW k \in Nat, a < b
    PROVE  (a + 1) * k <= b * k
<1>1. PICK c \in Nat : b = a + 1 + c
  <2>1. b - (a + 1) \in Nat /\ b = a + 1 + (b - (a + 1))
    OBVIOUS
  <2> QED
    BY <2>1
<1>2. (a + 1 + c) * k = (a + 1) * k + c * k
    OBVIOUS
<1>3. c * k >= 0 /\ c * k \in Nat
    OBVIOUS
<1>4. (a + 1) * k \in Nat
    OBVIOUS
<1> QED
    BY <1>1, <1>2, <1>3, <1>4

(* So many periods that the quotient is exceeded exceed the number. *)
LEMMA Div ==
    ASSUME NEW f \in Nat, NEW p \in Nat, p > 0, NEW k \in Nat, (f \div p) < k
    PROVE  f < k * p
<1>1. f \div p \in Nat
    OBVIOUS
<1>2. f < (f \div p + 1) * p
    OBVIOUS
<1>3. PICK q \in Nat : q = f \div p
    BY <1>1
<1>4. (q + 1) * p <= k * p
    BY <1>3, Mono
<1>5. (q + 1) * p \in Nat /\ k * p \in Nat
    OBVIOUS
<1> QED
    BY <1>2, <1>3, <1>4, <1>5

(* The ticks that ha_check_active_node counts take their time: m is manager *)
(* mgr[s] after it has seen the active node r.                             *)
LEMMA CountedTicks ==
    ASSUME TypeInv, NEW s \in Server, OfflineUntil(mgr[s]) <= now, NEW m \in Manager, NEW la \in Nat, la <= now,
           m.seen = la, m.off = IF la = mgr[s].seen THEN mgr[s].off + 1 ELSE 0
    PROVE  /\ OfflineUntil(m) <= now + Poll
           /\ cfgDelay \div Poll < m.off => la + cfgDelay < now
<1>1. PICK a \in Nat : a = mgr[s].off
    BY ServerTypes, ManagerFields
<1>2. PICK b \in Nat : b = mgr[s].seen
    BY ServerTypes, ManagerFields
<1>3. Poll \in Nat /\ Poll > 0 /\ cfgDelay \in Nat /\ now \in Nat
    BY ServerTypes, Constants
<1>4. b + a * Poll + Poll <= now
    BY <1>1, <1>2 DEF OfflineUntil
<1>5. OfflineUntil(m) = la + m.off * Poll + Poll
    BY DEF OfflineUntil
<1>6. CASE la = b
  <2>1. m.off = a + 1
    BY <1>1, <1>2, <1>6
  <2>2. (a + 1) * Poll = a * Poll + Poll /\ a * Poll \in Nat
    BY <1>3
  <2>3. OfflineUntil(m) <= now + Poll
    BY <1>3, <1>4, <1>5, <1>6, <2>1, <2>2
  <2>4. ASSUME cfgDelay \div Poll < m.off PROVE la + cfgDelay < now
    <3>1. PICK f \in Nat : f = cfgDelay
      BY <1>3
    <3>2. PICK p \in Nat : p = Poll
      BY <1>3
    <3>3. PICK k \in Nat : k = m.off
      BY <2>1
    <3>4. f < k * p
      BY <1>3, <2>4, <3>1, <3>2, <3>3, Div
    <3>5. cfgDelay < (a + 1) * Poll
      BY <2>1, <3>1, <3>2, <3>3, <3>4
    <3> QED
      BY <1>3, <1>4, <1>6, <2>2, <3>5
  <2> QED
    BY <2>3, <2>4
<1>7. CASE la # b
  <2>1. m.off = 0
    BY <1>1, <1>2, <1>7
  <2>2. OfflineUntil(m) = la + Poll
    BY <1>3, <1>5, <2>1
  <2>3. cfgDelay \div Poll \in Nat
    BY <1>3
  <2> QED
    BY <1>3, <2>1, <2>2, <2>3
<1> QED
    BY <1>6, <1>7

(* The id under which a check writes is that of the manager's own row. *)
LEMMA CheckOwnRow ==
    ASSUME LeaseInv, Orderly, NEW s \in Server, NEW m \in Manager, CheckWrote(s, m)
    PROVE  /\ m.nodeid \in Nat /\ m.nodeid # 0 /\ row[nameOf[s]].id = m.nodeid /\ nameOf[s] \in Name
           /\ \A n \in Name : row[n].id = m.nodeid => n = nameOf[s]
           /\ m.nodeid < nextId
<1>1. TypeInv /\ RowInv /\ KnowsId(s) /\ nameOf[s] \in Name /\ row[nameOf[s]].id \in Nat
    BY ServerTypes DEF LeaseInv, ServerInv
<1>2. row[nameOf[s]] # NoRow
    BY DEF CheckWrote, Owned
<1>3. m.nodeid = row[nameOf[s]].id
    BY <1>1, <1>2 DEF CheckWrote, KnowsId
<1> QED
    BY <1>1, <1>2, <1>3 DEF RowInv

(* What a check leaves a manager with. *)
LEMMA CheckKnows ==
    ASSUME LeaseInv, Orderly, NEW s \in Server, NEW m \in Manager, CheckWrote(s, m), TypeInv', RowInv', RowsKept,
           UNCHANGED <<nameOf, cfgDelay, nextId>>, mgr'[s].nodeid = m.nodeid, mgr'[s].fd = m.fd, mgr'[s].removing = 0
    PROVE  KnowsId(s)'
<1>1. /\ m.nodeid \in Nat /\ m.nodeid # 0 /\ row[nameOf[s]].id = m.nodeid /\ nameOf[s] \in Name
      /\ \A n \in Name : row[n].id = m.nodeid => n = nameOf[s]
      /\ m.nodeid < nextId
    BY CheckOwnRow
<1>2. m.fd = cfgDelay
    BY DEF CheckWrote
<1> QED
    BY <1>1, <1>2 DEF KnowsId, RowsKept

(* CheckNodes of a passive manager. *)
LEMMA PassiveCheckLease ==
    ASSUME LeaseInv, Orderly, NEW s \in Server, mgr[s].st = "STANDBY", CheckDue(s), TypeInv',
           UNCHANGED <<nameOf, now, cfgDelay, nextId, dbUp, main>>, NEW m \in Manager, EndCheck(s, m), m.removing = 0,
           NEW lost, PassiveCheck(s, m, lost), CheckWrote(s, m),
           TableChange(m.nodeid, m.st, [n \in Name |-> row[n].sess], lost)
    PROVE  LeaseInv'
<1>1. /\ TypeInv /\ RowInv /\ KnowsId(s) /\ MainOK(s)
      /\ now \in Nat /\ now > 0 /\ Poll \in Nat /\ Poll > 1 /\ nameOf[s] \in Name
    BY ServerTypes, Constants DEF LeaseInv, ServerInv, RowInv
<1>2. PassiveTurn(s) /\ mgr[s].wait = 1
    BY PassiveTurnOK DEF CheckDue
<1>3. OfflineUntil(mgr[s]) <= now
    BY <1>1, <1>2, ServerNumbers DEF PassiveTurn
<1>4. /\ m.nodeid \in Nat /\ m.nodeid # 0 /\ row[nameOf[s]].id = m.nodeid
      /\ \A n \in Name : row[n].id = m.nodeid => n = nameOf[s]
    BY CheckOwnRow
<1>5. m.dbok /\ dbUp[s] /\ m.fd = cfgDelay /\ row[nameOf[s]].sess = Sess(s)
    BY DEF CheckWrote, Owned
<1>6. OthersKept(s) /\ mgr'[s].nodeid = m.nodeid /\ mgr'[s].fd = m.fd /\ mgr'[s].removing = 0
    BY <1>1, EndCheckEffect, ZenonT(60) DEF TypeInv, OthersKept
<1>7. \A n \in Name : row[n].status = "ACTIVE" => n \in ActiveRows
    BY DEF ActiveRows, Rows, NoRow
<1>8. ActiveRows # {} => /\ FirstActive \in ActiveRows /\ FirstActive \in Name
                         /\ row[FirstActive].status = "ACTIVE" /\ row[FirstActive] # NoRow
                         /\ row[FirstActive].lastaccess \in Nat /\ row[FirstActive].lastaccess <= now
                         /\ \A n \in ActiveRows : n = FirstActive
  <2>1. SUFFICES ASSUME ActiveRows # {}
                 PROVE  /\ FirstActive \in ActiveRows /\ FirstActive \in Name
                        /\ row[FirstActive].status = "ACTIVE" /\ row[FirstActive] # NoRow
                        /\ row[FirstActive].lastaccess \in Nat /\ row[FirstActive].lastaccess <= now
                        /\ \A n \in ActiveRows : n = FirstActive
    OBVIOUS
  <2>2. FirstActive \in ActiveRows /\ FirstActive \in Name /\ row[FirstActive] \in Row
    BY <1>1, <2>1, FirstActiveRow DEF TypeInv
  <2>3. \A n \in ActiveRows : n \in Name /\ row[n].status = "ACTIVE" /\ row[n] # NoRow
    BY DEF ActiveRows, Rows
  <2> QED
    BY <1>1, <2>2, <2>3, RowFields DEF RowInv
<1>9. /\ OfflineUntil(m) <= now + Poll
      /\ m.st \in {"STANDBY", "ACTIVE"}
      /\ \A n \in lost : n = FirstActive /\ ActiveRows # {} /\ row[FirstActive].lastaccess + cfgDelay < now
      /\ m.st = "ACTIVE" => \A n \in Name : row[n].status = "ACTIVE" => n \in lost \/ row[n].id = m.nodeid
      /\ m.st # "ACTIVE" => lost = {}
  <2>1. CASE /\ ActiveRows = {} \/ row[FirstActive].id = m.nodeid
             /\ m.st = "ACTIVE" /\ SameCount(m, mgr[s]) /\ lost = {}
    <3>1. OfflineUntil(m) = OfflineUntil(mgr[s]) /\ OfflineUntil(mgr[s]) \in Nat
      BY <1>1, <2>1, ServerNumbers DEF SameCount, OfflineUntil
    <3>2. OfflineUntil(m) <= now + Poll
      BY <1>1, <1>3, <3>1
    <3> QED
      BY <1>7, <1>8, <2>1, <3>2
  <2>2. CASE /\ ActiveRows # {} /\ row[FirstActive].id # m.nodeid
             /\ m.seen = row[FirstActive].lastaccess
             /\ m.off = IF row[FirstActive].lastaccess = mgr[s].seen THEN mgr[s].off + 1 ELSE 0
             /\ \/ cfgDelay \div Poll < m.off /\ m.st = "ACTIVE" /\ lost = {FirstActive}
                \/ m.st = mgr[s].st /\ lost = {}
    <3>1. PICK la \in Nat : la = row[FirstActive].lastaccess
      BY <1>8, <2>2
    <3>2. la <= now /\ m.seen = la /\ m.off = IF la = mgr[s].seen THEN mgr[s].off + 1 ELSE 0
      BY <1>8, <2>2, <3>1
    <3>3. /\ OfflineUntil(m) <= now + Poll
          /\ cfgDelay \div Poll < m.off => la + cfgDelay < now
      BY <1>1, <1>3, <3>2, CountedTicks
    <3> QED
      BY <1>7, <1>8, <2>2, <3>1, <3>3
  <2> QED
    BY <2>1, <2>2 DEF PassiveCheck
<1>10. PICK id \in Nat : id = m.nodeid
    BY <1>4
<1>11. PICK st : st = m.st
    OBVIOUS
<1>12. PICK ses : ses = [n \in Name |-> row[n].sess]
    OBVIOUS
<1>13. TableChange(id, st, ses, lost)
    BY <1>10, <1>11, <1>12
<1>14. RowInv' /\ RowsKept
  <2>1. \A n \in Name : row[n].id = id /\ id # 0 => n = nameOf[s]
    BY <1>4, <1>10
  <2>2. \A n \in Name : n \in lost => row[n] # NoRow
    BY <1>8, <1>9
  <2>3. st # "ACTIVE" \/ \A n \in Name : row[n].status = "ACTIVE" => n \in lost \/ (row[n].id = id /\ id # 0)
    BY <1>4, <1>9, <1>10, <1>11
  <2> QED
    BY <1>1, <1>13, <2>1, <2>2, <2>3, ChangeOK
<1>15. KnowsId(s)'
    BY <1>6, <1>14, CheckKnows
<1>16. m.st = "ACTIVE" => Wrote(s, m)
  <2>1. ses[nameOf[s]] = Sess(s)
    BY <1>1, <1>5, <1>12
  <2> QED
    BY <1>1, <1>4, <1>5, <1>10, <1>11, <1>13, <2>1 DEF Wrote, TableChange
<1>17. ServerInv(s)'
  <2>1. OfflineUntil(m) <= now + (IF mgr[s].wait = 0 THEN Poll - 1 ELSE IF m.dbok THEN Poll ELSE 1)
    BY <1>2, <1>5, <1>9
  <2> QED
    BY <1>1, <1>2, <1>9, <1>15, <1>16, <2>1, PassiveEnd
<1>18. ASSUME NEW t \in Server \ {s}, Leading(t)
       PROVE  row'[nameOf[t]] = row[nameOf[t]]
  <2>1. nameOf[t] \in ActiveRows /\ nameOf[t] \in Name /\ nameOf[t] # nameOf[s]
    BY <1>1, <1>18, LeaderSeen, ServerTypes, OrderlyFacts
  <2>2. nameOf[t] = FirstActive
    BY <1>8, <2>1
  <2>3. nameOf[t] \notin lost
    <3>1. PICK la \in Nat : la = row[nameOf[t]].lastaccess
      BY <1>1, ServerTypes
    <3>2. now + 1 <= la + cfgDelay
      BY <1>18, <3>1, LeaderFresh
    <3>3. cfgDelay \in Nat
      BY <1>1, ServerTypes
    <3> QED
      BY <1>1, <1>9, <2>2, <3>1, <3>2, <3>3
  <2> QED
    BY <1>4, <1>10, <1>13, <2>1, <2>3 DEF TableChange
<1>19. nextId' \in {nextId, nextId + 1} /\ \A n \in Name : row'[n].id = row[n].id
    BY <1>14 DEF RowsKept
<1> QED
    BY <1>6, <1>14, <1>17, <1>18, <1>19, RowStep

(* A check of an active manager is due only when its server serves. *)
LEMMA ActiveDue ==
    ASSUME LeaseInv, Orderly, NEW s \in Server, CheckDue(s), mgr[s].st = "ACTIVE"
    PROVE  Leading(s) /\ Serving(s)
<1>1. TypeInv /\ ManagerOK(s) /\ MainOK(s) /\ MessagesOK(s) /\ LeaderOK(s) /\ StatesOK(s)
    BY ServerTypes DEF LeaseInv, ServerInv
<1>2. Leading(s) /\ ~mgr[s].ticked /\ mgr[s].wait = 1 /\ mgr[s].pc = "idle"
    BY DEF CheckDue, Ready, Leading
<1>3. main[s].phase \in {"startup", "asking", "run"}
  <2>1. main[s].phase \in {"off", "boot", "startup", "asking", "run", "stopping"}
    BY <1>1, ServerTypes, MainFields
  <2> QED
    BY <1>1, <1>2, <2>1 DEF MainOK, StatesOK
<1>4. main[s].old = "ACTIVE"
  <2>1. CASE main[s].phase = "run" /\ main[s].old # "ACTIVE"
    <3>1. Len(rtc[s]) > 1
      BY <1>1, <1>2, <2>1 DEF LeaderOK
    <3>2. rtc[s] # << >>
      BY <3>1
    <3> QED
      BY <1>1, <1>2, <2>1, <3>2 DEF MessagesOK, Serving
  <2> QED
    BY <1>1, <1>3, <2>1 DEF MainOK
<1> QED
    BY <1>2, <1>3, <1>4 DEF Serving

(* The end of the check of an active manager. *)
LEMMA ActiveEnd ==
    ASSUME LeaseInv, Orderly, NEW s \in Server, CheckDue(s), mgr[s].st = "ACTIVE", TypeInv',
           UNCHANGED <<nameOf, now, cfgDelay, dbUp, main>>, NEW m \in Manager, EndCheck(s, m), m.st = "ACTIVE",
           SameCount(m, mgr[s]), m.nodeid = mgr[s].nodeid, m.fd = mgr[s].fd, KnowsId(s)',
           \/ ~m.dbok /\ ~dbUp[s] /\ row'[nameOf[s]] = row[nameOf[s]]
           \/ /\ m.dbok /\ row'[nameOf[s]].id = row[nameOf[s]].id /\ row'[nameOf[s]].status = "ACTIVE"
              /\ row'[nameOf[s]].sess = row[nameOf[s]].sess /\ row'[nameOf[s]].lastaccess = now
    PROVE  ServerInv(s)'
<1>1. /\ TypeInv /\ RowInv /\ ManagerOK(s) /\ MainOK(s) /\ MessagesOK(s) /\ LeaderOK(s)
      /\ rtc[s] \in Seq(Message)
    BY ServerTypes DEF LeaseInv, ServerInv
<1>2. /\ Leading(s) /\ Serving(s) /\ main[s].old = "ACTIVE" /\ main[s].phase \in {"startup", "asking", "run"}
      /\ mgr[s].wait = 1 /\ ~mgr[s].ticked /\ mgr[s].pc = "idle" /\ Untick(mgr[s]) = 1
    BY ActiveDue DEF CheckDue, Ready, Untick, Serving
<1>3. /\ mgr'[s].pc = "idle" /\ mgr'[s].st = "ACTIVE" /\ mgr'[s].nodeid = mgr[s].nodeid /\ mgr'[s].fd = mgr[s].fd
      /\ mgr'[s].seen = mgr[s].seen /\ mgr'[s].off = mgr[s].off
      /\ mgr'[s].ticked = TRUE /\ mgr'[s].hung = FALSE
      /\ mgr'[s].wait = IF m.dbok THEN Poll ELSE 1
      /\ rtc'[s] = IF m.dbok THEN Post(rtc[s], Heartbeat) ELSE rtc[s]
  <2>1. /\ mgr'[s].pc = (IF m.st = "ERROR" THEN "pause" ELSE "idle")
        /\ mgr'[s].st = m.st /\ mgr'[s].nodeid = m.nodeid /\ mgr'[s].fd = m.fd
        /\ mgr'[s].seen = m.seen /\ mgr'[s].off = m.off
        /\ mgr'[s].ticked = TRUE /\ mgr'[s].hung = FALSE
        /\ mgr[s].wait # 0 => mgr'[s].wait = IF m.dbok THEN Poll ELSE 1
        /\ rtc'[s] = IF m.st # "ERROR" /\ Beats(m) THEN Post(Reported(s, m), Heartbeat) ELSE Reported(s, m)
    BY <1>1, EndCheckEffect DEF TypeInv
  <2>2. Reported(s, m) = rtc[s]
    BY DEF Reported, Reports
  <2>3. Beats(m) <=> m.dbok
    BY DEF Beats
  <2> QED
    BY <1>2, <2>1, <2>2, <2>3 DEF SameCount
<1>4. /\ OfflineUntil(mgr[s])' = OfflineUntil(mgr[s]) /\ Untick(mgr[s])' = 0
    BY <1>3 DEF OfflineUntil, Untick
<1>5. /\ Poll \in Nat /\ Poll > 1 /\ now \in Nat /\ cfgDelay \in Nat /\ OfflineUntil(mgr[s]) \in Nat
      /\ main[s].hb \in Nat /\ main[s].polled \in BOOLEAN
      /\ main[s].busy \in Nat /\ MaxStartup \in Nat
    BY <1>1, Constants, ServerTypes, ServerNumbers
<1>6. ManagerOK(s)'
  <2>1. OfflineUntil(mgr[s]) + 1 <= now + 1
    BY <1>1, <1>2 DEF ManagerOK
  <2>2. OfflineUntil(mgr[s]) + 0 <= now + mgr'[s].wait /\ mgr'[s].wait # 0
    BY <1>3, <1>5, <2>1
  <2> QED
    BY <1>3, <1>4, <2>2 DEF ManagerOK
<1>7. MainOK(s)'
    BY <1>1, <1>2, <1>3 DEF MainOK, Serving, Leading, Running
<1>8. /\ \A k \in DOMAIN rtc'[s] : rtc'[s][k] = Heartbeat
      /\ rtc[s] # << >> => rtc'[s] # << >>
      /\ m.dbok => rtc'[s] # << >>
      /\ ~m.dbok => rtc'[s] = rtc[s]
  <2>1. \A k \in DOMAIN rtc[s] : rtc[s][k] = Heartbeat
    BY <1>1, <1>2 DEF MessagesOK
  <2>2. CASE m.dbok
    BY <1>1, <1>3, <2>1, <2>2, PostSeq, MessageFields
  <2>3. CASE ~m.dbok
    BY <1>3, <2>1, <2>3
  <2> QED
    BY <2>2, <2>3
<1>9. MessagesOK(s)'
    BY <1>3, <1>8 DEF MessagesOK
<1>10. LeaderOK(s)'
  <2>1. PICK la \in Nat : la = row[nameOf[s]].lastaccess
    BY <1>1, ServerTypes
  <2>2. la <= now
    BY <1>1, <2>1, ServerTypes DEF RowInv
  <2>3. /\ mgr[s].nodeid # 0 /\ row[nameOf[s]].id = mgr[s].nodeid
        /\ row[nameOf[s]].status = "ACTIVE" /\ row[nameOf[s]].sess = Sess(s)
        /\ la + Poll + 1 <= now + 1 + 1
        /\ rtc[s] # << >> => now + 1 <= la + Poll \/ dbUp[s]
        /\ main[s].phase \in {"startup", "asking"} => rtc[s] # << >>
        /\ main[s].phase = "startup" /\ Prompt => now + main[s].busy <= la + MaxStartup
        /\ main[s].phase = "asking" /\ Prompt => now <= la + MaxStartup
        /\ main[s].phase \in {"startup", "asking"} => Prompt \/ dbUp[s]
        /\ main[s].fd = cfgDelay
        /\ main[s].phase = "run" /\ rtc[s] = << >> =>
             /\ main[s].hb # 0 /\ (main[s].hb + 1 <= la + Poll \/ dbUp[s])
             /\ now + Poll + (IF main[s].polled THEN 1 ELSE 0) <= main[s].hb + cfgDelay
    BY <1>1, <1>2, <2>1 DEF LeaderOK, CheckNow
  <2>4. PICK lb \in Nat : lb = row'[nameOf[s]].lastaccess
    BY <1>5, <2>1
  <2>5. /\ row'[nameOf[s]].id = mgr[s].nodeid /\ row'[nameOf[s]].status = "ACTIVE" /\ row'[nameOf[s]].sess = Sess(s)
    BY <2>3
  <2>6. /\ mgr'[s].wait > 1 => now + mgr'[s].wait <= lb + Poll + 0
        /\ lb + Poll + 0 <= now + mgr'[s].wait + 1
        /\ rtc'[s] # << >> => now + 1 <= lb + Poll
    <3>1. CASE m.dbok
      <4>1. lb = now /\ mgr'[s].wait = Poll
        BY <1>3, <2>4, <3>1
      <4> QED
        BY <1>5, <4>1
    <3>2. CASE ~m.dbok
      <4>1. lb = la /\ mgr'[s].wait = 1 /\ rtc'[s] = rtc[s] /\ ~dbUp[s]
        BY <1>3, <2>1, <2>4, <3>2
      <4> QED
        BY <1>5, <2>3, <4>1
    <3> QED
      BY <3>1, <3>2
  <2>7. la <= lb
    BY <1>5, <2>1, <2>2, <2>4
  <2>8. /\ main[s].phase \in {"startup", "asking"} => rtc'[s] # << >>
        /\ main[s].phase = "startup" /\ Prompt => now + main[s].busy <= lb + MaxStartup
        /\ main[s].phase = "asking" /\ Prompt => now <= lb + MaxStartup
    BY <1>5, <1>8, <2>3, <2>7
  <2>9. main[s].phase = "run" /\ rtc'[s] = << >> =>
             /\ main[s].hb # 0 /\ main[s].hb + 1 <= lb + Poll
             /\ now + Poll + (IF main[s].polled THEN 1 ELSE 0) <= main[s].hb + cfgDelay
    <3>1. SUFFICES ASSUME main[s].phase = "run", rtc'[s] = << >>
                   PROVE  /\ main[s].hb # 0 /\ main[s].hb + 1 <= lb + Poll
                          /\ now + Poll + (IF main[s].polled THEN 1 ELSE 0) <= main[s].hb + cfgDelay
      OBVIOUS
    <3>2. ~m.dbok /\ rtc[s] = << >> /\ ~dbUp[s]
      BY <1>8, <3>1
    <3> QED
      BY <1>5, <2>3, <2>7, <3>1, <3>2
  <2>10. /\ main'[s] = main[s] /\ dbUp'[s] = dbUp[s] /\ now' = now /\ cfgDelay' = cfgDelay /\ nameOf' = nameOf
    OBVIOUS
  <2> QED
    BY <1>2, <1>3, <1>4, <2>3, <2>4, <2>5, <2>6, <2>8, <2>9, <2>10 DEF LeaderOK, Serving, Leading, Sess
<1> QED
    BY <1>6, <1>7, <1>9, <1>10 DEF ServerInv

(* CheckNodes of an active manager. *)
LEMMA ActiveCheckLease ==
    ASSUME LeaseInv, Orderly, NEW s \in Server, CheckDue(s), TypeInv',
           UNCHANGED <<nameOf, now, cfgDelay, nextId, dbUp, main>>, NEW m \in Manager, EndCheck(s, m), m.removing = 0,
           NEW lost, ActiveCheck(s, m, lost), CheckWrote(s, m),
           TableChange(m.nodeid, m.st, [n \in Name |-> row[n].sess], lost)
    PROVE  LeaseInv'
<1>1. TypeInv /\ RowInv /\ KnowsId(s) /\ LeaderOK(s) /\ nameOf[s] \in Name
    BY ServerTypes DEF LeaseInv, ServerInv
<1>2. mgr[s].st = "ACTIVE" /\ m.st = "ACTIVE" /\ SameCount(m, mgr[s]) /\ lost = UnavailableNodes(m.nodeid, cfgDelay)
    BY DEF ActiveCheck
<1>3. Leading(s)
    BY <1>2, ActiveDue
<1>4. mgr[s].nodeid # 0 /\ row[nameOf[s]].status = "ACTIVE"
    BY <1>1, <1>3 DEF LeaderOK
<1>5. /\ m.nodeid \in Nat /\ m.nodeid # 0 /\ row[nameOf[s]].id = m.nodeid
      /\ \A n \in Name : row[n].id = m.nodeid => n = nameOf[s]
    BY CheckOwnRow
<1>6. m.dbok /\ m.nodeid = mgr[s].nodeid /\ m.fd = mgr[s].fd
    BY <1>1, <1>4 DEF CheckWrote, KnowsId
<1>7. OthersKept(s) /\ mgr'[s].nodeid = m.nodeid /\ mgr'[s].fd = m.fd /\ mgr'[s].removing = 0
    BY <1>1, EndCheckEffect, ZenonT(60) DEF TypeInv, OthersKept
<1>8. PICK id \in Nat : id = m.nodeid
    BY <1>5
<1>9. PICK st : st = m.st
    OBVIOUS
<1>10. PICK ses : ses = [n \in Name |-> row[n].sess]
    OBVIOUS
<1>11. TableChange(id, st, ses, lost)
    BY <1>8, <1>9, <1>10
<1>12. RowInv' /\ RowsKept
  <2>1. \A n \in Name : row[n].id = id /\ id # 0 => n = nameOf[s]
    BY <1>5, <1>8
  <2>2. \A n \in Name : n \in lost => row[n] # NoRow
    BY <1>2 DEF UnavailableNodes, Rows
  <2>3. \A n \in Name : row[n].status = "ACTIVE" => row[n].id = id /\ id # 0
    BY <1>1, <1>4, <1>5, <1>8 DEF RowInv
  <2> QED
    BY <1>1, <1>11, <2>1, <2>2, <2>3, ChangeOK
<1>13. KnowsId(s)'
    BY <1>7, <1>12, CheckKnows
<1>14. /\ row'[nameOf[s]].id = row[nameOf[s]].id /\ row'[nameOf[s]].status = "ACTIVE"
       /\ row'[nameOf[s]].sess = row[nameOf[s]].sess /\ row'[nameOf[s]].lastaccess = now
  <2>1. ses[nameOf[s]] = row[nameOf[s]].sess
    BY <1>1, <1>10
  <2> QED
    BY <1>1, <1>2, <1>5, <1>8, <1>9, <1>11, <2>1 DEF TableChange
<1>15. ServerInv(s)'
    BY <1>2, <1>6, <1>13, <1>14, ActiveEnd
<1>16. \A t \in Server \ {s} : ~Leading(t)
    BY <1>1, <1>4, LeaderFresh, ServerTypes, OrderlyFacts DEF RowInv
<1>17. nextId' \in {nextId, nextId + 1} /\ \A n \in Name : row'[n].id = row[n].id
    BY <1>12 DEF RowsKept
<1> QED
    BY <1>7, <1>12, <1>15, <1>16, <1>17, RowStep

(* CheckNodes *)
LEMMA CheckNodesLease ==
    ASSUME LeaseInv, Orderly, NEW s \in Server, CheckNodes(s)
    PROVE  LeaseInv'
<1>1. /\ TypeInv /\ RowInv /\ KnowsId(s) /\ MainOK(s) /\ now \in Nat /\ now > 0
    BY ServerTypes DEF LeaseInv, ServerInv, RowInv
<1>2. /\ TypeInv' /\ UNCHANGED <<nameOf, now, cfgDelay, nextId, dbUp, main>>
      /\ CheckDue(s) /\ mgr[s].st \in {"STANDBY", "ACTIVE"}
    BY <1>1, CheckNodesCases, CheckNodesType
<1>3. PICK m \in Manager :
         /\ m.st \in {"STANDBY", "ACTIVE", "ERROR"} /\ EndCheck(s, m) /\ m.removing = 0
         /\ \/ /\ row' = row /\ SameCount(m, mgr[s]) /\ m.nodeid = mgr[s].nodeid /\ m.fd = mgr[s].fd
               /\ (m.st = mgr[s].st /\ ~m.dbok /\ ~dbUp[s]) \/ (m.st = "ERROR" /\ ~Owned(s))
            \/ CheckWrote(s, m)
  <2>1. mgr[s].removing = 0
    BY <1>2 DEF CheckDue, Ready
  <2> QED
    BY <1>1, <2>1, CheckNodesCases, OrderlyFacts DEF SameCheck
<1>4. CASE /\ row' = row /\ SameCount(m, mgr[s]) /\ m.nodeid = mgr[s].nodeid /\ m.fd = mgr[s].fd
           /\ (m.st = mgr[s].st /\ ~m.dbok /\ ~dbUp[s]) \/ (m.st = "ERROR" /\ ~Owned(s))
  <2>1. OthersKept(s) /\ mgr'[s].nodeid = mgr[s].nodeid /\ mgr'[s].fd = mgr[s].fd /\ mgr'[s].removing = 0
    <3>1. /\ \A t \in Server \ {s} : mgr'[t] = mgr[t] /\ rtc'[t] = rtc[t]
          /\ mgr'[s].nodeid = m.nodeid /\ mgr'[s].fd = m.fd /\ mgr'[s].removing = 0
      BY <1>1, <1>3, EndCheckEffect DEF TypeInv
    <3> QED
      BY <1>2, <1>4, <3>1 DEF OthersKept
  <2>2. KnowsId(s)'
    BY <1>1, <1>2, <1>4, <2>1, KnowsSame
  <2>3. CASE mgr[s].st = "ACTIVE"
    <3>1. Owned(s)
      <4>1. Leading(s)
        BY <1>2, <2>3, ActiveDue
      <4>2. row[nameOf[s]].status = "ACTIVE" /\ row[nameOf[s]].sess = Sess(s)
        BY <4>1, LeaderFresh
      <4> QED
        BY <4>2 DEF Owned, NoRow
    <3>2. m.st = "ACTIVE" /\ ~m.dbok /\ ~dbUp[s] /\ row'[nameOf[s]] = row[nameOf[s]]
      BY <1>4, <2>3, <3>1
    <3>3. ServerInv(s)'
      BY <1>2, <1>3, <1>4, <2>2, <2>3, <3>2, ActiveEnd
    <3> QED
      BY <1>2, <1>4, <2>1, <3>3, ServerStep
  <2>4. CASE mgr[s].st = "STANDBY"
    <3>1. PassiveTurn(s) /\ mgr[s].wait = 1
      BY <1>2, <2>4, PassiveTurnOK DEF CheckDue
    <3>2. OfflineUntil(m) <= now + (IF mgr[s].wait = 0 THEN Poll - 1 ELSE IF m.dbok THEN Poll ELSE 1)
      <4>1. OfflineUntil(m) = OfflineUntil(mgr[s])
        BY <1>4 DEF SameCount, OfflineUntil
      <4>2. OfflineUntil(m) \in Nat /\ Poll \in Nat /\ OfflineUntil(m) <= now + 0
        BY <1>1, <3>1, <4>1, ServerNumbers, Constants DEF PassiveTurn
      <4> QED
        BY <1>1, <3>1, <4>2
    <3>3. m.st # "ACTIVE"
      BY <1>4, <2>4
    <3>4. ServerInv(s)'
      BY <1>1, <1>2, <1>3, <2>2, <3>1, <3>2, <3>3, PassiveEnd
    <3> QED
      BY <1>2, <1>4, <2>1, <3>4, ServerStep
  <2> QED
    BY <1>2, <2>3, <2>4
<1>5. CASE CheckWrote(s, m)
  <2>1. PICK lost : /\ ActiveCheck(s, m, lost) \/ PassiveCheck(s, m, lost)
                    /\ TableChange(m.nodeid, m.st, [n \in Name |-> row[n].sess], lost)
    BY <1>5 DEF CheckWrote
  <2>2. CASE ActiveCheck(s, m, lost)
    BY <1>2, <1>3, <1>5, <2>1, <2>2, ActiveCheckLease
  <2>3. CASE PassiveCheck(s, m, lost)
    <3>1. mgr[s].st = "STANDBY"
      BY <1>2, <2>3 DEF PassiveCheck
    <3> QED
      BY <1>2, <1>3, <1>5, <2>1, <2>3, <3>1, PassiveCheckLease
  <2> QED
    BY <2>1, <2>2, <2>3
<1> QED
    BY <1>3, <1>4, <1>5

(* The initial states. *)
LEMMA InitLease == Init => LeaseInv
<1> SUFFICES ASSUME Init PROVE LeaseInv
    OBVIOUS
<1>1. TypeInv
    BY InitType
<1>2. /\ now = 1 /\ row = [n \in Name |-> NoRow] /\ nextId = 1
      /\ mgr = [s \in Server |-> NewManager("off", "UNKNOWN", 0)]
      /\ main = [s \in Server |-> NoMain] /\ rtc = [s \in Server |-> << >>]
    BY DEF Init
<1>3. RowInv
    BY <1>2 DEF RowInv, NoRow
<1>4. ASSUME NEW s \in Server PROVE ServerInv(s)
  <2>1. /\ main[s].phase = "off" /\ main[s].old = "UNKNOWN"
        /\ mgr[s].pc = "off" /\ mgr[s].st = "UNKNOWN" /\ mgr[s].nodeid = 0 /\ mgr[s].wait = 0
        /\ mgr[s].seen = 0 /\ mgr[s].off = 0 /\ ~mgr[s].hung /\ rtc[s] = << >>
        /\ mgr[s].removing = 0
    BY <1>2 DEF NewManager, NoMain
  <2>2. KnowsId(s)
    BY <1>2, <2>1 DEF KnowsId
  <2>3. ManagerOK(s)
    BY <2>1 DEF ManagerOK
  <2>4. MainOK(s) /\ MessagesOK(s) /\ LeaderOK(s)
    BY <2>1 DEF MainOK, MessagesOK, LeaderOK, Serving, Leading, Running
  <2> QED
    BY <2>2, <2>3, <2>4 DEF ServerInv
<1> QED
    BY <1>1, <1>3, <1>4 DEF LeaseInv

(* Every step. *)
LEMMA NextLease == Orderly /\ LeaseInv /\ [Next]_vars => LeaseInv'
<1> SUFFICES ASSUME Orderly, LeaseInv, [Next]_vars PROVE LeaseInv'
    OBVIOUS
<1>1. CASE UNCHANGED vars
  <2>1. TypeInv'
    BY <1>1 DEF LeaseInv, TypeInv, TypeOK, StatesOK, vars
  <2>2. RowInv'
    BY <1>1 DEF LeaseInv, RowInv, vars
  <2>3. ASSUME NEW s \in Server PROVE ServerInv(s)'
    BY <1>1 DEF LeaseInv, ServerInv, KnowsId, ManagerOK, MainOK, MessagesOK, LeaderOK, CheckNow, Serving, Leading, Running,
                OfflineUntil, Untick, Sess, vars
  <2> QED
    BY <2>1, <2>2, <2>3 DEF LeaseInv
<1>2. ASSUME NEW s \in Server, ManagerStep(s) PROVE LeaseInv'
    BY <1>2, MgrTickLease, CreateNodeLease, RegisterNodeLease, CheckNodesLease, PauseTickLease DEF ManagerStep
<1>3. ASSUME NEW s \in Server, MainStep(s) PROVE LeaseInv'
    BY <1>3, StartLease, StartupDoneLease, ObtainStatusLease, MainLoopLease, StopLease, StoppedLease DEF MainStep
<1>4. ASSUME NEW s \in Server, Request(s) PROVE LeaseInv'
  <2>1. TypeInv
    BY DEF LeaseInv
  <2>2. CASE \E d \in Delays : SetFailoverDelay(s, d)
    BY <2>1, <2>2, SetFailoverDelayType, OrderlyFacts
  <2> QED
    BY <1>4, <2>2, RemoveNodeLease, DeleteNodeLease DEF Request
<1>5. ASSUME NEW s \in Server, Environment(s) PROVE LeaseInv'
    BY <1>5, CrashLease, DatabaseLease, HangLease DEF Environment
<1>6. CASE Second
    BY <1>6, SecondLease
<1> QED
    BY <1>1, <1>2, <1>3, <1>4, <1>5, <1>6 DEF Next

-----------------------------------------------------------------------------
(* What the invariant is for. *)

(* The invariant holds in every cluster whose names differ and which is    *)
(* spared failing transactions, changes of the failover delay and hangs in *)
(* the first registration.  Servers may take any time to start up, crash,  *)
(* lose the database, hang in a check, be stopped and be started again any *)
(* number of times; only while a server starts up, in a cluster where that *)
(* may take longer than until the next check, it does not lose the         *)
(* database and its manager does not hang.                                 *)
THEOREM HaLeaseInvariant == Orderly /\ Spec => []LeaseInv
<1> SUFFICES ASSUME Orderly PROVE Spec => []LeaseInv
    OBVIOUS
<1>1. LeaseInv /\ [Next]_vars => LeaseInv'
    BY NextLease
<1> QED
    BY <1>1, InitLease, PTL DEF Spec

(* Whoever serves holds the lease: the heartbeat timer of                  *)
(* zbx_ha_dispatch_message stops it in time.                               *)
LEMMA LeaseOfInv == Orderly /\ LeaseInv => LeaseHeld
<1> SUFFICES ASSUME Orderly, LeaseInv, NEW s \in Server, Serving(s)
             PROVE  row[nameOf[s]].sess = Sess(s) /\ now <= row[nameOf[s]].lastaccess + cfgDelay
    BY DEF LeaseHeld
<1>1. TypeInv /\ Leading(s)
    BY DEF LeaseInv, ServerInv, MainOK
<1>2. PICK la \in Nat : la = row[nameOf[s]].lastaccess
    BY <1>1, ServerTypes
<1>3. now + 1 <= la + cfgDelay /\ row[nameOf[s]].sess = Sess(s)
    BY <1>1, <1>2, LeaderFresh
<1>4. now \in Nat /\ cfgDelay \in Nat
    BY <1>1, ServerTypes
<1> QED
    BY <1>2, <1>3, <1>4

(* No two servers serve: their rows would both be active. *)
LEMMA OneOfInv == Orderly /\ LeaseInv => AtMostOneActive
<1> SUFFICES ASSUME Orderly, LeaseInv, NEW s \in Server, NEW t \in Server, Serving(s), Serving(t)
             PROVE  s = t
    BY DEF AtMostOneActive
<1>1. TypeInv /\ RowInv /\ Leading(s) /\ Leading(t)
    BY DEF LeaseInv, ServerInv, MainOK
<1>2. row[nameOf[s]].status = "ACTIVE" /\ row[nameOf[t]].status = "ACTIVE"
    BY <1>1, LeaderFresh
<1> QED
    BY <1>1, <1>2, ServerTypes, OrderlyFacts DEF RowInv

(* The lease of ha_manager.c: the row of whoever serves carries its        *)
(* session and is no older than the failover delay, in every orderly       *)
(* cluster, however long server_startup waits for the configuration.       *)
THEOREM HaLeaseHeld == Orderly /\ Spec => []LeaseHeld
<1> SUFFICES ASSUME Orderly PROVE Spec => []LeaseHeld
    OBVIOUS
<1>1. LeaseInv => LeaseHeld
    BY LeaseOfInv
<1>2. Spec => []LeaseInv
    BY HaLeaseInvariant
<1> QED
    BY <1>1, <1>2, PTL

(* No split brain: in an orderly cluster of any number of servers at most  *)
(* one of them serves, however long they take to start up.                 *)
THEOREM HaAtMostOneActive == Orderly /\ Spec => []AtMostOneActive
<1> SUFFICES ASSUME Orderly PROVE Spec => []AtMostOneActive
    OBVIOUS
<1>1. LeaseInv => AtMostOneActive
    BY OneOfInv
<1>2. Spec => []LeaseInv
    BY HaLeaseInvariant
<1> QED
    BY <1>1, <1>2, PTL

(* What TakeoverAfterDelay asks of a step. *)
LostLate == \A n \in Name : row[n].status = "ACTIVE" /\ row'[n].status = "UNAVAILABLE"
                            => now >= row[n].lastaccess + cfgDelay

(* A transaction marks only the rows in lost. *)
LEMMA ChangeLate ==
    ASSUME NEW id, NEW st, NEW ses, NEW lost, TableChange(id, st, ses, lost), st # "UNAVAILABLE",
           \A n \in Name : n \in lost => now >= row[n].lastaccess + cfgDelay
    PROVE  LostLate
BY DEF TableChange, LostLate

(* The clock of the database says that they are late. *)
LEMMA UnavailableLate ==
    \A id : \A n \in UnavailableNodes(id, cfgDelay) : now >= row[n].lastaccess + cfgDelay
BY DEF UnavailableNodes

(* RegisterNode *)
LEMMA RegisterLate ==
    ASSUME LeaseInv, Orderly, NEW s \in Server, RegisterNode(s)
    PROVE  LostLate
<1>1. TypeInv /\ KnowsId(s) /\ ManagerOK(s)
    BY DEF LeaseInv, ServerInv
<1>2. Ready(s, "register")
    BY <1>1, RegisterNodeCases
<1>3. PICK m \in Manager :
         /\ m.nodeid = mgr[s].nodeid /\ m.fd = mgr[s].fd
         /\ row' = row \/ RegisterWrote(s, m)
    BY <1>1, RegisterNodeCases, OrderlyFacts
<1>4. m.fd = cfgDelay
    BY <1>1, <1>2, <1>3 DEF Ready, ManagerOK, KnowsId
<1>5. CASE row' = row
    BY <1>5 DEF LostLate
<1>6. CASE RegisterWrote(s, m)
  <2>1. PICK lost : lost = IF m.st = "ACTIVE" THEN UnavailableNodes(m.nodeid, cfgDelay) ELSE {}
    OBVIOUS
  <2>2. PICK st : st = m.st
    OBVIOUS
  <2>3. PICK ses : ses = [n \in Name |-> Sess(s)]
    OBVIOUS
  <2>4. PICK id : id = m.nodeid
    OBVIOUS
  <2>5. TableChange(id, st, ses, lost) /\ st # "UNAVAILABLE"
    BY <1>4, <1>6, <2>1, <2>2, <2>3, <2>4 DEF RegisterWrote
  <2>6. \A n \in Name : n \in lost => now >= row[n].lastaccess + cfgDelay
    BY <2>1, UnavailableLate
  <2> QED
    BY <2>5, <2>6, ChangeLate
<1> QED
    BY <1>3, <1>5, <1>6

(* CheckNodes: the ticks of a passive node say so too. *)
LEMMA CheckLate ==
    ASSUME LeaseInv, Orderly, NEW s \in Server, CheckNodes(s)
    PROVE  LostLate
<1>1. TypeInv /\ RowInv /\ now \in Nat /\ cfgDelay \in Nat
    BY ServerTypes DEF LeaseInv
<1>2. CheckDue(s) /\ mgr[s].st \in {"STANDBY", "ACTIVE"}
    BY <1>1, CheckNodesCases
<1>3. PICK m \in Manager : m.st \in {"STANDBY", "ACTIVE", "ERROR"} /\ (row' = row \/ CheckWrote(s, m))
    BY <1>1, CheckNodesCases, OrderlyFacts
<1>4. CASE row' = row
    BY <1>4 DEF LostLate
<1>5. CASE CheckWrote(s, m)
  <2>1. PICK lost : /\ ActiveCheck(s, m, lost) \/ PassiveCheck(s, m, lost)
                    /\ TableChange(m.nodeid, m.st, [n \in Name |-> row[n].sess], lost)
    BY <1>5 DEF CheckWrote
  <2>2. PICK st : st = m.st
    OBVIOUS
  <2>3. PICK ses : ses = [n \in Name |-> row[n].sess]
    OBVIOUS
  <2>4. PICK id : id = m.nodeid
    OBVIOUS
  <2>5. TableChange(id, st, ses, lost) /\ st # "UNAVAILABLE"
    BY <1>3, <2>1, <2>2, <2>3, <2>4
  <2>6. \A n \in Name : n \in lost => now >= row[n].lastaccess + cfgDelay
    <3>1. CASE ActiveCheck(s, m, lost)
      BY <3>1, UnavailableLate DEF ActiveCheck
    <3>2. CASE PassiveCheck(s, m, lost) /\ lost # {}
      <4>1. /\ ActiveRows # {} /\ m.seen = row[FirstActive].lastaccess
            /\ m.off = IF row[FirstActive].lastaccess = mgr[s].seen THEN mgr[s].off + 1 ELSE 0
            /\ cfgDelay \div Poll < m.off /\ lost = {FirstActive} /\ mgr[s].st # "ACTIVE"
        BY <3>2 DEF PassiveCheck
      <4>2. FirstActive \in Name /\ row[FirstActive] \in Row
        BY <1>1, <4>1, FirstActiveRow DEF TypeInv
      <4>3. PICK la \in Nat : la = row[FirstActive].lastaccess
        BY <4>2, RowFields
      <4>4. la <= now /\ m.seen = la /\ m.off = IF la = mgr[s].seen THEN mgr[s].off + 1 ELSE 0
        BY <1>1, <4>1, <4>2, <4>3 DEF RowInv
      <4>5. OfflineUntil(mgr[s]) <= now
        <5>1. PassiveTurn(s) /\ mgr[s].wait = 1
          BY <1>2, <4>1, PassiveTurnOK DEF CheckDue
        <5> QED
          BY <1>1, <5>1, ServerNumbers DEF PassiveTurn
      <4>6. la + cfgDelay < now
        BY <1>1, <4>1, <4>4, <4>5, CountedTicks
      <4> QED
        BY <1>1, <4>1, <4>3, <4>6
    <3> QED
      BY <2>1, <3>1, <3>2
  <2> QED
    BY <2>5, <2>6, ChangeLate
<1> QED
    BY <1>3, <1>4, <1>5

(* The other steps mark no row unavailable. *)
LEMMA NextLate == Orderly /\ LeaseInv /\ Next => LostLate
<1> SUFFICES ASSUME Orderly, LeaseInv, Next PROVE LostLate
    OBVIOUS
<1>1. TypeInv
    BY DEF LeaseInv
<1>2. CASE row' = row
    BY <1>2 DEF LostLate
<1>3. ASSUME NEW s \in Server, ManagerStep(s) PROVE LostLate
  <2>1. CASE MgrTick(s)
    BY <1>2, <2>1 DEF MgrTick
  <2>2. CASE CreateNode(s)
    <3>1. PICK m \in Manager : CreateFound(s, m)
      BY <1>1, <2>2, CreateNodeCases, OrderlyFacts
    <3>2. CASE /\ row[nameOf[s]] = NoRow
               /\ row' = [row EXCEPT ![nameOf[s]] =
                            [status |-> "STOPPED", lastaccess |-> now, sess |-> << >>, id |-> nextId]]
      <4>1. PICK new : new = [status |-> "STOPPED", lastaccess |-> now, sess |-> << >>, id |-> nextId]
        OBVIOUS
      <4>2. new.status = "STOPPED"
        BY <4>1
      <4>3. \A n \in Name : row'[n] = row[n] \/ row'[n] = new
        BY <1>1, <3>2, <4>1 DEF TypeInv, TypeOK
      <4> QED
        BY <4>2, <4>3 DEF LostLate
    <3> QED
      BY <1>2, <3>1, <3>2 DEF CreateFound
  <2>3. CASE RegisterNode(s)
    BY <2>3, RegisterLate
  <2>4. CASE CheckNodes(s)
    BY <2>4, CheckLate
  <2>5. CASE PauseTick(s)
    BY <1>1, <2>5, PauseTickCases DEF LostLate
  <2> QED
    BY <1>3, <2>1, <2>2, <2>3, <2>4, <2>5 DEF ManagerStep
<1>4. ASSUME NEW s \in Server, MainStep(s) PROVE LostLate
  <2>1. CASE Stopped(s)
    <3>1. \A n \in Name : row'[n].status \in {row[n].status, "STOPPED"}
      BY <1>1, <2>1, StoppedCases
    <3> QED
      BY <3>1 DEF LostLate
  <2> QED
    BY <1>2, <1>4, <2>1 DEF MainStep, Start, StartupDone, ObtainStatus, MainLoop, Stop
<1>5. ASSUME NEW s \in Server, Request(s) PROVE LostLate
  <2>1. ASSUME NEW n \in Name, RemoveNode(s, n) PROVE LostLate
    BY <1>1, <2>1, RemoveNodeCases DEF LostLate
  <2>2. CASE DeleteNode(s)
    <3>1. \A n \in Name : row'[n] = row[n] \/ row'[n] = NoRow
      BY <1>1, <2>2, DeleteNodeCases
    <3> QED
      BY <3>1 DEF LostLate, NoRow
  <2>3. ASSUME NEW d \in Delays, SetFailoverDelay(s, d) PROVE LostLate
    BY <1>2, <2>3 DEF SetFailoverDelay
  <2> QED
    BY <1>5, <2>1, <2>2, <2>3 DEF Request
<1>6. ASSUME NEW s \in Server, Environment(s) PROVE LostLate
    BY <1>2, <1>6 DEF Environment, Crash, LoseDatabase, RestoreDatabase, Hang
<1>7. CASE Second
    BY <1>2, <1>7 DEF Second
<1> QED
    BY <1>3, <1>4, <1>5, <1>6, <1>7 DEF Next

(* No takeover before its time: a node is declared unavailable, by the     *)
(* tick count of ha_check_active_node or by the database clock, only when  *)
(* its row is at least the failover delay old, in every orderly cluster.   *)
THEOREM HaTakeoverAfterDelay == Orderly /\ Spec => TakeoverAfterDelay
<1> SUFFICES ASSUME Orderly PROVE Spec => TakeoverAfterDelay
    OBVIOUS
<1>1. LeaseInv /\ [Next]_vars => [LostLate]_vars
    BY NextLate
<1>2. Spec => []LeaseInv
    BY HaLeaseInvariant
<1>3. Spec => [][LostLate]_vars
    BY <1>1, <1>2, PTL DEF Spec
<1> QED
    BY <1>3 DEF TakeoverAfterDelay, LostLate
=============================================================================
