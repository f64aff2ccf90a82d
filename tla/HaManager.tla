------------------------------ MODULE HaManager ------------------------------
(***************************************************************************)
(* zabbix_server/ha/ha_manager.c and the main loop of zabbix_server/       *)
(* server.c: the failover protocol of a server cluster.                    *)
(*                                                                         *)
(* Every server runs a main process and an HA manager.  The managers meet  *)
(* only in the ha_node table of the database, each through a connection    *)
(* that may be lost; a manager reports status changes and one heartbeat a  *)
(* second to its main process, which starts the working processes when it  *)
(* is told to be active and kills them, and the manager, when heartbeats   *)
(* stop.  A transaction on ha_node locks all rows and is one action.       *)
(*                                                                         *)
(* Time is counted in seconds and every second a main process goes round   *)
(* its loop and a manager does one tick, in any order; a manager that      *)
(* hangs in a database call misses its tick.  Waiting for the process that *)
(* answers at once (zbx_ha_start, the teardown) takes no time.             *)
(*                                                                         *)
(* The last variable is history: when something last went wrong, or was    *)
(* repaired, or an administrator acted.                                    *)
(***************************************************************************)
EXTENDS Naturals, FiniteSets, Sequences, SequencesExt

CONSTANTS
    Server,       \* server installations
    Name,         \* node names
    Naming,       \* the possible settings of HANodeName
    Poll,         \* ZBX_HA_POLL_PERIOD
    Delays,       \* failover delays an administrator may choose
    DefaultDelay, \* ZBX_HA_DEFAULT_FAILOVER_DELAY
    ServiceTimeout, \* ZBX_HA_SERVICE_TIMEOUT
    MaxStartup,   \* bound on the seconds server_startup takes
    FaultKinds,   \* the faults and interventions considered
    MaxStarts,    \* bound on the starts of one server
    MaxFaults     \* bound on the faults and interventions of a behaviour

ASSUME HaAssumption ==
    /\ Naming \subseteq [Server -> Name]
    /\ Poll \in Nat /\ Poll > 1 /\ MaxStartup \in Nat /\ ServiceTimeout \in Nat
    /\ MaxStarts \in Nat /\ MaxFaults \in Nat
    /\ Delays \subseteq Nat /\ DefaultDelay \in Delays
    /\ \A d \in Delays : d >= 2 * Poll
    /\ FaultKinds \subseteq {"boot", "register", "idle", "startup", "rollback", "ackLost", "error",
                             "database", "crash", "stop", "remove", "delay"}

VARIABLES
    nameOf,    \* HANodeName of each server, set before it starts
    now,       \* database time, and the time of every server
    cfgDelay,  \* ha_failover_delay in table config
    row,       \* table ha_node, by name
    nextId,    \* the next ha_nodeid, ids are ordered by creation
    dbUp,      \* can the server reach the database
    mgr,       \* the HA manager process of each server
    main,      \* the main process of each server
    rtc,       \* messages from the manager to the main process
    faults,    \* number of faults so far
    calm       \* history: the time of the last start, fault or repair

vars == <<nameOf, now, cfgDelay, row, nextId, dbUp, mgr, main, rtc, faults, calm>>

Status == {"UNKNOWN", "ERROR", "HATIMEOUT", "STANDBY", "ACTIVE"}
NoRow == [status |-> "NONE", lastaccess |-> 0, sess |-> <<>>, id |-> 0]
RowStatus == {"NONE", "STANDBY", "STOPPED", "UNAVAILABLE", "ACTIVE"}

(* A server has a new ha_sessionid in each incarnation; <<>> is the empty one. *)
Session == {<<>>} \cup (Server \X (1 .. MaxStarts))

Update(st, fd) == [code |-> "STATUS", st |-> st, fd |-> fd]
Heartbeat == [code |-> "HEARTBEAT", st |-> "UNKNOWN", fd |-> 0]
NoMessage == [code |-> "NONE", st |-> "UNKNOWN", fd |-> 0]

(* A heartbeat right behind a heartbeat tells the main process nothing new. *)
Post(q, msg) == IF q # <<>> /\ Last(q) = msg THEN q ELSE Append(q, msg)

(* info at the start of ha_manager_thread; wait is nextcheck - ticks_num,   *)
(* and removing is the id of a row that ha_remove_node_impl is removing.    *)
NewManager(pc, st, wait) ==
    [pc |-> pc, st |-> st, nodeid |-> 0, dbok |-> FALSE, fd |-> DefaultDelay,
     seen |-> 0, off |-> 0, wait |-> wait, ticked |-> FALSE, hung |-> FALSE, removing |-> 0]

NoMain == [phase |-> "off", ha |-> "UNKNOWN", old |-> "UNKNOWN", hb |-> 0, fd |-> DefaultDelay,
           busy |-> 0, polled |-> FALSE, inc |-> 0]

Init ==
    /\ nameOf \in Naming
    /\ now = 1
    /\ cfgDelay \in Delays
    /\ row = [n \in Name |-> NoRow]
    /\ nextId = 1
    /\ dbUp = [s \in Server |-> TRUE]
    /\ mgr = [s \in Server |-> NewManager("off", "UNKNOWN", 0)]
    /\ main = [s \in Server |-> NoMain]
    /\ rtc = [s \in Server |-> <<>>]
    /\ faults = 0
    /\ calm = 1

-----------------------------------------------------------------------------
(* What a transaction reads. *)

Rows == {n \in Name : row[n] # NoRow}
Sess(s) == <<s, main[s].inc>>

(* ha_is_available *)
IsAvailable(r, fd) == r.lastaccess + fd > now

(* The rows ha_check_cluster_config does not skip, its error and its answer. *)
Others(fd) == {n \in Rows : row[n].status # "STOPPED" /\ IsAvailable(row[n], fd)}
Duplicate(s, fd) == nameOf[s] \in Others(fd)
Activate(fd) == \A n \in Others(fd) : row[n].status \notin {"ACTIVE", "STANDBY"}

(* ha_db_check_unavailable_nodes: the rows other than id it marks. *)
UnavailableNodes(id, fd) ==
    {n \in Rows : /\ row[n].id # id
                  /\ row[n].status \in {"STANDBY", "ACTIVE"}
                  /\ now >= row[n].lastaccess + fd}

ActiveRows == {n \in Rows : row[n].status = "ACTIVE"}
FirstActive == CHOOSE n \in ActiveRows : \A k \in ActiveRows : row[n].id <= row[k].id

(* How a transaction that has begun ends: committed, rolled back because the *)
(* connection was lost (ZBX_DB_DOWN), committed with the answer lost, or     *)
(* rolled back for good (ZBX_DB_FAIL, after which ha_set_error).             *)
Outcome == {"ok", "rollback", "ackLost", "error"}

(* A fault, or an intervention of an administrator. *)
Fault(kind) == kind \in FaultKinds /\ faults < MaxFaults /\ faults' = faults + 1 /\ calm' = now

CountOutcome(s, o) ==
    IF o # "ok" THEN Fault(o)
    ELSE faults' = faults /\ calm' = IF mgr[s].hung THEN now ELSE calm

Commit(o, table) == row' = IF o \in {"rollback", "error"} THEN row ELSE table

(* The status of manager m after a transaction that would make it st. *)
Result(o, m, st) == CASE o = "ok" -> st [] o = "error" -> "ERROR" [] OTHER -> m.st

(* The update of the manager's own row, which is found by ha_nodeid; new    *)
(* gives what each row would become.                                        *)
WriteOwn(id, new) == [n \in Name |-> IF row[n].id = id /\ id # 0 THEN new[n] ELSE row[n]]

MarkUnavailable(table, set) ==
    [n \in Name |-> IF n \in set THEN [table[n] EXCEPT !.status = "UNAVAILABLE"] ELSE table[n]]

-----------------------------------------------------------------------------
(* The HA manager process. *)

(* Mutant: a change of status is not reported. *)
ReportsNever(s, m) == FALSE

(* A change of status is reported to the main process, except by a manager  *)
(* that is still starting.                                                  *)
Reports(s, m) == mgr[s].wait # 0 /\ m.st \notin {mgr[s].st, "UNKNOWN"}

(* Mutant: heartbeats are sent without the database too. *)
BeatsAlways(m) == TRUE

(* An active manager without the database sends no heartbeat. *)
Beats(m) == m.dbok \/ m.st # "ACTIVE"

(* The end of a check in the loop of ha_manager_thread: report a change of  *)
(* status, leave the loop on error, schedule the next check, send the       *)
(* heartbeat.  A manager still starting (wait = 0) reports nothing; it      *)
(* enters the loop with a first tick and heartbeat.                         *)
EndCheck(s, m) ==
    LET starting == mgr[s].wait = 0
        wait == IF starting THEN (IF m.st = "STANDBY" THEN 3 * Poll ELSE Poll) - 1
                ELSE IF m.dbok THEN Poll ELSE 1
        beat == m.st # "ERROR" /\ Beats(m)
        q == IF Reports(s, m) THEN Post(rtc[s], Update(m.st, m.fd)) ELSE rtc[s]
    IN /\ mgr' = [mgr EXCEPT ![s] = [m EXCEPT !.pc = IF m.st = "ERROR" THEN "pause" ELSE "idle",
                                              !.wait = wait, !.ticked = TRUE, !.hung = FALSE]]
       /\ rtc' = [rtc EXCEPT ![s] = IF beat THEN Post(q, Heartbeat) ELSE q]

(* The manager is at this point of its program and may go on this second. *)
Ready(s, pc) == mgr[s].pc = pc /\ ~mgr[s].ticked /\ mgr[s].removing = 0

(* A tick with no check due. *)
(* Mutant: the check is forgotten when it is due. *)
MgrTickUnchecked(s) ==
    /\ Ready(s, "idle")
    /\ mgr' = [mgr EXCEPT ![s].wait = @ - 1, ![s].ticked = TRUE]
    /\ rtc' = IF Beats(mgr[s]) THEN [rtc EXCEPT ![s] = Post(@, Heartbeat)] ELSE rtc
    /\ UNCHANGED <<nameOf, now, cfgDelay, row, nextId, dbUp, main, faults, calm>>

MgrTick(s) ==
    /\ Ready(s, "idle") /\ mgr[s].wait > 1
    /\ mgr' = [mgr EXCEPT ![s].wait = @ - 1, ![s].ticked = TRUE]
    /\ rtc' = IF Beats(mgr[s]) THEN [rtc EXCEPT ![s] = Post(@, Heartbeat)] ELSE rtc
    /\ UNCHANGED <<nameOf, now, cfgDelay, row, nextId, dbUp, main, faults, calm>>

CheckDue(s) == Ready(s, "idle") /\ mgr[s].wait = 1

(* ha_db_create_node, the first transaction of ha_db_register_node; it does *)
(* not lock the rows.  A name that is not there has no duplicate, so the    *)
(* check of the cluster configuration succeeds.                             *)
CreateNode(s) ==
    LET m == mgr[s]
        n == nameOf[s]
        registering(m1) == mgr' = [mgr EXCEPT ![s] = [m1 EXCEPT !.pc = "register", !.hung = FALSE]] /\ rtc' = rtc
    IN /\ Ready(s, "boot") \/ (CheckDue(s) /\ m.st = "UNKNOWN")
       /\ \/ /\ ~dbUp[s]
             /\ IF m.nodeid = 0 THEN EndCheck(s, [m EXCEPT !.dbok = FALSE])
                ELSE registering([m EXCEPT !.dbok = FALSE])
             /\ CountOutcome(s, "ok")
             /\ UNCHANGED <<row, nextId>>
          \/ /\ dbUp[s]
             /\ \E o \in Outcome :
                  /\ CountOutcome(s, o)
                  /\ IF row[n] = NoRow
                     THEN /\ Commit(o, [row EXCEPT ![n] = [status |-> "STOPPED", lastaccess |-> now,
                                                           sess |-> <<>>, id |-> nextId]])
                          /\ nextId' = nextId + 1
                     ELSE UNCHANGED <<row, nextId>>
                  /\ LET id == IF row[n] = NoRow THEN nextId ELSE row[n].id
                         m1 == [m EXCEPT !.fd = cfgDelay, !.dbok = o = "ok", !.st = Result(o, m, @),
                                         !.nodeid = IF o = "ok" THEN id ELSE @]
                     IN IF m1.nodeid = 0 \/ m1.st = "ERROR" THEN EndCheck(s, m1) ELSE registering(m1)
       /\ UNCHANGED <<nameOf, now, cfgDelay, dbUp, main>>

(* The second transaction of ha_db_register_node, under the row locks. *)
RegisterNode(s) ==
    LET m == mgr[s]
        n == nameOf[s]
        bad == Duplicate(s, m.fd) \/ row[n] = NoRow
        new == IF Activate(m.fd) THEN "ACTIVE" ELSE "STANDBY"
        own == WriteOwn(m.nodeid, [k \in Name |->
                   [row[k] EXCEPT !.lastaccess = now, !.sess = Sess(s), !.status = new]])
        lost == IF new = "ACTIVE" THEN UnavailableNodes(m.nodeid, m.fd) ELSE {}
    IN /\ Ready(s, "register")
       /\ \/ /\ ~dbUp[s]
             /\ EndCheck(s, [m EXCEPT !.dbok = FALSE])
             /\ CountOutcome(s, "ok")
             /\ UNCHANGED row
          \/ /\ dbUp[s] /\ bad
             /\ EndCheck(s, [m EXCEPT !.st = "ERROR", !.dbok = TRUE])
             /\ CountOutcome(s, "ok")
             /\ UNCHANGED row
          \/ /\ dbUp[s] /\ ~bad
             /\ \E o \in Outcome :
                  /\ CountOutcome(s, o)
                  /\ Commit(o, MarkUnavailable(own, lost))
                  /\ EndCheck(s, [m EXCEPT !.dbok = o = "ok", !.st = Result(o, m, new)])
       /\ UNCHANGED <<nameOf, now, cfgDelay, nextId, dbUp, main>>

(* Mutant: the count is not reset by a sign of life. *)
OfflineTicksKept(m, r) == m.off + 1

(* The checks in a row that found the active row r with the same lastaccess. *)
OfflineTicks(m, r) == IF r.lastaccess = m.seen THEN m.off + 1 ELSE 0

(* ha_check_active_node in a passive manager m with the failover delay fd:  *)
(* the counters it keeps, its new status, and the row it finds unavailable. *)
CheckActiveNode(m, fd) ==
    IF ActiveRows = {} \/ row[FirstActive].id = m.nodeid
    THEN [m |-> m, st |-> "ACTIVE", lost |-> {}]
    ELSE LET off == OfflineTicks(m, row[FirstActive])
             takeover == fd \div Poll < off
         IN [m    |-> [m EXCEPT !.seen = row[FirstActive].lastaccess, !.off = off],
             st   |-> IF takeover THEN "ACTIVE" ELSE m.st,
             lost |-> IF takeover THEN {FirstActive} ELSE {}]

(* Mutant: the session in the row is not compared. *)
OwnedByName(s) == row[nameOf[s]] # NoRow

(* The row still carries the session of this server. *)
Owned(s) == row[nameOf[s]] # NoRow /\ row[nameOf[s]].sess = Sess(s)

(* ha_check_nodes: the session must still own the row; an active manager    *)
(* looks for unavailable nodes, a passive one for the active node; then the *)
(* row gets the time and the status.                                        *)
CheckNodes(s) ==
    LET m == mgr[s]
        r == row[nameOf[s]]
        m1 == [m EXCEPT !.nodeid = IF @ = 0 THEN r.id ELSE @, !.fd = cfgDelay]
        res == IF m.st = "ACTIVE"
               THEN [m |-> m1, st |-> m.st, lost |-> UnavailableNodes(m1.nodeid, cfgDelay)]
               ELSE CheckActiveNode(m1, cfgDelay)
        own == WriteOwn(m1.nodeid, [k \in Name |-> [row[k] EXCEPT !.lastaccess = now, !.status = res.st]])
    IN /\ CheckDue(s) /\ m.st # "UNKNOWN"
       /\ \/ /\ ~dbUp[s]
             /\ EndCheck(s, [m EXCEPT !.dbok = FALSE])
             /\ CountOutcome(s, "ok")
             /\ UNCHANGED row
          \/ /\ dbUp[s] /\ ~Owned(s)
             /\ EndCheck(s, [m EXCEPT !.st = "ERROR", !.dbok = TRUE])
             /\ CountOutcome(s, "ok")
             /\ UNCHANGED row
          \/ /\ dbUp[s] /\ Owned(s)
             /\ \E o \in Outcome :
                  /\ CountOutcome(s, o)
                  /\ Commit(o, MarkUnavailable(own, res.lost))
                  /\ EndCheck(s, [res.m EXCEPT !.dbok = o = "ok", !.st = Result(o, m, res.st)])
       /\ UNCHANGED <<nameOf, now, cfgDelay, nextId, dbUp, main>>

(* The manager waits for messages in its loop. *)
InLoop(s) == mgr[s].pc = "idle" /\ ~mgr[s].hung /\ mgr[s].removing = 0

(* Runtime commands are executed only in active mode. *)
Commandable(s) ==
    /\ main[s].phase = "run" /\ main[s].ha = "ACTIVE"
    /\ InLoop(s)

(* ha_remove_node_impl at the request of an administrator: the rows are     *)
(* read without locking them ...                                            *)
RemoveNode(s, n) ==
    /\ Commandable(s)
    /\ \/ /\ dbUp[s]
          /\ n \in Rows /\ row[n].status \notin {"ACTIVE", "STANDBY"}
          /\ mgr' = [mgr EXCEPT ![s].dbok = TRUE, ![s].removing = row[n].id]
       \/ /\ ~dbUp[s]
          /\ mgr' = [mgr EXCEPT ![s].dbok = FALSE]
    /\ Fault("remove")
    /\ UNCHANGED <<nameOf, now, cfgDelay, row, nextId, dbUp, main, rtc>>

(* ... and the row is deleted, whatever has become of it in the meantime. *)
DeleteNode(s) ==
    /\ mgr[s].removing # 0
    /\ row' = IF dbUp[s] THEN [n \in Name |-> IF row[n].id = mgr[s].removing THEN NoRow ELSE row[n]]
              ELSE row
    /\ mgr' = [mgr EXCEPT ![s].dbok = dbUp[s], ![s].removing = 0]
    /\ UNCHANGED <<nameOf, now, cfgDelay, nextId, dbUp, main, rtc, faults, calm>>

(* ha_set_failover_delay and the update sent after it. *)
(* Mutant: the main process is not told. *)
SetFailoverDelayQuiet(s, d) ==
    /\ Commandable(s) /\ d # cfgDelay
    /\ mgr[s].dbok /\ dbUp[s]
    /\ cfgDelay' = d
    /\ mgr' = [mgr EXCEPT ![s].fd = d]
    /\ Fault("delay")
    /\ UNCHANGED <<nameOf, now, row, nextId, dbUp, main, rtc>>

SetFailoverDelay(s, d) ==
    /\ Commandable(s) /\ d # cfgDelay
    /\ LET ok == mgr[s].dbok /\ dbUp[s]
           fd == IF ok THEN d ELSE mgr[s].fd
       IN /\ cfgDelay' = IF ok THEN d ELSE cfgDelay
          /\ mgr' = [mgr EXCEPT ![s].fd = fd, ![s].dbok = ok]
          /\ rtc' = [rtc EXCEPT ![s] = Post(@, Update(mgr[s].st, fd))]
    /\ Fault("delay")
    /\ UNCHANGED <<nameOf, now, row, nextId, dbUp, main>>

(* A second of the pause loop: every poll period ha_db_update_lastaccess. *)
PauseTick(s) ==
    LET m == mgr[s]
        write == m.wait = 1 /\ m.st \in {"STANDBY", "ACTIVE"}
    IN /\ m.pc = "pause" /\ ~m.ticked
       /\ row' = IF write /\ dbUp[s]
                 THEN WriteOwn(m.nodeid, [k \in Name |-> [row[k] EXCEPT !.lastaccess = now]])
                 ELSE row
       /\ mgr' = [mgr EXCEPT ![s].wait = IF @ <= 1 THEN Poll ELSE @ - 1, ![s].ticked = TRUE,
                             ![s].dbok = IF write THEN dbUp[s] ELSE @]
       /\ UNCHANGED <<nameOf, now, cfgDelay, nextId, dbUp, main, rtc, faults, calm>>

-----------------------------------------------------------------------------
(* The main process. *)

(* The server starts with a new session and its manager registers it. *)
Start(s) ==
    /\ main[s].phase = "off" /\ main[s].inc < MaxStarts
    /\ main' = [main EXCEPT ![s] = [NoMain EXCEPT !.phase = "boot", !.inc = main[s].inc + 1,
                                                     !.busy = ServiceTimeout]]
    /\ mgr' = [mgr EXCEPT ![s] = NewManager("boot", "UNKNOWN", 0)]
    /\ rtc' = [rtc EXCEPT ![s] = <<>>]
    /\ calm' = now
    /\ UNCHANGED <<nameOf, now, cfgDelay, row, nextId, dbUp, faults>>

Down(s) ==
    /\ main' = [main EXCEPT ![s] = [NoMain EXCEPT !.inc = main[s].inc]]
    /\ mgr' = [mgr EXCEPT ![s] = NewManager("off", "UNKNOWN", 0)]
    /\ rtc' = [rtc EXCEPT ![s] = <<>>]

(* zbx_ha_kill and zbx_ha_start in standby mode, in server_teardown and     *)
(* server_restart_ha; zbx_ha_start drops what the old manager had sent.     *)
RestartManager(s) ==
    /\ mgr' = [mgr EXCEPT ![s] = NewManager("idle", "STANDBY", 3 * Poll)]
    /\ rtc' = [rtc EXCEPT ![s] = <<>>]

(* zbx_ha_get_status: a manager in its loop answers at once; when there is  *)
(* no answer in time the caller continues in standby mode.                  *)
Answers(s) == InLoop(s) \/ mgr[s].pc = "pause"
StatusReply(s) == IF Answers(s) THEN [ha |-> mgr[s].st, fd |-> mgr[s].fd]
                  ELSE [ha |-> "STANDBY", fd |-> main[s].fd]

(* server_startup begins; the time it will take is chosen here. *)
BeginStartup(s, m) ==
    \E d \in 0 .. MaxStartup : main' = [main EXCEPT ![s] = [m EXCEPT !.phase = "startup", !.busy = d]]

(* server_startup ends with another look at the manager's status. *)
StartupDone(s) ==
    /\ main[s].phase = "startup" /\ main[s].busy = 0
    /\ main' = [main EXCEPT ![s].phase = "asking", ![s].busy = ServiceTimeout]
    /\ UNCHANGED <<nameOf, now, cfgDelay, row, nextId, dbUp, mgr, rtc, faults, calm>>

(* The status obtained after the start of the server, which may begin a     *)
(* startup, or after a startup, which may have to be torn down again.       *)
ObtainStatus(s) ==
    LET a == StatusReply(s)
        booting == main[s].phase = "boot"
        m == [main[s] EXCEPT !.phase = "run", !.ha = a.ha, !.old = a.ha, !.fd = a.fd, !.busy = 0]
    IN /\ main[s].phase \in {"boot", "asking"}
       /\ Answers(s) \/ main[s].busy = 0
       /\ \/ a.ha = "ERROR" /\ Down(s)
          \/ a.ha = "ACTIVE" /\ booting /\ BeginStartup(s, m) /\ UNCHANGED <<mgr, rtc>>
          \/ a.ha = "ACTIVE" /\ ~booting /\ main' = [main EXCEPT ![s] = m] /\ UNCHANGED <<mgr, rtc>>
          \/ /\ a.ha \notin {"ERROR", "ACTIVE"}
             /\ main' = [main EXCEPT ![s] = m]
             /\ IF booting THEN UNCHANGED <<mgr, rtc>> ELSE RestartManager(s)
       /\ UNCHANGED <<nameOf, now, cfgDelay, row, nextId, dbUp, faults, calm>>

(* Mutant: the poll period is not subtracted. *)
SilentLate(hb, fd) == hb # 0 /\ hb + fd <= now

(* No heartbeat for failover delay - poll period seconds; 0 is never. *)
Silent(hb, fd) == hb # 0 /\ hb + fd <= now + Poll

(* zbx_ha_dispatch_message on main process m. *)
Dispatch(m, msg) ==
    LET ha == IF msg.code = "STATUS" THEN msg.st ELSE m.ha
        fd == IF msg.code = "STATUS" THEN msg.fd ELSE m.fd
        hb == IF msg.code = "HEARTBEAT" \/ ha # m.ha THEN now ELSE m.hb
    IN IF ha = "ERROR" THEN [m EXCEPT !.ha = ha, !.fd = fd]
       ELSE IF Silent(hb, fd) THEN [m EXCEPT !.fd = fd, !.hb = 0,
                                     !.ha = IF ha = "ACTIVE" THEN "STANDBY" ELSE "HATIMEOUT"]
       ELSE [m EXCEPT !.ha = ha, !.fd = fd, !.hb = hb]

(* One round of the main loop: the next message, or none within a second,   *)
(* and what the status that results from it asks for.                       *)
MainLoop(s) ==
    LET none == rtc[s] = <<>>
        d == [Dispatch(main[s], IF none THEN NoMessage ELSE Head(rtc[s])) EXCEPT !.polled = TRUE]
        rest == [rtc EXCEPT ![s] = IF none THEN <<>> ELSE Tail(@)]
        switch == d.ha \notin {"UNKNOWN", d.old}
    IN /\ main[s].phase = "run"
       /\ none => ~main[s].polled
       /\ \/ d.ha = "ERROR" /\ Down(s)
          \/ /\ d.ha = "HATIMEOUT"
             /\ main' = [main EXCEPT ![s] = [d EXCEPT !.ha = "STANDBY"]]
             /\ RestartManager(s)
          \/ /\ d.ha = "ACTIVE" /\ switch
             /\ BeginStartup(s, [d EXCEPT !.old = d.ha])
             /\ rtc' = rest
             /\ UNCHANGED mgr
          \/ /\ d.ha = "STANDBY" /\ switch
             /\ main' = [main EXCEPT ![s] = [d EXCEPT !.old = d.ha]]
             /\ RestartManager(s)
          \/ /\ d.ha \notin {"ERROR", "HATIMEOUT"} /\ ~switch
             /\ main' = [main EXCEPT ![s] = d]
             /\ rtc' = rest
             /\ UNCHANGED mgr
       /\ UNCHANGED <<nameOf, now, cfgDelay, row, nextId, dbUp, faults, calm>>

(* A termination signal: zbx_ha_pause, then the processes finish their work. *)
Stop(s) ==
    /\ main[s].phase = "run" /\ InLoop(s)
    /\ main' = [main EXCEPT ![s].phase = "stopping"]
    /\ mgr' = [mgr EXCEPT ![s].pc = "pause", ![s].wait = Poll]
    /\ Fault("stop")
    /\ UNCHANGED <<nameOf, now, cfgDelay, row, nextId, dbUp, rtc>>

(* zbx_ha_stop: the manager touches the row once more, then writes the exit *)
(* status (ha_db_update_exit_status) and both processes end.                *)
Stopped(s) ==
    LET m == mgr[s] IN
    /\ main[s].phase = "stopping"
    /\ row' = IF dbUp[s] /\ m.st \in {"ACTIVE", "STANDBY"}
              THEN WriteOwn(m.nodeid, [k \in Name |-> [row[k] EXCEPT !.status = "STOPPED", !.lastaccess = now]])
              ELSE row
    /\ Down(s)
    /\ calm' = now
    /\ UNCHANGED <<nameOf, now, cfgDelay, nextId, dbUp, faults>>

-----------------------------------------------------------------------------
(* The environment. *)

(* All processes of a server die; also the end of a server one of whose     *)
(* processes died (waitpid in the main loop).                               *)
Crash(s) ==
    /\ main[s].phase # "off" /\ Fault("crash")
    /\ Down(s)
    /\ UNCHANGED <<nameOf, now, cfgDelay, row, nextId, dbUp>>

(* The manager of s acts as that of the active node. *)
Leading(s) == mgr[s].st = "ACTIVE" /\ mgr[s].pc = "idle"

(* From the moment at which the manager is active until its main process    *)
(* has started the server and caught up with it: heartbeats of earlier      *)
(* seconds may be waiting for the main process.                             *)
Starting(s) ==
    /\ Leading(s)
    /\ main[s].phase = "run" /\ main[s].old = "ACTIVE" =>
          ~mgr[s].ticked /\ (rtc[s] # <<>> \/ main[s].hb = now)

(* What strikes a server in the middle of its start is a kind of its own. *)
Kind(s, kind) == IF Starting(s) THEN "startup" ELSE kind

LoseDatabase(s) ==
    /\ dbUp[s] /\ Fault(Kind(s, "database"))
    /\ dbUp' = [dbUp EXCEPT ![s] = FALSE]
    /\ UNCHANGED <<nameOf, now, cfgDelay, row, nextId, mgr, main, rtc>>

RestoreDatabase(s) ==
    /\ ~dbUp[s]
    /\ dbUp' = [dbUp EXCEPT ![s] = TRUE]
    /\ calm' = now
    /\ UNCHANGED <<nameOf, now, cfgDelay, row, nextId, mgr, main, rtc, faults>>

(* The manager hangs in the database call it is about to make, until the    *)
(* transaction is made after all.                                           *)
Hang(s) ==
    /\ Ready(s, "boot") \/ Ready(s, "register") \/ CheckDue(s)
    /\ ~mgr[s].hung /\ Fault(Kind(s, mgr[s].pc))
    /\ mgr' = [mgr EXCEPT ![s].hung = TRUE]
    /\ UNCHANGED <<nameOf, now, cfgDelay, row, nextId, dbUp, main, rtc>>

(* The second ends when every process has had its turn. *)
TurnTaken(s) ==
    \/ main[s].phase = "off"
    \/ /\ mgr[s].ticked \/ mgr[s].hung
       /\ mgr[s].removing = 0
       /\ CASE main[s].phase = "run"                -> main[s].polled /\ rtc[s] = <<>>
            [] main[s].phase = "startup"            -> main[s].busy > 0
            [] main[s].phase \in {"boot", "asking"} -> main[s].busy > 0 /\ ~Answers(s)
            [] main[s].phase = "stopping"           -> TRUE

Second ==
    /\ \A s \in Server : TurnTaken(s)
    /\ now' = now + 1
    /\ mgr' = [s \in Server |-> [mgr[s] EXCEPT !.ticked = FALSE]]
    /\ main' = [s \in Server |-> [main[s] EXCEPT !.polled = FALSE, !.busy = IF @ = 0 THEN 0 ELSE @ - 1]]
    /\ UNCHANGED <<nameOf, cfgDelay, row, nextId, dbUp, rtc, faults, calm>>

ManagerStep(s) == MgrTick(s) \/ CreateNode(s) \/ RegisterNode(s) \/ CheckNodes(s) \/ PauseTick(s)
MainStep(s) == Start(s) \/ StartupDone(s) \/ ObtainStatus(s) \/ MainLoop(s) \/ Stop(s) \/ Stopped(s)
Request(s) == (\E n \in Name : RemoveNode(s, n)) \/ DeleteNode(s) \/ (\E d \in Delays : SetFailoverDelay(s, d))
Environment(s) == Crash(s) \/ LoseDatabase(s) \/ RestoreDatabase(s) \/ Hang(s)

Next ==
    \/ \E s \in Server : ManagerStep(s) \/ MainStep(s) \/ Request(s) \/ Environment(s)
    \/ Second

Spec == Init /\ [][Next]_vars

-----------------------------------------------------------------------------
Row == [status : RowStatus, lastaccess : Nat, sess : Session, id : Nat]
Manager == [pc : {"off", "boot", "register", "idle", "pause"}, st : Status, nodeid : Nat,
            dbok : BOOLEAN, fd : Delays, seen : Nat, off : Nat,
            wait : 0 .. 3 * Poll, ticked : BOOLEAN, hung : BOOLEAN, removing : Nat]
MainProcess == [phase : {"off", "boot", "startup", "asking", "run", "stopping"},
                ha : Status, old : Status, hb : Nat, fd : Delays,
                busy : Nat, polled : BOOLEAN, inc : 0 .. MaxStarts]
Message == {Update(st, fd) : st \in Status, fd \in Delays} \cup {Heartbeat}

(* The ha_node table, the managers and the main processes keep their types; *)
(* in particular a pause never exceeds three poll periods.                  *)
TypeOK ==
    /\ nameOf \in Naming /\ now \in Nat /\ cfgDelay \in Delays
    /\ row \in [Name -> Row] /\ nextId \in Nat \ {0}
    /\ dbUp \in [Server -> BOOLEAN]
    /\ mgr \in [Server -> Manager] /\ main \in [Server -> MainProcess]
    /\ rtc \in [Server -> Seq(Message)]
    /\ faults \in 0 .. MaxFaults /\ calm \in Nat

(* The server's working processes run. *)
Serving(s) == main[s].old = "ACTIVE" /\ main[s].phase \in {"startup", "asking", "run"}

(* At any time at most one server of the cluster serves: the main process   *)
(* that lost its manager's heartbeats stops before another node takes over. *)
AtMostOneActive == \A s, t \in Server : Serving(s) /\ Serving(t) => s = t

(* Whoever serves holds a lease: the row is its own and was accessed within *)
(* the failover delay, whatever the database, the manager and the heartbeat *)
(* timer of zbx_ha_dispatch_message have been through.                      *)
LeaseHeld ==
    \A s \in Server : Serving(s) =>
        /\ row[nameOf[s]].sess = Sess(s)
        /\ now <= row[nameOf[s]].lastaccess + cfgDelay

(* An active node is declared unavailable, by a standby node's tick count   *)
(* or by the database clock, only after it has been unavailable for         *)
(* failover_delay seconds (comment of ha_check_active_node).                *)
TakeoverAfterDelay ==
    [][\A n \in Name : row[n].status = "ACTIVE" /\ row'[n].status = "UNAVAILABLE"
                       => now >= row[n].lastaccess + cfgDelay]_vars

(* What makes TypeOK inductive, for every cluster: a manager in its loop    *)
(* has one of three states, and a process that runs has a session.          *)
StatesOK(s) ==
    /\ mgr[s].pc = "idle" => mgr[s].st \in {"UNKNOWN", "STANDBY", "ACTIVE"}
    /\ mgr[s].pc \in {"boot", "register"} => mgr[s].st = "UNKNOWN"
    /\ mgr[s].pc = "off" <=> main[s].phase = "off"
    /\ main[s].phase # "off" => main[s].inc > 0

TypeInv == TypeOK /\ \A s \in Server : StatesOK(s)

(* The clusters for which the lease is a theorem: node names differ, and of *)
(* what may go wrong the cases that break the count of offline ticks or the *)
(* first registration are left out.  A startup may take any time, but then  *)
(* a server must not lose the database, nor its manager hang, before it     *)
(* has come to its end; where every startup ends before the next check is   *)
(* due, it may.                                                             *)
Prompt == MaxStartup + 2 <= Poll

Orderly ==
    /\ \A f \in Naming : \A s, t \in Server : f[s] = f[t] => s = t
    /\ ServiceTimeout > 0
    /\ FaultKinds \subseteq {"idle", "startup", "database", "crash", "stop", "remove"}
    /\ Prompt \/ "startup" \notin FaultKinds

(* Ids of rows are unique, and at most one row is active. *)
RowInv ==
    /\ now > 0
    /\ \A n \in Name : /\ row[n].id = 0 <=> row[n] = NoRow
                       /\ row[n].id < nextId /\ row[n].lastaccess <= now
                       /\ row[n].id # 0 => row[n].lastaccess > 0
    /\ \A n, k \in Name : row[n].id = row[k].id /\ row[n].id # 0 => n = k
    /\ \A n, k \in Name : row[n].status = "ACTIVE" /\ row[k].status = "ACTIVE" => n = k

(* A manager knows the id of its own row only, and removes only others. *)
KnowsId(s) ==
    LET id == mgr[s].nodeid
    IN /\ id < nextId /\ (id # 0 => mgr[s].fd = cfgDelay)
       /\ \A n \in Name : row[n].id = id /\ id # 0 => n = nameOf[s]
       /\ id # 0 /\ row[nameOf[s]] # NoRow => row[nameOf[s]].id = id
       /\ mgr[s].removing # 0 => Leading(s) /\ ~mgr[s].hung /\ mgr[s].removing # id

Untick(m) == IF m.ticked THEN 0 ELSE 1
OfflineUntil(m) == m.seen + m.off * Poll + Poll

(* Where a manager is, and that it counts at most one offline tick in a    *)
(* poll period: when the next check is due, the node that it saw last has  *)
(* been offline for one period more than it has counted.                   *)
ManagerOK(s) ==
    LET m == mgr[s]
    IN /\ m.hung => m.pc = "idle" /\ m.wait = 1 /\ ~m.ticked
       /\ m.pc \in {"boot", "register"} =>
             /\ ~m.ticked /\ rtc[s] = << >>
             /\ IF main[s].phase = "boot" THEN m.wait = 0 ELSE m.wait = 1 /\ m.pc = "register"
       /\ m.pc = "register" => m.nodeid # 0
       /\ m.pc = "pause" => main[s].phase = "stopping" \/ m.st = "ERROR"
       /\ m.wait = 0 => m.pc \in {"off", "boot", "register"} /\ m.seen = 0 /\ m.off = 0
       /\ m.pc \in {"idle", "register"} /\ m.wait # 0
             => OfflineUntil(m) + Untick(m) <= now + m.wait

Running(s) == main[s].phase \in {"startup", "asking", "run"}

(* Where a main process is. *)
MainOK(s) ==
    LET p == main[s]
    IN /\ p.phase = "boot" => /\ p.busy > 0 /\ p.ha = "UNKNOWN" /\ p.old = "UNKNOWN" /\ p.hb = 0
                              /\ mgr[s].pc \in {"idle", "pause"} => mgr[s].ticked
       /\ p.phase \in {"startup", "asking"} => p.old = "ACTIVE" /\ ~mgr[s].hung
       /\ Serving(s) => Leading(s)
       /\ p.phase = "stopping" => mgr[s].pc = "pause"
       /\ Running(s) => p.ha \in {"UNKNOWN", "STANDBY", "ACTIVE"} /\ (p.ha = "ACTIVE" <=> p.old = "ACTIVE")

(* Only the first message may be a change of status, to the manager's      *)
(* present one; a main loop that is not serving has read all messages of   *)
(* earlier seconds.                                                        *)
MessagesOK(s) ==
    /\ \A k \in DOMAIN rtc[s] : rtc[s][k] # Heartbeat =>
          /\ k = 1 /\ rtc[s][k] = Update(mgr[s].st, mgr[s].fd)
          /\ main[s].phase \in {"run", "stopping"} /\ ~Serving(s)
    /\ main[s].phase = "run" /\ rtc[s] # << >> => mgr[s].ticked \/ Serving(s)

(* The access to the row is due, after a long startup, and nothing keeps    *)
(* the manager from it.                                                     *)
CheckNow(s) ==
    /\ ~Prompt /\ now = row[nameOf[s]].lastaccess + Poll
    /\ dbUp[s] /\ ~mgr[s].ticked /\ ~mgr[s].hung

(* The active manager owns the active row; a check is due within a poll    *)
(* period of the last access to the row, and no heartbeat is sent when it  *)
(* is missed; a heartbeat is waiting until the server has started; the     *)
(* last heartbeat that the main process has counted is not so old that it  *)
(* should have stopped.                                                    *)
LeaderOK(s) ==
    LET m == mgr[s]
        p == main[s]
        r == row[nameOf[s]]
    IN Leading(s) =>
       /\ m.nodeid # 0 /\ r.id = m.nodeid /\ r.status = "ACTIVE" /\ r.sess = Sess(s)
       /\ m.wait > 1 => now + m.wait <= r.lastaccess + Poll + Untick(m)
       /\ r.lastaccess + Poll + Untick(m) <= now + m.wait + 1
       /\ rtc[s] # << >> => now + 1 <= r.lastaccess + Poll \/ CheckNow(s)
       /\ p.phase = "boot" => now = r.lastaccess /\ rtc[s] # << >>
       /\ p.phase = "run" /\ p.old # "ACTIVE" =>
             now = r.lastaccess /\ Len(rtc[s]) > 1 /\ rtc[s][1] = Update("ACTIVE", cfgDelay)
       /\ p.phase \in {"startup", "asking"} => rtc[s] # << >>
       /\ p.phase = "startup" /\ Prompt => now + p.busy <= r.lastaccess + MaxStartup
       /\ p.phase = "asking" /\ Prompt => now <= r.lastaccess + MaxStartup
       /\ ~(p.phase = "run" /\ p.old = "ACTIVE") => Prompt \/ dbUp[s]
       /\ Serving(s) => p.fd = cfgDelay
       /\ p.phase = "run" /\ p.old = "ACTIVE" /\ rtc[s] = << >> =>
             /\ p.hb # 0 /\ (p.hb + 1 <= r.lastaccess + Poll \/ (p.hb = now /\ CheckNow(s)))
             /\ now + Poll + (IF p.polled THEN 1 ELSE 0) <= p.hb + cfgDelay

ServerInv(s) == KnowsId(s) /\ ManagerOK(s) /\ MainOK(s) /\ MessagesOK(s) /\ LeaderOK(s)

(* The inductive invariant behind the lease. *)
LeaseInv == TypeInv /\ RowInv /\ \A s \in Server : ServerInv(s)

Healthy(s) == main[s].phase \notin {"off", "stopping"} /\ dbUp[s] /\ ~mgr[s].hung
RecoveryBound == 2 * cfgDelay + 4 * Poll

(* Failover happens: a cluster with a healthy server has a serving one      *)
(* before the recovery bound has passed since the last fault.               *)
RecoveryBounded ==
    /\ \E s \in Server : Healthy(s)
    /\ \A s \in Server : main[s].phase # "stopping"
    /\ now - calm >= RecoveryBound
    => \E s \in Server : Serving(s)

(* A server whose manager has registered it as active is switched to active *)
(* mode ("immediately switch to active mode if there is no other node that  *)
(* can take over", ha_check_cluster_config).                                *)
ActivatedServes ==
    \A s \in Server : mgr[s].st = "ACTIVE" /\ Healthy(s) /\ now - calm >= RecoveryBound => Serving(s)
=============================================================================
