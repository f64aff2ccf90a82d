----------------------------- MODULE MCHaManager -----------------------------
(***************************************************************************)
(* Instances of HaManager with scaled-down periods.  The clock is not      *)
(* bounded: states that differ only in when they happen are identified by  *)
(* the view.  It keeps what an action can tell apart: ages up to the       *)
(* largest number of seconds any guard or property compares one with, and  *)
(* which of the remembered times are equal.                                *)
(***************************************************************************)
EXTENDS HaManager, TLC

CONSTANTS s1, s2, n1, n2

TwoNodes == s1 :> n1 @@ s2 :> n2
SameName == s1 :> n1 @@ s2 :> n1

Distinct == {TwoNodes}
DistinctOrSame == {TwoNodes, SameName}

Age(t, cap) == IF now - t < cap THEN now - t ELSE cap
LongestDelay == CHOOSE d \in Delays : \A e \in Delays : e <= d

View ==
    << nameOf, cfgDelay, nextId, dbUp, rtc, faults,
       [n \in Name |-> [row[n] EXCEPT !.lastaccess = Age(@, LongestDelay + 1)]],
       {<<n, k>> \in Name \X Name : row[n].lastaccess = row[k].lastaccess},
       {<<s, n>> \in Server \X Name : mgr[s].seen = row[n].lastaccess},
       [s \in Server |-> [mgr[s] EXCEPT !.seen = 0]],
       [s \in Server |-> [main[s] EXCEPT !.hb = IF @ = 0 THEN <<>> ELSE <<Age(@, LongestDelay)>>]] >>

RecoveryView == <<View, Age(calm, RecoveryBound)>>
=============================================================================
