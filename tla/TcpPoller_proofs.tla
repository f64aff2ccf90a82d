-------------------------- MODULE TcpPoller_proofs --------------------------
(***************************************************************************)
(* Proofs about TcpPoller, for any items, connections, addresses and       *)
(* limits: the contention table never counts below zero, and an item with  *)
(* an address has its connection to itself.                                *)
(***************************************************************************)
EXTENDS TcpPoller, FiniteSetTheorems, TLAPS

Table == [Key -> Nat]

(* What the entries are. *)
LEMMA EntriesAre ==
    ASSUME NEW f
    PROVE  \A x : x \in Entries(f) <=> \E j \in Key, n \in Nat : x = <<j, n>> /\ n \in 1 .. f[j]
<1>1. ASSUME NEW x \in Entries(f) PROVE \E j \in Key, n \in Nat : x = <<j, n>> /\ n \in 1 .. f[j]
  <2>1. PICK j \in Key : x \in {j} \X (1 .. f[j])
    BY <1>1 DEF Entries
  <2>2. PICK n \in 1 .. f[j] : x = <<j, n>>
    BY <2>1
  <2>3. n \in Nat
    BY <2>2
  <2> QED
    BY <2>1, <2>2, <2>3
<1>2. ASSUME NEW j \in Key, NEW n \in 1 .. f[j] PROVE <<j, n>> \in Entries(f)
    BY <1>2 DEF Entries
<1> QED
    BY <1>1, <1>2

(* One more session in the table. *)
LEMMA EntriesAdd ==
    ASSUME NEW f \in Table, NEW k \in Key, IsFiniteSet(Entries(f))
    PROVE  LET g == [f EXCEPT ![k] = @ + 1]
           IN IsFiniteSet(Entries(g)) /\ Total(g) = Total(f) + 1
<1> DEFINE g == [f EXCEPT ![k] = @ + 1]
           e == <<k, f[k] + 1>>
<1>1. /\ f[k] \in Nat /\ g[k] = f[k] + 1
      /\ \A j \in Key : f[j] \in Nat /\ (j # k => g[j] = f[j])
    BY DEF Table
<1>2. e \notin Entries(f)
    BY <1>1, EntriesAre
<1>3. Entries(g) = Entries(f) \cup {e}
  <2>1. ASSUME NEW x \in Entries(g) PROVE x \in Entries(f) \cup {e}
    <3>1. PICK j \in Key, n \in Nat : x = <<j, n>> /\ n \in 1 .. g[j]
      BY <2>1, EntriesAre
    <3>2. CASE j = k /\ n = f[k] + 1
      BY <3>1, <3>2
    <3>3. CASE ~(j = k /\ n = f[k] + 1)
      <4>1. n \in 1 .. f[j]
        BY <1>1, <3>1, <3>3
      <4> QED
        BY <3>1, <4>1, EntriesAre
    <3> QED
      BY <3>2, <3>3
  <2>2. ASSUME NEW x \in Entries(f) \cup {e} PROVE x \in Entries(g)
    <3>1. PICK j \in Key, n \in Nat : x = <<j, n>> /\ n \in 1 .. g[j]
      <4>1. CASE x = e
        BY <1>1, <4>1
      <4>2. CASE x \in Entries(f)
        <5>1. PICK j \in Key, n \in Nat : x = <<j, n>> /\ n \in 1 .. f[j]
          BY <4>2, EntriesAre
        <5>2. n \in 1 .. g[j]
          BY <1>1, <5>1
        <5> QED
          BY <5>1, <5>2
      <4> QED
        BY <2>2, <4>1, <4>2
    <3> QED
      BY <3>1, EntriesAre
  <2> QED
    BY <2>1, <2>2
<1>4. /\ IsFiniteSet(Entries(f) \cup {e})
      /\ Cardinality(Entries(f) \cup {e}) = Cardinality(Entries(f)) + 1
    BY <1>2, FS_AddElement
<1> QED
    BY <1>3, <1>4 DEF Total

(* A table that counts no more at any key. *)
LEMMA EntriesSubset ==
    ASSUME NEW f \in Table, NEW g \in Table, IsFiniteSet(Entries(f)), \A k \in Key : g[k] <= f[k]
    PROVE  /\ IsFiniteSet(Entries(g)) /\ Total(g) \in Nat /\ Total(f) \in Nat
           /\ Total(g) <= Total(f)
<1>1. ASSUME NEW x \in Entries(g) PROVE x \in Entries(f)
  <2>1. PICK j \in Key, n \in Nat : x = <<j, n>> /\ n \in 1 .. g[j]
    BY <1>1, EntriesAre
  <2>2. n \in 1 .. f[j]
    BY <2>1 DEF Table
  <2> QED
    BY <2>1, <2>2, EntriesAre
<1>2. Entries(g) \in SUBSET Entries(f)
    BY <1>1
<1>3. IsFiniteSet(Entries(g)) /\ Cardinality(Entries(g)) <= Cardinality(Entries(f))
    BY <1>2, FS_Subset
<1> QED
    BY <1>3, FS_CardinalityType DEF Total

(* A session that ends. *)
LEMMA EntriesRemove ==
    ASSUME NEW f \in Table, NEW k \in Key, IsFiniteSet(Entries(f)), f[k] > 0
    PROVE  LET g == [f EXCEPT ![k] = @ - 1]
           IN IsFiniteSet(Entries(g)) /\ Total(g) \in Nat /\ Total(g) = Total(f) - 1
<1> DEFINE g == [f EXCEPT ![k] = @ - 1]
<1>1. g \in Table /\ g[k] = f[k] - 1 /\ f[k] \in Nat /\ \A j \in Key : g[j] <= f[j]
    BY DEF Table
<1>2. IsFiniteSet(Entries(g)) /\ Total(g) \in Nat /\ Total(f) \in Nat
    BY <1>1, EntriesSubset
<1>3. f = [g EXCEPT ![k] = @ + 1]
  <2>1. g[k] + 1 = f[k] /\ f = [j \in Key |-> f[j]]
    BY <1>1 DEF Table
  <2>2. [g EXCEPT ![k] = @ + 1] = [j \in Key |-> IF j = k THEN g[k] + 1 ELSE g[j]]
    BY <1>1 DEF Table
  <2>3. \A j \in Key : f[j] = IF j = k THEN g[k] + 1 ELSE g[j]
    BY <2>1
  <2> QED
    BY <2>1, <2>2, <2>3
<1>4. Total(f) = Total(g) + 1
    BY <1>1, <1>2, <1>3, EntriesAdd
<1> QED
    BY <1>2, <1>4

(* An address that is forgotten with all its sessions. *)
LEMMA EntriesDrop ==
    ASSUME NEW f \in Table, NEW k \in Key, IsFiniteSet(Entries(f))
    PROVE  LET g == [f EXCEPT ![k] = 0]
           IN /\ IsFiniteSet(Entries(g)) /\ Total(g) \in Nat
              /\ Total(g) = Total(f) - f[k]
<1> DEFINE g == [f EXCEPT ![k] = 0]
           D == {k} \X (1 .. f[k])
<1>1. g \in Table /\ g[k] = 0 /\ f[k] \in Nat /\ \A j \in Key : j # k => g[j] = f[j]
    BY DEF Table
<1>2. IsFiniteSet(Entries(g)) /\ Total(g) \in Nat /\ Total(f) \in Nat
  <2>1. \A j \in Key : g[j] <= f[j]
    BY <1>1 DEF Table
  <2> QED
    BY <1>1, <2>1, EntriesSubset
<1>3. IsFiniteSet(D) /\ Cardinality(D) = f[k]
  <2>1. IsFiniteSet(1 .. f[k]) /\ Cardinality(1 .. f[k]) = f[k]
    BY <1>1, FS_Interval
  <2>2. IsFiniteSet({k}) /\ Cardinality({k}) = 1
    BY FS_Singleton
  <2>3. IsFiniteSet(D) /\ Cardinality(D) = 1 * f[k]
    BY <2>1, <2>2, FS_Product, ZenonT(60)
  <2> QED
    BY <1>1, <2>3
<1>4. Entries(g) \cap D = {}
  <2> SUFFICES ASSUME NEW x \in Entries(g) PROVE x \notin D
    OBVIOUS
  <2>1. PICK j \in Key, n \in Nat : x = <<j, n>> /\ n \in 1 .. g[j]
    BY EntriesAre
  <2>2. j # k
    BY <1>1, <2>1
  <2> QED
    BY <2>1, <2>2
<1>5. Entries(f) = Entries(g) \cup D
  <2>1. ASSUME NEW x \in Entries(f) PROVE x \in Entries(g) \cup D
    <3>1. PICK j \in Key, n \in Nat : x = <<j, n>> /\ n \in 1 .. f[j]
      BY <2>1, EntriesAre
    <3>2. CASE j = k
      BY <3>1, <3>2
    <3>3. CASE j # k
      BY <1>1, <3>1, <3>3, EntriesAre
    <3> QED
      BY <3>2, <3>3
  <2>2. ASSUME NEW x \in D PROVE x \in Entries(f)
    BY <2>2, EntriesAre
  <2>3. ASSUME NEW x \in Entries(g) PROVE x \in Entries(f)
    <3>1. PICK j \in Key, n \in Nat : x = <<j, n>> /\ n \in 1 .. g[j]
      BY <2>3, EntriesAre
    <3>2. j # k
      BY <1>1, <3>1
    <3> QED
      BY <1>1, <3>1, <3>2, EntriesAre
  <2> QED
    BY <2>1, <2>2, <2>3
<1>6. Cardinality(Entries(g) \cup D) = Cardinality(Entries(g)) + Cardinality(D) - Cardinality({})
  <2>1. Cardinality(Entries(g) \cup D)
           = Cardinality(Entries(g)) + Cardinality(D) - Cardinality(Entries(g) \cap D)
    BY ONLY <1>2, <1>3, FS_Union
  <2> QED
    BY <1>4, <2>1
<1>7. Total(f) = Total(g) + f[k]
  <2>1. Cardinality({}) = 0
    BY FS_EmptySet
  <2> QED
    BY <1>1, <1>2, <1>3, <1>5, <1>6, <2>1 DEF Total
<1> QED
    BY <1>1, <1>2, <1>7

(* The empty table. *)
LEMMA EntriesNone == IsFiniteSet(Entries(All(Key, 0))) /\ Total(All(Key, 0)) = 0
<1>1. ASSUME NEW x \in Entries(All(Key, 0)) PROVE FALSE
  <2>1. PICK j \in Key, n \in Nat : x = <<j, n>> /\ n \in 1 .. All(Key, 0)[j]
    BY <1>1, EntriesAre
  <2>2. All(Key, 0)[j] = 0
    BY DEF All
  <2> QED
    BY <2>1, <2>2
<1>2. Entries(All(Key, 0)) = {}
    BY <1>1
<1> QED
    BY <1>2, FS_EmptySet DEF Total

-----------------------------------------------------------------------------
(* What the operations of poller_contention.c do to a table that is        *)
(* covered by its total.                                                   *)

(* poller_contention_add_session *)
LEMMA AddSessionOK ==
    ASSUME NEW k \in Key, NEW cnt, NEW total, Covers(total, cnt), AddSession(k, cnt, total),
           age \in [Key -> 0 .. UnreachableDelay + 1]
    PROVE  Covers(sessions', count') /\ age' \in [Key -> 0 .. UnreachableDelay + 1]
<1>1. cnt \in Table /\ IsFiniteSet(Entries(cnt)) /\ total \in Nat /\ total >= Total(cnt)
    BY DEF Covers, Table
<1>2. IsFiniteSet(Entries(count')) /\ Total(count') = Total(cnt) + 1
    BY <1>1, EntriesAdd DEF AddSession
<1>3. Total(cnt) \in Nat
    BY <1>1, FS_CardinalityType DEF Total
<1>4. count' \in [Key -> Nat] /\ sessions' = total + 1
    BY <1>1 DEF AddSession, Table
<1>5. age' \in [Key -> 0 .. UnreachableDelay + 1]
    BY TcpAssumption DEF AddSession
<1> QED
    BY <1>1, <1>2, <1>3, <1>4, <1>5 DEF Covers

(* poller_contention_get_sessions *)
LEMMA AfterGetOK ==
    ASSUME NEW k \in Key, Covers(sessions, count)
    PROVE  Covers(SessionsAfterGet(k), CountAfterGet(k))
<1>1. /\ count \in Table /\ IsFiniteSet(Entries(count)) /\ sessions \in Nat /\ sessions >= Total(count)
      /\ count[k] \in Nat
    BY DEF Covers, Table
<1>2. CASE Outdated(k)
  <2> DEFINE g == [count EXCEPT ![k] = 0]
  <2>1. IsFiniteSet(Entries(g)) /\ Total(g) \in Nat /\ Total(g) = Total(count) - count[k]
    BY <1>1, EntriesDrop
  <2>2. g \in [Key -> Nat]
    BY <1>1 DEF Table
  <2>3. Total(count) \in Nat
    BY <1>1, FS_CardinalityType DEF Total
  <2>4. sessions - count[k] \in Nat /\ sessions - count[k] >= Total(g)
    BY <1>1, <2>1, <2>3
  <2> QED
    BY <1>2, <2>1, <2>2, <2>4 DEF Covers, SessionsAfterGet, CountAfterGet
<1>3. CASE ~Outdated(k)
    BY <1>3 DEF SessionsAfterGet, CountAfterGet
<1> QED
    BY <1>2, <1>3

(* poller_contention_remove_session *)
LEMMA RemoveSessionOK ==
    ASSUME NEW k \in Key, Covers(sessions, count), RemoveSession(k),
           age \in [Key -> 0 .. UnreachableDelay + 1]
    PROVE  Covers(sessions', count') /\ age' \in [Key -> 0 .. UnreachableDelay + 1]
<1>1. /\ count \in Table /\ IsFiniteSet(Entries(count)) /\ sessions \in Nat /\ sessions >= Total(count)
      /\ count[k] \in Nat /\ Total(count) \in Nat
    BY FS_CardinalityType DEF Covers, Table, Total
<1>2. CASE k # None /\ count[k] > 0
  <2> DEFINE g == [count EXCEPT ![k] = @ - 1]
  <2>1. IsFiniteSet(Entries(g)) /\ Total(g) \in Nat /\ Total(g) = Total(count) - 1
    BY <1>1, <1>2, EntriesRemove
  <2>2. g \in [Key -> Nat]
    BY <1>1, <1>2 DEF Table
  <2>3. count' = g /\ sessions' = sessions - 1 /\ age' = age
    BY <1>2 DEF RemoveSession
  <2> QED
    BY <1>1, <2>1, <2>2, <2>3 DEF Covers
<1>3. CASE ~(k # None /\ count[k] > 0)
    BY <1>3 DEF RemoveSession, table
<1> QED
    BY <1>2, <1>3

(* poller_contention_housekeep *)
LEMMA HousekeepOK ==
    ASSUME TableOK, Housekeep
    PROVE  TableOK'
<1> DEFINE g == [k \in Key |-> IF Outdated(k) THEN 0 ELSE count[k]]
<1>1. count \in Table /\ IsFiniteSet(Entries(count)) /\ Total(count) \in Nat
    BY FS_CardinalityType DEF TableOK, Covers, Table, Total
<1>2. g \in Table /\ \A k \in Key : g[k] <= count[k]
    BY <1>1 DEF Table
<1>3. IsFiniteSet(Entries(g)) /\ Total(g) <= Total(count)
    BY <1>1, <1>2, EntriesSubset
<1>4. sessions' = Total(count) /\ count' = g /\ age' = age /\ hkAge' = 0
    BY DEF Housekeep
<1>5. 0 \in 0 .. HousekeepPeriod
    BY TcpAssumption DEF HousekeepPeriod
<1> QED
    BY <1>1, <1>2, <1>3, <1>4, <1>5 DEF TableOK, Covers, Table

-----------------------------------------------------------------------------
(* Nothing is known and nothing is connected. *)
LEMMA InitInv == Init => IInv
<1> SUFFICES ASSUME Init PROVE IInv
    OBVIOUS
<1>1. ItemsOK
  <2>1. 0 \in 0 .. MaxLookups /\ 0 \in 0 .. MaxChanges
    BY TcpAssumption
  <2>2. /\ dns \in [Item -> [cur : 0 .. MaxLookups, old : 0 .. MaxLookups]]
        /\ conn \in [Conn -> [item : Item \cup {None}, cur : BOOLEAN,
                              st : {"free", "connecting", "up", "part", "dead"}]]
    BY <2>1 DEF Init, All, Free, NoLookup
  <2> QED
    BY <2>1, <2>2 DEF Init, ItemsOK, All, Key
<1>2. TableOK
  <2>1. Covers(sessions, count)
    BY EntriesNone DEF Init, Covers, All
  <2>2. age \in [Key -> 0 .. UnreachableDelay + 1] /\ hkAge \in 0 .. HousekeepPeriod
    BY TcpAssumption DEF Init, All, HousekeepPeriod
  <2> QED
    BY <2>1, <2>2 DEF TableOK
<1>3. BevInv /\ LookupInv
    BY TcpAssumption DEF Init, BevInv, LookupInv, All, NoLookup
<1>4. OwnConnection
    BY TcpAssumption DEF Init, OwnConnection, All, Free
<1> QED
    BY <1>1, <1>2, <1>3, <1>4 DEF IInv, TypeOK

(* A request for an item that has no connection, or that may lose one. *)
LEMMA SendRequestStep ==
    ASSUME IInv, NEW i \in known, NEW k \in Key, NEW st \in {"queued", "polling"}, NEW cnt, NEW total,
           Covers(total, cnt), SendRequest(i, k, st, cnt, total), UNCHANGED <<known, lost>>,
           i \notin NamedItem /\ ~lost[i] => bev[i] = None /\ st = "polling"
    PROVE  /\ state' \in [Item -> {"queued", "polling"}] /\ bev' \in [Item -> Conn \cup {None}]
           /\ conn' \in [Conn -> [item : Item \cup {None}, cur : BOOLEAN,
                                  st : {"free", "connecting", "up", "part", "dead"}]]
           /\ Covers(sessions', count') /\ age' \in [Key -> 0 .. UnreachableDelay + 1]
           /\ BevInv' /\ OwnConnection'
<1>0. i \in Item
    BY TcpAssumption DEF IInv, TypeOK, ItemsOK
<1>1. CASE /\ state' = [state EXCEPT ![i] = st] /\ count' = cnt /\ sessions' = total
           /\ UNCHANGED <<bev, conn, age>>
  <2>1. state' \in [Item -> {"queued", "polling"}]
    BY <1>1 DEF IInv, TypeOK, ItemsOK
  <2>2. BevInv'
    BY <1>1 DEF IInv, BevInv
  <2>3. OwnConnection'
    BY <1>0, <1>1 DEF IInv, TypeOK, ItemsOK, OwnConnection
  <2> QED
    BY <1>1, <2>1, <2>2, <2>3 DEF IInv, TypeOK, ItemsOK, TableOK
<1>2. CASE /\ state' = [state EXCEPT ![i] = "queued"] /\ bev' = [bev EXCEPT ![i] = None]
           /\ count' = cnt /\ sessions' = total /\ UNCHANGED <<conn, age>>
  <2>1. state' \in [Item -> {"queued", "polling"}] /\ bev' \in [Item -> Conn \cup {None}]
    BY <1>2 DEF IInv, TypeOK, ItemsOK
  <2>2. BevInv'
    BY <1>2 DEF IInv, TypeOK, ItemsOK, BevInv
  <2>3. OwnConnection'
    BY <1>0, <1>2, TcpAssumption DEF IInv, TypeOK, ItemsOK, OwnConnection
  <2> QED
    BY <1>2, <2>1, <2>2, <2>3 DEF IInv, TypeOK, ItemsOK, TableOK
<1>3. ASSUME NEW c \in Conn, conn[c] = Free,
             conn' = [conn EXCEPT ![c] = [item |-> i, cur |-> TRUE, st |-> "connecting"]],
             bev' = [bev EXCEPT ![i] = c], state' = [state EXCEPT ![i] = st], AddSession(k, cnt, total)
      PROVE  /\ state' \in [Item -> {"queued", "polling"}] /\ bev' \in [Item -> Conn \cup {None}]
             /\ conn' \in [Conn -> [item : Item \cup {None}, cur : BOOLEAN,
                                    st : {"free", "connecting", "up", "part", "dead"}]]
             /\ Covers(sessions', count') /\ age' \in [Key -> 0 .. UnreachableDelay + 1]
             /\ BevInv' /\ OwnConnection'
  <2>1. state' \in [Item -> {"queued", "polling"}] /\ bev' \in [Item -> Conn \cup {None}]
    BY <1>0, <1>3 DEF IInv, TypeOK, ItemsOK
  <2>2. conn' \in [Conn -> [item : Item \cup {None}, cur : BOOLEAN,
                            st : {"free", "connecting", "up", "part", "dead"}]]
    BY <1>0, <1>3 DEF IInv, TypeOK, ItemsOK
  <2>3. Covers(sessions', count') /\ age' \in [Key -> 0 .. UnreachableDelay + 1]
    BY <1>3, AddSessionOK DEF IInv, TypeOK, TableOK
  <2>4. conn[c].item = None /\ \A j \in Item : bev[j] # c
    BY <1>3, TcpAssumption DEF Free, IInv, BevInv
  <2>5. /\ \A j \in Item : bev'[j] = (IF j = i THEN c ELSE bev[j]) /\ state'[j] = (IF j = i THEN st ELSE state[j])
        /\ \A d \in Conn : d # c => conn'[d] = conn[d]
        /\ conn'[c].item = i /\ conn'[c].cur
    BY <1>0, <1>3 DEF IInv, TypeOK, ItemsOK
  <2>6. BevInv'
    BY <1>0, <2>4, <2>5 DEF IInv, TypeOK, ItemsOK, BevInv
  <2>7. OwnConnection'
    <3> SUFFICES ASSUME NEW j \in Item \ NamedItem, ~lost[j]
                 PROVE  /\ \A d \in Conn : conn'[d].item = j => conn'[d].cur /\ bev'[j] = d /\ j \in known
                        /\ bev'[j] # None => state'[j] = "polling" /\ conn'[bev'[j]].item = j
      BY DEF OwnConnection
    <3>1. /\ \A d \in Conn : conn[d].item = j => conn[d].cur /\ bev[j] = d /\ j \in known
          /\ bev[j] # None => state[j] = "polling" /\ conn[bev[j]].item = j
      BY DEF IInv, OwnConnection
    <3>2. CASE j = i
      BY <1>0, <2>4, <2>5, <3>1, <3>2, TcpAssumption
    <3>3. CASE j # i
      <4>1. bev[j] \in Conn \cup {None}
        BY DEF IInv, TypeOK, ItemsOK
      <4> QED
        BY <1>0, <2>4, <2>5, <3>1, <3>3, <4>1
    <3> QED
      BY <3>2, <3>3
  <2> QED
    BY <2>1, <2>2, <2>3, <2>6, <2>7
<1> QED
    BY <1>1, <1>2, <1>3 DEF SendRequest

(* The connection an item has is freed, by a callback of it or of another  *)
(* one that was made for the item.                                         *)
LEMMA DestroySessionStep ==
    ASSUME IInv, NEW i \in Item, NEW c \in Conn, NEW st \in {"up", "part", "dead", "connecting"},
           conn[c].item = i, DestroySession(i, c, st), UNCHANGED <<known, lost>>
    PROVE  /\ state' \in [Item -> {"queued", "polling"}] /\ bev' \in [Item -> Conn \cup {None}]
           /\ conn' \in [Conn -> [item : Item \cup {None}, cur : BOOLEAN,
                                  st : {"free", "connecting", "up", "part", "dead"}]]
           /\ BevInv' /\ OwnConnection'
<1>1. /\ \A j \in Item : bev'[j] = (IF j = i THEN None ELSE bev[j]) /\ (j # i => state'[j] = state[j])
      /\ \A d \in Conn : conn'[d] = IF d = bev[i] THEN Free
                                    ELSE IF d = c THEN [conn[c] EXCEPT !.st = st] ELSE conn[d]
    BY DEF DestroySession, IInv, TypeOK, ItemsOK
<1>2. state' \in [Item -> {"queued", "polling"}] /\ bev' \in [Item -> Conn \cup {None}]
    BY DEF DestroySession, IInv, TypeOK, ItemsOK
<1>3. conn' \in [Conn -> [item : Item \cup {None}, cur : BOOLEAN,
                          st : {"free", "connecting", "up", "part", "dead"}]]
    BY DEF DestroySession, IInv, TypeOK, ItemsOK, Free
<1>4. \A d \in Conn : /\ d # bev[i] => conn'[d].item = conn[d].item /\ conn'[d].cur = conn[d].cur
                      /\ d = bev[i] => conn'[d].item = None /\ conn[d].item = i
    BY <1>1, TcpAssumption DEF Free, IInv, BevInv, TypeOK, ItemsOK
<1>5. BevInv'
    BY <1>1, <1>4, TcpAssumption DEF IInv, TypeOK, ItemsOK, BevInv
<1>6. OwnConnection'
  <2> SUFFICES ASSUME NEW j \in Item \ NamedItem, ~lost[j]
               PROVE  /\ \A d \in Conn : conn'[d].item = j => conn'[d].cur /\ bev'[j] = d /\ j \in known
                      /\ bev'[j] # None => state'[j] = "polling" /\ conn'[bev'[j]].item = j
    BY DEF OwnConnection
  <2>1. /\ \A d \in Conn : conn[d].item = j => conn[d].cur /\ bev[j] = d /\ j \in known
        /\ bev[j] # None => state[j] = "polling" /\ conn[bev[j]].item = j
        /\ bev[j] \in Conn \cup {None}
    BY DEF IInv, OwnConnection, TypeOK, ItemsOK
  <2>2. CASE j = i
    BY <1>1, <1>4, <2>1, <2>2, TcpAssumption
  <2>3. CASE j # i
    BY <1>1, <1>4, <2>1, <2>3, TcpAssumption
  <2> QED
    BY <2>2, <2>3
<1> QED
    BY <1>2, <1>3, <1>5, <1>6

(* item_poll_cb, with and without a lookup: an item in the queue has no    *)
(* connection, if it has an address.                                       *)
LEMMA StartPollStep ==
    ASSUME IInv, UNCHANGED assigned, NEW i \in Item, StartPoll(i) \/ StartLookup(i)
    PROVE  IInv'
<1> DEFINE k == ipaddr[i]
<1>1. /\ i \in known /\ state[i] = "queued" /\ k \in Key
      /\ UNCHANGED <<known, ipaddr, fresh, hkAge, changes, lost, down>>
    BY DEF StartPoll, StartLookup, MayPoll, IInv, TypeOK, ItemsOK
<1>2. Covers(SessionsAfterGet(k), CountAfterGet(k)) /\ age \in [Key -> 0 .. UnreachableDelay + 1]
    BY <1>1, AfterGetOK DEF IInv, TypeOK, TableOK
<1>3. i \notin NamedItem => bev[i] = None \/ lost[i]
    BY <1>1 DEF IInv, OwnConnection
<1>4. /\ state' \in [Item -> {"queued", "polling"}] /\ bev' \in [Item -> Conn \cup {None}]
      /\ conn' \in [Conn -> [item : Item \cup {None}, cur : BOOLEAN,
                             st : {"free", "connecting", "up", "part", "dead"}]]
      /\ Covers(sessions', count') /\ age' \in [Key -> 0 .. UnreachableDelay + 1]
      /\ BevInv' /\ OwnConnection'
  <2>1. CASE SendRequest(i, k, "polling", CountAfterGet(k), SessionsAfterGet(k))
    BY <1>1, <1>2, <1>3, <2>1, SendRequestStep
  <2>2. CASE /\ count' = CountAfterGet(k) /\ sessions' = SessionsAfterGet(k)
             /\ UNCHANGED <<dns, state, bev, conn, age>>
    BY <1>1, <1>2, <2>2 DEF IInv, TypeOK, ItemsOK, BevInv, OwnConnection
  <2> QED
    BY <2>1, <2>2 DEF StartPoll, StartLookup
<1>5. dns' \in [Item -> [cur : 0 .. MaxLookups, old : 0 .. MaxLookups]] /\ LookupInv'
  <2>1. CASE dns' = dns
    BY <2>1 DEF IInv, TypeOK, ItemsOK, LookupInv
  <2>2. CASE i \in NamedItem /\ dns[i].cur + dns[i].old < MaxLookups /\ dns' = [dns EXCEPT ![i].cur = @ + 1]
    BY <2>2, TcpAssumption DEF IInv, TypeOK, ItemsOK, LookupInv
  <2> QED
    BY <2>1, <2>2 DEF StartPoll, StartLookup
<1> QED
    BY <1>1, <1>4, <1>5 DEF IInv, TypeOK, ItemsOK, TableOK

(* poller_async_resolve_cb, of names only. *)
LEMMA LookupStep ==
    ASSUME IInv, UNCHANGED assigned, NEW i \in Item, NEW g \in {"cur", "old"}, Lookup(i, g)
    PROVE  IInv'
<1>1. dns[i][g] > 0 /\ dns' = [dns EXCEPT ![i][g] = @ - 1] /\ UNCHANGED <<known, hkAge, changes, lost, down>>
    BY DEF Lookup, LookupFailed, LookupReady
<1>2. i \in NamedItem
    BY <1>1 DEF IInv, LookupInv, NoLookup
<1>3. dns' \in [Item -> [cur : 0 .. MaxLookups, old : 0 .. MaxLookups]] /\ LookupInv'
  <2>1. CASE g = "cur"
    BY <1>1, <1>2, <2>1, TcpAssumption DEF IInv, TypeOK, ItemsOK, LookupInv
  <2>2. CASE g = "old"
    BY <1>1, <1>2, <2>2, TcpAssumption DEF IInv, TypeOK, ItemsOK, LookupInv
  <2> QED
    BY <2>1, <2>2
<1>4. CASE LookupFailed(i, g)
  <2>1. /\ UNCHANGED <<bev, ipaddr, fresh, conn, count, age, sessions>>
        /\ state' = [state EXCEPT ![i] = "queued"] \/ state' = state
    BY <1>4 DEF LookupFailed, table
  <2>2. OwnConnection'
    BY <1>1, <1>2, <2>1 DEF IInv, TypeOK, ItemsOK, OwnConnection
  <2> QED
    BY <1>1, <1>3, <2>1, <2>2 DEF IInv, TypeOK, ItemsOK, TableOK, BevInv
<1>5. CASE LookupReady(i, g)
  <2>1. /\ i \in known /\ AddressOf[i] \in Key /\ state[i] \in {"queued", "polling"}
        /\ ipaddr' = [ipaddr EXCEPT ![i] = AddressOf[i]] /\ fresh' = [fresh EXCEPT ![i] = TRUE]
        /\ SendRequest(i, AddressOf[i], state[i], count, sessions) /\ Covers(sessions, count)
    BY <1>5 DEF LookupReady, Key, Host, IInv, TypeOK, ItemsOK, TableOK
  <2>2. /\ state' \in [Item -> {"queued", "polling"}] /\ bev' \in [Item -> Conn \cup {None}]
        /\ conn' \in [Conn -> [item : Item \cup {None}, cur : BOOLEAN,
                               st : {"free", "connecting", "up", "part", "dead"}]]
        /\ Covers(sessions', count') /\ age' \in [Key -> 0 .. UnreachableDelay + 1]
        /\ BevInv' /\ OwnConnection'
    BY <1>1, <1>2, <2>1, SendRequestStep
  <2>3. ipaddr' \in [Item -> Key] /\ fresh' \in [Item -> BOOLEAN]
    BY <2>1 DEF IInv, TypeOK, ItemsOK
  <2> QED
    BY <1>1, <1>3, <2>2, <2>3 DEF IInv, TypeOK, ItemsOK, TableOK
<1> QED
    BY <1>4, <1>5 DEF Lookup

(* Time and the timers: an address expires, the lost items check, a        *)
(* second, the housekeeping of the contention table.                       *)
LEMMA TimerStep ==
    ASSUME IInv, UNCHANGED assigned,
           \/ \E i \in Item : AddressExpires(i) \/ LostItem(i)
           \/ Tick \/ Housekeep
    PROVE  IInv'
<1>1. ASSUME NEW i \in Item, AddressExpires(i) PROVE IInv'
    BY <1>1 DEF AddressExpires, table, IInv, TypeOK, ItemsOK, TableOK, BevInv, LookupInv, OwnConnection
<1>2. ASSUME NEW i \in Item, LostItem(i) PROVE IInv'
  <2>1. /\ state' = [state EXCEPT ![i] = "queued"] /\ lost' = [lost EXCEPT ![i] = @ \/ bev[i] # None]
        /\ UNCHANGED <<known, bev, ipaddr, fresh, conn, dns, count, age, sessions, hkAge, changes, down>>
    BY <1>2 DEF LostItem, table
  <2>2. ItemsOK'
    BY <2>1 DEF IInv, TypeOK, ItemsOK
  <2>3. OwnConnection'
    BY <2>1 DEF IInv, TypeOK, ItemsOK, OwnConnection
  <2> QED
    BY <2>1, <2>2, <2>3 DEF IInv, TypeOK, TableOK, BevInv, LookupInv
<1>3. CASE Tick
  <2>1. age' \in [Key -> 0 .. UnreachableDelay + 1]
    BY <1>3, TcpAssumption DEF Tick, IInv, TypeOK, TableOK, Covers
  <2>2. hkAge' \in 0 .. HousekeepPeriod
    <3>1. HousekeepPeriod \in Nat
      BY TcpAssumption DEF HousekeepPeriod
    <3> QED
      BY <1>3, <3>1 DEF Tick, IInv, TypeOK, TableOK
  <2> QED
    BY <1>3, <2>1, <2>2 DEF Tick, itemVars, IInv, TypeOK, ItemsOK, TableOK, BevInv, LookupInv, OwnConnection
<1>4. CASE Housekeep
  <2>1. TableOK'
    BY <1>4, HousekeepOK DEF IInv, TypeOK
  <2> QED
    BY <1>4, <2>1 DEF Housekeep, itemVars, IInv, TypeOK, ItemsOK, BevInv, LookupInv, OwnConnection
<1> QED
    BY <1>1, <1>2, <1>3, <1>4

(* The callbacks of a connection whose item exists. *)
LEMMA CallbackStep ==
    ASSUME IInv, UNCHANGED assigned, NEW c \in Conn, NEW i \in Item,
           \/ Connected(c, i) \/ Failed(c, i) \/ Eof(c, i) \/ ResponseFinish(c, i) \/ ResponseContinue(c, i)
    PROVE  IInv'
<1>1. /\ conn[c].item = i /\ conn[c].st \in {"up", "part", "connecting", "free"} /\ ipaddr[i] \in Key
      /\ UNCHANGED <<known, ipaddr, fresh, dns, hkAge, changes, lost, down>>
    BY DEF Connected, Failed, Eof, ResponseFinish, ResponseContinue, Callback, itemVars, IInv, TypeOK, ItemsOK
<1>2. Covers(sessions', count') /\ age' \in [Key -> 0 .. UnreachableDelay + 1]
  <2>1. CASE UNCHANGED table
    BY <2>1 DEF table, IInv, TypeOK, TableOK
  <2>2. CASE RemoveSession(ipaddr[i])
    BY <1>1, <2>2, RemoveSessionOK DEF IInv, TypeOK, TableOK
  <2> QED
    BY <2>1, <2>2 DEF Connected, Failed, Eof, ResponseFinish, ResponseContinue
<1>3. /\ state' \in [Item -> {"queued", "polling"}] /\ bev' \in [Item -> Conn \cup {None}]
      /\ conn' \in [Conn -> [item : Item \cup {None}, cur : BOOLEAN,
                             st : {"free", "connecting", "up", "part", "dead"}]]
      /\ BevInv' /\ OwnConnection'
  <2>1. ASSUME NEW st \in {"up", "part", "dead", "connecting"}, DestroySession(i, c, st)
        PROVE  <1>3!:
    BY <1>1, <2>1, DestroySessionStep
  <2>2. ASSUME NEW st \in {"up", "part", "dead"}, conn' = [conn EXCEPT ![c].st = st], UNCHANGED <<state, bev>>
        PROVE  <1>3!:
    <3>1. conn' \in [Conn -> [item : Item \cup {None}, cur : BOOLEAN,
                              st : {"free", "connecting", "up", "part", "dead"}]]
      BY <2>2, ZenonT(60) DEF IInv, TypeOK, ItemsOK
    <3>2. \A d \in Conn : conn'[d].item = conn[d].item /\ conn'[d].cur = conn[d].cur
      BY <2>2 DEF IInv, TypeOK, ItemsOK
    <3>3. BevInv'
      BY <1>1, <2>2, <3>2 DEF IInv, TypeOK, ItemsOK, BevInv
    <3>4. OwnConnection'
      BY <1>1, <2>2, <3>2 DEF IInv, TypeOK, ItemsOK, OwnConnection
    <3> QED
      BY <2>2, <3>1, <3>3, <3>4 DEF IInv, TypeOK, ItemsOK
  <2>3. \/ \E st \in {"up", "part", "dead", "connecting"} : DestroySession(i, c, st)
        \/ \E st \in {"up", "part", "dead"} : conn' = [conn EXCEPT ![c].st = st] /\ UNCHANGED <<state, bev>>
    BY <1>1 DEF Connected, Failed, Eof, ResponseFinish, ResponseContinue, itemVars
  <2> QED
    BY <2>1, <2>2, <2>3
<1> QED
    BY <1>1, <1>2, <1>3 DEF IInv, TypeOK, ItemsOK, TableOK, LookupInv

(* The process ends. *)
LEMMA WildStep ==
    ASSUME IInv, UNCHANGED assigned, NEW c \in Conn, Wild(c)
    PROVE  IInv'
<1>1. ItemsOK'
  <2>1. 0 \in 0 .. MaxLookups /\ 0 \in 0 .. MaxChanges
    BY TcpAssumption
  <2>2. /\ dns' \in [Item -> [cur : 0 .. MaxLookups, old : 0 .. MaxLookups]]
        /\ conn' \in [Conn -> [item : Item \cup {None}, cur : BOOLEAN,
                               st : {"free", "connecting", "up", "part", "dead"}]]
    BY <2>1 DEF Wild, All, Free, NoLookup
  <2> QED
    BY <2>1, <2>2 DEF Wild, IInv, TypeOK, ItemsOK, All, Key
<1>2. TableOK'
  <2>1. Covers(sessions', count')
    BY EntriesNone DEF Wild, Covers, All
  <2>2. age' \in [Key -> 0 .. UnreachableDelay + 1] /\ hkAge' \in 0 .. HousekeepPeriod
    BY TcpAssumption DEF Wild, All, HousekeepPeriod
  <2> QED
    BY <2>1, <2>2 DEF TableOK
<1>3. BevInv' /\ LookupInv'
    BY TcpAssumption DEF Wild, BevInv, LookupInv, All, NoLookup
<1>4. OwnConnection'
    BY TcpAssumption DEF Wild, OwnConnection, All, Free
<1> QED
    BY <1>1, <1>2, <1>3, <1>4 DEF IInv, TypeOK

(* The configuration changes: an item takes its connection with it. *)
LEMMA ForgetStep ==
    ASSUME IInv, UNCHANGED assigned, NEW i \in Item, DeleteItem(i) \/ CreateItem(i)
    PROVE  IInv'
<1>1. /\ Forget(i)
      /\ \/ known' = known \ {i} /\ ipaddr' = [ipaddr EXCEPT ![i] = None]
         \/ /\ known' = known \cup {i} /\ i \in assigned
            /\ ipaddr' = [ipaddr EXCEPT ![i] = IF i \in NamedItem THEN None ELSE AddressOf[i]]
    BY DEF DeleteItem, CreateItem
<1>2. known' \subseteq assigned /\ ipaddr' \in [Item -> Key]
  <2>1. None \in Key /\ AddressOf[i] \in Key
    BY DEF Key, Host
  <2>2. (IF i \in NamedItem THEN None ELSE AddressOf[i]) \in Key
    BY <2>1
  <2>3. ipaddr' \in [Item -> Key]
    BY <1>1, <2>1, <2>2 DEF IInv, TypeOK, ItemsOK
  <2> QED
    BY <1>1, <2>3 DEF IInv, TypeOK, ItemsOK
<1>3. /\ state' = [state EXCEPT ![i] = "queued"] /\ bev' = [bev EXCEPT ![i] = None]
      /\ fresh' = [fresh EXCEPT ![i] = FALSE] /\ changes' \in 0 .. MaxChanges
      /\ UNCHANGED <<count, age, sessions, hkAge, lost, down>>
    BY <1>1, TcpAssumption DEF Forget, table, IInv, TypeOK, ItemsOK
<1>4. /\ conn' \in [Conn -> [item : Item \cup {None}, cur : BOOLEAN,
                             st : {"free", "connecting", "up", "part", "dead"}]]
      /\ \A d \in Conn : /\ d = bev[i] => conn'[d].item = None
                         /\ d # bev[i] => /\ conn'[d].item = conn[d].item
                                          /\ conn[d].item # i => conn'[d].cur = conn[d].cur
  <2>1. conn' = [d \in Conn |-> IF d = bev[i] THEN Free
                               ELSE IF conn[d].item = i THEN [conn[d] EXCEPT !.cur = FALSE] ELSE conn[d]]
    BY <1>1 DEF Forget
  <2>2. ASSUME NEW d \in Conn
        PROVE  /\ conn'[d] \in [item : Item \cup {None}, cur : BOOLEAN,
                                 st : {"free", "connecting", "up", "part", "dead"}]
               /\ d = bev[i] => conn'[d].item = None
               /\ d # bev[i] => /\ conn'[d].item = conn[d].item
                                /\ conn[d].item # i => conn'[d].cur = conn[d].cur
    <3>1. conn[d] \in [item : Item \cup {None}, cur : BOOLEAN,
                       st : {"free", "connecting", "up", "part", "dead"}]
      BY DEF IInv, TypeOK, ItemsOK
    <3>2. conn'[d] = IF d = bev[i] THEN Free
                     ELSE IF conn[d].item = i THEN [conn[d] EXCEPT !.cur = FALSE] ELSE conn[d]
      BY <2>1
    <3>3. CASE d = bev[i]
      BY <3>2, <3>3 DEF Free
    <3>4. CASE d # bev[i] /\ conn[d].item = i
      BY <3>1, <3>2, <3>4
    <3>5. CASE d # bev[i] /\ conn[d].item # i
      BY <3>1, <3>2, <3>5
    <3> QED
      BY <3>3, <3>4, <3>5
  <2> QED
    BY <2>1, <2>2
<1>5. dns' \in [Item -> [cur : 0 .. MaxLookups, old : 0 .. MaxLookups]] /\ LookupInv'
    BY <1>1, TcpAssumption DEF Forget, IInv, TypeOK, ItemsOK, LookupInv, NoLookup
<1>6. \A j \in Item \ {i} : bev[j] # None => bev[j] # bev[i]
    BY DEF IInv, BevInv
<1>7. BevInv'
    BY <1>1, <1>3, <1>4, <1>6 DEF IInv, TypeOK, ItemsOK, BevInv
<1>8. OwnConnection'
  <2> SUFFICES ASSUME NEW j \in Item \ NamedItem, ~lost[j]
               PROVE  /\ \A d \in Conn : conn'[d].item = j => conn'[d].cur /\ bev'[j] = d /\ j \in known'
                      /\ bev'[j] # None => state'[j] = "polling" /\ conn'[bev'[j]].item = j
    BY <1>3 DEF OwnConnection
  <2>1. /\ \A d \in Conn : conn[d].item = j => conn[d].cur /\ bev[j] = d /\ j \in known
        /\ bev[j] # None => state[j] = "polling" /\ conn[bev[j]].item = j
        /\ bev[j] \in Conn \cup {None}
        /\ bev'[j] = (IF j = i THEN None ELSE bev[j]) /\ (j # i => state'[j] = state[j])
    BY <1>3 DEF IInv, OwnConnection, TypeOK, ItemsOK
  <2>2. CASE j = i
    BY <1>4, <2>1, <2>2, TcpAssumption
  <2>3. CASE j # i
    BY <1>1, <1>4, <1>6, <2>1, <2>3, TcpAssumption
  <2> QED
    BY <2>2, <2>3
<1>9. ItemsOK'
    BY <1>2, <1>3, <1>4, <1>5 DEF IInv, TypeOK, ItemsOK
<1> QED
    BY <1>3, <1>5, <1>7, <1>8, <1>9 DEF IInv, TypeOK, TableOK

(* Every step preserves the invariant. *)
LEMMA NextInv == IInv /\ [Next]_vars => IInv'
<1> SUFFICES ASSUME IInv, [Next]_vars PROVE IInv'
    OBVIOUS
<1>1. CASE UNCHANGED vars
    BY <1>1 DEF vars, itemVars, table, IInv, TypeOK, ItemsOK, TableOK, BevInv, LookupInv, OwnConnection
<1>2. ASSUME UNCHANGED assigned, NEW i \in Item, ItemStep(i) PROVE IInv'
  <2>1. CASE PollDelayed(i)
    BY <1>1, <2>1 DEF PollDelayed
  <2> QED
    BY <1>2, <2>1, StartPollStep, LookupStep, TimerStep, ForgetStep DEF ItemStep
<1>3. ASSUME UNCHANGED assigned, NEW c \in Conn, ConnStep(c) PROVE IInv'
    BY <1>3, CallbackStep, WildStep DEF ConnStep
<1> QED
    BY <1>1, <1>2, <1>3, TimerStep DEF Next, Up, Crashed

(* The invariant holds of the poller, whatever its items, connections and  *)
(* limits.                                                                 *)
THEOREM TcpPollerInvariant == Spec => []IInv
<1>1. Init => IInv
    BY InitInv
<1>2. IInv /\ [Next]_vars => IInv'
    BY NextInv
<1> QED
    BY <1>1, <1>2, PTL DEF Spec

(* The variables keep their types; sess_count is never reduced below what  *)
(* the contention table counts, however many connections it forgets.       *)
THEOREM TcpPollerTypeCorrect == Spec => []TypeOK
<1>1. IInv => TypeOK
    BY DEF IInv
<1> QED
    BY <1>1, TcpPollerInvariant, PTL

(* An item with an address has at most one connection, knows it and exists *)
(* as long as the connection does, unless a response outlasts the lost     *)
(* items check.                                                            *)
THEOREM TcpPollerOwnConnection == Spec => []OwnConnection
<1>1. IInv => OwnConnection
    BY DEF IInv
<1> QED
    BY <1>1, TcpPollerInvariant, PTL
=============================================================================
