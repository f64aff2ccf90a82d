--------------------------- MODULE ElemsHash_proofs ---------------------------
(***************************************************************************)
(* Proofs about ElemsHash, for any number of processes, ids and addresses  *)
(* and one housekeeper: the inductive invariant IInv, what follows from    *)
(* it, and that the hash implements AtomicMap.                             *)
(***************************************************************************)
EXTENDS ElemsHash, TLAPS

(* Nothing is in the hash and nobody is in it. *)
LEMMA InitInv == Init => IInv
<1> SUFFICES ASSUME Init PROVE IInv
    OBVIOUS
<1> USE ElemsHashAssumption DEF Init
<1>1. TypeOK
  <2>1. (CHOOSE i \in Id : TRUE) \in Id
    OBVIOUS
  <2> QED
    BY <2>1 DEF TypeOK, Ptr, Result
<1>2. MetaInv /\ HeapInv
    BY DEF MetaInv, HeapInv, Reading, Writing
<1>3. ElemInv /\ PtrInv /\ CallInv
    BY DEF ElemInv, PtrInv, CallInv
<1>4. IdsInv /\ DataInv
    BY DEF IdsInv, DataInv
<1> QED
    BY <1>1, <1>2, <1>3, <1>4 DEF IInv

(* An operation begins. *)
LEMMA BeginStep ==
    ASSUME IInv, NEW p \in Proc, NEW k, NEW i \in Id, NEW v, NEW l,
           \/ k = "set" /\ v \in Val /\ l = "rdlock"
           \/ k = "get" /\ v = NoVal /\ l = "rdlock"
           \/ k = "delete" /\ v = NoVal /\ l = "delete"
           \/ k = "housekeep" /\ v = NoVal /\ l = "iterlock",
           Begin(p, k, i, v, l)
    PROVE  IInv'
<1> USE ElemsHashAssumption DEF IInv, heap, elemLocks, metaLock, locals
<1>1. k = "delete" => cache = "items"
  <2>1. k \in Ops[cache] /\ cache \in {"triggers", "items"}
    BY DEF Begin, TypeOK
  <2>2. "delete" \notin Ops["triggers"]
    BY DEF Ops
  <2> QED
    BY <2>1, <2>2
<1>2. TypeOK'
    BY DEF Begin, Goto, TypeOK, Ptr, Result
<1>3. MetaInv'
    BY DEF Begin, Goto, TypeOK, MetaInv, Reading, Writing
<1>4. HeapInv'
    BY DEF Begin, Goto, TypeOK, HeapInv, Ptr
<1>5. ElemInv'
    BY DEF Begin, Goto, TypeOK, ElemInv, PtrInv, Holds
<1>6. PtrInv'
    BY DEF Begin, Goto, TypeOK, ElemInv, PtrInv, Holds
<1>7. CallInv'
    BY <1>1 DEF TypeOK, CallInv, Begin, Goto
<1>8. IdsInv'
    BY DEF Begin, Goto, TypeOK, IdsInv, CallInv
<1>9. DataInv'
    BY DEF Begin, Goto, TypeOK, DataInv, ElemInv, PtrInv, Holds
<1> QED
    BY <1>2, <1>3, <1>4, <1>5, <1>6, <1>7, <1>8, <1>9

(* Steps that take or release the lock of the hash and do nothing else. *)
LEMMA MetaLockStep ==
    ASSUME IInv, NEW p \in Proc, 
           \/ ProcessRdLock(p) \/ ProcessWrLock(p) \/ ProcessRelock(p) \/ DeleteWrLock(p)
           \/ IterateRdLock(p) \/ MassDeleteWrLock(p) \/ MassDeleteUnlock(p)
    PROVE  IInv'
<1> USE ElemsHashAssumption DEF IInv, heap, elemLocks, metaLock, locals
<1>1. UNCHANGED <<cache, heap, elemLocks, locals, hit, down>>
    BY DEF ProcessRdLock, ProcessWrLock, ProcessRelock, DeleteWrLock, IterateRdLock,
        MassDeleteWrLock, MassDeleteUnlock
<1>2. /\ mwr' \in Proc \cup {NULL} /\ mrd' \subseteq Proc
      /\ \E l \in {"search", "create", "func1", "unlink", "iter", "remove", "idle"} : pc' = [pc EXCEPT ![p] = l]
    BY DEF TypeOK, ProcessRdLock, ProcessWrLock, ProcessRelock, DeleteWrLock, IterateRdLock,
        MassDeleteWrLock, MassDeleteUnlock, RdLockMeta, WrLockMeta, UnlockMeta, Goto
<1>3. /\ pc[p] = "relock" <=> pc'[p] = "func1"
      /\ pc[p] \in {"massdelete", "remove"} => pc'[p] \in {"remove", "idle"} /\ (pc'[p] = "idle" => ids[p] = {})
      /\ pc[p] \in {"rdlock", "wrlock", "relock", "delete", "iterlock", "massdelete", "remove"}
      /\ pc[p] = "iterlock" => pc'[p] = "iter"
    BY DEF TypeOK, ProcessRdLock, ProcessWrLock, ProcessRelock, DeleteWrLock, IterateRdLock,
        MassDeleteWrLock, MassDeleteUnlock, Goto
<1>4. TypeOK'
    BY <1>1, <1>2 DEF TypeOK
<1>5. MetaInv'
    BY DEF ProcessRdLock, ProcessWrLock, ProcessRelock, DeleteWrLock, IterateRdLock,
        MassDeleteWrLock, MassDeleteUnlock, RdLockMeta, WrLockMeta, UnlockMeta, Goto, TypeOK, MetaInv, Reading, Writing
<1>6. HeapInv'
    BY <1>1 DEF HeapInv
<1>7. ElemInv'
    BY <1>1, <1>2, <1>3 DEF TypeOK, ElemInv
<1>8. PtrInv'
    BY DEF ProcessRdLock, ProcessWrLock, ProcessRelock, DeleteWrLock, IterateRdLock,
        MassDeleteWrLock, MassDeleteUnlock, RdLockMeta, WrLockMeta, UnlockMeta, Goto, TypeOK, ElemInv, PtrInv, Holds
<1>9. CallInv'
    BY DEF ProcessRdLock, ProcessWrLock, ProcessRelock, DeleteWrLock, IterateRdLock,
        MassDeleteWrLock, MassDeleteUnlock, RdLockMeta, WrLockMeta, UnlockMeta, Goto, TypeOK, CallInv
<1>10. IdsInv'
    BY <1>1, <1>2, <1>3 DEF TypeOK, IdsInv, CallInv
<1>11. DataInv'
    BY <1>1, <1>2, <1>3 DEF TypeOK, DataInv, ElemInv, PtrInv, Holds
<1> QED
    BY <1>4, <1>5, <1>6, <1>7, <1>8, <1>9, <1>10, <1>11

(* An element is found under the read lock of the hash. *)
LEMMA SearchFoundStep ==
    ASSUME IInv, NEW p \in Proc, SearchFound(p)
    PROVE  IInv'
<1> USE ElemsHashAssumption DEF IInv, heap, elemLocks, metaLock, locals
<1>1. TypeOK'
    BY DEF SearchFound, Goto, TypeOK, Ptr, Result
<1>2. MetaInv'
    BY DEF SearchFound, Goto, TypeOK, MetaInv, Reading, Writing
<1>3. HeapInv'
    BY DEF SearchFound, Goto, TypeOK, HeapInv, Ptr
<1>4. ElemInv'
    BY DEF SearchFound, Goto, TypeOK, ElemInv, PtrInv, Holds
<1>5. PtrInv'
    BY DEF TypeOK, HeapInv, ElemInv, PtrInv, Holds, Ptr, SearchFound, Goto
<1>6. CallInv'
    BY DEF SearchFound, Goto, TypeOK, CallInv
<1>7. IdsInv'
    BY DEF SearchFound, Goto, TypeOK, IdsInv, CallInv
<1>8. DataInv'
    BY DEF SearchFound, Goto, TypeOK, DataInv, ElemInv, PtrInv, Holds
<1> QED
    BY <1>1, <1>2, <1>3, <1>4, <1>5, <1>6, <1>7, <1>8

(* No element is found. *)
LEMMA SearchMissingStep ==
    ASSUME IInv, NEW p \in Proc, SearchMissing(p)
    PROVE  IInv'
<1> USE ElemsHashAssumption DEF IInv, heap, elemLocks, metaLock, locals
<1>1. /\ pc[p] = "search" /\ hash[call[p].id] = NULL /\ UnlockMeta(p)
      /\ \/ call[p].kind = "get" /\ pc' = [pc EXCEPT ![p] = "idle"] /\ out' = [out EXCEPT ![p] = NoVal]
         \/ call[p].kind # "get" /\ pc' = [pc EXCEPT ![p] = "wrlock"] /\ out' = out
      /\ UNCHANGED <<cache, heap, elemLocks, call, ptr, seen, visited, ids, calls, hit, down>>
    BY DEF SearchMissing, Goto, Return
<1>2. /\ mwr' \in Proc \cup {NULL} /\ mrd' \subseteq Proc /\ out' \in [Proc -> Result]
      /\ \E l \in {"idle", "wrlock"} : pc' = [pc EXCEPT ![p] = l]
    BY <1>1 DEF TypeOK, UnlockMeta, Result
<1>3. TypeOK'
    BY <1>1, <1>2 DEF TypeOK
<1>4. MetaInv'
    BY <1>1 DEF UnlockMeta, TypeOK, MetaInv, Reading, Writing
<1>5. HeapInv'
    BY <1>1 DEF UnlockMeta, TypeOK, HeapInv, Ptr
<1>6. ElemInv'
    BY <1>1, SMTT(60) DEF UnlockMeta, TypeOK, ElemInv, PtrInv, Holds
<1>7. PtrInv'
    BY <1>1 DEF UnlockMeta, TypeOK, ElemInv, PtrInv, Holds
<1>8. CallInv'
    BY <1>1 DEF UnlockMeta, TypeOK, CallInv
<1>9. IdsInv'
    BY <1>1 DEF UnlockMeta, TypeOK, IdsInv, CallInv
<1>10. DataInv'
    BY <1>1 DEF UnlockMeta, TypeOK, DataInv, ElemInv, PtrInv, Holds
<1> QED
    BY <1>3, <1>4, <1>5, <1>6, <1>7, <1>8, <1>9, <1>10

(* A new element is linked, locked by its creator. *)
LEMMA CreateElementStep ==
    ASSUME IInv, NEW p \in Proc, CreateElement(p)
    PROVE  IInv'
<1> USE ElemsHashAssumption DEF IInv, heap, elemLocks, metaLock, locals
<1>1. TypeOK'
    BY DEF CreateElement, Goto, UnlockMeta, TypeOK, Ptr, Result
<1>2. MetaInv'
    BY DEF CreateElement, Goto, UnlockMeta, TypeOK, MetaInv, Reading, Writing
<1>3. HeapInv'
    BY DEF CreateElement, Goto, UnlockMeta, TypeOK, HeapInv, Ptr
<1>4. ElemInv'
    BY DEF CreateElement, Goto, UnlockMeta, TypeOK, ElemInv, PtrInv, Holds
<1>5. PtrInv'
    BY DEF CreateElement, Goto, UnlockMeta, TypeOK, ElemInv, PtrInv, Holds
<1>6. CallInv'
    BY DEF CreateElement, Goto, UnlockMeta, TypeOK, CallInv
<1>7. IdsInv'
    BY DEF CreateElement, Goto, UnlockMeta, TypeOK, IdsInv, CallInv
<1>8. DataInv'
  <2>1. PICK a \in Addr \ live :
            /\ live' = live \cup {a}
            /\ data1' = [data1 EXCEPT ![a] = NoVal] /\ data2' = [data2 EXCEPT ![a] = NoVal]
            /\ ewr' = [ewr EXCEPT ![a] = p] /\ ptr' = [ptr EXCEPT ![p] = a]
    BY DEF CreateElement
  <2>2. pc' = [pc EXCEPT ![p] = "relock"] /\ pc[p] = "create" /\ call' = call /\ seen' = seen /\ call[p].kind = "set"
    BY DEF CallInv, CreateElement, Goto
  <2>3. \A b \in live : ewr[b] # p
    BY <2>2 DEF ElemInv
  <2>4. DataInv!1'
    BY <2>1, <2>2, <2>3 DEF TypeOK, DataInv
  <2>5. DataInv!2'
    <3> SUFFICES ASSUME NEW q \in Proc, pc'[q] = "func2"
                 PROVE  data1'[ptr'[q]] = IF call'[q].kind = "set" THEN call'[q].val ELSE seen'[q]
      OBVIOUS
    <3>1. q # p /\ pc[q] = "func2" /\ ptr'[q] = ptr[q] /\ seen'[q] = seen[q]
      BY <2>1, <2>2 DEF TypeOK
    <3>2. ptr[q] \in live
      BY <3>1 DEF PtrInv, Holds
    <3> QED
      BY <2>1, <2>2, <3>1, <3>2 DEF TypeOK, DataInv
  <2> QED
    BY <2>4, <2>5 DEF DataInv
<1> QED
    BY <1>1, <1>2, <1>3, <1>4, <1>5, <1>6, <1>7, <1>8

(* Another process has created it. *)
LEMMA CreateFailsStep ==
    ASSUME IInv, NEW p \in Proc, CreateFails(p)
    PROVE  IInv'
<1> USE ElemsHashAssumption DEF IInv, heap, elemLocks, metaLock, locals
<1>1. TypeOK'
    BY DEF CreateFails, Goto, Return, UnlockMeta, TypeOK, Ptr, Result
<1>2. MetaInv'
    BY DEF CreateFails, Goto, Return, UnlockMeta, TypeOK, MetaInv, Reading, Writing
<1>3. HeapInv'
    BY DEF CreateFails, Goto, Return, UnlockMeta, TypeOK, HeapInv, Ptr
<1>4. ElemInv'
    BY DEF CreateFails, Goto, Return, UnlockMeta, TypeOK, ElemInv, PtrInv, Holds
<1>5. PtrInv'
    BY DEF CreateFails, Goto, Return, UnlockMeta, TypeOK, ElemInv, PtrInv, Holds
<1>6. CallInv'
    BY DEF CreateFails, Goto, Return, UnlockMeta, TypeOK, CallInv
<1>7. IdsInv'
    BY DEF CreateFails, Goto, Return, UnlockMeta, TypeOK, IdsInv, CallInv
<1>8. DataInv'
    BY DEF CreateFails, Goto, Return, UnlockMeta, TypeOK, DataInv, ElemInv, PtrInv, Holds
<1> QED
    BY <1>1, <1>2, <1>3, <1>4, <1>5, <1>6, <1>7, <1>8

(* The element is locked. *)
LEMMA ProcessElemLockStep ==
    ASSUME IInv, NEW p \in Proc, ProcessElemLock(p)
    PROVE  IInv'
<1> USE ElemsHashAssumption DEF IInv, heap, elemLocks, metaLock, locals
<1>1. TypeOK'
    BY DEF ProcessElemLock, Goto, WrLockElem, TypeOK, Ptr, Result
<1>2. MetaInv'
    BY DEF ProcessElemLock, Goto, WrLockElem, TypeOK, MetaInv, Reading, Writing
<1>3. HeapInv'
    BY DEF ProcessElemLock, Goto, WrLockElem, TypeOK, HeapInv, Ptr
<1>4. ElemInv'
    BY DEF ProcessElemLock, Goto, WrLockElem, TypeOK, ElemInv, PtrInv, Holds
<1>5. PtrInv'
    BY DEF ProcessElemLock, Goto, WrLockElem, TypeOK, ElemInv, PtrInv, Holds
<1>6. CallInv'
    BY DEF ProcessElemLock, Goto, WrLockElem, TypeOK, CallInv
<1>7. IdsInv'
    BY DEF ProcessElemLock, Goto, WrLockElem, TypeOK, IdsInv, CallInv
<1>8. DataInv'
    BY DEF ProcessElemLock, Goto, WrLockElem, TypeOK, DataInv, ElemInv, PtrInv, Holds
<1> QED
    BY <1>1, <1>2, <1>3, <1>4, <1>5, <1>6, <1>7, <1>8

(* The first field is stored or read. *)
LEMMA ProcessFunc1Step ==
    ASSUME IInv, NEW p \in Proc, ProcessFunc1(p)
    PROVE  IInv'
<1> USE ElemsHashAssumption DEF IInv, heap, elemLocks, metaLock, locals
<1>1. TypeOK'
    BY DEF ProcessFunc1, Goto, Owns, TypeOK, Ptr, Result
<1>2. MetaInv'
    BY DEF ProcessFunc1, Goto, Owns, TypeOK, MetaInv, Reading, Writing
<1>3. HeapInv'
    BY DEF ProcessFunc1, Goto, Owns, TypeOK, HeapInv, Ptr
<1>4. ElemInv'
    BY DEF ProcessFunc1, Goto, Owns, TypeOK, ElemInv, PtrInv, Holds
<1>5. PtrInv'
    BY DEF ProcessFunc1, Goto, Owns, TypeOK, ElemInv, PtrInv, Holds
<1>6. CallInv'
    BY DEF ProcessFunc1, Goto, Owns, TypeOK, CallInv
<1>7. IdsInv'
    BY DEF ProcessFunc1, Goto, Owns, TypeOK, IdsInv, CallInv
<1>8. DataInv'
    BY DEF ProcessFunc1, Goto, Owns, TypeOK, DataInv, ElemInv, PtrInv, Holds
<1> QED
    BY <1>1, <1>2, <1>3, <1>4, <1>5, <1>6, <1>7, <1>8

(* The second field is stored or read; what is read is not torn. *)
LEMMA ProcessFunc2Step ==
    ASSUME IInv, NEW p \in Proc, ProcessFunc2(p)
    PROVE  IInv'
<1> USE ElemsHashAssumption DEF IInv, heap, elemLocks, metaLock, locals
<1>1. /\ pc[p] = "func2" /\ ptr[p] \in live /\ ewr[ptr[p]] = p
      /\ call[p].kind \in {"set", "get"} /\ (call[p].kind = "set" => call[p].val \in Val)
    BY DEF PtrInv, Holds, CallInv, ProcessFunc2
<1>2. call[p].kind = "get" => seen[p] = data1[ptr[p]] /\ data1[ptr[p]] = data2[ptr[p]]
    BY <1>1 DEF DataInv
<1>3. \/ /\ call[p].kind = "set" /\ data1[ptr[p]] = call[p].val /\ data2' = [data2 EXCEPT ![ptr[p]] = call[p].val]
         /\ out' = [out EXCEPT ![p] = call[p].val]
      \/ call[p].kind = "get" /\ data2' = data2 /\ out' = [out EXCEPT ![p] = seen[p]]
    BY <1>1, <1>2 DEF DataInv, ProcessFunc2
<1>4. TypeOK'
  <2>1. data2' \in [Addr -> Result] /\ out' \in [Proc -> Result]
    BY <1>1, <1>3, ZenonT(60) DEF TypeOK, Result
  <2> QED
    BY <2>1 DEF TypeOK, ProcessFunc2, Goto
<1>5. MetaInv'
    BY DEF ProcessFunc2, Goto, TypeOK, MetaInv, Reading, Writing
<1>6. HeapInv'
    BY DEF ProcessFunc2, Goto, TypeOK, HeapInv, Ptr
<1>7. ElemInv'
    BY DEF ProcessFunc2, Goto, TypeOK, ElemInv, PtrInv, Holds
<1>8. PtrInv'
    BY DEF ProcessFunc2, Goto, TypeOK, ElemInv, PtrInv, Holds
<1>9. CallInv'
    BY DEF ProcessFunc2, Goto, TypeOK, CallInv
<1>10. IdsInv'
    BY DEF ProcessFunc2, Goto, TypeOK, IdsInv, CallInv
<1>11. DataInv'
  <2>1. \A a \in live : a # ptr[p] => ewr[a] # p
    BY <1>1 DEF ElemInv
  <2>2. data1' = data1 /\ ewr' = ewr /\ pc' = [pc EXCEPT ![p] = "eunlock"] /\ call' = call /\ ptr' = ptr /\ seen' = seen /\ live' = live
    BY DEF ProcessFunc2, Goto
  <2>3. CASE call[p].kind = "set"
    <3>1. data2' = [data2 EXCEPT ![ptr[p]] = call[p].val] /\ call[p].val # NoVal /\ data1[ptr[p]] = call[p].val
      BY <1>1, <1>3, <2>3
    <3> QED
      BY <1>1, <2>1, <2>2, <3>1 DEF TypeOK, DataInv
  <2>4. CASE call[p].kind = "get"
    BY <1>1, <1>2, <1>3, <2>1, <2>2, <2>4 DEF TypeOK, DataInv
  <2> QED
    BY <1>1, <2>3, <2>4
<1> QED
    BY <1>4, <1>5, <1>6, <1>7, <1>8, <1>9, <1>10, <1>11

(* The element is unlocked. *)
LEMMA ProcessElemUnlockStep ==
    ASSUME IInv, NEW p \in Proc, ProcessElemUnlock(p)
    PROVE  IInv'
<1> USE ElemsHashAssumption DEF IInv, heap, elemLocks, metaLock, locals
<1>1. TypeOK'
    BY DEF ProcessElemUnlock, Goto, UnlockElem, TypeOK, Ptr, Result
<1>2. MetaInv'
    BY DEF ProcessElemUnlock, Goto, UnlockElem, TypeOK, MetaInv, Reading, Writing
<1>3. HeapInv'
    BY DEF ProcessElemUnlock, Goto, UnlockElem, TypeOK, HeapInv, Ptr
<1>4. ElemInv'
    BY DEF ProcessElemUnlock, Goto, UnlockElem, TypeOK, ElemInv, PtrInv, Holds
<1>5. PtrInv'
    BY DEF ProcessElemUnlock, Goto, UnlockElem, TypeOK, ElemInv, PtrInv, Holds
<1>6. CallInv'
    BY DEF ProcessElemUnlock, Goto, UnlockElem, TypeOK, CallInv
<1>7. IdsInv'
    BY DEF ProcessElemUnlock, Goto, UnlockElem, TypeOK, IdsInv, CallInv
<1>8. DataInv'
    BY DEF ProcessElemUnlock, Goto, UnlockElem, TypeOK, DataInv, ElemInv, PtrInv, Holds
<1> QED
    BY <1>1, <1>2, <1>3, <1>4, <1>5, <1>6, <1>7, <1>8

(* The operation is over. *)
LEMMA ProcessUnlockStep ==
    ASSUME IInv, NEW p \in Proc, ProcessUnlock(p)
    PROVE  IInv'
<1> USE ElemsHashAssumption DEF IInv, heap, elemLocks, metaLock, locals
<1>1. TypeOK'
    BY DEF ProcessUnlock, Goto, UnlockMeta, TypeOK, Ptr, Result
<1>2. MetaInv'
    BY DEF ProcessUnlock, Goto, UnlockMeta, TypeOK, MetaInv, Reading, Writing
<1>3. HeapInv'
    BY DEF ProcessUnlock, Goto, UnlockMeta, TypeOK, HeapInv, Ptr
<1>4. ElemInv'
    BY DEF ProcessUnlock, Goto, UnlockMeta, TypeOK, ElemInv, PtrInv, Holds
<1>5. PtrInv'
    BY DEF ProcessUnlock, Goto, UnlockMeta, TypeOK, ElemInv, PtrInv, Holds
<1>6. CallInv'
    BY DEF ProcessUnlock, Goto, UnlockMeta, TypeOK, CallInv
<1>7. IdsInv'
    BY DEF ProcessUnlock, Goto, UnlockMeta, TypeOK, IdsInv, CallInv
<1>8. DataInv'
    BY DEF ProcessUnlock, Goto, UnlockMeta, TypeOK, DataInv, ElemInv, PtrInv, Holds
<1> QED
    BY <1>1, <1>2, <1>3, <1>4, <1>5, <1>6, <1>7, <1>8

(* The server stops. *)
LEMMA WildStep ==
    ASSUME IInv, NEW p \in Proc, Wild(p)
    PROVE  IInv'
<1> USE ElemsHashAssumption DEF IInv, heap, elemLocks, metaLock, locals
<1>1. TypeOK'
    BY DEF Wild, TypeOK, Ptr, Result
<1>2. MetaInv'
    BY DEF Wild, TypeOK, MetaInv, Reading, Writing
<1>3. HeapInv'
    BY DEF Wild, TypeOK, HeapInv, Ptr
<1>4. ElemInv'
    BY DEF Wild, TypeOK, ElemInv, PtrInv, Holds
<1>5. PtrInv'
    BY DEF Wild, TypeOK, ElemInv, PtrInv, Holds
<1>6. CallInv'
    BY DEF Wild, TypeOK, CallInv
<1>7. IdsInv'
    BY DEF Wild, TypeOK, IdsInv, CallInv
<1>8. DataInv'
    BY DEF Wild, TypeOK, DataInv, ElemInv, PtrInv, Holds
<1> QED
    BY <1>1, <1>2, <1>3, <1>4, <1>5, <1>6, <1>7, <1>8

(* elems_hash_delete frees the element, under the write lock of the hash. *)
LEMMA DeleteElementStep ==
    ASSUME IInv, NEW p \in Proc, DeleteElement(p)
    PROVE  IInv'
<1> USE ElemsHashAssumption DEF IInv, heap, elemLocks, metaLock, locals
<1>1. /\ pc[p] = "unlink" /\ cache = "items" /\ mwr = p /\ mrd = {} /\ call[p].id \in Id
      /\ \A q \in Proc : pc[q] \notin Reading /\ (pc[q] \in Writing => q = p)
    BY DEF DeleteElement, TypeOK, CallInv, MetaInv, Writing
<1>2. /\ pc' = [pc EXCEPT ![p] = "idle"] /\ mwr' = NULL /\ mrd' = {}
      /\ UNCHANGED <<cache, eid, data1, data2, ewr, erd, call, ptr, seen, out, visited, ids, calls, down>>
    BY <1>1 DEF DeleteElement, UnlockMeta, Goto, Free
<1>3. \/ UNCHANGED <<hash, live, hit>>
      \/ /\ hash[call[p].id] # NULL /\ hash' = [hash EXCEPT ![call[p].id] = NULL]
         /\ live' = live \ {hash[call[p].id]}
         /\ hit' = [q \in Proc |-> hit[q] \/ (pc[q] = "relock" /\ ptr[q] = hash[call[p].id])]
    BY DEF DeleteElement, Free
<1>4. \A q \in Proc : pc'[q] # "func2"
    BY <1>1, <1>2 DEF TypeOK, Reading
<1>5. TypeOK'
  <2>1. hash' \in [Id -> Ptr] /\ live' \subseteq Addr
    BY <1>3 DEF TypeOK, Ptr
  <2>2. hit' \in [Proc -> BOOLEAN]
    BY <1>3, ZenonT(60) DEF TypeOK
  <2>3. pc' = [pc EXCEPT ![p] = "idle"]
    BY <1>2
  <2> QED
    BY <1>2, <2>1, <2>2, <2>3 DEF TypeOK
<1>6. MetaInv'
    BY <1>1, <1>2 DEF TypeOK, MetaInv, Reading, Writing
<1>7. HeapInv'
    BY <1>2, <1>3 DEF TypeOK, HeapInv, Ptr
<1>8. ElemInv'
    BY <1>1, <1>2, <1>3 DEF TypeOK, ElemInv
<1>9. PtrInv'
  <2> SUFFICES ASSUME NEW q \in Proc, pc'[q] \in {"relock", "func1", "func2", "eunlock", "elock", "visit", "look"}
               PROVE  pc'[q] = "relock" /\ (Holds(q)' \/ (cache' = "items" /\ hit'[q]))
    BY DEF PtrInv
  <2>1. q # p /\ pc[q] = "relock" /\ pc'[q] = pc[q]
    BY <1>1, <1>2 DEF TypeOK, Reading
  <2>2. Holds(q) \/ hit[q]
    BY <2>1 DEF PtrInv
  <2>3. CASE hit[q]
    BY <1>1, <1>2, <1>3, <2>1, <2>3
  <2>4. CASE Holds(q)
    BY <1>1, <1>2, <1>3, <2>1, <2>4, ZenonT(60) DEF TypeOK, Holds
  <2> QED
    BY <2>2, <2>3, <2>4
<1>10. CallInv'
    BY <1>1, <1>2 DEF TypeOK, CallInv
<1>11. IdsInv'
    BY <1>1, <1>2 DEF TypeOK, IdsInv
<1>12. DataInv'
    BY <1>1, <1>2, <1>3, <1>4 DEF TypeOK, DataInv, ElemInv
<1> QED
    BY <1>5, <1>6, <1>7, <1>8, <1>9, <1>10, <1>11, <1>12

(* The iteration comes to its next element. *)
LEMMA IterateNextStep ==
    ASSUME IInv, NEW p \in Proc, IterateNext(p)
    PROVE  IInv'
<1> USE ElemsHashAssumption DEF IInv, heap, elemLocks, metaLock, locals
<1>1. TypeOK'
    BY DEF IterateNext, Goto, TypeOK, Ptr, Result
<1>2. MetaInv'
    BY DEF IterateNext, Goto, TypeOK, MetaInv, Reading, Writing
<1>3. HeapInv'
    BY DEF IterateNext, Goto, TypeOK, HeapInv, Ptr
<1>4. ElemInv'
    BY DEF IterateNext, Goto, TypeOK, ElemInv, PtrInv, Holds
<1>5. PtrInv'
    BY DEF TypeOK, HeapInv, ElemInv, PtrInv, Holds, Ptr, IterateNext, Goto
<1>6. CallInv'
    BY DEF IterateNext, Goto, TypeOK, CallInv
<1>7. IdsInv'
    BY DEF IterateNext, Goto, TypeOK, IdsInv, CallInv
<1>8. DataInv'
    BY DEF IterateNext, Goto, TypeOK, DataInv, ElemInv, PtrInv, Holds
<1> QED
    BY <1>1, <1>2, <1>3, <1>4, <1>5, <1>6, <1>7, <1>8

(* The housekeeper locks the element it looks at. *)
LEMMA IterateElemLockStep ==
    ASSUME IInv, NEW p \in Proc, IterateElemLock(p)
    PROVE  IInv'
<1> USE ElemsHashAssumption DEF IInv, heap, elemLocks, metaLock, locals
<1>1. /\ pc[p] = "visit" /\ ptr[p] \in live /\ ewr[ptr[p]] = NULL /\ pc' = [pc EXCEPT ![p] = "look"]
      /\ UNCHANGED <<cache, hash, live, eid, data1, data2, mwr, mrd, call, ptr, seen, out, visited, ids, calls, hit, down>>
    BY DEF IterateElemLock, Goto, RdLockElem, WrLockElem, PtrInv
<1>2. \/ cache = "triggers" /\ erd' = [erd EXCEPT ![ptr[p]] = @ \cup {p}] /\ ewr' = ewr
      \/ cache = "items" /\ erd[ptr[p]] = {} /\ ewr' = [ewr EXCEPT ![ptr[p]] = p] /\ erd' = erd
    BY DEF IterateElemLock, RdLockElem, WrLockElem, TypeOK
<1>3. ptr[p] \in Addr
    BY <1>1 DEF TypeOK
<1>4. TypeOK'
  <2>1. ewr' \in [Addr -> Proc \cup {NULL}]
    BY <1>2, <1>3 DEF TypeOK
  <2>2. erd' \in [Addr -> SUBSET Proc]
    BY <1>2, <1>3 DEF TypeOK
  <2>3. pc' = [pc EXCEPT ![p] = "look"]
    BY <1>1
  <2> QED
    BY <1>1, <2>1, <2>3, <2>2 DEF TypeOK
<1>5. MetaInv'
    BY <1>1, <1>2, <1>3 DEF TypeOK, MetaInv, Reading, Writing
<1>6. HeapInv'
    BY <1>1, <1>2, <1>3 DEF TypeOK, HeapInv, Ptr
<1>7. ElemInv'
    BY <1>1, <1>2, <1>3, SMTT(60) DEF TypeOK, ElemInv, PtrInv, Holds
<1>8. PtrInv'
  <2>1. CASE cache = "triggers" /\ erd' = [erd EXCEPT ![ptr[p]] = @ \cup {p}] /\ ewr' = ewr
    BY <1>1, <1>3, <2>1 DEF TypeOK, PtrInv, Holds
  <2>2. CASE cache = "items" /\ ewr' = [ewr EXCEPT ![ptr[p]] = p] /\ erd' = erd
    BY <1>1, <1>3, <2>2 DEF TypeOK, PtrInv, Holds
  <2> QED
    BY <1>2, <2>1, <2>2
<1>9. CallInv'
    BY <1>1, <1>2, <1>3 DEF TypeOK, CallInv
<1>10. IdsInv'
    BY <1>1, <1>2, <1>3 DEF TypeOK, IdsInv, CallInv
<1>11. DataInv'
    BY <1>1, <1>2, <1>3 DEF TypeOK, DataInv
<1> QED
    BY <1>4, <1>5, <1>6, <1>7, <1>8, <1>9, <1>10, <1>11

(* The housekeeper notes an outdated trigger, or cleans an outdated item. *)
LEMMA IterateFuncStep ==
    ASSUME IInv, NEW p \in Proc, IterateFunc(p)
    PROVE  IInv'
<1> USE ElemsHashAssumption DEF IInv, heap, elemLocks, metaLock, locals
<1>1. /\ pc[p] = "look" /\ ptr[p] \in live /\ ptr[p] \in Addr /\ pc' = [pc EXCEPT ![p] = "iter"]
      /\ UNCHANGED <<cache, hash, live, eid, mwr, mrd, call, ptr, seen, out, visited, calls, hit, down>>
    BY DEF IterateFunc, Goto, PtrInv, TypeOK
<1>2. /\ erd' = [erd EXCEPT ![ptr[p]] = @ \ {p}]
      /\ ewr' = [ewr EXCEPT ![ptr[p]] = IF @ = p THEN NULL ELSE @]
    BY DEF IterateFunc, UnlockElem
<1>3. \/ UNCHANGED <<ids, data1, data2>>
      \/ cache = "triggers" /\ ids' = [ids EXCEPT ![p] = @ \cup {eid[ptr[p]]}] /\ UNCHANGED <<data1, data2>>
      \/ /\ cache = "items" /\ ids' = ids /\ data1' = [data1 EXCEPT ![ptr[p]] = Empty]
         /\ data2' = [data2 EXCEPT ![ptr[p]] = Empty]
    BY DEF IterateFunc
<1>4. TypeOK'
  <2>1. Empty \in Result
    BY DEF Result
  <2>2. data1' \in [Addr -> Result]
    BY <1>3, <2>1 DEF TypeOK
  <2>3. data2' \in [Addr -> Result]
    BY <1>3, <2>1 DEF TypeOK
  <2>4. ids' \in [Proc -> SUBSET Id]
    BY <1>1, <1>3 DEF TypeOK
  <2>5. ewr' \in [Addr -> Proc \cup {NULL}] /\ erd' \in [Addr -> SUBSET Proc]
    BY <1>1, <1>2 DEF TypeOK
  <2>6. pc' = [pc EXCEPT ![p] = "iter"]
    BY <1>1
  <2> QED
    BY <1>1, <2>4, <2>5, <2>6, <2>2, <2>3 DEF TypeOK
<1>5. MetaInv'
    BY <1>1 DEF TypeOK, MetaInv, Reading, Writing
<1>6. HeapInv'
    BY <1>1 DEF HeapInv
<1>7. ElemInv'
    BY <1>1, <1>2 DEF TypeOK, ElemInv
<1>8. PtrInv'
    BY <1>1, <1>2 DEF TypeOK, PtrInv, Holds
<1>9. CallInv'
    BY <1>1 DEF TypeOK, CallInv
<1>10. IdsInv'
  <2>1. UNCHANGED <<cache, hash, call>> /\ pc' = [pc EXCEPT ![p] = "iter"] /\ pc[p] = "look"
    BY <1>1
  <2>2. CASE ids' = ids
    BY <2>1, <2>2 DEF TypeOK, IdsInv
  <2>3. CASE cache = "triggers" /\ ids' = [ids EXCEPT ![p] = @ \cup {eid[ptr[p]]}]
    <3>1. hash[eid[ptr[p]]] # NULL
      BY <1>1 DEF HeapInv
    <3>2. ASSUME NEW q \in Proc, pc[q] = "relock" PROVE call[q].id # eid[ptr[p]]
      <4>1. Holds(q)
        BY <2>3, <3>2 DEF PtrInv
      <4>2. ptr[q] = ptr[p] => ewr[ptr[p]] # NULL
        BY <4>1 DEF Holds
      <4>3. ptr[q] # ptr[p]
        BY <1>1, <2>3, <4>2 DEF PtrInv, ElemInv
      <4> QED
        BY <1>1, <4>1, <4>3 DEF HeapInv, Holds
    <3> QED
      BY <2>1, <2>3, <3>1, <3>2 DEF TypeOK, IdsInv
  <2> QED
    BY <1>3, <2>2, <2>3
<1>11. DataInv'
  <2>1. CASE data1' = data1 /\ data2' = data2
    BY <1>1, <1>2, <2>1 DEF TypeOK, DataInv
  <2>2. CASE /\ cache = "items" /\ data1' = [data1 EXCEPT ![ptr[p]] = Empty]
             /\ data2' = [data2 EXCEPT ![ptr[p]] = Empty]
    <3>1. ewr[ptr[p]] = p
      BY <1>1, <2>2 DEF PtrInv
    <3>2. \A q \in Proc : pc'[q] = "func2" => q # p /\ pc[q] = "func2" /\ ptr[q] # ptr[p] /\ ptr[q] \in live
      BY <1>1, <3>1 DEF TypeOK, PtrInv, Holds
    <3> QED
      BY <1>1, <1>2, <2>2, <3>1, <3>2 DEF TypeOK, DataInv
  <2> QED
    BY <1>3, <2>1, <2>2
<1> QED
    BY <1>4, <1>5, <1>6, <1>7, <1>8, <1>9, <1>10, <1>11

(* The iteration is over. *)
LEMMA IterateUnlockStep ==
    ASSUME IInv, NEW p \in Proc, IterateUnlock(p)
    PROVE  IInv'
<1> USE ElemsHashAssumption DEF IInv, heap, elemLocks, metaLock, locals
<1>1. TypeOK'
    BY DEF IterateUnlock, Goto, UnlockMeta, TypeOK, Ptr, Result
<1>2. MetaInv'
    BY DEF IterateUnlock, Goto, UnlockMeta, TypeOK, MetaInv, Reading, Writing
<1>3. HeapInv'
    BY DEF IterateUnlock, Goto, UnlockMeta, TypeOK, HeapInv, Ptr
<1>4. ElemInv'
    BY DEF IterateUnlock, Goto, UnlockMeta, TypeOK, ElemInv, PtrInv, Holds
<1>5. PtrInv'
    BY DEF IterateUnlock, Goto, UnlockMeta, TypeOK, ElemInv, PtrInv, Holds
<1>6. CallInv'
    BY DEF IterateUnlock, Goto, UnlockMeta, TypeOK, CallInv
<1>7. IdsInv'
    BY DEF IterateUnlock, Goto, UnlockMeta, TypeOK, IdsInv, CallInv
<1>8. DataInv'
    BY DEF IterateUnlock, Goto, UnlockMeta, TypeOK, DataInv, ElemInv, PtrInv, Holds
<1> QED
    BY <1>1, <1>2, <1>3, <1>4, <1>5, <1>6, <1>7, <1>8

(* The housekeeper frees an element it collected, which is still there. *)
LEMMA MassDeleteStep ==
    ASSUME IInv, NEW p \in Proc, MassDelete(p)
    PROVE  IInv'
<1> USE ElemsHashAssumption DEF IInv, heap, elemLocks, metaLock, locals
<1> PICK i \in ids[p] :
          /\ ids' = [ids EXCEPT ![p] = @ \ {i}]
          /\ IF hash[i] # NULL
             THEN Free(i) /\ UNCHANGED down
             ELSE down' = TRUE /\ UNCHANGED <<heap, elemLocks, hit>>
    BY DEF MassDelete
<1>1. /\ pc[p] = "remove" /\ cache = "triggers" /\ mwr = p /\ mrd = {} /\ i \in Id /\ i \in ids[p] /\ hash[i] # NULL
      /\ \A q \in Proc : pc[q] \notin Reading
    BY DEF MassDelete, TypeOK, IdsInv, MetaInv, Writing
<1>2. UNCHANGED <<cache, eid, data1, data2, ewr, erd, mwr, mrd, pc, call, ptr, seen, out, visited, calls, down>>
    BY <1>1 DEF MassDelete, Free
<1>3. /\ ids' = [ids EXCEPT ![p] = @ \ {i}]
      /\ hash' = [hash EXCEPT ![i] = NULL] /\ live' = live \ {hash[i]}
      /\ hit' = [q \in Proc |-> hit[q] \/ (pc[q] = "relock" /\ ptr[q] = hash[i])]
    BY <1>1 DEF Free
<1>4. TypeOK'
    BY <1>1, <1>2, <1>3 DEF TypeOK, Ptr
<1>5. MetaInv'
    BY <1>2 DEF MetaInv
<1>6. HeapInv'
    BY <1>2, <1>3, <1>1 DEF TypeOK, HeapInv, Ptr
<1>7. ElemInv'
    BY <1>2, <1>3 DEF ElemInv
<1>8. PtrInv'
  <2> SUFFICES ASSUME NEW q \in Proc, pc[q] \in {"relock", "func1", "func2", "eunlock", "elock", "visit", "look"}
               PROVE  pc[q] = "relock" /\ Holds(q)'
    BY <1>2 DEF PtrInv
  <2>1. pc[q] = "relock"
    BY <1>1 DEF Reading
  <2>2. Holds(q) /\ call[q].id # i
    BY <1>1, <2>1 DEF PtrInv, IdsInv
  <2>3. ptr[q] # hash[i]
    BY <1>1, <2>2 DEF Holds, HeapInv
  <2> QED
    BY <1>2, <1>3, <2>1, <2>2, <2>3 DEF Holds
<1>9. CallInv'
    BY <1>2 DEF CallInv
<1>10. IdsInv'
  <2>1. \A q \in Proc \ {p} : ids[q] = {}
    BY <1>1, OneHousekeeper DEF CallInv, IdsInv
  <2> QED
    BY <1>1, <1>2, <1>3, <2>1 DEF TypeOK, IdsInv
<1>11. DataInv'
  <2>1. \A q \in Proc : pc[q] # "func2"
    BY <1>1 DEF Reading
  <2> QED
    BY <1>2, <1>3, <2>1 DEF DataInv
<1> QED
    BY <1>4, <1>5, <1>6, <1>7, <1>8, <1>9, <1>10, <1>11
(* Every step preserves the invariant. *)
LEMMA NextInv == IInv /\ [Next]_vars => IInv'
<1> SUFFICES ASSUME IInv, [Next]_vars PROVE IInv'
    OBVIOUS
<1>1. CASE UNCHANGED vars
    BY <1>1 DEF vars, heap, elemLocks, metaLock, locals, IInv, TypeOK, MetaInv, HeapInv, ElemInv,
        PtrInv, Holds, CallInv, IdsInv, DataInv
<1>2. ASSUME NEW p \in Proc, Call(p) PROVE IInv'
  <2>1. CASE Set(p)
    BY <2>1, BeginStep DEF Set
  <2>2. CASE Get(p)
    BY <2>2, BeginStep DEF Get
  <2>3. CASE Delete(p)
    BY <2>3, BeginStep DEF Delete
  <2>4. CASE Housekeep(p)
    <3>1. call[p].id \in Id
      BY DEF IInv, TypeOK
    <3> QED
      BY <2>4, <3>1, BeginStep DEF Housekeep
  <2> QED
    BY <1>2, <2>1, <2>2, <2>3, <2>4 DEF Call
<1>3. ASSUME NEW p \in Proc, Step(p) PROVE IInv'
    BY <1>3, MetaLockStep, SearchFoundStep, SearchMissingStep, CreateElementStep, CreateFailsStep,
       ProcessElemLockStep, ProcessFunc1Step, ProcessFunc2Step, ProcessElemUnlockStep,
       ProcessUnlockStep, WildStep, DeleteElementStep, IterateNextStep, IterateElemLockStep,
       IterateFuncStep, IterateUnlockStep, MassDeleteStep DEF Step
<1> QED
    BY <1>1, <1>2, <1>3 DEF Next, Finished

(* In every reachable state the locks are held by those whose program      *)
(* counter says so, the hash holds exactly the elements in use, and every  *)
(* process points to what it may access.                                   *)
THEOREM ElemsHashInvariant == Spec => []IInv
<1>1. Init => IInv
    BY InitInv
<1>2. IInv /\ [Next]_vars => IInv'
    BY NextInv
<1> QED
    BY <1>1, <1>2, PTL DEF Spec

(* The variables of the hash keep their types. *)
THEOREM ElemsHashTypeCorrect == Spec => []TypeOK
<1>1. IInv => TypeOK
    BY DEF IInv
<1> QED
    BY <1>1, ElemsHashInvariant, PTL

(* No process of the trigger cache ever accesses an element that was freed *)
(* under its hands; in the item cache the one way to do so is              *)
(* elems_hash_delete between create_element and the lock that follows it.  *)
THEOREM ElemsHashNoUseAfterFree == Spec => []NoUseAfterFree
<1>1. IInv => NoUseAfterFree
    BY DEF IInv, PtrInv, Holds, Owns, NoUseAfterFree
<1> QED
    BY <1>1, ElemsHashInvariant, PTL

(* elems_hash_mass_delete finds every id it was given. *)
THEOREM ElemsHashMassDelete == Spec => []MassDeleteFindsAll
<1>1. IInv => MassDeleteFindsAll
    BY DEF IInv, IdsInv, MassDeleteFindsAll
<1> QED
    BY <1>1, ElemsHashInvariant, PTL

(* A process that is in no operation holds no lock. *)
THEOREM ElemsHashLocksReturned == Spec => []LocksReturned
<1>1. IInv => LocksReturned
  <2> SUFFICES ASSUME IInv, NEW p \in Proc, pc[p] = "idle"
               PROVE  mwr # p /\ p \notin mrd /\ \A a \in live : ewr[a] # p /\ p \notin erd[a]
    BY DEF LocksReturned
  <2>1. mwr # p /\ p \notin mrd
    BY DEF IInv, MetaInv, Reading, Writing
  <2>2. \A a \in live : ewr[a] # p /\ p \notin erd[a]
    BY ElemsHashAssumption DEF IInv, ElemInv
  <2> QED
    BY <2>1, <2>2
<1> QED
    BY <1>1, ElemsHashInvariant, PTL

-----------------------------------------------------------------------------
(* The hash implements AtomicMap: each step of the detailed specification  *)
(* is a step of the abstract one, or leaves its variables alone.           *)

(* Where an operation is, in the terms of AtomicMap. *)
LEMMA StageOf ==
    \A p \in Proc : /\ pc[p] = "idle" => AbsStage[p] = "idle"
                    /\ pc[p] \in {"eunlock", "munlock"} => AbsStage[p] = "done"
                    /\ pc[p] \notin {"idle", "eunlock", "munlock"} => AbsStage[p] = "busy"
    BY DEF AbsStage

(* A process that goes from one place to another takes its stage along. *)
LEMMA StageStep ==
    ASSUME TypeOK, NEW p \in Proc, NEW l, pc' = [pc EXCEPT ![p] = l]
    PROVE  /\ l = "idle" => AbsStage' = [AbsStage EXCEPT ![p] = "idle"]
           /\ l \in {"eunlock", "munlock"} => AbsStage' = [AbsStage EXCEPT ![p] = "done"]
           /\ l \notin {"idle", "eunlock", "munlock"} => AbsStage' = [AbsStage EXCEPT ![p] = "busy"]
<1>1. \A q \in Proc : pc'[q] = IF q = p THEN l ELSE pc[q]
    BY DEF TypeOK
<1>2. \A q \in Proc : /\ q # p => AbsStage'[q] = AbsStage[q]
                      /\ l = "idle" => AbsStage'[p] = "idle"
                      /\ l \in {"eunlock", "munlock"} => AbsStage'[p] = "done"
                      /\ l \notin {"idle", "eunlock", "munlock"} => AbsStage'[p] = "busy"
    BY <1>1 DEF AbsStage
<1>3. /\ AbsStage = [q \in Proc |-> AbsStage[q]]
      /\ AbsStage' = [q \in Proc |-> AbsStage'[q]]
    BY DEF AbsStage
<1>4. \A v : AbsStage'[p] = v => AbsStage' = [AbsStage EXCEPT ![p] = v]
    BY <1>2, <1>3
<1> QED
    BY <1>2, <1>4

(* A step between two places of the same stage changes no stage. *)
LEMMA StageSame ==
    ASSUME TypeOK, NEW p \in Proc, NEW l, pc' = [pc EXCEPT ![p] = l],
           \/ pc[p] \notin {"idle", "eunlock", "munlock"} /\ l \notin {"idle", "eunlock", "munlock"}
           \/ pc[p] \in {"eunlock", "munlock"} /\ l \in {"eunlock", "munlock"}
    PROVE  AbsStage' = AbsStage
<1>1. \A q \in Proc : pc'[q] = IF q = p THEN l ELSE pc[q]
    BY DEF TypeOK
<1>2. \A q \in Proc : AbsStage'[q] = AbsStage[q]
    BY <1>1 DEF AbsStage
<1> QED
    BY <1>2 DEF AbsStage

(* The initial states correspond. *)
LEMMA RefInit == Init => Map!AInit
<1> SUFFICES ASSUME Init PROVE Map!AInit
    OBVIOUS
<1>1. AbsMap = [i \in Id |-> NoVal]
    BY DEF Init, AbsMap
<1>2. AbsStage = [p \in Proc |-> "idle"]
    BY DEF Init, AbsStage
<1>3. call \in [Proc -> [kind : {"none"}, id : Id, val : {NoVal}]]
  <2>1. (CHOOSE i \in Id : TRUE) \in Id
    BY ElemsHashAssumption
  <2> QED
    BY <2>1 DEF Init
<1> QED
    BY <1>1, <1>2, <1>3 DEF Init, Map!AInit

(* The beginning of an operation is the abstract call: the previous one    *)
(* left nothing in remove_ids.                                             *)
LEMMA RefBegin ==
    ASSUME IInv, NEW p \in Proc, NEW k \in {"set", "get", "delete", "housekeep"}, NEW i \in Id,
           NEW v \in Val \cup {NoVal}, NEW l \in {"rdlock", "delete", "iterlock"}, Begin(p, k, i, v, l)
    PROVE  Map!ACall(p)
<1>1. AbsStage[p] = "idle" /\ AbsStage' = [AbsStage EXCEPT ![p] = "busy"]
    BY StageOf, StageStep DEF IInv, Begin, Goto
<1>2. ids[p] = {}
    BY DEF IInv, IdsInv, Begin
<1>3. AbsMap' = AbsMap /\ out' = out /\ ids' = ids
    BY <1>2 DEF Begin, heap, AbsMap, IInv, TypeOK
<1>4. call' = [call EXCEPT ![p] = [kind |-> k, id |-> i, val |-> v]]
    BY DEF Begin
<1> QED
    BY <1>1, <1>3, <1>4 DEF Map!ACall

(* Taking and releasing the lock of the hash is a stuttering step, but for *)
(* the housekeeper's last, its return.                                     *)
LEMMA RefMetaLock ==
    ASSUME IInv, NEW p \in Proc,
           \/ ProcessRdLock(p) \/ ProcessWrLock(p) \/ ProcessRelock(p) \/ DeleteWrLock(p)
           \/ IterateRdLock(p) \/ MassDeleteWrLock(p)
    PROVE  UNCHANGED Map!avars
<1>1. UNCHANGED <<heap, locals>>
    BY DEF ProcessRdLock, ProcessWrLock, ProcessRelock, DeleteWrLock, IterateRdLock, MassDeleteWrLock
<1>2. \E l \in {"search", "create", "func1", "unlink", "iter", "remove"} :
         pc' = [pc EXCEPT ![p] = l] /\ pc[p] \notin {"idle", "eunlock", "munlock"}
    BY DEF ProcessRdLock, ProcessWrLock, ProcessRelock, DeleteWrLock, IterateRdLock, MassDeleteWrLock, Goto
<1>3. AbsStage' = AbsStage
    BY <1>2, StageSame DEF IInv
<1>4. AbsMap' = AbsMap
    BY <1>1 DEF heap, AbsMap
<1> QED
    BY <1>1, <1>3, <1>4 DEF locals, Map!avars

(* The end of the housekeeper's call is its return. *)
LEMMA RefMassDeleteUnlock ==
    ASSUME IInv, NEW p \in Proc, MassDeleteUnlock(p)
    PROVE  Map!AReturn(p)
<1>1. AbsStage[p] = "busy" /\ AbsStage' = [AbsStage EXCEPT ![p] = "idle"]
    BY StageOf, StageStep DEF IInv, MassDeleteUnlock, Goto
<1>2. call[p].kind = "housekeep" /\ ids[p] = {}
    BY DEF IInv, CallInv, MassDeleteUnlock
<1>3. AbsMap' = AbsMap /\ UNCHANGED <<call, out, ids>>
    BY DEF MassDeleteUnlock, heap, locals, AbsMap
<1> QED
    BY <1>1, <1>2, <1>3 DEF Map!AReturn

(* Finding an element, locking it and storing or reading its first field,  *)
(* unlocking it, and stopping the server are stuttering steps.             *)
LEMMA RefProcess ==
    ASSUME IInv, NEW p \in Proc,
           \/ SearchFound(p) \/ ProcessElemLock(p) \/ ProcessFunc1(p) \/ ProcessElemUnlock(p)
           \/ IterateNext(p) \/ IterateElemLock(p) \/ Wild(p)
    PROVE  UNCHANGED Map!avars
<1>1. UNCHANGED <<hash, data2, call, out, ids>>
    BY DEF SearchFound, ProcessElemLock, ProcessFunc1, ProcessElemUnlock, IterateNext,
        IterateElemLock, Wild, heap, locals
<1>2. \/ pc' = pc
      \/ pc[p] = "eunlock" /\ pc' = [pc EXCEPT ![p] = "munlock"]
      \/ /\ pc[p] \in {"search", "elock", "func1", "iter", "visit"}
         /\ \E l \in {"elock", "func1", "func2", "visit", "look"} : pc' = [pc EXCEPT ![p] = l]
    BY DEF SearchFound, ProcessElemLock, ProcessFunc1, ProcessElemUnlock, IterateNext,
        IterateElemLock, Wild, Goto
<1>3. AbsStage' = AbsStage
  <2>1. CASE pc' = pc
    BY <2>1 DEF AbsStage
  <2>2. CASE pc[p] = "eunlock" /\ pc' = [pc EXCEPT ![p] = "munlock"]
    BY <2>2, StageSame DEF IInv
  <2>3. CASE /\ pc[p] \in {"search", "elock", "func1", "iter", "visit"}
             /\ \E l \in {"elock", "func1", "func2", "visit", "look"} : pc' = [pc EXCEPT ![p] = l]
    BY <2>3, StageSame DEF IInv
  <2> QED
    BY <1>2, <2>1, <2>2, <2>3
<1>4. AbsMap' = AbsMap
    BY <1>1 DEF AbsMap
<1> QED
    BY <1>1, <1>3, <1>4 DEF Map!avars

(* A get that finds nothing takes effect when it looks; a set goes on. *)
LEMMA RefSearchMissing ==
    ASSUME IInv, NEW p \in Proc, SearchMissing(p)
    PROVE  Map!AGet(p) \/ UNCHANGED Map!avars
<1>1. /\ pc[p] = "search" /\ call[p].id \in Id /\ AbsMap[call[p].id] = NoVal
      /\ AbsMap' = AbsMap /\ UNCHANGED <<call, ids>>
    BY DEF IInv, TypeOK, SearchMissing, heap, AbsMap
<1>2. CASE call[p].kind = "get"
  <2>1. pc' = [pc EXCEPT ![p] = "idle"] /\ out' = [out EXCEPT ![p] = NoVal]
    BY <1>2 DEF SearchMissing, Return, Goto
  <2>2. AbsStage[p] = "busy" /\ AbsStage' = [AbsStage EXCEPT ![p] = "idle"]
    BY <1>1, <2>1, StageOf, StageStep DEF IInv
  <2> QED
    BY <1>1, <1>2, <2>1, <2>2 DEF Map!AGet, Map!Effect
<1>3. CASE call[p].kind # "get"
  <2>1. pc' = [pc EXCEPT ![p] = "wrlock"] /\ out' = out
    BY <1>3 DEF SearchMissing, Goto
  <2>2. AbsStage' = AbsStage
    BY <1>1, <2>1, StageSame DEF IInv
  <2> QED
    BY <1>1, <2>1, <2>2 DEF Map!avars
<1> QED
    BY <1>2, <1>3

(* A new element is no value yet. *)
LEMMA RefCreateElement ==
    ASSUME IInv, NEW p \in Proc, CreateElement(p)
    PROVE  UNCHANGED Map!avars
<1>1. UNCHANGED <<call, out, ids>> /\ pc[p] = "create" /\ pc' = [pc EXCEPT ![p] = "relock"]
    BY DEF CreateElement, Goto
<1>2. AbsStage' = AbsStage
    BY <1>1, StageSame DEF IInv
<1>3. PICK a \in Addr \ live : /\ data2' = [data2 EXCEPT ![a] = NoVal]
                               /\ hash' = [hash EXCEPT ![call[p].id] = a]
    BY DEF CreateElement
<1>4. hash[call[p].id] = NULL /\ call[p].id \in Id
    BY DEF CreateElement, IInv, TypeOK
<1>5. ASSUME NEW i \in Id
      PROVE  (IF hash'[i] = NULL THEN NoVal ELSE data2'[hash'[i]]) = IF hash[i] = NULL THEN NoVal ELSE data2[hash[i]]
  <2>1. CASE i = call[p].id
    BY <1>3, <1>4, <2>1, ElemsHashAssumption DEF IInv, TypeOK
  <2>2. CASE i # call[p].id
    BY <1>3, <2>2 DEF IInv, TypeOK, HeapInv
  <2> QED
    BY <2>1, <2>2
<1>6. AbsMap' = AbsMap
    BY <1>5 DEF AbsMap
<1> QED
    BY <1>1, <1>2, <1>6 DEF Map!avars

(* A set that finds the element created meanwhile is refused: the element  *)
(* has a value, or its creator is about to store one.                      *)
LEMMA RefCreateFails ==
    ASSUME IInv, NEW p \in Proc, CreateFails(p)
    PROVE  Map!ASetFails(p)
<1> DEFINE i == call[p].id
           a == hash[i]
<1>1. /\ pc[p] = "create" /\ a # NULL /\ i \in Id /\ AbsMap' = AbsMap /\ UNCHANGED <<call, ids>>
      /\ out' = [out EXCEPT ![p] = NoVal] /\ pc' = [pc EXCEPT ![p] = "idle"] /\ call[p].kind = "set"
    BY DEF IInv, TypeOK, CallInv, CreateFails, Return, Goto, heap, AbsMap
<1>2. AbsStage[p] = "busy" /\ AbsStage' = [AbsStage EXCEPT ![p] = "idle"]
    BY <1>1, StageOf, StageStep DEF IInv
<1>3. a \in live /\ eid[a] = i /\ a \in Addr
    BY <1>1 DEF IInv, HeapInv, TypeOK
<1>4. CASE data2[a] # NoVal
  <2>1. AbsMap[i] # NoVal
    BY <1>1, <1>4 DEF AbsMap
  <2> QED
    BY <1>1, <1>2, <2>1 DEF Map!ASetFails, Map!Effect
<1>5. CASE data2[a] = NoVal
  <2>1. /\ ewr[a] \in Proc /\ pc[ewr[a]] \in {"relock", "func1", "func2"} /\ call[ewr[a]].kind = "set"
        /\ call[ewr[a]].id = i
    BY <1>3, <1>5 DEF IInv, TypeOK, DataInv, ElemInv
  <2>2. AbsStage[ewr[a]] = "busy" /\ ewr[a] # p
    BY <1>1, <2>1, StageOf
  <2> QED
    BY <1>1, <1>2, <2>1, <2>2 DEF Map!ASetFails, Map!Effect
<1> QED
    BY <1>4, <1>5

(* A set takes effect with its second field, and a get reads there what    *)
(* the element holds.                                                      *)
LEMMA RefProcessFunc2 ==
    ASSUME IInv, NEW p \in Proc, ProcessFunc2(p)
    PROVE  Map!ASet(p) \/ Map!AGet(p)
<1> DEFINE i == call[p].id
<1>1. /\ pc[p] = "func2" /\ UNCHANGED <<hash, call, ids>> /\ pc' = [pc EXCEPT ![p] = "eunlock"]
      /\ i \in Id /\ ptr[p] \in live /\ ptr[p] \in Addr /\ eid[ptr[p]] = i /\ ewr[ptr[p]] = p
      /\ call[p].kind \in {"set", "get"}
    BY DEF IInv, TypeOK, CallInv, PtrInv, Holds, ProcessFunc2, Goto
<1>2. hash[i] = ptr[p] /\ ptr[p] # NULL
    BY <1>1, ElemsHashAssumption DEF IInv, HeapInv
<1>3. AbsStage[p] = "busy" /\ AbsStage' = [AbsStage EXCEPT ![p] = "done"]
    BY <1>1, StageOf, StageStep DEF IInv
<1>4. CASE call[p].kind = "set"
  <2>1. data2' = [data2 EXCEPT ![ptr[p]] = call[p].val] /\ out' = [out EXCEPT ![p] = call[p].val]
    BY <1>4 DEF ProcessFunc2
  <2>2. ASSUME NEW j \in Id
        PROVE  (IF hash'[j] = NULL THEN NoVal ELSE data2'[hash'[j]]) = [AbsMap EXCEPT ![i] = call[p].val][j]
    <3>1. CASE j = i
      BY <1>1, <1>2, <2>1, <3>1 DEF AbsMap, IInv, TypeOK
    <3>2. CASE j # i
      <4>1. hash[j] # NULL => hash[j] # ptr[p] /\ hash[j] \in Addr
        BY <1>1, <3>2 DEF IInv, HeapInv, TypeOK
      <4> QED
        BY <1>1, <2>1, <3>2, <4>1 DEF AbsMap, IInv, TypeOK
    <3> QED
      BY <3>1, <3>2
  <2>3. AbsMap' = [AbsMap EXCEPT ![i] = call[p].val]
    BY <2>2 DEF AbsMap
  <2> QED
    BY <1>1, <1>3, <1>4, <2>1, <2>3 DEF Map!ASet, Map!Effect
<1>5. CASE call[p].kind = "get"
  <2>1. seen[p] = data2[ptr[p]]
    BY <1>1, <1>5 DEF IInv, DataInv
  <2>2. out' = [out EXCEPT ![p] = data2[ptr[p]]] /\ data2' = data2
    BY <1>5, <2>1 DEF ProcessFunc2
  <2>3. AbsMap' = AbsMap /\ AbsMap[i] = data2[ptr[p]]
    BY <1>1, <1>2, <2>2 DEF AbsMap
  <2> QED
    BY <1>1, <1>3, <1>5, <2>2, <2>3 DEF Map!AGet, Map!Effect
<1> QED
    BY <1>1, <1>4, <1>5

(* The operation returns when it has unlocked the hash. *)
LEMMA RefProcessUnlock ==
    ASSUME IInv, NEW p \in Proc, ProcessUnlock(p)
    PROVE  Map!AReturn(p)
<1>1. AbsStage[p] = "done" /\ AbsStage' = [AbsStage EXCEPT ![p] = "idle"]
    BY StageOf, StageStep DEF IInv, ProcessUnlock, Goto
<1>2. AbsMap' = AbsMap /\ UNCHANGED <<call, out, ids>>
    BY DEF ProcessUnlock, heap, AbsMap
<1> QED
    BY <1>1, <1>2 DEF Map!AReturn

(* Freeing an element removes its id from the map. *)
LEMMA RefFree ==
    ASSUME IInv, NEW i \in Id, hash' = [hash EXCEPT ![i] = NULL], data2' = data2
    PROVE  AbsMap' = [AbsMap EXCEPT ![i] = NoVal]
<1>1. ASSUME NEW j \in Id
      PROVE  (IF hash'[j] = NULL THEN NoVal ELSE data2'[hash'[j]]) = [AbsMap EXCEPT ![i] = NoVal][j]
    BY DEF AbsMap, IInv, TypeOK
<1> QED
    BY <1>1 DEF AbsMap

(* Taking the element out of the hash deletes it from the map. *)
LEMMA RefDeleteElement ==
    ASSUME IInv, NEW p \in Proc, DeleteElement(p)
    PROVE  Map!ADelete(p)
<1> DEFINE i == call[p].id
<1>1. /\ pc[p] = "unlink" /\ UNCHANGED <<call, ids, out, data2>> /\ pc' = [pc EXCEPT ![p] = "idle"]
      /\ i \in Id /\ call[p].kind = "delete"
    BY DEF IInv, TypeOK, CallInv, DeleteElement, Free, Goto, locals, heap
<1>2. AbsStage[p] = "busy" /\ AbsStage' = [AbsStage EXCEPT ![p] = "idle"]
    BY <1>1, StageOf, StageStep DEF IInv
<1>3. AbsMap' = [AbsMap EXCEPT ![i] = NoVal]
  <2>1. hash' = [hash EXCEPT ![i] = NULL]
    BY <1>1 DEF DeleteElement, Free, heap, IInv, TypeOK
  <2> QED
    BY <1>1, <2>1, RefFree
<1> QED
    BY <1>1, <1>2, <1>3 DEF Map!ADelete, Map!Effect

(* What the housekeeper reads of an element is its value: whoever holds    *)
(* the lock with it is a reader, or nobody.                                *)
LEMMA RefIterateFunc ==
    ASSUME IInv, NEW p \in Proc, IterateFunc(p)
    PROVE  (\E i \in Id : Map!ACollect(p, i) \/ Map!AClean(p, i)) \/ UNCHANGED Map!avars
<1> DEFINE a == ptr[p]
           i == eid[a]
<1>1. /\ pc[p] = "look" /\ UNCHANGED <<hash, call, out>> /\ pc' = [pc EXCEPT ![p] = "iter"]
      /\ a \in live /\ a \in Addr /\ i \in Id /\ call[p].kind = "housekeep"
    BY DEF IInv, TypeOK, CallInv, PtrInv, IterateFunc, Goto
<1>2. hash[i] = a /\ a # NULL
    BY <1>1, ElemsHashAssumption DEF IInv, HeapInv
<1>3. data1[a] = data2[a]
    BY <1>1 DEF IInv, PtrInv, ElemInv, DataInv, TypeOK
<1>4. AbsStage[p] = "busy" /\ AbsStage' = AbsStage
    BY <1>1, StageOf, StageSame DEF IInv
<1>5. AbsMap[i] = data1[a]
    BY <1>1, <1>2, <1>3 DEF AbsMap
<1>6. CASE UNCHANGED <<ids, data2>>
  <2>1. AbsMap' = AbsMap
    BY <1>1, <1>6 DEF AbsMap
  <2> QED
    BY <1>1, <1>4, <1>6, <2>1 DEF Map!avars
<1>7. CASE data1[a] \in Outdated /\ ids' = [ids EXCEPT ![p] = @ \cup {i}] /\ data2' = data2
  <2>1. AbsMap' = AbsMap
    BY <1>1, <1>7 DEF AbsMap
  <2>2. Map!ACollect(p, i)
    BY <1>1, <1>4, <1>5, <1>7, <2>1 DEF Map!ACollect, Map!Housekeeping
  <2> QED
    BY <1>1, <2>2
<1>8. CASE data1[a] \in Outdated /\ ids' = ids /\ data2' = [data2 EXCEPT ![a] = Empty]
  <2>1. ASSUME NEW j \in Id
        PROVE  (IF hash'[j] = NULL THEN NoVal ELSE data2'[hash'[j]]) = [AbsMap EXCEPT ![i] = Empty][j]
    <3>1. CASE j = i
      BY <1>1, <1>2, <1>8, <3>1 DEF AbsMap, IInv, TypeOK
    <3>2. CASE j # i
      <4>1. hash[j] # NULL => hash[j] # a /\ hash[j] \in Addr
        BY <1>1, <3>2 DEF IInv, HeapInv, TypeOK
      <4> QED
        BY <1>1, <1>8, <3>2, <4>1 DEF AbsMap, IInv, TypeOK
    <3> QED
      BY <3>1, <3>2
  <2>2. AbsMap' = [AbsMap EXCEPT ![i] = Empty]
    BY <2>1 DEF AbsMap
  <2>3. Map!AClean(p, i)
    BY <1>1, <1>4, <1>5, <1>8, <2>2 DEF Map!AClean, Map!Housekeeping
  <2> QED
    BY <1>1, <2>3
<1> QED
    BY <1>6, <1>7, <1>8 DEF IterateFunc

(* The end of the iteration is a return, or invisible when there is something to delete. *)
LEMMA RefIterateUnlock ==
    ASSUME IInv, NEW p \in Proc, IterateUnlock(p)
    PROVE  Map!AReturn(p) \/ UNCHANGED Map!avars
<1>1. /\ pc[p] = "iter" /\ call[p].kind = "housekeep" /\ AbsMap' = AbsMap /\ UNCHANGED <<call, out, ids>>
    BY DEF IInv, CallInv, IterateUnlock, heap, AbsMap
<1>2. CASE ids[p] = {}
  <2>1. AbsStage[p] = "busy" /\ AbsStage' = [AbsStage EXCEPT ![p] = "idle"]
    BY <1>2, StageOf, StageStep DEF IInv, IterateUnlock, Goto
  <2> QED
    BY <1>1, <1>2, <2>1 DEF Map!AReturn
<1>3. CASE ids[p] # {}
  <2>1. AbsStage' = AbsStage
    BY <1>1, <1>3, StageSame DEF IInv, IterateUnlock, Goto
  <2> QED
    BY <1>1, <2>1 DEF Map!avars
<1> QED
    BY <1>2, <1>3

(* Each id of a mass delete is purged from the map, if it is there. *)
LEMMA RefMassDelete ==
    ASSUME IInv, NEW p \in Proc, MassDelete(p)
    PROVE  \E i \in Id : Map!APurge(p, i)
<1>1. PICK i \in ids[p] : ids' = [ids EXCEPT ![p] = @ \ {i}] /\ (hash[i] # NULL => Free(i))
    BY DEF MassDelete
<1>2. i \in Id /\ hash[i] # NULL /\ call[p].kind = "housekeep" /\ pc[p] = "remove"
    BY DEF IInv, TypeOK, IdsInv, CallInv, MassDelete
<1>3. AbsMap' = [AbsMap EXCEPT ![i] = NoVal]
    BY <1>1, <1>2, RefFree DEF Free
<1>4. AbsStage[p] = "busy" /\ AbsStage' = AbsStage /\ UNCHANGED <<call, out>>
    BY <1>2, StageOf DEF MassDelete, AbsStage
<1> QED
    BY <1>1, <1>2, <1>3, <1>4 DEF Map!APurge, Map!Housekeeping

(* elems_hash is linearizable: every behaviour of the hash, whatever the   *)
(* number of processes, elements and addresses, is one of the atomic map,  *)
(* as far as the first use of a freed element (Wild), where the model of   *)
(* the hash ends.                                                          *)
THEOREM ElemsHashRefinement == Spec => Linearizable
<1>1. IInv /\ [Next]_vars => [Map!ANext]_(Map!avars)
  <2> SUFFICES ASSUME IInv, [Next]_vars PROVE Map!ANext \/ UNCHANGED Map!avars
    OBVIOUS
  <2>1. CASE UNCHANGED vars
    <3>1. UNCHANGED <<AbsMap, AbsStage, call, out, ids>>
      BY <2>1 DEF vars, heap, locals, AbsMap, AbsStage
    <3> QED
      BY <3>1 DEF Map!avars
  <2>2. ASSUME NEW p \in Proc, Call(p) PROVE Map!ANext
    <3>1. call[p].id \in Id
      BY DEF IInv, TypeOK
    <3>2. Map!ACall(p)
      BY <2>2, <3>1, RefBegin DEF Call, Set, Get, Delete, Housekeep
    <3> QED
      BY <3>2 DEF Map!ANext
  <2>3. ASSUME NEW p \in Proc, Step(p) PROVE Map!ANext \/ UNCHANGED Map!avars
    <3>1. \/ UNCHANGED Map!avars
          \/ Map!ASet(p) \/ Map!ASetFails(p) \/ Map!AGet(p) \/ Map!ADelete(p) \/ Map!AReturn(p)
          \/ \E i \in Id : Map!ACollect(p, i) \/ Map!APurge(p, i) \/ Map!AClean(p, i)
      BY <2>3, RefMetaLock, RefMassDeleteUnlock, RefProcess, RefSearchMissing, RefCreateElement,
         RefCreateFails, RefProcessFunc2, RefProcessUnlock, RefDeleteElement, RefIterateFunc,
         RefIterateUnlock, RefMassDelete DEF Step
    <3> QED
      BY <3>1 DEF Map!ANext
  <2> QED
    BY <2>1, <2>2, <2>3 DEF Next, Finished
<1> QED
    BY <1>1, RefInit, ElemsHashInvariant, PTL DEF Spec, Linearizable, Map!ASpec
==============================================================================
