----------------------- MODULE Ipc2Refinement_proofs -----------------------
(***************************************************************************)
(* Proofs about Ipc2Refinement.                                            *)
(***************************************************************************)
EXTENDS Ipc2Refinement, Ipc2_proofs, NatSets_proofs, SequenceTheorems

-----------------------------------------------------------------------------
(* Following the next pointers *)

(* Walk satisfies the equation that defines it. *)
LEMMA WalkStep ==
    ASSUME TypeOK
    PROVE  \E w : /\ \A a \in Ptr : Walk(a) = w[Cardinality(Addr)][a]
                  /\ \A n \in 0 .. Cardinality(Addr), x \in Ptr :
                        w[n][x] = IF x = NULL \/ n = 0 THEN << >> ELSE <<x>> \o w[n - 1][next[x]]
<1> DEFINE N == Cardinality(Addr)
           T == [Ptr -> Seq(Addr)]
           Step(w, n) == [x \in Ptr |-> IF x = NULL \/ n = 0 THEN << >> ELSE <<x>> \o w[n - 1][next[x]]]
           walk == CHOOSE w : w = [n \in 0 .. N |-> Step(w, n)]
           Part(m) == \E f \in [0 .. m -> T] : \A l \in 0 .. m : f[l] = Step(f, l)
<1>1. N \in Nat
    BY FiniteAssumption, FS_CardinalityType
<1>2. \A a \in Ptr : Walk(a) = walk[N][a]
    BY Zenon DEF Walk
<1>3. \A w : Step(w, 0) \in T
  <2>1. << >> \in Seq(Addr)
    OBVIOUS
  <2> QED
    BY <2>1
<1>4. ASSUME NEW w, NEW n \in 1 .. N, w[n - 1] \in T PROVE Step(w, n) \in T
  <2>1. ASSUME NEW x \in Ptr, x # NULL PROVE <<x>> \o w[n - 1][next[x]] \in Seq(Addr)
    <3>1. x \in Addr /\ next[x] \in Ptr
      BY <2>1 DEF TypeOK, Ptr
    <3>2. w[n - 1][next[x]] \in Seq(Addr) /\ <<x>> \in Seq(Addr)
      BY <1>4, <3>1
    <3> QED
      BY <3>2, ConcatProperties
  <2>2. << >> \in Seq(Addr)
    OBVIOUS
  <2> QED
    BY <2>1, <2>2
<1> HIDE DEF T, Step
<1>5. Part(N)
  <2>1. Part(0)
    <3> DEFINE f == [l \in 0 .. 0 |-> Step(<< >>, 0)]
    <3>1. Step(f, 0) = Step(<< >>, 0)
      BY DEF Step
    <3>2. f \in [0 .. 0 -> T] /\ \A l \in 0 .. 0 : f[l] = Step(f, l)
      BY <1>3, <3>1
    <3> QED
      BY <3>2, Zenon
  <2>2. ASSUME NEW n \in 1 .. N, Part(n - 1)
        PROVE  Part(n)
    <3>1. PICK f \in [0 .. n - 1 -> T] : \A l \in 0 .. n - 1 : f[l] = Step(f, l)
      BY <2>2
    <3> DEFINE h == [l \in 0 .. n |-> IF l = n THEN Step(f, n) ELSE f[l]]
    <3>2. Step(f, n) \in T
      <4>1. f[n - 1] \in T
        BY <1>1
      <4> QED
        BY <1>4, <4>1
    <3>3. h \in [0 .. n -> T]
      BY <3>2
    <3>4. ASSUME NEW l \in 0 .. n
          PROVE  h[l] = Step(h, l)
      <4>1. h[l] = Step(f, l)
        BY <3>1
      <4>2. Step(h, l) = Step(f, l)
        <5>1. l # 0 => h[l - 1] = f[l - 1]
          OBVIOUS
        <5> HIDE DEF h
        <5> QED
          BY <5>1, Zenon DEF Step
      <4> QED
        BY <4>1, <4>2
    <3> QED
      BY <3>3, <3>4
  <2> DEFINE P == {n \in 0 .. N : Part(n)}
  <2> HIDE DEF Part
  <2>3. 0 \in P /\ \A n \in 1 .. N : n - 1 \in P => n \in P
    BY <1>1, <2>1, <2>2
  <2> HIDE DEF P
  <2>4. \A n \in 0 .. N : n \in P
    BY <1>1, <2>3, Induct
  <2> QED
    BY <1>1, <2>4 DEF P
<1>6. walk = [n \in 0 .. N |-> Step(walk, n)]
  <2>1. PICK f \in [0 .. N -> T] : \A l \in 0 .. N : f[l] = Step(f, l)
    BY <1>5
  <2>2. f = [l \in 0 .. N |-> Step(f, l)]
    BY <2>1
  <2> QED
    BY <2>2, Zenon
<1> HIDE DEF walk
<1>7. \A n \in 0 .. N, x \in Ptr :
         walk[n][x] = IF x = NULL \/ n = 0 THEN << >> ELSE <<x>> \o walk[n - 1][next[x]]
  <2> SUFFICES ASSUME NEW n \in 0 .. N, NEW x \in Ptr
               PROVE  walk[n][x] = IF x = NULL \/ n = 0 THEN << >> ELSE <<x>> \o walk[n - 1][next[x]]
    BY Zenon
  <2>1. walk[n] = Step(walk, n)
    <3> PICK w : w = [l \in 0 .. N |-> Step(walk, l)]
      BY Zenon
    <3>1. w[n] = Step(walk, n)
      BY Zenon
    <3> QED
      BY <1>6, <3>1, Zenon
  <2>2. Step(walk, n)[x] = IF x = NULL \/ n = 0 THEN << >> ELSE <<x>> \o walk[n - 1][next[x]]
    BY Zenon DEF Step
  <2> QED
    BY <2>1, <2>2, Zenon
<1> WITNESS walk
<1> QED
    BY <1>2, <1>7, Zenon

(* Walk yields a list whose chunks are linked one to the next. *)
LEMMA WalkIs ==
    ASSUME TypeOK, NEW m \in 0 .. Cardinality(Addr), NEW f \in [1 .. m -> Addr],
           \A i \in 1 .. m : next[f[i]] = IF i = m THEN NULL ELSE f[i + 1]
    PROVE  Walk(IF m = 0 THEN NULL ELSE f[1]) = f
<1> DEFINE N == Cardinality(Addr)
           Rest(j) == [i \in 1 .. m - j |-> f[j + i]]
<1>1. N \in Nat /\ m \in Nat /\ m <= N /\ NULL \notin Addr
    BY FiniteAssumption, Ipc2Assumption, FS_CardinalityType
<1>2. PICK w : /\ \A a \in Ptr : Walk(a) = w[N][a]
               /\ \A n \in 0 .. N, x \in Ptr :
                     w[n][x] = IF x = NULL \/ n = 0 THEN << >> ELSE <<x>> \o w[n - 1][next[x]]
    BY WalkStep
<1> DEFINE P == {n \in 0 .. N : /\ w[n][NULL] = << >>
                                /\ \A j \in 0 .. m - 1 : m - j <= n => w[n][f[j + 1]] = Rest(j)}
<1>3. \A n \in 0 .. N : w[n][NULL] = << >>
    BY <1>2 DEF Ptr
<1>4. 0 \in P
    BY <1>1, <1>3
<1>5. ASSUME NEW n \in 1 .. N, n - 1 \in P PROVE n \in P
  <2>1. ASSUME NEW j \in 0 .. m - 1, m - j <= n PROVE w[n][f[j + 1]] = Rest(j)
    <3>1. j \in Nat /\ j + 1 \in 1 .. m /\ f[j + 1] \in Addr /\ f[j + 1] # NULL /\ f[j + 1] \in Ptr
      BY <1>1 DEF Ptr
    <3>2. w[n][f[j + 1]] = <<f[j + 1]>> \o w[n - 1][next[f[j + 1]]]
      <4>1. n \in 0 .. N /\ n # 0
        BY <1>1
      <4> QED
        BY <1>2, <3>1, <4>1, Zenon
    <3>3. CASE j + 1 = m
      <4>1. w[n][f[j + 1]] = <<f[j + 1]>> \o << >>
        <5>1. n - 1 \in 0 .. N /\ next[f[j + 1]] = NULL
          BY <1>1, <3>1, <3>3
        <5> QED
          BY <1>3, <3>2, <5>1, Zenon
      <4>2. <<f[j + 1]>> \o << >> = <<f[j + 1]>>
        BY <3>1
      <4>3. Rest(j) = <<f[j + 1]>>
        BY <1>1, <3>1, <3>3
      <4> QED
        BY <4>1, <4>2, <4>3
    <3>4. CASE j + 1 # m
      <4>1. j + 1 \in 0 .. m - 1 /\ m - (j + 1) <= n - 1
        BY <1>1, <2>1, <3>1, <3>4
      <4>2. w[n - 1][f[(j + 1) + 1]] = Rest(j + 1)
        BY <1>5, <4>1
      <4>3. next[f[j + 1]] = f[(j + 1) + 1]
        BY <3>1, <3>4
      <4>4. w[n][f[j + 1]] = <<f[j + 1]>> \o Rest(j + 1)
        BY <3>2, <4>2, <4>3
      <4>5. Rest(j + 1) \in Seq(Addr) /\ Len(Rest(j + 1)) = m - (j + 1)
        <5>1. \A i \in 1 .. m - (j + 1) : f[(j + 1) + i] \in Addr
          BY <1>1, <3>1
        <5> QED
          BY <1>1, <3>1, <4>1, <5>1
      <4>6. Rest(j) \in Seq(Addr) /\ Len(Rest(j)) = m - j
        <5>1. \A i \in 1 .. m - j : f[j + i] \in Addr
          BY <1>1, <3>1
        <5> QED
          BY <1>1, <3>1, <4>1, <5>1
      <4>7. <<f[j + 1]>> \in Seq(Addr) /\ Len(<<f[j + 1]>>) = 1
        BY <3>1
      <4>8. <<f[j + 1]>> \o Rest(j + 1) \in Seq(Addr) /\ Len(<<f[j + 1]>> \o Rest(j + 1)) = m - j
        BY <1>1, <3>1, <4>1, <4>5, <4>7, ConcatProperties
      <4>9. ASSUME NEW i \in 1 .. m - j PROVE (<<f[j + 1]>> \o Rest(j + 1))[i] = Rest(j)[i]
        <5>1. (<<f[j + 1]>> \o Rest(j + 1))[i] = IF i <= 1 THEN <<f[j + 1]>>[i] ELSE Rest(j + 1)[i - 1]
          BY <1>1, <3>1, <4>1, <4>5, <4>7, ConcatProperties
        <5>2. CASE i = 1
          BY <5>1, <5>2
        <5>3. CASE i # 1
          <6>1. i - 1 \in 1 .. m - (j + 1) /\ (j + 1) + (i - 1) = j + i
            BY <1>1, <3>1, <5>3
          <6> QED
            BY <5>1, <5>3, <6>1
        <5> QED
          BY <5>2, <5>3
      <4> HIDE DEF Rest
      <4>10. <<f[j + 1]>> \o Rest(j + 1) = Rest(j)
        BY <4>6, <4>8, <4>9, SeqEqual
      <4> QED
        BY <4>4, <4>10
    <3> QED
      BY <3>3, <3>4
  <2> QED
    BY <1>3, <2>1
<1> HIDE DEF P, Rest
<1>6. N \in P
  <2> HIDE DEF N
  <2>1. \A n \in 0 .. N : n \in P
    BY <1>1, <1>4, <1>5, Induct
  <2> QED
    BY <1>1, <2>1
<1>7. CASE m = 0
  <2>1. f = << >>
    BY <1>7
  <2>2. Walk(NULL) = << >>
    BY <1>1, <1>2, <1>3 DEF Ptr
  <2> QED
    BY <1>7, <2>1, <2>2
<1>8. CASE m # 0
  <2>1. 0 \in 0 .. m - 1 /\ f[0 + 1] = f[1] /\ f[1] \in Ptr
    BY <1>1, <1>8 DEF Ptr
  <2>2. w[N][f[1]] = Rest(0)
    BY <1>1, <1>6, <2>1 DEF P
  <2>3. Rest(0) = f
    BY <1>1 DEF Rest
  <2> QED
    BY <1>2, <1>8, <2>1, <2>2, <2>3
<1> QED
    BY <1>7, <1>8

-----------------------------------------------------------------------------
(* The numbers of the chunks *)

(* A linked chunk is known by its queue and its number. *)
Named == \A a \in Addr : home[a] # NULL => ChunkNo(home[a], stamp[a]) = a

LEMMA Names == IInv => Named
<1> SUFFICES ASSUME IInv, NEW a \in Addr, home[a] # NULL PROVE ChunkNo(home[a], stamp[a]) = a
    BY DEF Named
<1>1. \A b \in Addr : home[b] = home[a] /\ stamp[b] = stamp[a] => b = a
    BY DEF IInv, ListInv
<1> QED
    BY <1>1, Zenon DEF ChunkNo

(* There is a chunk of every number, and it is linked to the next one. *)
LEMMA Numbers ==
    ASSUME IInv, ThereInv, Named, NEW c \in Consumer, NEW k \in Oldest(c) .. linked[c]
    PROVE  /\ ChunkNo(c, k) \in Addr /\ home[ChunkNo(c, k)] = c /\ stamp[ChunkNo(c, k)] = k
           /\ next[ChunkNo(c, k)] = IF k \in {taken[c], linked[c]} THEN NULL ELSE ChunkNo(c, k + 1)
<1>1. PICK a \in Addr : home[a] = c /\ stamp[a] = k
    BY DEF ThereInv
<1>2. c # NULL
    BY Ipc2Assumption
<1>3. ChunkNo(c, k) = a
    BY <1>1, <1>2 DEF Named
<1>4. IF stamp[a] \in {taken[c], linked[c]}
        THEN next[a] = NULL
        ELSE next[a] \in Addr /\ home[next[a]] = c /\ stamp[next[a]] = stamp[a] + 1
    BY <1>1, <1>2 DEF IInv, ListInv
<1>5. k \notin {taken[c], linked[c]} => ChunkNo(c, k + 1) = next[a]
    BY <1>1, <1>2, <1>4 DEF Named
<1> QED
    BY <1>1, <1>3, <1>4, <1>5

(* The chunks of queue c from one number to another. *)
Run(c, lo, hi) == [i \in 1 .. hi + 1 - lo |-> ChunkNo(c, lo + i - 1)]

(* Walk follows them. *)
LEMMA WalkNumbers ==
    ASSUME IInv, ThereInv, Named, NEW c \in Consumer, NEW lo \in Nat, NEW hi \in {taken[c], linked[c]},
           Oldest(c) <= lo, lo <= hi + 1, hi <= linked[c], \A k \in lo .. hi - 1 : k # taken[c],
           NEW a, Points(a, c, lo, hi)
    PROVE  Walk(a) = Run(c, lo, hi)
<1> DEFINE m == hi + 1 - lo
           f == [i \in 1 .. m |-> ChunkNo(c, lo + i - 1)]
<1>1. TypeOK /\ linked[c] \in Nat /\ hi \in Nat /\ m \in Nat /\ Oldest(c) \in Nat
    BY DEF IInv, TypeOK, Oldest
<1>2. ASSUME NEW i \in 1 .. m
      PROVE  /\ f[i] \in Addr /\ home[f[i]] = c /\ stamp[f[i]] = lo + i - 1
             /\ next[f[i]] = IF i = m THEN NULL ELSE f[i + 1]
  <2> DEFINE k == lo + i - 1
  <2>1. k \in Oldest(c) .. linked[c] /\ f[i] = ChunkNo(c, k)
    BY <1>1
  <2>2. k \in {taken[c], linked[c]} <=> i = m
    BY <1>1
  <2>3. i # m => f[i + 1] = ChunkNo(c, k + 1)
    <3>1. i # m => i + 1 \in 1 .. m /\ lo + (i + 1) - 1 = k + 1
      BY <1>1
    <3> QED
      BY <3>1
  <2> HIDE DEF k, f
  <2>4. /\ f[i] \in Addr /\ home[f[i]] = c /\ stamp[f[i]] = k
        /\ next[f[i]] = IF k \in {taken[c], linked[c]} THEN NULL ELSE ChunkNo(c, k + 1)
    BY <2>1, Numbers
  <2> QED
    BY <2>2, <2>3, <2>4 DEF k
<1>3. f \in [1 .. m -> Addr]
    BY <1>2
<1>4. m <= Cardinality(Addr)
  <2>1. f \in Injection(1 .. m, Addr)
    <3>1. \A i, j \in 1 .. m : f[i] = f[j] => i = j
      <4> HIDE DEF f
      <4> QED
        BY <1>1, <1>2
    <3> HIDE DEF f
    <3> QED
      BY <1>3, <3>1 DEF Injection, IsInjective
  <2> HIDE DEF f, m
  <2>2. Cardinality(1 .. m) = m
    <3>1. m \in Nat
      BY <1>1
    <3> QED
      BY ONLY <3>1, FS_Interval
  <2>3. Cardinality(1 .. m) <= Cardinality(Addr)
    BY <2>1, FiniteAssumption, FS_Injection
  <2> QED
    BY <2>2, <2>3
<1>5. a = IF m = 0 THEN NULL ELSE f[1]
  <2>1. CASE m = 0
    BY <1>1, <2>1 DEF Points
  <2>2. CASE m # 0
    <3>1. a \in Addr /\ home[a] = c /\ stamp[a] = lo
      BY <1>1, <2>2 DEF Points
    <3>2. ChunkNo(c, lo) = a
      BY <3>1, Ipc2Assumption DEF Named
    <3>3. f[1] = ChunkNo(c, lo)
      BY <1>1, <2>2
    <3> QED
      BY <2>2, <3>2, <3>3
  <2> QED
    BY <2>1, <2>2
<1>6. m \in 0 .. Cardinality(Addr)
    BY <1>1, <1>4, FiniteAssumption, FS_CardinalityType
<1> HIDE DEF f, m
<1>7. Walk(a) = f
    BY <1>1, <1>2, <1>3, <1>5, <1>6, WalkIs
<1> QED
    BY <1>7 DEF f, m, Run

(* A run is a sequence of chunks. *)
LEMMA RunType ==
    ASSUME NEW c, NEW lo \in Nat, NEW hi \in Nat, lo <= hi + 1, \A k \in lo .. hi : ChunkNo(c, k) \in Addr
    PROVE  /\ Run(c, lo, hi) \in Seq(Addr) /\ Len(Run(c, lo, hi)) = hi + 1 - lo
           /\ \A i \in 1 .. hi + 1 - lo : Run(c, lo, hi)[i] = ChunkNo(c, lo + i - 1)
<1> DEFINE n == hi + 1 - lo
<1>1. n \in Nat /\ \A i \in 1 .. n : lo + i - 1 \in lo .. hi
    OBVIOUS
<1>2. Run(c, lo, hi) = [i \in 1 .. n |-> ChunkNo(c, lo + i - 1)]
    BY DEF Run
<1> HIDE DEF n
<1>3. Run(c, lo, hi) \in Seq(Addr) /\ Len(Run(c, lo, hi)) = n /\ \A i \in 1 .. n : Run(c, lo, hi)[i] = ChunkNo(c, lo + i - 1)
    BY <1>1, <1>2
<1> QED
    BY <1>3 DEF n

(* Two runs that follow one another are one. *)
LEMMA RunConcat ==
    ASSUME NEW c, NEW lo \in Nat, NEW mid \in Nat, NEW hi \in Nat, lo <= mid + 1, mid <= hi,
           \A k \in lo .. hi : ChunkNo(c, k) \in Addr
    PROVE  Run(c, lo, mid) \o Run(c, mid + 1, hi) = Run(c, lo, hi)
<1> DEFINE s == Run(c, lo, mid)
           t == Run(c, mid + 1, hi)
           u == Run(c, lo, hi)
<1>1. s \in Seq(Addr) /\ Len(s) = mid + 1 - lo /\ \A i \in 1 .. mid + 1 - lo : s[i] = ChunkNo(c, lo + i - 1)
  <2>1. \A k \in lo .. mid : ChunkNo(c, k) \in Addr
    OBVIOUS
  <2> QED
    BY <2>1, RunType
<1>2. t \in Seq(Addr) /\ Len(t) = hi - mid /\ \A i \in 1 .. hi - mid : t[i] = ChunkNo(c, mid + i)
  <2>1. \A k \in mid + 1 .. hi : ChunkNo(c, k) \in Addr
    OBVIOUS
  <2>2. mid + 1 \in Nat /\ mid + 1 <= hi + 1 /\ hi + 1 - (mid + 1) = hi - mid /\ \A i \in 1 .. hi - mid : (mid + 1) + i - 1 = mid + i
    OBVIOUS
  <2> QED
    BY <2>1, <2>2, RunType
<1>3. u \in Seq(Addr) /\ Len(u) = hi + 1 - lo /\ \A i \in 1 .. hi + 1 - lo : u[i] = ChunkNo(c, lo + i - 1)
  <2>1. lo <= hi + 1
    OBVIOUS
  <2> QED
    BY <2>1, RunType
<1> HIDE DEF s, t, u
<1>4. /\ s \o t \in Seq(Addr) /\ Len(s \o t) = Len(s) + Len(t)
      /\ \A i \in 1 .. Len(s) + Len(t) : (s \o t)[i] = IF i <= Len(s) THEN s[i] ELSE t[i - Len(s)]
    BY <1>1, <1>2, ConcatProperties
<1>5. Len(s \o t) = Len(u)
    BY <1>1, <1>2, <1>3, <1>4
<1>6. ASSUME NEW i \in 1 .. Len(s \o t) PROVE (s \o t)[i] = u[i]
  <2>1. i \in 1 .. hi + 1 - lo /\ u[i] = ChunkNo(c, lo + i - 1)
    BY <1>3, <1>5
  <2>2. CASE i <= Len(s)
    BY <1>1, <1>2, <1>4, <2>1, <2>2
  <2>3. CASE ~(i <= Len(s))
    <3>1. i - Len(s) \in 1 .. hi - mid /\ mid + (i - Len(s)) = lo + i - 1
      BY <1>1, <2>1, <2>3
    <3> QED
      BY <1>1, <1>2, <1>4, <2>1, <2>3, <3>1
  <2> QED
    BY <2>2, <2>3
<1>7. s \o t = u
    BY <1>3, <1>4, <1>5, <1>6, SeqEqual
<1> QED
    BY <1>7 DEF s, t, u

(* The chunks that are still to be processed. *)
LEMMA PendingIs ==
    ASSUME IInv, ThereInv, Named, NEW c \in Consumer
    PROVE  /\ Pending(c) = Run(c, rcvd[c] + 1, linked[c])
           /\ Pending(c) \in Seq(Addr) /\ Len(Pending(c)) = linked[c] - rcvd[c]
           /\ \A i \in 1 .. linked[c] - rcvd[c] : Pending(c)[i] = ChunkNo(c, rcvd[c] + i)
           /\ cpc[c] # "clear" => Walk(first[c]) = Run(c, taken[c] + 1, linked[c])
<1> DEFINE r == rcvd[c]
           t == taken[c]
           l == linked[c]
<1>1. r \in Nat /\ t \in Nat /\ l \in Nat /\ r <= t /\ t <= l /\ Oldest(c) \in {r, r + 1}
  <2>1. r \in Nat /\ t \in Nat /\ l \in Nat /\ sent[c] \in Nat
    BY DEF IInv, TypeOK
  <2>2. r <= t /\ t <= sent[c] /\ l \in {sent[c], sent[c] + 1}
    BY DEF IInv, QueueInv
  <2>3. Oldest(c) \in {r, r + 1}
    BY DEF Oldest
  <2> QED
    BY <2>1, <2>2, <2>3
<1>2. \A k \in r + 1 .. l : ChunkNo(c, k) \in Addr
    BY <1>1, Numbers
<1>3. Walk(first[c]) = Run(c, t + 1, l)
  <2>1. Points(first[c], c, t + 1, l)
    BY DEF IInv, QueueInv
  <2>2. t + 1 \in Nat /\ l \in {t, l} /\ Oldest(c) <= t + 1 /\ t + 1 <= l + 1 /\ \A k \in t + 1 .. l - 1 : k # t
    BY <1>1
  <2> QED
    BY <1>1, <2>1, <2>2, WalkNumbers
<1>4. ASSUME NEW lo \in {r + 1, r + 2}, lo <= t + 1, Points(rcvQueue[c], c, lo, t)
      PROVE  Walk(rcvQueue[c]) = Run(c, lo, t)
  <2>1. lo \in Nat /\ t \in {t, l} /\ Oldest(c) <= lo /\ t <= l /\ \A k \in lo .. t - 1 : k # t
    BY <1>1
  <2> QED
    BY <1>1, <1>4, <2>1, WalkNumbers
<1>5. /\ Run(c, r + 1, l) \in Seq(Addr) /\ Len(Run(c, r + 1, l)) = l - r
      /\ \A i \in 1 .. l - r : Run(c, r + 1, l)[i] = ChunkNo(c, r + i)
  <2> HIDE DEF r, t, l
  <2>1. r + 1 \in Nat /\ r + 1 <= l + 1 /\ l + 1 - (r + 1) = l - r /\ \A i \in 1 .. l - r : (r + 1) + i - 1 = r + i
    BY <1>1
  <2>2. /\ Run(c, r + 1, l) \in Seq(Addr) /\ Len(Run(c, r + 1, l)) = l + 1 - (r + 1)
        /\ \A i \in 1 .. l + 1 - (r + 1) : Run(c, r + 1, l)[i] = ChunkNo(c, (r + 1) + i - 1)
    BY <1>1, <1>2, <2>1, RunType
  <2> QED
    BY <2>1, <2>2, Zenon
<1>6. Run(c, r + 1, t) \o Run(c, t + 1, l) = Run(c, r + 1, l)
  <2>1. r + 1 \in Nat /\ r + 1 <= t + 1
    BY <1>1
  <2> QED
    BY <1>1, <1>2, <2>1, RunConcat, Zenon
<1>7. Run(c, r + 1, l) \in Seq(Addr) /\ Run(c, r + 1, t) \in Seq(Addr)
  <2>1. \A k \in r + 1 .. t : ChunkNo(c, k) \in Addr
    BY <1>1, <1>2
  <2>2. r + 1 \in Nat /\ r + 1 <= t + 1
    BY <1>1
  <2> QED
    BY <1>1, <1>5, <2>1, <2>2, RunType, Zenon
<1>8. Pending(c) = Run(c, r + 1, l)
  <2>1. CASE cpc[c] = "process"
    <3>1. r < t /\ Points(cur[c], c, r + 1, t) /\ Points(rcvQueue[c], c, r + 2, t)
      BY <2>1 DEF IInv, ConsumerInv
    <3>2. cur[c] = ChunkNo(c, r + 1)
      BY <1>1, <3>1, Ipc2Assumption DEF Points, Named
    <3>3. Walk(rcvQueue[c]) = Run(c, r + 2, t)
      BY <1>1, <1>4, <3>1
    <3>4. <<cur[c]>> = Run(c, r + 1, r + 1)
      BY <1>1, <3>2 DEF Run
    <3>5. Run(c, r + 1, r + 1) \o Run(c, (r + 1) + 1, t) = Run(c, r + 1, t)
      <4>1. \A k \in r + 1 .. t : ChunkNo(c, k) \in Addr
        BY <1>1, <1>2
      <4>2. r + 1 \in Nat /\ r + 1 <= (r + 1) + 1 /\ r + 1 <= t
        BY <1>1, <3>1
      <4> QED
        BY <1>1, <4>1, <4>2, RunConcat
    <3>6. (r + 1) + 1 = r + 2
      BY <1>1
    <3>7. Pending(c) = (<<cur[c]>> \o Walk(rcvQueue[c])) \o Walk(first[c])
      BY <2>1 DEF Pending
    <3> QED
      BY <1>3, <1>6, <3>3, <3>4, <3>5, <3>6, <3>7
  <2>2. CASE cpc[c] \in {"idle", "release", "take"}
    <3>1. Points(rcvQueue[c], c, r + 1, t)
      BY <1>1, <2>2 DEF IInv, ConsumerInv, Points
    <3>2. Walk(rcvQueue[c]) = Run(c, r + 1, t)
      BY <1>1, <1>4, <3>1
    <3>3. Pending(c) = (<< >> \o Run(c, r + 1, t)) \o Run(c, t + 1, l)
      BY <1>3, <2>2, <3>2 DEF Pending
    <3>4. << >> \o Run(c, r + 1, t) = Run(c, r + 1, t)
      BY <1>7, ConcatEmptySeq
    <3> QED
      BY <1>6, <3>3, <3>4
  <2>3. CASE cpc[c] = "clear"
    <3>1. r = t /\ rcvQueue[c] = first[c]
      BY <2>3 DEF IInv, ConsumerInv
    <3>2. Pending(c) = (<< >> \o Run(c, r + 1, l)) \o << >>
      BY <1>3, <2>3, <3>1 DEF Pending
    <3> QED
      BY <1>7, <3>2, ConcatEmptySeq
  <2> QED
    BY <2>1, <2>2, <2>3 DEF IInv, TypeOK, RecvStates
<1> QED
    BY <1>3, <1>5, <1>8

-----------------------------------------------------------------------------
(* The invariant RInv *)

LEMMA InitThere == Init => RInv
<1> SUFFICES ASSUME Init PROVE RInv
    OBVIOUS
<1>1. ThereInv
    BY DEF Init, ThereInv, Oldest
<1>2. MemoryInv
  <2> DEFINE f == [a \in live |-> chSize[a] + Header]
  <2>1. f \in [{} -> Nat]
    BY DEF Init
  <2>2. SumFunction(f) = 0
    BY <2>1, SumEmpty, Zenon
  <2> HIDE DEF f
  <2>3. free + SumFunction(f) = TotalMem
    BY <2>2, Ipc2Assumption DEF Init
  <2> QED
    BY <2>3 DEF MemoryInv, f
<1>3. ItemsInv
    BY DEF Init, ItemsInv
<1> QED
    BY <1>1, <1>2, <1>3 DEF RInv

(* A linked chunk that stays linked under its number is still the one known by it. *)
LEMMA SameNumber ==
    ASSUME IInv, ThereInv, Named, Named', NEW c \in Consumer, NEW k \in Oldest(c) .. linked[c],
           home'[ChunkNo(c, k)] = c, stamp'[ChunkNo(c, k)] = k
    PROVE  ChunkNo(c, k)' = ChunkNo(c, k)
<1>1. PICK a : a = ChunkNo(c, k)
    BY Zenon
<1>2. a \in Addr
    BY <1>1, Numbers
<1>3. c # NULL
    BY Ipc2Assumption
<1>4. ChunkNo(home[a], stamp[a])' = a
    BY <1>1, <1>2, <1>3 DEF Named
<1>5. home'[a] = c /\ stamp'[a] = k
    BY <1>1
<1>6. ChunkNo(home[a], stamp[a])' = ChunkNo(c, k)'
    BY <1>5, Zenon DEF ChunkNo
<1> QED
    BY <1>1, <1>4, <1>6

(* What waits in queue c does not change when its chunks do not. *)
LEMMA WaitingSame ==
    ASSUME IInv, ThereInv, Named, Named', NEW c \in Consumer, sent'[c] = sent[c], taken'[c] = taken[c],
           \A a \in Addr : home[a] = c /\ stamp[a] > taken[c]
                => home'[a] = c /\ stamp'[a] = stamp[a] /\ chItems'[a] = chItems[a]
    PROVE  Waiting(c)' = Waiting(c)
<1>1. /\ taken[c] \in Nat /\ sent[c] \in Nat /\ linked[c] \in Nat /\ Oldest(c) \in Nat
      /\ Oldest(c) <= taken[c] + 1 /\ sent[c] <= linked[c]
  <2>1. taken[c] \in Nat /\ sent[c] \in Nat /\ linked[c] \in Nat /\ rcvd[c] \in Nat
    BY DEF IInv, TypeOK
  <2>2. rcvd[c] <= taken[c] /\ linked[c] \in {sent[c], sent[c] + 1}
    BY DEF IInv, QueueInv
  <2> QED
    BY <2>1, <2>2 DEF Oldest
<1>2. ASSUME NEW i \in 1 .. sent[c] - taken[c]
      PROVE  chItems'[ChunkNo(c, taken[c] + i)'] = chItems[ChunkNo(c, taken[c] + i)]
  <2> DEFINE k == taken[c] + i
             a == ChunkNo(c, k)
  <2>1. k \in Oldest(c) .. linked[c] /\ k > taken[c]
    BY <1>1
  <2>2. a \in Addr /\ home[a] = c /\ stamp[a] = k
    <3> HIDE DEF k
    <3> QED
      BY <2>1, Numbers
  <2>3. home'[a] = c /\ stamp'[a] = k /\ chItems'[a] = chItems[a]
    BY <2>1, <2>2
  <2>4. PICK j : j = k
    BY Zenon
  <2>5. ChunkNo(c, j)' = ChunkNo(c, j)
    <3>1. j \in Oldest(c) .. linked[c] /\ home'[ChunkNo(c, j)] = c /\ stamp'[ChunkNo(c, j)] = j
      BY <2>1, <2>3, <2>4
    <3> QED
      BY <3>1, SameNumber
  <2>6. ChunkNo(c, taken[c] + i)' = ChunkNo(c, j)'
    BY <2>4, Zenon DEF ChunkNo
  <2> QED
    BY <2>3, <2>4, <2>5, <2>6
<1> QED
    BY <1>2 DEF Waiting

(* A step that leaves the chunks and the counters alone keeps RInv. *)
LEMMA Quiet ==
    ASSUME RInv,
           UNCHANGED <<live, free, chItems, chSize, items, sent, chunk, home, stamp, linked, taken>>,
           \A c \in Consumer : Oldest(c)' = Oldest(c),
           \A p \in Producer : ppc'[p] = "tailNext" => ppc[p] = "tailNext" /\ req'[p] = req[p]
    PROVE  RInv'
<1>1. ThereInv'
    BY DEF RInv, ThereInv
<1>2. MemoryInv'
    BY DEF RInv, MemoryInv
<1>3. ItemsInv'
  <2>1. \A c \in Consumer : Waiting(c)' = Waiting(c)
    BY DEF Waiting, ChunkNo
  <2> QED
    BY <2>1 DEF RInv, ItemsInv
<1> QED
    BY <1>1, <1>2, <1>3 DEF RInv

LEMMA QuietSteps ==
    ASSUME IInv, RInv, 
           \/ \E p \in Producer : \/ \E r \in Requests : Send(p, r)
                                  \/ PassWatermark(p)
                                  \/ \E c \in Consumer : DumpLock(p, c)
                                  \/ DumpUnlock(p)
                                  \/ Fill(p)
                                  \/ AddLock(p)
           \/ \E c \in Consumer : RcvLock(c) \/ RcvTake(c) \/ RcvPop(c) \/ RcvProcess(c)
           \/ UNCHANGED vars
    PROVE  RInv'
<1>1. UNCHANGED <<live, free, chItems, chSize, items, sent, chunk, home, stamp, linked, taken>>
    BY DEF Send, PassWatermark, DumpLock, DumpUnlock, Fill, AddLock, RcvLock, RcvTake, RcvPop, RcvProcess,
       vars, memVars, queueVars, sendVars, recvVars, histVars
<1>2. \A p \in Producer : ppc'[p] = "tailNext" => ppc[p] = "tailNext" /\ req'[p] = req[p]
  <2>1. CASE UNCHANGED <<ppc, req>>
    BY <2>1
  <2>2. ASSUME NEW p \in Producer, UNCHANGED req, NEW s \in {"malloc", "lock", "link"}, ppc' = [ppc EXCEPT ![p] = s]
        PROVE  \A q \in Producer : ppc'[q] = "tailNext" => ppc[q] = "tailNext" /\ req'[q] = req[q]
    BY <2>2 DEF IInv, TypeOK
  <2>3. ASSUME NEW p \in Producer, NEW r \in Requests, Send(p, r)
        PROVE  \A q \in Producer : ppc'[q] = "tailNext" => ppc[q] = "tailNext" /\ req'[q] = req[q]
    BY <2>3 DEF Send, IInv, TypeOK
  <2> QED
    BY <2>1, <2>2, <2>3 DEF PassWatermark, DumpLock, DumpUnlock, Fill, AddLock, RcvLock, RcvTake, RcvPop, RcvProcess,
       vars, sendVars
<1>3. \A c \in Consumer : Oldest(c)' = Oldest(c)
  <2>1. CASE UNCHANGED <<cpc, rcvd>>
    BY <2>1 DEF Oldest
  <2>2. ASSUME NEW c \in Consumer, RcvLock(c) \/ RcvTake(c) \/ RcvPop(c) \/ RcvProcess(c)
        PROVE  \A d \in Consumer : Oldest(d)' = Oldest(d)
    BY <2>2 DEF RcvLock, RcvTake, RcvPop, RcvProcess, Oldest, IInv, TypeOK, histVars
  <2> QED
    BY <2>1, <2>2 DEF Send, PassWatermark, DumpLock, DumpUnlock, Fill, AddLock, vars, recvVars, histVars
<1> QED
    BY <1>1, <1>2, <1>3, Quiet

(* What chunks of these sizes take from the segment, and one chunk more. *)
Total(L, size) == SumFunction([b \in L |-> size[b] + Header])

LEMMA MemoryAdd ==
    ASSUME NEW L \in SUBSET Addr, NEW a \in Addr, a \notin L,
           NEW old \in [Addr -> Nat], NEW new \in [Addr -> Nat], \A b \in L : new[b] = old[b]
    PROVE  Total(L \cup {a}, new) = (new[a] + Header) + Total(L, old) /\ Total(L, old) \in Nat
<1> DEFINE f == [b \in L |-> old[b] + Header]
           g == [b \in L \cup {a} |-> new[b] + Header]
<1>1. f \in [L -> Nat] /\ g \in [L \cup {a} -> Nat] /\ \A b \in L : g[b] = f[b]
    BY Ipc2Assumption
<1>2. IsFiniteSet(L)
    BY FiniteAssumption, FS_Subset
<1>3. g[a] = new[a] + Header
    OBVIOUS
<1> HIDE DEF f, g
<1>4. SumFunction(g) = g[a] + SumFunction(f) /\ SumFunction(f) \in Nat
  <2>1. f \in [L -> Nat]
    BY <1>1
  <2>2. g \in [L \cup {a} -> Nat]
    BY <1>1
  <2>3. \A b \in L : g[b] = f[b]
    BY <1>1
  <2> QED
    BY ONLY a \notin L, <1>2, <2>1, <2>2, <2>3, SumAdd
<1> QED
    BY <1>3, <1>4 DEF f, g, Total

(* malloc_func: the new chunk is in the hands of its sender. *)
LEMMA MallocThere ==
    ASSUME IInv, RInv, Named, Named', NEW p \in Producer, Malloc(p)
    PROVE  RInv'
<1>1. PICK a \in Addr \ live :
         /\ live' = live \cup {a}
         /\ chunk' = [chunk EXCEPT ![p] = a]
         /\ chItems' = [chItems EXCEPT ![a] = req[p].items]
         /\ chSize' = [chSize EXCEPT ![a] = req[p].size]
    BY DEF Malloc
<1>2. /\ free' = free - (req[p].size + Header)
      /\ UNCHANGED <<items, sent, req, home, stamp, linked, taken, cpc, rcvd>>
      /\ ppc' = [ppc EXCEPT ![p] = "fill"] /\ ppc[p] = "malloc"
      /\ req[p].size + Header <= free
    BY DEF Malloc, queueVars, recvVars, histVars
<1>3. /\ chunk[p] = NULL /\ home[a] = NULL
      /\ req[p].size \in Nat /\ free \in Nat /\ chSize \in [Addr -> Nat] /\ live \subseteq Addr
    BY <1>2, Ipc2Assumption DEF IInv, TypeOK, SenderInv, ListInv, Request
<1>4. ThereInv'
  <2>1. \A c \in Consumer : Oldest(c)' = Oldest(c)
    BY <1>2 DEF Oldest
  <2>2. ASSUME NEW b \in live' PROVE home'[b] # NULL \/ \E q \in Producer : chunk'[q] = b
    <3>1. CASE b = a
      BY <1>1, <3>1 DEF IInv, TypeOK
    <3>2. CASE b # a
      <4>1. b \in live /\ b # NULL
        BY <1>1, <3>2, <1>3, Ipc2Assumption
      <4> QED
        BY <1>1, <1>2, <1>3, <4>1 DEF RInv, ThereInv, IInv, TypeOK
    <3> QED
      BY <3>1, <3>2
  <2> QED
    BY <1>2, <2>1, <2>2 DEF RInv, ThereInv
<1>5. MemoryInv'
  <2>1. chSize' \in [Addr -> Nat] /\ \A b \in live : chSize'[b] = chSize[b]
    BY <1>1, <1>3
  <2>2. chSize'[a] = req[p].size
    BY <1>1, <1>3
  <2>3. Total(live \cup {a}, chSize') = (chSize'[a] + Header) + Total(live, chSize) /\ Total(live, chSize) \in Nat
    <3>1. a \in Addr /\ a \notin live /\ live \in SUBSET Addr
      BY <1>1, <1>3
    <3> QED
      BY ONLY <1>3, <2>1, <3>1, MemoryAdd
  <2>4. free + Total(live, chSize) = TotalMem
    BY DEF RInv, MemoryInv, Total
  <2>5. free' + Total(live \cup {a}, chSize') = TotalMem
    BY <1>2, <1>3, <2>2, <2>3, <2>4, Ipc2Assumption
  <2> QED
    BY <1>1, <2>5 DEF MemoryInv, Total
<1>6. ItemsInv'
  <2>1. \A c \in Consumer : Waiting(c)' = Waiting(c)
    <3> SUFFICES ASSUME NEW c \in Consumer PROVE Waiting(c)' = Waiting(c)
      OBVIOUS
    <3>1. \A b \in Addr : home[b] = c /\ stamp[b] > taken[c]
             => home'[b] = c /\ stamp'[b] = stamp[b] /\ chItems'[b] = chItems[b]
      BY <1>1, <1>2, <1>3, Ipc2Assumption DEF IInv, TypeOK
    <3> QED
      BY <1>2, <3>1, WaitingSame DEF RInv
  <2>2. \A q \in Producer : ppc'[q] = "tailNext" => ppc[q] = "tailNext"
    BY <1>2 DEF IInv, TypeOK
  <2> QED
    BY <1>2, <2>1, <2>2 DEF RInv, ItemsInv
<1> QED
    BY <1>4, <1>5, <1>6 DEF RInv

(* add_chunk_to_queue links the chunk: it becomes the last one. *)
LEMMA LinkThere ==
    ASSUME IInv, RInv, Named, Named', NEW p \in Producer, AddLinkFirst(p) \/ AddLinkNext(p)
    PROVE  RInv'
<1> DEFINE k == req[p].to
           a == chunk[p]
<1>1. /\ ppc[p] = "link" /\ Stamp(k, a)
      /\ UNCHANGED <<live, free, chItems, chSize, items, sent, chunk, req, cpc, taken, rcvd>>
    BY DEF AddLinkFirst, AddLinkNext, Stamp, memVars, queueVars, recvVars
<1>2. /\ k \in Consumer /\ a \in Addr /\ home[a] = NULL /\ NULL \notin Consumer
      /\ \A q \in Producer : InTail(q) => req[q].to # k
    BY <1>1, LinkContext, Ipc2Assumption
<1>3. /\ home' = [home EXCEPT ![a] = k]
      /\ stamp' = [stamp EXCEPT ![a] = linked[k] + 1]
      /\ linked' = [linked EXCEPT ![k] = linked[k] + 1]
    BY <1>1 DEF Stamp
<1>4. \A c \in Consumer : Oldest(c)' = Oldest(c) /\ Oldest(c) \in Nat /\ linked[c] \in Nat
    BY <1>1 DEF Oldest, IInv, TypeOK
<1>5. ThereInv'
  <2>1. ASSUME NEW c \in Consumer, NEW n \in Oldest(c) .. linked'[c]
        PROVE  \E b \in Addr : home'[b] = c /\ stamp'[b] = n
    <3>1. CASE c = k /\ n = linked[k] + 1
      BY <1>2, <1>3, <3>1 DEF IInv, TypeOK
    <3>2. CASE ~(c = k /\ n = linked[k] + 1)
      <4>1. n \in Oldest(c) .. linked[c]
        BY <1>2, <1>3, <1>4, <3>2 DEF IInv, TypeOK
      <4>2. PICK b \in Addr : home[b] = c /\ stamp[b] = n
        BY <4>1 DEF RInv, ThereInv
      <4>3. b # a
        BY <1>2, <4>2
      <4> QED
        BY <1>3, <4>2, <4>3 DEF IInv, TypeOK
    <3> QED
      BY <3>1, <3>2
  <2>2. ASSUME NEW b \in live PROVE home'[b] # NULL \/ \E q \in Producer : chunk[q] = b
    BY <1>2, <1>3 DEF RInv, ThereInv, IInv, TypeOK
  <2> QED
    BY <1>1, <1>4, <2>1, <2>2 DEF ThereInv
<1>6. MemoryInv'
    BY <1>1 DEF RInv, MemoryInv
<1>7. ItemsInv'
  <2>1. \A c \in Consumer : Waiting(c)' = Waiting(c)
    <3> SUFFICES ASSUME NEW c \in Consumer PROVE Waiting(c)' = Waiting(c)
      OBVIOUS
    <3>1. \A b \in Addr : home[b] = c /\ stamp[b] > taken[c]
             => home'[b] = c /\ stamp'[b] = stamp[b] /\ chItems'[b] = chItems[b]
      BY <1>1, <1>2, <1>3 DEF IInv, TypeOK
    <3> QED
      BY <1>1, <3>1, WaitingSame DEF RInv
  <2>2. ASSUME NEW q \in Producer, ppc'[q] = "tailNext" PROVE sent[req[q].to] # taken[req[q].to]
    <3>1. CASE AddLinkFirst(p)
      BY <2>2, <3>1 DEF AddLinkFirst, RInv, ItemsInv, IInv, TypeOK
    <3>2. CASE AddLinkNext(p) /\ q # p
      BY <2>2, <3>2 DEF AddLinkNext, RInv, ItemsInv, IInv, TypeOK
    <3>3. CASE AddLinkNext(p) /\ q = p
      <4>1. first[k] # NULL
        BY <3>3 DEF AddLinkNext
      <4>2. linked[k] = sent[k] /\ Points(first[k], k, taken[k] + 1, linked[k]) /\ taken[k] \in Nat /\ sent[k] \in Nat
        BY <1>2 DEF IInv, QueueInv, TypeOK
      <4> QED
        BY <3>3, <4>1, <4>2 DEF Points
    <3> QED
      BY <3>1, <3>2, <3>3
  <2> QED
    BY <1>1, <2>1, <2>2 DEF RInv, ItemsInv
<1> QED
    BY <1>5, <1>6, <1>7 DEF RInv

(* add_chunk_to_queue counts the chunk: q->items grows by what it carries. *)
LEMMA TailThere ==
    ASSUME IInv, RInv, Named, Named', NEW p \in Producer, AddTail(p)
    PROVE  RInv'
<1>0. PICK k, a : k = req[p].to /\ a = chunk[p]
    BY Zenon
<1>1. /\ ppc[p] \in {"tailFirst", "tailNext"}
      /\ items' = [items EXCEPT ![k] = IF ppc[p] = "tailFirst" THEN chItems[a] ELSE items[k] + chItems[a]]
      /\ sent' = [sent EXCEPT ![k] = sent[k] + 1]
      /\ chunk' = [chunk EXCEPT ![p] = NULL]
      /\ ppc' = [ppc EXCEPT ![p] = "idle"]
      /\ req' = [req EXCEPT ![p] = NoRequest]
      /\ UNCHANGED <<live, free, chItems, chSize, home, stamp, linked, taken, cpc, rcvd>>
    BY <1>0 DEF AddTail, memVars, recvVars, histVars
<1>2. /\ k \in Consumer /\ a \in Addr /\ a # NULL /\ home[a] = k /\ stamp[a] = linked[k] /\ InTail(p)
      /\ NULL \notin Consumer
  <2>1. k \in Consumer /\ InTail(p) /\ NULL \notin Consumer
    BY <1>0, <1>1, Ipc2Assumption DEF IInv, TypeOK, Request, InTail
  <2>2. a # NULL /\ a \in Addr
    BY <1>0, <1>1 DEF IInv, TypeOK, SenderInv, Ptr
  <2>3. home[a] = k /\ stamp[a] = linked[k]
    BY <1>0, <2>1 DEF IInv, SenderInv
  <2> QED
    BY <2>1, <2>2, <2>3
<1>3. /\ linked[k] = sent[k] + 1 /\ sent[k] \in Nat /\ taken[k] \in Nat /\ taken[k] <= sent[k]
      /\ rcvd[k] \in Nat /\ rcvd[k] <= taken[k]
    BY <1>0, <1>2 DEF IInv, QueueInv, TypeOK
<1>4. ThereInv'
  <2>1. \A c \in Consumer : Oldest(c)' = Oldest(c)
    BY <1>1 DEF Oldest
  <2>2. ASSUME NEW b \in live PROVE home[b] # NULL \/ \E q \in Producer : chunk'[q] = b
    BY <1>0, <1>1, <1>2 DEF RInv, ThereInv, IInv, TypeOK
  <2> QED
    BY <1>1, <2>1, <2>2 DEF RInv, ThereInv
<1>5. MemoryInv'
    BY <1>1 DEF RInv, MemoryInv
<1>6. ItemsInv'
  <2>1. ASSUME NEW c \in Consumer, c # k, sent'[c] # taken'[c] PROVE items'[c] = SumFunction(Waiting(c)')
    <3>1. sent'[c] = sent[c] /\ items'[c] = items[c]
      BY <1>1, <1>2, <2>1 DEF IInv, TypeOK
    <3>2. Waiting(c)' = Waiting(c)
      BY <1>1, <3>1, WaitingSame DEF RInv
    <3> QED
      BY <1>1, <2>1, <3>1, <3>2 DEF RInv, ItemsInv
  <2>2. items'[k] = SumFunction(Waiting(k)')
    <3> DEFINE n == sent[k] - taken[k]
               new == [i \in 1 .. n + 1 |-> chItems[ChunkNo(k, taken[k] + i)]]
    <3>1. n \in Nat /\ 1 .. n + 1 = (1 .. n) \cup {n + 1} /\ n + 1 \notin 1 .. n /\ IsFiniteSet(1 .. n)
          /\ taken[k] + (n + 1) = linked[k]
      <4>1. n \in Nat
        BY <1>3
      <4>2. IsFiniteSet(1 .. n)
        BY <4>1, FS_Interval
      <4> HIDE DEF n
      <4>3. taken[k] + (n + 1) = linked[k]
        BY <1>3 DEF n
      <4> QED
        BY <4>1, <4>2, <4>3
    <3>2. Waiting(k)' = new
      <4>1. sent'[k] - taken'[k] = n + 1
        BY <1>1, <1>2, <1>3 DEF IInv, TypeOK
      <4>2. \A i \in 1 .. n + 1 : ChunkNo(k, taken[k] + i)' = ChunkNo(k, taken[k] + i)
        BY <1>1 DEF ChunkNo
      <4> QED
        BY <1>1, <4>1, <4>2 DEF Waiting
    <3>3. new \in [1 .. n + 1 -> Nat] /\ Waiting(k) \in [1 .. n -> Nat]
      <4>1. ASSUME NEW i \in 1 .. n + 1 PROVE ChunkNo(k, taken[k] + i) \in Addr
        <5>1. taken[k] + i \in Oldest(k) .. linked[k]
          BY <1>3 DEF Oldest
        <5> HIDE DEF n
        <5> QED
          BY <1>2, <5>1, Numbers DEF RInv
      <4>2. n \in Nat /\ Waiting(k) = [i \in 1 .. n |-> chItems[ChunkNo(k, taken[k] + i)]]
        BY <3>1 DEF Waiting
      <4> HIDE DEF n
      <4> QED
        BY <4>1, <4>2 DEF IInv, TypeOK
    <3>4. \A i \in 1 .. n : new[i] = Waiting(k)[i]
      BY <3>1 DEF Waiting
    <3>5. new[n + 1] = chItems[a]
      <4>1. ChunkNo(k, linked[k]) = a
        BY <1>2 DEF Named
      <4> QED
        BY <3>1, <4>1
    <3>6. SumFunction(new) = new[n + 1] + SumFunction(Waiting(k)) /\ SumFunction(Waiting(k)) \in Nat
      <4> DEFINE old == Waiting(k)
                 x == n + 1
      <4>1. new \in [(1 .. n) \cup {x} -> Nat]
        BY <3>1, <3>3
      <4>2. old \in [1 .. n -> Nat] /\ \A i \in 1 .. n : new[i] = old[i]
        BY <3>3, <3>4
      <4>3. x \notin 1 .. n /\ IsFiniteSet(1 .. n)
        BY <3>1
      <4> HIDE DEF new, old, x, n
      <4>4. SumFunction(new) = new[x] + SumFunction(old) /\ SumFunction(old) \in Nat
        BY ONLY <4>1, <4>2, <4>3, SumAdd
      <4> QED
        BY <4>4 DEF old, x
    <3>7. chItems[a] \in Nat /\ items[k] \in Nat
      BY <1>2 DEF IInv, TypeOK
    <3>8. CASE ppc[p] = "tailFirst"
      <4>1. n = 0
        BY <1>0, <1>3, <3>8 DEF IInv, SenderInv
      <4>2. SumFunction(Waiting(k)) = 0
        <5>1. 1 .. 0 = {}
          OBVIOUS
        <5>2. Waiting(k) \in [{} -> Nat]
          BY <3>3, <4>1, <5>1
        <5> QED
          BY <5>2, SumEmpty
      <4>3. items'[k] = chItems[a]
        BY <1>1, <1>2, <3>8 DEF IInv, TypeOK
      <4> HIDE DEF new, n
      <4> QED
        BY <3>2, <3>5, <3>6, <3>7, <4>2, <4>3
    <3>9. CASE ppc[p] # "tailFirst"
      <4>1. sent[k] # taken[k]
        BY <1>0, <1>1, <3>9 DEF RInv, ItemsInv
      <4>2. items[k] = SumFunction(Waiting(k))
        BY <1>2, <4>1 DEF RInv, ItemsInv
      <4>3. items'[k] = items[k] + chItems[a]
        BY <1>1, <1>2, <3>9 DEF IInv, TypeOK
      <4> HIDE DEF new, n
      <4> QED
        BY <3>2, <3>5, <3>6, <3>7, <4>2, <4>3
    <3> QED
      BY <3>8, <3>9
  <2>3. ASSUME NEW q \in Producer, ppc'[q] = "tailNext" PROVE sent'[req'[q].to] # taken[req'[q].to]
    <3>1. q # p /\ ppc[q] = "tailNext" /\ req'[q] = req[q]
      BY <1>1, <2>3 DEF IInv, TypeOK
    <3>2. req[q].to # k
      <4>1. Holding(p, k)
        BY <1>0, <1>1 DEF Holding
      <4>2. req[q].to = k => Holding(q, k)
        BY <3>1 DEF Holding
      <4> QED
        BY <1>2, <3>1, <4>1, <4>2 DEF IInv, LockInv
    <3> QED
      BY <1>1, <3>1, <3>2 DEF RInv, ItemsInv, IInv, TypeOK
  <2> QED
    BY <1>1, <2>1, <2>2, <2>3 DEF ItemsInv
<1> QED
    BY <1>4, <1>5, <1>6 DEF RInv

(* The consumer takes the list: nothing waits in the queue. *)
LEMMA ClearThere ==
    ASSUME IInv, RInv, Named, Named', NEW c \in Consumer, RcvClear(c)
    PROVE  RInv'
<1>1. /\ cpc[c] = "clear" /\ cpc' = [cpc EXCEPT ![c] = "idle"]
      /\ taken' = [taken EXCEPT ![c] = sent[c]]
      /\ UNCHANGED <<live, free, chItems, chSize, items, sent, ppc, req, chunk, home, stamp, linked, rcvd>>
    BY DEF RcvClear, memVars, sendVars
<1>2. \A q \in Producer : InTail(q) => req[q].to # c
  <2>1. \A q \in Producer : lock[c] # q
    BY <1>1, Ipc2Assumption DEF IInv, LockInv
  <2> QED
    BY <2>1 DEF IInv, LockInv, Holding, InTail
<1>3. \A d \in Consumer : Oldest(d)' = Oldest(d)
    BY <1>1 DEF Oldest, IInv, TypeOK
<1>4. ThereInv'
    BY <1>1, <1>3 DEF RInv, ThereInv
<1>5. MemoryInv'
    BY <1>1 DEF RInv, MemoryInv
<1>6. ItemsInv'
  <2>1. ASSUME NEW d \in Consumer, sent'[d] # taken'[d] PROVE items'[d] = SumFunction(Waiting(d)')
    <3>1. d # c /\ taken'[d] = taken[d]
      BY <1>1, <2>1 DEF IInv, TypeOK
    <3>2. Waiting(d)' = Waiting(d)
      BY <1>1, <3>1, WaitingSame DEF RInv
    <3> QED
      BY <1>1, <2>1, <3>1, <3>2 DEF RInv, ItemsInv
  <2>2. ASSUME NEW q \in Producer, ppc'[q] = "tailNext" PROVE sent[req[q].to] # taken'[req[q].to]
    <3>1. req[q].to # c
      BY <1>1, <1>2, <2>2 DEF InTail
    <3> QED
      BY <1>1, <2>2, <3>1 DEF RInv, ItemsInv, IInv, TypeOK
  <2> QED
    BY <1>1, <2>1, <2>2 DEF ItemsInv
<1> QED
    BY <1>4, <1>5, <1>6 DEF RInv

(* free_func: the chunk returns what it took. *)
LEMMA ReleaseThere ==
    ASSUME IInv, RInv, Named, Named', NEW c \in Consumer, RcvRelease(c)
    PROVE  RInv'
<1> DEFINE a == cur[c]
<1>1. /\ cpc[c] = "release" /\ cpc' = [cpc EXCEPT ![c] = "idle"]
      /\ live' = live \ {a}
      /\ free' = free + chSize[a] + Header
      /\ home' = [home EXCEPT ![a] = NULL]
      /\ UNCHANGED <<chItems, chSize, items, sent, ppc, req, chunk, stamp, linked, taken, rcvd>>
    BY DEF RcvRelease, queueVars, sendVars
<1>2. /\ a \in Addr /\ home[a] = c /\ stamp[a] = rcvd[c] /\ a \in live /\ c # NULL
      /\ rcvd[c] \in Nat /\ taken[c] \in Nat /\ rcvd[c] <= taken[c]
    BY <1>1, Ipc2Assumption DEF IInv, ConsumerInv, ListInv, QueueInv, Points, TypeOK
<1>3. ThereInv'
  <2>1. ASSUME NEW d \in Consumer, NEW n \in Oldest(d)' .. linked[d] PROVE \E b \in Addr : home'[b] = d /\ stamp[b] = n
    <3>1. n \in Oldest(d) .. linked[d] /\ ~(d = c /\ n = rcvd[c])
      BY <1>1, <1>2 DEF Oldest, IInv, TypeOK
    <3>2. PICK b \in Addr : home[b] = d /\ stamp[b] = n
      BY <3>1 DEF RInv, ThereInv
    <3>3. b # a
      BY <1>2, <3>1, <3>2
    <3> QED
      BY <1>1, <3>2, <3>3 DEF IInv, TypeOK
  <2>2. ASSUME NEW b \in live' PROVE home'[b] # NULL \/ \E q \in Producer : chunk[q] = b
    BY <1>1 DEF RInv, ThereInv, IInv, TypeOK
  <2> QED
    BY <1>1, <2>1, <2>2 DEF ThereInv
<1>4. MemoryInv'
  <2> DEFINE L == live \ {a}
  <2>1. L \in SUBSET Addr /\ a \notin L /\ L \cup {a} = live /\ chSize \in [Addr -> Nat] /\ free \in Nat /\ chSize[a] \in Nat
    BY <1>2 DEF IInv, TypeOK
  <2> HIDE DEF L
  <2>2. Total(L \cup {a}, chSize) = (chSize[a] + Header) + Total(L, chSize) /\ Total(L, chSize) \in Nat
    BY <1>2, <2>1, MemoryAdd
  <2>3. free + Total(live, chSize) = TotalMem
    BY DEF RInv, MemoryInv, Total
  <2>4. Total(L \cup {a}, chSize) = Total(live, chSize)
    BY <2>1
  <2>5. free' = free + chSize[a] + Header
    BY <1>1
  <2>6. free' + Total(L, chSize) = TotalMem
    BY <2>1, <2>2, <2>3, <2>4, <2>5, Ipc2Assumption
  <2> QED
    BY <1>1, <2>6 DEF MemoryInv, Total, L
<1>5. ItemsInv'
  <2>1. ASSUME NEW d \in Consumer PROVE Waiting(d)' = Waiting(d)
    <3>1. \A b \in Addr : home[b] = d /\ stamp[b] > taken[d]
             => home'[b] = d /\ stamp'[b] = stamp[b] /\ chItems'[b] = chItems[b]
      BY <1>1, <1>2 DEF IInv, TypeOK
    <3> QED
      BY <1>1, <3>1, WaitingSame DEF RInv
  <2> QED
    BY <1>1, <2>1 DEF RInv, ItemsInv
<1> QED
    BY <1>3, <1>4, <1>5 DEF RInv

LEMMA NextThere == IInv /\ RInv /\ Named /\ Named' /\ [Next]_vars => RInv'
<1> SUFFICES ASSUME IInv, RInv, Named, Named', [Next]_vars PROVE RInv'
    OBVIOUS
<1>1. ASSUME NEW p \in Producer, Malloc(p) \/ AddLinkFirst(p) \/ AddLinkNext(p) \/ AddTail(p) PROVE RInv'
    BY <1>1, MallocThere, LinkThere, TailThere
<1>2. ASSUME NEW c \in Consumer, RcvClear(c) \/ RcvRelease(c) PROVE RInv'
    BY <1>2, ClearThere, ReleaseThere
<1> QED
    BY <1>1, <1>2, QuietSteps DEF Next

(* The numbering is complete, and free_size and q->items account for the   *)
(* chunks, in every state the queues can reach.                            *)
THEOREM ChannelInvariant == Spec => [](IInv /\ RInv /\ Named)
<1> QED
    BY InitThere, Names, NextThere, Ipc2Invariant, PTL DEF Spec

-----------------------------------------------------------------------------
(* What the statistics report *)

(* In a queue nobody has locked the numbering ends with the chunks sent. *)
LEMMA Backlog ==
    ASSUME IInv, RInv, Named, NEW c \in Consumer, lock[c] = NULL
    PROVE  /\ SumItems(Walk(first[c])) = SumFunction(Waiting(c))
           /\ SumFunction(Waiting(c)) \in Nat /\ SumFunction(Waiting(c)) <= items[c]
           /\ first[c] # NULL => items[c] = SumFunction(Waiting(c))
<1>1. cpc[c] # "clear" /\ linked[c] = sent[c]
  <2>1. cpc[c] \notin {"take", "clear"} /\ \A p \in Producer : ~Holding(p, c)
    BY Ipc2Assumption DEF IInv, LockInv
  <2>2. \A p \in Producer : InTail(p) => req[p].to # c
    BY <2>1 DEF InTail, Holding
  <2> QED
    BY <2>1, <2>2 DEF IInv, QueueInv
<1>2. /\ taken[c] \in Nat /\ sent[c] \in Nat /\ rcvd[c] \in Nat /\ items[c] \in Nat
      /\ rcvd[c] <= taken[c] /\ taken[c] <= sent[c]
    BY DEF IInv, TypeOK, QueueInv
<1> DEFINE n == sent[c] - taken[c]
<1>3. n \in Nat /\ IsFiniteSet(1 .. n)
  <2>1. n \in Nat
    BY <1>2
  <2> HIDE DEF n
  <2> QED
    BY <2>1, FS_Interval
<1>4. Waiting(c) \in [1 .. n -> Nat]
  <2>1. ASSUME NEW i \in 1 .. n PROVE ChunkNo(c, taken[c] + i) \in Addr
    <3>1. taken[c] + i \in Oldest(c) .. linked[c]
      BY <1>1, <1>2 DEF Oldest
    <3> QED
      BY <3>1, Numbers DEF RInv
  <2> QED
    BY <2>1 DEF Waiting, IInv, TypeOK
<1>5. SumItems(Walk(first[c])) = SumFunction(Waiting(c))
  <2>1. Walk(first[c]) = Run(c, taken[c] + 1, sent[c])
    BY <1>1, PendingIs DEF RInv
  <2>2. sent[c] + 1 - (taken[c] + 1) = n /\ \A i \in 1 .. n : taken[c] + 1 + i - 1 = taken[c] + i
    BY <1>2
  <2>3. Walk(first[c]) = [i \in 1 .. n |-> ChunkNo(c, taken[c] + i)]
    BY <2>1, <2>2 DEF Run
  <2>4. [i \in DOMAIN Walk(first[c]) |-> chItems[Walk(first[c])[i]]] = Waiting(c)
    BY <2>3 DEF Waiting
  <2> QED
    BY <2>4 DEF SumItems
<1>6. SumFunction(Waiting(c)) \in Nat
    BY <1>3, <1>4, SumIsCells
<1>7. sent[c] = taken[c] => SumFunction(Waiting(c)) = 0
  <2>1. sent[c] = taken[c] => 1 .. n = {}
    BY <1>2
  <2> QED
    BY <1>4, <2>1, SumEmpty
<1>8. sent[c] # taken[c] => items[c] = SumFunction(Waiting(c))
    BY DEF RInv, ItemsInv
<1>9. first[c] # NULL => sent[c] # taken[c]
    BY <1>1, <1>2 DEF IInv, QueueInv, Points
<1> QED
    BY <1>2, <1>5, <1>6, <1>7, <1>8, <1>9

(* QueueSizeCoversBacklog, for every number of senders, consumers and      *)
(* chunks: what ipc2_get_queue_size reports is at least what waits, and    *)
(* q->items is exact for every queue with something in it.                 *)
THEOREM QueueSizeIsEnough == Spec => []QueueSizeCoversBacklog
<1>1. IInv /\ RInv /\ Named => QueueSizeCoversBacklog
  <2> SUFFICES ASSUME IInv, RInv, Named PROVE QueueSizeCoversBacklog
    OBVIOUS
  <2>1. ASSUME NEW c \in Consumer, lock[c] = NULL, first[c] # NULL PROVE items[c] = SumItems(Walk(first[c]))
    BY <2>1, Backlog
  <2>2. ASSUME \A c \in Consumer : lock[c] = NULL
        PROVE  SumFunction(items) >= SumFunction([c \in Consumer |-> SumItems(Walk(first[c]))])
    <3> DEFINE f == [c \in Consumer |-> SumItems(Walk(first[c]))]
    <3>1. \A c \in Consumer : SumItems(Walk(first[c])) \in Nat /\ SumItems(Walk(first[c])) <= items[c]
      BY <2>2, Backlog
    <3>2. f \in [Consumer -> Nat] /\ items \in [Consumer -> Nat] /\ \A c \in Consumer : f[c] <= items[c]
      BY <3>1 DEF IInv, TypeOK
    <3> HIDE DEF f
    <3>3. SumFunction(f) <= SumFunction(items)
      BY ONLY FiniteAssumption, <3>2, SumMonotone
    <3>4. SumFunction(f) \in Nat /\ SumFunction(items) \in Nat
      BY <3>2, FiniteAssumption, SumIsCells
    <3>5. SumFunction(items) >= SumFunction(f)
      BY <3>3, <3>4
    <3> QED
      BY <3>5 DEF f
  <2> QED
    BY <2>1, <2>2 DEF QueueSizeCoversBacklog, QueueSize
<1> QED
    BY <1>1, ChannelInvariant, PTL

(* MemoryAccounted, for every number of senders, consumers and chunks: the *)
(* chunks the program can still reach are the allocated ones, and          *)
(* free_size is what they leave of the segment.                            *)
THEOREM NothingLeaks == Spec => []MemoryAccounted
<1>1. IInv /\ RInv /\ Named => MemoryAccounted
  <2> SUFFICES ASSUME IInv, RInv, Named PROVE MemoryAccounted
    OBVIOUS
  <2>1. ASSUME NEW p \in Producer, chunk[p] # NULL PROVE chunk[p] \in live
    BY <2>1 DEF IInv, SenderInv
  <2>2. ASSUME NEW c \in Consumer, cur[c] # NULL PROVE cur[c] \in live
    BY <2>2, Ipc2Assumption DEF IInv, ConsumerInv, QueueInv, Points, ListInv, TypeOK
  <2>3. ASSUME NEW c \in Consumer
        PROVE  /\ rcvd[c] \in Nat /\ linked[c] \in Nat
               /\ DOMAIN Pending(c) = 1 .. linked[c] - rcvd[c]
               /\ \A i \in 1 .. linked[c] - rcvd[c] : Pending(c)[i] = ChunkNo(c, rcvd[c] + i)
    <3>1. /\ Pending(c) \in Seq(Addr) /\ Len(Pending(c)) = linked[c] - rcvd[c]
          /\ \A i \in 1 .. linked[c] - rcvd[c] : Pending(c)[i] = ChunkNo(c, rcvd[c] + i)
      BY PendingIs DEF RInv
    <3> QED
      BY <3>1 DEF IInv, TypeOK
  <2>4. ASSUME NEW c \in Consumer, NEW i \in DOMAIN Pending(c) PROVE Pending(c)[i] \in live
    <3>1. rcvd[c] + i \in Oldest(c) .. linked[c]
      BY <2>3 DEF Oldest
    <3>2. Pending(c)[i] = ChunkNo(c, rcvd[c] + i)
      BY <2>3
    <3>3. PICK k : k = rcvd[c] + i
      BY Zenon
    <3>4. ChunkNo(c, k) \in Addr /\ home[ChunkNo(c, k)] = c
      BY <3>1, <3>3, Numbers DEF RInv
    <3> QED
      BY <3>2, <3>3, <3>4, Ipc2Assumption DEF IInv, ListInv
  <2>5. ASSUME NEW a \in live, \A p \in Producer : chunk[p] # a
        PROVE  \E c \in Consumer : a = cur[c] \/ \E i \in DOMAIN Pending(c) : a = Pending(c)[i]
    <3>1. PICK c \in Consumer : home[a] = c
      BY <2>5 DEF RInv, ThereInv, IInv, TypeOK
    <3>2. /\ a \in Addr /\ home[a] # NULL /\ stamp[a] \in Nat
          /\ Oldest(c) <= stamp[a] /\ stamp[a] <= linked[c]
          /\ \A b \in Addr : home[b] = c /\ stamp[b] = stamp[a] => b = a
      BY <3>1, Ipc2Assumption DEF IInv, TypeOK, ListInv
    <3>3. CASE stamp[a] = rcvd[c]
      <4>1. cpc[c] = "release"
        BY <2>3, <3>2, <3>3 DEF Oldest
      <4>2. Points(cur[c], c, rcvd[c], taken[c]) /\ rcvd[c] <= taken[c] /\ taken[c] \in Nat
        BY <4>1 DEF IInv, ConsumerInv, QueueInv, TypeOK
      <4>3. cur[c] = a
        BY <2>3, <3>2, <3>3, <4>2 DEF Points
      <4> QED
        BY <4>3
    <3>4. CASE stamp[a] # rcvd[c]
      <4> DEFINE i == stamp[a] - rcvd[c]
      <4>1. i \in 1 .. linked[c] - rcvd[c] /\ rcvd[c] + i = stamp[a]
        BY <2>3, <3>2, <3>4 DEF Oldest
      <4>2. ChunkNo(c, stamp[a]) = a
        BY <3>1, <3>2 DEF Named
      <4>3. i \in DOMAIN Pending(c) /\ Pending(c)[i] = a
        BY <2>3, <4>1, <4>2
      <4> QED
        BY <4>3
    <3> QED
      BY <3>3, <3>4
  <2>6. Reachable \ {NULL} = live
    <3>1. \A a : a \in Reachable <=> \/ \E p \in Producer : a = chunk[p]
                                     \/ \E c \in Consumer : a = cur[c]
                                     \/ \E c \in Consumer : a \in Range(Pending(c))
      BY DEF Reachable
    <3>2. ASSUME NEW a \in Reachable, a # NULL PROVE a \in live
      <4>1. CASE \E p \in Producer : a = chunk[p]
        BY <2>1, <3>2, <4>1
      <4>2. CASE \E c \in Consumer : a = cur[c]
        BY <2>2, <3>2, <4>2
      <4>3. ASSUME NEW c \in Consumer, a \in Range(Pending(c)) PROVE a \in live
        <5>1. PICK i \in DOMAIN Pending(c) : a = Pending(c)[i]
          BY <4>3, Zenon DEF Range
        <5> QED
          BY <2>4, <5>1
      <4> QED
        BY <3>1, <4>1, <4>2, <4>3
    <3>3. ASSUME NEW a \in live PROVE a \in Reachable /\ a # NULL
      <4>1. a # NULL
        BY Ipc2Assumption DEF IInv, TypeOK
      <4>2. ASSUME NEW c \in Consumer, NEW i \in DOMAIN Pending(c), a = Pending(c)[i] PROVE a \in Range(Pending(c))
        BY <4>2, Zenon DEF Range
      <4>3. a \in Reachable
        BY <2>5, <3>1, <4>2
      <4> QED
        BY <4>1, <4>3
    <3> QED
      BY <3>2, <3>3
  <2> QED
    BY <2>6 DEF MemoryAccounted, RInv, MemoryInv
<1> QED
    BY <1>1, ChannelInvariant, PTL

-----------------------------------------------------------------------------
(* The channel *)

(* The messages a consumer has still to be given, by their numbers. *)
Mail(c) == [i \in 1 .. linked[c] - rcvd[c] |-> data[ChunkNo(c, rcvd[c] + i)]]

(* They are what FifoChannel sees, *)
Shape == \A c \in Consumer : Contents(c) = Mail(c)

LEMMA ContentsIs == IInv /\ RInv /\ Named => Shape
<1> SUFFICES ASSUME IInv, RInv, Named, NEW c \in Consumer PROVE Contents(c) = Mail(c)
    BY DEF Shape
<1>1. /\ Len(Pending(c)) = linked[c] - rcvd[c]
      /\ \A i \in 1 .. linked[c] - rcvd[c] : Pending(c)[i] = ChunkNo(c, rcvd[c] + i)
    BY PendingIs DEF RInv
<1> QED
    BY <1>1 DEF Contents, Mail

(* and there is one for every number. *)
LEMMA MailType ==
    ASSUME IInv, RInv, Named, NEW c \in Consumer
    PROVE  /\ rcvd[c] \in Nat /\ linked[c] \in Nat /\ linked[c] - rcvd[c] \in Nat
           /\ \A k \in rcvd[c] + 1 .. linked[c] :
                /\ k \in Oldest(c) .. linked[c]
                /\ ChunkNo(c, k) \in Addr /\ home[ChunkNo(c, k)] = c /\ stamp[ChunkNo(c, k)] = k
           /\ Mail(c) \in Seq(Msg \cup {NULL}) /\ Len(Mail(c)) = linked[c] - rcvd[c]
           /\ \A i \in 1 .. linked[c] - rcvd[c] : Mail(c)[i] = data[ChunkNo(c, rcvd[c] + i)]
<1>1. rcvd[c] \in Nat /\ linked[c] \in Nat /\ rcvd[c] <= linked[c]
  <2>1. rcvd[c] \in Nat /\ taken[c] \in Nat /\ sent[c] \in Nat /\ linked[c] \in Nat
    BY DEF IInv, TypeOK
  <2>2. rcvd[c] <= taken[c] /\ taken[c] <= sent[c] /\ linked[c] \in {sent[c], sent[c] + 1}
    BY DEF IInv, QueueInv
  <2> QED
    BY <2>1, <2>2
<1>2. ASSUME NEW k \in rcvd[c] + 1 .. linked[c]
      PROVE  /\ k \in Oldest(c) .. linked[c]
             /\ ChunkNo(c, k) \in Addr /\ home[ChunkNo(c, k)] = c /\ stamp[ChunkNo(c, k)] = k
  <2>1. k \in Oldest(c) .. linked[c]
    BY <1>1 DEF Oldest
  <2> QED
    BY <2>1, Numbers DEF RInv
<1> DEFINE n == linked[c] - rcvd[c]
           m == [i \in 1 .. n |-> data[ChunkNo(c, rcvd[c] + i)]]
<1>3. n \in Nat
    BY <1>1
<1>4. ASSUME NEW i \in 1 .. n PROVE data[ChunkNo(c, rcvd[c] + i)] \in Msg \cup {NULL}
  <2>1. rcvd[c] + i \in rcvd[c] + 1 .. linked[c]
    BY <1>1
  <2>2. ChunkNo(c, rcvd[c] + i) \in Addr
    BY <1>2, <2>1
  <2> QED
    BY <2>2 DEF IInv, TypeOK
<1>5. Mail(c) = m
    BY DEF Mail
<1> HIDE DEF n
<1>6. m \in Seq(Msg \cup {NULL}) /\ Len(m) = n /\ \A i \in 1 .. n : m[i] = data[ChunkNo(c, rcvd[c] + i)]
    BY <1>3, <1>4
<1> HIDE DEF m
<1> QED
    BY <1>1, <1>2, <1>3, <1>5, <1>6 DEF n

(* A channel does not change when its chunks do not. *)
LEMMA MailSame ==
    ASSUME IInv, RInv, Named, Named', NEW c \in Consumer, rcvd'[c] = rcvd[c], linked'[c] = linked[c],
           \A a \in Addr : home[a] = c /\ stamp[a] > rcvd[c]
                => home'[a] = c /\ stamp'[a] = stamp[a] /\ data'[a] = data[a]
    PROVE  Mail(c)' = Mail(c)
<1>1. ASSUME NEW i \in 1 .. linked[c] - rcvd[c]
      PROVE  data'[ChunkNo(c, rcvd[c] + i)'] = data[ChunkNo(c, rcvd[c] + i)]
  <2>1. PICK k : k = rcvd[c] + i
    BY Zenon
  <2>2. k \in rcvd[c] + 1 .. linked[c] /\ k > rcvd[c]
    BY <2>1, MailType
  <2>3. PICK a : a = ChunkNo(c, k)
    BY Zenon
  <2>4. k \in Oldest(c) .. linked[c] /\ a \in Addr /\ home[a] = c /\ stamp[a] = k
    BY <2>2, <2>3, MailType
  <2>5. home'[a] = c /\ stamp'[a] = k /\ data'[a] = data[a]
    BY <2>2, <2>4
  <2>6. ChunkNo(c, k)' = ChunkNo(c, k)
    BY <2>3, <2>4, <2>5, SameNumber DEF RInv
  <2>7. ChunkNo(c, rcvd[c] + i)' = ChunkNo(c, k)'
    BY <2>1, Zenon DEF ChunkNo
  <2> QED
    BY <2>1, <2>3, <2>5, <2>6, <2>7
<1> QED
    BY <1>1 DEF Mail

(* add_chunk_to_queue appends the message it links. *)
LEMMA LinkSends ==
    ASSUME IInv, RInv, Named, Named', NEW p \in Producer, NEW k, k = req[p].to,
           AddLinkFirst(p) \/ AddLinkNext(p)
    PROVE  /\ k \in Consumer /\ data[chunk[p]] \in Msg
           /\ Mail(k)' = Append(Mail(k), data[chunk[p]])
           /\ \A c \in Consumer \ {k} : Mail(c)' = Mail(c)
<1>0. PICK a : a = chunk[p]
    BY Zenon
<1>1. ppc[p] = "link" /\ Stamp(k, a) /\ UNCHANGED <<data, rcvd>>
    BY <1>0 DEF AddLinkFirst, AddLinkNext, Stamp, memVars
<1>2. /\ k \in Consumer /\ a \in Addr /\ home[a] = NULL /\ NULL \notin Consumer
      /\ data[a] # NULL
    BY <1>0, <1>1, LinkContext, Ipc2Assumption
<1>3. /\ home' = [home EXCEPT ![a] = k]
      /\ stamp' = [stamp EXCEPT ![a] = linked[k] + 1]
      /\ linked' = [linked EXCEPT ![k] = linked[k] + 1]
    BY <1>1 DEF Stamp
<1>4. data[a] \in Msg
    BY <1>2 DEF IInv, TypeOK
<1>5. ASSUME NEW b \in Addr, home[b] \in Consumer PROVE home'[b] = home[b] /\ stamp'[b] = stamp[b]
    BY <1>2, <1>3, <1>5 DEF IInv, TypeOK
<1>6. ASSUME NEW c \in Consumer \ {k} PROVE Mail(c)' = Mail(c)
  <2>1. linked'[c] = linked[c] /\ rcvd'[c] = rcvd[c]
    BY <1>1, <1>3 DEF IInv, TypeOK
  <2>2. \A b \in Addr : home[b] = c /\ stamp[b] > rcvd[c]
                => home'[b] = c /\ stamp'[b] = stamp[b] /\ data'[b] = data[b]
    BY <1>1, <1>5
  <2> QED
    BY <2>1, <2>2, MailSame
<1>7. Mail(k)' = Append(Mail(k), data[a])
  <2> DEFINE n == linked[k] - rcvd[k]
             s == Mail(k)
             e == data[a]
             t == Append(s, e)
             u == [i \in 1 .. n + 1 |-> data[IF i = n + 1 THEN a ELSE ChunkNo(k, rcvd[k] + i)]]
  <2>1. /\ rcvd[k] \in Nat /\ linked[k] \in Nat /\ n \in Nat /\ s \in Seq(Msg \cup {NULL}) /\ Len(s) = n
        /\ \A i \in 1 .. n : s[i] = data[ChunkNo(k, rcvd[k] + i)]
    BY <1>2, MailType, Zenon
  <2>2. linked'[k] - rcvd'[k] = n + 1
    BY <1>1, <1>2, <1>3, <2>1 DEF IInv, TypeOK
  <2>3. ASSUME NEW i \in 1 .. n + 1 PROVE ChunkNo(k, rcvd[k] + i)' = IF i = n + 1 THEN a ELSE ChunkNo(k, rcvd[k] + i)
    <3>1. PICK j : j = rcvd[k] + i
      BY Zenon
    <3>2. ChunkNo(k, rcvd[k] + i)' = ChunkNo(k, j)'
      BY <1>1, <3>1, Zenon DEF ChunkNo
    <3>3. CASE i = n + 1
      <4>1. j = linked[k] + 1
        BY <2>1, <3>1, <3>3
      <4>2. home'[a] = k /\ stamp'[a] = j
        BY <1>2, <1>3, <4>1 DEF IInv, TypeOK
      <4>3. ChunkNo(home[a], stamp[a])' = a
        <5>1. home'[a] # NULL
          BY <1>2, <4>2
        <5> QED
          BY <1>2, <5>1 DEF Named
      <4>5. PICK x : x = a
        BY Zenon
      <4>4. ChunkNo(home[x], stamp[x])' = ChunkNo(k, j)'
        BY <4>2, <4>5, Zenon DEF ChunkNo
      <4> QED
        BY <3>2, <3>3, <4>3, <4>4, <4>5
    <3>4. CASE i # n + 1
      <4>1. j \in rcvd[k] + 1 .. linked[k]
        BY <2>1, <3>1, <3>4
      <4>2. PICK b : b = ChunkNo(k, j)
        BY Zenon
      <4>3. j \in Oldest(k) .. linked[k] /\ b \in Addr /\ home[b] = k /\ stamp[b] = j
        BY <1>2, <4>1, <4>2, MailType
      <4>4. home'[b] = k /\ stamp'[b] = j
        BY <1>2, <1>5, <4>3
      <4>5. ChunkNo(k, j)' = ChunkNo(k, j)
        BY <1>2, <4>2, <4>3, <4>4, SameNumber DEF RInv
      <4> QED
        BY <3>1, <3>2, <3>4, <4>5
    <3> QED
      BY <3>3, <3>4
  <2>4. Mail(k)' = u
    BY <1>1, <2>2, <2>3 DEF Mail
  <2>5. (\A i \in 1 .. n : u[i] = s[i]) /\ u[n + 1] = e
    <3>1. n \in Nat
      BY <2>1
    <3> HIDE DEF n, s
    <3>2. n + 1 \in 1 .. n + 1 /\ \A i \in 1 .. n : i \in 1 .. n + 1 /\ i # n + 1
      BY <3>1
    <3> QED
      BY <2>1, <3>2
  <2>7. u \in Seq(Msg \cup {NULL}) /\ Len(u) = n + 1
    <3>1. \A i \in 1 .. n + 1 : u[i] \in Msg \cup {NULL}
      <4>1. \A i \in 1 .. n : s[i] \in Msg \cup {NULL}
        BY <2>1
      <4> HIDE DEF n, s, u
      <4> QED
        BY <1>4, <2>1, <2>5, <4>1 DEF e
    <3>2. n + 1 \in Nat
      BY <2>1
    <3>3. u \in [1 .. n + 1 -> Msg \cup {NULL}]
      <4>1. u = [i \in 1 .. n + 1 |-> u[i]]
        BY Zenon
      <4> HIDE DEF n, u
      <4> QED
        BY <3>1, <4>1
    <3> HIDE DEF n, u
    <3> QED
      BY <3>2, <3>3
  <2>8. /\ t \in Seq(Msg \cup {NULL}) /\ Len(t) = n + 1 /\ t[n + 1] = e
        /\ \A i \in 1 .. n : t[i] = s[i]
    <3>1. e \in Msg \cup {NULL}
      BY <1>4
    <3> HIDE DEF e, s, n
    <3> QED
      BY <2>1, <3>1, AppendProperties
  <2> HIDE DEF u, t, s, e, n
  <2>9. \A i \in 1 .. n + 1 : u[i] = t[i]
    BY <2>1, <2>5, <2>8
  <2>10. u = t
    BY <2>7, <2>8, <2>9, SeqEqual
  <2> QED
    BY <2>4, <2>10 DEF t, s, e
<1> QED
    BY <1>0, <1>2, <1>4, <1>6, <1>7

(* receive_func is given the oldest message, which leaves the channel. *)
LEMMA ProcessReceives ==
    ASSUME IInv, RInv, Named, Named', NEW c \in Consumer, RcvProcess(c)
    PROVE  /\ Mail(c) # << >> /\ got' = [got EXCEPT ![c] = Head(Mail(c))]
           /\ Mail(c)' = Tail(Mail(c)) /\ rcvd' = [rcvd EXCEPT ![c] = rcvd[c] + 1]
           /\ \A d \in Consumer \ {c} : Mail(d)' = Mail(d)
<1> DEFINE r == rcvd[c]
           n == linked[c] - rcvd[c]
           s == Mail(c)
<1>1. /\ cpc[c] = "process" /\ got' = [got EXCEPT ![c] = data[cur[c]]]
      /\ rcvd' = [rcvd EXCEPT ![c] = rcvd[c] + 1]
      /\ UNCHANGED <<data, home, stamp, linked>>
    BY DEF RcvProcess, memVars
<1>2. /\ r \in Nat /\ linked[c] \in Nat /\ n \in Nat /\ s \in Seq(Msg \cup {NULL}) /\ Len(s) = n
      /\ \A i \in 1 .. n : s[i] = data[ChunkNo(c, r + i)]
    BY MailType, Zenon
<1>3. /\ n # 0 /\ cur[c] = ChunkNo(c, r + 1)
  <2>1. r < taken[c] /\ Points(cur[c], c, r + 1, taken[c])
    BY <1>1 DEF IInv, ConsumerInv
  <2>2. taken[c] <= sent[c] /\ linked[c] \in {sent[c], sent[c] + 1} /\ taken[c] \in Nat /\ sent[c] \in Nat
    BY DEF IInv, QueueInv, TypeOK
  <2>3. n # 0
    BY <1>2, <2>1, <2>2
  <2>4. cur[c] \in Addr /\ home[cur[c]] = c /\ stamp[cur[c]] = r + 1
    BY <1>2, <2>1, <2>2 DEF Points
  <2>5. cur[c] = ChunkNo(c, r + 1)
    BY <2>4, Ipc2Assumption DEF Named
  <2> QED
    BY <2>3, <2>5
<1>4. \A d, k : ChunkNo(d, k)' = ChunkNo(d, k)
    BY <1>1 DEF ChunkNo
<1>5. s # << >> /\ Head(s) = data[cur[c]]
  <2>1. 1 \in 1 .. n /\ Len(s) # 0
    BY <1>2, <1>3
  <2>2. s[1] = data[ChunkNo(c, r + 1)]
    BY <1>2, <2>1
  <2>3. s # << >>
    BY <2>1
  <2> HIDE DEF s
  <2>4. Head(s) = s[1]
    BY <1>2, <2>3
  <2> QED
    BY <1>3, <2>2, <2>3, <2>4
<1>6. Mail(c)' = Tail(s)
  <2> DEFINE u == [i \in 1 .. n - 1 |-> data[ChunkNo(c, (r + 1) + i)]]
             t == Tail(s)
  <2>1. rcvd'[c] = r + 1 /\ linked'[c] - rcvd'[c] = n - 1
    BY <1>1, <1>2 DEF IInv, TypeOK
  <2>2. Mail(c)' = u
    <3>1. \A i : ChunkNo(c, rcvd[c] + i)' = ChunkNo(c, (r + 1) + i)
      BY <1>1, <2>1, Zenon DEF ChunkNo
    <3> QED
      BY <1>1, <2>1, <3>1 DEF Mail
  <2>3. \A i \in 1 .. n - 1 : i + 1 \in 1 .. n /\ (r + 1) + i = r + (i + 1)
    <3>1. n \in Nat /\ r \in Nat
      BY <1>2
    <3> HIDE DEF n, r
    <3> QED
      BY <3>1
  <2>4. \A i \in 1 .. n - 1 : u[i] = s[i + 1]
    BY <1>2, <2>3
  <2>5. t \in Seq(Msg \cup {NULL}) /\ Len(t) = n - 1 /\ \A i \in 1 .. n - 1 : t[i] = s[i + 1]
    <3> HIDE DEF s, n
    <3> QED
      BY <1>2, <1>5, HeadTailProperties
  <2>6. u \in Seq(Msg \cup {NULL}) /\ Len(u) = n - 1
    <3>1. n - 1 \in Nat
      BY <1>2, <1>3
    <3>2. \A i \in 1 .. n - 1 : u[i] \in Msg \cup {NULL}
      <4> HIDE DEF u, s, n
      <4> QED
        BY <1>2, <2>3, <2>4
    <3>3. u \in [1 .. n - 1 -> Msg \cup {NULL}]
      <4>1. u = [i \in 1 .. n - 1 |-> u[i]]
        BY Zenon
      <4> HIDE DEF n, u
      <4> QED
        BY <3>2, <4>1
    <3> HIDE DEF n, u
    <3> QED
      BY <3>1, <3>3
  <2> HIDE DEF u, t, s, n
  <2>7. u = t
    BY <2>4, <2>5, <2>6, SeqEqual
  <2> QED
    BY <2>2, <2>7 DEF t
<1>7. ASSUME NEW d \in Consumer \ {c} PROVE Mail(d)' = Mail(d)
  <2>1. rcvd'[d] = rcvd[d] /\ linked'[d] = linked[d]
    BY <1>1 DEF IInv, TypeOK
  <2> QED
    BY <1>1, <2>1, MailSame
<1> QED
    BY <1>1, <1>5, <1>6, <1>7

(* Every other step is invisible. *)
LEMMA OthersInvisible ==
    ASSUME IInv, RInv, Named, Named', 
           \/ \E p \in Producer : \/ \E r \in Requests : Send(p, r)
                                  \/ PassWatermark(p)
                                  \/ Malloc(p)
                                  \/ \E c \in Consumer : DumpLock(p, c)
                                  \/ DumpUnlock(p)
                                  \/ Fill(p)
                                  \/ AddLock(p)
                                  \/ AddTail(p)
           \/ \E c \in Consumer : RcvLock(c) \/ RcvTake(c) \/ RcvClear(c) \/ RcvPop(c) \/ RcvRelease(c)
           \/ UNCHANGED vars
    PROVE  UNCHANGED <<got, rcvd>> /\ \A c \in Consumer : Mail(c)' = Mail(c)
<1>1. UNCHANGED <<got, rcvd, linked, stamp>>
    BY DEF Send, PassWatermark, Malloc, DumpLock, DumpUnlock, Fill, AddLock, AddTail, RcvLock, RcvTake, RcvClear,
       RcvPop, RcvRelease, vars, recvVars, histVars
<1>2. ASSUME NEW c \in Consumer, NEW a \in Addr, home[a] = c, stamp[a] > rcvd[c]
      PROVE  home'[a] = c /\ data'[a] = data[a]
  <2>1. a \in live /\ home[a] # NULL
    BY <1>2, Ipc2Assumption DEF IInv, ListInv
  <2>2. ASSUME NEW p \in Producer, Malloc(p) PROVE home'[a] = c /\ data'[a] = data[a]
    BY <1>2, <2>1, <2>2 DEF Malloc, histVars, IInv, TypeOK
  <2>3. ASSUME NEW p \in Producer, Fill(p) PROVE home'[a] = c /\ data'[a] = data[a]
    <3>1. chunk[p] # a
      BY <2>1, <2>3 DEF Fill, IInv, SenderInv
    <3> QED
      BY <1>2, <2>3, <3>1 DEF Fill, histVars, IInv, TypeOK
  <2>4. ASSUME NEW d \in Consumer, RcvRelease(d) PROVE home'[a] = c /\ data'[a] = data[a]
    <3>1. home[cur[d]] = d /\ stamp[cur[d]] = rcvd[d] /\ rcvd[d] \in Nat
      BY <2>4 DEF RcvRelease, IInv, ConsumerInv, QueueInv, Points, TypeOK
    <3>2. cur[d] # a
      BY <1>2, <3>1
    <3> QED
      BY <1>2, <2>4, <3>2 DEF RcvRelease, IInv, TypeOK
  <2>5. CASE UNCHANGED <<home, data>>
    BY <1>2, <2>5
  <2> QED
    BY <2>2, <2>3, <2>4, <2>5 DEF Send, PassWatermark, DumpLock, DumpUnlock, AddLock, AddTail, RcvLock, RcvTake,
       RcvClear, RcvPop, vars, memVars, histVars
<1>3. ASSUME NEW c \in Consumer PROVE Mail(c)' = Mail(c)
    BY <1>1, <1>2, MailSame
<1> QED
    BY <1>1, <1>3

(* Ipc2 implements FifoChannel, for every number of senders, consumers,    *)
(* chunks and messages: what the step that links a chunk appends is        *)
(* delivered once, in the order of those steps, and nothing else is.       *)
THEOREM Ipc2ImplementsFifo == Spec => ImplementsFifo
<1> DEFINE H == IInv /\ RInv /\ Named /\ Shape
<1>1. Init => Fifo!FInit
  <2> SUFFICES ASSUME Init PROVE Fifo!FInit
    OBVIOUS
  <2>1. Shape
    BY InitKeeps, InitThere, Names, ContentsIs
  <2>2. \A c \in Consumer : Mail(c) = << >>
    BY DEF Init, Mail
  <2> QED
    BY <2>1, <2>2 DEF Shape, Init, Fifo!FInit
<1>2. H /\ H' /\ [Next]_vars => [Fifo!FNext]_(Fifo!fvars)
  <2> SUFFICES ASSUME H, H', [Next]_vars PROVE Fifo!FNext \/ UNCHANGED Fifo!fvars
    OBVIOUS
  <2>1. \A c \in Consumer : Contents(c) = Mail(c) /\ Contents(c)' = Mail(c)'
    BY DEF Shape
  <2>2. ASSUME NEW p \in Producer, AddLinkFirst(p) \/ AddLinkNext(p) PROVE Fifo!FNext
    <3>1. PICK k, m : k = req[p].to /\ m = data[chunk[p]]
      BY Zenon
    <3>2. /\ k \in Consumer /\ m \in Msg
          /\ Mail(k)' = Append(Mail(k), m)
          /\ \A c \in Consumer \ {k} : Mail(c)' = Mail(c)
      BY <2>2, <3>1, LinkSends
    <3>3. UNCHANGED <<got, rcvd>>
      BY <2>2 DEF AddLinkFirst, AddLinkNext, Stamp, recvVars
    <3>4. [c \in Consumer |-> Contents(c)]' = [[c \in Consumer |-> Contents(c)] EXCEPT ![k] = Append(@, m)]
      BY <2>1, <3>2
    <3>5. Fifo!FSend(k, m)
      BY <3>3, <3>4 DEF Fifo!FSend
    <3> QED
      BY <3>2, <3>5 DEF Fifo!FNext
  <2>3. ASSUME NEW c \in Consumer, RcvProcess(c) PROVE Fifo!FNext
    <3>1. /\ Mail(c) # << >> /\ got' = [got EXCEPT ![c] = Head(Mail(c))]
          /\ Mail(c)' = Tail(Mail(c)) /\ rcvd' = [rcvd EXCEPT ![c] = rcvd[c] + 1]
          /\ \A d \in Consumer \ {c} : Mail(d)' = Mail(d)
      BY <2>3, ProcessReceives
    <3>2. [d \in Consumer |-> Contents(d)]' = [[d \in Consumer |-> Contents(d)] EXCEPT ![c] = Tail(@)]
      BY <2>1, <3>1
    <3>3. [d \in Consumer |-> Contents(d)][c] = Mail(c)
      BY <2>1
    <3>4. Fifo!FReceive(c)
      BY <3>1, <3>2, <3>3 DEF Fifo!FReceive
    <3> QED
      BY <3>4 DEF Fifo!FNext
  <2>4. ASSUME UNCHANGED <<got, rcvd>>, \A c \in Consumer : Mail(c)' = Mail(c) PROVE UNCHANGED Fifo!fvars
    BY <2>1, <2>4 DEF Fifo!fvars
  <2> QED
    BY <2>2, <2>3, <2>4, OthersInvisible DEF Next
<1>3. Spec => []H
    BY ContentsIs, ChannelInvariant, PTL
<1> HIDE DEF H
<1> QED
    BY <1>1, <1>2, <1>3, PTL DEF Spec, ImplementsFifo, Fifo!FSpec
=============================================================================
