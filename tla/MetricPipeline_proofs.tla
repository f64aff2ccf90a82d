------------------------ MODULE MetricPipeline_proofs ------------------------
(***************************************************************************)
(* Theorems about MetricPipeline, for any processes, items, configurations *)
(* and sizes: the model is type correct, the memory of the segments is     *)
(* accounted for, no chunk exceeds the array of a history syncer, and no   *)
(* metric is lost or duplicated.                                           *)
(***************************************************************************)
EXTENDS MetricPipeline, NatSets_proofs, FiniteSetTheorems, FunctionTheorems, TLAPS

-----------------------------------------------------------------------------
(* What the pipeline computes with sequences. *)

(* FlattenSeq joins sequences of elements of S into one. *)
LEMMA FlattenType ==
    ASSUME NEW S, NEW ss \in Seq(Seq(S))
    PROVE  FlattenSeq(ss) \in Seq(S)
<1> DEFINE N == Len(ss)
           Step(f, i) == IF i = 1 THEN ss[i] ELSE f[i - 1] \o ss[i]
           Flat == CHOOSE f : f = [i \in 1 .. N |-> Step(f, i)]
           Part(n) == \E f \in [1 .. n -> Seq(S)] : \A i \in 1 .. n : f[i] = Step(f, i)
<1>0. N \in Nat /\ \A i \in 1 .. N : ss[i] \in Seq(S)
    OBVIOUS
<1>1. CASE N = 0
    BY <1>1 DEF FlattenSeq
<1>2. CASE N > 0
  <2>1. FlattenSeq(ss) = Flat[N]
    BY <1>0, <1>2 DEF FlattenSeq
  <2>2. Part(0)
    <3>1. [i \in 1 .. 0 |-> << >>] \in [1 .. 0 -> Seq(S)]
      OBVIOUS
    <3>2. 1 .. 0 = {}
      OBVIOUS
    <3> QED
      BY <3>1, <3>2, Zenon
  <2>3. ASSUME NEW n \in 1 .. N, Part(n - 1)
        PROVE  Part(n)
    <3>1. PICK f \in [1 .. n - 1 -> Seq(S)] : \A i \in 1 .. n - 1 : f[i] = Step(f, i)
      BY <2>3
    <3> DEFINE h == [i \in 1 .. n |-> IF i = n THEN Step(f, n) ELSE f[i]]
    <3>2. Step(f, n) \in Seq(S)
      BY <1>0
    <3>3. h \in [1 .. n -> Seq(S)]
      BY <3>2
    <3>4. ASSUME NEW i \in 1 .. n
          PROVE  h[i] = Step(h, i)
      <4>1. h[i] = Step(f, i)
        <5>1. CASE i = n
          BY <5>1
        <5>2. CASE i # n
          <6>1. i \in 1 .. n - 1 /\ h[i] = f[i]
            BY <5>2
          <6> QED
            BY <3>1, <6>1
        <5> QED
          BY <5>1, <5>2
      <4>2. i # 1 => h[i - 1] = f[i - 1]
        OBVIOUS
      <4> QED
        BY <4>1, <4>2
    <3> QED
      BY <3>3, <3>4
  <2>4. Part(N)
    <3> DEFINE P == {n \in 0 .. N : Part(n)}
    <3> HIDE DEF Part
    <3>1. 0 \in P /\ \A n \in 1 .. N : n - 1 \in P => n \in P
      BY <1>0, <2>2, <2>3
    <3> HIDE DEF P
    <3>2. \A n \in 0 .. N : n \in P
      BY <1>0, <3>1, Induct
    <3> QED
      BY <1>0, <3>2 DEF P
  <2>5. Flat = [i \in 1 .. N |-> Step(Flat, i)]
    <3>1. PICK f \in [1 .. N -> Seq(S)] : \A i \in 1 .. N : f[i] = Step(f, i)
      BY <2>4
    <3>2. f = [i \in 1 .. N |-> Step(f, i)]
      BY <3>1
    <3> QED
      BY <3>2, Zenon
  <2>6. \A n \in 0 .. N : n = 0 \/ Flat[n] \in Seq(S)
    <3> DEFINE P == {n \in 0 .. N : n = 0 \/ Flat[n] \in Seq(S)}
    <3> HIDE DEF Flat
    <3>1. 0 \in P
      BY <1>0
    <3>2. ASSUME NEW n \in 1 .. N, n - 1 \in P
          PROVE  n \in P
      <4>1. Flat[n] = Step(Flat, n)
        BY <2>5
      <4>2. CASE n = 1
        BY <1>0, <4>1, <4>2
      <4>3. CASE n # 1
        <5>1. Flat[n - 1] \in Seq(S)
          BY <3>2, <4>3
        <5>2. ss[n] \in Seq(S) /\ Flat[n] = Flat[n - 1] \o ss[n]
          BY <1>0, <4>1, <4>3
        <5>3. Flat[n] \in Seq(S)
          BY <5>1, <5>2
        <5> QED
          BY <5>3
      <4> QED
        BY <4>2, <4>3
    <3> HIDE DEF P
    <3>3. \A n \in 0 .. N : n \in P
      BY <1>0, <3>1, <3>2, Induct
    <3> QED
      BY <3>3 DEF P
  <2> HIDE DEF Flat
  <2> QED
    BY <1>0, <1>2, <2>1, <2>6
<1> QED
    BY <1>0, <1>1, <1>2

(* What preprocessing sends for a metric. *)
Output == [fwd : BOOLEAN, item : Item, none : BOOLEAN]

(* Preprocessing of an item i sends outputs of a set A[i] only, if what it *)
(* sends for the item itself is in A[i], and so is what may be sent for    *)
(* its dependent items, at every level of dependency.                      *)
LEMMA ExecuteWithin ==
    ASSUME setup \in Setups, NEW A \in [Item -> SUBSET Output],
           \A j \in Item, b \in BOOLEAN : [fwd |-> FALSE, item |-> j, none |-> b] \in A[j],
           \A j \in Item : setup.dispatch[j] # None => [fwd |-> TRUE, item |-> setup.dispatch[j], none |-> FALSE] \in A[j],
           \A j \in Item : \A k \in DOMAIN Dependent[j] : A[Dependent[j][k]] \subseteq A[j],
           NEW i \in Item, NEW none \in BOOLEAN
    PROVE  Execute[MaxLevel][i][none] \in Seq(A[i])
<1> DEFINE T == {f \in [Item -> [BOOLEAN -> Seq(Output)]] : \A j \in Item, b \in BOOLEAN : f[j][b] \in Seq(A[j])}
           Own(j) == LET target == setup.dispatch[j]
                         gone == target # None
                         forward == IF gone THEN << [fwd |-> TRUE, item |-> target, none |-> FALSE] >> ELSE << >>
                         result == IF j \in Discovery THEN << >>
                                   ELSE << [fwd |-> FALSE, item |-> j, none |-> gone] >>
                     IN forward \o result
           Derived(f, l, j) == IF l = 0 THEN << >>
                               ELSE FlattenSeq([k \in DOMAIN Dependent[j] |->
                                       f[l - 1][Dependent[j][k]][setup.dispatch[j] # None]])
           Step(f, l) == [j \in Item |-> [b \in BOOLEAN |->
                             IF b \/ j \notin Conf THEN << [fwd |-> FALSE, item |-> j, none |-> b] >>
                             ELSE Own(j) \o Derived(f, l, j)]]
           Part(n) == \E f \in [0 .. n -> T] : \A l \in 0 .. n : f[l] = Step(f, l)
<1>0. \A S, R : S \subseteq R => \A s \in Seq(S) : s \in Seq(R)
  <2> SUFFICES ASSUME NEW S, NEW R, S \subseteq R, NEW s \in Seq(S) PROVE s \in Seq(R)
    OBVIOUS
  <2>1. s = [k \in 1 .. Len(s) |-> s[k]] /\ Len(s) \in Nat /\ \A k \in 1 .. Len(s) : s[k] \in R
    OBVIOUS
  <2> QED
    BY <2>1
<1>1. Execute = CHOOSE f : f = [l \in 0 .. MaxLevel |-> Step(f, l)]
    BY DEF Execute
<1>2. MaxLevel \in Nat
    BY PipelineAssumption
<1>3. ASSUME NEW j \in Item
      PROVE  Own(j) \in Seq(A[j])
  <2> DEFINE target == setup.dispatch[j]
             gone == target # None
             forward == IF gone THEN << [fwd |-> TRUE, item |-> target, none |-> FALSE] >> ELSE << >>
             result == IF j \in Discovery THEN << >> ELSE << [fwd |-> FALSE, item |-> j, none |-> gone] >>
  <2>1. forward \in Seq(A[j])
    <3>1. CASE target = None
      BY <3>1
    <3>2. CASE target # None
      <4>1. [fwd |-> TRUE, item |-> target, none |-> FALSE] \in A[j]
        BY <3>2
      <4> QED
        BY <3>2, <4>1
    <3> QED
      BY <3>1, <3>2
  <2>2. result \in Seq(A[j])
    <3>1. gone \in BOOLEAN
      OBVIOUS
    <3> HIDE DEF gone
    <3>2. [fwd |-> FALSE, item |-> j, none |-> gone] \in A[j]
      BY <3>1
    <3> QED
      BY <3>2
  <2>3. forward \o result \in Seq(A[j])
    BY <2>1, <2>2
  <2> QED
    BY <2>3
<1>4. ASSUME NEW f, NEW l \in Nat, l = 0 \/ f[l - 1] \in T
      PROVE  Step(f, l) \in T
  <2>1. ASSUME NEW j \in Item
        PROVE  Derived(f, l, j) \in Seq(A[j])
    <3>1. CASE l = 0
      BY <3>1
    <3>2. CASE l # 0
      <4> DEFINE b == setup.dispatch[j] # None
                 parts == [k \in DOMAIN Dependent[j] |-> f[l - 1][Dependent[j][k]][b]]
      <4>1. Dependent[j] \in Seq(Item)
        BY PipelineAssumption
      <4>2. ASSUME NEW k \in DOMAIN Dependent[j] PROVE f[l - 1][Dependent[j][k]][b] \in Seq(A[j])
        <5>1. b \in BOOLEAN /\ Dependent[j][k] \in Item /\ f[l - 1] \in T
          BY <1>4, <3>2, <4>1
        <5> HIDE DEF b
        <5>2. f[l - 1][Dependent[j][k]][b] \in Seq(A[Dependent[j][k]])
          BY <5>1
        <5>3. A[Dependent[j][k]] \subseteq A[j]
          OBVIOUS
        <5> QED
          BY <1>0, <5>2, <5>3
      <4>3. parts \in Seq(Seq(A[j]))
        BY <4>1, <4>2
      <4> HIDE DEF parts
      <4>4. FlattenSeq(parts) \in Seq(A[j])
        BY <4>3, FlattenType
      <4> QED
        BY <3>2, <4>4 DEF parts
    <3> QED
      BY <3>1, <3>2
  <2> HIDE DEF Own, Derived
  <2> DEFINE e(j, b) == IF b \/ j \notin Conf THEN << [fwd |-> FALSE, item |-> j, none |-> b] >>
                        ELSE Own(j) \o Derived(f, l, j)
  <2>2. ASSUME NEW j \in Item, NEW b \in BOOLEAN
        PROVE  e(j, b) \in Seq(A[j]) /\ e(j, b) \in Seq(Output)
    <3>1. [fwd |-> FALSE, item |-> j, none |-> b] \in A[j]
      OBVIOUS
    <3>2. Own(j) \o Derived(f, l, j) \in Seq(A[j])
      BY <1>3, <2>1
    <3>3. e(j, b) \in Seq(A[j])
      BY <3>1, <3>2
    <3>4. A[j] \subseteq Output
      OBVIOUS
    <3> HIDE DEF e
    <3> QED
      BY <1>0, <3>3, <3>4
  <2>3. Step(f, l) = [j \in Item |-> [b \in BOOLEAN |-> e(j, b)]]
    OBVIOUS
  <2> HIDE DEF Step, e
  <2> QED
    BY <2>2, <2>3
<1> HIDE DEF T, Step
<1>5. Part(MaxLevel)
  <2>1. Part(0)
    <3> DEFINE f == [l \in 0 .. 0 |-> Step(<< >>, 0)]
    <3>1. Step(<< >>, 0) \in T
      BY <1>4
    <3>2. Step(f, 0) = Step(<< >>, 0)
      BY DEF Step
    <3>3. f \in [0 .. 0 -> T] /\ \A l \in 0 .. 0 : f[l] = Step(f, l)
      BY <3>1, <3>2
    <3> QED
      BY <3>3, Zenon
  <2>2. ASSUME NEW n \in 1 .. MaxLevel, Part(n - 1)
        PROVE  Part(n)
    <3>1. PICK f \in [0 .. n - 1 -> T] : \A l \in 0 .. n - 1 : f[l] = Step(f, l)
      BY <2>2
    <3> DEFINE h == [l \in 0 .. n |-> IF l = n THEN Step(f, n) ELSE f[l]]
    <3>2. Step(f, n) \in T
      <4>1. f[n - 1] \in T
        BY <1>2
      <4> QED
        BY <1>2, <1>4, <4>1
    <3>3. h \in [0 .. n -> T]
      BY <3>2
    <3>4. ASSUME NEW l \in 0 .. n
          PROVE  h[l] = Step(h, l)
      <4>1. h[l] = Step(f, l)
        <5>1. CASE l = n
          BY <5>1
        <5>2. CASE l # n
          <6>1. l \in 0 .. n - 1 /\ h[l] = f[l]
            BY <5>2
          <6> QED
            BY <3>1, <6>1
        <5> QED
          BY <5>1, <5>2
      <4>2. Step(h, l) = Step(f, l)
        <5>1. l # 0 => h[l - 1] = f[l - 1]
          OBVIOUS
        <5> HIDE DEF h
        <5> QED
          BY <5>1, Zenon DEF Step
      <4> QED
        BY <4>1, <4>2
    <3> QED
      BY <3>3, <3>4
  <2> DEFINE P == {n \in 0 .. MaxLevel : Part(n)}
  <2> HIDE DEF Part
  <2>3. 0 \in P /\ \A n \in 1 .. MaxLevel : n - 1 \in P => n \in P
    BY <1>2, <2>1, <2>2
  <2> HIDE DEF P
  <2>4. \A n \in 0 .. MaxLevel : n \in P
    BY <1>2, <2>3, Induct
  <2> QED
    BY <1>2, <2>4 DEF P
<1>6. Execute = [l \in 0 .. MaxLevel |-> Step(Execute, l)]
  <2>1. PICK f \in [0 .. MaxLevel -> T] : \A l \in 0 .. MaxLevel : f[l] = Step(f, l)
    BY <1>5
  <2>2. f = [l \in 0 .. MaxLevel |-> Step(f, l)]
    BY <2>1
  <2> QED
    BY <1>1, <2>2, Zenon
<1>7. \A n \in 0 .. MaxLevel : Execute[n] \in T
  <2> DEFINE P == {n \in 0 .. MaxLevel : Execute[n] \in T}
  <2>1. \A n \in 0 .. MaxLevel : Execute[n] = Step(Execute, n)
    BY <1>6
  <2>2. 0 \in P
    BY <1>2, <1>4, <2>1
  <2>3. ASSUME NEW n \in 1 .. MaxLevel, n - 1 \in P
        PROVE  n \in P
    BY <1>2, <1>4, <2>1, <2>3
  <2> HIDE DEF P
  <2>4. \A n \in 0 .. MaxLevel : n \in P
    BY <1>2, <2>2, <2>3, Induct
  <2> QED
    BY <2>4 DEF P
<1> QED
    BY <1>2, <1>7 DEF T

(* Execute yields a sequence of outputs. *)
LEMMA ExecuteType ==
    ASSUME setup \in Setups, NEW i \in Item, NEW none \in BOOLEAN
    PROVE  Execute[MaxLevel][i][none] \in Seq(Output)
<1> DEFINE A == [j \in Item |-> Output]
<1>1. A \in [Item -> SUBSET Output] /\ \A j \in Item, b \in BOOLEAN : [fwd |-> FALSE, item |-> j, none |-> b] \in A[j]
    BY DEF Output
<1>2. ASSUME NEW j \in Item, setup.dispatch[j] # None
      PROVE  [fwd |-> TRUE, item |-> setup.dispatch[j], none |-> FALSE] \in A[j]
  <2>1. setup.dispatch[j] \in Item
    BY <1>2, PipelineAssumption
  <2> QED
    BY <2>1 DEF Output
<1>3. \A j \in Item : \A k \in DOMAIN Dependent[j] : A[Dependent[j][k]] \subseteq A[j]
    BY PipelineAssumption
<1>4. A[i] = Output
    OBVIOUS
<1> HIDE DEF A
<1>5. Execute[MaxLevel][i][none] \in Seq(A[i])
    BY <1>1, <1>2, <1>3, ExecuteWithin
<1> QED
    BY <1>4, <1>5

-----------------------------------------------------------------------------
(* The memory of the segments. *)

(* The units of the chunks x of sizes z[x]. *)
LEMMA UnitsAre ==
    ASSUME NEW z
    PROVE  \A c : c \in Units(z) <=> \E x \in DOMAIN z : \E n \in 1 .. z[x] : c = <<x, n>>
BY DEF Units

(* A chunk of size n takes n units more. *)
LEMMA UnitsAdd ==
    ASSUME NEW D, NEW z \in [D -> Nat], NEW x, x \notin D,
           NEW z1 \in [D \cup {x} -> Nat], \A y \in D : z1[y] = z[y], IsFiniteSet(Units(z))
    PROVE  IsFiniteSet(Units(z1)) /\ Cardinality(Units(z1)) = Cardinality(Units(z)) + z1[x]
<1> DEFINE new == {x} \X (1 .. z1[x])
<1>1. Units(z1) = Units(z) \cup new
  <2>1. ASSUME NEW c PROVE c \in Units(z1) <=> c \in Units(z) \/ c \in new
    <3>1. c \in Units(z1) <=> \E y \in D \cup {x} : \E n \in 1 .. z1[y] : c = <<y, n>>
      BY UnitsAre
    <3>2. c \in Units(z) <=> \E y \in D : \E n \in 1 .. z1[y] : c = <<y, n>>
      BY UnitsAre
    <3>3. c \in new <=> \E n \in 1 .. z1[x] : c = <<x, n>>
      OBVIOUS
    <3> QED
      BY <3>1, <3>2, <3>3, Zenon
  <2> QED
    BY <2>1
<1>0. IsFiniteSet(Units(z))
    OBVIOUS
<1>2. Units(z) \cap new = {}
  <2>1. ASSUME NEW c \in Units(z), c \in new PROVE FALSE
    <3>1. PICK y \in D : \E n \in 1 .. z[y] : c = <<y, n>>
      BY UnitsAre
    <3>2. PICK m \in 1 .. z1[x] : c = <<x, m>>
      BY <2>1
    <3> QED
      BY <3>1, <3>2
  <2> QED
    BY <2>1
<1>3. IsFiniteSet(new) /\ Cardinality(new) = z1[x]
  <2>1. z1[x] \in Nat
    OBVIOUS
  <2>2. IsFiniteSet(1 .. z1[x]) /\ Cardinality(1 .. z1[x]) = z1[x]
    BY <2>1, FS_Interval
  <2>3. IsFiniteSet({x}) /\ Cardinality({x}) = 1
    BY FS_Singleton
  <2>4. IsFiniteSet(new) /\ Cardinality(new) = Cardinality({x}) * Cardinality(1 .. z1[x])
    BY <2>2, <2>3, FS_Product
  <2> QED
    BY <2>1, <2>2, <2>3, <2>4
<1> HIDE DEF new
<1>4. IsFiniteSet(Units(z) \cup new) /\ Cardinality(Units(z) \cup new) = Cardinality(Units(z)) + Cardinality(new) - Cardinality({})
    BY ONLY <1>0, <1>2, <1>3, FS_Union
<1>5. Cardinality({}) = 0
    BY FS_EmptySet
<1>6. Cardinality(Units(z)) \in Nat
    BY <1>0, FS_CardinalityType
<1> QED
    BY <1>0, <1>1, <1>3, <1>4, <1>5, <1>6

(* When a chunk of size n is gone, so are its n units. *)
LEMMA UnitsDrop ==
    ASSUME NEW D, NEW z \in [D -> Nat], NEW x, x \notin D,
           NEW z1 \in [D \cup {x} -> Nat], \A y \in D : z1[y] = z[y], IsFiniteSet(Units(z1))
    PROVE  IsFiniteSet(Units(z)) /\ Cardinality(Units(z)) = Cardinality(Units(z1)) - z1[x]
<1>1. Units(z) \in SUBSET Units(z1)
  <2>1. ASSUME NEW c \in Units(z) PROVE c \in Units(z1)
    <3>1. \E y \in D : \E n \in 1 .. z[y] : c = <<y, n>>
      BY UnitsAre
    <3>2. \E y \in D \cup {x} : \E n \in 1 .. z1[y] : c = <<y, n>>
      BY <3>1
    <3> QED
      BY <3>2, UnitsAre
  <2> QED
    BY <2>1
<1>2. IsFiniteSet(Units(z))
    BY <1>1, FS_Subset
<1>3. Cardinality(Units(z1)) = Cardinality(Units(z)) + z1[x]
    BY <1>2, UnitsAdd
<1>4. Cardinality(Units(z)) \in Nat /\ z1[x] \in Nat
    BY <1>2, FS_CardinalityType
<1> QED
    BY <1>2, <1>3, <1>4

(* When chunks only change their places, no units are taken. *)
LEMMA UnitsMove ==
    ASSUME NEW D, NEW z \in [D -> Nat], IsFiniteSet(Units(z)), NEW E, NEW z1 \in [E -> Nat],
           NEW f \in [E -> D], \A x \in E : z1[x] = z[f[x]],
           \A x, y \in E : f[x] = f[y] => x = y, \A y \in D : \E x \in E : f[x] = y
    PROVE  IsFiniteSet(Units(z1)) /\ Cardinality(Units(z1)) = Cardinality(Units(z))
<1> DEFINE h == [c \in Units(z1) |-> <<f[c[1]], c[2]>>]
<1>1. ASSUME NEW c \in Units(z1)
      PROVE  \E x \in E : \E n \in 1 .. z1[x] : c = <<x, n>> /\ h[c] = <<f[x], n>> /\ <<f[x], n>> \in Units(z)
  <2>1. PICK x \in E : \E n \in 1 .. z1[x] : c = <<x, n>>
    BY UnitsAre
  <2>2. PICK n \in 1 .. z1[x] : c = <<x, n>>
    BY <2>1
  <2>3. h[c] = <<f[x], n>>
    BY <2>2
  <2>4. <<f[x], n>> \in Units(z)
    <3>1. f[x] \in D /\ n \in 1 .. z[f[x]]
      OBVIOUS
    <3> QED
      BY <3>1, UnitsAre
  <2> QED
    BY <2>2, <2>3, <2>4
<1>2. h \in [Units(z1) -> Units(z)]
  <2>1. \A c \in Units(z1) : <<f[c[1]], c[2]>> \in Units(z)
    BY <1>1
  <2> QED
    BY <2>1
<1>3. \A a, b \in Units(z1) : h[a] = h[b] => a = b
  <2> SUFFICES ASSUME NEW a \in Units(z1), NEW b \in Units(z1), h[a] = h[b] PROVE a = b
    OBVIOUS
  <2>1. PICK x \in E : \E n \in 1 .. z1[x] : a = <<x, n>> /\ h[a] = <<f[x], n>> /\ <<f[x], n>> \in Units(z)
    BY <1>1
  <2>2. PICK y \in E : \E n \in 1 .. z1[y] : b = <<y, n>> /\ h[b] = <<f[y], n>> /\ <<f[y], n>> \in Units(z)
    BY <1>1
  <2> QED
    BY <2>1, <2>2
<1>4. \A c \in Units(z) : \E a \in Units(z1) : h[a] = c
  <2> SUFFICES ASSUME NEW c \in Units(z) PROVE \E a \in Units(z1) : h[a] = c
    OBVIOUS
  <2>1. PICK y \in D : \E n \in 1 .. z[y] : c = <<y, n>>
    BY UnitsAre
  <2>2. PICK n \in 1 .. z[y] : c = <<y, n>>
    BY <2>1
  <2>3. PICK x \in E : f[x] = y
    OBVIOUS
  <2>4. <<x, n>> \in Units(z1)
    <3>1. n \in 1 .. z1[x]
      BY <2>3
    <3> QED
      BY <3>1, UnitsAre
  <2>5. h[<<x, n>>] = c
    BY <2>2, <2>3, <2>4
  <2> QED
    BY <2>4, <2>5
<1> HIDE DEF h
<1>5. h \in Injection(Units(z1), Units(z)) /\ h \in Surjection(Units(z1), Units(z))
    BY <1>2, <1>3, <1>4, Fun_IsInj, Fun_IsSurj
<1> QED
    BY <1>5, FS_Injection
(* A queue belongs to one segment. *)
LEMMA SegmentFacts ==
    /\ \A q \in Queue : SegmentOf(q) \in Segment /\ q \in Consumers[SegmentOf(q)]
    /\ \A g \in Segment : \A q \in Consumers[g] : q \in Queue /\ SegmentOf(q) = g
BY PipelineAssumption DEF Queue, SegmentOf, Segment, Consumers

(* The places of the chunks of a segment. *)
LEMMA ChunksAre ==
    ASSUME NEW g \in Segment
    PROVE  /\ \A x : x \in Chunks(g) <=> \E q \in Consumers[g] : \E k \in Places(q) : x = <<q, k>>
           /\ \A x : x \in Chunks(g)' <=> \E q \in Consumers[g] : \E k \in Places(q)' : x = <<q, k>>
BY DEF Chunks

(* The sizes are natural numbers. *)
LEMMA SizesType ==
    ASSUME TypeOK, NEW g \in Segment
    PROVE  Sizes(g) \in [Chunks(g) -> Nat]
<1>1. ASSUME NEW x \in Chunks(g)
      PROVE  Cost(IF x[2] = 0 THEN chunk[x[1]] ELSE Len(chan[x[1]][x[2]])) \in Nat
  <2>1. PICK q \in Consumers[g] : \E k \in Places(q) : x = <<q, k>>
    BY ChunksAre
  <2>2. PICK k \in Places(q) : x = <<q, k>>
    BY <2>1
  <2>3. q \in Queue /\ chan[q] \in Seq(Seq(Metric) \ {<< >>})
    BY SegmentFacts DEF TypeOK
  <2>4. CASE k = 0
    <3>1. q \in Worker
      BY <2>3, <2>4 DEF Places
    <3>2. chunk[q] \in Nat
      BY <3>1 DEF TypeOK
    <3> QED
      BY <2>2, <2>4, <3>2, PipelineAssumption DEF Cost
  <2>5. CASE k # 0
    <3>1. k \in DOMAIN chan[q]
      BY <2>5 DEF Places
    <3>2. Len(chan[q][k]) \in Nat
      BY <2>3, <3>1
    <3> QED
      BY <2>2, <2>5, <3>2, PipelineAssumption DEF Cost
  <2> QED
    BY <2>4, <2>5
<1> QED
    BY <1>1 DEF Sizes

(* What is not touched keeps its size. *)
LEMMA SizesSame ==
    ASSUME TypeOK, NEW g \in Segment,
           \A q \in Consumers[g] : chan'[q] = chan[q] /\ (q \in Worker => chunk'[q] = chunk[q])
    PROVE  Sizes(g)' = Sizes(g)
<1>1. \A q \in Consumers[g] : Places(q)' = Places(q)
    BY DEF Places
<1>2. Chunks(g)' = Chunks(g)
    BY <1>1 DEF Chunks
<1>3. ASSUME NEW x \in Chunks(g)
      PROVE  Cost(IF x[2] = 0 THEN chunk'[x[1]] ELSE Len(chan'[x[1]][x[2]]))
             = Cost(IF x[2] = 0 THEN chunk[x[1]] ELSE Len(chan[x[1]][x[2]]))
  <2>1. PICK q \in Consumers[g] : \E k \in Places(q) : x = <<q, k>>
    BY ChunksAre
  <2>2. PICK k \in Places(q) : x = <<q, k>>
    BY <2>1
  <2>3. k = 0 => q \in Worker
    BY SegmentFacts DEF Places, TypeOK
  <2> QED
    BY <2>2, <2>3
<1> QED
    BY <1>2, <1>3 DEF Sizes

(* A chunk that comes takes its size, and one that goes frees it. *)
LEMMA SizesAdd ==
    ASSUME NEW g, NEW x, Sizes(g) \in [Chunks(g) -> Nat], IsFiniteSet(Units(Sizes(g))), x \notin Chunks(g),
           Sizes(g)' \in [Chunks(g) \cup {x} -> Nat], \A y \in Chunks(g) : Sizes(g)'[y] = Sizes(g)[y]
    PROVE  /\ IsFiniteSet(Units(Sizes(g)'))
           /\ Cardinality(Units(Sizes(g)')) = Cardinality(Units(Sizes(g))) + Sizes(g)'[x]
<1> PICK D, z, z1 : D = Chunks(g) /\ z = Sizes(g) /\ z1 = Sizes(g)'
    OBVIOUS
<1>1. /\ z \in [D -> Nat] /\ IsFiniteSet(Units(z)) /\ x \notin D
      /\ z1 \in [D \cup {x} -> Nat] /\ \A y \in D : z1[y] = z[y]
    OBVIOUS
<1>2. IsFiniteSet(Units(z1)) /\ Cardinality(Units(z1)) = Cardinality(Units(z)) + z1[x]
    BY ONLY <1>1, UnitsAdd
<1> QED
    BY <1>2

(* The same of a chunk that leaves z, the sizes before or as received. *)
LEMMA SizesDrop ==
    ASSUME NEW g, NEW x, NEW z, x \notin Chunks(g)', Sizes(g)' \in [Chunks(g)' -> Nat],
           z \in [Chunks(g)' \cup {x} -> Nat], \A y \in Chunks(g)' : z[y] = Sizes(g)'[y], IsFiniteSet(Units(z))
    PROVE  IsFiniteSet(Units(Sizes(g)')) /\ Cardinality(Units(Sizes(g)')) = Cardinality(Units(z)) - z[x]
<1> PICK D, z1 : D = Chunks(g)' /\ z1 = Sizes(g)'
    OBVIOUS
<1>1. /\ z1 \in [D -> Nat] /\ IsFiniteSet(Units(z)) /\ x \notin D
      /\ z \in [D \cup {x} -> Nat] /\ \A y \in D : z[y] = z1[y]
    OBVIOUS
<1>2. IsFiniteSet(Units(z1)) /\ Cardinality(Units(z1)) = Cardinality(Units(z)) - z[x]
    BY ONLY <1>1, UnitsDrop
<1> QED
    BY <1>2

(* A chunk that is sent takes its cost. *)
LEMMA MemorySend ==
    ASSUME TypeOK, MemoryInv, NEW q \in Queue, NEW m \in Seq(Metric), chunk' = chunk,
           chan' = [chan EXCEPT ![q] = Append(@, m)],
           used' = [used EXCEPT ![SegmentOf(q)] = @ + Cost(Len(m))]
    PROVE  MemoryInv'
<1> DEFINE n == Len(chan[q]) + 1
           x == <<q, n>>
<1>1. SegmentOf(q) \in Segment /\ q \in Consumers[SegmentOf(q)]
    BY SegmentFacts
<1>2. /\ chan[q] \in Seq(Seq(Metric) \ {<< >>}) /\ chan \in [Queue -> Seq(Seq(Metric) \ {<< >>})]
      /\ used \in [Segment -> Nat]
  <2>1. setup.total \in Nat
    BY PipelineAssumption DEF TypeOK
  <2> QED
    BY <2>1 DEF TypeOK
<1>3. ASSUME NEW g \in Segment, g # SegmentOf(q)
      PROVE  IsFiniteSet(Units(Sizes(g)')) /\ used'[g] = Cardinality(Units(Sizes(g)'))
  <2>1. Sizes(g)' = Sizes(g)
    <3>1. \A r \in Consumers[g] : chan'[r] = chan[r]
      BY <1>2, <1>3, SegmentFacts
    <3> QED
      BY <3>1, SizesSame
  <2> QED
    BY <1>2, <1>3, <2>1 DEF MemoryInv
<1>4. ASSUME NEW g \in Segment, g = SegmentOf(q)
      PROVE  IsFiniteSet(Units(Sizes(g)')) /\ used'[g] = Cardinality(Units(Sizes(g)'))
  <2>1. n \in Nat \ {0} /\ n \notin DOMAIN chan[q]
    BY <1>2
  <2>2. chan'[q] = Append(chan[q], m) /\ \A r \in Consumers[g] : r # q => chan'[r] = chan[r]
    BY <1>2, SegmentFacts
  <2>3. /\ DOMAIN chan'[q] = DOMAIN chan[q] \cup {n} /\ chan'[q][n] = m
        /\ \A k \in DOMAIN chan[q] : chan'[q][k] = chan[q][k]
    BY <1>2, <2>2
  <2>4. Places(q)' = Places(q) \cup {n} /\ n \notin Places(q)
    BY <2>1, <2>3 DEF Places
  <2>5. \A r \in Consumers[g] : r # q => Places(r)' = Places(r)
    BY <2>2 DEF Places
  <2>6. Chunks(g)' = Chunks(g) \cup {x}
    BY <1>1, <1>4, <2>4, <2>5, ChunksAre
  <2>7. x \notin Chunks(g)
    BY <2>4, ChunksAre
  <2>8. ASSUME NEW y \in Chunks(g)
        PROVE  Sizes(g)'[y] = Sizes(g)[y]
    <3>1. PICK r \in Consumers[g] : \E k \in Places(r) : y = <<r, k>>
      BY ChunksAre
    <3>2. PICK k \in Places(r) : y = <<r, k>>
      BY <3>1
    <3>3. k = 0 \/ (k \in DOMAIN chan[r] /\ chan'[r][k] = chan[r][k])
      BY <2>2, <2>3 DEF Places
    <3>4. y \in Chunks(g)'
      BY <2>6
    <3> QED
      BY <3>2, <3>3, <3>4 DEF Sizes
  <2>9. Sizes(g)'[x] = Cost(Len(m)) /\ Cost(Len(m)) \in Nat
    BY <2>1, <2>3, <2>6, PipelineAssumption DEF Sizes, Cost
  <2>10. Sizes(g) \in [Chunks(g) -> Nat]
    BY SizesType
  <2>11. Sizes(g)' \in [Chunks(g) \cup {x} -> Nat]
    BY <2>6, <2>8, <2>9, <2>10 DEF Sizes
  <2> HIDE DEF x
  <2>12. IsFiniteSet(Units(Sizes(g)))
    BY DEF MemoryInv
  <2>13. IsFiniteSet(Units(Sizes(g)')) /\ Cardinality(Units(Sizes(g)')) = Cardinality(Units(Sizes(g))) + Sizes(g)'[x]
    <3> PICK v : v = x
      OBVIOUS
    <3>1. v \notin Chunks(g) /\ Sizes(g)' \in [Chunks(g) \cup {v} -> Nat]
      BY <2>7, <2>11
    <3>2. /\ IsFiniteSet(Units(Sizes(g)'))
          /\ Cardinality(Units(Sizes(g)')) = Cardinality(Units(Sizes(g))) + Sizes(g)'[v]
      BY <2>8, <2>10, <2>12, <3>1, SizesAdd
    <3> QED
      BY <3>2
  <2> QED
    BY <1>2, <1>4, <2>9, <2>13 DEF MemoryInv
<1> QED
    BY <1>3, <1>4 DEF MemoryInv

(* A chunk that is received stays in memory: those behind it move up, and  *)
(* it is at place 0 until it is released.                                  *)
ReceivedChunks(q) == (Chunks(SegmentOf(q)) \cup {<<q, 0>>}) \ {<<q, Len(chan[q])>>}
ReceivedSizes(q) ==
    [x \in ReceivedChunks(q) |->
        IF x[1] = q THEN Cost(Len(chan[q][x[2] + 1])) ELSE Sizes(SegmentOf(q))[x]]

(* Moving up takes no memory. *)
LEMMA UnitsReceived ==
    ASSUME TypeOK, NEW q \in Queue, chan[q] # << >>, 0 \notin Places(q), IsFiniteSet(Units(Sizes(SegmentOf(q))))
    PROVE  /\ ReceivedSizes(q) \in [ReceivedChunks(q) -> Nat]
           /\ IsFiniteSet(Units(ReceivedSizes(q)))
           /\ Cardinality(Units(ReceivedSizes(q))) = Cardinality(Units(Sizes(SegmentOf(q))))
<1> DEFINE g == SegmentOf(q)
           D == Chunks(g)
           E == ReceivedChunks(q)
           z == Sizes(g)
           z1 == ReceivedSizes(q)
           f == [x \in E |-> IF x[1] = q THEN <<q, x[2] + 1>> ELSE x]
           n == Len(chan[q])
<1>1. g \in Segment /\ q \in Consumers[g]
    BY SegmentFacts
<1>2. /\ chan[q] \in Seq(Seq(Metric) \ {<< >>}) /\ n \in Nat \ {0}
      /\ DOMAIN chan[q] = 1 .. n /\ Places(q) = 1 .. n
    BY DEF TypeOK, Places
<1>3. z \in [D -> Nat]
    BY <1>1, SizesType
<1>4. \A x : x \in D <=> \E r \in Consumers[g] : \E k \in Places(r) : x = <<r, k>>
    BY <1>1, ChunksAre
<1>5. ASSUME NEW x \in E
      PROVE  \/ x \in D /\ x[1] # q
             \/ \E k \in 0 .. n - 1 : x = <<q, k>>
  <2>1. CASE x = <<q, 0>>
    BY <1>2, <2>1
  <2>2. CASE x # <<q, 0>>
    <3>1. x \in D /\ x # <<q, n>>
      BY <2>2 DEF ReceivedChunks
    <3>2. PICK r \in Consumers[g] : \E k \in Places(r) : x = <<r, k>>
      BY <1>4, <3>1
    <3>3. PICK k \in Places(r) : x = <<r, k>>
      BY <3>2
    <3> QED
      BY <1>2, <3>1, <3>3
  <2> QED
    BY <2>1, <2>2
<1>6. ASSUME NEW k \in 0 .. n - 1
      PROVE  <<q, k>> \in E /\ <<q, k + 1>> \in D
  <2>1. k + 1 \in Places(q) /\ (k # 0 => k \in Places(q)) /\ k # n
    BY <1>2
  <2>2. <<q, k + 1>> \in D /\ (k # 0 => <<q, k>> \in D)
    BY <1>1, <1>4, <2>1
  <2> QED
    BY <2>1, <2>2 DEF ReceivedChunks
<1>7. f \in [E -> D]
  <2>1. ASSUME NEW x \in E PROVE (IF x[1] = q THEN <<q, x[2] + 1>> ELSE x) \in D
    BY <1>5, <1>6
  <2> QED
    BY <2>1
<1>8. ASSUME NEW x \in E PROVE z1[x] = z[f[x]] /\ z1[x] \in Nat
  <2>1. CASE x \in D /\ x[1] # q
    BY <1>3, <2>1 DEF ReceivedSizes
  <2>2. CASE \E k \in 0 .. n - 1 : x = <<q, k>>
    <3>1. PICK k \in 0 .. n - 1 : x = <<q, k>>
      BY <2>2
    <3>2. z1[x] = Cost(Len(chan[q][k + 1])) /\ f[x] = <<q, k + 1>>
      BY <3>1 DEF ReceivedSizes
    <3>3. z[<<q, k + 1>>] = Cost(Len(chan[q][k + 1]))
      <4>1. <<q, k + 1>> \in D
        BY <1>6
      <4>2. k + 1 # 0
        BY <1>2
      <4> QED
        BY <4>1, <4>2 DEF Sizes
    <3> QED
      BY <1>3, <1>6, <3>2, <3>3
  <2> QED
    BY <1>5, <2>1, <2>2
<1>9. z1 \in [E -> Nat]
    BY <1>8 DEF ReceivedSizes
<1>10. ASSUME NEW x \in E, NEW y \in E, f[x] = f[y] PROVE x = y
  <2>1. CASE x[1] # q /\ y[1] # q
    BY <1>10, <2>1
  <2>2. CASE x[1] = q /\ y[1] = q
    <3>1. PICK k \in 0 .. n - 1 : x = <<q, k>>
      BY <1>5, <2>2
    <3>2. PICK j \in 0 .. n - 1 : y = <<q, j>>
      BY <1>5, <2>2
    <3> QED
      BY <1>10, <3>1, <3>2
  <2>3. (x[1] = q) <=> (y[1] = q)
    <3>1. \A v \in E : f[v][1] = v[1]
      OBVIOUS
    <3> QED
      BY <1>10, <3>1
  <2> QED
    BY <2>1, <2>2, <2>3
<1>11. ASSUME NEW y \in D PROVE \E x \in E : f[x] = y
  <2>1. PICK r \in Consumers[g] : \E k \in Places(r) : y = <<r, k>>
    BY <1>4
  <2>2. PICK k \in Places(r) : y = <<r, k>>
    BY <2>1
  <2>3. CASE r = q
    <3>1. k - 1 \in 0 .. n - 1 /\ (k - 1) + 1 = k
      BY <1>2, <2>3
    <3>2. <<q, k - 1>> \in E /\ f[<<q, k - 1>>] = y
      BY <1>6, <2>2, <2>3, <3>1
    <3> QED
      BY <3>2
  <2>4. CASE r # q
    <3>1. y \in E /\ y[1] # q
      BY <2>2, <2>4 DEF ReceivedChunks
    <3>2. f[y] = y
      BY <3>1
    <3> QED
      BY <3>1, <3>2
  <2> QED
    BY <2>3, <2>4
<1>12. PICK D1, E1, y, y1, h : D1 = D /\ E1 = E /\ y = z /\ y1 = z1 /\ h = f
    OBVIOUS
<1> HIDE DEF D, E, z, z1, f
<1>13. /\ y \in [D1 -> Nat] /\ IsFiniteSet(Units(y)) /\ y1 \in [E1 -> Nat]
       /\ h \in [E1 -> D1] /\ \A x \in E1 : y1[x] = y[h[x]]
       /\ \A a, b \in E1 : h[a] = h[b] => a = b
       /\ \A b \in D1 : \E a \in E1 : h[a] = b
  <2>1. IsFiniteSet(Units(z))
    BY DEF z
  <2> QED
    BY <1>3, <1>7, <1>8, <1>9, <1>10, <1>11, <1>12, <2>1
<1>14. IsFiniteSet(Units(y1)) /\ Cardinality(Units(y1)) = Cardinality(Units(y))
    BY ONLY <1>13, UnitsMove
<1> QED
    BY <1>9, <1>12, <1>14 DEF E, z, z1, g

(* PreprocReceive *)
LEMMA MemoryReceive ==
    ASSUME TypeOK, MemoryInv, NEW w \in Worker, chunk[w] = 0, chan[w] # << >>, used' = used,
           chunk' = [chunk EXCEPT ![w] = Len(Head(chan[w]))], chan' = [chan EXCEPT ![w] = Tail(@)]
    PROVE  MemoryInv'
<1> DEFINE n == Len(chan[w])
<1>1. w \in Queue /\ SegmentOf(w) \in Segment /\ w \in Consumers[SegmentOf(w)]
    BY SegmentFacts DEF Queue
<1>2. /\ chan[w] \in Seq(Seq(Metric) \ {<< >>}) /\ chan \in [Queue -> Seq(Seq(Metric) \ {<< >>})]
      /\ chunk \in [Worker -> Nat] /\ n \in Nat \ {0} /\ Places(w) = 1 .. n
    BY <1>1 DEF TypeOK, Places
<1>3. ASSUME NEW g \in Segment, g # SegmentOf(w)
      PROVE  Sizes(g)' = Sizes(g)
  <2>1. \A r \in Consumers[g] : r # w /\ r \in Queue
    BY <1>3, SegmentFacts
  <2>2. \A r \in Consumers[g] : chan'[r] = chan[r] /\ (r \in Worker => chunk'[r] = chunk[r])
    BY <1>2, <2>1
  <2> QED
    BY <2>2, SizesSame
<1>4. /\ chan'[w] = Tail(chan[w]) /\ chunk'[w] = Len(chan[w][1]) /\ chunk'[w] # 0
      /\ DOMAIN chan'[w] = 1 .. n - 1 /\ \A k \in 1 .. n - 1 : chan'[w][k] = chan[w][k + 1]
  <2>1. Head(chan[w]) = chan[w][1] /\ chan[w][1] \in Seq(Metric) /\ chan[w][1] # << >>
    BY <1>2
  <2> QED
    BY <1>1, <1>2, <2>1
<1>5. Sizes(SegmentOf(w))' = ReceivedSizes(w)
  <2> DEFINE g == SegmentOf(w)
  <2>1. Places(w)' = 0 .. n - 1
    BY <1>2, <1>4 DEF Places
  <2>2. \A r \in Consumers[g] : r # w => Places(r)' = Places(r) /\ chan'[r] = chan[r]
                                          /\ (r \in Worker => chunk'[r] = chunk[r])
    BY <1>1, <1>2, SegmentFacts DEF Places
  <2>3. Chunks(g)' = ReceivedChunks(w)
    <3>1. ASSUME NEW x PROVE x \in Chunks(g)' <=> x \in ReceivedChunks(w)
      <4>1. x \in Chunks(g)' <=> \E r \in Consumers[g] : \E k \in Places(r)' : x = <<r, k>>
        BY <1>1, ChunksAre
      <4>2. x \in Chunks(g) <=> \E r \in Consumers[g] : \E k \in Places(r) : x = <<r, k>>
        BY <1>1, ChunksAre
      <4>3. CASE \E k : x = <<w, k>>
        <5>1. PICK k : x = <<w, k>>
          BY <4>3
        <5>2. x \in Chunks(g)' <=> k \in 0 .. n - 1
          BY <1>1, <2>1, <4>1, <5>1
        <5>3. x \in Chunks(g) <=> k \in 1 .. n
          BY <1>1, <1>2, <4>2, <5>1
        <5>4. x \in ReceivedChunks(w) <=> (k \in 1 .. n \/ k = 0) /\ k # n
          BY <5>1, <5>3 DEF ReceivedChunks
        <5> QED
          BY <1>2, <5>2, <5>4
      <4>4. CASE ~\E k : x = <<w, k>>
        <5>1. x \in Chunks(g)' <=> x \in Chunks(g)
          BY <2>2, <4>1, <4>2, <4>4
        <5>2. x \in ReceivedChunks(w) <=> x \in Chunks(g)
          BY <4>4 DEF ReceivedChunks
        <5> QED
          BY <5>1, <5>2
      <4> QED
        BY <4>3, <4>4
    <3> QED
      BY <3>1
  <2>4. ASSUME NEW x \in Chunks(g)'
        PROVE  Cost(IF x[2] = 0 THEN chunk'[x[1]] ELSE Len(chan'[x[1]][x[2]]))
               = IF x[1] = w THEN Cost(Len(chan[w][x[2] + 1])) ELSE Sizes(SegmentOf(w))[x]
    <3>1. PICK r \in Consumers[g] : \E k \in Places(r)' : x = <<r, k>>
      BY <1>1, ChunksAre
    <3>2. PICK k \in Places(r)' : x = <<r, k>>
      BY <3>1
    <3>3. CASE r = w
      <4>1. k \in 0 .. n - 1
        BY <2>1, <3>3
      <4>2. (k = 0 => chunk'[w] = Len(chan[w][k + 1])) /\ (k # 0 => chan'[w][k] = chan[w][k + 1])
        BY <1>4, <4>1
      <4> QED
        BY <3>2, <3>3, <4>1, <4>2
    <3>4. CASE r # w
      <4>1. x \in Chunks(g) /\ x[1] # w
        BY <1>1, <2>2, <3>2, <3>4, ChunksAre
      <4>2. k = 0 => r \in Worker
        BY <1>1, <2>2, <3>4, SegmentFacts DEF Places, TypeOK
      <4>3. Sizes(g)[x] = Cost(IF k = 0 THEN chunk[r] ELSE Len(chan[r][k]))
        BY <3>2, <4>1 DEF Sizes
      <4> QED
        BY <2>2, <3>2, <3>4, <4>1, <4>2, <4>3
    <3> QED
      BY <3>3, <3>4
  <2>5. Sizes(g)' = [x \in Chunks(g)' |-> Cost(IF x[2] = 0 THEN chunk'[x[1]] ELSE Len(chan'[x[1]][x[2]]))]
    BY DEF Sizes
  <2>6. Sizes(g)' = [x \in Chunks(g)' |-> IF x[1] = w THEN Cost(Len(chan[w][x[2] + 1])) ELSE Sizes(SegmentOf(w))[x]]
    <3> DEFINE e1(x) == Cost(IF x[2] = 0 THEN chunk'[x[1]] ELSE Len(chan'[x[1]][x[2]]))
               e2(x) == IF x[1] = w THEN Cost(Len(chan[w][x[2] + 1])) ELSE Sizes(SegmentOf(w))[x]
    <3>1. \A x \in Chunks(g)' : e1(x) = e2(x)
      BY <2>4
    <3> HIDE DEF e1, e2
    <3>2. [x \in Chunks(g)' |-> e1(x)] = [x \in Chunks(g)' |-> e2(x)]
      BY <3>1
    <3> QED
      BY <2>5, <3>2 DEF e1, e2
  <2> QED
    BY <2>3, <2>6 DEF ReceivedSizes
<1>6. /\ IsFiniteSet(Units(ReceivedSizes(w)))
      /\ Cardinality(Units(ReceivedSizes(w))) = Cardinality(Units(Sizes(SegmentOf(w))))
  <2>1. IsFiniteSet(Units(Sizes(SegmentOf(w)))) /\ 0 \notin Places(w)
    BY <1>1, <1>2 DEF MemoryInv
  <2> QED
    BY <1>1, <2>1, UnitsReceived
<1> QED
  <2>1. ASSUME NEW g \in Segment
        PROVE  IsFiniteSet(Units(Sizes(g)')) /\ used'[g] = Cardinality(Units(Sizes(g)'))
    <3>1. CASE g = SegmentOf(w)
      BY <1>5, <1>6, <3>1 DEF MemoryInv
    <3>2. CASE g # SegmentOf(w)
      BY <1>3, <3>2 DEF MemoryInv
    <3> QED
      BY <3>1, <3>2
  <2> QED
    BY <2>1 DEF MemoryInv

(* PreprocRelease *)
LEMMA MemoryRelease ==
    ASSUME TypeOK, MemoryInv, NEW w \in Worker, chunk[w] # 0, chan' = chan,
           chunk' = [chunk EXCEPT ![w] = 0], used' = [used EXCEPT !["preproc"] = @ - Cost(chunk[w])]
    PROVE  MemoryInv' /\ used' \in [Segment -> 0 .. setup.total]
<1> DEFINE g == "preproc"
           x == <<w, 0>>
<1>1. w \in Queue /\ SegmentOf(w) = g /\ g \in Segment /\ w \in Consumers[g]
    BY DEF Queue, SegmentOf, Consumers, Segment
<1>2. /\ chan \in [Queue -> Seq(Seq(Metric) \ {<< >>})] /\ chunk \in [Worker -> Nat]
      /\ used \in [Segment -> 0 .. setup.total] /\ setup.total \in Nat
    BY PipelineAssumption DEF TypeOK
<1>3. chunk'[w] = 0 /\ \A r \in Worker : r # w => chunk'[r] = chunk[r]
    BY <1>2
<1>4. ASSUME NEW h \in Segment, h # g
      PROVE  Sizes(h)' = Sizes(h)
  <2>1. \A r \in Consumers[h] : r # w
    BY <1>1, <1>4, SegmentFacts
  <2>2. \A r \in Consumers[h] : chan'[r] = chan[r] /\ (r \in Worker => chunk'[r] = chunk[r])
    BY <1>3, <2>1
  <2> QED
    BY <2>2, SizesSame
<1>5. 0 \notin DOMAIN chan[w]
    BY <1>1, <1>2
<1>6. Places(w) = Places(w)' \cup {0} /\ 0 \notin Places(w)'
    BY <1>3, <1>5 DEF Places
<1>7. \A r \in Consumers[g] : r # w => Places(r)' = Places(r)
    BY <1>3 DEF Places
<1>8. Chunks(g) = Chunks(g)' \cup {x} /\ x \notin Chunks(g)'
  <2>1. Chunks(g) = Chunks(g)' \cup {x}
    BY <1>1, <1>6, <1>7, ChunksAre
  <2>2. x \notin Chunks(g)'
    BY <1>1, <1>6, ChunksAre
  <2> QED
    BY <2>1, <2>2
<1>9. Sizes(g) \in [Chunks(g) -> Nat]
    BY <1>1, SizesType
<1>10. ASSUME NEW y \in Chunks(g)'
       PROVE  Sizes(g)[y] = Sizes(g)'[y]
  <2>1. PICK r \in Consumers[g] : \E k \in Places(r)' : y = <<r, k>>
    BY <1>1, ChunksAre
  <2>2. PICK k \in Places(r)' : y = <<r, k>>
    BY <2>1
  <2>3. k = 0 => r # w /\ r \in Worker
    BY <1>1, <1>2, <1>6, SegmentFacts DEF Places
  <2>4. y \in Chunks(g)
    BY <1>8
  <2> QED
    BY <1>3, <2>2, <2>3, <2>4 DEF Sizes
<1>11. Sizes(g)' \in [Chunks(g)' -> Nat]
  <2>1. \A y \in Chunks(g)' : Sizes(g)'[y] \in Nat
    BY <1>8, <1>9, <1>10
  <2> QED
    BY <2>1 DEF Sizes
<1>12. Sizes(g)[x] = Cost(chunk[w]) /\ Cost(chunk[w]) \in Nat
    BY <1>2, <1>8, PipelineAssumption DEF Sizes, Cost
<1>13. IsFiniteSet(Units(Sizes(g))) /\ used[g] = Cardinality(Units(Sizes(g)))
    BY <1>1 DEF MemoryInv
<1>14. /\ IsFiniteSet(Units(Sizes(g)'))
       /\ Cardinality(Units(Sizes(g)')) = Cardinality(Units(Sizes(g))) - Sizes(g)[x]
  <2> PICK z : z = Sizes(g)
    OBVIOUS
  <2>1. z \in [Chunks(g)' \cup {x} -> Nat] /\ (\A y \in Chunks(g)' : z[y] = Sizes(g)'[y]) /\ IsFiniteSet(Units(z))
    BY <1>8, <1>9, <1>10, <1>13
  <2> HIDE DEF x
  <2>2. IsFiniteSet(Units(Sizes(g)')) /\ Cardinality(Units(Sizes(g)')) = Cardinality(Units(z)) - z[x]
    BY <1>8, <1>11, <2>1, SizesDrop
  <2> QED
    BY <2>2
<1>15. used'[g] = Cardinality(Units(Sizes(g)')) /\ used'[g] \in 0 .. setup.total
  <2>1. Cardinality(Units(Sizes(g)')) \in Nat
    BY <1>14, FS_CardinalityType
  <2> QED
    BY <1>1, <1>2, <1>12, <1>13, <1>14, <2>1
<1>16. MemoryInv'
  <2>1. ASSUME NEW h \in Segment
        PROVE  IsFiniteSet(Units(Sizes(h)')) /\ used'[h] = Cardinality(Units(Sizes(h)'))
    <3>1. CASE h = g
      BY <1>14, <1>15, <3>1
    <3>2. CASE h # g
      BY <1>2, <1>4, <3>2 DEF MemoryInv
    <3> QED
      BY <3>1, <3>2
  <2> QED
    BY <2>1 DEF MemoryInv
<1> QED
    BY <1>1, <1>2, <1>15, <1>16

(* ProcessReceive *)
LEMMA MemoryProcess ==
    ASSUME TypeOK, MemoryInv, NEW q \in Syncer, chan[q] # << >>, chunk' = chunk,
           used' = [used EXCEPT !["proc"] = @ - Cost(Len(Head(chan[q])))],
           chan' = [chan EXCEPT ![q] = Tail(@)]
    PROVE  MemoryInv' /\ used' \in [Segment -> 0 .. setup.total]
<1> DEFINE g == "proc"
           n == Len(chan[q])
           x == <<q, 0>>
<1>1. q \in Queue /\ q \notin Worker /\ SegmentOf(q) = g /\ g \in Segment /\ q \in Consumers[g]
    BY PipelineAssumption DEF Queue, SegmentOf, Consumers, Segment
<1>2. /\ chan \in [Queue -> Seq(Seq(Metric) \ {<< >>})] /\ chan[q] \in Seq(Seq(Metric) \ {<< >>})
      /\ n \in Nat \ {0} /\ used \in [Segment -> 0 .. setup.total] /\ setup.total \in Nat
    BY <1>1, PipelineAssumption DEF TypeOK
<1>3. /\ chan'[q] = Tail(chan[q]) /\ Head(chan[q]) = chan[q][1] /\ Len(chan[q][1]) \in Nat
      /\ DOMAIN chan'[q] = 1 .. n - 1 /\ DOMAIN chan[q] = 1 .. n
      /\ \A k \in 1 .. n - 1 : chan'[q][k] = chan[q][k + 1]
    BY <1>1, <1>2
<1>4. ASSUME NEW h \in Segment, h # g
      PROVE  Sizes(h)' = Sizes(h)
  <2>1. \A r \in Consumers[h] : r # q /\ r \in Queue
    BY <1>1, <1>4, SegmentFacts
  <2>2. \A r \in Consumers[h] : chan'[r] = chan[r]
    BY <1>2, <2>1
  <2> QED
    BY <2>2, SizesSame
<1>5. Places(q) = 1 .. n /\ Places(q)' = 1 .. n - 1
    BY <1>1, <1>3 DEF Places
<1>6. \A r \in Consumers[g] : r # q => Places(r)' = Places(r) /\ chan'[r] = chan[r]
    BY <1>1, <1>2, SegmentFacts DEF Places
<1>7. ReceivedChunks(q) = Chunks(g)' \cup {x} /\ x \notin Chunks(g)'
  <2>1. ASSUME NEW c PROVE c \in ReceivedChunks(q) <=> c \in Chunks(g)' \/ c = x
    <3>1. c \in Chunks(g)' <=> \E r \in Consumers[g] : \E k \in Places(r)' : c = <<r, k>>
      BY <1>1, ChunksAre
    <3>2. c \in Chunks(g) <=> \E r \in Consumers[g] : \E k \in Places(r) : c = <<r, k>>
      BY <1>1, ChunksAre
    <3>3. CASE \E k : c = <<q, k>>
      <4>1. PICK k : c = <<q, k>>
        BY <3>3
      <4>2. c \in Chunks(g)' <=> k \in 1 .. n - 1
        BY <1>1, <1>5, <3>1, <4>1
      <4>3. c \in Chunks(g) <=> k \in 1 .. n
        BY <1>1, <1>5, <3>2, <4>1
      <4>4. c \in ReceivedChunks(q) <=> (k \in 1 .. n \/ k = 0) /\ k # n
        BY <1>1, <4>1, <4>3 DEF ReceivedChunks
      <4> QED
        BY <1>2, <4>1, <4>2, <4>4
    <3>4. CASE ~\E k : c = <<q, k>>
      <4>1. c \in Chunks(g)' <=> c \in Chunks(g)
        BY <1>6, <3>1, <3>2, <3>4
      <4>2. c \in ReceivedChunks(q) <=> c \in Chunks(g)
        BY <1>1, <3>4 DEF ReceivedChunks
      <4> QED
        BY <3>4, <4>1, <4>2
    <3> QED
      BY <3>3, <3>4
  <2>2. x \notin Chunks(g)'
    BY <1>1, <1>5, ChunksAre
  <2> QED
    BY <2>1, <2>2
<1>8. IsFiniteSet(Units(Sizes(g))) /\ used[g] = Cardinality(Units(Sizes(g)))
    BY <1>1 DEF MemoryInv
<1>9. /\ ReceivedSizes(q) \in [ReceivedChunks(q) -> Nat] /\ IsFiniteSet(Units(ReceivedSizes(q)))
      /\ Cardinality(Units(ReceivedSizes(q))) = Cardinality(Units(Sizes(g)))
  <2>1. 0 \notin Places(q)
    BY <1>2, <1>5
  <2> QED
    BY <1>1, <1>8, <2>1, UnitsReceived
<1>10. ASSUME NEW y \in Chunks(g)'
       PROVE  ReceivedSizes(q)[y] = Sizes(g)'[y]
  <2>1. PICK r \in Consumers[g] : \E k \in Places(r)' : y = <<r, k>>
    BY <1>1, ChunksAre
  <2>2. PICK k \in Places(r)' : y = <<r, k>>
    BY <2>1
  <2>3. Sizes(g)'[y] = Cost(IF k = 0 THEN chunk[r] ELSE Len(chan'[r][k]))
    <3>1. Sizes(g)'[y] = Cost(IF y[2] = 0 THEN chunk'[y[1]] ELSE Len(chan'[y[1]][y[2]]))
      BY DEF Sizes
    <3>2. y[1] = r /\ y[2] = k
      BY <2>2
    <3> QED
      BY <3>1, <3>2
  <2>4. y \in ReceivedChunks(q)
    BY <1>7
  <2>5. CASE r = q
    <3>1. k \in 1 .. n - 1 /\ chan'[q][k] = chan[q][k + 1]
      BY <1>3, <1>5, <2>5
    <3>2. ReceivedSizes(q)[y] = Cost(Len(chan[q][k + 1]))
      BY <2>2, <2>4, <2>5 DEF ReceivedSizes
    <3> QED
      BY <1>2, <2>3, <2>5, <3>1, <3>2
  <2>6. CASE r # q
    <3>1. y \in Chunks(g)
      BY <1>1, <1>6, <2>2, <2>6, ChunksAre
    <3>2. ReceivedSizes(q)[y] = Sizes(g)[y]
      BY <1>1, <2>2, <2>4, <2>6 DEF ReceivedSizes
    <3>3. Sizes(g)[y] = Cost(IF k = 0 THEN chunk[r] ELSE Len(chan[r][k]))
      BY <2>2, <3>1 DEF Sizes
    <3> QED
      BY <1>6, <2>3, <2>6, <3>2, <3>3
  <2> QED
    BY <2>5, <2>6
<1>11. Sizes(g)' \in [Chunks(g)' -> Nat]
  <2>1. \A y \in Chunks(g)' : Sizes(g)'[y] \in Nat
    BY <1>7, <1>9, <1>10
  <2> QED
    BY <2>1 DEF Sizes
<1>12. ReceivedSizes(q)[x] = Cost(Len(Head(chan[q]))) /\ Cost(Len(Head(chan[q]))) \in Nat
  <2>1. x \in ReceivedChunks(q) /\ x[1] = q /\ x[2] = 0 /\ 0 + 1 = 1
    BY <1>7
  <2>2. ReceivedSizes(q)[x] = Cost(Len(chan[q][1]))
    BY <2>1 DEF ReceivedSizes
  <2> QED
    BY <1>3, <2>2, PipelineAssumption DEF Cost
<1>13. /\ IsFiniteSet(Units(Sizes(g)'))
       /\ Cardinality(Units(Sizes(g)')) = Cardinality(Units(Sizes(g))) - Cost(Len(Head(chan[q])))
  <2> PICK z : z = ReceivedSizes(q)
    OBVIOUS
  <2>1. z \in [Chunks(g)' \cup {x} -> Nat] /\ (\A y \in Chunks(g)' : z[y] = Sizes(g)'[y]) /\ IsFiniteSet(Units(z))
    BY <1>7, <1>9, <1>10
  <2> HIDE DEF x
  <2>2. IsFiniteSet(Units(Sizes(g)')) /\ Cardinality(Units(Sizes(g)')) = Cardinality(Units(z)) - z[x]
    BY <1>7, <1>11, <2>1, SizesDrop
  <2> QED
    BY <1>9, <1>12, <2>2
<1>14. used'[g] = Cardinality(Units(Sizes(g)')) /\ used'[g] \in 0 .. setup.total
  <2>1. Cardinality(Units(Sizes(g)')) \in Nat
    BY <1>13, FS_CardinalityType
  <2> QED
    BY <1>1, <1>2, <1>8, <1>12, <1>13, <2>1
<1>15. MemoryInv'
  <2>1. ASSUME NEW h \in Segment
        PROVE  IsFiniteSet(Units(Sizes(h)')) /\ used'[h] = Cardinality(Units(Sizes(h)'))
    <3>1. CASE h = g
      BY <1>13, <1>14, <3>1
    <3>2. CASE h # g
      BY <1>2, <1>4, <3>2 DEF MemoryInv
    <3> QED
      BY <3>1, <3>2
  <2> QED
    BY <2>1 DEF MemoryInv
<1> QED
    BY <1>1, <1>2, <1>14, <1>15

(* A step that neither sends nor receives. *)
LEMMA MemorySame ==
    ASSUME MemoryInv, chan' = chan, used' = used, chunk' = chunk
    PROVE  MemoryInv'
BY DEF MemoryInv, Sizes, Chunks, Places

-----------------------------------------------------------------------------
(* Buffers and flushes. *)

(* What is invariant about the buffers of the processes. *)
BufferInv ==
    /\ buf \in [Process -> [Queue -> Seq(Metric)]]
    /\ age \in [Process -> [Queue -> Nat]] /\ \A p \in Process, q \in Queue : age[p][q] <= MaxAge(p, q)
    /\ flush \in [Process -> [to : SUBSET Queue, high : BOOLEAN]]
    /\ FlushInv /\ LimitInv

(* A buffer is reached in its own turn. *)
LEMMA ReachedSelf == \A q \in Queue : Reached(q, q)
BY PipelineAssumption DEF Reached

(* A flush that goes on with the buffers l keeps the invariant when those  *)
(* of them with metrics are in one segment, and every buffer for           *)
(* processing that has reached the limit is among them.                    *)
LEMMA ContinueInv ==
    ASSUME BufferInv, NEW p \in Process, NEW b \in [Queue -> Seq(Metric)], NEW l \in SUBSET Queue, NEW high \in BOOLEAN,
           \A q, r \in l : b[q] # << >> /\ b[r] # << >> => SegmentOf(q) = SegmentOf(r),
           \A y \in Syncer : Len(b[y]) < Limit \/ (Len(b[y]) = Limit /\ y \in l),
           Continue(p, b, l, high), setup' = setup,
           ~passed'[p], \A s \in Process \ {p} : passed'[s] = passed[s]
    PROVE  BufferInv'
<1> DEFINE full == {q \in l : b[q] # << >>}
           rest == {r \in l : \E q \in full : Reached(q, r)}
           more == high /\ full # {}
<1>1. /\ buf' = [buf EXCEPT ![p] = b]
      /\ flush' = [flush EXCEPT ![p] = [to |-> rest, high |-> more]]
      /\ age' = [age EXCEPT ![p] = [q \in Queue |-> IF q \in l \ rest THEN 0 ELSE @[q]]]
    BY DEF Continue
<1>2. more \in BOOLEAN
    OBVIOUS
<1> HIDE DEF more
<1>3. /\ buf' \in [Process -> [Queue -> Seq(Metric)]] /\ buf'[p] = b
      /\ \A s \in Process \ {p} : buf'[s] = buf[s]
    BY <1>1 DEF BufferInv
<1>4. /\ flush' \in [Process -> [to : SUBSET Queue, high : BOOLEAN]]
      /\ flush'[p].to = rest /\ \A s \in Process \ {p} : flush'[s] = flush[s]
    BY <1>1, <1>2 DEF BufferInv
<1>5. age' \in [Process -> [Queue -> Nat]] /\ \A s \in Process, q \in Queue : age'[s][q] = 0 \/ age'[s][q] = age[s][q]
  <2>1. age[p] \in [Queue -> Nat]
    BY DEF BufferInv
  <2> DEFINE a == [q \in Queue |-> IF q \in l \ rest THEN 0 ELSE age[p][q]]
  <2>2. a \in [Queue -> Nat] /\ \A q \in Queue : a[q] = 0 \/ a[q] = age[p][q]
    BY <2>1
  <2>3. age' = [age EXCEPT ![p] = a]
    BY <1>1
  <2> HIDE DEF a
  <2> QED
    BY <2>2, <2>3 DEF BufferInv
<1>6. \A s \in Process, q \in Queue : age'[s][q] <= MaxAge(s, q)'
  <2>1. \A s \in Process, q \in Queue : MaxAge(s, q)' = MaxAge(s, q) /\ MaxAge(s, q) \in Nat
    BY DEF MaxAge, Fills
  <2> TAKE s \in Process, q \in Queue
  <2>2. age[s][q] <= MaxAge(s, q) /\ (age'[s][q] = 0 \/ age'[s][q] = age[s][q])
    BY <1>5 DEF BufferInv
  <2> QED
    BY <2>1, <2>2
<1>7. FlushInv'
  <2>1. ASSUME NEW r \in rest
        PROVE  \E q \in rest : b[q] # << >> /\ Reached(q, r)
    <3>1. PICK q \in full : Reached(q, r)
      OBVIOUS
    <3>2. q \in rest
      BY ReachedSelf
    <3> QED
      BY <3>1, <3>2
  <2>2. ASSUME NEW q \in rest, NEW r \in rest PROVE SegmentOf(q) = SegmentOf(r)
    <3>1. PICK q1 \in full : Reached(q1, q)
      OBVIOUS
    <3>2. PICK r1 \in full : Reached(r1, r)
      OBVIOUS
    <3>3. SegmentOf(q1) = SegmentOf(r1)
      OBVIOUS
    <3> QED
      BY <3>1, <3>2, <3>3 DEF Reached
  <2> HIDE DEF rest
  <2> SUFFICES ASSUME NEW s \in Process
               PROVE  /\ passed'[s] => flush'[s].to # {}
                      /\ \A q, r \in flush'[s].to : SegmentOf(q) = SegmentOf(r)
                      /\ \A r \in flush'[s].to : \E q \in flush'[s].to : buf'[s][q] # << >> /\ Reached(q, r)
    BY DEF FlushInv, SegmentOf, Reached
  <2>3. CASE s = p
    BY <1>3, <1>4, <2>1, <2>2, <2>3
  <2>4. CASE s # p
    BY <1>3, <1>4, <2>4 DEF BufferInv, FlushInv
  <2> QED
    BY <2>3, <2>4
<1>8. LimitInv'
  <2> SUFFICES ASSUME NEW s \in Process, NEW y \in Syncer
               PROVE  Len(buf'[s][y]) < Limit \/ (Len(buf'[s][y]) = Limit /\ y \in flush'[s].to)
    BY DEF LimitInv
  <2>1. CASE s = p
    <3>1. CASE Len(b[y]) < Limit
      BY <1>3, <2>1, <3>1
    <3>2. CASE Len(b[y]) = Limit /\ y \in l
      <4>1. y \in Queue /\ b[y] # << >>
        BY <3>2, PipelineAssumption DEF Queue
      <4>2. y \in rest
        BY <3>2, <4>1, ReachedSelf
      <4> QED
        BY <1>3, <1>4, <2>1, <3>2, <4>2
    <3> QED
      BY <3>1, <3>2
  <2>2. CASE s # p
    BY <1>3, <1>4, <2>2 DEF BufferInv, LimitInv
  <2> QED
    BY <2>1, <2>2
<1> QED
    BY <1>3, <1>4, <1>5, <1>6, <1>7, <1>8 DEF BufferInv

(* No buffer for processing of a process without a flush is at the limit. *)
LEMMA IdleFacts ==
    ASSUME BufferInv, NEW p \in Process, flush[p].to = {}
    PROVE  ~passed[p] /\ \A y \in Syncer : Len(buf[p][y]) < Limit
BY DEF BufferInv, FlushInv, LimitInv

(* The buffers that are due are those of one segment. *)
LEMMA DueFacts ==
    ASSUME NEW p, NEW b, NEW g \in Segment, NEW period, NEW limit
    PROVE  /\ DueBuffers(p, b, g, period, limit) \in SUBSET Queue
           /\ \A q \in DueBuffers(p, b, g, period, limit) : SegmentOf(q) = g
BY SegmentFacts DEF DueBuffers

(* A flush that does not look at the limit. *)
LEMMA FlushAllInv ==
    ASSUME BufferInv, NEW p \in Process, flush[p].to = {}, NEW g \in Segment, NEW period, NEW high \in BOOLEAN,
           BuffersFlush(p, buf[p], g, period, 0, high), setup' = setup, passed' = passed
    PROVE  BufferInv'
<1> PICK b, l : b = buf[p] /\ l = DueBuffers(p, b, g, period, 0)
    OBVIOUS
<1>1. b \in [Queue -> Seq(Metric)] /\ \A y \in Syncer : Len(b[y]) < Limit
    BY IdleFacts DEF BufferInv
<1>2. l \in SUBSET Queue /\ \A q \in l : SegmentOf(q) = g
    BY DueFacts
<1>3. Continue(p, b, l, high)
    BY DEF BuffersFlush
<1>4. ~passed[p]
    BY IdleFacts
<1> QED
    BY <1>1, <1>2, <1>3, <1>4, ContinueInv

(* ForceFlush and IpcFlush. *)
LEMMA FlushBothInv ==
    ASSUME BufferInv, NEW p \in Process, flush[p].to = {}, NEW g \in Segment, NEW h \in Segment,
           NEW period, NEW high \in BOOLEAN, FlushBoth(p, g, h, period, high), setup' = setup, passed' = passed,
           second \in [Process -> BOOLEAN]
    PROVE  BufferInv' /\ second' \in [Process -> BOOLEAN]
<1> PICK b, first, then : b = buf[p] /\ first = DueBuffers(p, b, g, period, 0) /\ then = DueBuffers(p, b, h, period, 0)
    OBVIOUS
<1>1. b \in [Queue -> Seq(Metric)] /\ \A y \in Syncer : Len(b[y]) < Limit
    BY IdleFacts DEF BufferInv
<1>2. /\ first \in SUBSET Queue /\ \A q \in first : SegmentOf(q) = g
      /\ then \in SUBSET Queue /\ \A q \in then : SegmentOf(q) = h
    BY DueFacts
<1>3. ~passed[p]
    BY IdleFacts
<1>4. CASE \E q \in first : b[q] # << >>
  <2>1. Continue(p, b, first, high) /\ second' = [second EXCEPT ![p] = TRUE]
    BY <1>4 DEF FlushBoth
  <2>2. BufferInv'
    BY <1>1, <1>2, <1>3, <2>1, ContinueInv
  <2> QED
    BY <2>1, <2>2
<1>5. CASE ~\E q \in first : b[q] # << >>
  <2>1. PICK l : l = first \cup then
    OBVIOUS
  <2>2. Continue(p, b, l, FALSE) /\ second' = second
    BY <1>5, <2>1 DEF FlushBoth
  <2>3. l \in SUBSET Queue /\ \A q, r \in l : b[q] # << >> /\ b[r] # << >> => SegmentOf(q) = SegmentOf(r)
    BY <1>2, <1>5, <2>1
  <2>4. /\ ~passed'[p] /\ \A s \in Process \ {p} : passed'[s] = passed[s]
        /\ \A y \in Syncer : Len(b[y]) < Limit \/ (Len(b[y]) = Limit /\ y \in l)
        /\ BufferInv /\ p \in Process /\ b \in [Queue -> Seq(Metric)] /\ FALSE \in BOOLEAN /\ setup' = setup
    BY <1>1, <1>3
  <2>5. BufferInv'
    BY ONLY <2>2, <2>3, <2>4, ContinueInv
  <2> QED
    BY <2>2, <2>5
<1> QED
    BY <1>4, <1>5

(* A metric is added to a buffer; the limit is looked at for those for     *)
(* processing.                                                             *)
LEMMA AddInv ==
    ASSUME BufferInv, NEW p \in Process, flush[p].to = {}, NEW q \in Queue, NEW m \in Metric, NEW period, NEW limit,
           NEW high \in BOOLEAN, q \in Syncer => limit = Limit,
           AddAndFlush(p, q, m, period, limit, high), setup' = setup, passed' = passed
    PROVE  BufferInv'
<1> PICK b, l : b = [buf[p] EXCEPT ![q] = Append(@, m)] /\ l = DueBuffers(p, b, SegmentOf(q), period, limit)
    OBVIOUS
<1>0. buf[p] \in [Queue -> Seq(Metric)]
    BY DEF BufferInv
<1>1. /\ b \in [Queue -> Seq(Metric)] /\ Len(b[q]) = Len(buf[p][q]) + 1
      /\ \A r \in Queue \ {q} : b[r] = buf[p][r]
    BY <1>0
<1>2. l \in SUBSET Queue /\ \A r \in l : SegmentOf(r) = SegmentOf(q)
    BY SegmentFacts, DueFacts
<1>3. ASSUME NEW y \in Syncer PROVE Len(b[y]) < Limit \/ (Len(b[y]) = Limit /\ y \in l)
  <2>1. Len(buf[p][y]) < Limit /\ y \in Queue /\ Limit \in Nat \ {0}
    BY IdleFacts, PipelineAssumption DEF Queue
  <2>2. CASE y # q
    BY <1>1, <2>1, <2>2
  <2>3. CASE y = q
    <3>1. limit = Limit /\ Len(buf[p][q]) \in Nat
      BY <1>0, <2>3
    <3>2. Len(b[y]) <= Limit
      BY <1>1, <2>1, <2>3, <3>1
    <3>3. ASSUME Len(b[y]) = Limit PROVE y \in l
      BY <2>1, <2>3, <3>1, <3>3, SegmentFacts DEF DueBuffers, Due
    <3> QED
      BY <1>1, <2>1, <3>2, <3>3
  <2> QED
    BY <2>2, <2>3
<1>4. Continue(p, b, l, high)
    BY DEF AddAndFlush, BuffersFlush
<1>5. ~passed'[p] /\ \A s \in Process \ {p} : passed'[s] = passed[s]
    BY IdleFacts
<1>6. \A s, r \in l : b[s] # << >> /\ b[r] # << >> => SegmentOf(s) = SegmentOf(r)
    BY <1>2
<1>7. /\ BufferInv /\ p \in Process /\ b \in [Queue -> Seq(Metric)] /\ l \in SUBSET Queue
      /\ high \in BOOLEAN /\ setup' = setup
    BY <1>1, <1>2
<1> QED
    BY ONLY <1>3, <1>4, <1>5, <1>6, <1>7, ContinueInv

(* The next buffer of a flush has metrics. *)
LEMMA NextBufferFacts ==
    ASSUME BufferInv, NEW p \in Process, flush[p].to # {}
    PROVE  NextBuffer(p) \in flush[p].to /\ buf[p][NextBuffer(p)] # << >>
<1> DEFINE to == flush[p].to
           B == {ConsumerId[q] : q \in to}
           nb == NextBuffer(p)
<1>1. to \in SUBSET Queue /\ \A q, r \in to : SegmentOf(q) = SegmentOf(r)
    BY DEF BufferInv, FlushInv
<1>2. B \in SUBSET Nat /\ B # {}
    BY <1>1, PipelineAssumption
<1>3. \E n \in B : \A k \in B : n <= k
  <2> PICK A : A = B
    OBVIOUS
  <2> HIDE DEF B
  <2>1. A \in SUBSET Nat /\ A # {}
    BY <1>2
  <2>2. \E n \in A : \A k \in A : n <= k
    BY ONLY <2>1, LeastNat
  <2> QED
    BY <2>2
<1>4. PICK q \in to : \A r \in to : ConsumerId[q] <= ConsumerId[r]
    BY <1>3
<1>5. \A r \in to : Reached(q, r)
    BY <1>1, <1>4 DEF Reached
<1>6. nb \in to /\ \A r \in to : Reached(nb, r)
    BY <1>5 DEF NextBuffer
<1> HIDE DEF nb
<1>7. PICK r \in to : buf[p][r] # << >> /\ Reached(r, nb)
    BY <1>6 DEF BufferInv, FlushInv
<1>8. ConsumerId[r] = ConsumerId[nb] /\ SegmentOf(r) = SegmentOf(nb) /\ r \in Queue /\ nb \in Queue
    BY <1>1, <1>6, <1>7, PipelineAssumption DEF Reached
<1>9. r = nb
    BY <1>8, PipelineAssumption DEF SegmentOf, Queue
<1> QED
    BY <1>6, <1>7, <1>9 DEF nb

-----------------------------------------------------------------------------
(* The invariant, one lemma for each action. *)

(* What TypeOK says of everything else. *)
OtherTypes ==
    /\ setup \in Setups
    /\ passed \in [Process -> BOOLEAN] /\ second \in [Process -> BOOLEAN]
    /\ chan \in [Queue -> Seq(Seq(Metric) \ {<< >>})]
    /\ used \in [Segment -> 0 .. setup.total]
    /\ loop \in [Worker -> BOOLEAN] /\ chunk \in [Worker -> Nat]
    /\ held \in [Worker -> Seq(Metric)] /\ todo \in [Worker -> Seq(Metric \X BOOLEAN)]
    /\ sent \in [Sender -> Seq(Item)]
    /\ history \in [Syncer -> Seq(Metric)]

(* The parts of the invariant. *)
LEMMA Parts ==
    /\ IInv <=> BufferInv /\ OtherTypes /\ MemoryInv /\ ChunkBounded
    /\ IInv' <=> BufferInv' /\ OtherTypes' /\ MemoryInv' /\ ChunkBounded'
BY DEF IInv, TypeOK, BufferInv, OtherTypes

(* A process is a sender or a worker, a queue a worker or a syncer. *)
LEMMA Kinds ==
    /\ Sender \in SUBSET Process /\ Worker \in SUBSET Process /\ Poller \in SUBSET Sender /\ Trapper \in SUBSET Sender
    /\ Worker \in SUBSET Queue /\ Syncer \in SUBSET Queue /\ Worker \cap Syncer = {}
BY PipelineAssumption DEF Process, Queue, Sender

(* The initial states. *)
LEMMA PipelineInit == Init => IInv
<1> SUFFICES ASSUME Init PROVE IInv
    OBVIOUS
<1>1. setup.total \in Nat
    BY PipelineAssumption DEF Init
<1>2. \A p \in Process, q \in Queue : MaxAge(p, q) \in Nat
    BY DEF MaxAge
<1>3. TypeOK
  <2>1. /\ [q \in Queue |-> << >>] \in [Queue -> Seq(Metric)] /\ [q \in Queue |-> 0] \in [Queue -> Nat]
        /\ [to |-> {}, high |-> FALSE] \in [to : SUBSET Queue, high : BOOLEAN]
    OBVIOUS
  <2> QED
    BY <1>1, <1>2, <2>1 DEF Init, TypeOK
<1>4. FlushInv
    BY DEF Init, FlushInv
<1>5. LimitInv
    BY Kinds, PipelineAssumption DEF Init, LimitInv
<1>6. MemoryInv
  <2> SUFFICES ASSUME NEW g \in Segment
               PROVE  IsFiniteSet(Units(Sizes(g))) /\ used[g] = Cardinality(Units(Sizes(g)))
    BY DEF MemoryInv
  <2>1. \A q \in Consumers[g] : Places(q) = {}
    BY SegmentFacts DEF Init, Places
  <2>2. Chunks(g) = {}
    BY <2>1, ChunksAre
  <2>3. Units(Sizes(g)) = {}
    BY <2>2 DEF Units, Sizes
  <2> QED
    BY <2>3, FS_EmptySet DEF Init
<1>7. ChunkBounded
    BY Kinds DEF Init, ChunkBounded
<1> QED
    BY <1>3, <1>4, <1>5, <1>6, <1>7 DEF IInv

(* A flush passes the watermark. *)
LEMMA FlushPassInv ==
    ASSUME IInv, NEW p \in Process, FlushPass(p)
    PROVE  IInv'
<1>1. BufferInv /\ OtherTypes /\ MemoryInv /\ ChunkBounded
    BY Parts
<1>2. /\ flush[p].to # {} /\ passed' = [passed EXCEPT ![p] = TRUE]
      /\ UNCHANGED <<setup, buf, age, flush, second, chan, used, loop, chunk, held, todo, sent, history>>
    BY DEF FlushPass, workerVars
<1>3. passed' \in [Process -> BOOLEAN] /\ \A s \in Process : s # p => passed'[s] = passed[s]
    BY <1>1, <1>2 DEF OtherTypes
<1>4. OtherTypes'
    BY <1>1, <1>2, <1>3 DEF OtherTypes
<1>5. FlushInv'
    BY <1>1, <1>2, <1>3 DEF BufferInv, FlushInv, SegmentOf, Reached
<1>6. BufferInv'
    BY <1>1, <1>2, <1>5 DEF BufferInv, LimitInv, MaxAge, Fills
<1>7. MemoryInv' /\ ChunkBounded'
    BY <1>1, <1>2, MemorySame DEF ChunkBounded
<1> QED
    BY <1>4, <1>6, <1>7, Parts

(* A flush sends its next buffer. *)
LEMMA FlushSendInv ==
    ASSUME IInv, NEW p \in Process, FlushSend(p)
    PROVE  IInv'
<1>1. BufferInv /\ OtherTypes /\ MemoryInv /\ ChunkBounded /\ TypeOK
    BY Parts DEF IInv
<1>2. PICK q, b, l, high : /\ q = NextBuffer(p) /\ b = [buf[p] EXCEPT ![q] = << >>]
                           /\ l = flush[p].to /\ high = flush[p].high
    OBVIOUS
<1>3. PICK m : m = buf[p][q]
    OBVIOUS
<1>4. /\ passed[p] /\ used[SegmentOf(q)] + Cost(Len(m)) <= setup.total
      /\ used' = [used EXCEPT ![SegmentOf(q)] = @ + Cost(Len(m))]
      /\ chan' = [chan EXCEPT ![q] = Append(@, m)]
      /\ Continue(p, b, l, high)
      /\ passed' = [passed EXCEPT ![p] = FALSE]
      /\ UNCHANGED <<setup, second, loop, chunk, held, todo, sent, history>>
    BY <1>2, <1>3 DEF FlushSend, workerVars
<1>5. flush[p].to # {}
    BY <1>1, <1>4 DEF BufferInv, FlushInv
<1>6. q \in l /\ q \in Queue /\ l \in SUBSET Queue /\ high \in BOOLEAN /\ m # << >> /\ m \in Seq(Metric)
  <2>1. NextBuffer(p) \in flush[p].to /\ buf[p][NextBuffer(p)] # << >>
    BY <1>1, <1>5, NextBufferFacts
  <2> QED
    BY <1>1, <1>2, <1>3, <2>1 DEF BufferInv
<1>7. /\ b \in [Queue -> Seq(Metric)] /\ b[q] = << >> /\ \A r \in Queue \ {q} : b[r] = buf[p][r]
    BY <1>1, <1>2, <1>6 DEF BufferInv
<1>8. \A y \in Syncer : Len(buf[p][y]) <= Limit
  <2> TAKE y \in Syncer
  <2>1. Len(buf[p][y]) \in Nat /\ Limit \in Nat
    BY <1>1, Kinds, PipelineAssumption DEF BufferInv
  <2>2. Len(buf[p][y]) < Limit \/ Len(buf[p][y]) = Limit
    BY <1>1 DEF BufferInv, LimitInv
  <2> QED
    BY <2>1, <2>2
<1>9. BufferInv'
  <2>1. \A r, s \in l : b[r] # << >> /\ b[s] # << >> => SegmentOf(r) = SegmentOf(s)
    BY <1>1, <1>2 DEF BufferInv, FlushInv
  <2>2. \A y \in Syncer : Len(b[y]) < Limit \/ (Len(b[y]) = Limit /\ y \in l)
    <3> TAKE y \in Syncer
    <3>1. y \in Queue /\ Limit \in Nat \ {0}
      BY Kinds, PipelineAssumption
    <3>2. CASE y = q
      BY <1>7, <3>1, <3>2
    <3>3. CASE y # q
      BY <1>1, <1>2, <1>7, <3>1, <3>3 DEF BufferInv, LimitInv
    <3> QED
      BY <3>2, <3>3
  <2>3. ~passed'[p] /\ \A s \in Process \ {p} : passed'[s] = passed[s]
    BY <1>1, <1>4 DEF OtherTypes
  <2>4. /\ BufferInv /\ p \in Process /\ b \in [Queue -> Seq(Metric)] /\ l \in SUBSET Queue /\ high \in BOOLEAN
        /\ Continue(p, b, l, high) /\ setup' = setup
    BY <1>1, <1>4, <1>6, <1>7
  <2> QED
    BY ONLY <2>1, <2>2, <2>3, <2>4, ContinueInv
<1>10. MemoryInv'
    BY <1>1, <1>4, <1>6, MemorySend
<1>11. used' \in [Segment -> 0 .. setup.total]
  <2>1. setup.total \in Nat /\ Cost(Len(m)) \in Nat /\ SegmentOf(q) \in Segment
    BY <1>1, <1>6, SegmentFacts, PipelineAssumption DEF OtherTypes, Cost
  <2>2. used \in [Segment -> 0 .. setup.total]
    BY <1>1 DEF OtherTypes
  <2>3. used[SegmentOf(q)] + Cost(Len(m)) \in 0 .. setup.total
    BY <1>4, <2>1, <2>2
  <2> QED
    BY <1>4, <2>1, <2>2, <2>3
<1>12. chan' \in [Queue -> Seq(Seq(Metric) \ {<< >>})]
  <2>1. m \in Seq(Metric) \ {<< >>} /\ chan \in [Queue -> Seq(Seq(Metric) \ {<< >>})]
    BY <1>1, <1>6 DEF OtherTypes
  <2>2. PICK C : C = Seq(Metric) \ {<< >>}
    OBVIOUS
  <2>3. Append(chan[q], m) \in Seq(C)
    BY <1>6, <2>1, <2>2
  <2> QED
    BY <1>4, <1>6, <2>1, <2>2, <2>3
<1>13. OtherTypes'
    BY <1>1, <1>4, <1>11, <1>12 DEF OtherTypes
<1>14. ChunkBounded'
  <2> SUFFICES ASSUME NEW y \in Syncer, NEW k \in DOMAIN chan'[y]
               PROVE  Len(chan'[y][k]) <= HistMax
    BY DEF ChunkBounded
  <2>1. y \in Queue /\ chan[y] \in Seq(Seq(Metric) \ {<< >>}) /\ chan \in [Queue -> Seq(Seq(Metric) \ {<< >>})]
    BY <1>1, Kinds DEF OtherTypes
  <2>2. CASE y # q
    <3>1. chan'[y] = chan[y]
      BY <1>4, <2>1, <2>2
    <3> QED
      BY <1>1, <3>1 DEF ChunkBounded
  <2>3. CASE y = q
    <3>1. chan'[y] = Append(chan[y], m)
      BY <1>4, <2>1, <2>3
    <3>2. Len(m) <= HistMax
      BY <1>3, <1>6, <1>8, <2>3, PipelineAssumption
    <3>3. (k \in DOMAIN chan[y] /\ chan'[y][k] = chan[y][k]) \/ chan'[y][k] = m
      BY <2>1, <3>1
    <3> QED
      BY <1>1, <3>2, <3>3 DEF ChunkBounded
  <2> QED
    BY <2>2, <2>3
<1> QED
    BY <1>9, <1>10, <1>13, <1>14, Parts

(* A step that only adds to buffers and flushes, and keeps the types. *)
LEMMA BufferStep ==
    ASSUME IInv, BufferInv', OtherTypes', chan' = chan, used' = used, chunk' = chunk
    PROVE  IInv'
<1>1. MemoryInv /\ ChunkBounded
    BY Parts
<1>2. MemoryInv'
    BY <1>1, MemorySame
<1>3. ChunkBounded'
    BY <1>1 DEF ChunkBounded
<1> QED
    BY <1>2, <1>3, Parts

(* A sender sends a metric to preprocessing, or a proxied one to processing. *)
LEMMA SendStepInv ==
    ASSUME IInv, NEW s \in Sender, SendStep(s)
    PROVE  IInv'
<1>1. BufferInv /\ OtherTypes
    BY Parts
<1>2. PICK i \in Item : PreprocessSendMetric(s, i) \/ ProcessingSendFromProxy(s, i)
    BY DEF SendStep
<1>3. PICK m : m = NewMetric(s, i)
    OBVIOUS
<1>4. m \in Metric
    BY <1>1, <1>3 DEF NewMetric, Metric, OtherTypes
<1>5. /\ sent' = [sent EXCEPT ![s] = Append(@, i)] /\ flush[s].to = {}
      /\ UNCHANGED <<setup, passed, second, chan, used, loop, chunk, held, todo, history>>
    BY <1>2 DEF PreprocessSendMetric, ProcessingSendFromProxy, MaySend, Ready, workerVars
<1>6. OtherTypes'
    BY <1>1, <1>5 DEF OtherTypes
<1>7. BufferInv'
  <2>1. CASE PreprocessSendMetric(s, i)
    <3>1. AddAndFlush(s, WorkerOf[i], m, 1, 0, FALSE)
      BY <1>3, <2>1 DEF PreprocessSendMetric
    <3>2. WorkerOf[i] \in Queue /\ WorkerOf[i] \notin Syncer /\ s \in Process /\ FALSE \in BOOLEAN
      BY Kinds, PipelineAssumption
    <3> QED
      BY <1>1, <1>4, <1>5, <3>1, <3>2, AddInv
  <2>2. CASE ProcessingSendFromProxy(s, i)
    <3>1. AddAndFlush(s, SyncerOf[i], m, 2, Limit, FALSE)
      BY <1>3, <2>2 DEF ProcessingSendFromProxy
    <3>2. SyncerOf[i] \in Queue /\ s \in Process /\ FALSE \in BOOLEAN
      BY Kinds, PipelineAssumption
    <3> QED
      BY <1>1, <1>4, <1>5, <3>1, <3>2, AddInv
  <2> QED
    BY <1>2, <2>1, <2>2
<1> QED
    BY <1>5, <1>6, <1>7, BufferStep

(* The flushes of senders. *)
LEMMA SenderFlushInv ==
    ASSUME IInv, NEW s \in Sender,
           (s \in Poller /\ PreprocessingFlush(s)) \/ ForceFlush(s) \/ ForceFlushSecond(s)
    PROVE  IInv'
<1>1. BufferInv /\ OtherTypes /\ s \in Process
    BY Parts, Kinds
<1>2. "preproc" \in Segment /\ "proc" \in Segment /\ FALSE \in BOOLEAN
    BY DEF Segment
<1>3. CASE PreprocessingFlush(s)
  <2>1. PICK high \in BOOLEAN : BuffersFlush(s, buf[s], "preproc", 1, 0, high)
    BY <1>3 DEF PreprocessingFlush
  <2>2. flush[s].to = {} /\ UNCHANGED <<setup, passed, second, chan, used, loop, chunk, held, todo, sent, history>>
    BY <1>3 DEF PreprocessingFlush, Ready, workerVars
  <2>3. BufferInv'
    BY <1>1, <1>2, <2>1, <2>2, FlushAllInv
  <2>4. OtherTypes'
    BY <1>1, <2>2 DEF OtherTypes
  <2> QED
    BY <2>2, <2>3, <2>4, BufferStep
<1>4. CASE ForceFlush(s)
  <2>1. FlushBoth(s, "proc", "preproc", 0, FALSE)
    BY <1>4 DEF ForceFlush
  <2>2. flush[s].to = {} /\ UNCHANGED <<setup, passed, chan, used, loop, chunk, held, todo, sent, history>>
    BY <1>4 DEF ForceFlush, Ready, workerVars
  <2>3. BufferInv' /\ second' \in [Process -> BOOLEAN]
    <3>1. second \in [Process -> BOOLEAN]
      BY <1>1 DEF OtherTypes
    <3> QED
      BY <1>1, <1>2, <2>1, <2>2, <3>1, FlushBothInv
  <2>4. OtherTypes'
    BY <1>1, <2>2, <2>3 DEF OtherTypes
  <2> QED
    BY <2>2, <2>3, <2>4, BufferStep
<1>5. CASE ForceFlushSecond(s)
  <2>1. BuffersFlush(s, buf[s], "preproc", 0, 0, FALSE) /\ second' = [second EXCEPT ![s] = FALSE]
    BY <1>5 DEF ForceFlushSecond
  <2>2. flush[s].to = {} /\ UNCHANGED <<setup, passed, chan, used, loop, chunk, held, todo, sent, history>>
    BY <1>5 DEF ForceFlushSecond, workerVars
  <2>3. BufferInv'
    BY <1>1, <1>2, <2>1, <2>2, FlushAllInv
  <2>4. OtherTypes'
    BY <1>1, <2>1, <2>2 DEF OtherTypes
  <2> QED
    BY <2>2, <2>3, <2>4, BufferStep
<1> QED
    BY <1>3, <1>4, <1>5

(* Nothing about buffers changes. *)
LEMMA BufferSame ==
    ASSUME BufferInv, UNCHANGED <<setup, buf, age, flush, passed>>
    PROVE  BufferInv'
BY DEF BufferInv, FlushInv, LimitInv, MaxAge, Fills, SegmentOf, Reached

(* A worker receives a chunk, or finds none. *)
LEMMA PreprocReceiveInv ==
    ASSUME IInv, NEW w \in Worker, PreprocReceive(w) \/ PreprocReceiveEnd(w)
    PROVE  IInv'
<1>1. BufferInv /\ OtherTypes /\ MemoryInv /\ ChunkBounded /\ TypeOK
    BY Parts DEF IInv
<1>2. CASE PreprocReceive(w)
  <2>1. /\ chunk[w] = 0 /\ chan[w] # << >>
        /\ loop' = [loop EXCEPT ![w] = TRUE] /\ held' = [held EXCEPT ![w] = Head(chan[w])]
        /\ chunk' = [chunk EXCEPT ![w] = Len(Head(chan[w]))] /\ chan' = [chan EXCEPT ![w] = Tail(@)]
        /\ UNCHANGED <<setup, buf, age, flush, passed, second, used, todo, sent, history>>
    BY <1>2 DEF PreprocReceive
  <2>2. BufferInv'
    BY <1>1, <2>1, BufferSame
  <2>3. MemoryInv'
    BY <1>1, <2>1, MemoryReceive
  <2>4. w \in Queue /\ w \notin Syncer /\ chan \in [Queue -> Seq(Seq(Metric) \ {<< >>})]
    BY <1>1, Kinds DEF OtherTypes
  <2>5. Head(chan[w]) \in Seq(Metric) /\ Tail(chan[w]) \in Seq(Seq(Metric) \ {<< >>}) /\ Len(Head(chan[w])) \in Nat
    <3>1. PICK C : C = Seq(Metric) \ {<< >>}
      OBVIOUS
    <3>2. Head(chan[w]) \in C /\ Tail(chan[w]) \in Seq(C)
      BY <2>1, <2>4, <3>1
    <3> QED
      BY <3>1, <3>2
  <2>6. OtherTypes'
    BY <1>1, <2>1, <2>4, <2>5 DEF OtherTypes
  <2>7. ChunkBounded'
    <3>1. \A y \in Syncer : chan'[y] = chan[y]
      BY <2>1, <2>4, Kinds
    <3> QED
      BY <1>1, <3>1 DEF ChunkBounded
  <2> QED
    BY <2>2, <2>3, <2>6, <2>7, Parts
<1>3. CASE PreprocReceiveEnd(w)
  <2>1. /\ loop' = [loop EXCEPT ![w] = FALSE]
        /\ UNCHANGED <<setup, buf, age, flush, passed, second, chan, used, chunk, held, todo, sent, history>>
    BY <1>3 DEF PreprocReceiveEnd
  <2>2. BufferInv'
    BY <1>1, <2>1, BufferSame
  <2>3. OtherTypes'
    BY <1>1, <2>1 DEF OtherTypes
  <2> QED
    BY <2>1, <2>2, <2>3, BufferStep
<1> QED
    BY <1>2, <1>3

(* A worker preprocesses a metric. *)
LEMMA PreprocessInv ==
    ASSUME IInv, NEW w \in Worker, Preprocess(w)
    PROVE  IInv'
<1>1. BufferInv /\ OtherTypes
    BY Parts
<1>2. PICK m, outputs : m = Head(held[w]) /\ outputs = Execute[MaxLevel][m.item][m.none]
    OBVIOUS
<1> DEFINE e(k) == <<[m EXCEPT !.item = outputs[k].item, !.none = outputs[k].none], outputs[k].fwd>>
<1>3. /\ held[w] # << >> /\ held' = [held EXCEPT ![w] = Tail(@)]
      /\ todo' = [todo EXCEPT ![w] = [k \in DOMAIN outputs |-> e(k)]]
      /\ UNCHANGED <<setup, buf, age, flush, passed, second, chan, used, loop, chunk, sent, history>>
    BY <1>2 DEF Preprocess
<1>4. m \in Metric /\ Tail(held[w]) \in Seq(Metric)
  <2>1. held[w] \in Seq(Metric) /\ held[w] # << >>
    BY <1>1 DEF OtherTypes, Preprocess
  <2>2. Head(held[w]) \in Metric /\ Tail(held[w]) \in Seq(Metric)
    BY ONLY <2>1
  <2> QED
    BY <1>2, <2>2
<1>5. outputs \in Seq(Output)
  <2>1. PICK i, none : i = m.item /\ none = m.none
    OBVIOUS
  <2>2. i \in Item /\ none \in BOOLEAN /\ setup \in Setups
    BY <1>1, <1>4, <2>1 DEF Metric, OtherTypes
  <2>3. Execute[MaxLevel][i][none] \in Seq(Output)
    BY <2>2, ExecuteType
  <2> QED
    BY <1>2, <2>1, <2>3
<1>6. ASSUME NEW k \in DOMAIN outputs PROVE e(k) \in Metric \X BOOLEAN
  <2>1. PICK o : o = outputs[k]
    OBVIOUS
  <2>2. o \in Output
    BY <1>5, <2>1
  <2>3. [m EXCEPT !.item = o.item, !.none = o.none] \in Metric /\ o.fwd \in BOOLEAN
    BY <1>4, <2>2 DEF Metric, Output
  <2> QED
    BY <2>1, <2>3
<1> HIDE DEF e
<1>7. [k \in DOMAIN outputs |-> e(k)] \in Seq(Metric \X BOOLEAN)
  <2>1. PICK T : T = Metric \X BOOLEAN
    OBVIOUS
  <2>2. [k \in DOMAIN outputs |-> e(k)] \in Seq(T)
    BY <1>5, <1>6, <2>1
  <2> QED
    BY <2>1, <2>2
<1>8. OtherTypes'
    BY <1>1, <1>3, <1>4, <1>7 DEF OtherTypes
<1>9. BufferInv'
    BY <1>1, <1>3, BufferSame
<1> QED
    BY <1>3, <1>8, <1>9, BufferStep

(* A worker sends what came of it. *)
LEMMA WorkerSendInv ==
    ASSUME IInv, NEW w \in Worker, PreprocessSendHigh(w) \/ ProcessingSendMetric(w)
    PROVE  IInv'
<1>1. BufferInv /\ OtherTypes /\ w \in Process
    BY Parts, Kinds
<1>2. PICK m : m = Head(todo[w])[1]
    OBVIOUS
<1>3. /\ todo[w] # << >> /\ flush[w].to = {} /\ todo' = [todo EXCEPT ![w] = Tail(@)]
      /\ UNCHANGED <<setup, passed, second, chan, used, loop, chunk, held, sent, history>>
    BY DEF PreprocessSendHigh, ProcessingSendMetric, Ready
<1>4. m \in Metric /\ Tail(todo[w]) \in Seq(Metric \X BOOLEAN)
  <2>1. PICK T : T = Metric \X BOOLEAN
    OBVIOUS
  <2>2. todo[w] \in Seq(T)
    BY <1>1, <2>1 DEF OtherTypes
  <2>3. Head(todo[w]) \in T /\ Tail(todo[w]) \in Seq(T)
    BY <1>3, <2>2
  <2> QED
    BY <1>2, <2>1, <2>3
<1>5. OtherTypes'
    BY <1>1, <1>3, <1>4 DEF OtherTypes
<1>6. m.item \in Item
    BY <1>4 DEF Metric
<1>7. BufferInv'
  <2>1. CASE PreprocessSendHigh(w)
    <3>1. PICK q : q = WorkerOf[m.item]
      OBVIOUS
    <3>2. AddAndFlush(w, q, m, 1, 0, TRUE)
      BY <1>2, <2>1, <3>1 DEF PreprocessSendHigh
    <3>3. q \in Queue /\ q \notin Syncer /\ TRUE \in BOOLEAN
      BY <1>6, <3>1, Kinds, PipelineAssumption
    <3> QED
      BY <1>1, <1>3, <1>4, <3>2, <3>3, AddInv
  <2>2. CASE ProcessingSendMetric(w)
    <3>1. PICK q : q = SyncerOf[m.item]
      OBVIOUS
    <3>2. AddAndFlush(w, q, m, 2, Limit, FALSE)
      BY <1>2, <2>2, <3>1 DEF ProcessingSendMetric
    <3>3. q \in Queue /\ FALSE \in BOOLEAN
      BY <1>6, <3>1, Kinds, PipelineAssumption
    <3> QED
      BY <1>1, <1>3, <1>4, <3>2, <3>3, AddInv
  <2> QED
    BY <2>1, <2>2
<1> QED
    BY <1>3, <1>5, <1>7, BufferStep

(* A worker is done with its chunk. *)
LEMMA PreprocReleaseInv ==
    ASSUME IInv, NEW w \in Worker, PreprocRelease(w)
    PROVE  IInv'
<1>1. BufferInv /\ OtherTypes /\ MemoryInv /\ ChunkBounded /\ TypeOK
    BY Parts DEF IInv
<1>2. /\ chunk[w] # 0 /\ used' = [used EXCEPT !["preproc"] = @ - Cost(chunk[w])]
      /\ chunk' = [chunk EXCEPT ![w] = 0]
      /\ UNCHANGED <<setup, buf, age, flush, passed, second, chan, loop, held, todo, sent, history>>
    BY DEF PreprocRelease
<1>3. MemoryInv' /\ used' \in [Segment -> 0 .. setup.total]
    BY <1>1, <1>2, MemoryRelease
<1>4. OtherTypes'
    BY <1>1, <1>2, <1>3 DEF OtherTypes
<1>5. BufferInv'
    BY <1>1, <1>2, BufferSame
<1>6. ChunkBounded'
    BY <1>1, <1>2 DEF ChunkBounded
<1> QED
    BY <1>3, <1>4, <1>5, <1>6, Parts

(* The flushes of a worker. *)
LEMMA WorkerFlushInv ==
    ASSUME IInv, NEW w \in Worker, IpcFlush(w) \/ ProcessingFlush(w)
    PROVE  IInv'
<1>1. BufferInv /\ OtherTypes /\ w \in Process
    BY Parts, Kinds
<1>2. "preproc" \in Segment /\ "proc" \in Segment /\ FALSE \in BOOLEAN
    BY DEF Segment
<1>3. CASE IpcFlush(w)
  <2>1. PICK high \in BOOLEAN : FlushBoth(w, "preproc", "proc", 1, high)
    BY <1>3 DEF IpcFlush
  <2>2. flush[w].to = {} /\ UNCHANGED <<setup, passed, chan, used, loop, chunk, held, todo, sent, history>>
    BY <1>3 DEF IpcFlush, Ready, workerVars
  <2>3. BufferInv' /\ second' \in [Process -> BOOLEAN]
    <3>1. second \in [Process -> BOOLEAN]
      BY <1>1 DEF OtherTypes
    <3> QED
      BY <1>1, <1>2, <2>1, <2>2, <3>1, FlushBothInv
  <2>4. OtherTypes'
    BY <1>1, <2>2, <2>3 DEF OtherTypes
  <2> QED
    BY <2>2, <2>3, <2>4, BufferStep
<1>4. CASE ProcessingFlush(w)
  <2>1. BuffersFlush(w, buf[w], "proc", 1, 0, FALSE) /\ second' = [second EXCEPT ![w] = FALSE]
    BY <1>4 DEF ProcessingFlush
  <2>2. flush[w].to = {} /\ UNCHANGED <<setup, passed, chan, used, loop, chunk, held, todo, sent, history>>
    BY <1>4 DEF ProcessingFlush, workerVars
  <2>3. BufferInv'
    BY <1>1, <1>2, <2>1, <2>2, FlushAllInv
  <2>4. OtherTypes'
    BY <1>1, <2>1, <2>2 DEF OtherTypes
  <2> QED
    BY <2>2, <2>3, <2>4, BufferStep
<1> QED
    BY <1>3, <1>4

(* A syncer receives and releases a chunk. *)
LEMMA ProcessReceiveInv ==
    ASSUME IInv, NEW y \in Syncer, ProcessReceive(y)
    PROVE  IInv'
<1>1. BufferInv /\ OtherTypes /\ MemoryInv /\ ChunkBounded /\ TypeOK
    BY Parts DEF IInv
<1>2. /\ chan[y] # << >> /\ history' = [history EXCEPT ![y] = @ \o Head(chan[y])]
      /\ used' = [used EXCEPT !["proc"] = @ - Cost(Len(Head(chan[y])))]
      /\ chan' = [chan EXCEPT ![y] = Tail(@)]
      /\ UNCHANGED <<setup, buf, age, flush, passed, second, loop, chunk, held, todo, sent>>
    BY DEF ProcessReceive, workerVars
<1>3. MemoryInv' /\ used' \in [Segment -> 0 .. setup.total]
    BY <1>1, <1>2, MemoryProcess
<1>4. y \in Queue /\ chan \in [Queue -> Seq(Seq(Metric) \ {<< >>})]
    BY <1>1, Kinds DEF OtherTypes
<1>5. Head(chan[y]) \in Seq(Metric) /\ Tail(chan[y]) \in Seq(Seq(Metric) \ {<< >>})
  <2>1. PICK C : C = Seq(Metric) \ {<< >>}
    OBVIOUS
  <2>2. Head(chan[y]) \in C /\ Tail(chan[y]) \in Seq(C)
    BY <1>2, <1>4, <2>1
  <2> QED
    BY <2>1, <2>2
<1>6. history' \in [Syncer -> Seq(Metric)]
  <2>1. history \in [Syncer -> Seq(Metric)]
    BY <1>1 DEF OtherTypes
  <2>2. history[y] \o Head(chan[y]) \in Seq(Metric)
    BY <1>5, <2>1
  <2> QED
    BY <1>2, <2>1, <2>2
<1>7. OtherTypes'
    BY <1>1, <1>2, <1>3, <1>4, <1>5, <1>6 DEF OtherTypes
<1>8. BufferInv'
    BY <1>1, <1>2, BufferSame
<1>9. ChunkBounded'
  <2> SUFFICES ASSUME NEW z \in Syncer, NEW k \in DOMAIN chan'[z]
               PROVE  Len(chan'[z][k]) <= HistMax
    BY DEF ChunkBounded
  <2>1. CASE z # y
    <3>1. chan'[z] = chan[z]
      BY <1>2, <1>4, <2>1, Kinds
    <3> QED
      BY <1>1, <3>1 DEF ChunkBounded
  <2>2. CASE z = y
    <3>1. chan'[z] = Tail(chan[z]) /\ chan[z] \in Seq(Seq(Metric) \ {<< >>})
      BY <1>2, <1>4, <2>2
    <3>2. k + 1 \in DOMAIN chan[z] /\ chan'[z][k] = chan[z][k + 1]
      <4>1. PICK C : C = Seq(Metric) \ {<< >>}
        OBVIOUS
      <4>2. chan[z] \in Seq(C) /\ chan[z] # << >>
        BY <1>2, <2>2, <3>1, <4>1
      <4>3. k \in 1 .. Len(chan[z]) - 1
        BY <3>1, <4>2
      <4> QED
        BY <3>1, <4>2, <4>3
    <3> QED
      BY <1>1, <3>2 DEF ChunkBounded
  <2> QED
    BY <2>1, <2>2
<1> QED
    BY <1>3, <1>7, <1>8, <1>9, Parts

(* Time passes. *)
LEMMA TickInv ==
    ASSUME IInv, Tick
    PROVE  IInv'
<1>1. BufferInv /\ OtherTypes
    BY Parts
<1>2. UNCHANGED <<setup, buf, flush, passed, second, chan, used, loop, chunk, held, todo, sent, history>>
    BY DEF Tick, workerVars
<1>3. OtherTypes'
    BY <1>1, <1>2 DEF OtherTypes
<1>4. \A p \in Process, q \in Queue : MaxAge(p, q)' = MaxAge(p, q) /\ MaxAge(p, q) \in Nat
    BY <1>2 DEF MaxAge, Fills
<1> DEFINE e(p, q) == IF age[p][q] < MaxAge(p, q) THEN age[p][q] + 1 ELSE age[p][q]
<1>5. \A p \in Process, q \in Queue : e(p, q) \in Nat /\ e(p, q) <= MaxAge(p, q)
  <2> TAKE p \in Process, q \in Queue
  <2>1. age[p][q] \in Nat /\ age[p][q] <= MaxAge(p, q)
    BY <1>1 DEF BufferInv
  <2> QED
    BY <1>4, <2>1
<1>6. age' = [p \in Process |-> [q \in Queue |-> e(p, q)]]
    BY DEF Tick
<1> HIDE DEF e
<1>7. age' \in [Process -> [Queue -> Nat]] /\ \A p \in Process, q \in Queue : age'[p][q] <= MaxAge(p, q)'
    BY <1>4, <1>5, <1>6
<1>8. FlushInv' /\ LimitInv'
    BY <1>1, <1>2 DEF BufferInv, FlushInv, LimitInv, SegmentOf, Reached
<1>9. BufferInv'
    BY <1>1, <1>2, <1>7, <1>8 DEF BufferInv
<1> QED
    BY <1>2, <1>3, <1>9, BufferStep

-----------------------------------------------------------------------------
(* The inductive invariant: a flush under way is in one segment and its    *)
(* next buffer has metrics, a buffer for processing at the limit is being  *)
(* flushed, and the memory in use is that of the chunks sent and not yet   *)
(* released.                                                               *)
THEOREM PipelineInvariant == Spec => []IInv
<1>1. Init => IInv
    BY PipelineInit
<1>2. IInv /\ [Next]_vars => IInv'
  <2> SUFFICES ASSUME IInv, [Next]_vars PROVE IInv'
    OBVIOUS
  <2>1. CASE \E p \in Process : FlushStep(p)
    BY <2>1, FlushPassInv, FlushSendInv DEF FlushStep
  <2>2. CASE \E s \in Sender : SendStep(s)
    BY <2>2, SendStepInv
  <2>3. CASE \E s \in Poller : PreprocessingFlush(s)
    BY <2>3, SenderFlushInv, Kinds
  <2>4. CASE \E s \in Trapper : ForceFlush(s) \/ ForceFlushSecond(s)
    BY <2>4, SenderFlushInv, Kinds
  <2>5. CASE \E w \in Worker : WorkerStep(w)
    BY <2>5, PreprocReceiveInv, PreprocessInv, WorkerSendInv, PreprocReleaseInv, WorkerFlushInv DEF WorkerStep
  <2>6. CASE \E y \in Syncer : ProcessReceive(y)
    BY <2>6, ProcessReceiveInv
  <2>7. CASE Tick
    BY <2>7, TickInv
  <2>8. CASE UNCHANGED vars
    <3>1. UNCHANGED <<setup, buf, age, flush, passed, second, chan, used, loop, chunk, held, todo, sent, history>>
      BY <2>8 DEF vars
    <3>2. BufferInv'
      BY <3>1, Parts, BufferSame
    <3>3. OtherTypes'
      BY <3>1, Parts DEF OtherTypes
    <3> QED
      BY <3>1, <3>2, <3>3, BufferStep
  <2> QED
    BY <2>1, <2>2, <2>3, <2>4, <2>5, <2>6, <2>7, <2>8 DEF Next
<1> QED
    BY <1>1, <1>2, PTL DEF Spec

(* TypeOK for any processes, items, configurations and sizes: what is sent *)
(* for a metric (Execute, to any depth of dependency) are outputs of       *)
(* items, chunks are never empty, and the memory of a segment is neither   *)
(* overdrawn nor given back twice.                                         *)
THEOREM PipelineTypeCorrect == Spec => []TypeOK
<1>1. IInv => TypeOK
    BY DEF IInv
<1> QED
    BY <1>1, PipelineInvariant, PTL

(* ChunkBounded: whatever is buffered, waits for memory or is flushed, no  *)
(* chunk is larger than the array into which process_receive_metrics       *)
(* copies it without looking, as long as the senders' limit is not.        *)
THEOREM PipelineChunkBounded == Spec => []ChunkBounded
<1>1. IInv => ChunkBounded
    BY DEF IInv
<1> QED
    BY <1>1, PipelineInvariant, PTL

(* MemoryInv: the memory taken by allocate_chunk and given back by the     *)
(* receivers adds up to that of the chunks that are queued or processed.   *)
THEOREM PipelineMemoryAccounted == Spec => []MemoryInv
<1>1. IInv => MemoryInv
    BY DEF IInv
<1> QED
    BY <1>1, PipelineInvariant, PTL

-----------------------------------------------------------------------------
(* What comes of a metric. *)

LEMMA BoundType == Cardinality(Item) \in Nat
BY FiniteAssumption, FS_CardinalityType

LEMMA OutputOf ==
    ASSUME NEW outs \in Seq(Output), NEW k \in DOMAIN outs
    PROVE  outs[k].fwd \in BOOLEAN /\ outs[k].item \in Item /\ outs[k].none \in BOOLEAN
<1>1. outs[k] \in Output
    OBVIOUS
<1> QED
    BY <1>1 DEF Output

(* What the outputs outs of a metric contribute to the results r, t being  *)
(* what comes of forwarded ones.                                           *)
Line(outs, r, t, last) ==
    [k \in DOMAIN outs |->
        IF ~outs[k].fwd THEN Is(r, outs[k].item, outs[k].none)
        ELSE IF last THEN 0 ELSE t[outs[k].item][outs[k].none][r]]

Count == [Item -> [BOOLEAN -> [Result -> Nat]]]

LEMMA LineType ==
    ASSUME NEW outs \in Seq(Output), NEW r \in Result, NEW t, NEW last \in BOOLEAN, last \/ t \in Count
    PROVE  Line(outs, r, t, last) \in Seq(Nat) /\ SumFunction(Line(outs, r, t, last)) \in Nat
<1> DEFINE e(k) == IF ~outs[k].fwd THEN Is(r, outs[k].item, outs[k].none)
                   ELSE IF last THEN 0 ELSE t[outs[k].item][outs[k].none][r]
<1>1. ASSUME NEW k \in DOMAIN outs PROVE e(k) \in Nat
  <2>2. outs[k].item \in Item /\ outs[k].none \in BOOLEAN
    BY OutputOf
  <2>3. Is(r, outs[k].item, outs[k].none) \in Nat
    BY DEF Is
  <2>4. ~last => t[outs[k].item][outs[k].none][r] \in Nat
    BY <2>2 DEF Count
  <2> QED
    BY <2>3, <2>4
<1>2. Line(outs, r, t, last) = [k \in DOMAIN outs |-> e(k)]
    BY DEF Line
<1> HIDE DEF e
<1>3. Line(outs, r, t, last) \in Seq(Nat)
    BY <1>1, <1>2
<1> QED
    BY <1>3, SumAppend

(* Yields is what its definition says. *)
LEMMA YieldsIs ==
    ASSUME setup \in Setups
    PROVE  /\ \A h \in 0 .. Cardinality(Item) : Yields[h] \in Count
           /\ \A h \in 0 .. Cardinality(Item), i \in Item, none \in BOOLEAN, r \in Result :
                 Yields[h][i][none][r] = SumFunction(Line(Execute[MaxLevel][i][none], r, Yields[h - 1], h = 0))
<1>1. PICK N, ex : N = Cardinality(Item) /\ ex = Execute[MaxLevel]
    OBVIOUS
<1>2. N \in Nat /\ \A i \in Item, none \in BOOLEAN : ex[i][none] \in Seq(Output)
    BY <1>1, BoundType, ExecuteType
<1> DEFINE StepOf(t, last) == [i \in Item |-> [none \in BOOLEAN |-> [r \in Result |-> SumFunction(Line(ex[i][none], r, t, last))]]]
           start == StepOf(<< >>, TRUE)
           F == [x \in Count \X (1 .. N) |-> StepOf(x[1], FALSE)]
<1>3. ASSUME NEW t, NEW last \in BOOLEAN, last \/ t \in Count PROVE StepOf(t, last) \in Count
    BY <1>2, <1>3, LineType DEF Count
<1>4. \A t, s : StepOf(t, TRUE) = StepOf(s, TRUE)
    BY DEF Line
<1> HIDE DEF StepOf
<1>5. start \in Count
    BY <1>3
<1>6. F \in [Count \X (1 .. N) -> Count]
    BY <1>3
<1>7. PICK f \in [0 .. N -> Count] : f[0] = start /\ \A n \in 1 .. N : f[n] = F[<<f[n - 1], n>>]
  <2> HIDE DEF start, F
  <2>1. \E f \in [0 .. N -> Count] : Follows(f, start, F, N)
    BY <1>2, <1>5, <1>6, Recursion
  <2> QED
    BY <2>1 DEF Follows
<1>8. ASSUME NEW h \in 0 .. N PROVE f[h] = StepOf(f[h - 1], h = 0)
  <2>1. CASE h = 0
    BY <1>4, <1>7, <2>1
  <2>2. CASE h # 0
    <3>1. h \in 1 .. N /\ h - 1 \in 0 .. N
      BY <1>2, <2>2
    <3>2. <<f[h - 1], h>> \in Count \X (1 .. N)
      BY <3>1
    <3>3. f[h] = StepOf(f[h - 1], FALSE)
      BY <1>7, <3>1, <3>2
    <3>4. (h = 0) = FALSE
      BY <2>2
    <3> QED
      BY <3>3, <3>4
  <2> QED
    BY <2>1, <2>2
<1> DEFINE Eqn(g) == g = [h \in 0 .. N |-> StepOf(g[h - 1], h = 0)]
<1>9. Yields = CHOOSE g : Eqn(g)
    BY <1>1 DEF Yields, StepOf, Line
<1>10. Eqn(f)
    BY <1>8
<1>11. Eqn(Yields)
  <2> HIDE DEF Eqn
  <2> QED
    BY <1>9, <1>10, Zenon
<1>12. \A h \in 0 .. N : Yields[h] = StepOf(Yields[h - 1], h = 0)
  <2> PICK y : y = Yields
    OBVIOUS
  <2> QED
    BY <1>11
<1>13. \A h \in 0 .. N : Yields[h] \in Count
  <2> DEFINE P == {h \in 0 .. N : Yields[h] \in Count}
  <2>1. 0 \in P
    <3>1. 0 \in 0 .. N /\ (0 = 0) = TRUE
      BY <1>2
    <3>2. Yields[0] = StepOf(Yields[0 - 1], TRUE)
      BY <1>12, <3>1
    <3>3. StepOf(Yields[0 - 1], TRUE) \in Count
      BY <1>3
    <3> QED
      BY <3>1, <3>2, <3>3
  <2>2. ASSUME NEW h \in 1 .. N, h - 1 \in P PROVE h \in P
    <3>1. Yields[h - 1] \in Count /\ h \in 0 .. N /\ (h = 0) \in BOOLEAN
      BY <1>2, <2>2
    <3>2. StepOf(Yields[h - 1], h = 0) \in Count
      BY <1>3, <3>1
    <3> QED
      BY <1>12, <3>1, <3>2
  <2> HIDE DEF P
  <2>3. \A h \in 0 .. N : h \in P
    BY <1>2, <2>1, <2>2, Induct
  <2> QED
    BY <2>3 DEF P
<1>14. ASSUME NEW h \in 0 .. N, NEW i \in Item, NEW none \in BOOLEAN, NEW r \in Result
       PROVE  Yields[h][i][none][r] = SumFunction(Line(ex[i][none], r, Yields[h - 1], h = 0))
  <2>1. Yields[h] = StepOf(Yields[h - 1], h = 0)
    BY <1>12
  <2>2. StepOf(Yields[h - 1], h = 0)[i][none][r] = SumFunction(Line(ex[i][none], r, Yields[h - 1], h = 0))
    BY Zenon DEF StepOf
  <2> QED
    BY <2>1, <2>2
<1> QED
    BY <1>1, <1>13, <1>14

(* The outputs of an item that are forwarded are of items of lower rank. *)
LEMMA ForwardedLower ==
    ASSUME setup \in Setups, NEW rank \in [Item -> 0 .. Cardinality(Item)],
           \A i \in Item : /\ setup.dispatch[i] # None => rank[setup.dispatch[i]] < rank[i]
                           /\ \A k \in DOMAIN Dependent[i] : rank[Dependent[i][k]] <= rank[i],
           NEW i \in Item, NEW none \in BOOLEAN, NEW k \in DOMAIN Execute[MaxLevel][i][none],
           Execute[MaxLevel][i][none][k].fwd
    PROVE  rank[Execute[MaxLevel][i][none][k].item] < rank[i]
<1> DEFINE A == [j \in Item |-> {o \in Output : o.fwd => rank[o.item] < rank[j]}]
<1>0. \A j \in Item : rank[j] \in Nat
    BY BoundType
<1>1. A \in [Item -> SUBSET Output] /\ \A j \in Item, b \in BOOLEAN : [fwd |-> FALSE, item |-> j, none |-> b] \in A[j]
    BY DEF Output
<1>2. ASSUME NEW j \in Item, setup.dispatch[j] # None
      PROVE  [fwd |-> TRUE, item |-> setup.dispatch[j], none |-> FALSE] \in A[j]
  <2>1. setup.dispatch[j] \in Item
    BY <1>2, PipelineAssumption
  <2>2. rank[setup.dispatch[j]] < rank[j]
    BY <1>2
  <2> QED
    BY <2>1, <2>2 DEF Output
<1>3. ASSUME NEW j \in Item, NEW n \in DOMAIN Dependent[j] PROVE A[Dependent[j][n]] \subseteq A[j]
  <2>1. Dependent[j][n] \in Item
    BY PipelineAssumption
  <2>2. rank[Dependent[j][n]] <= rank[j]
    OBVIOUS
  <2>3. \A o \in Output : o.item \in Item
    BY DEF Output
  <2> QED
    BY <1>0, <2>1, <2>2, <2>3
<1>4. A[i] = {o \in Output : o.fwd => rank[o.item] < rank[i]}
    OBVIOUS
<1> HIDE DEF A
<1>5. Execute[MaxLevel][i][none] \in Seq(A[i])
    BY <1>1, <1>2, <1>3, ExecuteWithin
<1>6. Execute[MaxLevel][i][none][k] \in A[i]
    BY <1>5
<1> QED
    BY <1>4, <1>6

(* The bound on the length of a chain of dispatches does not matter above  *)
(* the rank of an item.                                                    *)
LEMMA YieldsStable ==
    ASSUME setup \in Setups, NEW rank \in [Item -> 0 .. Cardinality(Item)],
           \A i \in Item : /\ setup.dispatch[i] # None => rank[setup.dispatch[i]] < rank[i]
                           /\ \A k \in DOMAIN Dependent[i] : rank[Dependent[i][k]] <= rank[i],
           NEW h \in 1 .. Cardinality(Item), NEW i \in Item, rank[i] < h
    PROVE  Yields[h - 1][i] = Yields[h][i]
<1>1. PICK N, ex : N = Cardinality(Item) /\ ex = Execute[MaxLevel]
    OBVIOUS
<1>2. N \in Nat /\ \A j \in Item : rank[j] \in 0 .. N
    BY <1>1, BoundType
<1> DEFINE P == {n \in 0 .. N : n = 0 \/ \A j \in Item : rank[j] < n => Yields[n - 1][j] = Yields[n][j]}
<1>3. 0 \in P
    BY <1>2
<1>4. ASSUME NEW n \in 1 .. N, n - 1 \in P PROVE n \in P
  <2>1. ASSUME NEW j \in Item, rank[j] < n, NEW none \in BOOLEAN, NEW r \in Result
        PROVE  Yields[n - 1][j][none][r] = Yields[n][j][none][r]
    <3>1. PICK outs : outs = ex[j][none]
      OBVIOUS
    <3>2. outs \in Seq(Output)
      BY <1>1, <3>1, ExecuteType
    <3>3. n - 1 \in 0 .. N /\ n \in 0 .. N
      BY <1>2
    <3>4. /\ Yields[n - 1][j][none][r] = SumFunction(Line(outs, r, Yields[n - 1 - 1], n - 1 = 0))
          /\ Yields[n][j][none][r] = SumFunction(Line(outs, r, Yields[n - 1], n = 0))
      BY <1>1, <3>1, <3>3, YieldsIs
    <3>5. ASSUME NEW k \in DOMAIN outs, outs[k].fwd
          PROVE  n - 1 # 0 /\ Yields[n - 1 - 1][outs[k].item] = Yields[n - 1][outs[k].item]
      <4>1. outs[k].item \in Item
        BY <3>2, OutputOf
      <4>2. rank[outs[k].item] < rank[j]
        BY <1>1, <3>1, <3>5, ForwardedLower
      <4>3. rank[outs[k].item] < n - 1
        BY <1>2, <2>1, <4>1, <4>2
      <4>4. n - 1 # 0
        BY <1>2, <4>1, <4>3
      <4> QED
        BY <1>4, <4>1, <4>3, <4>4
    <3>6. Line(outs, r, Yields[n - 1 - 1], n - 1 = 0) = Line(outs, r, Yields[n - 1], n = 0)
      BY <3>5 DEF Line
    <3> QED
      BY <3>4, <3>6
  <2>2. \A j \in Item : Yields[n - 1][j] \in [BOOLEAN -> [Result -> Nat]] /\ Yields[n][j] \in [BOOLEAN -> [Result -> Nat]]
    <3>1. n - 1 \in 0 .. N /\ n \in 0 .. N
      BY <1>2
    <3>2. Yields[n - 1] \in Count /\ Yields[n] \in Count
      BY <1>1, <3>1, YieldsIs
    <3> QED
      BY <3>2 DEF Count
  <2>3. ASSUME NEW j \in Item, rank[j] < n PROVE Yields[n - 1][j] = Yields[n][j]
    <3>1. \A none \in BOOLEAN : Yields[n - 1][j][none] = Yields[n][j][none]
      BY <2>1, <2>2, <2>3
    <3> QED
      BY <2>2, <3>1
  <2> QED
    BY <1>2, <2>3
<1> HIDE DEF P
<1>5. \A n \in 0 .. N : n \in P
    BY <1>2, <1>3, <1>4, Induct
<1>6. h \in P /\ h # 0
    BY <1>1, <1>2, <1>5
<1> QED
    BY <1>6 DEF P

(* What comes of a metric is what comes of its outputs. *)
Worths(r, outs) == [k \in DOMAIN outs |-> Worth(r, outs[k].item, outs[k].none, outs[k].fwd)]

LEMMA WorthSplits ==
    ASSUME DispatchEnds, setup \in Setups, NEW i \in Item, NEW none \in BOOLEAN, NEW r \in Result,
           NEW outs, outs = Execute[MaxLevel][i][none]
    PROVE  Worth(r, i, none, TRUE) = SumFunction(Worths(r, outs))
<1>1. PICK rank \in [Item -> 0 .. Cardinality(Item)] : \A j \in Item :
         /\ setup.dispatch[j] # None => rank[setup.dispatch[j]] < rank[j]
         /\ \A k \in DOMAIN Dependent[j] : rank[Dependent[j][k]] <= rank[j]
    BY DEF DispatchEnds
<1>2. PICK N : N = Cardinality(Item)
    OBVIOUS
<1>3. N \in Nat /\ N \in 0 .. N /\ outs \in Seq(Output) /\ \A j \in Item : rank[j] \in 0 .. N
    BY <1>2, BoundType, ExecuteType
<1>4. Yields[N][i][none][r] = SumFunction(Line(outs, r, Yields[N - 1], N = 0))
    BY <1>2, <1>3, YieldsIs
<1>5. ASSUME NEW k \in DOMAIN outs, outs[k].fwd
      PROVE  N # 0 /\ Yields[N - 1][outs[k].item] = Yields[N][outs[k].item]
  <2>1. outs[k].item \in Item
    BY <1>3, OutputOf
  <2>2. rank[outs[k].item] < rank[i]
    BY <1>1, <1>5, ForwardedLower
  <2>3. rank[outs[k].item] < N /\ N \in 1 .. N
    BY <1>3, <2>1, <2>2
  <2>4. Yields[N - 1][outs[k].item] = Yields[N][outs[k].item]
    BY <1>1, <1>2, <2>1, <2>3, YieldsStable
  <2> QED
    BY <2>3, <2>4
<1>6. Line(outs, r, Yields[N - 1], N = 0) = Worths(r, outs)
  <2>1. \A k \in DOMAIN outs : outs[k].fwd \in BOOLEAN
    BY <1>3, OutputOf
  <2> QED
    BY <1>2, <1>5, <2>1 DEF Line, Worth, Worths
<1>7. Worth(r, i, none, TRUE) = Yields[N][i][none][r]
    BY <1>2 DEF Worth
<1> QED
    BY <1>4, <1>6, <1>7

-----------------------------------------------------------------------------
(* Where the metrics are.  The amounts of a claim are sums over sequences; *)
(* f gives the share of a metric in it, raw or not.                        *)
Amount(f, xs) == SumFunction([k \in DOMAIN xs |-> f[xs[k]]])

LEMMA AmountType ==
    ASSUME NEW S, NEW f \in [S -> Nat], NEW xs \in Seq(S)
    PROVE  /\ [k \in DOMAIN xs |-> f[xs[k]]] \in Seq(Nat)
           /\ Len([k \in DOMAIN xs |-> f[xs[k]]]) = Len(xs)
           /\ Amount(f, xs) \in Nat
<1>1. [k \in DOMAIN xs |-> f[xs[k]]] \in Seq(Nat) /\ Len([k \in DOMAIN xs |-> f[xs[k]]]) = Len(xs)
    OBVIOUS
<1> QED
    BY <1>1, SumAppend DEF Amount

LEMMA AmountEmpty ==
    ASSUME NEW f
    PROVE  Amount(f, << >>) = 0
<1>1. [k \in DOMAIN << >> |-> f[<< >>[k]]] \in [{} -> Nat]
    OBVIOUS
<1> QED
    BY <1>1, SumEmpty DEF Amount

LEMMA AmountConcat ==
    ASSUME NEW S, NEW f \in [S -> Nat], NEW xs \in Seq(S), NEW ys \in Seq(S)
    PROVE  Amount(f, xs \o ys) = Amount(f, xs) + Amount(f, ys)
<1> DEFINE v(zs) == [k \in DOMAIN zs |-> f[zs[k]]]
<1>1. PICK zs : zs = xs \o ys
    OBVIOUS
<1>2. /\ zs \in Seq(S) /\ Len(zs) = Len(xs) + Len(ys) /\ Len(xs) \in Nat /\ Len(ys) \in Nat
      /\ \A k \in 1 .. Len(zs) : zs[k] = IF k <= Len(xs) THEN xs[k] ELSE ys[k - Len(xs)]
    BY <1>1
<1>3. \A u \in Seq(S) : v(u) \in Seq(Nat) /\ Len(v(u)) = Len(u) /\ \A k \in 1 .. Len(u) : v(u)[k] = f[u[k]]
    OBVIOUS
<1>4. PICK vx, vy, vz : vx = v(xs) /\ vy = v(ys) /\ vz = v(zs)
    OBVIOUS
<1>5. /\ vx \in Seq(Nat) /\ Len(vx) = Len(xs) /\ \A k \in 1 .. Len(xs) : vx[k] = f[xs[k]]
      /\ vy \in Seq(Nat) /\ Len(vy) = Len(ys) /\ \A k \in 1 .. Len(ys) : vy[k] = f[ys[k]]
      /\ vz \in Seq(Nat) /\ Len(vz) = Len(zs) /\ \A k \in 1 .. Len(zs) : vz[k] = f[zs[k]]
    BY <1>2, <1>3, <1>4
<1>6. vx \o vy \in Seq(Nat) /\ Len(vx \o vy) = Len(vz)
    BY <1>2, <1>5
<1>7. ASSUME NEW k \in 1 .. Len(vz) PROVE vz[k] = (vx \o vy)[k]
  <2>1. k \in 1 .. Len(zs) /\ vz[k] = f[zs[k]]
    BY <1>5
  <2>2. CASE k <= Len(xs)
    <3>1. k \in 1 .. Len(xs) /\ zs[k] = xs[k] /\ (vx \o vy)[k] = vx[k]
      BY <1>2, <1>5, <2>1, <2>2
    <3> QED
      BY <1>5, <2>1, <3>1
  <2>3. CASE k > Len(xs)
    <3>1. k - Len(xs) \in 1 .. Len(ys) /\ k \in 1 .. Len(vx) + Len(vy) /\ k > Len(vx)
      BY <1>2, <1>5, <2>1, <2>3
    <3>2. zs[k] = ys[k - Len(xs)]
      BY <1>2, <2>1, <2>3
    <3>3. (vx \o vy)[k] = vy[k - Len(xs)]
      <4>1. vx \in Seq(Nat) /\ vy \in Seq(Nat) /\ Len(vx) = Len(xs)
        BY <1>5
      <4>2. PICK l, j : l = Len(vx) /\ j = k - l
        OBVIOUS
      <4>3. l \in Nat /\ j \in 1 .. Len(vy) /\ k = l + j
        BY <1>2, <1>5, <3>1, <4>2
      <4>4. (vx \o vy)[l + j] = vy[j]
        BY ONLY <4>1, <4>2, <4>3
      <4> QED
        BY <4>1, <4>2, <4>3, <4>4
    <3> QED
      BY <1>5, <2>1, <3>1, <3>2, <3>3
  <2>4. k <= Len(xs) \/ k > Len(xs)
    BY <1>2, <2>1
  <2> QED
    BY <2>2, <2>3, <2>4, Zenon
<1>8. vz = vx \o vy
  <2>1. PICK w : w = vx \o vy
    OBVIOUS
  <2>2. vz \in Seq(Nat) /\ w \in Seq(Nat) /\ Len(w) = Len(vz) /\ \A k \in 1 .. Len(vz) : vz[k] = w[k]
    BY <1>5, <1>6, <1>7, <2>1
  <2>3. vz = [k \in 1 .. Len(vz) |-> vz[k]] /\ w = [k \in 1 .. Len(w) |-> w[k]]
    BY <2>2
  <2>4. vz = w
    BY ONLY <2>2, <2>3
  <2> QED
    BY <2>1, <2>4
<1>9. SumFunction(vx \o vy) = SumFunction(vx) + SumFunction(vy)
    BY <1>5, SumConcat
<1> QED
    BY <1>1, <1>4, <1>8, <1>9 DEF Amount

LEMMA AmountOne ==
    ASSUME NEW S, NEW f \in [S -> Nat], NEW x \in S
    PROVE  Amount(f, <<x>>) = f[x]
<1>1. [k \in DOMAIN <<x>> |-> f[<<x>>[k]]] = Append(<< >>, f[x]) /\ << >> \in Seq(Nat) /\ f[x] \in Nat
    OBVIOUS
<1>2. << >> \in [{} -> Nat]
    OBVIOUS
<1>3. SumFunction(<< >>) = 0
    BY <1>2, SumEmpty
<1>4. SumFunction(Append(<< >>, f[x])) = SumFunction(<< >>) + f[x]
    BY <1>1, SumAppend
<1> QED
    BY <1>1, <1>3, <1>4 DEF Amount

LEMMA AmountAppend ==
    ASSUME NEW S, NEW f \in [S -> Nat], NEW xs \in Seq(S), NEW x \in S
    PROVE  Amount(f, Append(xs, x)) = Amount(f, xs) + f[x]
<1>1. Append(xs, x) = xs \o <<x>> /\ <<x>> \in Seq(S)
    OBVIOUS
<1>2. Amount(f, xs \o <<x>>) = Amount(f, xs) + Amount(f, <<x>>)
    BY <1>1, AmountConcat
<1> QED
    BY <1>1, <1>2, AmountOne

LEMMA AmountHead ==
    ASSUME NEW S, NEW f \in [S -> Nat], NEW xs \in Seq(S), xs # << >>
    PROVE  Amount(f, xs) = f[Head(xs)] + Amount(f, Tail(xs)) /\ f[Head(xs)] \in Nat /\ Amount(f, Tail(xs)) \in Nat
<1>1. xs = <<Head(xs)>> \o Tail(xs) /\ Head(xs) \in S /\ Tail(xs) \in Seq(S) /\ <<Head(xs)>> \in Seq(S)
    OBVIOUS
<1>2. PICK x, t : x = Head(xs) /\ t = Tail(xs)
    OBVIOUS
<1>3. xs = <<x>> \o t /\ x \in S /\ t \in Seq(S) /\ <<x>> \in Seq(S)
    BY <1>1, <1>2
<1>4. Amount(f, <<x>> \o t) = Amount(f, <<x>>) + Amount(f, t)
    BY ONLY <1>3, AmountConcat, f \in [S -> Nat]
<1>5. Amount(f, <<x>>) = f[x] /\ f[x] \in Nat /\ Amount(f, t) \in Nat
    BY ONLY <1>3, AmountOne, AmountType, f \in [S -> Nat]
<1> QED
    BY <1>2, <1>3, <1>4, <1>5

Weights == [BOOLEAN -> [Metric -> Nat]]
OfChunk(g) == [ms \in Seq(Metric) |-> Amount(g, ms)]
OfPlan(f) == [x \in Metric \X BOOLEAN |-> f[x[2]][x[1]]]

(* What is in the queues, in the buffers, and with workers and syncers. *)
InChan(f, ch) == [q \in Queue |-> Amount(OfChunk(f[(q \in Worker)]), ch[q])]
InBuf(f, bf) == [q \in Queue |-> SumFunction([p \in Process |-> Amount(f[(q \in Worker)], bf[p][q])])]
InHand(f, hd, td, hs) ==
    [q \in Queue |-> IF q \in Worker THEN Amount(f[TRUE], hd[q]) + Amount(OfPlan(f), td[q]) ELSE Amount(f[FALSE], hs[q])]
Whole(a, b, d) == SumFunction([q \in Queue |-> a[q] + b[q] + d[q]])

ChanType == [Queue -> Seq(Seq(Metric))]
BufType == [Process -> [Queue -> Seq(Metric)]]
HeldType == [Worker -> Seq(Metric)]
TodoType == [Worker -> Seq(Metric \X BOOLEAN)]
HistoryType == [Syncer -> Seq(Metric)]

LEMMA WeightTypes ==
    ASSUME NEW f \in Weights
    PROVE  /\ \A b \in BOOLEAN : f[b] \in [Metric -> Nat] /\ OfChunk(f[b]) \in [Seq(Metric) -> Nat]
           /\ \A q : (q \in Worker) \in BOOLEAN
           /\ OfPlan(f) \in [Metric \X BOOLEAN -> Nat]
<1>1. ASSUME NEW b \in BOOLEAN PROVE f[b] \in [Metric -> Nat] /\ OfChunk(f[b]) \in [Seq(Metric) -> Nat]
  <2>1. f[b] \in [Metric -> Nat]
    BY DEF Weights
  <2>2. \A ms \in Seq(Metric) : Amount(f[b], ms) \in Nat
    BY <2>1, AmountType
  <2> QED
    BY <2>1, <2>2 DEF OfChunk
<1>2. OfPlan(f) \in [Metric \X BOOLEAN -> Nat]
    BY DEF OfPlan, Weights
<1> QED
    BY <1>1, <1>2

LEMMA PlaceTypes ==
    ASSUME NEW f \in Weights, NEW ch \in ChanType, NEW bf \in BufType, NEW hd \in HeldType, NEW td \in TodoType,
           NEW hs \in HistoryType
    PROVE  /\ InChan(f, ch) \in [Queue -> Nat] /\ InBuf(f, bf) \in [Queue -> Nat]
           /\ InHand(f, hd, td, hs) \in [Queue -> Nat]
<1>1. ASSUME NEW q \in Queue PROVE Amount(OfChunk(f[(q \in Worker)]), ch[q]) \in Nat
  <2>1. ch[q] \in Seq(Seq(Metric)) /\ OfChunk(f[(q \in Worker)]) \in [Seq(Metric) -> Nat]
    BY WeightTypes DEF ChanType
  <2> QED
    BY <2>1, AmountType
<1>2. ASSUME NEW q \in Queue PROVE SumFunction([p \in Process |-> Amount(f[(q \in Worker)], bf[p][q])]) \in Nat
  <2>1. f[(q \in Worker)] \in [Metric -> Nat]
    BY WeightTypes
  <2>2. \A p \in Process : bf[p][q] \in Seq(Metric)
    BY DEF BufType
  <2>3. [p \in Process |-> Amount(f[(q \in Worker)], bf[p][q])] \in [Process -> Nat]
    BY <2>1, <2>2, AmountType
  <2> QED
    BY <2>3, FiniteAssumption, SumIsCells
<1>3. ASSUME NEW q \in Queue
      PROVE  (IF q \in Worker THEN Amount(f[TRUE], hd[q]) + Amount(OfPlan(f), td[q]) ELSE Amount(f[FALSE], hs[q])) \in Nat
  <2>1. CASE q \in Worker
    <3>1. hd[q] \in Seq(Metric) /\ td[q] \in Seq(Metric \X BOOLEAN)
      BY <2>1 DEF HeldType, TodoType
    <3>2. Amount(f[TRUE], hd[q]) \in Nat
      BY <3>1, WeightTypes, AmountType
    <3>3. Amount(OfPlan(f), td[q]) \in Nat
      BY <3>1, WeightTypes, AmountType
    <3>4. \A m, n \in Nat : m + n \in Nat
      OBVIOUS
    <3> QED
      BY <2>1, <3>2, <3>3, <3>4, Zenon
  <2>2. CASE q \notin Worker
    <3>1. q \in Syncer /\ hs[q] \in Seq(Metric)
      BY <2>2 DEF Queue, HistoryType
    <3>2. Amount(f[FALSE], hs[q]) \in Nat
      BY <3>1, WeightTypes, AmountType
    <3> QED
      BY <2>2, <3>2
  <2> QED
    BY <2>1, <2>2
<1> QED
    BY <1>1, <1>2, <1>3 DEF InChan, InBuf, InHand

(* u and v differ at x only. *)
OnlyAt(u, v, x) == \A q \in Queue \ {x} : v[q] = u[q]

(* A step that changes what is in one queue, in the buffers for one, and   *)
(* with one worker or syncer.                                              *)
LEMMA WholeChange ==
    ASSUME NEW a \in [Queue -> Nat], NEW b \in [Queue -> Nat], NEW d \in [Queue -> Nat],
           NEW a2 \in [Queue -> Nat], NEW b2 \in [Queue -> Nat], NEW d2 \in [Queue -> Nat],
           NEW x \in Queue, NEW y \in Queue, NEW z \in Queue, OnlyAt(a, a2, x), OnlyAt(b, b2, y), OnlyAt(d, d2, z)
    PROVE  /\ Whole(a2, b2, d2) + (a[x] + b[y] + d[z]) = Whole(a, b, d) + (a2[x] + b2[y] + d2[z])
           /\ Whole(a2, b2, d2) \in Nat /\ Whole(a, b, d) \in Nat
<1> DEFINE s(u, v, w) == [q \in Queue |-> u[q] + v[q] + w[q]]
<1>0. \A u, v, w \in [Queue -> Nat] : s(u, v, w) \in [Queue -> Nat] /\ \A q \in Queue : s(u, v, w)[q] = u[q] + v[q] + w[q]
    OBVIOUS
<1>1. \A u, v, w : Whole(u, v, w) = SumFunction(s(u, v, w))
    BY DEF Whole
<1>2. IsFiniteSet(Queue)
    BY FiniteAssumption
<1>3. PICK s0, s1, s2, s3 : s0 = s(a, b, d) /\ s1 = s(a2, b, d) /\ s2 = s(a2, b2, d) /\ s3 = s(a2, b2, d2)
    OBVIOUS
<1>4. /\ s0 \in [Queue -> Nat] /\ \A q \in Queue : s0[q] = a[q] + b[q] + d[q]
      /\ s1 \in [Queue -> Nat] /\ \A q \in Queue : s1[q] = a2[q] + b[q] + d[q]
      /\ s2 \in [Queue -> Nat] /\ \A q \in Queue : s2[q] = a2[q] + b2[q] + d[q]
      /\ s3 \in [Queue -> Nat] /\ \A q \in Queue : s3[q] = a2[q] + b2[q] + d2[q]
    BY <1>0, <1>3
<1>5. SumFunction(s1) + s0[x] = SumFunction(s0) + s1[x] /\ SumFunction(s0) \in Nat
  <2>1. s0 \in [Queue -> Nat] /\ s1 \in [Queue -> Nat] /\ SameBut(s0, s1, Queue, x)
    BY <1>4 DEF OnlyAt, SameBut
  <2> QED
    BY ONLY <1>2, <2>1, x \in Queue, SumChange
<1>6. SumFunction(s2) + s1[y] = SumFunction(s1) + s2[y] /\ SumFunction(s1) \in Nat
  <2>1. s1 \in [Queue -> Nat] /\ s2 \in [Queue -> Nat] /\ SameBut(s1, s2, Queue, y)
    BY <1>4 DEF OnlyAt, SameBut
  <2> QED
    BY ONLY <1>2, <2>1, y \in Queue, SumChange
<1>7. SumFunction(s3) + s2[z] = SumFunction(s2) + s3[z] /\ SumFunction(s2) \in Nat /\ SumFunction(s3) \in Nat
  <2>1. s2 \in [Queue -> Nat] /\ s3 \in [Queue -> Nat] /\ SameBut(s2, s3, Queue, z)
    BY <1>4 DEF OnlyAt, SameBut
  <2> QED
    BY ONLY <1>2, <2>1, z \in Queue, SumChange
<1>8. /\ s0[x] = a[x] + b[x] + d[x] /\ s1[x] = a2[x] + b[x] + d[x] /\ s1[y] = a2[y] + b[y] + d[y]
      /\ s2[y] = a2[y] + b2[y] + d[y] /\ s2[z] = a2[z] + b2[z] + d[z] /\ s3[z] = a2[z] + b2[z] + d2[z]
    BY <1>4
<1>9. /\ a[x] \in Nat /\ b[x] \in Nat /\ d[x] \in Nat /\ a2[x] \in Nat
      /\ a2[y] \in Nat /\ b[y] \in Nat /\ d[y] \in Nat /\ b2[y] \in Nat
      /\ a2[z] \in Nat /\ b2[z] \in Nat /\ d[z] \in Nat /\ d2[z] \in Nat
    OBVIOUS
<1>10. Whole(a, b, d) = SumFunction(s0) /\ Whole(a2, b2, d2) = SumFunction(s3)
    BY <1>1, <1>3
<1>11. SumFunction(s1) + a[x] = SumFunction(s0) + a2[x]
    BY ONLY <1>5, <1>6, <1>8, <1>9
<1>12. SumFunction(s2) + b[y] = SumFunction(s1) + b2[y]
    BY ONLY <1>6, <1>7, <1>8, <1>9
<1>13. SumFunction(s3) + d[z] = SumFunction(s2) + d2[z]
    BY ONLY <1>7, <1>8, <1>9
<1>14. PICK t0, t1, t2, t3 : t0 = SumFunction(s0) /\ t1 = SumFunction(s1) /\ t2 = SumFunction(s2) /\ t3 = SumFunction(s3)
    OBVIOUS
<1> QED
    BY ONLY <1>5, <1>6, <1>7, <1>9, <1>10, <1>11, <1>12, <1>13, <1>14

(* A buffer changes. *)
LEMMA BufChange ==
    ASSUME NEW f \in Weights, NEW bf \in BufType, NEW bf2 \in BufType, NEW p \in Process, NEW q \in Queue,
           \A s \in Process \ {p} : bf2[s] = bf[s], \A r \in Queue \ {q} : bf2[p][r] = bf[p][r]
    PROVE  /\ \A r \in Queue \ {q} : InBuf(f, bf2)[r] = InBuf(f, bf)[r]
           /\ InBuf(f, bf2)[q] + Amount(f[(q \in Worker)], bf[p][q]) = InBuf(f, bf)[q] + Amount(f[(q \in Worker)], bf2[p][q])
<1> DEFINE v(r, b) == [s \in Process |-> Amount(f[(r \in Worker)], b[s][r])]
<1>1. ASSUME NEW r \in Queue \ {q} PROVE InBuf(f, bf2)[r] = InBuf(f, bf)[r]
  <2>1. \A s \in Process : bf2[s][r] = bf[s][r]
    OBVIOUS
  <2>2. v(r, bf2) = v(r, bf)
    BY <2>1
  <2> QED
    BY <2>2 DEF InBuf
<1>2. v(q, bf) \in [Process -> Nat] /\ v(q, bf2) \in [Process -> Nat]
  <2>1. f[(q \in Worker)] \in [Metric -> Nat]
    BY WeightTypes
  <2>2. \A s \in Process : bf[s][q] \in Seq(Metric) /\ bf2[s][q] \in Seq(Metric)
    BY DEF BufType
  <2> QED
    BY <2>1, <2>2, AmountType
<1>3. SameBut(v(q, bf), v(q, bf2), Process, p)
    BY DEF SameBut
<1>4. v(q, bf)[p] = Amount(f[(q \in Worker)], bf[p][q]) /\ v(q, bf2)[p] = Amount(f[(q \in Worker)], bf2[p][q])
    OBVIOUS
<1>5. InBuf(f, bf)[q] = SumFunction(v(q, bf)) /\ InBuf(f, bf2)[q] = SumFunction(v(q, bf2))
    BY DEF InBuf
<1> HIDE DEF v
<1>6. SumFunction(v(q, bf2)) + v(q, bf)[p] = SumFunction(v(q, bf)) + v(q, bf2)[p]
    BY <1>2, <1>3, FiniteAssumption, SumChange
<1> QED
    BY <1>1, <1>4, <1>5, <1>6

-----------------------------------------------------------------------------
(* The share of each metric in the claim c, Y being Yields. *)
Shares(Y, c) ==
    [raw \in BOOLEAN |-> [m \in Metric |->
        IF m.from = c.from /\ m.n = c.n
        THEN IF raw THEN Y[Cardinality(Item)][m.item][m.none][c.r] ELSE Is(c.r, m.item, m.none)
        ELSE 0]]

LEMMA SharesType ==
    ASSUME NEW Y, Y[Cardinality(Item)] \in Count, NEW c \in Claim
    PROVE  Shares(Y, c) \in Weights
<1>1. ASSUME NEW raw \in BOOLEAN, NEW m \in Metric
      PROVE  (IF m.from = c.from /\ m.n = c.n
              THEN IF raw THEN Y[Cardinality(Item)][m.item][m.none][c.r] ELSE Is(c.r, m.item, m.none)
              ELSE 0) \in Nat
  <2>1. m.item \in Item /\ m.none \in BOOLEAN /\ c.r \in Result
    BY DEF Metric, Claim
  <2>2. Y[Cardinality(Item)][m.item][m.none][c.r] \in Nat
    BY <2>1 DEF Count
  <2>3. Is(c.r, m.item, m.none) \in Nat /\ 0 \in Nat
    BY DEF Is
  <2> QED
    BY <2>2, <2>3, Zenon
<1> QED
    BY <1>1 DEF Shares, Weights

(* Total, with everything it depends on as a parameter. *)
ShareOf(Y, c, raw, m) ==
    IF m.from = c.from /\ m.n = c.n
    THEN IF raw THEN Y[Cardinality(Item)][m.item][m.none][c.r] ELSE Is(c.r, m.item, m.none)
    ELSE 0
TallyOf(Y, c, raw, xs) == SumFunction([k \in DOMAIN xs |-> ShareOf(Y, c, raw, xs[k])])
PlanOf(Y, c, xs) == SumFunction([k \in DOMAIN xs |-> ShareOf(Y, c, xs[k][2], xs[k][1])])
FoundOf(Y, c, q, ch, bf, hd, td, hs) ==
    SumFunction([k \in DOMAIN ch[q] |-> TallyOf(Y, c, q \in Worker, ch[q][k])])
    + SumFunction([p \in Process |-> TallyOf(Y, c, q \in Worker, bf[p][q])])
    + IF q \in Worker THEN TallyOf(Y, c, TRUE, hd[q]) + PlanOf(Y, c, td[q]) ELSE TallyOf(Y, c, FALSE, hs[q])
TotalOf(Y, c, ch, bf, hd, td, hs) == SumFunction([q \in Queue |-> FoundOf(Y, c, q, ch, bf, hd, td, hs)])

LEMMA TallyIs ==
    ASSUME NEW Y, NEW c
    PROVE  /\ \A raw \in BOOLEAN : \A xs \in Seq(Metric) : TallyOf(Y, c, raw, xs) = Amount(Shares(Y, c)[raw], xs)
           /\ \A xs \in Seq(Metric \X BOOLEAN) : PlanOf(Y, c, xs) = Amount(OfPlan(Shares(Y, c)), xs)
<1>1. \A raw \in BOOLEAN, m \in Metric : Shares(Y, c)[raw][m] = ShareOf(Y, c, raw, m)
    BY DEF Shares, ShareOf
<1>2. ASSUME NEW raw \in BOOLEAN, NEW xs \in Seq(Metric) PROVE TallyOf(Y, c, raw, xs) = Amount(Shares(Y, c)[raw], xs)
  <2>1. \A k \in DOMAIN xs : xs[k] \in Metric
    OBVIOUS
  <2>2. [k \in DOMAIN xs |-> ShareOf(Y, c, raw, xs[k])] = [k \in DOMAIN xs |-> Shares(Y, c)[raw][xs[k]]]
    BY <1>1, <2>1
  <2> QED
    BY <2>2 DEF TallyOf, Amount
<1>3. ASSUME NEW xs \in Seq(Metric \X BOOLEAN) PROVE PlanOf(Y, c, xs) = Amount(OfPlan(Shares(Y, c)), xs)
  <2>1. ASSUME NEW k \in DOMAIN xs PROVE xs[k] \in Metric \X BOOLEAN
    <3>1. PICK T : T = Metric \X BOOLEAN
      OBVIOUS
    <3>2. xs \in Seq(T)
      BY <3>1
    <3>3. xs[k] \in T
      BY <3>2
    <3> QED
      BY <3>1, <3>3
  <2>2. ASSUME NEW x \in Metric \X BOOLEAN PROVE OfPlan(Shares(Y, c))[x] = ShareOf(Y, c, x[2], x[1])
    <3>1. x[1] \in Metric /\ x[2] \in BOOLEAN
      OBVIOUS
    <3>2. OfPlan(Shares(Y, c))[x] = Shares(Y, c)[x[2]][x[1]]
      BY DEF OfPlan
    <3> QED
      BY <1>1, <3>1, <3>2
  <2>3. [k \in DOMAIN xs |-> ShareOf(Y, c, xs[k][2], xs[k][1])] = [k \in DOMAIN xs |-> OfPlan(Shares(Y, c))[xs[k]]]
    BY <2>1, <2>2
  <2> QED
    BY <2>3 DEF PlanOf, Amount
<1> QED
    BY <1>2, <1>3

LEMMA TotalIs ==
    ASSUME NEW Y, NEW c, NEW ch \in ChanType, NEW bf \in BufType, NEW hd \in HeldType, NEW td \in TodoType,
           NEW hs \in HistoryType
    PROVE  TotalOf(Y, c, ch, bf, hd, td, hs)
           = Whole(InChan(Shares(Y, c), ch), InBuf(Shares(Y, c), bf), InHand(Shares(Y, c), hd, td, hs))
<1> PICK f : f = Shares(Y, c)
    OBVIOUS
<1>1. ASSUME NEW q \in Queue
      PROVE  FoundOf(Y, c, q, ch, bf, hd, td, hs) = InChan(f, ch)[q] + InBuf(f, bf)[q] + InHand(f, hd, td, hs)[q]
  <2>1. PICK raw \in BOOLEAN : raw = (q \in Worker)
    <3>1. (q \in Worker) \in BOOLEAN
      OBVIOUS
    <3>2. \A b \in BOOLEAN : \E raw \in BOOLEAN : raw = b
      OBVIOUS
    <3> QED
      BY <3>1, <3>2, Zenon
  <2>2. SumFunction([k \in DOMAIN ch[q] |-> TallyOf(Y, c, raw, ch[q][k])]) = InChan(f, ch)[q]
    <3>1. \A k \in DOMAIN ch[q] : ch[q][k] \in Seq(Metric)
      BY DEF ChanType
    <3>2. \A k \in DOMAIN ch[q] : TallyOf(Y, c, raw, ch[q][k]) = OfChunk(f[raw])[ch[q][k]]
      BY <3>1, TallyIs DEF OfChunk
    <3>3. [k \in DOMAIN ch[q] |-> TallyOf(Y, c, raw, ch[q][k])] = [k \in DOMAIN ch[q] |-> OfChunk(f[raw])[ch[q][k]]]
      BY <3>2
    <3>4. InChan(f, ch)[q] = Amount(OfChunk(f[raw]), ch[q])
      BY <2>1 DEF InChan
    <3> QED
      BY <3>3, <3>4 DEF Amount
  <2>3. SumFunction([p \in Process |-> TallyOf(Y, c, raw, bf[p][q])]) = InBuf(f, bf)[q]
    <3>1. \A p \in Process : bf[p][q] \in Seq(Metric)
      BY DEF BufType
    <3>2. [p \in Process |-> TallyOf(Y, c, raw, bf[p][q])] = [p \in Process |-> Amount(f[raw], bf[p][q])]
      BY <3>1, TallyIs
    <3>3. InBuf(f, bf)[q] = SumFunction([p \in Process |-> Amount(f[raw], bf[p][q])])
      BY <2>1 DEF InBuf
    <3> QED
      BY <3>2, <3>3
  <2>4. (IF q \in Worker THEN TallyOf(Y, c, TRUE, hd[q]) + PlanOf(Y, c, td[q]) ELSE TallyOf(Y, c, FALSE, hs[q]))
        = InHand(f, hd, td, hs)[q]
    <3>1. CASE q \in Worker
      <4>1. hd[q] \in Seq(Metric) /\ td[q] \in Seq(Metric \X BOOLEAN)
        BY <3>1 DEF HeldType, TodoType
      <4>2. TallyOf(Y, c, TRUE, hd[q]) = Amount(f[TRUE], hd[q]) /\ PlanOf(Y, c, td[q]) = Amount(OfPlan(f), td[q])
        <5>1. TallyOf(Y, c, TRUE, hd[q]) = Amount(f[TRUE], hd[q])
          <6>0. hd[q] \in Seq(Metric)
            BY <4>1
          <6>1. TallyOf(Y, c, TRUE, hd[q]) = Amount(Shares(Y, c)[TRUE], hd[q])
            BY ONLY <6>0, TallyIs, Zenon
          <6> QED
            BY <6>1
        <5>2. PlanOf(Y, c, td[q]) = Amount(OfPlan(f), td[q])
          BY <4>1, TallyIs
        <5> QED
          BY <5>1, <5>2
      <4>3. InHand(f, hd, td, hs)[q] = Amount(f[TRUE], hd[q]) + Amount(OfPlan(f), td[q])
        BY <3>1 DEF InHand
      <4> QED
        BY <3>1, <4>2, <4>3
    <3>2. CASE q \notin Worker
      <4>1. q \in Syncer /\ hs[q] \in Seq(Metric)
        BY <3>2 DEF Queue, HistoryType
      <4>2. TallyOf(Y, c, FALSE, hs[q]) = Amount(f[FALSE], hs[q])
        <5>1. TallyOf(Y, c, FALSE, hs[q]) = Amount(Shares(Y, c)[FALSE], hs[q])
          BY ONLY <4>1, TallyIs, Zenon
        <5> QED
          BY <5>1
      <4>3. InHand(f, hd, td, hs)[q] = Amount(f[FALSE], hs[q])
        BY <3>2 DEF InHand
      <4> QED
        BY <3>2, <4>2, <4>3
    <3> QED
      BY <3>1, <3>2
  <2>5. FoundOf(Y, c, q, ch, bf, hd, td, hs)
        = SumFunction([k \in DOMAIN ch[q] |-> TallyOf(Y, c, raw, ch[q][k])])
          + SumFunction([p \in Process |-> TallyOf(Y, c, raw, bf[p][q])])
          + IF q \in Worker THEN TallyOf(Y, c, TRUE, hd[q]) + PlanOf(Y, c, td[q]) ELSE TallyOf(Y, c, FALSE, hs[q])
    BY <2>1 DEF FoundOf
  <2> QED
    BY <2>2, <2>3, <2>4, <2>5
<1>2. [q \in Queue |-> FoundOf(Y, c, q, ch, bf, hd, td, hs)]
      = [q \in Queue |-> InChan(f, ch)[q] + InBuf(f, bf)[q] + InHand(f, hd, td, hs)[q]]
    BY <1>1
<1> QED
    BY <1>2 DEF TotalOf, Whole

(* The types of what Total depends on. *)
LEMMA LedgerTypes ==
    ASSUME TypeOK
    PROVE  /\ setup \in Setups /\ chan \in ChanType /\ buf \in BufType /\ held \in HeldType /\ todo \in TodoType
           /\ history \in HistoryType
<1>1. \A s : s \in Seq(Seq(Metric) \ {<< >>}) => s \in Seq(Seq(Metric))
    OBVIOUS
<1>2. chan \in ChanType
    BY <1>1 DEF TypeOK, ChanType
<1> QED
    BY <1>2 DEF TypeOK, BufType, HeldType, TodoType, HistoryType

LEMMA LedgerTypesNext ==
    ASSUME TypeOK'
    PROVE  /\ chan' \in ChanType /\ buf' \in BufType /\ held' \in HeldType /\ todo' \in TodoType
           /\ history' \in HistoryType
<1>1. \A s : s \in Seq(Seq(Metric) \ {<< >>}) => s \in Seq(Seq(Metric))
    OBVIOUS
<1>2. chan' \in ChanType
    BY <1>1 DEF TypeOK, ChanType
<1> QED
    BY <1>2 DEF TypeOK, BufType, HeldType, TodoType, HistoryType

(* The configuration of the items does not change, and neither does what   *)
(* comes of them.                                                          *)
LEMMA YieldsSame ==
    ASSUME setup' = setup
    PROVE  Yields' = Yields
<1>1. Execute' = Execute
    BY DEF Execute
<1> QED
    BY <1>1 DEF Yields

(* What there is for a claim, in a state and after a step. *)
LEMMA TotalHere ==
    ASSUME TypeOK, NEW c \in Claim
    PROVE  LET f == Shares(Yields, c)
           IN /\ f \in Weights
              /\ Total(c) = Whole(InChan(f, chan), InBuf(f, buf), InHand(f, held, todo, history))
<1> PICK Y, f : Y = Yields /\ f = Shares(Y, c)
    OBVIOUS
<1>1. f \in Weights
  <2>1. Yields[Cardinality(Item)] \in Count
    BY LedgerTypes, YieldsIs, BoundType
  <2> QED
    BY <2>1, SharesType
<1>2. Total(c) = Whole(InChan(f, chan), InBuf(f, buf), InHand(f, held, todo, history))
  <2>1. Total(c) = TotalOf(Y, c, chan, buf, held, todo, history)
    BY DEF Total, Found, Queued, Buffered, Processed, Stored, Tally, Share, Worth, TotalOf, FoundOf, TallyOf, PlanOf, ShareOf
  <2> QED
    BY <2>1, LedgerTypes, TotalIs
<1> QED
    BY <1>1, <1>2

LEMMA TotalNow ==
    ASSUME TypeOK, TypeOK', setup' = setup, NEW c \in Claim
    PROVE  LET f == Shares(Yields, c)
           IN /\ f \in Weights
              /\ Total(c) = Whole(InChan(f, chan), InBuf(f, buf), InHand(f, held, todo, history))
              /\ Total(c)' = Whole(InChan(f, chan'), InBuf(f, buf'), InHand(f, held', todo', history'))
<1> PICK Y, f : Y = Yields /\ f = Shares(Y, c)
    OBVIOUS
<1>1. Total(c)' = Whole(InChan(f, chan'), InBuf(f, buf'), InHand(f, held', todo', history'))
  <2>1. Total(c)' = TotalOf(Yields', c, chan', buf', held', todo', history')
    BY DEF Total, Found, Queued, Buffered, Processed, Stored, Tally, Share, Worth, TotalOf, FoundOf, TallyOf, PlanOf, ShareOf
  <2>2. Yields' = Y
    BY YieldsSame
  <2> QED
    BY <2>1, <2>2, LedgerTypesNext, TotalIs
<1> QED
    BY <1>1, TotalHere

-----------------------------------------------------------------------------
(* No step loses or duplicates anything.  A worker that has no chunk has   *)
(* none of its metrics left.                                               *)
HeldInv == \A w \in Worker : chunk[w] = 0 => held[w] = << >>

LedgerInv == HeldInv /\ \A c \in Claim : Total(c) = Expected(c)

BuffersOnly(u, v, y) == \A q \in Queue \ {y}, p \in Process : v[p][q] = u[p][q]
HandsOnly(z) ==
    /\ \A q \in Worker \ {z} : held'[q] = held[q] /\ todo'[q] = todo[q]
    /\ \A q \in Syncer \ {z} : history'[q] = history[q]

(* A step that changes only a queue x, the buffers for y, and what z has,  *)
(* and what follows for the claim c, f being the shares in it.             *)
Moves(c, f, x, y, z) ==
    /\ TypeOK /\ TypeOK' /\ setup' = setup /\ c \in Claim /\ f = Shares(Yields, c)
    /\ x \in Queue /\ y \in Queue /\ z \in Queue
    /\ OnlyAt(chan, chan', x) /\ BuffersOnly(buf, buf', y) /\ HandsOnly(z)
Balance(c, f, x, y, z) ==
    /\ Total(c)' + (InChan(f, chan)[x] + InBuf(f, buf)[y] + InHand(f, held, todo, history)[z])
       = Total(c) + (InChan(f, chan')[x] + InBuf(f, buf')[y] + InHand(f, held', todo', history')[z])
    /\ Total(c) \in Nat /\ Total(c)' \in Nat
    /\ InChan(f, chan)[x] \in Nat /\ InBuf(f, buf)[y] \in Nat /\ InHand(f, held, todo, history)[z] \in Nat
    /\ InChan(f, chan')[x] \in Nat /\ InBuf(f, buf')[y] \in Nat /\ InHand(f, held', todo', history')[z] \in Nat

LEMMA TotalChange ==
    ASSUME NEW c, NEW f, NEW x, NEW y, NEW z, Moves(c, f, x, y, z)
    PROVE  f \in Weights /\ Balance(c, f, x, y, z)
<1>0. /\ TypeOK /\ TypeOK' /\ setup' = setup /\ c \in Claim /\ f = Shares(Yields, c)
      /\ x \in Queue /\ y \in Queue /\ z \in Queue
      /\ OnlyAt(chan, chan', x) /\ BuffersOnly(buf, buf', y) /\ HandsOnly(z)
    BY DEF Moves
<1>1. PICK a, b, d, a2, b2, d2 : /\ a = InChan(f, chan) /\ b = InBuf(f, buf) /\ d = InHand(f, held, todo, history)
                                 /\ a2 = InChan(f, chan') /\ b2 = InBuf(f, buf') /\ d2 = InHand(f, held', todo', history')
    OBVIOUS
<1>2. f \in Weights /\ Total(c) = Whole(a, b, d) /\ Total(c)' = Whole(a2, b2, d2)
    BY <1>0, <1>1, TotalNow
<1>3. /\ a \in [Queue -> Nat] /\ b \in [Queue -> Nat] /\ d \in [Queue -> Nat]
      /\ a2 \in [Queue -> Nat] /\ b2 \in [Queue -> Nat] /\ d2 \in [Queue -> Nat]
  <2>1. /\ chan \in ChanType /\ buf \in BufType /\ held \in HeldType /\ todo \in TodoType /\ history \in HistoryType
    BY <1>0, LedgerTypes
  <2>2. /\ chan' \in ChanType /\ buf' \in BufType /\ held' \in HeldType /\ todo' \in TodoType /\ history' \in HistoryType
    BY <1>0, LedgerTypesNext
  <2>3. a \in [Queue -> Nat] /\ b \in [Queue -> Nat] /\ d \in [Queue -> Nat]
    BY ONLY <1>1, <1>2, <2>1, PlaceTypes
  <2>4. a2 \in [Queue -> Nat] /\ b2 \in [Queue -> Nat] /\ d2 \in [Queue -> Nat]
    BY ONLY <1>1, <1>2, <2>2, PlaceTypes
  <2> QED
    BY <2>3, <2>4
<1>4. \A q \in Queue \ {x} : a2[q] = a[q]
    BY <1>0, <1>1 DEF InChan, OnlyAt
<1>5. ASSUME NEW q \in Queue \ {y} PROVE b2[q] = b[q]
  <2>1. [p \in Process |-> Amount(f[(q \in Worker)], buf'[p][q])] = [p \in Process |-> Amount(f[(q \in Worker)], buf[p][q])]
    BY <1>0 DEF BuffersOnly
  <2> QED
    BY <1>1, <2>1 DEF InBuf
<1>6. ASSUME NEW q \in Queue \ {z} PROVE d2[q] = d[q]
  <2>1. CASE q \in Worker
    BY <1>0, <1>1, <2>1 DEF InHand, HandsOnly
  <2>2. CASE q \notin Worker
    <3>1. q \in Syncer
      BY <2>2 DEF Queue
    <3> QED
      BY <1>0, <1>1, <2>2, <3>1 DEF InHand, HandsOnly
  <2> QED
    BY <2>1, <2>2
<1>7. /\ Whole(a2, b2, d2) + (a[x] + b[y] + d[z]) = Whole(a, b, d) + (a2[x] + b2[y] + d2[z])
      /\ Whole(a2, b2, d2) \in Nat /\ Whole(a, b, d) \in Nat
  <2>1. OnlyAt(a, a2, x) /\ OnlyAt(b, b2, y) /\ OnlyAt(d, d2, z)
    BY <1>4, <1>5, <1>6 DEF OnlyAt
  <2>2. x \in Queue /\ y \in Queue /\ z \in Queue
    BY <1>0
  <2> QED
    BY ONLY <1>3, <2>1, <2>2, WholeChange
<1>8. a[x] \in Nat /\ b[y] \in Nat /\ d[z] \in Nat /\ a2[x] \in Nat /\ b2[y] \in Nat /\ d2[z] \in Nat
    BY <1>0, <1>3
<1> QED
    BY <1>1, <1>2, <1>7, <1>8 DEF Balance

(* Nothing moves. *)
LEMMA TotalSame ==
    ASSUME TypeOK, TypeOK', setup' = setup, NEW c \in Claim,
           chan' = chan, buf' = buf, held' = held, todo' = todo, history' = history
    PROVE  Total(c)' = Total(c)
BY TotalNow

LEMMA ExpectedSame ==
    ASSUME setup' = setup, sent' = sent, NEW c
    PROVE  Expected(c)' = Expected(c)
BY YieldsSame DEF Expected, Worth

(* Parts of InChan and InHand. *)
LEMMA ChanPart ==
    ASSUME NEW f, NEW ch, NEW q \in Queue
    PROVE  InChan(f, ch)[q] = Amount(OfChunk(f[(q \in Worker)]), ch[q])
BY DEF InChan

OfRaw(f) == f[TRUE]
OfResult(f) == f[FALSE]

LEMMA WorkerPart ==
    ASSUME NEW f, NEW hd, NEW td, NEW hs, NEW w \in Worker
    PROVE  /\ InHand(f, hd, td, hs)[w] = Amount(OfRaw(f), hd[w]) + Amount(OfPlan(f), td[w])
           /\ f[(w \in Worker)] = OfRaw(f)
<1>1. InHand(f, hd, td, hs)[w] = Amount(f[TRUE], hd[w]) + Amount(OfPlan(f), td[w])
    BY Kinds DEF InHand
<1> QED
    BY <1>1, Zenon DEF OfRaw

LEMMA SyncerPart ==
    ASSUME NEW f, NEW hd, NEW td, NEW hs, NEW y \in Syncer
    PROVE  /\ InHand(f, hd, td, hs)[y] = Amount(OfResult(f), hs[y])
           /\ f[(y \in Worker)] = OfResult(f)
<1>1. InHand(f, hd, td, hs)[y] = Amount(f[FALSE], hs[y])
    BY Kinds DEF InHand
<1>2. y \notin Worker
    BY Kinds
<1>3. (y \in Worker) = FALSE
    BY <1>2
<1> QED
    BY <1>1, <1>3, Zenon DEF OfResult

LEMMA RawTypes ==
    ASSUME NEW f \in Weights
    PROVE  OfRaw(f) \in [Metric -> Nat] /\ OfResult(f) \in [Metric -> Nat]
BY WeightTypes DEF OfRaw, OfResult

(* A flush sends a buffer as a chunk. *)
LEMMA FlushSendLedger ==
    ASSUME IInv, IInv', NEW p \in Process, FlushSend(p), NEW c \in Claim
    PROVE  Total(c)' = Total(c)
<1>1. TypeOK /\ TypeOK' /\ BufferInv
    BY Parts DEF IInv
<1>2. PICK q, m : q = NextBuffer(p) /\ m = buf[p][q]
    OBVIOUS
<1>3. /\ passed[p] /\ setup' = setup /\ held' = held /\ todo' = todo /\ history' = history
      /\ chan' = [chan EXCEPT ![q] = Append(@, m)]
      /\ buf' = [buf EXCEPT ![p] = [buf[p] EXCEPT ![q] = << >>]]
    BY <1>2 DEF FlushSend, Continue, workerVars
<1>4. flush[p].to # {}
    BY <1>1, <1>3 DEF BufferInv, FlushInv
<1>5. q \in Queue /\ m \in Seq(Metric)
  <2>1. NextBuffer(p) \in flush[p].to
    BY <1>1, <1>4, NextBufferFacts
  <2> QED
    BY <1>1, <1>2, <2>1 DEF BufferInv
<1>6. PICK f : f = Shares(Yields, c)
    OBVIOUS
<1>7. f \in Weights
    BY <1>1, <1>3, <1>6, TotalNow
<1>8. chan \in ChanType /\ buf \in BufType /\ buf' \in BufType
    BY <1>1, LedgerTypes, LedgerTypesNext
<1>9. chan[q] \in Seq(Seq(Metric)) /\ chan'[q] = Append(chan[q], m) /\ \A r \in Queue \ {q} : chan'[r] = chan[r]
    BY <1>3, <1>5, <1>8 DEF ChanType
<1>10. /\ buf'[p][q] = << >> /\ \A r \in Queue \ {q} : buf'[p][r] = buf[p][r]
       /\ \A s \in Process \ {p} : buf'[s] = buf[s]
    BY <1>3, <1>5, <1>8 DEF BufType
<1>11. PICK g, n : g = f[(q \in Worker)] /\ n = Amount(g, m)
    OBVIOUS
<1>12. g \in [Metric -> Nat] /\ OfChunk(g) \in [Seq(Metric) -> Nat] /\ OfChunk(g)[m] = n /\ n \in Nat
  <2>1. g \in [Metric -> Nat] /\ OfChunk(g) \in [Seq(Metric) -> Nat]
    BY <1>7, <1>11, WeightTypes
  <2>2. OfChunk(g)[m] = n
    BY <1>5, <1>11 DEF OfChunk
  <2> QED
    BY <1>5, <2>1, <2>2
<1>13. InChan(f, chan')[q] = InChan(f, chan)[q] + n
  <2>1. Amount(OfChunk(g), Append(chan[q], m)) = Amount(OfChunk(g), chan[q]) + n
    BY <1>5, <1>9, <1>12, AmountAppend
  <2>2. InChan(f, chan')[q] = Amount(OfChunk(g), chan'[q]) /\ InChan(f, chan)[q] = Amount(OfChunk(g), chan[q])
    BY <1>5, <1>11, ChanPart
  <2> QED
    BY <1>9, <2>1, <2>2
<1>14. InBuf(f, buf')[q] + n = InBuf(f, buf)[q] + 0
  <2>1. InBuf(f, buf')[q] + Amount(g, buf[p][q]) = InBuf(f, buf)[q] + Amount(g, buf'[p][q])
    BY <1>5, <1>7, <1>8, <1>10, <1>11, BufChange
  <2> QED
    BY <1>2, <1>10, <1>11, <2>1, AmountEmpty
<1>15. Balance(c, f, q, q, q)
  <2>1. OnlyAt(chan, chan', q) /\ BuffersOnly(buf, buf', q) /\ HandsOnly(q)
    BY <1>3, <1>9, <1>10 DEF OnlyAt, BuffersOnly, HandsOnly
  <2>2. Moves(c, f, q, q, q)
    BY <1>1, <1>3, <1>5, <1>6, <2>1 DEF Moves
  <2> QED
    BY <2>2, TotalChange
<1>16. InHand(f, held', todo', history')[q] = InHand(f, held, todo, history)[q]
    BY <1>3
<1>17. PICK t, t2, a, a2, b, b2, d : /\ t = Total(c) /\ t2 = Total(c)' /\ a = InChan(f, chan)[q] /\ a2 = InChan(f, chan')[q]
                                     /\ b = InBuf(f, buf)[q] /\ b2 = InBuf(f, buf')[q] /\ d = InHand(f, held, todo, history)[q]
    OBVIOUS
<1>18. /\ t \in Nat /\ t2 \in Nat /\ a \in Nat /\ b \in Nat /\ b2 \in Nat /\ d \in Nat /\ n \in Nat
       /\ a2 = a + n /\ b2 + n = b + 0 /\ t2 + (a + b + d) = t + (a2 + b2 + d)
    BY <1>12, <1>13, <1>14, <1>15, <1>16, <1>17 DEF Balance
<1>19. t2 = t
    BY ONLY <1>18
<1> QED
    BY <1>17, <1>19

(* A metric is added to the buffer of p for q. *)
LEMMA BufAppend ==
    ASSUME TypeOK, TypeOK', NEW f \in Weights, NEW p \in Process, NEW q \in Queue, NEW m \in Metric,
           buf' = [buf EXCEPT ![p] = [buf[p] EXCEPT ![q] = Append(buf[p][q], m)]]
    PROVE  /\ InBuf(f, buf')[q] + 0 = InBuf(f, buf)[q] + f[(q \in Worker)][m]
           /\ f[(q \in Worker)][m] \in Nat /\ InBuf(f, buf)[q] \in Nat /\ InBuf(f, buf')[q] \in Nat
           /\ BuffersOnly(buf, buf', q)
<1>0. /\ chan \in ChanType /\ buf \in BufType /\ held \in HeldType /\ todo \in TodoType /\ history \in HistoryType
      /\ buf' \in BufType
    BY LedgerTypes, LedgerTypesNext
<1>1. /\ buf'[p][q] = Append(buf[p][q], m) /\ buf[p][q] \in Seq(Metric)
      /\ \A r \in Queue \ {q} : buf'[p][r] = buf[p][r]
      /\ \A s \in Process \ {p} : buf'[s] = buf[s]
    BY <1>0 DEF BufType
<1>2. PICK g, n, k : g = f[(q \in Worker)] /\ n = Amount(g, buf[p][q]) /\ k = g[m]
    OBVIOUS
<1>3. g \in [Metric -> Nat]
    BY <1>2, WeightTypes
<1>4. n \in Nat /\ k \in Nat /\ Amount(g, buf'[p][q]) = n + k
  <2>1. n \in Nat
    BY <1>1, <1>2, <1>3, AmountType
  <2>2. Amount(g, Append(buf[p][q], m)) = n + k
    BY <1>1, <1>2, <1>3, AmountAppend
  <2> QED
    BY <1>1, <1>2, <1>3, <2>1, <2>2
<1>5. InBuf(f, buf')[q] + n = InBuf(f, buf)[q] + (n + k)
  <2>1. InBuf(f, buf')[q] + Amount(g, buf[p][q]) = InBuf(f, buf)[q] + Amount(g, buf'[p][q])
    BY ONLY <1>0, <1>1, <1>2, f \in Weights, p \in Process, q \in Queue, BufChange
  <2> QED
    BY <1>2, <1>4, <2>1
<1>6. InBuf(f, buf')[q] \in Nat /\ InBuf(f, buf)[q] \in Nat
  <2>1. \A bf \in BufType : InBuf(f, bf) \in [Queue -> Nat]
    BY <1>0, PlaceTypes
  <2> QED
    BY <1>0, <2>1
<1>7. PICK b, b2 : b = InBuf(f, buf)[q] /\ b2 = InBuf(f, buf')[q]
    OBVIOUS
<1>8. b \in Nat /\ b2 \in Nat /\ b2 + n = b + (n + k)
    BY <1>5, <1>6, <1>7
<1>9. b2 + 0 = b + k
    BY ONLY <1>4, <1>8
<1>10. BuffersOnly(buf, buf', q)
    BY <1>1 DEF BuffersOnly
<1> QED
    BY <1>2, <1>4, <1>6, <1>7, <1>9, <1>10

(* Numbers picked for the terms of Balance. *)
LEMMA Balanced ==
    ASSUME NEW c, NEW f, NEW x, NEW y, NEW z, Balance(c, f, x, y, z),
           NEW a \in Nat, NEW e \in Nat, NEW b \in Nat, NEW g \in Nat, NEW d \in Nat, NEW h \in Nat,
           InChan(f, chan')[x] + a = InChan(f, chan)[x] + e,
           InBuf(f, buf')[y] + b = InBuf(f, buf)[y] + g,
           InHand(f, held', todo', history')[z] + d = InHand(f, held, todo, history)[z] + h
    PROVE  Total(c)' + (a + b + d) = Total(c) + (e + g + h) /\ Total(c) \in Nat /\ Total(c)' \in Nat
<1>1. PICK t, t2, u, u2, v, v2, k, k2 :
              /\ t = Total(c) /\ t2 = Total(c)'
              /\ u = InChan(f, chan)[x] /\ u2 = InChan(f, chan')[x]
              /\ v = InBuf(f, buf)[y] /\ v2 = InBuf(f, buf')[y]
              /\ k = InHand(f, held, todo, history)[z] /\ k2 = InHand(f, held', todo', history')[z]
    OBVIOUS
<1>2. /\ t \in Nat /\ t2 \in Nat /\ u \in Nat /\ u2 \in Nat /\ v \in Nat /\ v2 \in Nat /\ k \in Nat /\ k2 \in Nat
      /\ t2 + (u + v + k) = t + (u2 + v2 + k2)
      /\ u2 + a = u + e /\ v2 + b = v + g /\ k2 + d = k + h
    BY <1>1 DEF Balance
<1>3. a \in Nat /\ e \in Nat /\ b \in Nat /\ g \in Nat /\ d \in Nat /\ h \in Nat
    OBVIOUS
<1>4. t2 + (a + b + d) = t + (e + g + h)
    BY ONLY <1>2, <1>3
<1> QED
    BY <1>1, <1>2, <1>4

(* A chunk is taken from a queue. *)
LEMMA ChanHead ==
    ASSUME NEW f \in Weights, chan \in ChanType, NEW q \in Queue, chan[q] # << >>, chan' = [chan EXCEPT ![q] = Tail(@)]
    PROVE  /\ Head(chan[q]) \in Seq(Metric) /\ Amount(f[(q \in Worker)], Head(chan[q])) \in Nat
           /\ InChan(f, chan')[q] + Amount(f[(q \in Worker)], Head(chan[q])) = InChan(f, chan)[q] + 0
           /\ OnlyAt(chan, chan', q)
<1>1. chan[q] \in Seq(Seq(Metric)) /\ chan'[q] = Tail(chan[q])
    BY DEF ChanType
<1>2. PICK g, h : g = f[(q \in Worker)] /\ h = Head(chan[q])
    OBVIOUS
<1>3. g \in [Metric -> Nat] /\ OfChunk(g) \in [Seq(Metric) -> Nat] /\ h \in Seq(Metric)
  <2>1. g \in [Metric -> Nat] /\ OfChunk(g) \in [Seq(Metric) -> Nat]
    BY <1>2, WeightTypes
  <2>2. h \in Seq(Metric)
    BY <1>1, <1>2
  <2> QED
    BY <2>1, <2>2
<1>4. OfChunk(g)[h] = Amount(g, h)
    BY <1>3 DEF OfChunk
<1>5. Amount(OfChunk(g), chan[q]) = OfChunk(g)[h] + Amount(OfChunk(g), Tail(chan[q]))
      /\ OfChunk(g)[h] \in Nat /\ Amount(OfChunk(g), Tail(chan[q])) \in Nat
    BY <1>1, <1>2, <1>3, AmountHead
<1>6. InChan(f, chan')[q] = Amount(OfChunk(g), Tail(chan[q])) /\ InChan(f, chan)[q] = Amount(OfChunk(g), chan[q])
  <2>1. \A ch : InChan(f, ch)[q] = Amount(OfChunk(g), ch[q])
    BY <1>2, ChanPart
  <2> QED
    BY <1>1, <2>1
<1>7. PICK u, v, n : u = Amount(OfChunk(g), chan[q]) /\ v = Amount(OfChunk(g), Tail(chan[q])) /\ n = Amount(g, h)
    OBVIOUS
<1>8. u = n + v /\ n \in Nat /\ v \in Nat
    BY <1>4, <1>5, <1>7
<1>9. v + n = u + 0
    BY ONLY <1>8
<1>10. OnlyAt(chan, chan', q)
    BY DEF OnlyAt, ChanType
<1> QED
    BY <1>2, <1>3, <1>6, <1>7, <1>8, <1>9, <1>10

(* Nothing changes in buffers or queues. *)
LEMMA BufSame ==
    ASSUME buf' = buf
    PROVE  \A f, y : BuffersOnly(buf, buf', y) /\ InBuf(f, buf')[y] + 0 = InBuf(f, buf)[y] + 0
BY DEF BuffersOnly

LEMMA ChanSame ==
    ASSUME chan' = chan
    PROVE  \A f, x : OnlyAt(chan, chan', x) /\ InChan(f, chan')[x] + 0 = InChan(f, chan)[x] + 0
BY DEF OnlyAt

(* A worker begins to process a chunk. *)
LEMMA PreprocReceiveLedger ==
    ASSUME TypeOK, TypeOK', HeldInv, NEW w \in Worker, PreprocReceive(w), NEW c \in Claim
    PROVE  Total(c)' = Total(c)
<1>1. /\ setup' = setup /\ buf' = buf /\ todo' = todo /\ history' = history /\ chunk[w] = 0 /\ chan[w] # << >>
      /\ chan' = [chan EXCEPT ![w] = Tail(@)] /\ held' = [held EXCEPT ![w] = Head(chan[w])]
    BY DEF PreprocReceive
<1>2. chan \in ChanType /\ held \in HeldType /\ todo \in TodoType /\ w \in Queue /\ w \in Worker
    BY LedgerTypes, Kinds
<1>3. held[w] = << >> /\ held'[w] = Head(chan[w]) /\ \A v \in Worker \ {w} : held'[v] = held[v]
    BY <1>1, <1>2 DEF HeldInv, HeldType
<1>4. PICK f : f = Shares(Yields, c)
    OBVIOUS
<1>5. f \in Weights
    BY <1>1, <1>4, TotalNow
<1>6. PICK n, g : g = f[(w \in Worker)] /\ n = Amount(g, Head(chan[w]))
    OBVIOUS
<1>7. n \in Nat /\ InChan(f, chan')[w] + n = InChan(f, chan)[w] + 0 /\ OnlyAt(chan, chan', w)
    BY <1>1, <1>2, <1>5, <1>6, ChanHead
<1>8. g = OfRaw(f)
    BY <1>6, WorkerPart
<1>9. InHand(f, held', todo', history')[w] + 0 = InHand(f, held, todo, history)[w] + n
  <2>1. PICK k : k = Amount(OfPlan(f), todo[w])
    OBVIOUS
  <2>2. k \in Nat
    BY <1>2, <1>5, <2>1, WeightTypes, AmountType DEF TodoType
  <2>3. InHand(f, held', todo', history')[w] = n + k
    <3>1. n = Amount(OfRaw(f), held'[w]) /\ k = Amount(OfPlan(f), todo'[w])
      BY ONLY <1>1, <1>3, <1>6, <1>8, <2>1
    <3> QED
      BY ONLY <1>2, <3>1, WorkerPart
  <2>4. InHand(f, held, todo, history)[w] = 0 + k
    BY ONLY <1>2, <1>3, <2>1, WorkerPart, AmountEmpty
  <2>5. (n + k) + 0 = (0 + k) + n
    BY ONLY <1>7, <2>2
  <2> QED
    BY <2>3, <2>4, <2>5
<1>10. HandsOnly(w)
    BY <1>1, <1>3 DEF HandsOnly
<1>11. Moves(c, f, w, w, w)
    BY <1>1, <1>2, <1>4, <1>7, <1>10, BufSame DEF Moves
<1>12. Total(c)' + (n + 0 + 0) = Total(c) + (0 + 0 + n) /\ Total(c) \in Nat /\ Total(c)' \in Nat
  <2>1. Balance(c, f, w, w, w)
    BY <1>11, TotalChange
  <2>2. InBuf(f, buf')[w] + 0 = InBuf(f, buf)[w] + 0
    BY <1>1
  <2>3. n \in Nat /\ 0 \in Nat
    BY <1>7
  <2> QED
    BY ONLY <1>7, <1>9, <2>1, <2>2, <2>3, Balanced
<1> QED
  <2>1. PICK t, t2 : t = Total(c) /\ t2 = Total(c)'
    OBVIOUS
  <2>2. t2 + (n + 0 + 0) = t + (0 + 0 + n) /\ t \in Nat /\ t2 \in Nat
    BY <1>12, <2>1
  <2> QED
    BY <1>7, <2>1, <2>2

(* A history syncer receives a chunk. *)
LEMMA ProcessReceiveLedger ==
    ASSUME TypeOK, TypeOK', NEW y \in Syncer, ProcessReceive(y), NEW c \in Claim
    PROVE  Total(c)' = Total(c)
<1>1. /\ setup' = setup /\ buf' = buf /\ todo' = todo /\ held' = held /\ chan[y] # << >>
      /\ chan' = [chan EXCEPT ![y] = Tail(@)] /\ history' = [history EXCEPT ![y] = @ \o Head(chan[y])]
    BY DEF ProcessReceive, workerVars
<1>2. chan \in ChanType /\ history \in HistoryType /\ y \in Queue /\ y \in Syncer
    BY LedgerTypes, Kinds
<1>3. history[y] \in Seq(Metric) /\ history'[y] = history[y] \o Head(chan[y]) /\ \A v \in Syncer \ {y} : history'[v] = history[v]
    BY <1>1, <1>2 DEF HistoryType
<1>4. PICK f : f = Shares(Yields, c)
    OBVIOUS
<1>5. f \in Weights
    BY <1>1, <1>4, TotalNow
<1>6. PICK n, g : g = f[(y \in Worker)] /\ n = Amount(g, Head(chan[y]))
    OBVIOUS
<1>7. n \in Nat /\ InChan(f, chan')[y] + n = InChan(f, chan)[y] + 0 /\ OnlyAt(chan, chan', y) /\ Head(chan[y]) \in Seq(Metric)
    BY <1>1, <1>2, <1>5, <1>6, ChanHead
<1>8. g = OfResult(f) /\ g \in [Metric -> Nat]
    BY <1>5, <1>6, SyncerPart, RawTypes
<1>9. InHand(f, held', todo', history')[y] + 0 = InHand(f, held, todo, history)[y] + n
  <2>1. PICK k : k = Amount(g, history[y])
    OBVIOUS
  <2>2. k \in Nat
    BY <1>3, <1>8, <2>1, AmountType
  <2>3. Amount(g, history'[y]) = k + n
    BY ONLY <1>3, <1>6, <1>7, <1>8, <2>1, AmountConcat
  <2>4. InHand(f, held', todo', history')[y] = k + n
    BY ONLY <1>2, <1>8, <2>3, SyncerPart
  <2>5. InHand(f, held, todo, history)[y] = k
    BY ONLY <1>2, <1>8, <2>1, SyncerPart
  <2>6. (k + n) + 0 = k + n
    BY ONLY <1>7, <2>2
  <2> QED
    BY <2>4, <2>5, <2>6
<1>10. HandsOnly(y)
    BY <1>1, <1>3 DEF HandsOnly
<1>11. Moves(c, f, y, y, y)
    BY <1>1, <1>2, <1>4, <1>7, <1>10, BufSame DEF Moves
<1>12. Total(c)' + (n + 0 + 0) = Total(c) + (0 + 0 + n) /\ Total(c) \in Nat /\ Total(c)' \in Nat
  <2>1. Balance(c, f, y, y, y)
    BY <1>11, TotalChange
  <2>2. InBuf(f, buf')[y] + 0 = InBuf(f, buf)[y] + 0
    BY <1>1
  <2>3. n \in Nat /\ 0 \in Nat
    BY <1>7
  <2> QED
    BY ONLY <1>7, <1>9, <2>1, <2>2, <2>3, Balanced
<1> QED
  <2>1. PICK t, t2 : t = Total(c) /\ t2 = Total(c)'
    OBVIOUS
  <2>2. t2 + (n + 0 + 0) = t + (0 + 0 + n) /\ t \in Nat /\ t2 \in Nat
    BY <1>12, <2>1
  <2> QED
    BY <1>7, <2>1, <2>2

(* A worker sends the next output of the metric it processes. *)
LEMMA WorkerSendLedger ==
    ASSUME TypeOK, TypeOK', NEW w \in Worker, PreprocessSendHigh(w) \/ ProcessingSendMetric(w), NEW c \in Claim
    PROVE  Total(c)' = Total(c)
<1>1. PICK m, q, h : /\ h = Head(todo[w]) /\ m = h[1] /\ q = IF h[2] THEN WorkerOf[m.item] ELSE SyncerOf[m.item]
    OBVIOUS
<1>2. /\ setup' = setup /\ chan' = chan /\ held' = held /\ history' = history /\ todo[w] # << >>
      /\ todo' = [todo EXCEPT ![w] = Tail(@)]
      /\ buf' = [buf EXCEPT ![w] = [buf[w] EXCEPT ![q] = Append(buf[w][q], m)]]
    BY <1>1 DEF PreprocessSendHigh, ProcessingSendMetric, AddAndFlush, BuffersFlush, Continue
<1>3. todo \in TodoType /\ buf \in BufType /\ held \in HeldType /\ w \in Queue /\ w \in Process
    BY LedgerTypes, Kinds
<1>4. /\ todo[w] \in Seq(Metric \X BOOLEAN) /\ todo'[w] = Tail(todo[w]) /\ h \in Metric \X BOOLEAN
      /\ \A v \in Worker \ {w} : todo'[v] = todo[v]
  <2>1. PICK T : T = Metric \X BOOLEAN
    OBVIOUS
  <2>2. todo \in [Worker -> Seq(T)]
    BY <1>3, <2>1 DEF TodoType
  <2>3. /\ todo[w] \in Seq(T) /\ todo'[w] = Tail(todo[w]) /\ \A v \in Worker \ {w} : todo'[v] = todo[v]
    BY <1>2, <2>2
  <2>4. Head(todo[w]) \in T
    BY <1>2, <2>3
  <2> QED
    BY <1>1, <2>1, <2>3, <2>4
<1>5. m \in Metric /\ h[2] \in BOOLEAN /\ m.item \in Item
    BY <1>1, <1>4 DEF Metric
<1>6. q \in Queue /\ (q \in Worker) = h[2]
  <2>1. WorkerOf[m.item] \in Worker /\ SyncerOf[m.item] \in Syncer
    BY <1>5, PipelineAssumption
  <2>2. CASE h[2]
    BY <1>1, <2>1, <2>2, Kinds
  <2>3. CASE ~h[2]
    BY <1>1, <1>5, <2>1, <2>3, Kinds
  <2> QED
    BY <2>2, <2>3
<1>7. PICK f : f = Shares(Yields, c)
    OBVIOUS
<1>8. f \in Weights
    BY <1>2, <1>7, TotalNow
<1>9. PICK n : n = f[(q \in Worker)][m]
    OBVIOUS
<1>10. InBuf(f, buf')[q] + 0 = InBuf(f, buf)[q] + n /\ n \in Nat /\ BuffersOnly(buf, buf', q)
    BY <1>2, <1>3, <1>5, <1>6, <1>8, <1>9, BufAppend
<1>11. OfPlan(f)[h] = n
    BY <1>1, <1>4, <1>6, <1>9, Zenon DEF OfPlan
<1>12. InHand(f, held', todo', history')[w] + n = InHand(f, held, todo, history)[w] + 0
  <2>1. PICK u, v, k : u = Amount(OfRaw(f), held[w]) /\ v = Amount(OfPlan(f), Tail(todo[w])) /\ k = Amount(OfPlan(f), todo[w])
    OBVIOUS
  <2>2. OfPlan(f) \in [Metric \X BOOLEAN -> Nat] /\ OfRaw(f) \in [Metric -> Nat]
    BY <1>8, WeightTypes, RawTypes
  <2>3. u \in Nat
    BY <1>3, <2>1, <2>2, AmountType DEF HeldType
  <2>4. k = n + v /\ v \in Nat
    <3>1. PICK T, g, xs : T = Metric \X BOOLEAN /\ g = OfPlan(f) /\ xs = todo[w]
      OBVIOUS
    <3>2. xs \in Seq(T) /\ xs # << >> /\ g \in [T -> Nat] /\ Head(xs) = h /\ g[h] = n
      BY <1>1, <1>2, <1>4, <1>11, <2>2, <3>1
    <3>3. Amount(g, xs) = g[Head(xs)] + Amount(g, Tail(xs)) /\ Amount(g, Tail(xs)) \in Nat
      BY ONLY <3>2, AmountHead
    <3> QED
      BY <2>1, <3>1, <3>2, <3>3
  <2>5. InHand(f, held', todo', history')[w] = u + v
    <3>1. u = Amount(OfRaw(f), held'[w]) /\ v = Amount(OfPlan(f), todo'[w])
      BY ONLY <1>2, <1>4, <2>1
    <3> QED
      BY ONLY <3>1, WorkerPart, w \in Worker
  <2>6. InHand(f, held, todo, history)[w] = u + k
    BY ONLY <2>1, WorkerPart, w \in Worker
  <2>7. (u + v) + n = (u + k) + 0
    BY ONLY <1>10, <2>3, <2>4
  <2> QED
    BY <2>5, <2>6, <2>7
<1>13. HandsOnly(w)
    BY <1>2, <1>4 DEF HandsOnly
<1>14. Moves(c, f, w, q, w)
    BY <1>2, <1>3, <1>6, <1>7, <1>10, <1>13, ChanSame DEF Moves
<1>15. Total(c)' + (0 + 0 + n) = Total(c) + (0 + n + 0) /\ Total(c) \in Nat /\ Total(c)' \in Nat
  <2>1. Balance(c, f, w, q, w)
    BY <1>14, TotalChange
  <2>2. InChan(f, chan')[w] + 0 = InChan(f, chan)[w] + 0
    BY <1>2
  <2>3. n \in Nat /\ 0 \in Nat
    BY <1>10
  <2> QED
    BY ONLY <1>10, <1>12, <2>1, <2>2, <2>3, Balanced
<1> QED
  <2>1. PICK t, t2 : t = Total(c) /\ t2 = Total(c)'
    OBVIOUS
  <2>2. t2 + (0 + 0 + n) = t + (0 + n + 0) /\ t \in Nat /\ t2 \in Nat
    BY <1>15, <2>1
  <2> QED
    BY <1>10, <2>1, <2>2

(* A share, in terms of the model. *)
LEMMA ShareIs ==
    ASSUME NEW c, NEW raw \in BOOLEAN, NEW m \in Metric
    PROVE  Shares(Yields, c)[raw][m] = Share(c, raw, m)
BY DEF Shares, Share, Worth

(* What a metric is worth is what its outputs are worth together. *)
PlanFor(m) ==
    LET outs == Execute[MaxLevel][m.item][m.none]
    IN [k \in DOMAIN outs |-> <<[m EXCEPT !.item = outs[k].item, !.none = outs[k].none], outs[k].fwd>>]

LEMMA PlanWorth ==
    ASSUME DispatchEnds, setup \in Setups, NEW c \in Claim, NEW f, f = Shares(Yields, c), NEW m \in Metric
    PROVE  Amount(OfPlan(f), PlanFor(m)) = OfRaw(f)[m]
<1>0. PICK outs, td : outs = Execute[MaxLevel][m.item][m.none] /\ td = PlanFor(m)
    OBVIOUS
<1>1. PICK i, none : i = m.item /\ none = m.none
    OBVIOUS
<1>2. i \in Item /\ none \in BOOLEAN /\ c.r \in Result
    BY <1>1 DEF Metric, Claim
<1>3. outs = Execute[MaxLevel][i][none]
    BY <1>0, <1>1
<1>4. outs \in Seq(Output)
    BY <1>2, <1>3, ExecuteType
<1> DEFINE part(k) == Worth(c.r, outs[k].item, outs[k].none, outs[k].fwd)
<1>5. /\ DOMAIN td = DOMAIN outs
      /\ \A k \in DOMAIN outs : td[k] = <<[m EXCEPT !.item = outs[k].item, !.none = outs[k].none], outs[k].fwd>>
    BY <1>0 DEF PlanFor
<1>6. ASSUME NEW k \in DOMAIN outs
      PROVE  OfPlan(f)[td[k]] = IF m.from = c.from /\ m.n = c.n THEN part(k) ELSE 0
  <2>1. PICK o, b, x : o = outs[k] /\ b = o.fwd /\ x = [m EXCEPT !.item = o.item, !.none = o.none]
    OBVIOUS
  <2>2. td[k] = <<x, b>>
    BY <1>5, <2>1
  <2>3. o \in Output /\ b \in BOOLEAN
    <3>1. outs[k] \in Output
      BY ONLY <1>4, k \in DOMAIN outs
    <3> QED
      BY <2>1, <3>1 DEF Output
  <2>4. x \in Metric /\ x.from = m.from /\ x.n = m.n /\ x.item = o.item /\ x.none = o.none
    BY <2>1, <2>3 DEF Metric, Output
  <2>5. OfPlan(f)[<<x, b>>] = f[b][x]
    BY <2>3, <2>4, Zenon DEF OfPlan
  <2>6. f[b][x] = Share(c, b, x)
    BY <2>3, <2>4, ShareIs
  <2>7. Share(c, b, x) = IF m.from = c.from /\ m.n = c.n THEN Worth(c.r, o.item, o.none, b) ELSE 0
    BY <2>4 DEF Share
  <2> QED
    BY <2>1, <2>2, <2>5, <2>6, <2>7
<1>7. OfRaw(f)[m] = IF m.from = c.from /\ m.n = c.n THEN Worth(c.r, i, none, TRUE) ELSE 0
  <2>1. OfRaw(f)[m] = Share(c, TRUE, m)
    BY ShareIs, Zenon DEF OfRaw
  <2> QED
    BY <1>1, <2>1 DEF Share
<1>8. CASE m.from = c.from /\ m.n = c.n
  <2>1. [k \in DOMAIN td |-> OfPlan(f)[td[k]]] = Worths(c.r, outs)
    BY <1>5, <1>6, <1>8 DEF Worths
  <2>2. Worth(c.r, i, none, TRUE) = SumFunction(Worths(c.r, outs))
    BY ONLY DispatchEnds, setup \in Setups, <1>2, <1>3, WorthSplits
  <2>3. OfRaw(f)[m] = Worth(c.r, i, none, TRUE)
    BY ONLY <1>7, <1>8
  <2>4. Amount(OfPlan(f), td) = SumFunction(Worths(c.r, outs))
    BY ONLY <2>1 DEF Amount
  <2> QED
    BY ONLY <1>0, <2>2, <2>3, <2>4
<1>9. CASE ~(m.from = c.from /\ m.n = c.n)
  <2> DEFINE z == [k \in DOMAIN td |-> OfPlan(f)[td[k]]]
  <2>1. \A k \in DOMAIN td : OfPlan(f)[td[k]] = 0
    BY <1>5, <1>6, <1>9
  <2>2. z \in [DOMAIN td -> Nat] /\ \A k \in DOMAIN td : z[k] = 0
    BY ONLY <2>1
  <2>3. IsFiniteSet(DOMAIN td)
    <3>1. DOMAIN td = 1 .. Len(outs) /\ Len(outs) \in Nat
      <4>1. DOMAIN outs = 1 .. Len(outs) /\ Len(outs) \in Nat
        BY ONLY <1>4
      <4>2. DOMAIN td = DOMAIN outs
        BY <1>5
      <4> QED
        BY ONLY <4>1, <4>2
    <3>2. 1 \in Int /\ Len(outs) \in Int
      BY ONLY <3>1
    <3> QED
      BY ONLY <3>1, <3>2, FS_Interval
  <2>5. Amount(OfPlan(f), td) = SumFunction(z)
    BY DEF Amount
  <2> HIDE DEF z
  <2>4. SumFunction(z) = 0
    BY <2>2, <2>3, SumZero
  <2> QED
    BY ONLY <1>0, <1>7, <1>9, <2>4, <2>5
<1> QED
    BY <1>0, <1>8, <1>9

(* A worker preprocesses a metric. *)
LEMMA PreprocessLedger ==
    ASSUME DispatchEnds, TypeOK, TypeOK', NEW w \in Worker, Preprocess(w), NEW c \in Claim
    PROVE  Total(c)' = Total(c)
<1>1. PICK m, td : m = Head(held[w]) /\ td = PlanFor(m)
    OBVIOUS
<1>2. /\ setup' = setup /\ chan' = chan /\ buf' = buf /\ history' = history /\ todo[w] = << >> /\ held[w] # << >>
      /\ todo' = [todo EXCEPT ![w] = td] /\ held' = [held EXCEPT ![w] = Tail(@)]
    BY <1>1 DEF Preprocess, PlanFor
<1>3. /\ todo \in TodoType /\ todo' \in TodoType /\ held \in HeldType /\ setup \in Setups /\ w \in Queue
    BY LedgerTypes, LedgerTypesNext, Kinds
<1>4. /\ td = todo'[w] /\ held[w] \in Seq(Metric) /\ held'[w] = Tail(held[w])
      /\ \A v \in Worker \ {w} : todo'[v] = todo[v] /\ held'[v] = held[v]
    BY <1>2, <1>3 DEF TodoType, HeldType
<1>5. m \in Metric
    BY <1>1, <1>2, <1>4
<1>7. PICK f : f = Shares(Yields, c)
    OBVIOUS
<1>8. f \in Weights
    BY <1>2, <1>7, TotalNow
<1>9. Amount(OfPlan(f), td) = OfRaw(f)[m]
    BY <1>1, <1>3, <1>5, <1>7, PlanWorth
<1>10. InHand(f, held', todo', history')[w] + 0 = InHand(f, held, todo, history)[w] + 0
  <2>1. PICK u, v, n : u = Amount(OfRaw(f), held[w]) /\ v = Amount(OfRaw(f), Tail(held[w])) /\ n = OfRaw(f)[m]
    OBVIOUS
  <2>2. OfRaw(f) \in [Metric -> Nat]
    BY <1>8, RawTypes
  <2>3. u = n + v /\ n \in Nat /\ v \in Nat
    BY ONLY <1>1, <1>2, <1>4, <2>1, <2>2, AmountHead
  <2>4. InHand(f, held', todo', history')[w] = v + n
    <3>1. v = Amount(OfRaw(f), held'[w]) /\ n = Amount(OfPlan(f), todo'[w])
      BY ONLY <1>4, <1>9, <2>1
    <3> QED
      BY ONLY <3>1, WorkerPart, w \in Worker
  <2>5. InHand(f, held, todo, history)[w] = u + 0
    <3>1. u = Amount(OfRaw(f), held[w]) /\ 0 = Amount(OfPlan(f), todo[w])
      BY ONLY <1>2, <2>1, AmountEmpty
    <3> QED
      BY ONLY <3>1, WorkerPart, w \in Worker
  <2>6. (v + n) + 0 = (u + 0) + 0
    BY ONLY <2>3
  <2> QED
    BY <2>4, <2>5, <2>6
<1>11. HandsOnly(w)
    BY <1>2, <1>4 DEF HandsOnly
<1>12. Moves(c, f, w, w, w)
    BY <1>2, <1>3, <1>7, <1>11, BufSame, ChanSame DEF Moves
<1>13. Total(c)' + (0 + 0 + 0) = Total(c) + (0 + 0 + 0) /\ Total(c) \in Nat /\ Total(c)' \in Nat
  <2>1. Balance(c, f, w, w, w)
    BY <1>12, TotalChange
  <2>2. InChan(f, chan')[w] + 0 = InChan(f, chan)[w] + 0 /\ InBuf(f, buf')[w] + 0 = InBuf(f, buf)[w] + 0
    BY <1>2
  <2>3. 0 \in Nat
    OBVIOUS
  <2> QED
    BY ONLY <1>10, <2>1, <2>2, <2>3, Balanced
<1> QED
  <2>1. PICK t, t2 : t = Total(c) /\ t2 = Total(c)'
    OBVIOUS
  <2>2. t2 + (0 + 0 + 0) = t + (0 + 0 + 0) /\ t \in Nat /\ t2 \in Nat
    BY <1>13, <2>1
  <2> QED
    BY <2>1, <2>2

(* What is expected when s has sent a metric of item i. *)
LEMMA ExpectedNew ==
    ASSUME TypeOK, setup' = setup, NEW s \in Sender, NEW i \in Item, sent' = [sent EXCEPT ![s] = Append(@, i)],
           NEW c \in Claim, NEW n, n = Share(c, i \notin Proxied, NewMetric(s, i))
    PROVE  \/ Expected(c) = 0 /\ Expected(c)' = n
           \/ n = 0 /\ Expected(c)' = Expected(c)
<1>1. /\ sent[s] \in Seq(Item) /\ sent'[s] = Append(sent[s], i) /\ \A v \in Sender \ {s} : sent'[v] = sent[v]
      /\ c.from \in Sender /\ c.n \in Nat \ {0}
    BY DEF TypeOK, Claim
<1>2. PICK k : k = Len(sent[s])
    OBVIOUS
<1>3. /\ k \in Nat /\ DOMAIN sent[s] = 1 .. k /\ DOMAIN sent'[s] = 1 .. (k + 1) /\ sent'[s][k + 1] = i
      /\ \A j \in 1 .. k : sent'[s][j] = sent[s][j]
    BY <1>1, <1>2
<1>4. \A r, j, none, raw : Worth(r, j, none, raw)' = Worth(r, j, none, raw)
    BY YieldsSame DEF Worth
<1>5. n = IF s = c.from /\ k + 1 = c.n THEN Worth(c.r, i, FALSE, i \notin Proxied) ELSE 0
    BY <1>2 DEF Share, NewMetric
<1>6. CASE s = c.from /\ k + 1 = c.n
  <2>1. c.n \notin DOMAIN sent[c.from] /\ c.n \in DOMAIN sent'[c.from] /\ sent'[c.from][c.n] = i
    BY <1>3, <1>6
  <2>2. Expected(c) = 0
    BY <2>1 DEF Expected
  <2>3. Expected(c)' = Worth(c.r, i, FALSE, i \notin Proxied)
    BY <1>4, <2>1 DEF Expected
  <2> QED
    BY <1>5, <1>6, <2>2, <2>3
<1>7. CASE ~(s = c.from /\ k + 1 = c.n)
  <2>1. c.n \in DOMAIN sent'[c.from] <=> c.n \in DOMAIN sent[c.from]
    BY <1>1, <1>3, <1>7
  <2>2. c.n \in DOMAIN sent[c.from] => sent'[c.from][c.n] = sent[c.from][c.n]
    BY <1>1, <1>3, <1>7
  <2>3. Expected(c)' = Expected(c)
    <3>1. CASE c.n \in DOMAIN sent[c.from]
      <4>1. PICK j : j = sent[c.from][c.n]
        OBVIOUS
      <4>2. Expected(c) = Worth(c.r, j, FALSE, j \notin Proxied)
        BY <3>1, <4>1 DEF Expected
      <4>3. Expected(c)' = Worth(c.r, j, FALSE, j \notin Proxied)
        BY <1>4, <2>1, <2>2, <3>1, <4>1 DEF Expected
      <4> QED
        BY <4>2, <4>3
    <3>2. CASE c.n \notin DOMAIN sent[c.from]
      BY <2>1, <3>2 DEF Expected
    <3> QED
      BY <3>1, <3>2
  <2> QED
    BY <1>5, <1>7, <2>3
<1> QED
    BY <1>6, <1>7

(* A sender buffers a new metric. *)
LEMMA SendLedger ==
    ASSUME TypeOK, TypeOK', NEW s \in Sender, SendStep(s), NEW c \in Claim, Total(c) = Expected(c)
    PROVE  Total(c)' = Expected(c)'
<1>1. PICK i \in Item : PreprocessSendMetric(s, i) \/ ProcessingSendFromProxy(s, i)
    BY DEF SendStep
<1>2. PICK m, q : m = NewMetric(s, i) /\ q = IF i \notin Proxied THEN WorkerOf[i] ELSE SyncerOf[i]
    OBVIOUS
<1>3. /\ setup' = setup /\ chan' = chan /\ held' = held /\ todo' = todo /\ history' = history
      /\ sent' = [sent EXCEPT ![s] = Append(@, i)]
      /\ buf' = [buf EXCEPT ![s] = [buf[s] EXCEPT ![q] = Append(buf[s][q], m)]]
    BY <1>1, <1>2 DEF PreprocessSendMetric, ProcessingSendFromProxy, AddAndFlush, BuffersFlush, Continue, workerVars
<1>4. q \in Queue /\ (q \in Worker) = (i \notin Proxied) /\ s \in Process
  <2>1. WorkerOf[i] \in Worker /\ SyncerOf[i] \in Syncer
    BY PipelineAssumption
  <2> QED
    BY <1>2, <2>1, Kinds
<1>5. m \in Metric
  <2>1. Len(sent[s]) + 1 \in Nat
    BY DEF TypeOK
  <2> QED
    BY <1>2, <2>1 DEF NewMetric, Metric
<1>6. PICK f : f = Shares(Yields, c)
    OBVIOUS
<1>7. f \in Weights
    BY <1>3, <1>6, TotalNow
<1>8. PICK n : n = f[(q \in Worker)][m]
    OBVIOUS
<1>9. InBuf(f, buf')[q] + 0 = InBuf(f, buf)[q] + n /\ n \in Nat /\ BuffersOnly(buf, buf', q)
    BY <1>3, <1>4, <1>5, <1>7, <1>8, BufAppend
<1>10. n = Share(c, i \notin Proxied, NewMetric(s, i))
  <2>1. (i \notin Proxied) \in BOOLEAN
    OBVIOUS
  <2>2. f[i \notin Proxied][m] = Share(c, i \notin Proxied, m)
    BY ONLY <1>5, <1>6, <2>1, ShareIs
  <2> QED
    BY ONLY <1>2, <1>4, <1>8, <2>2
<1>11. Moves(c, f, q, q, q)
  <2>1. HandsOnly(q)
    BY <1>3 DEF HandsOnly
  <2> QED
    BY <1>3, <1>4, <1>6, <1>9, <2>1, ChanSame DEF Moves
<1>12. Total(c)' + (0 + 0 + 0) = Total(c) + (0 + n + 0) /\ Total(c) \in Nat /\ Total(c)' \in Nat
  <2>1. Balance(c, f, q, q, q)
    BY <1>11, TotalChange
  <2>2. /\ InChan(f, chan')[q] + 0 = InChan(f, chan)[q] + 0
        /\ InHand(f, held', todo', history')[q] + 0 = InHand(f, held, todo, history)[q] + 0
    BY <1>3
  <2>3. n \in Nat /\ 0 \in Nat
    BY <1>9
  <2> QED
    BY ONLY <1>9, <2>1, <2>2, <2>3, Balanced
<1>13. \/ Expected(c) = 0 /\ Expected(c)' = n
       \/ n = 0 /\ Expected(c)' = Expected(c)
    BY <1>3, <1>10, ExpectedNew
<1> QED
  <2>1. PICK t, t2, e, e2 : t = Total(c) /\ t2 = Total(c)' /\ e = Expected(c) /\ e2 = Expected(c)'
    OBVIOUS
  <2>2. t2 + (0 + 0 + 0) = t + (0 + n + 0) /\ t \in Nat /\ t2 \in Nat /\ n \in Nat /\ t = e
    BY <1>9, <1>12, <2>1
  <2>3. (e = 0 /\ e2 = n) \/ (n = 0 /\ e2 = e)
    BY <1>13, <2>1
  <2>4. t2 = e2
    BY ONLY <2>2, <2>3
  <2> QED
    BY <2>1, <2>4

(* The steps that move nothing. *)
LEMMA QuietSteps ==
    ASSUME TypeOK,
           \/ \E p \in Process : FlushPass(p)
           \/ \E s \in Poller : PreprocessingFlush(s)
           \/ \E s \in Trapper : ForceFlush(s) \/ ForceFlushSecond(s)
           \/ \E w \in Worker : PreprocReceiveEnd(w) \/ PreprocRelease(w) \/ IpcFlush(w) \/ ProcessingFlush(w)
           \/ Tick \/ UNCHANGED vars
    PROVE  setup' = setup /\ chan' = chan /\ buf' = buf /\ held' = held /\ todo' = todo /\ history' = history /\ sent' = sent
<1>1. \A p \in Process : [buf EXCEPT ![p] = buf[p]] = buf
    BY DEF TypeOK
<1>2. ASSUME NEW p \in Process, NEW l, NEW high, Continue(p, buf[p], l, high) PROVE buf' = buf
    BY <1>1, <1>2 DEF Continue
<1>3. ASSUME NEW p \in Process, NEW g, NEW period, NEW limit, NEW high, BuffersFlush(p, buf[p], g, period, limit, high)
      PROVE  buf' = buf
    BY <1>2, <1>3 DEF BuffersFlush
<1>4. ASSUME NEW p \in Process, NEW g, NEW h, NEW period, NEW high, FlushBoth(p, g, h, period, high) PROVE buf' = buf
    BY <1>2, <1>4 DEF FlushBoth
<1>5. CASE \E p \in Process : FlushPass(p)
    BY <1>5 DEF FlushPass, workerVars
<1>6. CASE \E s \in Poller : PreprocessingFlush(s)
    BY <1>3, <1>6, Kinds DEF PreprocessingFlush, workerVars
<1>7. CASE \E s \in Trapper : ForceFlush(s) \/ ForceFlushSecond(s)
    BY <1>3, <1>4, <1>7, Kinds DEF ForceFlush, ForceFlushSecond, workerVars
<1>8. CASE \E w \in Worker : PreprocReceiveEnd(w) \/ PreprocRelease(w)
    BY <1>8 DEF PreprocReceiveEnd, PreprocRelease
<1>9. CASE \E w \in Worker : IpcFlush(w) \/ ProcessingFlush(w)
    BY <1>3, <1>4, <1>9, Kinds DEF IpcFlush, ProcessingFlush, workerVars
<1>10. CASE Tick \/ UNCHANGED vars
    BY <1>10 DEF Tick, vars, workerVars
<1> QED
    BY <1>5, <1>6, <1>7, <1>8, <1>9, <1>10

(* A worker without a chunk has none of its metrics. *)
LEMMA HeldStep ==
    ASSUME TypeOK, HeldInv, [Next]_vars
    PROVE  HeldInv'
<1>1. /\ chan \in [Queue -> Seq(Seq(Metric) \ {<< >>})] /\ chunk \in [Worker -> Nat] /\ held \in [Worker -> Seq(Metric)]
      /\ Worker \in SUBSET Queue
    BY Kinds DEF TypeOK
<1>2. CASE chunk' = chunk /\ held' = held
    BY <1>2 DEF HeldInv
<1>3. ASSUME NEW w \in Worker, PreprocReceive(w) PROVE HeldInv'
  <2>1. PICK h : h = Head(chan[w])
    OBVIOUS
  <2>2. h # << >> /\ h \in Seq(Metric)
    <3>1. PICK T : T = Seq(Metric) \ {<< >>}
      OBVIOUS
    <3>2. chan[w] \in Seq(T) /\ chan[w] # << >>
      BY <1>1, <1>3, <3>1 DEF PreprocReceive
    <3>3. h \in T
      BY ONLY <2>1, <3>2
    <3> QED
      BY ONLY <3>1, <3>3
  <2>3. Len(h) # 0
    BY <2>2
  <2>4. /\ chunk'[w] = Len(h) /\ \A v \in Worker \ {w} : chunk'[v] = chunk[v] /\ held'[v] = held[v]
    BY <1>1, <1>3, <2>1 DEF PreprocReceive
  <2> QED
    BY <2>3, <2>4 DEF HeldInv
<1>4. ASSUME NEW w \in Worker, Preprocess(w) PROVE HeldInv'
  <2>1. chunk' = chunk /\ held[w] # << >> /\ \A v \in Worker \ {w} : held'[v] = held[v]
    BY <1>1, <1>4 DEF Preprocess
  <2> QED
    BY <2>1 DEF HeldInv
<1>5. ASSUME NEW w \in Worker, PreprocRelease(w) PROVE HeldInv'
  <2>1. held' = held /\ held[w] = << >> /\ \A v \in Worker \ {w} : chunk'[v] = chunk[v]
    BY <1>1, <1>5 DEF PreprocRelease
  <2> QED
    BY <2>1 DEF HeldInv
<1>6. CASE \E p \in Process : FlushStep(p)
    BY <1>2, <1>6 DEF FlushStep, FlushPass, FlushSend, workerVars
<1>7. CASE \E s \in Sender : SendStep(s)
    BY <1>2, <1>7 DEF SendStep, PreprocessSendMetric, ProcessingSendFromProxy, workerVars
<1>8. CASE \E s \in Poller : PreprocessingFlush(s)
    BY <1>2, <1>8 DEF PreprocessingFlush, workerVars
<1>9. CASE \E s \in Trapper : ForceFlush(s) \/ ForceFlushSecond(s)
    BY <1>2, <1>9 DEF ForceFlush, ForceFlushSecond, workerVars
<1>10. CASE \E w \in Worker : WorkerStep(w)
  <2>1. PICK w \in Worker : WorkerStep(w)
    BY <1>10
  <2>2. CASE PreprocReceiveEnd(w) \/ PreprocessSendHigh(w) \/ ProcessingSendMetric(w)
    BY <1>2, <2>2 DEF PreprocReceiveEnd, PreprocessSendHigh, ProcessingSendMetric
  <2>3. CASE IpcFlush(w) \/ ProcessingFlush(w)
    BY <1>2, <2>3 DEF IpcFlush, ProcessingFlush, workerVars
  <2> QED
    BY <1>3, <1>4, <1>5, <2>1, <2>2, <2>3 DEF WorkerStep
<1>11. CASE \E y \in Syncer : ProcessReceive(y)
    BY <1>2, <1>11 DEF ProcessReceive, workerVars
<1>12. CASE Tick \/ UNCHANGED vars
    BY <1>2, <1>12 DEF Tick, vars, workerVars
<1> QED
    BY <1>6, <1>7, <1>8, <1>9, <1>10, <1>11, <1>12 DEF Next

(* Only the senders change what is expected. *)
LEMMA SentSame ==
    ASSUME \/ \E p \in Process : FlushSend(p)
           \/ \E w \in Worker : PreprocReceive(w) \/ Preprocess(w) \/ PreprocessSendHigh(w) \/ ProcessingSendMetric(w)
           \/ \E y \in Syncer : ProcessReceive(y)
    PROVE  setup' = setup /\ sent' = sent
BY DEF FlushSend, PreprocReceive, Preprocess, PreprocessSendHigh, ProcessingSendMetric, ProcessReceive

LEMMA LedgerStep ==
    ASSUME DispatchEnds, IInv, IInv', HeldInv, [Next]_vars, NEW c \in Claim, Total(c) = Expected(c)
    PROVE  Total(c)' = Expected(c)'
<1>1. TypeOK /\ TypeOK'
    BY DEF IInv
<1>2. CASE \/ \E p \in Process : FlushPass(p)
           \/ \E s \in Poller : PreprocessingFlush(s)
           \/ \E s \in Trapper : ForceFlush(s) \/ ForceFlushSecond(s)
           \/ \E w \in Worker : PreprocReceiveEnd(w) \/ PreprocRelease(w) \/ IpcFlush(w) \/ ProcessingFlush(w)
           \/ Tick \/ UNCHANGED vars
  <2>1. setup' = setup /\ chan' = chan /\ buf' = buf /\ held' = held /\ todo' = todo /\ history' = history /\ sent' = sent
    BY <1>1, <1>2, QuietSteps
  <2>2. Total(c)' = Total(c)
    BY <1>1, <2>1, TotalSame
  <2>3. Expected(c)' = Expected(c)
    BY <2>1, ExpectedSame
  <2> QED
    BY <2>2, <2>3
<1>3. CASE \E s \in Sender : SendStep(s)
    BY <1>1, <1>3, SendLedger
<1>4. CASE \/ \E p \in Process : FlushSend(p)
           \/ \E w \in Worker : PreprocReceive(w) \/ Preprocess(w) \/ PreprocessSendHigh(w) \/ ProcessingSendMetric(w)
           \/ \E y \in Syncer : ProcessReceive(y)
  <2>1. Expected(c)' = Expected(c)
    BY <1>4, SentSame, ExpectedSame
  <2>2. Total(c)' = Total(c)
    BY <1>1, <1>4, FlushSendLedger, PreprocReceiveLedger, PreprocessLedger, WorkerSendLedger, ProcessReceiveLedger
  <2> QED
    BY <2>1, <2>2
<1> QED
    BY <1>2, <1>3, <1>4 DEF Next, FlushStep, WorkerStep

(* In the beginning there is nothing. *)
LEMMA LedgerInit ==
    ASSUME Init, NEW c \in Claim
    PROVE  Total(c) = Expected(c)
<1>1. IInv
    BY PipelineInit
<1>2. PICK f : f = Shares(Yields, c)
    OBVIOUS
<1>3. /\ chan \in ChanType /\ buf \in BufType /\ held \in HeldType /\ todo \in TodoType /\ history \in HistoryType
    BY <1>1, LedgerTypes DEF IInv
<1>4. Total(c) = Whole(InChan(f, chan), InBuf(f, buf), InHand(f, held, todo, history)) /\ f \in Weights
    BY <1>1, <1>2, TotalHere DEF IInv
<1>5. /\ \A q \in Queue : chan[q] = << >> /\ \A p \in Process : buf[p][q] = << >>
      /\ \A w \in Worker : held[w] = << >> /\ todo[w] = << >>
      /\ \A y \in Syncer : history[y] = << >>
    BY DEF Init
<1>6. ASSUME NEW q \in Queue PROVE InChan(f, chan)[q] = 0
    BY <1>5, ChanPart, AmountEmpty
<1>7. ASSUME NEW q \in Queue PROVE InBuf(f, buf)[q] = 0
  <2>1. PICK g : g = f[(q \in Worker)]
    OBVIOUS
  <2> DEFINE z == [p \in Process |-> Amount(g, buf[p][q])]
  <2>2. \A p \in Process : Amount(g, buf[p][q]) = 0
    BY <1>5, AmountEmpty
  <2>3. z \in [Process -> Nat] /\ \A p \in Process : z[p] = 0
    BY <2>2
  <2>4. InBuf(f, buf)[q] = SumFunction(z)
    BY <2>1 DEF InBuf
  <2> HIDE DEF z
  <2> QED
    BY <2>3, <2>4, FiniteAssumption, SumZero
<1>8. ASSUME NEW q \in Queue PROVE InHand(f, held, todo, history)[q] = 0
  <2>1. CASE q \in Worker
    <3>1. InHand(f, held, todo, history)[q] = Amount(OfRaw(f), held[q]) + Amount(OfPlan(f), todo[q])
      BY ONLY <2>1, WorkerPart
    <3>2. Amount(OfRaw(f), held[q]) = 0 /\ Amount(OfPlan(f), todo[q]) = 0
      BY <1>5, <2>1, AmountEmpty
    <3> QED
      BY ONLY <3>1, <3>2
  <2>2. CASE q \in Syncer
    <3>1. InHand(f, held, todo, history)[q] = Amount(OfResult(f), history[q])
      BY ONLY <2>2, SyncerPart
    <3> QED
      BY <1>5, <2>2, <3>1, AmountEmpty
  <2> QED
    BY <2>1, <2>2 DEF Queue
<1>9. PICK a, b, d : a = InChan(f, chan) /\ b = InBuf(f, buf) /\ d = InHand(f, held, todo, history)
    OBVIOUS
<1>10. Whole(a, b, d) = 0
  <2> DEFINE z == [q \in Queue |-> a[q] + b[q] + d[q]]
  <2>1. \A q \in Queue : a[q] + b[q] + d[q] = 0
    BY <1>6, <1>7, <1>8, <1>9
  <2>2. z \in [Queue -> Nat] /\ \A q \in Queue : z[q] = 0
    BY ONLY <2>1
  <2>3. Whole(a, b, d) = SumFunction(z)
    BY DEF Whole
  <2> HIDE DEF z
  <2> QED
    BY <2>2, <2>3, FiniteAssumption, SumZero
<1>11. Expected(c) = 0
  <2>1. c.from \in Sender /\ sent[c.from] = << >>
    BY DEF Init, Claim
  <2>2. DOMAIN sent[c.from] = {}
    BY <2>1
  <2> QED
    BY <2>2 DEF Expected
<1> QED
    BY <1>4, <1>9, <1>10, <1>11

-----------------------------------------------------------------------------
(* ExactlyOnce, for any number of processes, items and metrics and any     *)
(* sizes of the segments: no metric is lost or duplicated between a poller *)
(* or trapper and history syncing, however its chunks wait, are forwarded  *)
(* or are derived from.  The dispatches of the configuration must end;     *)
(* otherwise a metric goes round for ever and nothing is expected of it.   *)
THEOREM PipelineExactlyOnce == DispatchEnds /\ Spec => []ExactlyOnce
<1> SUFFICES ASSUME DispatchEnds PROVE Spec => []ExactlyOnce
    OBVIOUS
<1>1. Init => IInv /\ LedgerInv
  <2>1. Init => HeldInv
    BY DEF Init, HeldInv
  <2> QED
    BY <2>1, PipelineInit, LedgerInit DEF LedgerInv
<1>2. IInv /\ IInv' /\ LedgerInv /\ [Next]_vars => LedgerInv'
  <2> SUFFICES ASSUME IInv, IInv', LedgerInv, [Next]_vars PROVE LedgerInv'
    OBVIOUS
  <2>1. HeldInv /\ TypeOK /\ \A c \in Claim : Total(c) = Expected(c)
    BY DEF LedgerInv, IInv
  <2>2. HeldInv'
    BY <2>1, HeldStep
  <2>3. \A c \in Claim : Total(c)' = Expected(c)'
    BY <2>1, LedgerStep
  <2> QED
    BY <2>2, <2>3 DEF LedgerInv
<1>3. IInv /\ LedgerInv => ExactlyOnce
  <2> SUFFICES ASSUME IInv, LedgerInv, NEW s \in Sender, NEW n \in DOMAIN sent[s], NEW r \in Result
               PROVE  LET c == [from |-> s, n |-> n, r |-> r] IN Total(c) = Expected(c)
    BY Zenon DEF ExactlyOnce
  <2>1. PICK c : c = [from |-> s, n |-> n, r |-> r]
    OBVIOUS
  <2>2. n \in Nat \ {0}
    BY DEF IInv, TypeOK
  <2>3. c \in Claim
    BY <2>1, <2>2 DEF Claim
  <2> QED
    BY <2>1, <2>3 DEF LedgerInv
<1> QED
    BY <1>1, <1>2, <1>3, PipelineInvariant, PTL DEF Spec
====
