--------------------------- MODULE NatSets_proofs ---------------------------
(***************************************************************************)
(* Induction over the numbers, stated for sets, and sums over finite       *)
(* domains.                                                                *)
(***************************************************************************)
EXTENDS Naturals, Sequences, Functions, NaturalsInduction, WellFoundedInduction, FiniteSetTheorems, TLAPS

(* Induction over the natural numbers: a set of them has a least element. *)
LEMMA LeastNat ==
    ASSUME NEW B \in SUBSET Nat, B # {}
    PROVE  \E n \in B : \A k \in B : n <= k
<1> DEFINE R == {ss \in Nat \X Nat : ss[1] < ss[2]}
<1>1. IsWellFoundedOn(R, Nat)
    BY NatLessThanWellFounded, Zenon DEF OpToRel
<1>2. PICK x \in B : \A y \in B : ~(<<y, x>> \in R)
    BY <1>1, WFMin, Zenon
<1>3. \A y \in B : <<y, x>> \in R <=> y < x
  <2> TAKE y \in B
  <2>1. <<y, x>> \in Nat \X Nat /\ <<y, x>>[1] = y /\ <<y, x>>[2] = x
    BY SMT
  <2> QED
    BY <2>1, Zenon DEF R
<1>4. \A y \in B : ~(y < x)
    BY <1>2, <1>3, Zenon
<1>5. \A y \in B : x <= y
    BY <1>4, SMT
<1> QED
    BY <1>5, Zenon

(* Induction up to N, for a set given by its elements. *)
LEMMA Induct ==
    ASSUME NEW N \in Nat, NEW P, 0 \in P, \A n \in 1 .. N : n - 1 \in P => n \in P
    PROVE  \A n \in 0 .. N : n \in P
<1> DEFINE B == {n \in 0 .. N : n \notin P}
<1>1. SUFFICES ASSUME B # {} PROVE FALSE
    OBVIOUS
<1>2. B \in SUBSET Nat
    OBVIOUS
<1>3. \E n \in B : \A k \in B : n <= k
    BY <1>1, <1>2, LeastNat, Zenon
<1> QED
    BY <1>3

-----------------------------------------------------------------------------
(* The sum of a function's values, SumFunction, folds over its domain. It  *)
(* is the number of the cells below its graph.                             *)
Cells(f, s) == UNION {{x} \X (1 .. f[x]) : x \in s}

(* One more column of cells. *)
LEMMA CellsAdd ==
    ASSUME NEW f, NEW s, NEW x, x \notin s, f[x] \in Nat, IsFiniteSet(Cells(f, s))
    PROVE  /\ IsFiniteSet(Cells(f, s \cup {x}))
           /\ Cardinality(Cells(f, s \cup {x})) = f[x] + Cardinality(Cells(f, s))
           /\ Cardinality(Cells(f, s)) \in Nat
<1> DEFINE new == {x} \X (1 .. f[x])
           old == Cells(f, s)
<1>1. Cells(f, s \cup {x}) = old \cup new
    BY Zenon DEF Cells
<1>2. old \cap new = {}
    BY DEF Cells
<1>3. IsFiniteSet(new) /\ Cardinality(new) = f[x]
  <2>1. IsFiniteSet(1 .. f[x]) /\ Cardinality(1 .. f[x]) = f[x]
    BY FS_Interval
  <2>2. IsFiniteSet({x}) /\ Cardinality({x}) = 1
    BY FS_Singleton
  <2>3. IsFiniteSet(new) /\ Cardinality(new) = Cardinality({x}) * Cardinality(1 .. f[x])
    BY <2>1, <2>2, FS_Product
  <2> QED
    BY <2>1, <2>2, <2>3
<1>4. IsFiniteSet(old) /\ Cardinality(old) \in Nat
    BY FS_CardinalityType
<1> HIDE DEF old, new
<1>5. /\ IsFiniteSet(old \cup new)
      /\ Cardinality(old \cup new) = Cardinality(old) + Cardinality(new) - Cardinality({})
    BY ONLY <1>2, <1>3, <1>4, FS_Union
<1>6. Cardinality({}) = 0
    BY FS_EmptySet
<1>7. Cardinality(old \cup new) = f[x] + Cardinality(old)
    BY <1>3, <1>4, <1>5, <1>6
<1> QED
    BY <1>1, <1>4, <1>5, <1>7 DEF old

(* The cells of a finite domain are finitely many. *)
LEMMA CellsFinite ==
    ASSUME NEW D, IsFiniteSet(D), NEW f \in [D -> Nat]
    PROVE  \A s \in SUBSET D : IsFiniteSet(s) /\ IsFiniteSet(Cells(f, s))
<1> DEFINE N == Cardinality(D)
           P == {n \in 0 .. N : \A s \in SUBSET D : Cardinality(s) = n => IsFiniteSet(Cells(f, s))}
<1>1. N \in Nat /\ \A s \in SUBSET D : IsFiniteSet(s) /\ Cardinality(s) \in 0 .. N
    BY FS_CardinalityType, FS_Subset
<1>2. 0 \in P
  <2>1. ASSUME NEW s \in SUBSET D, Cardinality(s) = 0 PROVE IsFiniteSet(Cells(f, s))
    <3>1. s = {}
      BY <1>1, <2>1, FS_EmptySet
    <3>2. Cells(f, {}) = {}
      BY DEF Cells
    <3> QED
      BY <3>1, <3>2, FS_EmptySet
  <2> QED
    BY <1>1, <2>1
<1>3. ASSUME NEW n \in 1 .. N, n - 1 \in P PROVE n \in P
  <2>1. ASSUME NEW s \in SUBSET D, Cardinality(s) = n PROVE IsFiniteSet(Cells(f, s))
    <3>1. PICK x : x \in s
      BY <1>1, <2>1, FS_EmptySet
    <3> DEFINE t == s \ {x}
    <3>2. t \in SUBSET D /\ Cardinality(t) = n - 1
      BY <1>1, <2>1, <3>1, FS_RemoveElement
    <3>3. IsFiniteSet(Cells(f, t))
      BY <1>3, <3>2
    <3>4. x \notin t /\ t \cup {x} = s /\ f[x] \in Nat
      BY <3>1
    <3> HIDE DEF t
    <3> QED
      BY <3>3, <3>4, CellsAdd
  <2> QED
    BY <1>1, <2>1
<1> HIDE DEF P, N
<1>4. \A n \in 0 .. N : n \in P
    BY <1>1, <1>2, <1>3, Induct
<1> QED
    BY <1>1, <1>4 DEF P

(* What the fold of SumFunction computes. *)
LEMMA SumIsCells ==
    ASSUME NEW D, IsFiniteSet(D), NEW f \in [D -> Nat]
    PROVE  SumFunction(f) = Cardinality(Cells(f, D)) /\ SumFunction(f) \in Nat
<1> DEFINE pick(s) == CHOOSE x \in s : TRUE
           Step(g, s) == IF s = {} THEN 0 ELSE f[pick(s)] + g[s \ {pick(s)}]
           it == CHOOSE iter : iter = [s \in SUBSET D |-> Step(iter, s)]
           cells == [s \in SUBSET D |-> Cardinality(Cells(f, s))]
           N == Cardinality(D)
           P == {n \in 0 .. N : \A s \in SUBSET D : Cardinality(s) = n => it[s] = cells[s]}
<1>1. SumFunction(f) = it[D]
  <2>1. DOMAIN f = D
    OBVIOUS
  <2> QED
    BY <2>1, Zenon DEF SumFunction, SumFunctionOnSet, FoldFunctionOnSet, MapThenFoldSet
<1>2. ASSUME NEW s \in SUBSET D PROVE cells[s] = Step(cells, s)
  <2>1. CASE s = {}
    <3>1. Cells(f, {}) = {}
      BY DEF Cells
    <3> QED
      BY <2>1, <3>1, FS_EmptySet
  <2>2. CASE s # {}
    <3> DEFINE x == pick(s)
               t == s \ {x}
    <3>1. x \in s
      BY <2>2
    <3> HIDE DEF x
    <3>2. t \in SUBSET D /\ x \notin t /\ t \cup {x} = s /\ f[x] \in Nat
      BY <3>1
    <3>3. IsFiniteSet(Cells(f, t))
      BY <3>2, CellsFinite
    <3> HIDE DEF t
    <3>4. Cardinality(Cells(f, s)) = f[x] + Cardinality(Cells(f, t))
      BY <3>2, <3>3, CellsAdd
    <3>5. cells[s] = f[x] + cells[t]
      BY <3>2, <3>4
    <3> QED
      BY <2>2, <3>5 DEF t, x
  <2> QED
    BY <2>1, <2>2
<1>3. it = [s \in SUBSET D |-> Step(it, s)]
  <2>1. cells = [s \in SUBSET D |-> Step(cells, s)]
    BY <1>2
  <2> HIDE DEF cells, Step
  <2> QED
    BY <2>1, Zenon
<1> HIDE DEF it, cells
<1>4. N \in Nat /\ \A s \in SUBSET D : IsFiniteSet(s) /\ Cardinality(s) \in 0 .. N
    BY FS_CardinalityType, FS_Subset
<1>5. 0 \in P
  <2>1. ASSUME NEW s \in SUBSET D, Cardinality(s) = 0 PROVE it[s] = cells[s]
    <3>1. s = {}
      BY <1>4, <2>1, FS_EmptySet
    <3> QED
      BY <1>2, <1>3, <3>1
  <2> QED
    BY <1>4, <2>1
<1>6. ASSUME NEW n \in 1 .. N, n - 1 \in P PROVE n \in P
  <2>1. ASSUME NEW s \in SUBSET D, Cardinality(s) = n PROVE it[s] = cells[s]
    <3> DEFINE x == pick(s)
               t == s \ {x}
    <3>1. s # {}
      BY <1>4, <2>1, FS_EmptySet
    <3>2. x \in s
      BY <3>1
    <3>3. it[s] = f[x] + it[t] /\ cells[s] = f[x] + cells[t]
      BY <1>2, <1>3, <3>1
    <3> HIDE DEF x
    <3>4. t \in SUBSET D /\ Cardinality(t) = n - 1
      BY <1>4, <2>1, <3>2, FS_RemoveElement
    <3>5. it[t] = cells[t]
      BY <1>6, <3>4
    <3> QED
      BY <3>3, <3>5
  <2> QED
    BY <1>4, <2>1
<1> HIDE DEF P
<1>7. N \in P
  <2> HIDE DEF N
  <2>1. \A n \in 0 .. N : n \in P
    BY <1>4, <1>5, <1>6, Induct
  <2> QED
    BY <1>4, <2>1
<1>8. it[D] = Cardinality(Cells(f, D))
    BY <1>7 DEF P, cells
<1>9. IsFiniteSet(Cells(f, D))
    BY CellsFinite
<1> QED
    BY <1>1, <1>8, <1>9, FS_CardinalityType

(* A sum over one index more. *)
LEMMA SumAdd ==
    ASSUME NEW D, IsFiniteSet(D), NEW f \in [D -> Nat], NEW x, x \notin D,
           NEW g \in [D \cup {x} -> Nat], \A y \in D : g[y] = f[y]
    PROVE  SumFunction(g) = g[x] + SumFunction(f) /\ SumFunction(f) \in Nat
<1>1. IsFiniteSet(D \cup {x})
    BY FS_AddElement
<1>2. Cells(g, D) = Cells(f, D)
    BY DEF Cells
<1>3. IsFiniteSet(Cells(g, D)) /\ g[x] \in Nat
    BY <1>2, CellsFinite
<1>4. Cardinality(Cells(g, D \cup {x})) = g[x] + Cardinality(Cells(g, D))
    BY <1>3, CellsAdd
<1>5. SumFunction(g) = Cardinality(Cells(g, D \cup {x}))
    BY <1>1, SumIsCells
<1>6. SumFunction(f) = Cardinality(Cells(f, D)) /\ SumFunction(f) \in Nat
    BY SumIsCells
<1> QED
    BY <1>2, <1>4, <1>5, <1>6

(* The empty sum. *)
LEMMA SumEmpty ==
    ASSUME NEW f \in [{} -> Nat]
    PROVE  SumFunction(f) = 0
<1>1. Cells(f, {}) = {}
    BY DEF Cells
<1> QED
    BY <1>1, SumIsCells, FS_EmptySet

(* A sum of zeros. *)
LEMMA SumZero ==
    ASSUME NEW D, IsFiniteSet(D), NEW f \in [D -> Nat], \A x \in D : f[x] = 0
    PROVE  SumFunction(f) = 0
<1>1. Cells(f, D) = {}
    BY DEF Cells
<1> QED
    BY <1>1, SumIsCells, FS_EmptySet

(* Greater values have the greater sum. *)
LEMMA SumMonotone ==
    ASSUME NEW D, IsFiniteSet(D), NEW f \in [D -> Nat], NEW g \in [D -> Nat], \A x \in D : f[x] <= g[x]
    PROVE  SumFunction(f) <= SumFunction(g)
<1>1. IsFiniteSet(Cells(g, D))
    BY CellsFinite
<1>2. Cells(f, D) \in SUBSET Cells(g, D)
  <2>1. \A x \in D : \A n \in 1 .. f[x] : n \in 1 .. g[x]
    OBVIOUS
  <2>2. ASSUME NEW z \in Cells(f, D) PROVE z \in Cells(g, D)
    <3>1. PICK x \in D : z \in {x} \X (1 .. f[x])
      BY Zenon DEF Cells
    <3>2. z \in {x} \X (1 .. g[x])
      BY <2>1, <3>1
    <3> QED
      BY <3>2, Zenon DEF Cells
  <2> QED
    BY <2>2
<1>3. Cardinality(Cells(f, D)) <= Cardinality(Cells(g, D))
    BY <1>1, <1>2, FS_Subset
<1> QED
    BY <1>3, SumIsCells

(* A sum in which one value changes. *)
SameBut(f, g, D, x) == \A y \in D \ {x} : g[y] = f[y]

LEMMA SumChange ==
    ASSUME NEW D, IsFiniteSet(D), NEW f \in [D -> Nat], NEW g \in [D -> Nat], NEW x \in D, SameBut(f, g, D, x)
    PROVE  /\ SumFunction(g) + f[x] = SumFunction(f) + g[x]
           /\ SumFunction(f) \in Nat /\ SumFunction(g) \in Nat
<1> DEFINE E == D \ {x}
           h == [y \in E |-> f[y]]
<1>1. IsFiniteSet(E) /\ x \notin E /\ E \cup {x} = D
    BY FS_RemoveElement
<1>2. h \in [E -> Nat] /\ (\A y \in E : f[y] = h[y]) /\ \A y \in E : g[y] = h[y]
    BY DEF SameBut
<1>3. f \in [E \cup {x} -> Nat] /\ g \in [E \cup {x} -> Nat]
    BY <1>1
<1> HIDE DEF E, h
<1>4. SumFunction(f) = f[x] + SumFunction(h) /\ SumFunction(h) \in Nat
    BY <1>1, <1>2, <1>3, SumAdd
<1>5. SumFunction(g) = g[x] + SumFunction(h)
    BY <1>1, <1>2, <1>3, SumAdd
<1>6. f[x] \in Nat /\ g[x] \in Nat
    OBVIOUS
<1> QED
    BY <1>4, <1>5, <1>6

(* The sum of a sequence with one number more. *)
LEMMA SumAppend ==
    ASSUME NEW z \in Seq(Nat), NEW v \in Nat
    PROVE  SumFunction(Append(z, v)) = SumFunction(z) + v /\ SumFunction(z) \in Nat
<1> DEFINE D == 1 .. Len(z)
           x == Len(z) + 1
           g == Append(z, v)
<1>1. Len(z) \in Nat /\ D \cup {x} = 1 .. x /\ x \notin D
    OBVIOUS
<1>2. z \in [D -> Nat] /\ g \in [D \cup {x} -> Nat] /\ g[x] = v /\ \A y \in D : g[y] = z[y]
  <2>1. \A s \in Seq(Nat) : s \in [1 .. Len(s) -> Nat]
    OBVIOUS
  <2>2. g \in Seq(Nat) /\ Len(g) = x /\ g[x] = v /\ \A y \in D : g[y] = z[y]
    OBVIOUS
  <2> HIDE DEF g, x, D
  <2>3. g \in [1 .. x -> Nat]
    BY <2>1, <2>2
  <2> QED
    BY <1>1, <2>1, <2>2, <2>3 DEF D
<1>3. IsFiniteSet(D)
    BY <1>1, FS_Interval
<1> HIDE DEF D, x, g
<1>4. SumFunction(g) = g[x] + SumFunction(z) /\ SumFunction(z) \in Nat
    BY <1>1, <1>2, <1>3, SumAdd
<1> QED
    BY <1>2, <1>4 DEF g

(* The sum of two sequences one after the other. *)
LEMMA SumConcat ==
    ASSUME NEW a \in Seq(Nat), NEW b \in Seq(Nat)
    PROVE  /\ SumFunction(a \o b) = SumFunction(a) + SumFunction(b)
           /\ SumFunction(a) \in Nat /\ SumFunction(b) \in Nat
<1> DEFINE N == Len(b)
           first(n) == [k \in 1 .. n |-> b[k]]
           P == {n \in 0 .. N : SumFunction(a \o first(n)) = SumFunction(a) + SumFunction(first(n))}
<1>1. N \in Nat /\ \A n \in 0 .. N : first(n) \in Seq(Nat) /\ Len(first(n)) = n
    OBVIOUS
<1>2. SumFunction(a) \in Nat /\ \A n \in 0 .. N : SumFunction(first(n)) \in Nat
    BY <1>1, SumAppend
<1>3. 0 \in P
  <2>1. first(0) = << >> /\ a \o first(0) = a
    OBVIOUS
  <2>2. << >> \in [{} -> Nat]
    OBVIOUS
  <2>3. SumFunction(<< >>) = 0
    BY <2>2, SumEmpty
  <2> QED
    BY <1>1, <1>2, <2>1, <2>3
<1>4. ASSUME NEW n \in 1 .. N, n - 1 \in P PROVE n \in P
  <2>1. n - 1 \in 0 .. N /\ n \in 0 .. N /\ b[n] \in Nat
    OBVIOUS
  <2>2. first(n) = Append(first(n - 1), b[n])
    OBVIOUS
  <2>3. a \o first(n) = Append(a \o first(n - 1), b[n]) /\ a \o first(n - 1) \in Seq(Nat)
    OBVIOUS
  <2>4. SumFunction(a \o first(n - 1)) = SumFunction(a) + SumFunction(first(n - 1))
    BY <1>4
  <2>5. first(n - 1) \in Seq(Nat)
    BY <1>1, <2>1
  <2> HIDE DEF first
  <2>6. SumFunction(first(n)) = SumFunction(first(n - 1)) + b[n]
    BY <2>1, <2>2, <2>5, SumAppend
  <2>7. SumFunction(a \o first(n)) = SumFunction(a \o first(n - 1)) + b[n]
    BY <2>1, <2>3, SumAppend
  <2>8. SumFunction(first(n - 1)) \in Nat
    BY <1>2, <2>1
  <2> QED
    BY <1>2, <2>1, <2>4, <2>6, <2>7, <2>8
<1>5. first(N) = b
    OBVIOUS
<1> HIDE DEF P, N
<1>6. \A n \in 0 .. N : n \in P
    BY <1>1, <1>3, <1>4, Induct
<1>7. N \in P /\ N \in 0 .. N
    BY <1>1, <1>6
<1> HIDE DEF first
<1> QED
    BY <1>2, <1>5, <1>7 DEF P

-----------------------------------------------------------------------------
(* A function can be defined by its first value, and a step F from each    *)
(* value to the next.                                                      *)
Follows(f, start, F, N) == f[0] = start /\ \A n \in 1 .. N : f[n] = F[<<f[n - 1], n>>]

LEMMA Recursion ==
    ASSUME NEW N \in Nat, NEW T, NEW start \in T, NEW F \in [T \X (1 .. N) -> T]
    PROVE  \E f \in [0 .. N -> T] : Follows(f, start, F, N)
<1> DEFINE Part(n) == \E f \in [0 .. n -> T] : f[0] = start /\ \A k \in 1 .. n : f[k] = F[<<f[k - 1], k>>]
           P == {n \in 0 .. N : Part(n)}
<1>1. Part(0)
  <2>1. [k \in 0 .. 0 |-> start] \in [0 .. 0 -> T] /\ [k \in 0 .. 0 |-> start][0] = start /\ 1 .. 0 = {}
    OBVIOUS
  <2> QED
    BY <2>1, Zenon
<1>2. ASSUME NEW n \in 1 .. N, Part(n - 1) PROVE Part(n)
  <2>1. PICK f \in [0 .. n - 1 -> T] : f[0] = start /\ \A k \in 1 .. n - 1 : f[k] = F[<<f[k - 1], k>>]
    BY <1>2
  <2> DEFINE new == F[<<f[n - 1], n>>]
             g == [k \in 0 .. n |-> IF k = n THEN new ELSE f[k]]
  <2>2. n \in Nat /\ n - 1 \in 0 .. n - 1 /\ n # 0
    OBVIOUS
  <2>3. new \in T
    <3>1. f[n - 1] \in T
      BY <2>2
    <3>2. <<f[n - 1], n>> \in T \X (1 .. N)
      BY <3>1
    <3> QED
      BY <3>2
  <2>4. g \in [0 .. n -> T] /\ g[n] = new /\ \A k \in 0 .. n - 1 : g[k] = f[k]
    BY <2>3
  <2> HIDE DEF g
  <2>5. g[0] = start
    BY <2>1, <2>2, <2>4
  <2>6. ASSUME NEW k \in 1 .. n PROVE g[k] = F[<<g[k - 1], k>>]
    <3>1. g[k - 1] = f[k - 1]
      BY <2>4
    <3>2. CASE k = n
      BY <2>4, <3>1, <3>2
    <3>3. CASE k # n
      <4>1. k \in 1 .. n - 1 /\ g[k] = f[k]
        BY <2>4, <3>3
      <4> QED
        BY <2>1, <3>1, <4>1
    <3> QED
      BY <3>2, <3>3
  <2> QED
    BY <2>4, <2>5, <2>6
<1> HIDE DEF Part
<1>3. 0 \in P /\ \A n \in 1 .. N : n - 1 \in P => n \in P
    BY <1>1, <1>2
<1> HIDE DEF P
<1>4. \A n \in 0 .. N : n \in P
    BY <1>3, Induct
<1>5. N \in P
    BY <1>4
<1> QED
    BY <1>5 DEF P, Part, Follows
=============================================================================
