-------------------------------- MODULE Sums --------------------------------
(***************************************************************************)
(* Facts about SumFunction, for the proofs about the counters that are      *)
(* bounded by a sum or kept in step with one: the sum of finitely many      *)
(* naturals is one whatever the order it is taken in, and a change of one   *)
(* of them changes it by as much.                                           *)
(* Induction is over the least number for which a statement fails.          *)
(***************************************************************************)
EXTENDS Integers, FiniteSets, Functions, FiniteSetTheorems, WellFoundedInduction, TLAPS

\* The least element of a set of numbers.
LEMMA LeastOf == ASSUME NEW T \in SUBSET Nat, T # {} PROVE \E x \in T : \A y \in T : ~(y < x)
<1>1. IsWellFoundedOn(OpToRel(<, Nat), Nat)
  BY NatLessThanWellFounded
<1>2. PICK x \in T : \A y \in T : ~(<<y, x>> \in OpToRel(<, Nat))
  BY <1>1, WFMin
<1> QED BY <1>2 DEF OpToRel

\* g is the fold behind the sum of f over S and over its subsets ...
Folded(g, f, S) ==
    g = [s \in SUBSET S |-> IF s = {} THEN 0
                            ELSE f[CHOOSE x \in s : TRUE] + g[s \ {CHOOSE x \in s : TRUE}]]

\* ... and here one that takes the elements in any order.
Total(g, f, S) ==
    /\ g \in [SUBSET S -> Nat] /\ g[{}] = 0
    /\ \A s \in SUBSET S : \A x \in s : g[s] = f[x] + g[s \ {x}]

LEMMA SumIs ==
    ASSUME NEW f, NEW S
    PROVE  SumFunctionOnSet(f, S) = (CHOOSE g : Folded(g, f, S))[S]
  BY DEF SumFunctionOnSet, FoldFunctionOnSet, MapThenFoldSet, Folded

LEMMA TotalFolds == ASSUME NEW f, NEW S, NEW g, Total(g, f, S) PROVE Folded(g, f, S)
<1>1. ASSUME NEW s \in SUBSET S
      PROVE  g[s] = IF s = {} THEN 0
                    ELSE f[CHOOSE x \in s : TRUE] + g[s \ {CHOOSE x \in s : TRUE}]
  <2>1. CASE s = {}
    BY <2>1 DEF Total
  <2>2. CASE s # {}
    <3>1. PICK y : y = CHOOSE x \in s : TRUE
      OBVIOUS
    <3>2. y \in s
      BY <2>2, <3>1
    <3>3. g[s] = f[y] + g[s \ {y}]
      BY <3>2 DEF Total
    <3> QED BY <2>2, <3>1, <3>3
  <2> QED BY <2>1, <2>2
<1>2. g = [s \in SUBSET S |-> g[s]]
  BY DEF Total
<1> QED BY <1>1, <1>2 DEF Folded

\* Two folds agree on a set on which the functions do.
LEMMA FoldsAgree ==
    ASSUME NEW S, IsFiniteSet(S), NEW e, NEW f, NEW g, NEW h, Folded(g, e, S), Folded(h, f, S),
           NEW U \in SUBSET S, \A x \in U : e[x] = f[x]
    PROVE  g[U] = h[U]
<1> DEFINE T == {n \in Nat : \E s \in SUBSET U : Cardinality(s) = n /\ g[s] # h[s]}
<1>1. SUFFICES ASSUME g[U] # h[U] PROVE FALSE
  OBVIOUS
<1>2. \A s \in SUBSET U : s \in SUBSET S /\ IsFiniteSet(s) /\ Cardinality(s) \in Nat
  BY FS_Subset, FS_CardinalityType
<1>3. T \in SUBSET Nat /\ T # {}
  <2>1. Cardinality(U) \in T
    BY <1>1, <1>2
  <2> QED BY <2>1
<1>4. PICK n \in T : \A m \in T : ~(m < n)
  <2> HIDE DEF T
  <2> QED BY <1>3, LeastOf
<1>5. PICK s \in SUBSET U : Cardinality(s) = n /\ g[s] # h[s]
  OBVIOUS
<1>6. s # {}
  <2>1. SUFFICES ASSUME s = {} PROVE FALSE
    OBVIOUS
  <2>2. g[{}] = 0 /\ h[{}] = 0
    BY DEF Folded
  <2> QED BY <1>5, <2>1, <2>2
<1>7. PICK x : x = CHOOSE z \in s : TRUE
  OBVIOUS
<1>8. x \in s
  BY <1>6, <1>7
<1>9. g[s] = e[x] + g[s \ {x}] /\ h[s] = f[x] + h[s \ {x}]
  BY <1>2, <1>6, <1>7 DEF Folded
<1>10. s \ {x} \in SUBSET U /\ Cardinality(s \ {x}) = n - 1 /\ n \in Nat
  BY <1>2, <1>5, <1>8, FS_RemoveElement
<1>11. Cardinality(s \ {x}) \in Nat /\ Cardinality(s \ {x}) < n
  BY <1>2, <1>10
<1>12. g[s \ {x}] = h[s \ {x}]
  BY <1>4, <1>10, <1>11
<1> QED BY <1>5, <1>8, <1>9, <1>12

\* The sum with one more element.
LEMMA TotalMore ==
    ASSUME NEW D, NEW f \in [D -> Nat], NEW S \in SUBSET D, NEW y \in D, y \notin S,
           NEW g, Total(g, f, S)
    PROVE  \E h : Total(h, f, S \cup {y})
<1> DEFINE h == [s \in SUBSET (S \cup {y}) |-> IF y \in s THEN f[y] + g[s \ {y}] ELSE g[s]]
<1>1. f[y] \in Nat /\ \A x \in S : f[x] \in Nat
  OBVIOUS
<1>2. \A s \in SUBSET S : g[s] \in Nat
  BY DEF Total
<1>3. \A s \in SUBSET (S \cup {y}) : s \ {y} \in SUBSET S /\ (y \notin s => s \in SUBSET S /\ s \ {y} = s)
  OBVIOUS
<1>4. h \in [SUBSET (S \cup {y}) -> Nat]
  BY <1>1, <1>2, <1>3
<1>5. h[{}] = 0
  BY DEF Total
<1>6. ASSUME NEW s \in SUBSET (S \cup {y}), NEW x \in s
      PROVE  h[s] = f[x] + h[s \ {x}]
  <2>1. h[s] = IF y \in s THEN f[y] + g[s \ {y}] ELSE g[s]
    OBVIOUS
  <2>2. h[s \ {x}] = IF y \in s \ {x} THEN f[y] + g[(s \ {x}) \ {y}] ELSE g[s \ {x}]
    OBVIOUS
  <2> HIDE DEF h
  <2>3. CASE x = y
    BY <2>1, <2>2, <2>3
  <2>4. CASE x # y /\ y \notin s
    <3>1. g[s] = f[x] + g[s \ {x}]
      BY <1>3, <2>4 DEF Total
    <3> QED BY <2>1, <2>2, <2>4, <3>1
  <2>5. CASE x # y /\ y \in s
    <3>1. x \in s \ {y} /\ s \ {y} \in SUBSET S /\ (s \ {y}) \ {x} \in SUBSET S /\ x \in S
      BY <2>5
    <3>2. g[s \ {y}] = f[x] + g[(s \ {y}) \ {x}]
      BY <3>1 DEF Total
    <3>3. (s \ {x}) \ {y} = (s \ {y}) \ {x}
      OBVIOUS
    <3>4. h[s] = f[y] + (f[x] + g[(s \ {y}) \ {x}])
      BY <2>1, <2>5, <3>2
    <3>5. h[s \ {x}] = f[y] + g[(s \ {y}) \ {x}]
      BY <2>2, <2>5, <3>3
    <3>6. f[x] \in Nat /\ f[y] \in Nat /\ g[(s \ {y}) \ {x}] \in Nat
      BY <1>1, <1>2, <3>1
    <3> QED BY <3>4, <3>5, <3>6
  <2> QED BY <2>3, <2>4, <2>5
<1>7. Total(h, f, S \cup {y})
  BY <1>4, <1>5, <1>6 DEF Total
<1> QED BY <1>7

\* There is a sum of finitely many numbers.
LEMMA TotalExists ==
    ASSUME NEW D, IsFiniteSet(D), NEW f \in [D -> Nat]
    PROVE  \E g : Total(g, f, D)
<1> DEFINE Has(S) == \E g : Total(g, f, S)
           T == {n \in Nat : \E S \in SUBSET D : Cardinality(S) = n /\ ~Has(S)}
<1>1. SUFFICES ASSUME ~Has(D) PROVE FALSE
  OBVIOUS
<1>2. \A S \in SUBSET D : IsFiniteSet(S) /\ Cardinality(S) \in Nat
  BY FS_Subset, FS_CardinalityType
<1>3. T \in SUBSET Nat /\ T # {}
  <2>1. Cardinality(D) \in T
    BY <1>1, <1>2
  <2> QED BY <2>1
<1>4. PICK n \in T : \A m \in T : ~(m < n)
  <2> HIDE DEF T
  <2> QED BY <1>3, LeastOf
<1>5. PICK S \in SUBSET D : Cardinality(S) = n /\ ~Has(S)
  OBVIOUS
<1>6. S # {}
  <2> DEFINE z == [s \in SUBSET {} |-> 0]
  <2>1. z \in [SUBSET {} -> Nat] /\ z[{}] = 0
    OBVIOUS
  <2>2. \A s \in SUBSET {} : s = {}
    OBVIOUS
  <2> HIDE DEF z
  <2>3. Total(z, f, {})
    BY <2>1, <2>2 DEF Total
  <2> QED BY <1>5, <2>3
<1>7. PICK y \in S : TRUE
  BY <1>6
<1>8. S \ {y} \in SUBSET D /\ Cardinality(S \ {y}) \in Nat /\ Cardinality(S \ {y}) < n
  BY <1>2, <1>5, <1>7, FS_RemoveElement
<1>9. PICK g : Total(g, f, S \ {y})
  BY <1>4, <1>8
<1>10. \E h : Total(h, f, (S \ {y}) \cup {y})
  <2> HIDE DEF Has, T
  <2> QED BY <1>7, <1>8, <1>9, TotalMore
<1>11. (S \ {y}) \cup {y} = S
  BY <1>7
<1> QED BY <1>5, <1>10, <1>11

\* The sum is what any order gives.
LEMMA SumIsTotal ==
    ASSUME NEW D, IsFiniteSet(D), NEW f \in [D -> Nat], NEW g, Total(g, f, D)
    PROVE  SumFunction(f) = g[D]
<1> DEFINE c == CHOOSE h : Folded(h, f, D)
<1>1. Folded(g, f, D)
  BY TotalFolds
<1>2. Folded(c, f, D)
  BY <1>1
<1>3. SumFunction(f) = c[D]
  BY SumIs DEF SumFunction
<1> HIDE DEF c
<1>4. g[D] = c[D]
  BY <1>1, <1>2, FoldsAgree
<1> QED BY <1>3, <1>4

-----------------------------------------------------------------------------
\* The sum of finitely many numbers is one, and none of them is greater.
LEMMA SumType ==
    ASSUME NEW D, IsFiniteSet(D), NEW f \in [D -> Nat]
    PROVE  SumFunction(f) \in Nat /\ \A k \in D : f[k] <= SumFunction(f)
<1>1. PICK g : Total(g, f, D)
  BY TotalExists
<1>2. SumFunction(f) = g[D]
  BY <1>1, SumIsTotal
<1>3. g[D] \in Nat
  BY <1>1 DEF Total
<1>4. ASSUME NEW k \in D PROVE f[k] <= g[D]
  <2>1. g[D] = f[k] + g[D \ {k}]
    BY <1>1 DEF Total
  <2>2. g[D \ {k}] \in Nat /\ f[k] \in Nat
    BY <1>1 DEF Total
  <2> QED BY <2>1, <2>2
<1> QED BY <1>2, <1>3, <1>4

\* A change of one number changes the sum by as much.
LEMMA SumChanges ==
    ASSUME NEW D, IsFiniteSet(D), NEW f \in [D -> Nat], NEW k \in D, NEW e \in [D -> Nat],
           \A j \in D : j # k => e[j] = f[j]
    PROVE  SumFunction(e) = SumFunction(f) - f[k] + e[k]
<1>1. PICK g : Total(g, f, D)
  BY TotalExists
<1>2. PICK h : Total(h, e, D)
  BY TotalExists
<1>3. g[D] = f[k] + g[D \ {k}] /\ h[D] = e[k] + h[D \ {k}]
  BY <1>1, <1>2 DEF Total
<1>4. g[D \ {k}] = h[D \ {k}]
  <2>1. Folded(g, f, D) /\ Folded(h, e, D)
    BY <1>1, <1>2, TotalFolds
  <2>2. D \ {k} \in SUBSET D /\ \A x \in D \ {k} : f[x] = e[x]
    OBVIOUS
  <2> QED BY <2>1, <2>2, FoldsAgree
<1>5. g[D \ {k}] \in Nat /\ f[k] \in Nat /\ e[k] \in Nat
  BY <1>1 DEF Total
<1>6. SumFunction(f) = g[D] /\ SumFunction(e) = h[D]
  BY <1>1, <1>2, SumIsTotal
<1> QED BY <1>3, <1>4, <1>5, <1>6

\* The sum of nothing but zeros.
LEMMA SumOfZeros ==
    ASSUME NEW D, IsFiniteSet(D), NEW f \in [D -> Nat], \A k \in D : f[k] = 0
    PROVE  SumFunction(f) = 0
<1> DEFINE g == [s \in SUBSET D |-> 0]
<1>1. g \in [SUBSET D -> Nat] /\ g[{}] = 0
  OBVIOUS
<1>2. \A s \in SUBSET D : \A x \in s : g[s] = f[x] + g[s \ {x}]
  OBVIOUS
<1>3. g[D] = 0
  OBVIOUS
<1> HIDE DEF g
<1>4. Total(g, f, D)
  BY <1>1, <1>2 DEF Total
<1> QED BY <1>3, <1>4, SumIsTotal
=============================================================================
