-------------------------- MODULE AnalyticsProofs --------------------------
(***************************************************************************)
(* Proofs about Analytics, for every value of its constants: types, what   *)
(* the stored rows say, that no day is missed, and what requests count.    *)
(*                                                                         *)
(* One invariant, AInv, has a part for the facts (tickets, messages, times *)
(* and their samples), the rows, the schedule of the job, the days it has  *)
(* handled, and the requests.  Grows says what any step may do to the      *)
(* facts; that a row stays right, that a day stays handled and that a      *)
(* count stays a bound all follow from it.  Sums come first: what a sum    *)
(* over a finite set is when an element is added, left out or counted.     *)
(***************************************************************************)
EXTENDS Analytics, FiniteSetTheorems, WellFoundedInduction, TLAPS

USE ConstantsAssumption, NoneAssumption

-----------------------------------------------------------------------------
(***************************************************************************)
(* Induction, in the form the provers can use: over a set, not a predicate.*)
(***************************************************************************)

(* Of natural numbers one is the smallest. *)
LEMMA SmallestOf ==
  ASSUME NEW S \in SUBSET Nat, S # {}
  PROVE  \E n \in S : \A m \in S : n <= m
<1> DEFINE R == OpToRel(<, Nat)
<1>1. IsWellFoundedOn(R, Nat)
  BY NatLessThanWellFounded
<1>2. \A m, n \in Nat : <<m, n>> \in R <=> m < n
  BY DEF OpToRel
<1> HIDE DEF R
<1>3. PICK n \in S : \A m \in S : ~ (<<m, n>> \in R)
  BY <1>1, WFMin
<1>4. \A m \in S : m \in Nat /\ n \in Nat /\ ~ (m < n)
  BY <1>2, <1>3
<1>5. \A m \in S : n <= m
  BY <1>4
<1> QED
  BY <1>5

(* A set with 0 and the successors of its members is all of Nat. *)
LEMMA InductionOn ==
  ASSUME NEW S \in SUBSET Nat, 0 \in S, \A n \in S : n + 1 \in S
  PROVE  S = Nat
<1> SUFFICES ASSUME S # Nat PROVE FALSE
  OBVIOUS
<1>1. PICK n \in Nat \ S : \A m \in Nat \ S : n <= m
  BY SmallestOf
<1>2. n # 0 /\ n - 1 \in Nat /\ n - 1 \in S
  BY <1>1
<1>3. n - 1 + 1 = n
  OBVIOUS
<1> QED
  BY <1>1, <1>2, <1>3

LEMMA OneLess ==
  ASSUME NEW S, IsFiniteSet(S), NEW A \in SUBSET S, NEW x \in A
  PROVE  A \ {x} \in SUBSET S /\ Cardinality(A) \in Nat /\ Cardinality(A \ {x}) = Cardinality(A) - 1
<1>1. IsFiniteSet(A)
  BY FS_Subset
<1>2. Cardinality(A) \in Nat
  BY <1>1, FS_CardinalityType
<1>3. Cardinality(A \ {x}) = Cardinality(A) - 1
  BY <1>1, FS_RemoveElement
<1> QED
  BY <1>2, <1>3

(* A family of subsets with {} and, with a set, what it is one element     *)
(* larger, has all subsets of a finite set.                                *)
LEMMA SubsetInduction ==
  ASSUME NEW S, IsFiniteSet(S), NEW F, {} \in F,
         \A A \in SUBSET S : A \in F => \A x \in S \ A : A \union {x} \in F
  PROVE  SUBSET S \subseteq F
<1> DEFINE N == {n \in Nat : \A A \in SUBSET S : Cardinality(A) = n => A \in F}
<1>1. \A A \in SUBSET S : IsFiniteSet(A) /\ Cardinality(A) \in Nat
  BY FS_Subset, FS_CardinalityType
<1>2. 0 \in N
  BY <1>1, FS_EmptySet
<1>3. ASSUME NEW n \in N PROVE n + 1 \in N
  <2>0. n \in Nat
    BY <1>3
  <2>1. SUFFICES ASSUME NEW A \in SUBSET S, Cardinality(A) = n + 1 PROVE A \in F
    BY <1>3
  <2>2. A # {}
    BY <1>1, <2>0, <2>1, FS_EmptySet
  <2>3. PICK x \in A : TRUE
    BY <2>2
  <2>4. A \ {x} \in SUBSET S /\ Cardinality(A \ {x}) = n
    BY <1>1, <2>0, <2>1, OneLess
  <2>5. A \ {x} \in F
    BY <2>4, <1>3
  <2>6. x \in S \ (A \ {x}) /\ (A \ {x}) \union {x} = A
    OBVIOUS
  <2> QED
    BY <2>4, <2>5, <2>6
<1>4. N = Nat
  <2> HIDE DEF N
  <2>1. N \in SUBSET Nat
    BY DEF N
  <2> QED
    BY <1>2, <1>3, <2>1, InductionOn
<1> QED
  BY <1>1, <1>4

-----------------------------------------------------------------------------
(* Sums: SumFunctionOnSet(f, S) adds f[x] for the x \in S. *)

One(s) == CHOOSE x \in s : TRUE

(* g gives the sum for every subset of S, taking one element at a time. *)
Adds(f, S, g) ==
  g = [s \in SUBSET S |-> IF s = {} THEN 0 ELSE f[One(s)] + g[s \ {One(s)}]]

(* The sums of the subsets with up to n elements. *)
AddsTo(f, S, g, n) ==
  \A s \in SUBSET S : Cardinality(s) <= n =>
    g[s] = IF s = {} THEN 0 ELSE f[One(s)] + g[s \ {One(s)}]

LEMMA OneIsIn ==
  ASSUME NEW s, s # {}
  PROVE  One(s) \in s
BY DEF One

(* The recursion is well founded: there are such functions. *)
LEMMA AddsExists ==
  ASSUME NEW f, NEW S, IsFiniteSet(S)
  PROVE  \E g : Adds(f, S, g)
<1> DEFINE N == {n \in Nat : \E g : g = [s \in SUBSET S |-> g[s]] /\ AddsTo(f, S, g, n)}
<1>1. \A A \in SUBSET S : IsFiniteSet(A) /\ Cardinality(A) \in Nat
  BY FS_Subset, FS_CardinalityType
<1>2. 0 \in N
  <2> DEFINE g == [s \in SUBSET S |-> 0]
  <2>1. AddsTo(f, S, g, 0)
    BY <1>1, FS_EmptySet DEF AddsTo
  <2>2. g = [s \in SUBSET S |-> g[s]]
    OBVIOUS
  <2> QED
    BY <2>1, <2>2
<1>3. ASSUME NEW n \in N PROVE n + 1 \in N
  <2>0. n \in Nat
    BY <1>3
  <2>1. PICK g : g = [s \in SUBSET S |-> g[s]] /\ AddsTo(f, S, g, n)
    BY <1>3
  <2> DEFINE h == [s \in SUBSET S |-> IF Cardinality(s) <= n THEN g[s]
                                      ELSE f[One(s)] + g[s \ {One(s)}]]
  <2>2. h = [s \in SUBSET S |-> h[s]]
    OBVIOUS
  <2>3. AddsTo(f, S, h, n + 1)
    <3> SUFFICES ASSUME NEW s \in SUBSET S, Cardinality(s) <= n + 1
                 PROVE  h[s] = IF s = {} THEN 0 ELSE f[One(s)] + h[s \ {One(s)}]
      BY DEF AddsTo
    <3>1. CASE s = {}
      <4>1. Cardinality(s) <= n
        BY <3>1, <2>0, FS_EmptySet
      <4> QED
        BY <2>1, <3>1, <4>1 DEF AddsTo
    <3>2. CASE s # {}
      <4>1. s \ {One(s)} \in SUBSET S /\ Cardinality(s \ {One(s)}) <= n
        BY <1>1, <2>0, <3>2, OneLess, OneIsIn
      <4>2. h[s \ {One(s)}] = g[s \ {One(s)}]
        BY <4>1
      <4>3. h[s] = f[One(s)] + g[s \ {One(s)}]
        BY <2>1, <3>2 DEF AddsTo
      <4> QED
        BY <3>2, <4>2, <4>3
    <3> QED
      BY <3>1, <3>2
  <2>4. n + 1 \in Nat
    BY <1>3
  <2> HIDE DEF h
  <2> QED
    BY <2>2, <2>3, <2>4
<1>4. Cardinality(S) \in N
  <2> HIDE DEF N
  <2>1. N \in SUBSET Nat
    BY DEF N
  <2>2. N = Nat
    BY <1>2, <1>3, <2>1, InductionOn
  <2> QED
    BY <1>1, <2>2
<1>5. PICK g : g = [s \in SUBSET S |-> g[s]] /\ AddsTo(f, S, g, Cardinality(S))
  BY <1>4
<1>6. \A s \in SUBSET S : Cardinality(s) <= Cardinality(S)
  BY FS_Subset
<1> QED
  BY <1>5, <1>6 DEF Adds, AddsTo

LEMMA SumByAdding ==
  ASSUME NEW f, NEW S, IsFiniteSet(S)
  PROVE  \E g : Adds(f, S, g) /\ SumFunctionOnSet(f, S) = g[S]
<1> DEFINE g == CHOOSE g : g = [s \in SUBSET S |->
                  IF s = {} THEN 0 ELSE f[One(s)] + g[s \ {One(s)}]]
<1>1. Adds(f, S, g)
  <2>1. PICK h : Adds(f, S, h)
    BY AddsExists
  <2>2. \E i : i = [s \in SUBSET S |-> IF s = {} THEN 0 ELSE f[One(s)] + i[s \ {One(s)}]]
    BY <2>1 DEF Adds
  <2> QED
    BY <2>2 DEF Adds
<1>2. SumFunctionOnSet(f, S) = g[S]
  BY DEF SumFunctionOnSet, FoldFunctionOnSet, MapThenFoldSet, One
<1> QED
  BY <1>1, <1>2

(* Whatever set it is defined for, and with functions that agree. *)
LEMMA AddsAgree ==
  ASSUME NEW f, NEW e, NEW S, NEW T, IsFiniteSet(S), T \subseteq S, NEW g, NEW h,
         Adds(f, S, g), Adds(e, T, h), \A x \in T : e[x] = f[x]
  PROVE  g[T] = h[T]
<1> DEFINE N == {n \in Nat : \A s \in SUBSET T : Cardinality(s) = n => g[s] = h[s]}
<1>1. \A A \in SUBSET T : A \in SUBSET S /\ IsFiniteSet(A) /\ Cardinality(A) \in Nat
  BY FS_Subset, FS_CardinalityType
<1>2. 0 \in N
  <2>1. SUFFICES ASSUME NEW s \in SUBSET T, Cardinality(s) = 0 PROVE g[s] = h[s]
    OBVIOUS
  <2>2. s = {}
    BY <1>1, <2>1, FS_EmptySet
  <2> QED
    BY <1>1, <2>2 DEF Adds
<1>3. ASSUME NEW n \in N PROVE n + 1 \in N
  <2>0. n \in Nat
    BY <1>3
  <2>1. SUFFICES ASSUME NEW s \in SUBSET T, Cardinality(s) = n + 1 PROVE g[s] = h[s]
    BY <1>3
  <2>2. s # {}
    BY <1>1, <2>0, <2>1, FS_EmptySet
  <2>3. One(s) \in s /\ One(s) \in T
    BY <2>2, OneIsIn
  <2>4. s \ {One(s)} \in SUBSET T /\ Cardinality(s \ {One(s)}) = n
    BY <1>1, <2>0, <2>1, <2>3, OneLess
  <2>5. g[s \ {One(s)}] = h[s \ {One(s)}]
    BY <2>4, <1>3
  <2>6. g[s] = f[One(s)] + g[s \ {One(s)}]
    BY <1>1, <2>2 DEF Adds
  <2>7. h[s] = e[One(s)] + h[s \ {One(s)}]
    BY <2>2 DEF Adds
  <2> QED
    BY <2>3, <2>5, <2>6, <2>7
<1>4. N = Nat
  <2> HIDE DEF N
  <2>1. N \in SUBSET Nat
    BY DEF N
  <2> QED
    BY <1>2, <1>3, <2>1, InductionOn
<1> QED
  BY <1>1, <1>4

(* The sum over nothing. *)
LEMMA SumEmpty ==
  ASSUME NEW f
  PROVE  SumFunctionOnSet(f, {}) = 0
BY DEF SumFunctionOnSet, FoldFunctionOnSet, MapThenFoldSet

(* Functions that agree on a set have the same sum over it. *)
LEMMA SumSame ==
  ASSUME NEW f, NEW e, NEW S, IsFiniteSet(S), \A x \in S : e[x] = f[x]
  PROVE  SumFunctionOnSet(f, S) = SumFunctionOnSet(e, S)
<1>1. PICK g : Adds(f, S, g) /\ SumFunctionOnSet(f, S) = g[S]
  BY SumByAdding
<1>2. PICK h : Adds(e, S, h) /\ SumFunctionOnSet(e, S) = h[S]
  BY SumByAdding
<1> QED
  BY <1>1, <1>2, AddsAgree

(* What is added last. *)
LEMMA SumStep ==
  ASSUME NEW f, NEW S, IsFiniteSet(S), S # {}
  PROVE  SumFunctionOnSet(f, S) = f[One(S)] + SumFunctionOnSet(f, S \ {One(S)})
<1> DEFINE T == S \ {One(S)}
<1>1. IsFiniteSet(T) /\ T \subseteq S
  BY FS_RemoveElement
<1>2. PICK g : Adds(f, S, g) /\ SumFunctionOnSet(f, S) = g[S]
  BY SumByAdding
<1>3. PICK h : Adds(f, T, h) /\ SumFunctionOnSet(f, T) = h[T]
  BY <1>1, SumByAdding
<1>4. g[T] = h[T]
  <2> HIDE DEF T
  <2> QED
    BY <1>1, <1>2, <1>3, AddsAgree
<1>5. g[S] = f[One(S)] + g[T]
  BY <1>2 DEF Adds
<1> QED
  BY <1>2, <1>3, <1>4, <1>5

(* Sums of natural numbers are natural numbers. *)
LEMMA SumNat ==
  ASSUME NEW f, NEW S, IsFiniteSet(S), \A x \in S : f[x] \in Nat
  PROVE  SumFunctionOnSet(f, S) \in Nat
<1> DEFINE N == {n \in Nat : \A s \in SUBSET S : Cardinality(s) = n => SumFunctionOnSet(f, s) \in Nat}
<1>1. \A A \in SUBSET S : IsFiniteSet(A) /\ Cardinality(A) \in Nat
  BY FS_Subset, FS_CardinalityType
<1>2. 0 \in N
  BY <1>1, FS_EmptySet, SumEmpty
<1>3. ASSUME NEW n \in N PROVE n + 1 \in N
  <2>0. n \in Nat
    BY <1>3
  <2>1. SUFFICES ASSUME NEW s \in SUBSET S, Cardinality(s) = n + 1
                 PROVE  SumFunctionOnSet(f, s) \in Nat
    BY <1>3
  <2>2. s # {}
    BY <1>1, <2>0, <2>1, FS_EmptySet
  <2>3. One(s) \in s /\ f[One(s)] \in Nat
    BY <2>2, OneIsIn
  <2>4. s \ {One(s)} \in SUBSET S /\ Cardinality(s \ {One(s)}) = n
    <3>1. s \ {One(s)} \in SUBSET S /\ Cardinality(s \ {One(s)}) = Cardinality(s) - 1
      BY <2>1, <2>3, OneLess
    <3> QED
      BY <2>0, <2>1, <3>1
  <2>5. SumFunctionOnSet(f, s \ {One(s)}) \in Nat
    BY <2>4, <1>3
  <2>6. SumFunctionOnSet(f, s) = f[One(s)] + SumFunctionOnSet(f, s \ {One(s)})
    BY <1>1, <2>2, SumStep
  <2> QED
    BY <2>3, <2>5, <2>6
<1>4. N = Nat
  <2> HIDE DEF N
  <2>1. N \in SUBSET Nat
    BY DEF N
  <2> QED
    BY <1>2, <1>3, <2>1, InductionOn
<1> QED
  BY <1>1, <1>4

(* Any element can be the one added last. *)
LEMMA SumRemove ==
  ASSUME NEW f, NEW S, IsFiniteSet(S), \A x \in S : f[x] \in Nat, NEW x \in S
  PROVE  SumFunctionOnSet(f, S) = f[x] + SumFunctionOnSet(f, S \ {x})
<1> DEFINE N == {n \in Nat : \A s \in SUBSET S : Cardinality(s) = n =>
                   \A y \in s : SumFunctionOnSet(f, s) = f[y] + SumFunctionOnSet(f, s \ {y})}
<1>1. \A A \in SUBSET S : IsFiniteSet(A) /\ Cardinality(A) \in Nat
                          /\ SumFunctionOnSet(f, A) \in Nat
  BY FS_Subset, FS_CardinalityType, SumNat
<1>2. 0 \in N
  <2>1. \A s \in SUBSET S : Cardinality(s) = 0 => s = {}
    BY <1>1, FS_EmptySet
  <2> QED
    BY <2>1
<1>3. ASSUME NEW n \in N PROVE n + 1 \in N
  <2>0. n \in Nat
    BY <1>3
  <2>1. SUFFICES ASSUME NEW s \in SUBSET S, Cardinality(s) = n + 1, NEW y \in s
                 PROVE  SumFunctionOnSet(f, s) = f[y] + SumFunctionOnSet(f, s \ {y})
    BY <1>3
  <2> DEFINE o == One(s)
  <2>2. o \in s /\ f[o] \in Nat /\ f[y] \in Nat /\ IsFiniteSet(s) /\ s # {}
    BY <1>1, <2>1, OneIsIn
  <2>3. SumFunctionOnSet(f, s) = f[o] + SumFunctionOnSet(f, s \ {o})
    BY <2>2, SumStep
  <2> HIDE DEF o
  <2>4. CASE y = o
    BY <2>3, <2>4
  <2>5. CASE y # o
    <3>1. s \ {o} \in SUBSET S /\ Cardinality(s \ {o}) = n /\ y \in s \ {o}
      BY <1>1, <2>0, <2>1, <2>2, <2>5, OneLess
    <3>2. s \ {y} \in SUBSET S /\ Cardinality(s \ {y}) = n /\ o \in s \ {y}
      BY <1>1, <2>0, <2>1, <2>2, <2>5, OneLess
    <3>3. SumFunctionOnSet(f, s \ {o}) = f[y] + SumFunctionOnSet(f, (s \ {o}) \ {y})
      BY <3>1, <1>3
    <3>4. SumFunctionOnSet(f, s \ {y}) = f[o] + SumFunctionOnSet(f, (s \ {y}) \ {o})
      BY <3>2, <1>3
    <3>5. (s \ {y}) \ {o} = (s \ {o}) \ {y} /\ (s \ {o}) \ {y} \in SUBSET S
      OBVIOUS
    <3>6. SumFunctionOnSet(f, (s \ {o}) \ {y}) \in Nat
      BY <1>1, <3>5
    <3> QED
      BY <2>2, <2>3, <3>3, <3>4, <3>5, <3>6
  <2> QED
    BY <2>4, <2>5
<1>4. N = Nat
  <2> HIDE DEF N
  <2>1. N \in SUBSET Nat
    BY DEF N
  <2> QED
    BY <1>2, <1>3, <2>1, InductionOn
<1> QED
  BY <1>1, <1>4

LEMMA SumAdd ==
  ASSUME NEW f, NEW S, IsFiniteSet(S), NEW x, x \notin S, f[x] \in Nat, \A y \in S : f[y] \in Nat
  PROVE  SumFunctionOnSet(f, S \union {x}) = f[x] + SumFunctionOnSet(f, S)
<1> DEFINE T == S \union {x}
<1>1. IsFiniteSet(T) /\ x \in T /\ T \ {x} = S /\ \A y \in T : f[y] \in Nat
  BY FS_AddElement
<1> HIDE DEF T
<1>2. SumFunctionOnSet(f, T) = f[x] + SumFunctionOnSet(f, T \ {x})
  BY <1>1, SumRemove
<1> QED
  BY <1>1, <1>2 DEF T

(* The classes of a partition add up to the whole. *)
Class(X, class, d) == {t \in X : class[t] = d}
Classes(X, class, D) == {t \in X : class[t] \in D}

LEMMA SumOfClasses ==
  ASSUME NEW X, IsFiniteSet(X), NEW D, IsFiniteSet(D), NEW class, NEW f,
         \A d \in D : f[d] = Cardinality(Class(X, class, d))
  PROVE  SumFunctionOnSet(f, D) = Cardinality(Classes(X, class, D))
<1> DEFINE Of(E) == {t \in X : class[t] \in E}
           F == {E \in SUBSET D : SumFunctionOnSet(f, E) = Cardinality(Of(E))}
<1>1. \A E : IsFiniteSet(Of(E)) /\ Cardinality(Of(E)) \in Nat
  <2>1. \A E : Of(E) \in SUBSET X
    OBVIOUS
  <2> QED
    BY <2>1, FS_Subset, FS_CardinalityType
<1>2. {} \in F
  <2>1. Of({}) = {}
    OBVIOUS
  <2> QED
    BY <2>1, SumEmpty, FS_EmptySet
<1>3. ASSUME NEW A \in SUBSET D, A \in F, NEW x \in D \ A PROVE A \union {x} \in F
  <2> DEFINE C == {t \in X : class[t] = x}
  <2>1. \A d \in D : f[d] \in Nat
    <3>1. \A d \in D : Class(X, class, d) \in SUBSET X
      BY DEF Class
    <3> QED
      BY <3>1, FS_Subset, FS_CardinalityType
  <2>2. IsFiniteSet(A) /\ A \subseteq D
    BY FS_Subset
  <2>3. SumFunctionOnSet(f, A \union {x}) = f[x] + SumFunctionOnSet(f, A)
    <3>1. \A y \in A : f[y] \in Nat
      BY <2>1
    <3> QED
      BY <2>1, <2>2, <3>1, SumAdd
  <2>4. Cardinality(Of(A \union {x})) = Cardinality(Of(A)) + Cardinality(C)
    <3>1. Of(A \union {x}) = Of(A) \union C /\ Of(A) \intersect C = {}
      BY <1>3
    <3>2. IsFiniteSet(C) /\ Cardinality(C) \in Nat
      <4>1. C \in SUBSET X
        OBVIOUS
      <4> QED
        BY <4>1, FS_Subset, FS_CardinalityType
    <3>0. \A n, k \in Nat : n + k - 0 = n + k
      OBVIOUS
    <3> HIDE DEF C, Of
    <3>3. Cardinality(Of(A) \union C)
            = Cardinality(Of(A)) + Cardinality(C) - Cardinality(Of(A) \intersect C)
      BY <1>1, <3>2, FS_Union
    <3>4. Cardinality(Of(A)) \in Nat
      BY <1>1
    <3>5. Cardinality(Of(A) \intersect C) = 0
      BY <3>1, FS_EmptySet
    <3> QED
      BY <3>0, <3>1, <3>2, <3>3, <3>4, <3>5
  <2>5. f[x] = Cardinality(C) /\ f[x] \in Nat
    BY <2>1 DEF Class
  <2>6. SumFunctionOnSet(f, A) = Cardinality(Of(A))
    BY <1>3
  <2>7. SumFunctionOnSet(f, A \union {x}) = Cardinality(Of(A \union {x}))
    <3> HIDE DEF C, Of
    <3> QED
      BY <1>1, <2>3, <2>4, <2>5, <2>6
  <2> QED
    BY <2>2, <2>7
<1>4. D \in F
  <2> HIDE DEF F
  <2> QED
    BY <1>2, <1>3, SubsetInduction
<1> QED
  BY <1>4 DEF Classes

(* A sum lies between the number of terms times the smallest and the       *)
(* largest one.                                                            *)
LEMMA SumBounds ==
  ASSUME NEW f, NEW S, IsFiniteSet(S), NEW lo \in Nat, NEW hi \in Nat,
         \A x \in S : f[x] \in Nat /\ lo <= f[x] /\ f[x] <= hi
  PROVE  Cardinality(S) * lo <= SumFunctionOnSet(f, S) /\ SumFunctionOnSet(f, S) <= Cardinality(S) * hi
<1> DEFINE F == {A \in SUBSET S : Cardinality(A) * lo <= SumFunctionOnSet(f, A)
                                  /\ SumFunctionOnSet(f, A) <= Cardinality(A) * hi}
<1>1. {} \in F
  BY SumEmpty, FS_EmptySet
<1>2. ASSUME NEW A \in SUBSET S, A \in F, NEW x \in S \ A PROVE A \union {x} \in F
  <2>1. IsFiniteSet(A) /\ Cardinality(A) \in Nat /\ \A y \in A : f[y] \in Nat
    BY FS_Subset, FS_CardinalityType
  <2>2. Cardinality(A \union {x}) = Cardinality(A) + 1
    BY <2>1, FS_AddElement
  <2>3. SumFunctionOnSet(f, A \union {x}) = f[x] + SumFunctionOnSet(f, A)
    BY <2>1, SumAdd
  <2>4. SumFunctionOnSet(f, A) \in Nat
    BY <2>1, SumNat
  <2>5. \A n, k \in Nat : (n + 1) * k = n * k + k /\ n * k \in Nat
    OBVIOUS
  <2>6. \A n, k, s, v \in Nat : (n * k <= s /\ k <= v => (n + 1) * k <= v + s)
                                /\ (s <= n * k /\ v <= k => v + s <= (n + 1) * k)
    BY <2>5
  <2> QED
    BY <1>2, <2>1, <2>2, <2>3, <2>4, <2>6
<1>3. S \in F
  <2> HIDE DEF F
  <2> QED
    BY <1>1, <1>2, SubsetInduction
<1> QED
  BY <1>3

-----------------------------------------------------------------------------
(* The calendar. *)

LEMMA DayOf ==
  ASSUME NEW x \in Nat
  PROVE  Day(x) \in Nat /\ StartOfDay(Day(x)) <= x /\ x < StartOfDay(Day(x) + 1)
BY DEF Day, StartOfDay

LEMMA DayStarts ==
  ASSUME NEW d \in Nat
  PROVE  /\ StartOfDay(d) \in Nat /\ StartOfDay(d + 1) = StartOfDay(d) + TicksPerDay
         /\ StartOfDay(0) = 0 /\ TicksPerDay \in Nat /\ 2 <= TicksPerDay
BY DEF StartOfDay

LEMMA DaysInOrder ==
  ASSUME NEW d \in Nat, NEW e \in Nat, d < e
  PROVE  StartOfDay(d + 1) <= StartOfDay(e)
BY Z3 DEF StartOfDay

LEMMA DayIs ==
  ASSUME NEW x \in Nat, NEW d \in Nat, StartOfDay(d) <= x, x < StartOfDay(d + 1)
  PROVE  Day(x) = d
<1>1. /\ Day(x) \in Nat /\ StartOfDay(Day(x)) <= x /\ x < StartOfDay(Day(x) + 1)
  BY DayOf
<1>2. /\ StartOfDay(d) \in Nat /\ StartOfDay(d + 1) \in Nat
      /\ StartOfDay(Day(x)) \in Nat /\ StartOfDay(Day(x) + 1) \in Nat
  BY <1>1, DayStarts
<1>3. ~ (Day(x) < d) /\ ~ (d < Day(x))
  BY <1>1, <1>2, DaysInOrder
<1> QED
  BY <1>1, <1>3

LEMMA InDayIs ==
  ASSUME NEW x \in Nat, NEW d \in Nat
  PROVE  InDay(x, d) <=> Day(x) = d
BY DayOf, DayIs DEF InDay

LEMMA DaysGrow ==
  ASSUME NEW x \in Nat, NEW y \in Nat, x <= y
  PROVE  Day(x) \in Nat /\ Day(y) \in Nat /\ Day(x) <= Day(y)
<1>1. /\ Day(x) \in Nat /\ StartOfDay(Day(x)) <= x
      /\ Day(y) \in Nat /\ y < StartOfDay(Day(y) + 1)
  BY DayOf
<1>2. StartOfDay(Day(x)) \in Nat /\ StartOfDay(Day(y) + 1) \in Nat
  BY <1>1, DayStarts
<1>3. ~ (Day(y) < Day(x))
  BY <1>1, <1>2, DaysInOrder
<1> QED
  BY <1>1, <1>3

LEMMA TickDay ==
  ASSUME NEW x \in Ticks
  PROVE  x \in Nat /\ Day(x) \in Days /\ Day(x) \in Nat
<1>1. x \in Nat /\ MaxTick \in Nat /\ x <= MaxTick
  BY DEF Ticks
<1> QED
  BY <1>1, DaysGrow DEF Days

LEMMA DaysNat == \A d \in Days : d \in Nat
<1>1. Day(MaxTick) \in Nat
  BY DayOf
<1> QED
  BY <1>1 DEF Days

(* The next tick is of the same day, or the first of the next one. *)
LEMMA NextTick ==
  ASSUME NEW x \in Nat
  PROVE  /\ Day(x) \in Nat
         /\ \/ Day(x + 1) = Day(x)
            \/ Day(x + 1) = Day(x) + 1 /\ x + 1 = StartOfDay(Day(x) + 1)
<1> DEFINE d == Day(x)
<1>1. d \in Nat /\ StartOfDay(d) <= x /\ x < StartOfDay(d + 1)
  BY DayOf
<1> HIDE DEF d
<1>2. /\ StartOfDay(d) \in Nat /\ StartOfDay(d + 1) \in Nat /\ StartOfDay((d + 1) + 1) \in Nat
      /\ StartOfDay((d + 1) + 1) = StartOfDay(d + 1) + TicksPerDay /\ TicksPerDay \in Nat /\ 2 <= TicksPerDay
  BY <1>1, DayStarts
<1>3. CASE x + 1 < StartOfDay(d + 1)
  <2>1. StartOfDay(d) <= x + 1 /\ x + 1 \in Nat
    BY <1>1, <1>2
  <2>2. Day(x + 1) = d
    BY <1>1, <1>3, <2>1, DayIs
  <2> QED
    BY <1>1, <2>2 DEF d
<1>4. CASE ~ (x + 1 < StartOfDay(d + 1))
  <2>1. x + 1 = StartOfDay(d + 1) /\ x + 1 \in Nat /\ d + 1 \in Nat
    BY <1>1, <1>2, <1>4
  <2>2. StartOfDay(d + 1) <= x + 1 /\ x + 1 < StartOfDay((d + 1) + 1)
    BY <1>2, <2>1
  <2>3. Day(x + 1) = d + 1
    BY <2>1, <2>2, DayIs
  <2> QED
    BY <1>1, <2>1, <2>3 DEF d
<1> QED
  BY <1>3, <1>4

(* The 01:00 to come is not over, and stays the same until it is reached. *)
LEMMA OneAM ==
  ASSUME NEW x \in Nat, 1 <= x
  PROVE  /\ NextOneAM(x) \in Nat /\ TicksPerDay < NextOneAM(x)
         /\ NextOneAM(x) = x + 1 \/ NextOneAM(x + 1) = NextOneAM(x)
         /\ x <= StartOfDay(Day(x)) => NextOneAM(x) = x + 1
<1> DEFINE d == Day(x)
<1>1. d \in Nat /\ StartOfDay(d) <= x /\ x < StartOfDay(d + 1)
  BY DayOf
<1>2. d = Day(x)
  OBVIOUS
<1> HIDE DEF d
<1>3. /\ StartOfDay(d) \in Nat /\ StartOfDay(d + 1) \in Nat
      /\ StartOfDay(d + 1) = StartOfDay(d) + TicksPerDay /\ TicksPerDay \in Nat /\ 2 <= TicksPerDay
      /\ StartOfDay(0) = 0
  BY <1>1, DayStarts
<1>4. TicksPerDay <= StartOfDay(d + 1) /\ (d # 0 => TicksPerDay <= StartOfDay(d))
  <2>1. StartOfDay(0 + 1) = TicksPerDay
    BY <1>3, DayStarts
  <2>2. d # 0 => StartOfDay(0 + 1) <= StartOfDay(d)
    BY <1>1, DaysInOrder
  <2> QED
    BY <1>3, <2>1, <2>2
<1>5. CASE x < StartOfDay(d) + 1
  <2>1. NextOneAM(x) = StartOfDay(d) + 1
    <3>1. d + 0 = d
      BY <1>1
    <3> QED
      BY <1>2, <1>5, <3>1 DEF NextOneAM
  <2>2. d # 0 /\ x = StartOfDay(d)
    BY <1>1, <1>3, <1>5
  <2> QED
    BY <1>3, <1>4, <2>1, <2>2
<1>6. CASE ~ (x < StartOfDay(d) + 1)
  <2>1. NextOneAM(x) = StartOfDay(d + 1) + 1
    BY <1>2, <1>6 DEF NextOneAM
  <2>2. NextOneAM(x + 1) = StartOfDay(d + 1) + 1
    <3>1. CASE Day(x + 1) = d
      BY <1>1, <1>3, <1>6, <3>1 DEF NextOneAM
    <3>2. CASE Day(x + 1) = d + 1 /\ x + 1 = StartOfDay(d + 1)
      <4>1. (d + 1) + 0 = d + 1 /\ x + 1 < StartOfDay(d + 1) + 1
        BY <1>1, <1>3, <3>2
      <4> QED
        BY <3>2, <4>1 DEF NextOneAM
    <3> QED
      BY <1>2, <3>1, <3>2, NextTick
  <2>3. ~ (x <= StartOfDay(d))
    BY <1>3, <1>6
  <2> QED
    BY <1>2, <1>3, <1>4, <2>1, <2>2, <2>3
<1> QED
  BY <1>5, <1>6

-----------------------------------------------------------------------------
(* What is inductive. *)

Exists(c) == born[c] # None

(* The tickets of a chat created on days of D. *)
OpenedOn(c, D) == Cardinality({t \in TicketsOf(c) : Day(ticket[t].createdAt) \in D})

(* The column of a ticket whose times a statistic is about. *)
TimeOf == [ticketsClosed |-> "closedAt", avgFirstResponseSec |-> "firstResponseAt",
           avgResolutionSec |-> "resolvedAt"]

(* Tickets come after their chat, messages after their ticket, and every   *)
(* time a ticket has is a sample.                                          *)
FactInv ==
  /\ 1 <= now
  /\ \A c \in Chats : Exists(c) => born[c] <= Day(now)
  /\ \A t \in Tickets : ticket[t] # None =>
       /\ ticket[t].createdAt <= now
       /\ Exists(ticket[t].chat) /\ born[ticket[t].chat] <= Day(ticket[t].createdAt)
       /\ \A f \in DOMAIN TimeOf :
            LET at == ticket[t][TimeOf[f]]
            IN  at # None => /\ ticket[t].createdAt <= at
                             /\ [field |-> f, ticket |-> t, at |-> at,
                                 took |-> at - ticket[t].createdAt] \in samples[ticket[t].chat]
  /\ \A t \in Tickets : \A dir \in {"in", "out"} : \A d \in Days :
       /\ messages[t][dir][d] <= writes
       /\ ticket[t] = None => messages[t][dir][d] = 0

(* What a row says of a past day of a chat. *)
Final(c, d, row) ==
  /\ row.ticketsOpened = OpenedOn(c, {d})
  /\ row.messagesIn = MessageCount(c, "in", d)
  /\ row.messagesOut = MessageCount(c, "out", d)

SampledOn(c, d, f) == {x \in samples[c] : x.field = f /\ Day(x.at) = d}

Bracketed(c, d, row) ==
  /\ row.ticketsClosed \in Nat
  /\ Computed("ticketsClosed", c, d) <= row.ticketsClosed
  /\ row.ticketsClosed <= Cardinality({x.ticket : x \in SampledOn(c, d, "ticketsClosed")})

MeanRight(c, d, f, mean) ==
  IF mean = None THEN {t \in TicketsOf(c) : InDay(ticket[t][TimeOf[f]], d)} = {}
  ELSE /\ \E x \in SampledOn(c, d, f) : x.took <= mean
       /\ \E x \in SampledOn(c, d, f) : mean <= x.took

RowRight(c, d, row) ==
  /\ Final(c, d, row)
  /\ Bracketed(c, d, row)
  /\ MeanRight(c, d, "avgFirstResponseSec", row.avgFirstResponseSec)
  /\ MeanRight(c, d, "avgResolutionSec", row.avgResolutionSec)

(* The rows of a chat and day: the stored one, and the one at hand.        *)
KeptRows(c, d) ==
  ({stats[c][d]} \ {None})
    \union (IF run.pc = "store" /\ run.chat = c /\ run.day = d THEN {run.got} ELSE {})

(* They are of past days, and right. *)
StatsInv ==
  /\ \A c \in Chats : \A d \in Days : \A row \in KeptRows(c, d) : d < Day(now) /\ RowRight(c, d, row)
  /\ run.pc # "idle" => run.day < Day(now)

RowsDone(d) == \A c \in Chats : Exists(c) /\ born[c] <= d => stats[c][d] # None

DueRun == \E p \in pending : p <= now

(* A run of day 1 or later is scheduled, and what is left of the one that  *)
(* is at work is known.                                                    *)
ScheduleInv ==
  /\ \A p \in pending : TicksPerDay < p
  /\ DueRun \/ NextOneAM(now) \in pending
  /\ run.pc \in {"chats", "query", "store"} => up
  /\ run.pc = "stalled" => run.day = Day(now) - 1 \/ run.day \in excused
  /\ run.pc \in {"query", "store"} =>
       \A c \in Chats : Exists(c) /\ born[c] <= run.day => c \in run.todo \/ stats[c][run.day] # None

Handled(d) == RowsDone(d) \/ (run.pc # "idle" /\ run.day = d)

(* Which night each day waits for. *)
NightInv ==
  /\ \A d \in Days : d + 2 <= Day(now) /\ d \notin excused => Handled(d)
  /\ \A d \in Days : d + 1 = Day(now) /\ d \notin excused =>
       Handled(d) \/ DueRun \/ now <= StartOfDay(Day(now))

(* What a request has counted so far. *)
PastDays(r) == {d \in r.from .. r.to : d < r.today}

SummaryRight(r) ==
  r.pc \in {"stored", "live", "answered"} =>
    /\ r.chat \in Chats /\ Exists(r.chat)
    /\ r.from <= r.today /\ r.today <= Day(now)
    /\ r.pc = "stored" =>
         /\ r.atStart <= OpenedOn(r.chat, {d \in r.from .. r.to : d <= r.today})
         /\ r.whole => \A d \in PastDays(r) : born[r.chat] <= d => stats[r.chat][d] # None
    /\ r.pc = "live" =>
         /\ r.today <= r.to
         /\ r.sum <= OpenedOn(r.chat, PastDays(r))
         /\ r.whole => r.atStart <= r.sum + OpenedOn(r.chat, {r.today})
    /\ r.pc = "answered" =>
         /\ r.sum <= OpenedOn(r.chat, r.from .. r.to)
         /\ r.whole => r.atStart <= r.sum

OverviewRight(r) ==
  r.pc = "counting" =>
    /\ r.today <= Day(now)
    /\ r.to < r.today => /\ r.ticketsCreated # None => r.ticketsCreated = CreatedIn(r.from, r.to)
                         /\ r.byAgent # None => r.byAgent = CreatedIn(r.from, r.to)

ReqInv == \A q \in Requests : \A r \in {req[q]} : SummaryRight(r) /\ OverviewRight(r)

AInv == TypeOK /\ FactInv /\ StatsInv /\ ScheduleInv /\ NightInv /\ ReqInv

-----------------------------------------------------------------------------
(* Counts, sums and means are numbers. *)

LEMMA Counted ==
  \A S \in SUBSET Tickets : IsFiniteSet(S) /\ Cardinality(S) \in Nat
BY FS_Subset, FS_CardinalityType

LEMMA SubsetCounted ==
  ASSUME NEW S, NEW T \in SUBSET Tickets, S \subseteq T
  PROVE  Cardinality(S) \in Nat /\ Cardinality(T) \in Nat /\ Cardinality(S) <= Cardinality(T)
<1>1. IsFiniteSet(T) /\ Cardinality(T) \in Nat
  BY Counted
<1>2. Cardinality(S) <= Cardinality(T)
  BY <1>1, FS_Subset
<1>3. S \in SUBSET Tickets
  OBVIOUS
<1> QED
  BY <1>1, <1>2, <1>3, Counted

LEMMA OfChat == \A c : TicketsOf(c) \in SUBSET Tickets /\ Existing \in SUBSET Tickets
BY DEF TicketsOf, Existing

LEMMA OpenedNat == \A c, D : OpenedOn(c, D) \in Nat
<1>1. \A c, D : {t \in TicketsOf(c) : Day(ticket[t].createdAt) \in D} \in SUBSET Tickets
  BY OfChat
<1> QED
  BY <1>1, Counted DEF OpenedOn

LEMMA OpenedIs == \A c, from, to : OpenedIn(c, from, to) = OpenedOn(c, from .. to)
BY DEF OpenedIn, OpenedOn

LEMMA CreatedNat == \A from, to : CreatedIn(from, to) \in Nat
<1>1. \A from, to : {t \in Existing : StartOfDay(from) <= ticket[t].createdAt
                                       /\ ticket[t].createdAt <= EndOfDay(to)} \in SUBSET Tickets
  BY OfChat
<1> QED
  BY <1>1, Counted DEF CreatedIn

LEMMA SumOf ==
  ASSUME NEW S, IsFiniteSet(S), NEW f, DOMAIN f = S, \A x \in S : f[x] \in Nat
  PROVE  SumFunction(f) = SumFunctionOnSet(f, S) /\ SumFunction(f) \in Nat
<1>1. SumFunction(f) = SumFunctionOnSet(f, S)
  BY DEF SumFunction
<1> QED
  BY <1>1, SumNat

LEMMA MessagesNat ==
  ASSUME TypeOK, NEW c, NEW dir \in {"in", "out"}, NEW d \in Days
  PROVE  MessageCount(c, dir, d) \in Nat
<1> DEFINE f == [t \in TicketsOf(c) |-> messages[t][dir][d]]
<1>1. \A t \in TicketsOf(c) : f[t] \in Nat
  BY OfChat DEF TypeOK
<1>2. IsFiniteSet(TicketsOf(c)) /\ DOMAIN f = TicketsOf(c)
  BY OfChat, Counted
<1> HIDE DEF f
<1>3. SumFunction(f) \in Nat
  BY <1>1, <1>2, SumOf
<1> QED
  BY <1>3 DEF f, MessageCount

(* A rounded mean lies between the bounds of what it is the mean of. *)
LEMMA Averaged ==
  ASSUME NEW n \in Nat \ {0}, NEW sum \in Nat, NEW lo \in Nat, NEW hi \in Nat,
         n * lo <= sum, sum <= n * hi
  PROVE  Average(sum, n) \in Nat /\ lo <= Average(sum, n) /\ Average(sum, n) <= hi
<1>1. Average(sum, n) = (2 * sum + n) \div (2 * n)
  BY DEF Average
<1> DEFINE a == (2 * sum + n) \div (2 * n)
<1>2. 2 * n \in Nat \ {0} /\ 2 * sum + n \in Nat
  OBVIOUS
<1>3. \A k \in Nat, m \in Nat \ {0} : k \div m \in Nat /\ m * (k \div m) <= k /\ k < m * (k \div m) + m
  BY Z3
<1>4. a \in Nat /\ (2 * n) * a <= 2 * sum + n /\ 2 * sum + n < (2 * n) * a + 2 * n
  BY <1>2, <1>3
<1> HIDE DEF a
<1>5. \A k, m \in Nat : k < m => n * k + n <= n * m
  BY Z3
<1>6. \A k \in Nat : n * k \in Nat /\ (2 * n) * k = 2 * (n * k)
  BY Z3
<1>7. ~ (a < lo)
  <2>1. a < lo => n * a + n <= n * lo
    BY <1>4, <1>5
  <2> QED
    BY <1>4, <1>6, <2>1
<1>8. ~ (hi < a)
  <2>1. hi < a => n * hi + n <= n * a
    BY <1>4, <1>5
  <2> QED
    BY <1>4, <1>6, <2>1
<1> QED
  BY <1>1, <1>4, <1>7, <1>8 DEF a

LEMMA AverageTyped ==
  ASSUME NEW n \in Nat, NEW sum \in Nat
  PROVE  Average(sum, n) \in Nat \union {None} /\ (Average(sum, n) = None <=> n = 0)
<1>1. n # 0 => 2 * n \in Nat \ {0} /\ 2 * sum + n \in Nat
  OBVIOUS
<1>2. \A k \in Nat, m \in Nat \ {0} : k \div m \in Nat
  OBVIOUS
<1> QED
  BY <1>1, <1>2 DEF Average

(* The tickets a mean is over, and how long each took. *)
Timed(c, d, f) == {t \in TicketsOf(c) : InDay(ticket[t][TimeOf[f]], d)}

Took(t, f) == ticket[t][TimeOf[f]] - ticket[t].createdAt

LEMMA TimedTook ==
  ASSUME TypeOK, FactInv, NEW c, NEW d, NEW f \in DOMAIN TimeOf
  PROVE  /\ Timed(c, d, f) \in SUBSET Tickets
         /\ IsFiniteSet(Timed(c, d, f)) /\ Cardinality(Timed(c, d, f)) \in Nat
         /\ \A t \in Timed(c, d, f) :
              /\ ticket[t] \in TicketRow /\ ticket[t].chat = c
              /\ ticket[t][TimeOf[f]] \in Ticks /\ InDay(ticket[t][TimeOf[f]], d)
              /\ Took(t, f) \in Nat /\ Took(t, f) <= MaxTick
              /\ [field |-> f, ticket |-> t, at |-> ticket[t][TimeOf[f]], took |-> Took(t, f)]
                   \in samples[c]
<1>1. Timed(c, d, f) \in SUBSET Tickets
  BY OfChat DEF Timed
<1>2. IsFiniteSet(Timed(c, d, f)) /\ Cardinality(Timed(c, d, f)) \in Nat
  BY <1>1, Counted
<1>3. ASSUME NEW t \in Timed(c, d, f)
      PROVE  /\ ticket[t] \in TicketRow /\ ticket[t].chat = c
             /\ ticket[t][TimeOf[f]] \in Ticks /\ InDay(ticket[t][TimeOf[f]], d)
             /\ Took(t, f) \in Nat /\ Took(t, f) <= MaxTick
             /\ [field |-> f, ticket |-> t, at |-> ticket[t][TimeOf[f]], took |-> Took(t, f)]
                  \in samples[c]
  <2>1. /\ t \in Tickets /\ ticket[t] # None /\ ticket[t].chat = c
        /\ InDay(ticket[t][TimeOf[f]], d) /\ ticket[t][TimeOf[f]] # None
    BY <1>3 DEF Timed, TicketsOf, Existing, InDay
  <2>2. ticket[t] \in TicketRow
    BY <2>1 DEF TypeOK
  <2>3. ticket[t][TimeOf[f]] \in Times /\ ticket[t].createdAt \in Ticks
    BY <2>2 DEF TicketRow, TimeOf
  <2>4. /\ ticket[t].createdAt <= ticket[t][TimeOf[f]]
        /\ [field |-> f, ticket |-> t, at |-> ticket[t][TimeOf[f]],
            took |-> ticket[t][TimeOf[f]] - ticket[t].createdAt] \in samples[c]
    BY <2>1 DEF FactInv
  <2>5. ticket[t][TimeOf[f]] \in Ticks
    BY <2>1, <2>3 DEF Times
  <2>6. Took(t, f) \in Nat /\ Took(t, f) <= MaxTick
    BY <2>3, <2>4, <2>5 DEF Took, Ticks
  <2> QED
    BY <2>1, <2>2, <2>4, <2>5, <2>6 DEF Took
<1> QED
  BY <1>1, <1>2, <1>3

LEMMA ComputedMean ==
  ASSUME TypeOK, FactInv, NEW c, NEW d, NEW f \in {"avgFirstResponseSec", "avgResolutionSec"}
  PROVE  LET g == [t \in Timed(c, d, f) |-> Took(t, f)]
         IN  /\ Computed(f, c, d)
                  = Average(SumFunctionOnSet(g, Timed(c, d, f)), Cardinality(Timed(c, d, f)))
             /\ SumFunctionOnSet(g, Timed(c, d, f)) \in Nat
<1> DEFINE g == [t \in Timed(c, d, f) |-> Took(t, f)]
<1>1. f \in DOMAIN TimeOf
  BY DEF TimeOf
<1>2. SumFunction(g) = SumFunctionOnSet(g, Timed(c, d, f)) /\ SumFunction(g) \in Nat
  <2>1. IsFiniteSet(Timed(c, d, f)) /\ \A t \in Timed(c, d, f) : Took(t, f) \in Nat
    BY <1>1, TimedTook
  <2>2. DOMAIN g = Timed(c, d, f) /\ \A t \in Timed(c, d, f) : g[t] \in Nat
    BY <2>1
  <2> HIDE DEF g
  <2> QED
    BY <2>1, <2>2, SumOf
<1>3. Computed(f, c, d) = Average(SumFunction(g), Cardinality(Timed(c, d, f)))
  <2>1. CASE f = "avgFirstResponseSec"
    <3>1. TimeOf[f] = "firstResponseAt"
      BY <2>1 DEF TimeOf
    <3>2. Computed(f, c, d)
            = AverageOver({t \in TicketsOf(c) : InDay(ticket[t].firstResponseAt, d)}, "firstResponseAt")
      BY <2>1 DEF Computed
    <3> QED
      BY <3>1, <3>2 DEF AverageOver, Timed, Took
  <2>2. CASE f = "avgResolutionSec"
    <3>1. TimeOf[f] = "resolvedAt"
      BY <2>2 DEF TimeOf
    <3>2. Computed(f, c, d) = AverageOver({t \in TicketsOf(c) : InDay(ticket[t].resolvedAt, d)}, "resolvedAt")
      BY <2>2 DEF Computed
    <3> QED
      BY <3>1, <3>2 DEF AverageOver, Timed, Took
  <2> QED
    BY <2>1, <2>2
<1> QED
  BY <1>2, <1>3

LEMMA RangeStatsTyped ==
  ASSUME TypeOK, FactInv, NEW c, NEW d \in Days
  PROVE  RangeStats(c, d) \in Row
<1>1. ASSUME NEW f \in Columns PROVE Computed(f, c, d) \in Nat \union {None}
  <2>1. CASE f = "ticketsOpened"
    <3>1. {t \in TicketsOf(c) : InDay(ticket[t].createdAt, d)} \in SUBSET Tickets
      BY OfChat
    <3> QED
      BY <2>1, <3>1, Counted DEF Computed
  <2>2. CASE f = "ticketsClosed"
    <3>1. {t \in TicketsOf(c) : InDay(ticket[t].closedAt, d)} \in SUBSET Tickets
      BY OfChat
    <3> QED
      BY <2>2, <3>1, Counted DEF Computed
  <2>3. CASE f = "messagesIn" \/ f = "messagesOut"
    BY <2>3, MessagesNat DEF Computed
  <2>4. CASE f \in {"avgFirstResponseSec", "avgResolutionSec"}
    <3>1. Cardinality(Timed(c, d, f)) \in Nat
      BY <2>4, TimedTook DEF TimeOf
    <3>2. \E s \in Nat : Computed(f, c, d) = Average(s, Cardinality(Timed(c, d, f)))
      BY <2>4, ComputedMean
    <3> QED
      BY <3>1, <3>2, AverageTyped
  <2> QED
    BY <1>1, <2>1, <2>2, <2>3, <2>4 DEF Columns
<1> QED
  BY <1>1 DEF RangeStats, Row

-----------------------------------------------------------------------------
(* Types are kept.  A run has a past day because no run is due before the  *)
(* 01:00 of day 1, and counters are no larger than the number of writes.   *)

SystemTyped ==
  /\ born \in [Chats -> Days \union {None}]
  /\ ticket \in [Tickets -> TicketRow \union {None}]
  /\ messages \in [Tickets -> [{"in", "out"} -> [Days -> 0 .. MaxWrites]]]
  /\ writes \in 0 .. MaxWrites
  /\ samples \in [Chats -> SUBSET Sample]

JobTyped ==
  /\ up \in BOOLEAN
  /\ pending \subseteq Nat
  /\ run \in Run
  /\ run.pc \in {"query", "store"} => run.chat \in run.todo
  /\ run.pc = "store" => run.got \in Row
  /\ stats \in [Chats -> [Days -> Row \union {None}]]
  /\ excused \subseteq Days

ReqTyped == req \in [Requests -> Summary \union Overview]

LEMMA TypeParts == TypeOK <=> now \in Ticks /\ SystemTyped /\ JobTyped /\ ReqTyped
BY DEF TypeOK, SystemTyped, JobTyped, ReqTyped

LEMMA NowTyped == TypeOK => now \in Ticks /\ now \in Nat /\ Day(now) \in Days /\ Day(now) \in Nat
BY TickDay DEF TypeOK

LEMMA RowTyped ==
  ASSUME TypeOK, NEW t \in Tickets, ticket[t] # None
  PROVE  ticket[t] \in TicketRow /\ ticket[t].chat \in Chats /\ ticket[t].createdAt \in Ticks
         /\ ticket[t].createdAt \in Nat
BY DEF TypeOK, TicketRow, Ticks

(* One ticket's row changes to r. *)
LEMMA TicketTyped ==
  ASSUME TypeOK, NEW t \in Tickets, NEW r \in TicketRow, ticket' = [ticket EXCEPT ![t] = r]
  PROVE  ticket' \in [Tickets -> TicketRow \union {None}]
BY DEF TypeOK

LEMMA SampledTyped ==
  ASSUME TypeOK, FactInv, NEW t \in Tickets, ticket[t] # None, NEW f \in Columns, Sampled(t, f)
  PROVE  samples' \in [Chats -> SUBSET Sample]
<1>1. ticket[t].chat \in Chats /\ ticket[t].createdAt \in Nat /\ ticket[t].createdAt <= now
      /\ now \in Ticks /\ now \in Nat
  BY RowTyped, NowTyped DEF FactInv
<1> DEFINE x == [field |-> f, ticket |-> t, at |-> now, took |-> now - ticket[t].createdAt]
<1>2. x \in Sample
  <2>1. now - ticket[t].createdAt \in Nat
    BY <1>1
  <2> QED
    BY <1>1, <2>1 DEF Sample
<1>3. samples' = [samples EXCEPT ![ticket[t].chat] = @ \union {x}]
  BY DEF Sampled
<1> HIDE DEF x
<1> QED
  BY <1>1, <1>2, <1>3 DEF TypeOK

LEMMA MessageTyped ==
  ASSUME TypeOK, FactInv, Write, NEW t \in Tickets, NEW dir \in {"in", "out"},
         messages' = [messages EXCEPT ![t][dir][Day(now)] = @ + 1]
  PROVE  messages' \in [Tickets -> [{"in", "out"} -> [Days -> 0 .. MaxWrites]]]
<1>1. Day(now) \in Days
  BY NowTyped
<1>2. /\ messages \in [Tickets -> [{"in", "out"} -> [Days -> 0 .. MaxWrites]]]
      /\ writes \in Nat /\ MaxWrites \in Nat
  BY DEF TypeOK
<1>3. messages[t][dir][Day(now)] <= writes /\ writes < MaxWrites
  BY <1>1 DEF FactInv, Write
<1>4. messages[t][dir][Day(now)] \in 0 .. MaxWrites
  BY <1>1, <1>2
<1>5. messages[t][dir][Day(now)] + 1 \in 0 .. MaxWrites
  BY <1>2, <1>3, <1>4
<1> QED
  BY <1>1, <1>2, <1>5

LEMMA WriteTyped == TypeOK /\ Write => writes' \in 0 .. MaxWrites
BY DEF TypeOK, Write

LEMMA SystemTypes ==
  ASSUME TypeOK, FactInv, System
  PROVE  TypeOK'
<1>0. /\ now \in Ticks /\ Day(now) \in Days /\ now \in Times /\ None \in Times
  BY NowTyped DEF Times
<1>1. SUFFICES ASSUME UNCHANGED <<now, jobVars, req>> PROVE SystemTyped'
  <2>1. UNCHANGED <<now, jobVars, req>>
    BY DEF System, Open, Incoming, Close, Solve, Reply
  <2>2. now' \in Ticks /\ JobTyped' /\ ReqTyped'
    BY <2>1 DEF TypeOK, JobTyped, ReqTyped, jobVars
  <2> QED
    BY <1>1, <2>1, <2>2 DEF TypeOK, SystemTyped, JobTyped, ReqTyped
<1>2. SystemTyped
  BY DEF TypeOK, SystemTyped
<1>3. ASSUME NEW t \in Tickets, NEW c \in Chats, Open(t, c) PROVE SystemTyped'
  <2> DEFINE r == [chat |-> c, createdAt |-> now, closedAt |-> None, resolvedAt |-> None,
                   firstResponseAt |-> None]
  <2>1. r \in TicketRow
    BY <1>0 DEF TicketRow
  <2>2. ticket' \in [Tickets -> TicketRow \union {None}]
    BY <2>1, <1>3, TicketTyped DEF Open
  <2>3. born' \in [Chats -> Days \union {None}]
    BY <1>0, <1>2, <1>3 DEF Open, SystemTyped
  <2>4. writes' \in 0 .. MaxWrites
    BY <1>3, WriteTyped DEF Open
  <2> QED
    BY <1>2, <1>3, <2>2, <2>3, <2>4 DEF Open, SystemTyped
<1>4. ASSUME NEW t \in Tickets, Incoming(t) PROVE SystemTyped'
  BY <1>2, <1>4, MessageTyped, WriteTyped DEF Incoming, SystemTyped
<1>5. ASSUME NEW t \in Tickets, Close(t) PROVE SystemTyped'
  <2>1. [ticket[t] EXCEPT !.closedAt = now] \in TicketRow
    BY <1>0, <1>5, RowTyped DEF Close, TicketRow
  <2>2. ticket' \in [Tickets -> TicketRow \union {None}]
    BY <1>5, <2>1, TicketTyped DEF Close
  <2>3. samples' \in [Chats -> SUBSET Sample]
    BY <1>5, SampledTyped DEF Close, Columns
  <2> QED
    BY <1>2, <1>5, <2>2, <2>3, WriteTyped DEF Close, SystemTyped
<1>6. ASSUME NEW t \in Tickets, Solve(t) PROVE SystemTyped'
  <2>1. [ticket[t] EXCEPT !.resolvedAt = now] \in TicketRow
    BY <1>0, <1>6, RowTyped DEF Solve, TicketRow
  <2>2. ticket' \in [Tickets -> TicketRow \union {None}]
    BY <1>6, <2>1, TicketTyped DEF Solve
  <2>3. samples' \in [Chats -> SUBSET Sample]
    BY <1>6, SampledTyped DEF Solve, Columns
  <2> QED
    BY <1>2, <1>6, <2>2, <2>3, WriteTyped DEF Solve, SystemTyped
<1>7. ASSUME NEW t \in Tickets, NEW stale \in BOOLEAN, Reply(t, stale) PROVE SystemTyped'
  <2>1. messages' \in [Tickets -> [{"in", "out"} -> [Days -> 0 .. MaxWrites]]]
    BY <1>7, MessageTyped DEF Reply
  <2>2. [ticket[t] EXCEPT !.firstResponseAt = now] \in TicketRow
    BY <1>0, <1>7, RowTyped DEF Reply, TicketRow
  <2>3. ticket' \in [Tickets -> TicketRow \union {None}]
    BY <1>2, <1>7, <2>2, TicketTyped DEF Reply, SystemTyped
  <2>4. samples' \in [Chats -> SUBSET Sample]
    BY <1>2, <1>7, SampledTyped DEF Reply, Columns, SystemTyped
  <2> QED
    BY <1>2, <1>7, <2>1, <2>3, <2>4, WriteTyped DEF Reply, SystemTyped
<1> QED
  BY <1>3, <1>4, <1>5, <1>6, <1>7 DEF System

(* A run that is due now has a yesterday. *)
LEMMA Yesterday ==
  ASSUME TypeOK, TicksPerDay < now
  PROVE  AggregatedDay(now) \in Days /\ AggregatedDay(now) \in Nat /\ AggregatedDay(now) < Day(now)
<1>1. now \in Nat /\ Day(now) \in Nat /\ Day(now) <= Day(MaxTick) /\ Day(MaxTick) \in Nat
  BY NowTyped, DayOf DEF Days
<1>2. Day(now) # 0
  <2>1. StartOfDay(0 + 1) = TicksPerDay /\ TicksPerDay \in Nat
    BY DayStarts
  <2>2. now < StartOfDay(Day(now) + 1)
    BY <1>1, DayOf
  <2> QED
    BY <1>1, <2>1, <2>2
<1> QED
  BY <1>1, <1>2 DEF AggregatedDay, Days

LEMMA RunTyped ==
  ASSUME TypeOK
  PROVE  /\ run \in Run /\ run.day \in Days /\ run.todo \subseteq Chats
         /\ run.pc \in {"query", "store"} => run.chat \in run.todo /\ run.chat \in Chats
BY DEF TypeOK, Run

LEMMA IdleTyped == IdleRun \in Run /\ IdleRun.pc = "idle"
<1>1. 0 \in Days
  BY DayOf DEF Days
<1> QED
  BY <1>1 DEF IdleRun, Run

LEMMA Starts ==
  ASSUME NEW day \in Days, NEW stalled \in BOOLEAN, Start(day, stalled)
  PROVE  run' \in Run /\ run'.pc = "chats" /\ run'.day = day
BY IdleTyped DEF Start, IdleRun, Run

LEMMA Proceeds ==
  ASSUME TypeOK, NEW todo \in SUBSET Chats, Proceed(todo)
  PROVE  /\ run' \in Run
         /\ \/ todo = {} /\ run' = IdleRun /\ run'.pc = "idle"
            \/ run'.pc = "query" /\ run'.day = run.day /\ run'.todo = todo /\ run'.chat \in todo
<1>1. CASE todo = {} /\ run' = IdleRun
  BY <1>1, IdleTyped
<1>2. ASSUME NEW c \in todo, run' = [run EXCEPT !.pc = "query", !.todo = todo, !.chat = c, !.got = None]
      PROVE  run' \in Run /\ run'.pc = "query" /\ run'.day = run.day /\ run'.todo = todo /\ run'.chat \in todo
  BY <1>2, RunTyped DEF Run
<1> QED
  BY <1>1, <1>2 DEF Proceed

LEMMA WorkerTypes ==
  ASSUME TypeOK, FactInv, StatsInv, ScheduleInv, Worker
  PROVE  TypeOK'
<1>0. /\ now \in Nat /\ Day(now) \in Nat /\ TicksPerDay \in Nat
      /\ run \in Run /\ run.day \in Days /\ run.todo \subseteq Chats
  BY NowTyped, RunTyped
<1>1. SUFFICES JobTyped'
  <2>1. UNCHANGED <<now, systemVars, req>>
    BY DEF Worker, JobStep, Take, ReadChats, Query, Upsert, Resume, RunFails, Stop, Boot
  <2>2. now' \in Ticks /\ SystemTyped' /\ ReqTyped'
    BY <2>1 DEF TypeOK, SystemTyped, ReqTyped, systemVars
  <2> QED
    BY <1>1, <2>2 DEF TypeOK, SystemTyped, JobTyped, ReqTyped
<1>2. JobTyped
  BY DEF TypeOK, JobTyped
<1>3. NextOneAM(now) \in Nat
  BY <1>0, OneAM DEF FactInv
<1>4. ASSUME NEW p \in pending, Take(p) PROVE JobTyped'
  <2>1. TicksPerDay < now
    BY <1>0, <1>2, <1>4 DEF Take, ScheduleInv, JobTyped
  <2>2. run' \in Run /\ run'.pc = "chats"
    BY <1>4, <2>1, Yesterday, Starts DEF Take
  <2> QED
    BY <1>2, <1>3, <1>4, <2>2 DEF Take, JobTyped
<1>5. ASSUME ReadChats PROVE JobTyped'
  <2>1. {c \in Chats : born[c] # None} \in SUBSET Chats
    OBVIOUS
  <2>2. run' \in Run /\ run'.pc \in {"idle", "query"} /\ (run'.pc = "query" => run'.chat \in run'.todo)
    BY <1>5, <2>1, Proceeds DEF ReadChats
  <2> QED
    BY <1>2, <1>5, <2>2 DEF ReadChats, JobTyped
<1>6. ASSUME Query PROVE JobTyped'
  <2>1. RangeStats(run.chat, run.day) \in Row
    BY <1>0, RangeStatsTyped
  <2>2. /\ run' \in Run /\ run'.pc = "store" /\ run'.chat = run.chat /\ run'.todo = run.todo
        /\ run'.got = RangeStats(run.chat, run.day)
    BY <1>0, <1>6, <2>1 DEF Query, Run
  <2> QED
    BY <1>2, <1>6, <2>1, <2>2 DEF Query, JobTyped
<1>7. ASSUME Upsert PROVE JobTyped'
  <2>1. Rest(run.todo, run.chat) \in SUBSET Chats
    BY <1>0 DEF Rest
  <2>2. run' \in Run /\ run'.pc \in {"idle", "query"} /\ (run'.pc = "query" => run'.chat \in run'.todo)
    BY <1>7, <2>1, Proceeds DEF Upsert
  <2>3. run.chat \in Chats /\ run.got \in Row
    BY <1>2, <1>7, RunTyped DEF Upsert, JobTyped
  <2>4. stats' \in [Chats -> [Days -> Row \union {None}]]
    BY <1>0, <1>2, <1>7, <2>3 DEF Upsert, JobTyped
  <2> QED
    BY <1>2, <1>7, <2>2, <2>4 DEF Upsert, JobTyped
<1>8. ASSUME Resume PROVE JobTyped'
  <2>1. AggregatedDay(now) \in Days
    <3>1. run.day < Day(now) /\ run.day \in Nat
      BY <1>0, <1>8, DaysNat DEF Resume, StatsInv
    <3>2. Day(now) \in Days
      BY NowTyped
    <3> QED
      BY <1>0, <3>1, <3>2, DayOf DEF AggregatedDay, Days
  <2>2. run' \in Run /\ run'.pc = "chats"
    BY <1>8, <2>1, Starts DEF Resume
  <2> QED
    BY <1>2, <1>8, <2>2 DEF Resume, JobTyped
<1>9. ASSUME RunFails PROVE JobTyped'
  BY <1>0, <1>2, <1>9, IdleTyped DEF RunFails, JobTyped
<1>10. ASSUME Stop PROVE JobTyped'
  <2>1. excused' \subseteq Days
    BY <1>0, <1>2, <1>10 DEF Stop, JobTyped
  <2>2. [run EXCEPT !.pc = "stalled"] \in Run /\ [run EXCEPT !.pc = "stalled"].pc = "stalled"
    BY <1>0 DEF Run
  <2>3. run' = run \/ run' = IdleRun \/ run' = [run EXCEPT !.pc = "stalled"]
    BY <1>10 DEF Stop
  <2>4. /\ run' \in Run
        /\ run'.pc \in {"query", "store"} => run'.chat \in run'.todo
        /\ run'.pc = "store" => run'.got \in Row
    BY <1>0, <1>2, <2>2, <2>3, IdleTyped DEF JobTyped
  <2> QED
    BY <1>2, <1>10, <2>1, <2>4 DEF Stop, JobTyped
<1>11. ASSUME Boot PROVE JobTyped'
  BY <1>2, <1>3, <1>11 DEF Boot, JobTyped
<1> QED
  BY <1>4, <1>5, <1>6, <1>7, <1>8, <1>9, <1>10, <1>11 DEF Worker, JobStep

(* A stored request is a summary, a counting one an overview. *)
LEMMA RequestTyped ==
  ASSUME TypeOK, NEW q \in Requests
  PROVE  /\ req[q].pc \in {"stored", "live", "answered"} => req[q] \in Summary
         /\ req[q].pc = "counting" => req[q] \in Overview
BY DEF TypeOK, Summary, Overview

LEMMA RangeTyped ==
  ASSUME NEW r \in Ranges
  PROVE  r[1] \in Nat /\ r[2] \in Nat /\ r[1] <= r[2]
OBVIOUS

(* What the rows of past days add up to. *)
Rows(c, D) == {d \in D : stats[c][d] # None}

LEMMA PastDaysTyped ==
  ASSUME NEW r \in Summary \union Overview
  PROVE  /\ PastDays(r) \subseteq Days /\ IsFiniteSet(PastDays(r))
         /\ \A d \in PastDays(r) : d \in Nat
<1>1. r.from \in Nat /\ r.to \in Nat /\ r.today \in Days
  BY DEF Summary, Overview
<1>2. PastDays(r) \subseteq Days
  <2>1. Day(MaxTick) \in Nat /\ r.today \in 0 .. Day(MaxTick)
    BY <1>1, DayOf DEF Days
  <2> QED
    BY <1>1, <2>1 DEF PastDays, Days
<1>3. PastDays(r) \subseteq r.from .. r.to
  BY DEF PastDays
<1>4. IsFiniteSet(PastDays(r))
  <2>1. IsFiniteSet(r.from .. r.to)
    BY <1>1, FS_Interval
  <2> QED
    BY <1>3, <2>1, FS_Subset
<1> QED
  BY <1>2, <1>4, DaysNat

LEMMA RowsSum ==
  ASSUME TypeOK, StatsInv, NEW c \in Chats, NEW D \in SUBSET Days, IsFiniteSet(D)
  PROVE  SumFunction([d \in Rows(c, D) |-> stats[c][d].ticketsOpened]) = OpenedOn(c, Rows(c, D))
<1> DEFINE f == [d \in Rows(c, D) |-> stats[c][d].ticketsOpened]
           class == [t \in TicketsOf(c) |-> Day(ticket[t].createdAt)]
<1>1. IsFiniteSet(Rows(c, D)) /\ Rows(c, D) \subseteq D
  BY FS_Subset DEF Rows
<1>2. \A d \in Rows(c, D) : f[d] = OpenedOn(c, {d})
  BY <1>1 DEF StatsInv, KeptRows, RowRight, Final, Rows
<1>3. \A d : OpenedOn(c, {d}) = Cardinality(Class(TicketsOf(c), class, d))
  <2>1. \A d : {t \in TicketsOf(c) : Day(ticket[t].createdAt) \in {d}} = Class(TicketsOf(c), class, d)
    BY DEF Class
  <2> QED
    BY <2>1 DEF OpenedOn
<1>4. OpenedOn(c, Rows(c, D)) = Cardinality(Classes(TicketsOf(c), class, Rows(c, D)))
  <2>1. {t \in TicketsOf(c) : Day(ticket[t].createdAt) \in Rows(c, D)}
          = Classes(TicketsOf(c), class, Rows(c, D))
    BY DEF Classes
  <2> QED
    BY <2>1 DEF OpenedOn
<1>5. IsFiniteSet(TicketsOf(c))
  BY OfChat, Counted
<1>6. SumFunction(f) = SumFunctionOnSet(f, Rows(c, D))
  BY DEF SumFunction
<1> HIDE DEF f, class
<1>7. \A d \in Rows(c, D) : f[d] = Cardinality(Class(TicketsOf(c), class, d))
  BY <1>2, <1>3
<1>8. SumFunctionOnSet(f, Rows(c, D)) = Cardinality(Classes(TicketsOf(c), class, Rows(c, D)))
  BY <1>1, <1>5, <1>7, SumOfClasses
<1> QED
  BY <1>4, <1>6, <1>8 DEF f

(* What a summary has read of the table. *)
LEMMA ReadResult ==
  ASSUME TypeOK, StatsInv, ReqInv, NEW q \in Requests, ReadStored(q)
  PROVE  /\ req[q] \in Summary /\ req[q].chat \in Chats
         /\ req' = [req EXCEPT ![q] = [@ EXCEPT
              !.pc = IF req[q].today <= req[q].to THEN "live" ELSE "answered",
              !.sum = OpenedOn(req[q].chat, Rows(req[q].chat, PastDays(req[q])))]]
<1>1. req[q] \in Summary /\ req[q].chat \in Chats /\ q \in DOMAIN req
  BY RequestTyped DEF ReadStored, ReqInv, SummaryRight, TypeOK
<1>2. StoredDays(q) = PastDays(req[q])
  BY DEF StoredDays, PastDays
<1>3. {d \in StoredDays(q) : stats[req[q].chat][d] # None} = Rows(req[q].chat, PastDays(req[q]))
  BY <1>2 DEF Rows
<1>4. SumFunction([d \in Rows(req[q].chat, PastDays(req[q])) |-> stats[req[q].chat][d].ticketsOpened])
        = OpenedOn(req[q].chat, Rows(req[q].chat, PastDays(req[q])))
  <2>1. PastDays(req[q]) \in SUBSET Days /\ IsFiniteSet(PastDays(req[q]))
    BY <1>1, PastDaysTyped
  <2> QED
    BY <1>1, <2>1, RowsSum
<1>5. WithToday(q) <=> req[q].today <= req[q].to
  <2>2. req[q].today \in Nat /\ req[q].to \in Nat
    BY <1>1, DaysNat DEF Summary
  <2> QED
    BY <2>2 DEF WithToday
<1>6. req' = [req EXCEPT ![q].pc = IF WithToday(q) THEN "live" ELSE "answered",
                         ![q].sum = SumFunction([d \in Rows(req[q].chat, PastDays(req[q])) |->
                                                   stats[req[q].chat][d].ticketsOpened])]
  BY <1>3 DEF ReadStored
<1> QED
  BY <1>1, <1>4, <1>5, <1>6

LEMMA TodayCounted ==
  ASSUME TypeOK, NEW c, NEW d \in Days
  PROVE  Computed("ticketsOpened", c, d) = OpenedOn(c, {d})
<1>1. \A t \in TicketsOf(c) : InDay(ticket[t].createdAt, d) <=> Day(ticket[t].createdAt) \in {d}
  <2> SUFFICES ASSUME NEW t \in TicketsOf(c)
               PROVE  InDay(ticket[t].createdAt, d) <=> Day(ticket[t].createdAt) \in {d}
    OBVIOUS
  <2>1. ticket[t].createdAt \in Nat
    BY RowTyped DEF TicketsOf, Existing
  <2> QED
    BY <2>1, DaysNat, InDayIs
<1>2. {t \in TicketsOf(c) : InDay(ticket[t].createdAt, d)}
        = {t \in TicketsOf(c) : Day(ticket[t].createdAt) \in {d}}
  BY <1>1
<1> QED
  BY <1>2 DEF Computed, OpenedOn

LEMMA RequestTypes ==
  ASSUME TypeOK, StatsInv, ReqInv, Request
  PROVE  TypeOK'
<1>0. Day(now) \in Days
  BY NowTyped
<1>1. SUFFICES ReqTyped'
  <2>1. UNCHANGED <<now, systemVars, jobVars>>
    BY DEF Request, BeginSummary, BeginOverview, ReadStored, QueryToday, CountFor, Respond
  <2>2. now' \in Ticks /\ SystemTyped' /\ JobTyped'
    BY <2>1 DEF TypeOK, SystemTyped, JobTyped, systemVars, jobVars
  <2> QED
    BY <1>1, <2>2 DEF TypeOK, SystemTyped, JobTyped, ReqTyped
<1>2. req \in [Requests -> Summary \union Overview]
  BY DEF TypeOK
<1>3. ASSUME NEW q \in Requests, NEW r \in Summary \union Overview, req' = [req EXCEPT ![q] = r]
      PROVE  ReqTyped'
  BY <1>2, <1>3 DEF ReqTyped
<1>4. 0 \in Days /\ IdleRequest \in Summary
  <2>1. 0 \in Days
    BY DayOf DEF Days
  <2> QED
    BY <2>1 DEF IdleRequest, Summary
<1>5. ASSUME NEW q \in Requests, NEW r \in Ranges, NEW c \in Chats, BeginSummary(q, c, r[1], r[2])
      PROVE  ReqTyped'
  <2>1. OpenedIn(c, r[1], r[2]) \in Nat
    BY OpenedIs, OpenedNat
  <2> DEFINE w == \A d \in r[1] .. r[2] : born[c] <= d /\ d < Day(now) => stats[c][d] # None
             n == [IdleRequest EXCEPT !.pc = "stored", !.chat = c, !.from = r[1], !.to = r[2],
                           !.today = Day(now), !.atStart = OpenedIn(c, r[1], r[2]), !.whole = w]
  <2>2. n \in Summary
    <3>1. w \in BOOLEAN
      OBVIOUS
    <3> HIDE DEF w
    <3> QED
      BY <1>0, <2>1, <3>1, RangeTyped DEF IdleRequest, Summary
  <2>3. req' = [req EXCEPT ![q] = n]
    BY <1>5 DEF BeginSummary
  <2> HIDE DEF n, w
  <2> QED
    BY <1>3, <2>2, <2>3
<1>6. ASSUME NEW q \in Requests, NEW r \in Ranges, BeginOverview(q, r[1], r[2]) PROVE ReqTyped'
  BY <1>0, <1>3, <1>6, RangeTyped DEF BeginOverview, Overview
<1>7. ASSUME NEW q \in Requests, ReadStored(q) PROVE ReqTyped'
  <2> DEFINE s == OpenedOn(req[q].chat, Rows(req[q].chat, PastDays(req[q])))
  <2>1. s \in Nat
    BY OpenedNat
  <2> HIDE DEF s
  <2>2. \A pc \in {"live", "answered"} : [req[q] EXCEPT !.pc = pc, !.sum = s] \in Summary
    BY <1>7, <2>1, ReadResult DEF Summary
  <2> QED
    BY <1>3, <1>7, <2>2, ReadResult DEF s
<1>8. ASSUME NEW q \in Requests, QueryToday(q) PROVE ReqTyped'
  <2>1. req[q] \in Summary /\ req[q].today \in Days /\ req[q].sum \in Nat
    BY <1>8, RequestTyped DEF QueryToday, Summary
  <2>2. Computed("ticketsOpened", req[q].chat, req[q].today) \in Nat
    <3>1. Computed("ticketsOpened", req[q].chat, req[q].today) = OpenedOn(req[q].chat, {req[q].today})
      BY <2>1, TodayCounted
    <3> QED
      BY <3>1, OpenedNat
  <2> DEFINE s == req[q].sum + Computed("ticketsOpened", req[q].chat, req[q].today)
  <2>3. s \in Nat
    BY <2>1, <2>2
  <2>4. req' = [req EXCEPT ![q] = [req[q] EXCEPT !.pc = "answered", !.sum = s]]
    BY <1>2, <1>8 DEF QueryToday
  <2> HIDE DEF s
  <2>5. [req[q] EXCEPT !.pc = "answered", !.sum = s] \in Summary
    BY <2>1, <2>3 DEF Summary
  <2> QED
    BY <1>3, <2>4, <2>5
<1>9. ASSUME NEW q \in Requests, NEW part \in {"ticketsCreated", "byAgent"}, CountFor(q, part) PROVE ReqTyped'
  <2>1. req[q] \in Overview
    BY <1>9, RequestTyped DEF CountFor
  <2> DEFINE n == CreatedIn(req[q].from, req[q].to)
  <2>2. n \in Nat
    BY CreatedNat
  <2>3. req' = [req EXCEPT ![q] = [req[q] EXCEPT ![part] = n]]
    BY <1>2, <1>9 DEF CountFor
  <2> HIDE DEF n
  <2>4. [req[q] EXCEPT ![part] = n] \in Overview
    BY <2>1, <2>2 DEF Overview
  <2> QED
    BY <1>3, <2>3, <2>4
<1>10. ASSUME NEW q \in Requests, Respond(q) PROVE ReqTyped'
  BY <1>3, <1>4, <1>10 DEF Respond
<1> QED
  BY <1>5, <1>6, <1>7, <1>8, <1>9, <1>10 DEF Request

(* What is due at midnight is the run for the day before. *)
LEMMA DueYesterday ==
  ASSUME TypeOK, StatsInv, ScheduleInv, Due
  PROVE  AggregatedDay(now) \in Days
<1>1. now \in Nat /\ TicksPerDay \in Nat /\ Day(now) \in Nat
  BY NowTyped
<1>2. CASE \E p \in pending : p <= now
  <2>1. TicksPerDay < now
    BY <1>1, <1>2 DEF ScheduleInv, TypeOK
  <2> QED
    BY <2>1, Yesterday
<1>3. CASE run.pc = "stalled"
  <2>1. run.day < Day(now) /\ run.day \in Nat
    BY <1>3, RunTyped, DaysNat DEF StatsInv
  <2>2. Day(now) \in Days /\ Day(MaxTick) \in Nat
    BY NowTyped, DayOf
  <2> QED
    BY <1>1, <2>1, <2>2 DEF AggregatedDay, Days
<1> QED
  BY <1>2, <1>3 DEF Due

LEMMA TickTypes ==
  ASSUME TypeOK, StatsInv, ScheduleInv, Tick
  PROVE  TypeOK'
<1>1. now' \in Ticks
  BY DEF TypeOK, Tick, Ticks
<1>2. excused' \subseteq Days
  BY DueYesterday DEF TypeOK, Tick
<1> QED
  BY <1>1, <1>2 DEF TypeOK, Tick, systemVars

-----------------------------------------------------------------------------
(* What a step may do to the facts: chats, tickets and samples stay; times *)
(* and messages that change are those of now.                              *)

SampleOf(t, f, at) ==
  [field |-> f, ticket |-> t, at |-> at, took |-> at - ticket[t].createdAt]

Appears(t) ==
  /\ ticket[t] = None
  /\ ticket'[t].createdAt = now
  /\ ticket'[t].chat \in Chats /\ born'[ticket'[t].chat] # None
  /\ \A f \in DOMAIN TimeOf : ticket'[t][TimeOf[f]] = None

Moves(t) ==
  /\ ticket[t] # None /\ ticket'[t] # None
  /\ ticket'[t].chat = ticket[t].chat /\ ticket'[t].createdAt = ticket[t].createdAt
  /\ \A f \in DOMAIN TimeOf :
       \/ ticket'[t][TimeOf[f]] = ticket[t][TimeOf[f]]
       \/ ticket'[t][TimeOf[f]] = now /\ SampleOf(t, f, now) \in samples'[ticket[t].chat]

Counts(t, dir, d) ==
  /\ ticket[t] # None /\ d = Day(now)
  /\ messages'[t][dir][d] = messages[t][dir][d] + 1
  /\ writes' = writes + 1

Grows ==
  /\ now' \in {now, now + 1}
  /\ writes' \in {writes, writes + 1}
  /\ \A c \in Chats : born'[c] = born[c] \/ (born[c] = None /\ born'[c] = Day(now))
  /\ \A c \in Chats : samples[c] \subseteq samples'[c]
  /\ \A t \in Tickets : ticket'[t] = ticket[t] \/ Appears(t) \/ Moves(t)
  /\ \A t \in Tickets : \A dir \in {"in", "out"} : \A d \in Days :
       messages'[t][dir][d] = messages[t][dir][d] \/ Counts(t, dir, d)

LEMMA Sampling ==
  ASSUME TypeOK, NEW t \in Tickets, ticket[t] # None, NEW f, Sampled(t, f)
  PROVE  /\ SampleOf(t, f, now) \in samples'[ticket[t].chat]
         /\ \A c \in Chats : samples[c] \subseteq samples'[c]
<1> DEFINE x == [field |-> f, ticket |-> t, at |-> now, took |-> now - ticket[t].createdAt]
<1>1. samples' = [samples EXCEPT ![ticket[t].chat] = @ \union {x}]
  BY DEF Sampled
<1>2. x = SampleOf(t, f, now)
  BY DEF SampleOf
<1>3. samples \in [Chats -> SUBSET Sample] /\ ticket[t].chat \in Chats
  BY RowTyped DEF TypeOK
<1> HIDE DEF x
<1> QED
  BY <1>1, <1>2, <1>3

(* A time of a ticket, a column with a statistic, becomes now. *)
LEMMA Moving ==
  ASSUME TypeOK, NEW t \in Tickets, ticket[t] # None, NEW f \in DOMAIN TimeOf, Sampled(t, f),
         ticket' = [ticket EXCEPT ![t] = [@ EXCEPT ![TimeOf[f]] = now]]
  PROVE  \A s \in Tickets : ticket'[s] = ticket[s] \/ Moves(s)
<1>1. ticket[t] \in TicketRow /\ now \in Ticks /\ ticket \in [Tickets -> TicketRow \union {None}]
  BY RowTyped, NowTyped DEF TypeOK
<1>2. TimeOf[f] \in {"closedAt", "firstResponseAt", "resolvedAt"}
  BY DEF TimeOf
<1>3. \A s \in Tickets : s # t => ticket'[s] = ticket[s]
  BY <1>1
<1>4. ticket'[t] = [ticket[t] EXCEPT ![TimeOf[f]] = now]
  BY <1>1
<1>5. /\ ticket'[t] \in TicketRow
      /\ ticket'[t].chat = ticket[t].chat /\ ticket'[t].createdAt = ticket[t].createdAt
      /\ ticket'[t][TimeOf[f]] = now
      /\ \A column \in {"closedAt", "firstResponseAt", "resolvedAt"} :
           column # TimeOf[f] => ticket'[t][column] = ticket[t][column]
  BY <1>1, <1>2, <1>4 DEF TicketRow, Times
<1>6. Moves(t)
  <2>1. \A e \in DOMAIN TimeOf : TimeOf[e] \in {"closedAt", "firstResponseAt", "resolvedAt"}
                                 /\ (e # f => TimeOf[e] # TimeOf[f])
    BY DEF TimeOf
  <2>2. SampleOf(t, f, now) \in samples'[ticket[t].chat]
    BY Sampling
  <2> QED
    BY <1>5, <2>1, <2>2 DEF Moves
<1> QED
  BY <1>3, <1>6

LEMMA Counting ==
  ASSUME TypeOK, Write, NEW t \in Tickets, ticket[t] # None, NEW way \in {"in", "out"},
         messages' = [messages EXCEPT ![t][way][Day(now)] = @ + 1]
  PROVE  \A s \in Tickets : \A dir \in {"in", "out"} : \A d \in Days :
           messages'[s][dir][d] = messages[s][dir][d] \/ Counts(s, dir, d)
<1>1. messages \in [Tickets -> [{"in", "out"} -> [Days -> 0 .. MaxWrites]]] /\ Day(now) \in Days
  BY NowTyped DEF TypeOK
<1>2. messages'[t][way][Day(now)] = messages[t][way][Day(now)] + 1
  BY <1>1
<1>3. \A s \in Tickets : \A dir \in {"in", "out"} : \A d \in Days :
        (s = t /\ dir = way /\ d = Day(now)) \/ messages'[s][dir][d] = messages[s][dir][d]
  BY <1>1
<1> QED
  BY <1>2, <1>3 DEF Counts, Write

LEMMA SystemGrows ==
  ASSUME TypeOK, System
  PROVE  Grows
<1>0. /\ now \in Nat /\ born \in [Chats -> Days \union {None}]
      /\ ticket \in [Tickets -> TicketRow \union {None}]
  BY NowTyped DEF TypeOK
<1>1. ASSUME NEW t \in Tickets, NEW c \in Chats, Open(t, c) PROVE Grows
  <2> DEFINE r == [chat |-> c, createdAt |-> now, closedAt |-> None, resolvedAt |-> None,
                   firstResponseAt |-> None]
  <2>1. ticket' = [ticket EXCEPT ![t] = r] /\ ticket[t] = None
    BY <1>1 DEF Open
  <2>2. \A s \in Tickets : s # t => ticket'[s] = ticket[s]
    BY <1>0, <2>1
  <2>3. ticket'[t] = r
    BY <1>0, <2>1
  <2>4. \A e \in Chats : born'[e] = born[e] \/ (born[e] = None /\ born'[e] = Day(now))
    BY <1>0, <1>1 DEF Open
  <2>5. born'[c] # None
    <3>1. Day(now) # None
      BY NowTyped
    <3> QED
      BY <1>0, <1>1, <3>1 DEF Open
  <2>6. Appears(t)
    BY <2>1, <2>3, <2>5 DEF Appears, TimeOf
  <2> QED
    BY <1>1, <2>2, <2>4, <2>6 DEF Open, Write, Grows
<1>2. ASSUME NEW t \in Tickets, Incoming(t) PROVE Grows
  <2>1. \A s \in Tickets : \A dir \in {"in", "out"} : \A d \in Days :
          messages'[s][dir][d] = messages[s][dir][d] \/ Counts(s, dir, d)
    BY <1>2, Counting DEF Incoming
  <2> QED
    BY <1>2, <2>1 DEF Incoming, Write, Grows
<1>3. ASSUME NEW t \in Tickets, Close(t) PROVE Grows
  <2>1. "ticketsClosed" \in DOMAIN TimeOf /\ TimeOf["ticketsClosed"] = "closedAt"
    BY DEF TimeOf
  <2>2. ticket' = [ticket EXCEPT ![t] = [@ EXCEPT ![TimeOf["ticketsClosed"]] = now]]
    BY <1>0, <1>3, <2>1 DEF Close
  <2>3. \A s \in Tickets : ticket'[s] = ticket[s] \/ Moves(s)
    BY <1>3, <2>1, <2>2, Moving DEF Close
  <2>4. \A c \in Chats : samples[c] \subseteq samples'[c]
    BY <1>3, Sampling DEF Close
  <2> QED
    BY <1>3, <2>3, <2>4 DEF Close, Write, Grows
<1>4. ASSUME NEW t \in Tickets, Solve(t) PROVE Grows
  <2>1. "avgResolutionSec" \in DOMAIN TimeOf /\ TimeOf["avgResolutionSec"] = "resolvedAt"
    BY DEF TimeOf
  <2>2. ticket' = [ticket EXCEPT ![t] = [@ EXCEPT ![TimeOf["avgResolutionSec"]] = now]]
    BY <1>0, <1>4, <2>1 DEF Solve
  <2>3. \A s \in Tickets : ticket'[s] = ticket[s] \/ Moves(s)
    BY <1>4, <2>1, <2>2, Moving DEF Solve
  <2>4. \A c \in Chats : samples[c] \subseteq samples'[c]
    BY <1>4, Sampling DEF Solve
  <2> QED
    BY <1>4, <2>3, <2>4 DEF Solve, Write, Grows
<1>5. ASSUME NEW t \in Tickets, NEW stale \in BOOLEAN, Reply(t, stale) PROVE Grows
  <2>1. "avgFirstResponseSec" \in DOMAIN TimeOf /\ TimeOf["avgFirstResponseSec"] = "firstResponseAt"
    BY DEF TimeOf
  <2>2. /\ \A s \in Tickets : ticket'[s] = ticket[s] \/ Moves(s)
        /\ \A c \in Chats : samples[c] \subseteq samples'[c]
    <3>1. CASE ticket' = [ticket EXCEPT ![t].firstResponseAt = now] /\ Sampled(t, "avgFirstResponseSec")
      <4>1. ticket' = [ticket EXCEPT ![t] = [@ EXCEPT ![TimeOf["avgFirstResponseSec"]] = now]]
        BY <1>0, <2>1, <3>1
      <4>2. \A s \in Tickets : ticket'[s] = ticket[s] \/ Moves(s)
        BY <1>5, <2>1, <3>1, <4>1, Moving DEF Reply
      <4>3. \A c \in Chats : samples[c] \subseteq samples'[c]
        BY <1>5, <3>1, Sampling DEF Reply
      <4> QED
        BY <4>2, <4>3
    <3>2. CASE UNCHANGED <<ticket, samples>>
      BY <3>2
    <3> QED
      BY <1>5, <3>1, <3>2 DEF Reply
  <2>5. \A s \in Tickets : \A dir \in {"in", "out"} : \A d \in Days :
          messages'[s][dir][d] = messages[s][dir][d] \/ Counts(s, dir, d)
    BY <1>5, Counting DEF Reply
  <2> QED
    BY <1>5, <2>2, <2>5 DEF Reply, Write, Grows
<1> QED
  BY <1>1, <1>2, <1>3, <1>4, <1>5 DEF System

LEMMA NextGrows ==
  ASSUME TypeOK, [Next]_vars
  PROVE  Grows
<1>1. ASSUME UNCHANGED systemVars, now' \in {now, now + 1} PROVE Grows
  BY <1>1 DEF systemVars, Grows
<1>2. CASE Tick
  BY <1>1, <1>2 DEF Tick
<1>3. CASE Worker
  BY <1>1, <1>3 DEF Worker, JobStep, Take, ReadChats, Query, Upsert, Resume, RunFails, Stop, Boot
<1>4. CASE Request
  BY <1>1, <1>4 DEF Request, BeginSummary, BeginOverview, ReadStored, QueryToday, CountFor, Respond
<1>5. CASE UNCHANGED vars
  BY <1>1, <1>5 DEF vars
<1> QED
  BY <1>2, <1>3, <1>4, <1>5, SystemGrows DEF Next

LEMMA FactStep ==
  ASSUME TypeOK, FactInv, TypeOK', Grows
  PROVE  FactInv'
<1>0. /\ now \in Nat /\ now' \in Nat /\ now <= now' /\ 1 <= now'
      /\ Day(now) \in Nat /\ Day(now') \in Nat /\ Day(now) <= Day(now')
  BY NowTyped, DaysGrow DEF Grows, FactInv
<1>1. ASSUME NEW c \in Chats, born'[c] # None PROVE born'[c] <= Day(now) /\ born'[c] <= Day(now')
  <2>1. born'[c] \in Nat
    BY <1>1, DaysNat DEF TypeOK
  <2>2. born'[c] <= Day(now)
    BY <1>0, <1>1 DEF Grows, FactInv, Exists
  <2> QED
    BY <1>0, <2>1, <2>2
<1>2. ASSUME NEW t \in Tickets, ticket'[t] # None
      PROVE  /\ ticket'[t].createdAt <= now'
             /\ born'[ticket'[t].chat] # None /\ born'[ticket'[t].chat] <= Day(ticket'[t].createdAt)
             /\ \A f \in DOMAIN TimeOf :
                  ticket'[t][TimeOf[f]] # None =>
                    /\ ticket'[t].createdAt <= ticket'[t][TimeOf[f]]
                    /\ [field |-> f, ticket |-> t, at |-> ticket'[t][TimeOf[f]],
                        took |-> ticket'[t][TimeOf[f]] - ticket'[t].createdAt] \in samples'[ticket'[t].chat]
  <2>1. CASE Appears(t)
    BY <1>0, <1>1, <2>1 DEF Appears
  <2>2. CASE ticket[t] # None /\ (ticket'[t] = ticket[t] \/ Moves(t))
    <3>1. /\ ticket'[t].chat = ticket[t].chat /\ ticket'[t].createdAt = ticket[t].createdAt
          /\ \A f \in DOMAIN TimeOf :
               \/ ticket'[t][TimeOf[f]] = ticket[t][TimeOf[f]]
               \/ ticket'[t][TimeOf[f]] = now /\ SampleOf(t, f, now) \in samples'[ticket[t].chat]
      BY <2>2 DEF Moves
    <3>2. ticket[t].chat \in Chats /\ ticket[t].createdAt \in Nat /\ ticket[t].createdAt <= now
      BY <2>2, RowTyped DEF FactInv
    <3>3. born[ticket[t].chat] # None /\ born[ticket[t].chat] <= Day(ticket[t].createdAt)
      BY <2>2 DEF FactInv, Exists
    <3>4. born'[ticket[t].chat] = born[ticket[t].chat]
      BY <3>2, <3>3 DEF Grows
    <3>5. ASSUME NEW f \in DOMAIN TimeOf, ticket'[t][TimeOf[f]] # None
          PROVE  /\ ticket[t].createdAt <= ticket'[t][TimeOf[f]]
                 /\ SampleOf(t, f, ticket'[t][TimeOf[f]]) \in samples'[ticket[t].chat]
      <4>1. CASE ticket'[t][TimeOf[f]] = ticket[t][TimeOf[f]]
        <5>1. /\ ticket[t].createdAt <= ticket[t][TimeOf[f]]
              /\ SampleOf(t, f, ticket[t][TimeOf[f]]) \in samples[ticket[t].chat]
          BY <2>2, <3>5, <4>1 DEF FactInv, SampleOf
        <5>2. samples[ticket[t].chat] \subseteq samples'[ticket[t].chat]
          BY <3>2 DEF Grows
        <5> QED
          BY <4>1, <5>1, <5>2
      <4>2. CASE ticket'[t][TimeOf[f]] = now /\ SampleOf(t, f, now) \in samples'[ticket[t].chat]
        BY <3>2, <4>2
      <4> QED
        BY <3>1, <4>1, <4>2
    <3> QED
      BY <1>0, <3>1, <3>2, <3>3, <3>4, <3>5 DEF SampleOf
  <2> QED
    BY <1>2, <2>1, <2>2 DEF Grows, Moves
<1>3. ASSUME NEW t \in Tickets, NEW dir \in {"in", "out"}, NEW d \in Days
      PROVE  /\ messages'[t][dir][d] <= writes'
             /\ ticket'[t] = None => messages'[t][dir][d] = 0
  <2>1. messages[t][dir][d] \in Nat /\ writes \in Nat /\ messages[t][dir][d] <= writes
    BY DEF TypeOK, FactInv
  <2>2. messages'[t][dir][d] <= writes'
    BY <2>1 DEF Grows, Counts
  <2>3. ticket'[t] = None => ticket[t] = None
    BY DEF Grows, Appears, Moves
  <2>4. ticket[t] = None => messages[t][dir][d] = 0
    BY DEF FactInv
  <2>5. ticket[t] = None => messages'[t][dir][d] = messages[t][dir][d]
    BY DEF Grows, Counts
  <2> QED
    BY <2>2, <2>3, <2>4, <2>5
<1> QED
  BY <1>0, <1>1, <1>2, <1>3 DEF FactInv, Exists

-----------------------------------------------------------------------------
(* What is said of past days lasts, whatever is written afterwards. *)

(* Terms that are zero can be left out. *)
LEMMA SumSupport ==
  ASSUME NEW T, IsFiniteSet(T), NEW S \in SUBSET T, NEW f, NEW e,
         \A x \in S : f[x] = e[x], \A x \in T \ S : f[x] = 0, \A x \in T : f[x] \in Nat
  PROVE  SumFunctionOnSet(f, T) = SumFunctionOnSet(e, S)
<1> DEFINE R == T \ S
           F == {A \in SUBSET R : SumFunctionOnSet(f, S \union A) = SumFunctionOnSet(f, S)}
<1>1. IsFiniteSet(S) /\ IsFiniteSet(R)
  BY FS_Subset, FS_Difference
<1>2. {} \in F
  <2>1. S \union {} = S
    OBVIOUS
  <2> QED
    BY <2>1
<1>3. ASSUME NEW A \in SUBSET R, A \in F, NEW x \in R \ A PROVE A \union {x} \in F
  <2> DEFINE U == S \union A
  <2>1. U \in SUBSET T /\ x \notin U /\ x \in T \ S
    BY <1>3
  <2>2. IsFiniteSet(U)
    BY <2>1, FS_Subset
  <2>3. S \union (A \union {x}) = U \union {x}
    OBVIOUS
  <2>4. SumFunctionOnSet(f, U) = SumFunctionOnSet(f, S)
    BY <1>3
  <2>5. f[x] = 0 /\ f[x] \in Nat /\ \A y \in U : f[y] \in Nat
    BY <2>1
  <2> HIDE DEF U
  <2>6. SumFunctionOnSet(f, U \union {x}) = f[x] + SumFunctionOnSet(f, U)
    BY <2>1, <2>2, <2>5, SumAdd
  <2>7. SumFunctionOnSet(f, U) \in Nat
    BY <2>2, <2>5, SumNat
  <2>8. SumFunctionOnSet(f, U \union {x}) = SumFunctionOnSet(f, S)
    BY <2>4, <2>5, <2>6, <2>7
  <2>9. A \union {x} \in SUBSET R
    BY <1>3
  <2> QED
    BY <2>3, <2>8, <2>9
<1>4. R \in F
  <2> HIDE DEF R, F
  <2> QED
    BY <1>1, <1>2, <1>3, SubsetInduction
<1>5. S \union R = T
  OBVIOUS
<1>6. SumFunctionOnSet(f, S) = SumFunctionOnSet(e, S)
  BY <1>1, SumSame
<1> QED
  BY <1>4, <1>5, <1>6

LEMMA Clock ==
  ASSUME TypeOK, TypeOK', Grows
  PROVE  /\ now \in Nat /\ now' \in Nat /\ now <= now'
         /\ Day(now) \in Nat /\ Day(now') \in Nat /\ Day(now) <= Day(now')
BY NowTyped, DaysGrow DEF Grows

(* A ticket of a chat stays one, created when it was; a new one is of now. *)
LEMMA TicketsStay ==
  ASSUME TypeOK, TypeOK', Grows, NEW c \in Chats
  PROVE  /\ TicketsOf(c) \subseteq TicketsOf(c)'
         /\ \A t \in TicketsOf(c) : ticket'[t].createdAt = ticket[t].createdAt
         /\ \A t \in TicketsOf(c)' \ TicketsOf(c) :
              ticket[t] = None /\ ticket'[t].createdAt = now /\ Appears(t)
         /\ \A t \in TicketsOf(c)' : t \in Tickets
BY DEF TicketsOf, Existing, Grows, Appears, Moves

LEMMA OpenedGrows ==
  ASSUME TypeOK, TypeOK', Grows, NEW c \in Chats, NEW D
  PROVE  OpenedOn(c, D) \in Nat /\ OpenedOn(c, D)' \in Nat /\ OpenedOn(c, D) <= OpenedOn(c, D)'
<1> DEFINE A == {t \in TicketsOf(c) : Day(ticket[t].createdAt) \in D}
           B == {t \in TicketsOf(c)' : Day(ticket'[t].createdAt) \in D}
<1>1. A \subseteq B /\ B \in SUBSET Tickets
  BY TicketsStay
<1>2. OpenedOn(c, D) = Cardinality(A) /\ OpenedOn(c, D)' = Cardinality(B)
  BY DEF OpenedOn, Day
<1> HIDE DEF A, B
<1> QED
  BY <1>1, <1>2, SubsetCounted

LEMMA OpenedLasts ==
  ASSUME TypeOK, TypeOK', Grows, NEW c \in Chats, NEW D, Day(now) \notin D
  PROVE  OpenedOn(c, D)' = OpenedOn(c, D)
<1>1. {t \in TicketsOf(c)' : Day(ticket'[t].createdAt) \in D}
        = {t \in TicketsOf(c) : Day(ticket[t].createdAt) \in D}
  BY TicketsStay
<1> QED
  BY <1>1 DEF OpenedOn, Day

LEMMA MessagesLast ==
  ASSUME TypeOK, FactInv, TypeOK', Grows, NEW c \in Chats, NEW dir \in {"in", "out"},
         NEW d \in Days, d # Day(now)
  PROVE  MessageCount(c, dir, d)' = MessageCount(c, dir, d)
<1> DEFINE S == TicketsOf(c)
           T == TicketsOf(c)'
           e == [t \in S |-> messages[t][dir][d]]
           f == [t \in T |-> messages'[t][dir][d]]
<1>1. MessageCount(c, dir, d) = SumFunctionOnSet(e, S) /\ MessageCount(c, dir, d)' = SumFunctionOnSet(f, T)
  BY DEF MessageCount, SumFunction
<1>2. T \in SUBSET Tickets /\ S \in SUBSET T /\ \A t \in T \ S : ticket[t] = None
  BY TicketsStay
<1>3. IsFiniteSet(T)
  BY <1>2, Counted
<1>4. \A t \in T : f[t] = messages[t][dir][d]
  BY <1>2 DEF Grows, Counts
<1>5. \A t \in S : f[t] = e[t]
  BY <1>2, <1>4
<1>6. \A t \in T \ S : f[t] = 0
  BY <1>2, <1>4 DEF FactInv
<1>7. \A t \in T : f[t] \in Nat
  BY <1>2, <1>4 DEF TypeOK
<1> HIDE DEF S, T, e, f
<1> QED
  BY <1>1, <1>2, <1>3, <1>5, <1>6, <1>7, SumSupport

(* A time of a past day may be replaced, but none is added. *)
LEMMA TimesMoveOn ==
  ASSUME TypeOK, FactInv, TypeOK', Grows, NEW c \in Chats, NEW d \in Days, d # Day(now),
         NEW f \in DOMAIN TimeOf
  PROVE  Timed(c, d, f)' \subseteq Timed(c, d, f) /\ Timed(c, d, f) \in SUBSET Tickets
<1>1. ~ InDay(now, d)
  BY NowTyped, DaysNat, InDayIs
<1>2. \A t \in TicketsOf(c)' : InDay(ticket'[t][TimeOf[f]], d) =>
        t \in TicketsOf(c) /\ ticket'[t][TimeOf[f]] = ticket[t][TimeOf[f]]
  <2> SUFFICES ASSUME NEW t \in TicketsOf(c)', InDay(ticket'[t][TimeOf[f]], d)
               PROVE  t \in TicketsOf(c) /\ ticket'[t][TimeOf[f]] = ticket[t][TimeOf[f]]
    OBVIOUS
  <2>1. ticket'[t][TimeOf[f]] # None /\ ticket'[t][TimeOf[f]] # now
    BY <1>1 DEF InDay
  <2>2. t \in TicketsOf(c)
    BY <2>1, TicketsStay DEF Appears
  <2> QED
    BY <2>1, <2>2, TicketsStay DEF Grows, Moves, Appears
<1>3. Timed(c, d, f)' = {t \in TicketsOf(c)' : InDay(ticket'[t][TimeOf[f]], d)}
  BY DEF Timed, InDay, StartOfDay
<1>4. Timed(c, d, f) \in SUBSET Tickets
  BY OfChat DEF Timed
<1> QED
  BY <1>2, <1>3, <1>4 DEF Timed

LEMMA SamplesLast ==
  ASSUME TypeOK, TypeOK', Grows, NEW c \in Chats, NEW d, NEW f
  PROVE  SampledOn(c, d, f) \subseteq SampledOn(c, d, f)'
BY DEF Grows, SampledOn, Day

(* The tickets that were ever closed on a day. *)
ClosedOn(c, d) == {x.ticket : x \in SampledOn(c, d, "ticketsClosed")}

LEMMA SampledTickets ==
  ASSUME TypeOK, NEW c \in Chats, NEW d
  PROVE  ClosedOn(c, d) \in SUBSET Tickets
<1>1. \A x \in samples[c] : x.ticket \in Tickets
  BY DEF TypeOK, Sample
<1> QED
  BY <1>1 DEF ClosedOn, SampledOn

LEMMA ClosedIs ==
  ASSUME NEW c, NEW d
  PROVE  Computed("ticketsClosed", c, d) = Cardinality(Timed(c, d, "ticketsClosed"))
BY DEF Computed, Timed, TimeOf

LEMMA RowLasts ==
  ASSUME TypeOK, FactInv, TypeOK', Grows,
         NEW c \in Chats, NEW d \in Days, d # Day(now), NEW row, RowRight(c, d, row)
  PROVE  RowRight(c, d, row)'
<1>1. Final(c, d, row)'
  <2>1. OpenedOn(c, {d})' = OpenedOn(c, {d})
    BY OpenedLasts
  <2>2. \A dir \in {"in", "out"} : MessageCount(c, dir, d)' = MessageCount(c, dir, d)
    BY MessagesLast
  <2> QED
    BY <2>1, <2>2 DEF RowRight, Final
<1>2. Bracketed(c, d, row)'
  <2>1. /\ row.ticketsClosed \in Nat
        /\ Cardinality(Timed(c, d, "ticketsClosed")) <= row.ticketsClosed
        /\ row.ticketsClosed <= Cardinality(ClosedOn(c, d))
    BY ClosedIs DEF RowRight, Bracketed, ClosedOn
  <2>2. /\ Cardinality(Timed(c, d, "ticketsClosed")') <= Cardinality(Timed(c, d, "ticketsClosed"))
        /\ Cardinality(Timed(c, d, "ticketsClosed")') \in Nat
        /\ Cardinality(Timed(c, d, "ticketsClosed")) \in Nat
    <3>1. "ticketsClosed" \in DOMAIN TimeOf
      BY DEF TimeOf
    <3> QED
      BY <3>1, TimesMoveOn, SubsetCounted
  <2>3. /\ Cardinality(ClosedOn(c, d)) <= Cardinality(ClosedOn(c, d)')
        /\ Cardinality(ClosedOn(c, d)) \in Nat
        /\ Cardinality(ClosedOn(c, d)') \in Nat
    <3>1. ClosedOn(c, d) \subseteq ClosedOn(c, d)'
      BY SamplesLast DEF ClosedOn
    <3>2. ClosedOn(c, d)' \in SUBSET Tickets
      <4>1. \A x \in samples'[c] : x.ticket \in Tickets
        BY DEF TypeOK, Sample
      <4> QED
        BY <4>1 DEF ClosedOn, SampledOn
    <3> QED
      BY <3>1, <3>2, SubsetCounted
  <2>4. Computed("ticketsClosed", c, d)' = Cardinality(Timed(c, d, "ticketsClosed")')
    BY DEF Computed, Timed, TimeOf
  <2> QED
    BY <2>1, <2>2, <2>3, <2>4 DEF Bracketed, ClosedOn
<1>3. ASSUME NEW f \in {"avgFirstResponseSec", "avgResolutionSec"}, NEW mean, MeanRight(c, d, f, mean)
      PROVE  MeanRight(c, d, f, mean)'
  <2>1. CASE mean = None
    <3>1. f \in DOMAIN TimeOf
      BY DEF TimeOf
    <3>2. Timed(c, d, f) = {}
      BY <1>3, <2>1 DEF MeanRight, Timed
    <3>3. Timed(c, d, f)' = {}
      BY <3>1, <3>2, TimesMoveOn
    <3> QED
      BY <2>1, <3>3 DEF MeanRight, Timed
  <2>2. CASE mean # None
    BY <1>3, <2>2, SamplesLast DEF MeanRight
  <2> QED
    BY <2>1, <2>2
<1> QED
  BY <1>1, <1>2, <1>3 DEF RowRight

LEMMA GreatestOf ==
  ASSUME NEW S \in SUBSET (0 .. MaxTick), S # {}
  PROVE  \E n \in S : \A m \in S : m <= n
<1> DEFINE R == {MaxTick - n : n \in S}
<1>0. MaxTick \in Nat /\ \A n \in S : n \in Nat /\ n <= MaxTick /\ MaxTick - n \in Nat
  OBVIOUS
<1>1. R \in SUBSET Nat /\ R # {}
  BY <1>0
<1>2. PICK r \in R : \A m \in R : r <= m
  <2> HIDE DEF R
  <2> QED
    BY <1>1, SmallestOf
<1>3. PICK n \in S : r = MaxTick - n
  BY <1>2
<1>4. \A m \in S : MaxTick - n <= MaxTick - m
  BY <1>2, <1>3
<1> QED
  BY <1>0, <1>4

(* What the queries of the job give is right. *)
LEMMA MeanIsRight ==
  ASSUME TypeOK, FactInv, NEW c \in Chats, NEW d \in Days,
         NEW f \in {"avgFirstResponseSec", "avgResolutionSec"}
  PROVE  MeanRight(c, d, f, Computed(f, c, d))
<1> DEFINE S == Timed(c, d, f)
           g == [t \in S |-> Took(t, f)]
           T == {Took(t, f) : t \in S}
<1>0. f \in DOMAIN TimeOf /\ d \in Nat
  BY DaysNat DEF TimeOf
<1>1. /\ Computed(f, c, d) = Average(SumFunctionOnSet(g, S), Cardinality(S))
      /\ SumFunctionOnSet(g, S) \in Nat
  BY ComputedMean
<1>2. IsFiniteSet(S) /\ Cardinality(S) \in Nat
  BY <1>0, TimedTook
<1>3. \A t \in S : g[t] = Took(t, f) /\ Took(t, f) \in Nat /\ Took(t, f) <= MaxTick
  BY <1>0, TimedTook
<1>4. \A n \in T : \E x \in SampledOn(c, d, f) : x.took = n
  <2> SUFFICES ASSUME NEW t \in S PROVE \E x \in SampledOn(c, d, f) : x.took = Took(t, f)
    OBVIOUS
  <2> DEFINE x == [field |-> f, ticket |-> t, at |-> ticket[t][TimeOf[f]], took |-> Took(t, f)]
  <2>1. x \in samples[c] /\ x.field = f /\ x.at \in Ticks /\ InDay(x.at, d) /\ x.took = Took(t, f)
    BY <1>0, TimedTook
  <2> HIDE DEF x
  <2>2. Day(x.at) = d
    BY <1>0, <2>1, InDayIs DEF Ticks
  <2> QED
    BY <2>1, <2>2 DEF SampledOn
<1>5. CASE S = {}
  <2>1. Computed(f, c, d) = None
    <3>1. Cardinality(S) = 0
      BY <1>5, FS_EmptySet
    <3> QED
      BY <1>1, <3>1, AverageTyped
  <2> QED
    BY <1>5, <2>1 DEF MeanRight, Timed
<1>6. CASE S # {}
  <2>1. Cardinality(S) \in Nat \ {0}
    BY <1>2, <1>6, FS_EmptySet
  <2>2. T \in SUBSET (0 .. MaxTick) /\ T # {} /\ T \in SUBSET Nat
    BY <1>3, <1>6
  <2>3. PICK lo \in T : \A m \in T : lo <= m
    <3> HIDE DEF T
    <3> QED
      BY <2>2, SmallestOf
  <2>4. PICK hi \in T : \A m \in T : m <= hi
    <3> HIDE DEF T
    <3> QED
      BY <2>2, GreatestOf
  <2>5. lo \in Nat /\ hi \in Nat /\ \A t \in S : g[t] \in Nat /\ lo <= g[t] /\ g[t] <= hi
    BY <1>3, <2>2, <2>3, <2>4
  <2> HIDE DEF T, g, S
  <2>6. /\ Cardinality(S) * lo <= SumFunctionOnSet(g, S)
        /\ SumFunctionOnSet(g, S) <= Cardinality(S) * hi
    BY <1>2, <2>5, SumBounds
  <2>7. Computed(f, c, d) \in Nat /\ lo <= Computed(f, c, d) /\ Computed(f, c, d) <= hi
    BY <1>1, <2>1, <2>5, <2>6, Averaged
  <2> QED
    BY <1>4, <2>3, <2>4, <2>7 DEF MeanRight
<1> QED
  BY <1>5, <1>6

LEMMA ComputedIsRight ==
  ASSUME TypeOK, FactInv, NEW c \in Chats, NEW d \in Days
  PROVE  RowRight(c, d, RangeStats(c, d))
<1>1. \A field \in Columns : RangeStats(c, d)[field] = Computed(field, c, d)
  BY DEF RangeStats
<1>2. Final(c, d, RangeStats(c, d))
  <2>1. Computed("ticketsOpened", c, d) = OpenedOn(c, {d})
    BY TodayCounted
  <2>2. /\ Computed("messagesIn", c, d) = MessageCount(c, "in", d)
        /\ Computed("messagesOut", c, d) = MessageCount(c, "out", d)
    BY DEF Computed
  <2> QED
    BY <1>1, <2>1, <2>2 DEF Final, Columns
<1>3. Bracketed(c, d, RangeStats(c, d))
  <2> DEFINE S == Timed(c, d, "ticketsClosed")
  <2>0. "ticketsClosed" \in DOMAIN TimeOf /\ d \in Nat
    BY DaysNat DEF TimeOf
  <2>1. RangeStats(c, d).ticketsClosed = Cardinality(S) /\ Computed("ticketsClosed", c, d) = Cardinality(S)
    BY <1>1, ClosedIs DEF Columns
  <2>2. S \subseteq ClosedOn(c, d)
    <3> SUFFICES ASSUME NEW t \in S
                 PROVE  \E x \in SampledOn(c, d, "ticketsClosed") : x.ticket = t
      BY DEF ClosedOn
    <3> DEFINE x == [field |-> "ticketsClosed", ticket |-> t, at |-> ticket[t][TimeOf["ticketsClosed"]],
                     took |-> Took(t, "ticketsClosed")]
    <3>1. x \in samples[c] /\ x.field = "ticketsClosed" /\ x.at \in Ticks /\ InDay(x.at, d) /\ x.ticket = t
      BY <2>0, TimedTook
    <3> HIDE DEF x
    <3>2. Day(x.at) = d
      BY <2>0, <3>1, InDayIs DEF Ticks
    <3> QED
      BY <3>1, <3>2 DEF SampledOn
  <2>3. ClosedOn(c, d) \in SUBSET Tickets
    BY SampledTickets
  <2>4. /\ Cardinality(S) \in Nat /\ Cardinality(ClosedOn(c, d)) \in Nat
        /\ Cardinality(S) <= Cardinality(ClosedOn(c, d))
    BY <2>2, <2>3, SubsetCounted
  <2> QED
    BY <2>1, <2>4 DEF Bracketed, ClosedOn
<1>4. /\ MeanRight(c, d, "avgFirstResponseSec", RangeStats(c, d).avgFirstResponseSec)
      /\ MeanRight(c, d, "avgResolutionSec", RangeStats(c, d).avgResolutionSec)
  BY <1>1, MeanIsRight DEF Columns
<1> QED
  BY <1>2, <1>3, <1>4 DEF RowRight

(* A row is kept, is the one at hand, or has just been computed. *)
LEMMA NewRows ==
  ASSUME TypeOK, TypeOK', [Next]_vars, NEW c \in Chats, NEW d \in Days, NEW row \in KeptRows(c, d)'
  PROVE  row \in KeptRows(c, d) \/ (Query /\ c = run.chat /\ d = run.day /\ row = RangeStats(c, d))
<1>1. \A b \in Chats : \A e \in Days :
        KeptRows(b, e) = ({stats[b][e]} \ {None})
          \union (IF run.pc = "store" /\ run.chat = b /\ run.day = e THEN {run.got} ELSE {})
  BY DEF KeptRows
<1>2. row \in ({stats'[c][d]} \ {None})
          \union (IF run'.pc = "store" /\ run'.chat = c /\ run'.day = d THEN {run'.got} ELSE {})
  BY DEF KeptRows
<1>3. run \in Run /\ stats \in [Chats -> [Days -> Row \union {None}]]
  BY DEF TypeOK
<1>4. ASSUME UNCHANGED stats, run' = run \/ run'.pc # "store" PROVE row \in KeptRows(c, d)
  BY <1>1, <1>2, <1>4
<1>5. CASE Tick \/ System \/ Request \/ UNCHANGED vars
  <2>1. UNCHANGED jobVars \/ UNCHANGED <<run, stats>>
    BY <1>5 DEF Tick, System, Open, Incoming, Close, Solve, Reply, vars,
                Request, BeginSummary, BeginOverview, ReadStored, QueryToday, CountFor, Respond
  <2> QED
    BY <1>4, <2>1 DEF jobVars
<1>6. ASSUME NEW p \in pending, Take(p) PROVE row \in KeptRows(c, d)
  BY <1>4, <1>6 DEF Take, Start, IdleRun
<1>7. CASE ReadChats
  <2>1. run'.pc # "store"
    BY <1>3, <1>7, Proceeds DEF ReadChats
  <2> QED
    BY <1>4, <1>7, <2>1 DEF ReadChats
<1>8. CASE Query
  <2>1. /\ stats' = stats /\ run'.chat = run.chat /\ run'.day = run.day
        /\ run'.got = RangeStats(run.chat, run.day)
    BY <1>3, <1>8 DEF Query, Run
  <2>2. CASE row \in {stats[c][d]} \ {None}
    BY <1>1, <2>2
  <2>3. CASE c = run.chat /\ d = run.day /\ row = RangeStats(run.chat, run.day)
    BY <1>8, <2>3
  <2> QED
    BY <1>2, <2>1, <2>2, <2>3
<1>9. CASE Upsert
  <2>1. Rest(run.todo, run.chat) \in SUBSET Chats
    BY RunTyped DEF Rest
  <2>2. run'.pc # "store"
    BY <1>9, <2>1, Proceeds DEF Upsert
  <2>3. row = stats'[c][d] /\ row # None
    BY <1>2, <2>2
  <2>4. stats'[c][d] = stats[c][d] \/ (c = run.chat /\ d = run.day /\ stats'[c][d] = run.got)
    BY <1>3, <1>9 DEF Upsert
  <2> QED
    BY <1>1, <1>9, <2>3, <2>4 DEF Upsert
<1>10. CASE Resume
  BY <1>4, <1>10 DEF Resume, Start, IdleRun
<1>11. CASE RunFails
  BY <1>4, <1>11 DEF RunFails, IdleRun
<1>12. CASE Stop
  <2>1. run' = run \/ run'.pc # "store"
    BY <1>3, <1>12 DEF Stop, IdleRun, Run
  <2> QED
    BY <1>4, <1>12, <2>1 DEF Stop
<1>13. CASE Boot
  BY <1>4, <1>13 DEF Boot
<1> QED
  BY <1>5, <1>6, <1>7, <1>8, <1>9, <1>10, <1>11, <1>12, <1>13 DEF Next, Worker, JobStep

(* The day a run aggregates is over. *)
LEMMA RunDayPast ==
  ASSUME TypeOK, FactInv, StatsInv, ScheduleInv, TypeOK', [Next]_vars
  PROVE  run'.pc # "idle" => run'.day < Day(now')
<1>0. /\ now \in Nat /\ Day(now) \in Nat /\ Day(now') \in Nat /\ Day(now) <= Day(now')
      /\ run.day \in Nat /\ TicksPerDay \in Nat /\ run \in Run
  BY NextGrows, Clock, RunTyped, DaysNat
<1>1. ASSUME run'.pc # "idle" => run.pc # "idle" /\ run'.day = run.day
      PROVE  run'.pc # "idle" => run'.day < Day(now')
  BY <1>0, <1>1 DEF StatsInv
<1>2. ASSUME NEW p \in pending, Take(p) PROVE run'.day < Day(now')
  <2>1. TicksPerDay < now
    BY <1>0, <1>2 DEF Take, ScheduleInv, TypeOK
  <2>2. AggregatedDay(now) \in Nat /\ AggregatedDay(now) < Day(now) /\ AggregatedDay(now) \in Days
    BY <2>1, Yesterday
  <2>3. run'.day = AggregatedDay(now)
    BY <1>2, <2>2, Starts DEF Take
  <2> QED
    BY <1>0, <2>2, <2>3
<1>3. ASSUME Resume PROVE run'.day < Day(now')
  <2>1. AggregatedDay(now) < Day(now) /\ AggregatedDay(now) \in Int
    BY <1>0 DEF AggregatedDay
  <2>2. run'.day = AggregatedDay(now)
    BY <1>3 DEF Resume, Start, IdleRun
  <2> QED
    BY <1>0, <2>1, <2>2
<1>4. CASE Tick \/ System \/ Request \/ UNCHANGED vars
  <2>1. run' = run
    BY <1>4 DEF Tick, System, Open, Incoming, Close, Solve, Reply, vars, jobVars,
                Request, BeginSummary, BeginOverview, ReadStored, QueryToday, CountFor, Respond
  <2> QED
    BY <1>1, <2>1
<1>5. CASE ReadChats
  <2>1. {c \in Chats : born[c] # None} \in SUBSET Chats
    OBVIOUS
  <2> QED
    BY <1>1, <1>5, <2>1, Proceeds DEF ReadChats
<1>6. CASE Query
  BY <1>0, <1>1, <1>6 DEF Query, Run
<1>7. CASE Upsert
  <2>1. Rest(run.todo, run.chat) \in SUBSET Chats
    BY RunTyped DEF Rest
  <2> QED
    BY <1>1, <1>7, <2>1, Proceeds DEF Upsert
<1>8. CASE RunFails
  BY <1>8 DEF RunFails, IdleRun
<1>9. CASE Stop
  BY <1>0, <1>1, <1>9 DEF Stop, IdleRun, Run
<1>10. CASE Boot
  BY <1>1, <1>10 DEF Boot
<1> QED
  BY <1>2, <1>3, <1>4, <1>5, <1>6, <1>7, <1>8, <1>9, <1>10 DEF Next, Worker, JobStep

LEMMA StatsStep ==
  ASSUME TypeOK, FactInv, StatsInv, ScheduleInv, TypeOK', [Next]_vars
  PROVE  StatsInv'
<1>0. /\ Grows /\ Day(now) \in Nat /\ Day(now') \in Nat /\ Day(now) <= Day(now')
  BY NextGrows, Clock
<1>1. ASSUME NEW c \in Chats, NEW d \in Days, NEW row \in KeptRows(c, d)'
      PROVE  d < Day(now') /\ RowRight(c, d, row)'
  <2>1. d < Day(now) /\ RowRight(c, d, row)
    <3>1. CASE row \in KeptRows(c, d)
      BY <3>1 DEF StatsInv
    <3>2. CASE Query /\ c = run.chat /\ d = run.day /\ row = RangeStats(c, d)
      BY <3>2, ComputedIsRight DEF StatsInv, Query
    <3> QED
      BY <3>1, <3>2, NewRows
  <2>2. d \in Nat /\ d < Day(now') /\ d # Day(now)
    BY <1>0, <2>1, DaysNat
  <2> QED
    BY <1>0, <2>1, <2>2, RowLasts
<1>2. \A c \in Chats : \A d \in Days : \A row \in KeptRows(c, d)' : d < Day(now') /\ RowRight(c, d, row)'
  BY <1>1
<1> QED
  BY <1>2, RunDayPast DEF StatsInv, Day

-----------------------------------------------------------------------------
(* No night is forgotten. *)

(* Rows stay, and who is new was not there on a day that is over. *)
LEMMA StatsStay ==
  ASSUME TypeOK, TypeOK', [Next]_vars
  PROVE  \A c \in Chats : \A d \in Days : stats[c][d] # None => stats'[c][d] # None
<1>1. CASE UNCHANGED stats
  BY <1>1
<1>2. CASE Upsert
  <2>1. run.got \in Row /\ run.got # None /\ run.chat \in Chats /\ run.day \in Days
    BY <1>2, RunTyped DEF Upsert, TypeOK
  <2>2. stats \in [Chats -> [Days -> Row \union {None}]]
    BY DEF TypeOK
  <2> QED
    BY <1>2, <2>1, <2>2 DEF Upsert
<1> QED
  BY <1>1, <1>2 DEF Next, Tick, System, Open, Incoming, Close, Solve, Reply, vars, jobVars,
       Worker, JobStep, Take, ReadChats, Query, Resume, RunFails, Stop, Boot,
       Request, BeginSummary, BeginOverview, ReadStored, QueryToday, CountFor, Respond

LEMMA BornBefore ==
  ASSUME TypeOK, Grows, NEW c \in Chats, NEW d \in Nat, d < Day(now), born'[c] # None, born'[c] <= d
  PROVE  born[c] # None /\ born[c] <= d
<1>1. Day(now) \in Nat
  BY NowTyped
<1> QED
  BY <1>1 DEF Grows

LEMMA RowsStay ==
  ASSUME TypeOK, TypeOK', [Next]_vars, NEW d \in Days, d < Day(now), RowsDone(d)
  PROVE  RowsDone(d)'
<1>1. \A c \in Chats : born'[c] # None /\ born'[c] <= d => stats'[c][d] # None
  BY NextGrows, StatsStay, BornBefore, DaysNat DEF RowsDone, Exists
<1> QED
  BY <1>1 DEF RowsDone, Exists

(* What a step that takes no time has to do. *)
LEMMA SameNight ==
  ASSUME TypeOK, TypeOK', NightInv, [Next]_vars, now' = now, excused \subseteq excused',
         DueRun => DueRun' \/ (run'.pc # "idle" /\ run'.day = Day(now) - 1),
         \A d \in Days : run.pc # "idle" /\ run.day = d /\ d \notin excused' => Handled(d)'
  PROVE  NightInv'
<1>0. now \in Nat /\ Day(now) \in Nat /\ \A d \in Days : d \in Nat
  BY NowTyped, DaysNat
<1>1. ASSUME NEW d \in Days, d < Day(now), d \notin excused', Handled(d) PROVE Handled(d)'
  <2>1. CASE RowsDone(d)
    BY <1>1, <2>1, RowsStay DEF Handled
  <2>2. CASE run.pc # "idle" /\ run.day = d
    BY <1>1, <2>2
  <2> QED
    BY <1>1, <2>1, <2>2 DEF Handled
<1>2. ASSUME NEW d \in Days, d + 2 <= Day(now'), d \notin excused' PROVE Handled(d)'
  <2>1. d < Day(now) /\ d \notin excused /\ d + 2 <= Day(now)
    BY <1>0, <1>2
  <2> QED
    BY <1>1, <1>2, <2>1 DEF NightInv
<1>3. ASSUME NEW d \in Days, d + 1 = Day(now'), d \notin excused'
      PROVE  Handled(d)' \/ DueRun' \/ now' <= StartOfDay(Day(now'))
  <2>1. d < Day(now) /\ d \notin excused /\ d + 1 = Day(now) /\ d = Day(now) - 1
    BY <1>0, <1>3
  <2>2. Handled(d) \/ DueRun \/ now <= StartOfDay(Day(now))
    BY <2>1 DEF NightInv
  <2>3. run'.pc # "idle" /\ run'.day = d => Handled(d)'
    BY DEF Handled
  <2> QED
    BY <1>1, <1>3, <2>1, <2>2, <2>3
<1> QED
  BY <1>2, <1>3 DEF NightInv, Day, StartOfDay

(* Neither the rest of the system nor a request touches the job. *)
LEMMA OthersSchedule ==
  ASSUME TypeOK, FactInv, StatsInv, ScheduleInv, NightInv, TypeOK', [Next]_vars, UNCHANGED <<now, jobVars>>
  PROVE  ScheduleInv' /\ NightInv'
<1>0. Day(now) \in Nat /\ run.day \in Nat /\ run.day \in Days
  BY NowTyped, RunTyped, DaysNat
<1>1. UNCHANGED <<now, up, pending, run, stats, excused>>
  BY DEF jobVars
<1>2. run.pc \in {"query", "store"} =>
        \A c \in Chats : born'[c] # None /\ born'[c] <= run.day => c \in run.todo \/ stats[c][run.day] # None
  BY <1>0, NextGrows, BornBefore DEF ScheduleInv, StatsInv, Exists
<1>3. ScheduleInv'
  BY <1>1, <1>2 DEF ScheduleInv, DueRun, NextOneAM, Day, StartOfDay, Exists
<1>4. NightInv'
  <2>1. DueRun => DueRun'
    BY <1>1 DEF DueRun
  <2>2. \A d \in Days : run.pc # "idle" /\ run.day = d /\ d \notin excused' => Handled(d)'
    BY <1>1 DEF Handled
  <2> QED
    BY <1>1, <2>1, <2>2, SameNight
<1> QED
  BY <1>3, <1>4

LEMMA TickSchedule ==
  ASSUME TypeOK, FactInv, StatsInv, ScheduleInv, NightInv, TypeOK', Tick
  PROVE  ScheduleInv' /\ NightInv'
<1>0. /\ now \in Nat /\ 1 <= now /\ now' = now + 1 /\ Day(now) \in Nat /\ run.day \in Nat
      /\ UNCHANGED <<born, up, pending, run, stats>> /\ excused \subseteq excused'
      /\ \A d \in Days : d \in Nat
  BY NowTyped, RunTyped, DaysNat DEF Tick, FactInv, systemVars
<1>1. Day(now') = Day(now) \/ (Day(now') = Day(now) + 1 /\ now' = StartOfDay(Day(now')))
  BY <1>0, NextTick
<1>2. /\ NextOneAM(now) = now' \/ NextOneAM(now') = NextOneAM(now)
      /\ now <= StartOfDay(Day(now)) => NextOneAM(now) = now'
  BY <1>0, OneAM
<1>3. \A p \in pending : p \in Nat
  BY DEF TypeOK
<1>4. DueRun => DueRun'
  BY <1>0, <1>3 DEF DueRun
<1>5. NextOneAM(now) \in pending /\ NextOneAM(now) = now' => DueRun'
  BY <1>0 DEF DueRun
<1>6. run.pc = "stalled" => run.day = Day(now') - 1 \/ run.day \in excused'
  <2>1. CASE Day(now') = Day(now)
    BY <1>0, <2>1 DEF ScheduleInv
  <2>2. CASE Day(now') # Day(now)
    BY <1>0, <2>2 DEF ScheduleInv, Tick, Due, AggregatedDay
  <2> QED
    BY <2>1, <2>2
<1>7. ScheduleInv'
  <2>1. DueRun' \/ NextOneAM(now') \in pending'
    BY <1>0, <1>2, <1>4, <1>5 DEF ScheduleInv
  <2>2. run.pc \in {"query", "store"} =>
          \A c \in Chats : born[c] # None /\ born[c] <= run.day => c \in run.todo \/ stats[c][run.day] # None
    BY DEF ScheduleInv, Exists
  <2>3. \A p \in pending' : TicksPerDay < p
    BY <1>0 DEF ScheduleInv
  <2>4. run'.pc \in {"chats", "query", "store"} => up'
    BY <1>0 DEF ScheduleInv
  <2> QED
    BY <1>0, <1>6, <2>1, <2>2, <2>3, <2>4 DEF ScheduleInv, NextOneAM, Day, StartOfDay, Exists
<1>8. ASSUME NEW d \in Days, Handled(d) PROVE Handled(d)'
  BY <1>0, <1>8 DEF Handled, RowsDone, Exists
<1>9. ASSUME NEW d \in Days, d + 2 <= Day(now'), d \notin excused' PROVE Handled(d)'
  <2>1. d \notin excused
    BY <1>0, <1>9
  <2>2. CASE d + 2 <= Day(now)
    BY <1>8, <2>1, <2>2 DEF NightInv
  <2>3. CASE ~ (d + 2 <= Day(now))
    <3>1. Day(now') # Day(now) /\ d + 1 = Day(now) /\ d = AggregatedDay(now)
      BY <1>0, <1>1, <1>9, <2>3 DEF AggregatedDay
    <3>2. ~ Due
      BY <1>9, <3>1 DEF Tick
    <3>3. ~ (now <= StartOfDay(Day(now)))
      <4>1. StartOfDay(Day(now)) \in Nat /\ StartOfDay(Day(now) + 1) = StartOfDay(Day(now)) + TicksPerDay
            /\ TicksPerDay \in Nat /\ 2 <= TicksPerDay
        BY <1>0, DayStarts
      <4>2. now + 1 = StartOfDay(Day(now) + 1)
        BY <1>0, <1>1, <3>1
      <4> QED
        BY <1>0, <4>1, <4>2
    <3>4. Handled(d) \/ DueRun
      BY <2>1, <3>1, <3>3 DEF NightInv
    <3>5. DueRun => run.pc # "idle" /\ run.pc # "stalled"
      BY <3>2 DEF Due, DueRun
    <3>6. DueRun => up
      BY <3>5, RunTyped DEF ScheduleInv, Run
    <3>7. DueRun => run.day = d
      BY <3>1, <3>5, <3>6 DEF Tick
    <3> QED
      BY <1>8, <3>4, <3>5, <3>7 DEF Handled
  <2> QED
    BY <2>2, <2>3
<1>10. ASSUME NEW d \in Days, d + 1 = Day(now'), d \notin excused'
       PROVE  Handled(d)' \/ DueRun' \/ now' <= StartOfDay(Day(now'))
  <2>1. CASE Day(now') # Day(now)
    <3>1. now' <= StartOfDay(Day(now'))
      BY <1>0, <1>1, <2>1
    <3> QED
      BY <3>1
  <2>2. CASE Day(now') = Day(now)
    <3>1. Handled(d) \/ DueRun \/ now <= StartOfDay(Day(now))
      BY <1>0, <1>10, <2>2 DEF NightInv
    <3>2. now <= StartOfDay(Day(now)) => DueRun'
      BY <1>2, <1>4, <1>5 DEF ScheduleInv
    <3> QED
      BY <1>4, <1>8, <3>1, <3>2
  <2> QED
    BY <2>1, <2>2
<1>11. NightInv'
  BY <1>9, <1>10 DEF NightInv, Day, StartOfDay
<1> QED
  BY <1>7, <1>11

(* The run that is due aggregates yesterday, and the next one is scheduled. *)
LEMMA TakeSchedule ==
  ASSUME TypeOK, FactInv, StatsInv, ScheduleInv, NightInv, TypeOK', NEW p \in pending, Take(p)
  PROVE  ScheduleInv' /\ NightInv'
<1>0. /\ now \in Nat /\ 1 <= now /\ Day(now) \in Nat /\ up /\ run.pc = "idle" /\ now' = now
      /\ UNCHANGED <<up, born, stats, excused>> /\ pending' = (pending \ {p}) \union {NextOneAM(now)}
  BY NowTyped DEF Take, FactInv, systemVars
<1>1. run'.pc = "chats" /\ run'.day = Day(now) - 1
  BY DEF Take, Start, IdleRun, AggregatedDay
<1>2. NextOneAM(now) \in Nat /\ TicksPerDay < NextOneAM(now)
  BY <1>0, OneAM
<1>3. ScheduleInv'
  BY <1>0, <1>1, <1>2 DEF ScheduleInv, DueRun, NextOneAM, Day, StartOfDay
<1>4. [Next]_vars
  BY DEF Next, Worker, JobStep
<1> QED
  BY <1>0, <1>1, <1>3, <1>4, SameNight

LEMMA ResumeSchedule ==
  ASSUME TypeOK, FactInv, StatsInv, ScheduleInv, NightInv, TypeOK', Resume
  PROVE  ScheduleInv' /\ NightInv'
<1>0. /\ now \in Nat /\ Day(now) \in Nat /\ up /\ run.pc = "stalled" /\ now' = now
      /\ UNCHANGED <<up, born, stats, excused, pending>>
  BY NowTyped DEF Resume, systemVars
<1>1. run'.pc = "chats" /\ run'.day = Day(now) - 1
  BY DEF Resume, Start, IdleRun, AggregatedDay
<1>2. ScheduleInv'
  BY <1>0, <1>1 DEF ScheduleInv, DueRun, NextOneAM, Day, StartOfDay
<1>3. [Next]_vars
  BY DEF Next, Worker, JobStep
<1>4. \A d \in Days : run.pc # "idle" /\ run.day = d /\ d \notin excused' => Handled(d)'
  BY <1>0, <1>1 DEF ScheduleInv, Handled
<1>5. DueRun => DueRun'
  BY <1>0 DEF DueRun
<1> QED
  BY <1>0, <1>2, <1>3, <1>4, <1>5, SameNight

(* While a run is at work the calendar and the schedule stay as they are.  *)
LEMMA AtWork ==
  ASSUME TypeOK, FactInv, StatsInv, ScheduleInv, NightInv, TypeOK', [Next]_vars,
         UNCHANGED <<now, born, pending>>, excused \subseteq excused',
         run'.pc \in {"chats", "query", "store"} => up',
         run'.pc = "stalled" => run'.day = Day(now) - 1 \/ run'.day \in excused',
         run'.pc \in {"query", "store"} =>
           \A c \in Chats : Exists(c) /\ born[c] <= run'.day => c \in run'.todo \/ stats'[c][run'.day] # None,
         run.pc # "idle" =>
           \/ run.day \in excused'
           \/ run'.pc # "idle" /\ run'.day = run.day
           \/ \A c \in Chats : Exists(c) /\ born[c] <= run.day => stats'[c][run.day] # None
  PROVE  ScheduleInv' /\ NightInv'
<1>1. ScheduleInv'
  BY DEF ScheduleInv, DueRun, NextOneAM, Day, StartOfDay, Exists
<1>2. \A d \in Days : run.pc # "idle" /\ run.day = d /\ d \notin excused' => Handled(d)'
  BY DEF Handled, RowsDone, Exists
<1>3. DueRun => DueRun'
  BY DEF DueRun
<1> QED
  BY <1>1, <1>2, <1>3, SameNight

LEMMA WorkerSchedule ==
  ASSUME TypeOK, FactInv, StatsInv, ScheduleInv, NightInv, TypeOK', Worker
  PROVE  ScheduleInv' /\ NightInv'
<1>0. /\ now \in Nat /\ 1 <= now /\ Day(now) \in Nat
      /\ run \in Run /\ run.day \in Days /\ run.todo \subseteq Chats
      /\ [Next]_vars /\ stats \in [Chats -> [Days -> Row \union {None}]]
  BY NowTyped, RunTyped DEF Next, FactInv, TypeOK
<1>1. CASE ReadChats
  <2>1. UNCHANGED <<now, born, pending, up, stats, excused>> /\ up
    BY <1>1 DEF ReadChats, ScheduleInv, systemVars
  <2> DEFINE all == {c \in Chats : born[c] # None}
  <2>2. /\ run'.pc \in {"idle", "query"}
        /\ run'.pc = "query" => run'.day = run.day /\ run'.todo = all
        /\ run'.pc = "idle" => all = {}
    <3>1. all \in SUBSET Chats /\ Proceed(all)
      BY <1>1 DEF ReadChats
    <3> HIDE DEF all
    <3> QED
      BY <3>1, Proceeds
  <2> QED
    BY <1>0, <2>1, <2>2, AtWork DEF Exists
<1>2. CASE Query
  <2>1. UNCHANGED <<now, born, pending, up, stats, excused>> /\ up
    BY <1>2 DEF Query, ScheduleInv, systemVars
  <2>2. run'.pc = "store" /\ run'.day = run.day /\ run'.todo = run.todo
    BY <1>0, <1>2 DEF Query, Run
  <2>3. \A c \in Chats : Exists(c) /\ born[c] <= run.day => c \in run.todo \/ stats[c][run.day] # None
    BY <1>2 DEF Query, ScheduleInv
  <2> QED
    BY <1>0, <2>1, <2>2, <2>3, AtWork
<1>3. CASE Upsert
  <2>1. UNCHANGED <<now, born, pending, up, excused>> /\ up
    BY <1>3 DEF Upsert, ScheduleInv, systemVars
  <2>2. run.got # None /\ run.chat \in Chats
    BY <1>3, RunTyped DEF Upsert, TypeOK
  <2>3. \A c \in Chats : Exists(c) /\ born[c] <= run.day => c \in run.todo \/ stats[c][run.day] # None
    BY <1>3 DEF Upsert, ScheduleInv
  <2>4. \A c \in Chats : Exists(c) /\ born[c] <= run.day =>
          c \in Rest(run.todo, run.chat) \/ stats'[c][run.day] # None
    BY <1>0, <1>3, <2>2, <2>3 DEF Upsert, Rest
  <2>5. /\ run'.pc \in {"idle", "query"}
        /\ run'.pc = "query" => run'.day = run.day /\ run'.todo = Rest(run.todo, run.chat)
        /\ run'.pc = "idle" => Rest(run.todo, run.chat) = {}
    <3>1. Rest(run.todo, run.chat) \in SUBSET Chats
      BY <1>0 DEF Rest
    <3> QED
      BY <1>3, <3>1, Proceeds DEF Upsert
  <2> QED
    BY <1>0, <2>1, <2>4, <2>5, AtWork
<1>4. CASE RunFails
  BY <1>0, <1>4, AtWork DEF RunFails, IdleRun, systemVars
<1>5. CASE Stop
  <2>1. UNCHANGED <<now, born, pending, stats>> /\ excused \subseteq excused'
    BY <1>5 DEF Stop, systemVars
  <2>2. CASE run.pc = "idle"
    BY <1>0, <1>5, <2>1, <2>2, AtWork DEF Stop
  <2>3. CASE run.pc # "idle" /\ run.stalled
    BY <1>0, <1>5, <2>1, <2>3, AtWork DEF Stop, IdleRun
  <2>4. CASE run.pc # "idle" /\ ~ run.stalled
    <3>1. run'.pc = "stalled" /\ run'.day = run.day
      BY <1>0, <1>5, <2>4 DEF Stop, Run
    <3>2. run.day = Day(now) - 1 \/ run.day \in excused'
      BY <1>5, <2>4 DEF Stop, AggregatedDay
    <3> QED
      BY <1>0, <2>1, <3>1, <3>2, AtWork
  <2> QED
    BY <2>2, <2>3, <2>4
<1>6. CASE Boot
  <2>0. /\ UNCHANGED <<now, born, run, stats, excused>> /\ up'
        /\ pending' = pending \union {NextOneAM(now)}
    BY <1>6 DEF Boot, systemVars
  <2>1. NextOneAM(now) \in Nat /\ TicksPerDay < NextOneAM(now)
    BY <1>0, OneAM
  <2>2. ScheduleInv'
    BY <2>0, <2>1 DEF ScheduleInv, DueRun, NextOneAM, Day, StartOfDay, Exists
  <2>3. \A d \in Days : run.pc # "idle" /\ run.day = d /\ d \notin excused' => Handled(d)'
    BY <2>0 DEF Handled
  <2>4. DueRun => DueRun'
    BY <2>0 DEF DueRun
  <2> QED
    BY <1>0, <2>0, <2>2, <2>3, <2>4, SameNight
<1> QED
  BY <1>1, <1>2, <1>3, <1>4, <1>5, <1>6, TakeSchedule, ResumeSchedule DEF Worker, JobStep

LEMMA ScheduleStep ==
  ASSUME TypeOK, FactInv, StatsInv, ScheduleInv, NightInv, TypeOK', [Next]_vars
  PROVE  ScheduleInv' /\ NightInv'
<1>1. CASE System \/ Request \/ UNCHANGED vars
  <2>1. UNCHANGED <<now, jobVars>>
    BY <1>1 DEF System, Open, Incoming, Close, Solve, Reply, vars,
                Request, BeginSummary, BeginOverview, ReadStored, QueryToday, CountFor, Respond
  <2> QED
    BY <2>1, OthersSchedule
<1> QED
  BY <1>1, TickSchedule, WorkerSchedule DEF Next

-----------------------------------------------------------------------------
(* What requests have counted. *)

LEMMA OpenedWithin ==
  ASSUME NEW c, NEW D, NEW E,
         \A t \in TicketsOf(c) : Day(ticket[t].createdAt) \in D => Day(ticket[t].createdAt) \in E
  PROVE  OpenedOn(c, D) \in Nat /\ OpenedOn(c, E) \in Nat /\ OpenedOn(c, D) <= OpenedOn(c, E)
<1> DEFINE A == {t \in TicketsOf(c) : Day(ticket[t].createdAt) \in D}
           B == {t \in TicketsOf(c) : Day(ticket[t].createdAt) \in E}
<1>1. A \subseteq B /\ B \in SUBSET Tickets
  BY OfChat
<1>2. OpenedOn(c, D) = Cardinality(A) /\ OpenedOn(c, E) = Cardinality(B)
  BY DEF OpenedOn
<1> HIDE DEF A, B
<1> QED
  BY <1>1, <1>2, SubsetCounted

LEMMA OpenedApart ==
  ASSUME NEW c, NEW D, NEW d, d \notin D
  PROVE  /\ OpenedOn(c, D \union {d}) = OpenedOn(c, D) + OpenedOn(c, {d})
         /\ OpenedOn(c, D) \in Nat /\ OpenedOn(c, {d}) \in Nat
<1> DEFINE A == {t \in TicketsOf(c) : Day(ticket[t].createdAt) \in D}
           B == {t \in TicketsOf(c) : Day(ticket[t].createdAt) \in {d}}
           C == {t \in TicketsOf(c) : Day(ticket[t].createdAt) \in D \union {d}}
<1>1. C = A \union B /\ A \intersect B = {}
  OBVIOUS
<1>2. A \in SUBSET Tickets /\ B \in SUBSET Tickets
  BY OfChat
<1>3. OpenedOn(c, D) = Cardinality(A) /\ OpenedOn(c, {d}) = Cardinality(B)
      /\ OpenedOn(c, D \union {d}) = Cardinality(C)
  BY DEF OpenedOn
<1> HIDE DEF A, B, C
<1>4. IsFiniteSet(A) /\ IsFiniteSet(B) /\ Cardinality(A) \in Nat /\ Cardinality(B) \in Nat
  BY <1>2, Counted
<1>5. Cardinality(A \union B) = Cardinality(A) + Cardinality(B) - Cardinality(A \intersect B)
  BY <1>4, FS_Union
<1>6. Cardinality(A \intersect B) = 0
  BY <1>1, FS_EmptySet
<1> QED
  BY <1>1, <1>3, <1>4, <1>5, <1>6

(* Tickets are of days up to today, and not before their chat. *)
LEMMA CreatedByNow ==
  ASSUME TypeOK, FactInv, NEW c, NEW t \in TicketsOf(c)
  PROVE  /\ ticket[t].createdAt \in Nat /\ Day(ticket[t].createdAt) \in Nat
         /\ Day(ticket[t].createdAt) <= Day(now) /\ Day(now) \in Nat
         /\ born[c] # None /\ born[c] <= Day(ticket[t].createdAt)
<1>1. t \in Tickets /\ ticket[t] # None /\ ticket[t].chat = c
  BY DEF TicketsOf, Existing
<1>2. ticket[t].createdAt \in Nat /\ ticket[t].createdAt <= now /\ now \in Nat
  BY <1>1, RowTyped, NowTyped DEF FactInv
<1>3. born[c] # None /\ born[c] <= Day(ticket[t].createdAt)
  BY <1>1 DEF FactInv, Exists
<1> QED
  BY <1>2, <1>3, DaysGrow

LEMMA SummaryLasts ==
  ASSUME TypeOK, FactInv, TypeOK', [Next]_vars, NEW r \in Summary \union Overview, SummaryRight(r)
  PROVE  SummaryRight(r)'
<1> SUFFICES ASSUME r.pc \in {"stored", "live", "answered"} PROVE SummaryRight(r)'
  BY DEF SummaryRight
<1>0. r \in Summary
  BY DEF Overview
<1>1. r.chat \in Chats /\ born[r.chat] # None /\ r.from <= r.today /\ r.today <= Day(now)
      /\ r.sum \in Nat /\ r.atStart \in Nat /\ r.today \in Nat
  BY <1>0, DaysNat DEF SummaryRight, Exists, Summary
<1>2. Grows /\ Day(now) \in Nat /\ Day(now') \in Nat /\ Day(now) <= Day(now')
  BY NextGrows, Clock
<1>3. born'[r.chat] = born[r.chat] /\ r.today <= Day(now')
  BY <1>1, <1>2 DEF Grows
<1>4. \A D : /\ OpenedOn(r.chat, D) \in Nat /\ OpenedOn(r.chat, D)' \in Nat
             /\ OpenedOn(r.chat, D) <= OpenedOn(r.chat, D)'
  BY <1>1, <1>2, OpenedGrows
<1>5. \A d \in PastDays(r) : stats[r.chat][d] # None => stats'[r.chat][d] # None
  BY <1>1, PastDaysTyped, StatsStay
<1>6. r.pc = "stored" =>
        /\ r.atStart <= OpenedOn(r.chat, {d \in r.from .. r.to : d <= r.today})'
        /\ r.whole => \A d \in PastDays(r) : born'[r.chat] <= d => stats'[r.chat][d] # None
  <2>1. r.pc = "stored" => r.atStart <= OpenedOn(r.chat, {d \in r.from .. r.to : d <= r.today})
    BY DEF SummaryRight
  <2>2. r.pc = "stored" /\ r.whole => \A d \in PastDays(r) : born[r.chat] <= d => stats[r.chat][d] # None
    BY DEF SummaryRight
  <2>3. r.pc = "stored" => r.atStart <= OpenedOn(r.chat, {d \in r.from .. r.to : d <= r.today})'
    BY <1>1, <1>4, <2>1
  <2> QED
    BY <1>3, <1>5, <2>2, <2>3
<1>7. r.pc = "live" =>
        /\ r.today <= r.to
        /\ r.sum <= OpenedOn(r.chat, PastDays(r))'
        /\ r.whole => r.atStart <= r.sum + OpenedOn(r.chat, {r.today})'
  BY <1>1, <1>4 DEF SummaryRight
<1>8. r.pc = "answered" =>
        /\ r.sum <= OpenedOn(r.chat, r.from .. r.to)'
        /\ r.whole => r.atStart <= r.sum
  BY <1>1, <1>4 DEF SummaryRight
<1> QED
  BY <1>1, <1>3, <1>6, <1>7, <1>8 DEF SummaryRight, Exists, Day, PastDays

(* The tickets of days that are over do not change. *)
LEMMA CreatedLasts ==
  ASSUME TypeOK, TypeOK', Grows, NEW from \in Nat, NEW to \in Nat, to < Day(now)
  PROVE  CreatedIn(from, to)' = CreatedIn(from, to)
<1>1. now \in Nat /\ Day(now) \in Nat /\ EndOfDay(to) < now
  <2>1. now \in Nat /\ Day(now) \in Nat /\ StartOfDay(Day(now)) <= now
    BY NowTyped, DayOf
  <2>2. /\ StartOfDay(to + 1) \in Nat /\ StartOfDay(Day(now)) \in Nat
        /\ StartOfDay(to + 1) <= StartOfDay(Day(now))
    BY <2>1, DaysInOrder, DayStarts
  <2> QED
    BY <2>1, <2>2 DEF EndOfDay
<1>2. EndOfDay(to) \in Int
  BY DayStarts DEF EndOfDay
<1>3. \A t \in Tickets :
        (/\ ticket'[t] # None
         /\ StartOfDay(from) <= ticket'[t].createdAt /\ ticket'[t].createdAt <= EndOfDay(to))
        <=> (/\ ticket[t] # None
             /\ StartOfDay(from) <= ticket[t].createdAt /\ ticket[t].createdAt <= EndOfDay(to))
  BY <1>1, <1>2 DEF Grows, Appears, Moves
<1>4. {t \in Existing' : StartOfDay(from) <= ticket'[t].createdAt /\ ticket'[t].createdAt <= EndOfDay(to)}
        = {t \in Existing : StartOfDay(from) <= ticket[t].createdAt /\ ticket[t].createdAt <= EndOfDay(to)}
  BY <1>3 DEF Existing
<1> QED
  BY <1>4 DEF CreatedIn, StartOfDay, EndOfDay

LEMMA OverviewLasts ==
  ASSUME TypeOK, TypeOK', [Next]_vars, NEW r \in Summary \union Overview, OverviewRight(r)
  PROVE  OverviewRight(r)'
<1> SUFFICES ASSUME r.pc = "counting" PROVE OverviewRight(r)'
  BY DEF OverviewRight
<1>1. r \in Overview /\ r.from \in Nat /\ r.to \in Nat /\ r.today \in Nat
  BY DaysNat DEF Summary, Overview
<1>2. Grows /\ Day(now) \in Nat /\ Day(now') \in Nat /\ Day(now) <= Day(now')
  BY NextGrows, Clock
<1>3. r.today <= Day(now)
  BY DEF OverviewRight
<1>4. r.to < r.today => CreatedIn(r.from, r.to)' = CreatedIn(r.from, r.to)
  BY <1>1, <1>2, <1>3, CreatedLasts
<1>5. r.today <= Day(now')
  BY <1>1, <1>2, <1>3
<1> QED
  BY <1>4, <1>5 DEF OverviewRight, Day

LEMMA BeginRight ==
  ASSUME TypeOK, FactInv, NEW q \in Requests, NEW rg \in Ranges, NEW c \in Chats,
         BeginSummary(q, c, rg[1], rg[2])
  PROVE  SummaryRight(req'[q]) /\ OverviewRight(req'[q])
<1> DEFINE n == [IdleRequest EXCEPT !.pc = "stored", !.chat = c, !.from = rg[1], !.to = rg[2],
                           !.today = Day(now), !.atStart = OpenedIn(c, rg[1], rg[2]),
                           !.whole = \A d \in rg[1] .. rg[2] :
                             born[c] <= d /\ d < Day(now) => stats[c][d] # None]
<1>1. req'[q] = n
  BY DEF BeginSummary, TypeOK
<1>2. /\ n.pc = "stored" /\ n.chat = c /\ n.from = rg[1] /\ n.to = rg[2] /\ n.today = Day(now)
      /\ n.atStart = OpenedIn(c, rg[1], rg[2])
      /\ n.whole <=> \A d \in rg[1] .. rg[2] : born[c] <= d /\ d < Day(now) => stats[c][d] # None
  BY DEF IdleRequest
<1>3. rg[1] \in Nat /\ rg[2] \in Nat /\ Day(now) \in Nat /\ rg[1] <= Day(now) /\ born[c] # None
  BY RangeTyped, NowTyped DEF BeginSummary
<1>4. OpenedIn(c, rg[1], rg[2]) <= OpenedOn(c, {d \in rg[1] .. rg[2] : d <= Day(now)})
  <2>1. \A t \in TicketsOf(c) : Day(ticket[t].createdAt) \in rg[1] .. rg[2] =>
          Day(ticket[t].createdAt) \in {d \in rg[1] .. rg[2] : d <= Day(now)}
    BY CreatedByNow
  <2>2. OpenedOn(c, rg[1] .. rg[2]) <= OpenedOn(c, {d \in rg[1] .. rg[2] : d <= Day(now)})
    BY <2>1, OpenedWithin
  <2> QED
    BY <2>2, OpenedIs
<1> HIDE DEF n
<1>5. SummaryRight(n)
  BY <1>2, <1>3, <1>4 DEF SummaryRight, Exists, PastDays
<1>6. OverviewRight(n)
  BY <1>2 DEF OverviewRight
<1> QED
  BY <1>1, <1>5, <1>6

(* If nothing is missing, the rows of past days count every ticket. *)
LEMMA RowsAreAll ==
  ASSUME TypeOK, FactInv, NEW r \in Summary, r.chat \in Chats
  PROVE  LET read == OpenedOn(r.chat, Rows(r.chat, PastDays(r)))
             all == OpenedOn(r.chat, PastDays(r))
         IN  /\ read \in Nat /\ all \in Nat /\ read <= all
             /\ (\A d \in PastDays(r) : born[r.chat] <= d => stats[r.chat][d] # None) => read = all
<1> DEFINE c == r.chat
           read == OpenedOn(c, Rows(c, PastDays(r)))
           all == OpenedOn(c, PastDays(r))
<1>1. read \in Nat /\ all \in Nat /\ read <= all
  <2>1. \A t \in TicketsOf(c) : Day(ticket[t].createdAt) \in Rows(c, PastDays(r)) =>
          Day(ticket[t].createdAt) \in PastDays(r)
    BY DEF Rows
  <2> QED
    BY <2>1, OpenedWithin
<1>2. ASSUME \A d \in PastDays(r) : born[c] <= d => stats[c][d] # None PROVE read = all
  <2>1. \A t \in TicketsOf(c) : Day(ticket[t].createdAt) \in PastDays(r) =>
          Day(ticket[t].createdAt) \in Rows(c, PastDays(r))
    BY <1>2, CreatedByNow DEF Rows
  <2>2. all <= read
    BY <2>1, OpenedWithin
  <2> HIDE DEF read, all
  <2> QED
    BY <1>1, <2>2
<1> QED
  BY <1>1, <1>2

LEMMA ReadRight ==
  ASSUME TypeOK, FactInv, StatsInv, ReqInv, NEW q \in Requests, ReadStored(q)
  PROVE  SummaryRight(req'[q]) /\ OverviewRight(req'[q])
<1> DEFINE r == req[q]
           c == r.chat
           read == OpenedOn(c, Rows(c, PastDays(r)))
           all == OpenedOn(c, PastDays(r))
           upTo == {d \in r.from .. r.to : d <= r.today}
           n == [r EXCEPT !.pc = IF r.today <= r.to THEN "live" ELSE "answered", !.sum = read]
<1>1. r \in Summary /\ c \in Chats /\ req'[q] = n /\ r.pc = "stored"
  <2>1. r \in Summary /\ c \in Chats /\ req' = [req EXCEPT ![q] = n]
    BY ReadResult
  <2>2. r.pc = "stored" /\ q \in DOMAIN req
    BY DEF ReadStored, TypeOK
  <2> HIDE DEF n
  <2> QED
    BY <2>1, <2>2
<1>2. SummaryRight(r)
  BY DEF ReqInv
<1>3. /\ Exists(c) /\ r.from <= r.today /\ r.today <= Day(now)
      /\ r.atStart <= OpenedOn(c, upTo)
      /\ r.whole => \A d \in PastDays(r) : born[c] <= d => stats[c][d] # None
  BY <1>1, <1>2 DEF SummaryRight
<1>4. r.from \in Nat /\ r.to \in Nat /\ r.today \in Nat /\ r.atStart \in Nat /\ r.whole \in BOOLEAN
  BY <1>1, DaysNat DEF Summary
<1>5. /\ n.pc = (IF r.today <= r.to THEN "live" ELSE "answered") /\ n.sum = read
      /\ n.chat = c /\ n.from = r.from /\ n.to = r.to /\ n.today = r.today
      /\ n.atStart = r.atStart /\ n.whole = r.whole
  BY <1>1 DEF Summary
<1>6. PastDays(n) = PastDays(r)
  BY <1>5 DEF PastDays
<1>7. read \in Nat /\ all \in Nat /\ read <= all /\ (r.whole => read = all)
  BY <1>1, <1>3, RowsAreAll
<1>8. CASE r.today <= r.to
  <2>1. upTo = PastDays(r) \union {r.today} /\ r.today \notin PastDays(r)
    BY <1>3, <1>4, <1>8 DEF PastDays
  <2> HIDE DEF upTo, n
  <2>2. /\ OpenedOn(c, PastDays(r) \union {r.today}) = all + OpenedOn(c, {r.today})
        /\ OpenedOn(c, {r.today}) \in Nat
    BY <2>1, OpenedApart
  <2>3. r.whole => r.atStart <= read + OpenedOn(c, {r.today})
    BY <1>3, <1>7, <2>1, <2>2
  <2> HIDE DEF read, all
  <2>4. n.pc = "live"
    BY <1>5, <1>8
  <2>5. SummaryRight(n)
    BY <1>1, <1>3, <1>5, <1>6, <1>7, <1>8, <2>3, <2>4 DEF SummaryRight, all
  <2> QED
    BY <1>1, <2>4, <2>5 DEF OverviewRight
<1>9. CASE ~ (r.today <= r.to)
  <2>1. upTo = PastDays(r) /\ r.from .. r.to = PastDays(r)
    BY <1>3, <1>4, <1>9 DEF PastDays
  <2> HIDE DEF upTo, n
  <2>2. r.whole => r.atStart <= read
    BY <1>3, <1>7, <2>1
  <2> HIDE DEF read, all
  <2>3. n.pc = "answered"
    BY <1>5, <1>9
  <2>4. n.sum <= OpenedOn(n.chat, n.from .. n.to)
    BY <1>5, <1>7, <2>1 DEF all
  <2>5. SummaryRight(n)
    BY <1>1, <1>3, <1>5, <2>2, <2>3, <2>4 DEF SummaryRight
  <2> QED
    BY <1>1, <2>3, <2>5 DEF OverviewRight
<1> QED
  BY <1>8, <1>9

LEMMA TodayRight ==
  ASSUME TypeOK, FactInv, ReqInv, NEW q \in Requests, QueryToday(q)
  PROVE  SummaryRight(req'[q]) /\ OverviewRight(req'[q])
<1> DEFINE r == req[q]
           c == r.chat
           s == r.sum + OpenedOn(c, {r.today})
           n == [r EXCEPT !.pc = "answered", !.sum = s]
<1>1. r \in Summary /\ r.pc = "live"
  BY RequestTyped DEF QueryToday
<1>2. SummaryRight(r)
  BY DEF ReqInv
<1>3. /\ r.from \in Nat /\ r.to \in Nat /\ r.today \in Nat /\ r.today \in Days
      /\ r.atStart \in Nat /\ r.sum \in Nat /\ r.whole \in BOOLEAN
  BY <1>1, DaysNat DEF Summary
<1>4. /\ c \in Chats /\ Exists(c) /\ r.from <= r.today /\ r.today <= Day(now) /\ r.today <= r.to
      /\ r.sum <= OpenedOn(c, PastDays(r))
      /\ r.whole => r.atStart <= s
  BY <1>1, <1>2 DEF SummaryRight
<1>5. req'[q] = n
  <2>1. Computed("ticketsOpened", c, r.today) = OpenedOn(c, {r.today})
    BY <1>3, TodayCounted
  <2> QED
    BY <2>1 DEF QueryToday, TypeOK
<1>6. /\ n.pc = "answered" /\ n.sum = s /\ n.chat = c /\ n.from = r.from /\ n.to = r.to /\ n.today = r.today
      /\ n.atStart = r.atStart /\ n.whole = r.whole
  BY <1>1 DEF Summary
<1>7. s <= OpenedOn(c, r.from .. r.to)
  <2> DEFINE D == PastDays(r) \union {r.today}
  <2>1. OpenedOn(c, D) = OpenedOn(c, PastDays(r)) + OpenedOn(c, {r.today})
        /\ OpenedOn(c, PastDays(r)) \in Nat /\ OpenedOn(c, {r.today}) \in Nat
    <3>1. r.today \notin PastDays(r)
      BY <1>3 DEF PastDays
    <3> QED
      BY <3>1, OpenedApart
  <2>2. /\ OpenedOn(c, D) \in Nat /\ OpenedOn(c, r.from .. r.to) \in Nat
        /\ OpenedOn(c, D) <= OpenedOn(c, r.from .. r.to)
    <3>1. D \subseteq r.from .. r.to
      BY <1>3, <1>4 DEF PastDays
    <3> HIDE DEF D
    <3> QED
      BY <3>1, OpenedWithin
  <2> HIDE DEF D
  <2> QED
    BY <1>3, <1>4, <2>1, <2>2
<1> HIDE DEF n, s
<1>8. SummaryRight(n)
  BY <1>4, <1>6, <1>7 DEF SummaryRight
<1> QED
  BY <1>5, <1>6, <1>8 DEF OverviewRight

LEMMA CountRight ==
  ASSUME TypeOK, ReqInv, NEW q \in Requests, NEW part \in {"ticketsCreated", "byAgent"}, CountFor(q, part)
  PROVE  SummaryRight(req'[q]) /\ OverviewRight(req'[q])
<1>1. req[q] \in Overview /\ OverviewRight(req[q]) /\ req[q].pc = "counting"
  BY RequestTyped DEF CountFor, ReqInv
<1> DEFINE s == CreatedIn(req[q].from, req[q].to)
           n == [req[q] EXCEPT ![part] = s]
<1>2. req'[q] = n
  BY DEF CountFor, TypeOK
<1> HIDE DEF s
<1>3. /\ n.pc = "counting" /\ n.from = req[q].from /\ n.to = req[q].to /\ n.today = req[q].today
      /\ n.ticketsCreated = s \/ n.ticketsCreated = req[q].ticketsCreated
      /\ n.byAgent = s \/ n.byAgent = req[q].byAgent
  BY <1>1 DEF Overview
<1> HIDE DEF n
<1>4. OverviewRight(n)
  BY <1>1, <1>3 DEF OverviewRight, s
<1> QED
  BY <1>2, <1>3, <1>4 DEF SummaryRight

LEMMA RequestRight ==
  ASSUME TypeOK, FactInv, StatsInv, ReqInv, Request, NEW q \in Requests
  PROVE  req'[q] = req[q] \/ (SummaryRight(req'[q]) /\ OverviewRight(req'[q]))
<1>0. req \in [Requests -> Summary \union Overview]
  BY DEF TypeOK
<1>1. PICK p \in Requests :
        \/ \E rg \in Ranges :
             \/ \E c \in Chats : BeginSummary(p, c, rg[1], rg[2])
             \/ BeginOverview(p, rg[1], rg[2])
        \/ ReadStored(p)
        \/ QueryToday(p)
        \/ \E part \in {"ticketsCreated", "byAgent"} : CountFor(p, part)
        \/ Respond(p)
  BY DEF Request
<1>2. CASE p # q
  BY <1>0, <1>1, <1>2 DEF BeginSummary, BeginOverview, ReadStored, QueryToday, CountFor, Respond
<1>3. ASSUME p = q, NEW rg \in Ranges, BeginOverview(p, rg[1], rg[2])
      PROVE  SummaryRight(req'[q]) /\ OverviewRight(req'[q])
  BY <1>0, <1>3, NowTyped DEF BeginOverview, SummaryRight, OverviewRight
<1>4. ASSUME p = q, Respond(p) PROVE SummaryRight(req'[q]) /\ OverviewRight(req'[q])
  BY <1>0, <1>4 DEF Respond, IdleRequest, SummaryRight, OverviewRight
<1> QED
  BY <1>1, <1>2, <1>3, <1>4, BeginRight, ReadRight, TodayRight, CountRight

LEMMA ReqStep ==
  ASSUME TypeOK, FactInv, StatsInv, ReqInv, TypeOK', [Next]_vars
  PROVE  ReqInv'
<1>1. ASSUME NEW q \in Requests, NEW r \in {req'[q]}
      PROVE  SummaryRight(r) /\ OverviewRight(r) /\ r \in Summary \union Overview
  <2>1. r \in Summary \union Overview
    BY DEF TypeOK
  <2>2. CASE req'[q] = req[q]
    BY <2>1, <2>2 DEF ReqInv
  <2>3. CASE Request
    BY <2>1, <2>2, <2>3, RequestRight
  <2>4. Request \/ UNCHANGED req
    BY DEF Next, Tick, System, Open, Incoming, Close, Solve, Reply, vars,
           Worker, JobStep, Take, ReadChats, Query, Upsert, Resume, RunFails, Stop, Boot
  <2> QED
    BY <2>2, <2>3, <2>4
<1>2. \A q \in Requests : \A r \in {req'[q]} : SummaryRight(r)' /\ OverviewRight(r)'
  BY <1>1, SummaryLasts, OverviewLasts
<1> QED
  BY <1>2 DEF ReqInv

-----------------------------------------------------------------------------
(* The invariant. *)

LEMMA AInvInit == Init => AInv
<1> SUFFICES ASSUME Init PROVE AInv
  OBVIOUS
<1>0. 1 \in Ticks /\ 0 \in Days /\ Day(1) = 0
  <2>1. StartOfDay(0) <= 1 /\ 1 < StartOfDay(0 + 1)
    BY DayStarts
  <2>2. Day(1) = 0
    BY <2>1, DayIs
  <2> QED
    BY <2>2, DayOf DEF Ticks, Days
<1>1. NextOneAM(1) \in Nat /\ TicksPerDay < NextOneAM(1)
  BY OneAM
<1>2. TypeOK
  <2>1. messages \in [Tickets -> [{"in", "out"} -> [Days -> 0 .. MaxWrites]]]
    BY DEF Init
  <2>2. stats \in [Chats -> [Days -> Row \union {None}]]
    BY DEF Init
  <2>3. IdleRequest \in Summary
    BY <1>0 DEF IdleRequest, Summary
  <2> QED
    BY <1>0, <1>1, <2>1, <2>2, <2>3, IdleTyped DEF Init, TypeOK
<1>3. FactInv
  BY DEF Init, FactInv, Exists
<1>4. StatsInv
  BY IdleTyped DEF Init, StatsInv, KeptRows
<1>5. ScheduleInv
  BY <1>1, IdleTyped DEF Init, ScheduleInv
<1>6. NightInv
  BY <1>0, DaysNat DEF Init, NightInv
<1>7. ReqInv
  BY DEF Init, ReqInv, SummaryRight, OverviewRight, IdleRequest
<1> QED
  BY <1>2, <1>3, <1>4, <1>5, <1>6, <1>7 DEF AInv

LEMMA AInvStep == AInv /\ [Next]_vars => AInv'
<1> SUFFICES ASSUME AInv, [Next]_vars PROVE AInv'
  OBVIOUS
<1>0. TypeOK /\ FactInv /\ StatsInv /\ ScheduleInv /\ NightInv /\ ReqInv
  BY DEF AInv
<1>1. TypeOK'
  <2>1. CASE UNCHANGED vars
    BY <1>0, <2>1 DEF TypeOK, vars, systemVars, jobVars
  <2> QED
    BY <1>0, <2>1, TickTypes, SystemTypes, WorkerTypes, RequestTypes DEF Next
<1>2. FactInv'
  BY <1>0, <1>1, NextGrows, FactStep
<1>3. StatsInv'
  BY <1>0, <1>1, StatsStep
<1>4. ScheduleInv' /\ NightInv'
  BY <1>0, <1>1, ScheduleStep
<1>5. ReqInv'
  BY <1>0, <1>1, ReqStep
<1> QED
  BY <1>1, <1>2, <1>3, <1>4, <1>5 DEF AInv

LEMMA AInvariant == Spec => []AInv
BY AInvInit, AInvStep, PTL DEF Spec

-----------------------------------------------------------------------------
(* What it says. *)

(* Every variable has its type, whatever the worker, its queries and the   *)
(* rest of the system do: no run is ever for a day before the first, and   *)
(* a row is stored with all its columns.                                   *)
THEOREM AnalyticsTypes == Spec => []TypeOK
<1>1. AInv => TypeOK
  BY DEF AInv
<1> QED
  BY <1>1, AInvariant, PTL

(* The rows that are stored, as StatsInv has them. *)
LEMMA StoredRight ==
  ASSUME AInv, NEW p \in StoredFor
  PROVE  /\ p[1] \in Chats /\ p[2] \in Days /\ p[2] \in Nat
         /\ RowRight(p[1], p[2], stats[p[1]][p[2]]) /\ stats[p[1]][p[2]] \in Row
<1>1. p[1] \in Chats /\ p[2] \in Days /\ stats[p[1]][p[2]] # None
  BY DEF StoredFor
<1>2. stats[p[1]][p[2]] \in KeptRows(p[1], p[2])
  BY <1>1 DEF KeptRows
<1>3. RowRight(p[1], p[2], stats[p[1]][p[2]])
  BY <1>1, <1>2 DEF AInv, StatsInv
<1> QED
  BY <1>1, <1>3, DaysNat DEF AInv, TypeOK

(* A stored row never has to be corrected: its counts of tickets opened    *)
(* and of messages are those of its day, in every later state.             *)
THEOREM StoredDaysAreFinalHolds == Spec => []StoredDaysAreFinal
<1>1. ASSUME AInv PROVE StoredDaysAreFinal
  <2> SUFFICES ASSUME NEW p \in StoredFor
               PROVE  /\ Stored(p, "ticketsOpened") = OpenedIn(p[1], p[2], p[2])
                      /\ Stored(p, "messagesIn") = MessageCount(p[1], "in", p[2])
                      /\ Stored(p, "messagesOut") = MessageCount(p[1], "out", p[2])
    BY DEF StoredDaysAreFinal
  <2>1. Final(p[1], p[2], stats[p[1]][p[2]]) /\ p[2] \in Nat
    BY <1>1, StoredRight DEF RowRight
  <2>2. p[2] .. p[2] = {p[2]}
    BY <2>1
  <2>3. OpenedIn(p[1], p[2], p[2]) = OpenedOn(p[1], {p[2]})
    BY <2>2, OpenedIs
  <2> QED
    BY <2>1, <2>3 DEF Final, Stored
<1> QED
  BY <1>1, AInvariant, PTL

(* Closing again moves closedAt.  What a row says of closings still has    *)
(* the tickets closed last on its day as a lower bound, and those ever     *)
(* closed on it as an upper bound.                                         *)
THEOREM ClosedIsBracketedHolds == Spec => []ClosedIsBracketed
<1>1. ASSUME AInv PROVE ClosedIsBracketed
  BY <1>1, StoredRight DEF RowRight, Bracketed, ClosedIsBracketed, Stored, SamplesOf, SampledOn
<1> QED
  BY <1>1, AInvariant, PTL

(* A stored mean lies between two durations there were on its day, and is  *)
(* missing only if there is none.                                          *)
THEOREM MeansAreOfThatDayHolds == Spec => []MeansAreOfThatDay
<1>1. ASSUME AInv PROVE MeansAreOfThatDay
  <2> SUFFICES ASSUME NEW f \in {"avgFirstResponseSec", "avgResolutionSec"}, NEW p \in StoredFor
               PROVE  LET took == {x.took : x \in SamplesOf(p, f)}
                      IN  IF Stored(p, f) = None THEN Computed(f, p[1], p[2]) = None
                          ELSE (\E n \in took : n <= Stored(p, f)) /\ (\E n \in took : Stored(p, f) <= n)
    BY DEF MeansAreOfThatDay
  <2>1. MeanRight(p[1], p[2], f, Stored(p, f)) /\ p[1] \in Chats /\ p[2] \in Days
    BY <1>1, StoredRight DEF RowRight, Stored
  <2>2. SamplesOf(p, f) = SampledOn(p[1], p[2], f)
    BY DEF SamplesOf, SampledOn
  <2>3. CASE Stored(p, f) = None
    <3>1. Timed(p[1], p[2], f) = {}
      BY <2>1, <2>3 DEF MeanRight, Timed
    <3>2. Cardinality(Timed(p[1], p[2], f)) = 0
      BY <3>1, FS_EmptySet
    <3>3. \E s \in Nat : Computed(f, p[1], p[2]) = Average(s, Cardinality(Timed(p[1], p[2], f)))
      BY <1>1, <2>1, ComputedMean DEF AInv
    <3>4. Computed(f, p[1], p[2]) = None
      BY <3>2, <3>3, AverageTyped
    <3> QED
      BY <2>3, <3>4
  <2>4. CASE Stored(p, f) # None
    BY <2>1, <2>2, <2>4 DEF MeanRight
  <2> QED
    BY <2>3, <2>4
<1> QED
  BY <1>1, AInvariant, PTL

(* Every chat has its row of a day when the day after it has ended, unless *)
(* the run for it is still at work, failed, or had no worker that night.   *)
THEOREM NoDayMissedHolds == Spec => []NoDayMissed
<1>1. ASSUME AInv PROVE NoDayMissed
  BY <1>1 DEF AInv, NightInv, Handled, RowsDone, Exists, NoDayMissed
<1> QED
  BY <1>1, AInvariant, PTL

(* A summary counts no ticket twice, whatever falls between its queries,   *)
(* and misses none that was there, if the past days had been stored.       *)
THEOREM SummaryCountsOnceHolds == Spec => []SummaryCountsOnce
<1>1. ASSUME AInv PROVE SummaryCountsOnce
  <2> SUFFICES ASSUME NEW q \in Requests, req[q].pc = "answered"
               PROVE  /\ req[q].sum <= OpenedIn(req[q].chat, req[q].from, req[q].to)
                      /\ req[q].whole => req[q].sum >= req[q].atStart
    BY DEF SummaryCountsOnce
  <2>1. SummaryRight(req[q])
    BY <1>1 DEF AInv, ReqInv
  <2>2. req[q].sum <= OpenedOn(req[q].chat, req[q].from .. req[q].to)
        /\ (req[q].whole => req[q].atStart <= req[q].sum)
    BY <2>1 DEF SummaryRight
  <2>3. req[q].atStart \in Nat /\ req[q].sum \in Nat
    BY <1>1, RequestTyped DEF AInv, Summary
  <2> QED
    BY <2>2, <2>3, OpenedIs
<1> QED
  BY <1>1, AInvariant, PTL

(* The two counts of an overview of past days agree, though tickets are    *)
(* created between them.                                                   *)
THEOREM OverviewAgreesHolds == Spec => []OverviewAgrees
<1>1. ASSUME AInv PROVE OverviewAgrees
  <2>1. \A q \in Requests : OverviewRight(req[q])
    BY <1>1 DEF AInv, ReqInv
  <2> QED
    BY <2>1 DEF OverviewRight, OverviewAgrees
<1> QED
  BY <1>1, AInvariant, PTL
=============================================================================
