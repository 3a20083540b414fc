---------------------------- MODULE SumTheorems ----------------------------
(***************************************************************************)
(* Sums over finite sets, as the scores and the analytics take them: what  *)
(* the folds of the library compute, whichever element they choose.        *)
(*                                                                         *)
(* Sums over a set of any size need induction over its subsets: it is      *)
(* stated with a set of sets in place of a predicate, and rests on the     *)
(* least of a set of natural numbers.                                      *)
(***************************************************************************)
EXTENDS Integers, FiniteSetsExt, FiniteSetTheorems, WellFoundedInduction, TLAPS

-----------------------------------------------------------------------------
(* Induction over the subsets of a finite set.                             *)

\* A non-empty set of natural numbers has a least one.
LEMMA Least ==
    ASSUME NEW C \in SUBSET Nat, C # {}
    PROVE  \E m \in C : \A n \in C : m <= n
<1>1. PICK m \in C : \A n \in C : <<n, m>> \notin OpToRel(<, Nat)
  BY NatLessThanWellFounded, WFMin
<1>2. \A n \in C : ~(n < m)
  BY <1>1 DEF OpToRel
<1> QED
  BY <1>2

\* What holds of a set if it holds of its proper subsets holds of all.
LEMMA SubsetInduction ==
    ASSUME NEW S, IsFiniteSet(S), NEW G,
           \A T \in SUBSET S : (\A U \in SUBSET T : U # T => U \in G) => T \in G
    PROVE  \A T \in SUBSET S : T \in G
<1> DEFINE Bad == {T \in SUBSET S : T \notin G}
           C == {Cardinality(T) : T \in Bad}
<1> SUFFICES ASSUME Bad # {} PROVE FALSE
  OBVIOUS
<1>1. \A T \in SUBSET S : IsFiniteSet(T) /\ Cardinality(T) \in Nat
  BY FS_Subset, FS_CardinalityType
<1>2. C \in SUBSET Nat /\ C # {}
  BY <1>1
<1>3. PICK m \in C : \A n \in C : m <= n
  <2> HIDE DEF C
  <2> QED
    BY <1>2, Least
<1>4. PICK T \in Bad : m = Cardinality(T)
  BY <1>3
<1>5. PICK U \in SUBSET T : U # T /\ U \notin G
  BY <1>4
<1>6. U \in Bad
  BY <1>4, <1>5
<1>7. Cardinality(T) <= Cardinality(U)
  BY <1>3, <1>4, <1>6
<1>8. Cardinality(U) <= Cardinality(T) /\ (Cardinality(T) = Cardinality(U) => T = U)
  BY <1>1, <1>4, <1>5, FS_Subset
<1>9. Cardinality(U) = Cardinality(T)
  BY <1>1, <1>4, <1>6, <1>7, <1>8
<1> QED
  BY <1>5, <1>8, <1>9

-----------------------------------------------------------------------------
(* The fold.                                                               *)

Picked(s) == CHOOSE x \in s : TRUE

\* The equation of the fold that adds f up over the subsets of T.
Unfolded(f, T, g) ==
    [s \in SUBSET T |-> IF s = {} THEN 0 ELSE f[Picked(s)] + g[s \ {Picked(s)}]]

Solves(g, f, T) == g = Unfolded(f, T, g)

LEMMA PickedIn == ASSUME NEW s, s # {} PROVE Picked(s) \in s
  BY DEF Picked

LEMMA SolutionAt ==
    ASSUME NEW f, NEW T, NEW g, Solves(g, f, T), NEW s \in SUBSET T
    PROVE  g[s] = IF s = {} THEN 0 ELSE f[Picked(s)] + g[s \ {Picked(s)}]
<1>1. g = Unfolded(f, T, g)
  BY DEF Solves
<1>2. Unfolded(f, T, g)[s] = IF s = {} THEN 0 ELSE f[Picked(s)] + g[s \ {Picked(s)}]
  BY DEF Unfolded
<1> QED
  BY <1>1, <1>2

LEMMA OneSolution ==
    ASSUME NEW f, NEW S, IsFiniteSet(S), NEW T \in SUBSET S, NEW U,
           NEW g, Solves(g, f, U), NEW h, Solves(h, f, T), T \subseteq U
    PROVE  g[T] = h[T]
<1> DEFINE G == {s \in SUBSET T : g[s] = h[s]}
<1>1. IsFiniteSet(T)
  BY FS_Subset
<1>2. ASSUME NEW s \in SUBSET T, \A u \in SUBSET s : u # s => u \in G
      PROVE  s \in G
  <2>1. CASE s = {}
    BY <2>1, SolutionAt
  <2>2. CASE s # {}
    <3>1. s \ {Picked(s)} \in SUBSET s /\ s \ {Picked(s)} # s
      BY <2>2, PickedIn
    <3>2. g[s \ {Picked(s)}] = h[s \ {Picked(s)}]
      BY <1>2, <3>1
    <3>3. g[s] = f[Picked(s)] + g[s \ {Picked(s)}]
      BY <2>2, SolutionAt
    <3>4. h[s] = f[Picked(s)] + h[s \ {Picked(s)}]
      BY <2>2, SolutionAt
    <3> QED
      BY <3>2, <3>3, <3>4
  <2> QED
    BY <2>1, <2>2
<1>3. \A s \in SUBSET T : s \in G
  <2> HIDE DEF G
  <2> QED
    BY <1>1, <1>2, SubsetInduction
<1> QED
  BY <1>3

LEMMA SomeSolution ==
    ASSUME NEW f, NEW S, IsFiniteSet(S)
    PROVE  \E g : Solves(g, f, S)
<1> DEFINE G == {T \in SUBSET S : \E g : Solves(g, f, T)}
           Sol(U) == CHOOSE g : Solves(g, f, U)
<1>1. ASSUME NEW T \in SUBSET S, \A U \in SUBSET T : U # T => U \in G
      PROVE  T \in G
  <2> DEFINE g == [s \in SUBSET T |-> IF s = {} THEN 0
                     ELSE f[Picked(s)] + Sol(s \ {Picked(s)})[s \ {Picked(s)}]]
  <2>1. \A U \in SUBSET T : U # T => Solves(Sol(U), f, U)
    BY <1>1
  <2> HIDE DEF Sol
  <2>2. ASSUME NEW r \in SUBSET T, r # T
        PROVE  g[r] = Sol(r)[r]
    <3>1. Solves(Sol(r), f, r)
      BY <2>1, <2>2
    <3>2. Sol(r)[r] = IF r = {} THEN 0 ELSE f[Picked(r)] + Sol(r)[r \ {Picked(r)}]
      BY <3>1, SolutionAt
    <3>3. CASE r = {}
      BY <3>2, <3>3
    <3>4. CASE r # {}
      <4> DEFINE q == r \ {Picked(r)}
      <4>1. q \in SUBSET T /\ q # T /\ q \subseteq r /\ q \in SUBSET S
        BY <2>2, <3>4
      <4>2. Solves(Sol(q), f, q)
        BY <2>1, <4>1
      <4>3. Sol(r)[q] = Sol(q)[q]
        BY <3>1, <4>1, <4>2, OneSolution
      <4> QED
        BY <3>2, <3>4, <4>3
    <3> QED
      BY <3>3, <3>4
  <2>3. \A s \in SUBSET T : s # {} => s \ {Picked(s)} \in SUBSET T /\ s \ {Picked(s)} # T
    BY PickedIn
  <2>4. \A s \in SUBSET T : s # {} =>
           g[s \ {Picked(s)}] = Sol(s \ {Picked(s)})[s \ {Picked(s)}]
    <3> HIDE DEF g
    <3> QED
      BY <2>2, <2>3
  <2>5. g = Unfolded(f, T, g)
    BY <2>4 DEF Unfolded
  <2>6. \E h : Solves(h, f, T)
    BY <2>5 DEF Solves
  <2> QED
    BY <2>6
<1>2. S \in SUBSET S
  OBVIOUS
<1>3. \A T \in SUBSET S : T \in G
  <2> HIDE DEF G
  <2> QED
    BY <1>1, SubsetInduction
<1> QED
  BY <1>2, <1>3

-----------------------------------------------------------------------------
(* Sums of functions.                                                      *)

\* The sum of f over S, as any fold over S computes it that adds up f.
SumOf(f, S) == (CHOOSE g : Solves(g, f, S))[S]

LEMMA SumSolution ==
    ASSUME NEW f, NEW S, IsFiniteSet(S), NEW g, Solves(g, f, S)
    PROVE  g[S] = SumOf(f, S)
<1>1. Solves(CHOOSE h : Solves(h, f, S), f, S)
  BY SomeSolution
<1>2. S \in SUBSET S
  OBVIOUS
<1> QED
  BY <1>1, <1>2, OneSolution DEF SumOf

LEMMA SumEmpty == ASSUME NEW f PROVE SumOf(f, {}) = 0
<1>1. PICK g : Solves(g, f, {})
  BY SomeSolution, FS_EmptySet
<1> QED
  BY <1>1, SumSolution, SolutionAt, FS_EmptySet

LEMMA SumPicked ==
    ASSUME NEW f, NEW S, IsFiniteSet(S), S # {}
    PROVE  SumOf(f, S) = f[Picked(S)] + SumOf(f, S \ {Picked(S)})
<1> DEFINE T == S \ {Picked(S)}
<1>1. PICK g : Solves(g, f, S)
  BY SomeSolution
<1>2. IsFiniteSet(T)
  BY FS_RemoveElement
<1>3. PICK h : Solves(h, f, T)
  BY <1>2, SomeSolution
<1>4. g[T] = h[T]
  BY <1>1, <1>3, OneSolution
<1>5. h[T] = SumOf(f, T)
  BY <1>2, <1>3, SumSolution
<1>6. g[S] = SumOf(f, S)
  BY <1>1, SumSolution
<1>7. g[S] = f[Picked(S)] + g[T]
  BY <1>1, SolutionAt
<1> QED
  BY <1>4, <1>5, <1>6, <1>7

LEMMA SumType ==
    ASSUME NEW D, NEW f \in [D -> Int], NEW S \in SUBSET D, IsFiniteSet(S)
    PROVE  SumOf(f, S) \in Int
<1> DEFINE G == {T \in SUBSET S : SumOf(f, T) \in Int}
<1>1. ASSUME NEW T \in SUBSET S, \A U \in SUBSET T : U # T => U \in G
      PROVE  T \in G
  <2>1. CASE T = {}
    BY <2>1, SumEmpty
  <2>2. CASE T # {}
    <3>1. Picked(T) \in T /\ T \ {Picked(T)} \in SUBSET T /\ T \ {Picked(T)} # T
      BY <2>2, PickedIn
    <3>2. IsFiniteSet(T)
      BY FS_Subset
    <3>3. SumOf(f, T \ {Picked(T)}) \in Int /\ f[Picked(T)] \in Int
      BY <1>1, <3>1
    <3> QED
      BY <2>2, <3>2, <3>3, SumPicked
  <2> QED
    BY <2>1, <2>2
<1>2. \A T \in SUBSET S : T \in G
  <2> HIDE DEF G
  <2> QED
    BY <1>1, SubsetInduction
<1> QED
  BY <1>2

\* Whichever element is taken out.
LEMMA SumRemove ==
    ASSUME NEW D, NEW f \in [D -> Int], NEW S \in SUBSET D, IsFiniteSet(S), NEW x \in S
    PROVE  SumOf(f, S) = f[x] + SumOf(f, S \ {x})
<1> DEFINE G == {T \in SUBSET S : \A y \in T : SumOf(f, T) = f[y] + SumOf(f, T \ {y})}
<1>1. ASSUME NEW T \in SUBSET S, \A U \in SUBSET T : U # T => U \in G, NEW y \in T
      PROVE  SumOf(f, T) = f[y] + SumOf(f, T \ {y})
  <2> DEFINE p == Picked(T)
             R == (T \ {p}) \ {y}
  <2>1. p \in T
    BY PickedIn
  <2>2. IsFiniteSet(T)
    BY FS_Subset
  <2>3. SumOf(f, T) = f[p] + SumOf(f, T \ {p})
    BY <2>2, SumPicked
  <2>4. CASE p = y
    BY <2>3, <2>4
  <2>5. CASE p # y
    <3>1. y \in T \ {p} /\ p \in T \ {y} /\ (T \ {y}) \ {p} = R
      BY <2>1, <2>5
    <3>2. SumOf(f, T \ {p}) = f[y] + SumOf(f, R)
      BY <1>1, <2>1, <3>1
    <3>3. SumOf(f, T \ {y}) = f[p] + SumOf(f, R)
      BY <1>1, <2>1, <3>1
    <3>4. IsFiniteSet(R)
      BY FS_Subset
    <3>5. SumOf(f, R) \in Int /\ f[y] \in Int /\ f[p] \in Int
      BY <2>1, <3>4, SumType
    <3> QED
      BY <2>3, <3>2, <3>3, <3>5
  <2> QED
    BY <2>4, <2>5
<1>2. \A T \in SUBSET S : T \in G
  <2>1. \A T \in SUBSET S : (\A U \in SUBSET T : U # T => U \in G) => T \in G
    BY <1>1
  <2> HIDE DEF G
  <2> QED
    BY <2>1, SubsetInduction
<1> QED
  BY <1>2

\* Only the terms that are added need to be natural numbers.
LEMMA SumNatOn ==
    ASSUME NEW D, NEW f \in [D -> Int], NEW S \in SUBSET D, IsFiniteSet(S),
           \A x \in S : f[x] \in Nat
    PROVE  SumOf(f, S) \in Nat
<1> DEFINE G == {T \in SUBSET S : SumOf(f, T) \in Nat}
<1>1. ASSUME NEW T \in SUBSET S, \A U \in SUBSET T : U # T => U \in G
      PROVE  T \in G
  <2>1. CASE T = {}
    BY <2>1, SumEmpty
  <2>2. CASE T # {}
    <3>1. Picked(T) \in T /\ T \ {Picked(T)} \in SUBSET T /\ T \ {Picked(T)} # T
      BY <2>2, PickedIn
    <3>2. IsFiniteSet(T)
      BY FS_Subset
    <3>3. SumOf(f, T \ {Picked(T)}) \in Nat /\ f[Picked(T)] \in Nat
      BY <1>1, <3>1
    <3> QED
      BY <2>2, <3>2, <3>3, SumPicked
  <2> QED
    BY <2>1, <2>2
<1>2. \A T \in SUBSET S : T \in G
  <2> HIDE DEF G
  <2> QED
    BY <1>1, SubsetInduction
<1> QED
  BY <1>2

\* A sum of no negative numbers.
LEMMA SumNat ==
    ASSUME NEW D, NEW f \in [D -> Nat], NEW S \in SUBSET D, IsFiniteSet(S)
    PROVE  SumOf(f, S) \in Nat
<1>1. f \in [D -> Int] /\ \A x \in S : f[x] \in Nat
  OBVIOUS
<1> QED
  BY <1>1, SumNatOn

\* SumFunction computes the sum.
LEMMA FunctionSum ==
    ASSUME NEW D, IsFiniteSet(D), NEW f \in [D -> Int]
    PROVE  SumFunction(f) = SumOf(f, D)
<1> DEFINE H(g) == [s \in SUBSET D |->
                      IF s = {} THEN 0
                      ELSE f[CHOOSE x \in s : TRUE] + g[s \ {CHOOSE x \in s : TRUE}]]
           g1 == CHOOSE g : g = H(g)
<1>1. \A g : H(g) = Unfolded(f, D, g)
  BY DEF Unfolded, Picked
<1>2. SumFunction(f) = g1[D]
  BY DEF SumFunction, SumFunctionOnSet, FoldFunctionOnSet, MapThenFoldSet
<1> HIDE DEF H
<1>3. PICK g : Solves(g, f, D)
  BY SomeSolution
<1>4. g = H(g)
  BY <1>1, <1>3 DEF Solves
<1>5. g1 = H(g1)
  BY <1>4
<1> HIDE DEF g1
<1>6. Solves(g1, f, D)
  BY <1>1, <1>5 DEF Solves
<1> QED
  BY <1>2, <1>6, SumSolution

LEMMA IntValued == ASSUME NEW D, NEW f \in [D -> Nat] PROVE f \in [D -> Int]
  OBVIOUS

\* SumRemove as a formula, to be used of sets of numbers.
Removes(f, D, S, x) ==
    f \in [D -> Int] /\ S \in SUBSET D /\ IsFiniteSet(S) /\ x \in S
       => SumOf(f, S) = f[x] + SumOf(f, S \ {x})

LEMMA SumWithout == \A f, D, S, x : Removes(f, D, S, x)
  BY SumRemove DEF Removes

\* A finite set of numbers has a greatest one.
LEMMA Greatest ==
    ASSUME NEW C \in SUBSET Nat, IsFiniteSet(C), C # {}
    PROVE  \E m \in C : \A n \in C : n <= m
<1> DEFINE G == {T \in SUBSET C : T # {} => \E m \in T : \A n \in T : n <= m}
<1>1. ASSUME NEW T \in SUBSET C, \A U \in SUBSET T : U # T => U \in G, T # {}
      PROVE  \E m \in T : \A n \in T : n <= m
  <2>1. PICK z \in T : TRUE
    BY <1>1
  <2> DEFINE V == T \ {z}
  <2>2. V \in SUBSET T /\ V # T
    BY <2>1
  <2>3. CASE V = {}
    <3>1. \A n \in T : n <= z
      BY <2>1, <2>3
    <3> QED
      BY <3>1
  <2>4. CASE V # {}
    <3>1. PICK m \in V : \A n \in V : n <= m
      BY <1>1, <2>2, <2>4
    <3>2. m \in T /\ m \in Nat /\ z \in Nat /\ V \subseteq Nat
      BY <2>1, <2>2, <3>1
    <3>3. CASE z <= m
      <4>1. \A n \in T : n <= m
        BY <3>1, <3>3
      <4> QED
        BY <3>2, <4>1
    <3>4. CASE m <= z
      <4>1. \A n \in T : n <= z
        BY <3>1, <3>2, <3>4
      <4> QED
        BY <4>1
    <3> QED
      BY <3>2, <3>3, <3>4
  <2> QED
    BY <2>3, <2>4
<1>2. C \in G
  <2>1. \A T \in SUBSET C : (\A U \in SUBSET T : U # T => U \in G) => T \in G
    BY <1>1
  <2> HIDE DEF G
  <2> QED
    BY <2>1, SubsetInduction
<1> QED
  BY <1>2

-----------------------------------------------------------------------------
(* Sums of several functions.                                              *)

\* Function h is a times f plus g over S; the sum of the two; and a times f.
Combines(h, a, f, g, S) == \A x \in S : h[x] = a * f[x] + g[x]

Adds(h, f, g, S) == \A x \in S : h[x] = f[x] + g[x]

Scales(h, a, f, S) == \A x \in S : h[x] = a * f[x]

\* A sum is linear (as a formula, which the provers match more easily).
Linear(h, a, f, g, D, S) ==
    /\ S \in SUBSET D /\ IsFiniteSet(S) /\ a \in Int
    /\ f \in [D -> Int] /\ g \in [D -> Int] /\ h \in [D -> Int] /\ Combines(h, a, f, g, S)
    => SumOf(h, S) = a * SumOf(f, S) + SumOf(g, S)

LEMMA SumLinear ==
    ASSUME NEW h, NEW a, NEW f, NEW g, NEW D, NEW S
    PROVE  Linear(h, a, f, g, D, S)
<1> SUFFICES ASSUME S \in SUBSET D, IsFiniteSet(S), a \in Int, f \in [D -> Int],
                    g \in [D -> Int], h \in [D -> Int], Combines(h, a, f, g, S)
             PROVE  SumOf(h, S) = a * SumOf(f, S) + SumOf(g, S)
  BY DEF Linear
<1> DEFINE G == {T \in SUBSET S : SumOf(h, T) = a * SumOf(f, T) + SumOf(g, T)}
<1>1. ASSUME NEW T \in SUBSET S, \A U \in SUBSET T : U # T => U \in G
      PROVE  T \in G
  <2>1. CASE T = {}
    <3>1. SumOf(h, T) = 0 /\ SumOf(f, T) = 0 /\ SumOf(g, T) = 0
      BY <2>1, SumEmpty
    <3> QED
      BY <3>1
  <2>2. CASE T # {}
    <3>1. PICK x \in T : TRUE
      BY <2>2
    <3>2. PICK R : R = T \ {x}
      OBVIOUS
    <3>3. R \in SUBSET T /\ R # T /\ R \in SUBSET D /\ x \in D /\ T \in SUBSET D
      BY <3>1, <3>2
    <3>4. IsFiniteSet(T) /\ IsFiniteSet(R)
      BY <3>3, FS_Subset
    <3>5. /\ SumOf(f, T) = f[x] + SumOf(f, R) /\ SumOf(g, T) = g[x] + SumOf(g, R)
          /\ SumOf(h, T) = h[x] + SumOf(h, R)
      BY <3>1, <3>2, <3>3, <3>4, SumRemove
    <3>6. SumOf(h, R) = a * SumOf(f, R) + SumOf(g, R)
      BY <1>1, <3>3
    <3>7. PICK p, q, r, s, t, u : /\ p = f[x] /\ q = g[x] /\ r = h[x] /\ s = SumOf(f, R)
                                  /\ t = SumOf(g, R) /\ u = SumOf(h, R)
      OBVIOUS
    <3>8. p \in Int /\ q \in Int /\ r \in Int /\ s \in Int /\ t \in Int /\ u \in Int
      BY <3>3, <3>4, <3>7, SumType
    <3>9. r = a * p + q /\ u = a * s + t
      BY <3>1, <3>6, <3>7 DEF Combines
    <3>10. r + u = a * (p + s) + (q + t)
      BY <3>8, <3>9
    <3> QED
      BY <3>5, <3>7, <3>10
  <2> QED
    BY <2>1, <2>2
<1>2. S \in G
  <2>1. \A T \in SUBSET S : (\A U \in SUBSET T : U # T => U \in G) => T \in G
    BY <1>1
  <2> HIDE DEF G
  <2> QED
    BY <2>1, SubsetInduction
<1> QED
  BY <1>2

\* The same as many times as there are elements.
LEMMA SumConstant ==
    ASSUME NEW D, NEW S \in SUBSET D, IsFiniteSet(S), NEW c \in Int,
           NEW f \in [D -> Int], \A x \in S : f[x] = c
    PROVE  SumOf(f, S) = c * Cardinality(S)
<1> DEFINE G == {T \in SUBSET S : SumOf(f, T) = c * Cardinality(T)}
<1>1. ASSUME NEW T \in SUBSET S, \A U \in SUBSET T : U # T => U \in G
      PROVE  T \in G
  <2>1. CASE T = {}
    <3>1. SumOf(f, T) = 0 /\ Cardinality(T) = 0
      BY <2>1, SumEmpty, FS_EmptySet
    <3> QED
      BY <3>1
  <2>2. CASE T # {}
    <3>1. PICK x \in T : TRUE
      BY <2>2
    <3>2. PICK R : R = T \ {x}
      OBVIOUS
    <3>3. R \in SUBSET T /\ R # T /\ R \in SUBSET D /\ x \in D /\ T \in SUBSET D
      BY <3>1, <3>2
    <3>4. IsFiniteSet(T) /\ IsFiniteSet(R)
      BY <3>3, FS_Subset
    <3>5. SumOf(f, T) = c + SumOf(f, R)
      BY <3>1, <3>2, <3>3, <3>4, SumRemove
    <3>6. SumOf(f, R) = c * Cardinality(R)
      BY <1>1, <3>3
    <3>7. PICK n, m : n = Cardinality(T) /\ m = Cardinality(R)
      OBVIOUS
    <3>8. n \in Nat /\ m \in Nat /\ m = n - 1
      BY <3>1, <3>2, <3>4, <3>7, FS_RemoveElement, FS_CardinalityType
    <3>9. c + c * m = c * n
      BY <3>8
    <3> QED
      BY <3>5, <3>6, <3>7, <3>9
  <2> QED
    BY <2>1, <2>2
<1>2. S \in G
  <2>1. \A T \in SUBSET S : (\A U \in SUBSET T : U # T => U \in G) => T \in G
    BY <1>1
  <2> HIDE DEF G
  <2> QED
    BY <2>1, SubsetInduction
<1> QED
  BY <1>2

Plus(h, f, g, D, S) ==
    /\ S \in SUBSET D /\ IsFiniteSet(S)
    /\ f \in [D -> Int] /\ g \in [D -> Int] /\ h \in [D -> Int] /\ Adds(h, f, g, S)
    => SumOf(h, S) = SumOf(f, S) + SumOf(g, S)

LEMMA SumPlus ==
    ASSUME NEW h, NEW f, NEW g, NEW D, NEW S
    PROVE  Plus(h, f, g, D, S)
<1> SUFFICES ASSUME S \in SUBSET D, IsFiniteSet(S), f \in [D -> Int], g \in [D -> Int],
                    h \in [D -> Int], Adds(h, f, g, S)
             PROVE  SumOf(h, S) = SumOf(f, S) + SumOf(g, S)
  BY DEF Plus
<1>1. PICK a \in Int : a = 1
  OBVIOUS
<1>2. Combines(h, a, f, g, S)
  BY <1>1 DEF Combines, Adds
<1>4. SumOf(h, S) = a * SumOf(f, S) + SumOf(g, S)
  <2>1. Linear(h, a, f, g, D, S)
    BY SumLinear
  <2> QED
    BY <1>2, <2>1 DEF Linear
<1>3. SumOf(f, S) \in Int
  BY SumType
<1> QED
  BY <1>1, <1>3, <1>4

Scaled(h, a, f, D, S) ==
    /\ S \in SUBSET D /\ IsFiniteSet(S) /\ a \in Int
    /\ f \in [D -> Int] /\ h \in [D -> Int] /\ Scales(h, a, f, S)
    => SumOf(h, S) = a * SumOf(f, S)

LEMMA SumScaled ==
    ASSUME NEW h, NEW a, NEW f, NEW D, NEW S
    PROVE  Scaled(h, a, f, D, S)
<1> SUFFICES ASSUME S \in SUBSET D, IsFiniteSet(S), a \in Int, f \in [D -> Int],
                    h \in [D -> Int], Scales(h, a, f, S)
             PROVE  SumOf(h, S) = a * SumOf(f, S)
  BY DEF Scaled
<1> DEFINE z == [x \in D |-> 0]
<1>1. z \in [D -> Int] /\ \A x \in S : z[x] = 0
  OBVIOUS
<1> HIDE DEF z
<1>2. Combines(h, a, f, z, S)
  <2>1. \A x \in S : a * f[x] \in Int
    OBVIOUS
  <2> QED
    BY <1>1, <2>1 DEF Combines, Scales
<1>3. SumOf(h, S) = a * SumOf(f, S) + SumOf(z, S)
  <2>1. Linear(h, a, f, z, D, S)
    BY SumLinear
  <2> QED
    BY <1>1, <1>2, <2>1 DEF Linear
<1>4. SumOf(z, S) = 0 * Cardinality(S)
  <2>1. PICK c \in Int : c = 0
    OBVIOUS
  <2>2. SumOf(z, S) = c * Cardinality(S)
    <3>1. \A x \in S : z[x] = c
      BY <1>1, <2>1
    <3> QED
      BY <1>1, <3>1, SumConstant
  <2> QED
    BY <2>1, <2>2
<1>5. a * SumOf(f, S) \in Int /\ Cardinality(S) \in Int
  <2>1. SumOf(f, S) \in Int /\ Cardinality(S) \in Nat
    BY SumType, FS_CardinalityType
  <2> QED
    BY <2>1
<1>6. 0 * Cardinality(S) = 0
  BY <1>5
<1> QED
  BY <1>3, <1>4, <1>5, <1>6

\* Only the values over S matter.
LEMMA SumAgree ==
    ASSUME NEW D, NEW S \in SUBSET D, IsFiniteSet(S),
           NEW f \in [D -> Int], NEW h \in [D -> Int], \A x \in S : h[x] = f[x]
    PROVE  SumOf(h, S) = SumOf(f, S)
<1>1. PICK a \in Int : a = 1
  OBVIOUS
<1>2. Scales(h, a, f, S)
  BY <1>1 DEF Scales
<1>3. SumOf(h, S) = a * SumOf(f, S)
  <2>1. Scaled(h, a, f, D, S)
    BY SumScaled
  <2> QED
    BY <1>2, <2>1 DEF Scaled
<1>4. SumOf(f, S) \in Int
  BY SumType
<1> QED
  BY <1>1, <1>3, <1>4

\* A sum grows with its terms.
LEMMA SumMonotone ==
    ASSUME NEW D, NEW S \in SUBSET D, IsFiniteSet(S),
           NEW f \in [D -> Int], NEW h \in [D -> Int], \A x \in S : f[x] <= h[x]
    PROVE  SumOf(f, S) <= SumOf(h, S)
<1> DEFINE d == [x \in S |-> h[x] - f[x]]
           e == [x \in D |-> h[x] - f[x]]
<1>1. d \in [S -> Nat] /\ e \in [D -> Int] /\ Adds(h, f, e, S) /\ \A x \in S : e[x] = d[x]
  BY DEF Adds
<1> HIDE DEF d, e
<1>2. SumOf(h, S) = SumOf(f, S) + SumOf(e, S)
  <2>1. Plus(h, f, e, D, S)
    BY SumPlus
  <2> QED
    BY <1>1, <2>1 DEF Plus
<1>3. SumOf(e, S) \in Nat
  BY <1>1, SumNatOn
<1>4. SumOf(f, S) \in Int
  BY SumType
<1> QED
  BY <1>2, <1>3, <1>4

\* No natural numbers add up to nothing but zeros.
LEMMA SumZero ==
    ASSUME NEW D, NEW f \in [D -> Nat], NEW S \in SUBSET D, IsFiniteSet(S)
    PROVE  SumOf(f, S) = 0 <=> \A x \in S : f[x] = 0
<1>1. f \in [D -> Int]
  OBVIOUS
<1>2. ASSUME NEW x \in S, f[x] # 0
      PROVE  SumOf(f, S) # 0
  <2>1. SumOf(f, S) = f[x] + SumOf(f, S \ {x})
    BY <1>1, <1>2, SumRemove
  <2>2. SumOf(f, S \ {x}) \in Nat
    <3>1. IsFiniteSet(S \ {x}) /\ S \ {x} \in SUBSET D
      BY FS_RemoveElement
    <3> QED
      BY <3>1, SumNat
  <2>3. f[x] \in Nat
    OBVIOUS
  <2> QED
    BY <1>2, <2>1, <2>2, <2>3
<1>3. ASSUME \A x \in S : f[x] = 0
      PROVE  SumOf(f, S) = 0
  <2>1. PICK c \in Int : c = 0
    OBVIOUS
  <2>2. SumOf(f, S) = c * Cardinality(S)
    <3>1. \A x \in S : f[x] = c
      BY <1>3, <2>1
    <3> QED
      BY <1>1, <3>1, SumConstant
  <2> QED
    BY <2>1, <2>2, FS_CardinalityType
<1> QED
  BY <1>2, <1>3

-----------------------------------------------------------------------------
(* Sums over unions, images and products.                                  *)

Unites(f, D, S, T) ==
    /\ f \in [D -> Int] /\ S \in SUBSET D /\ IsFiniteSet(S) /\ T \in SUBSET D /\ IsFiniteSet(T)
    /\ S \cap T = {}
    => IsFiniteSet(S \union T) /\ SumOf(f, S \union T) = SumOf(f, S) + SumOf(f, T)

LEMMA SumUnion ==
    ASSUME NEW f, NEW D, NEW S, NEW T
    PROVE  Unites(f, D, S, T)
<1> SUFFICES ASSUME f \in [D -> Int], S \in SUBSET D, IsFiniteSet(S),
                    T \in SUBSET D, IsFiniteSet(T), S \cap T = {}
             PROVE  /\ IsFiniteSet(S \union T)
                    /\ SumOf(f, S \union T) = SumOf(f, S) + SumOf(f, T)
  BY DEF Unites
<1> DEFINE G == {U \in SUBSET T : SumOf(f, S \union U) = SumOf(f, S) + SumOf(f, U)}
<1>1. ASSUME NEW U \in SUBSET T, \A V \in SUBSET U : V # U => V \in G
      PROVE  U \in G
  <2>1. CASE U = {}
    <3>1. SumOf(f, U) = 0 /\ SumOf(f, S) \in Int
      BY <2>1, SumEmpty, SumType
    <3>2. SumOf(f, S \union U) = SumOf(f, S)
      <4>1. S \union U = S
        BY <2>1
      <4> QED
        BY <4>1, Zenon
    <3> QED
      BY <3>1, <3>2
  <2>2. CASE U # {}
    <3>1. PICK x \in U : TRUE
      BY <2>2
    <3>2. PICK V : V = U \ {x}
      OBVIOUS
    <3>3. PICK A, B : A = S \union U /\ B = S \union V
      OBVIOUS
    <3>4. /\ V \in SUBSET U /\ V # U /\ V \in SUBSET D /\ U \in SUBSET D
          /\ A \in SUBSET D /\ B \in SUBSET D /\ x \in A /\ A \ {x} = B /\ x \in D
      BY <3>1, <3>2, <3>3
    <3>5. IsFiniteSet(U) /\ IsFiniteSet(V) /\ IsFiniteSet(A) /\ IsFiniteSet(B)
      BY <3>3, <3>4, FS_Subset, FS_Union
    <3>6. SumOf(f, U) = f[x] + SumOf(f, V) /\ SumOf(f, A) = f[x] + SumOf(f, B)
      BY <3>1, <3>2, <3>4, <3>5, SumRemove
    <3>7. SumOf(f, B) = SumOf(f, S) + SumOf(f, V)
      BY <1>1, <3>3, <3>4
    <3>8. /\ SumOf(f, S) \in Int /\ SumOf(f, V) \in Int /\ f[x] \in Int
      BY <3>4, <3>5, SumType
    <3> QED
      BY <3>3, <3>6, <3>7, <3>8
  <2> QED
    BY <2>1, <2>2
<1>2. T \in G
  <2>1. \A U \in SUBSET T : (\A V \in SUBSET U : V # U => V \in G) => U \in G
    BY <1>1
  <2> HIDE DEF G
  <2> QED
    BY <2>1, SubsetInduction
<1> QED
  BY <1>2, FS_Union

Image(p, S) == {p[x] : x \in S}

\* Function g over S is f with its arguments renamed by p.
Renames(g, f, p, S) ==
    /\ \A x, y \in S : p[x] = p[y] => x = y
    /\ \A x \in S : g[x] = f[p[x]]

\* Renaming the elements changes no sum.
Renamed(g, f, p, S, D) ==
    /\ IsFiniteSet(S) /\ p \in [S -> D] /\ f \in [D -> Int] /\ g \in [S -> Int]
    /\ Renames(g, f, p, S)
    => /\ IsFiniteSet(Image(p, S)) /\ Cardinality(Image(p, S)) = Cardinality(S)
       /\ SumOf(f, Image(p, S)) = SumOf(g, S)

LEMMA SumRenamed ==
    ASSUME NEW g, NEW f, NEW p, NEW S, NEW D
    PROVE  Renamed(g, f, p, S, D)
<1> SUFFICES ASSUME IsFiniteSet(S), p \in [S -> D], f \in [D -> Int], g \in [S -> Int],
                    Renames(g, f, p, S)
             PROVE  /\ IsFiniteSet(Image(p, S)) /\ Cardinality(Image(p, S)) = Cardinality(S)
                    /\ SumOf(f, Image(p, S)) = SumOf(g, S)
  BY DEF Renamed
<1> DEFINE G == {T \in SUBSET S : SumOf(f, Image(p, T)) = SumOf(g, T)}
<1>1. IsFiniteSet(Image(p, S)) /\ Cardinality(Image(p, S)) = Cardinality(S)
  <2>1. p \in Bijection(S, Image(p, S))
    BY DEF Renames, Image, Bijection, Injection, Surjection, IsInjective
  <2>2. ExistsBijection(S, Image(p, S))
    BY <2>1 DEF ExistsBijection
  <2> QED
    BY <2>2, FS_Bijection
<1>2. ASSUME NEW T \in SUBSET S, \A U \in SUBSET T : U # T => U \in G
      PROVE  T \in G
  <2>1. CASE T = {}
    <3>1. Image(p, T) = {} /\ SumOf(f, {}) = 0 /\ SumOf(g, T) = 0
      BY <2>1, SumEmpty DEF Image
    <3> QED
      BY <3>1
  <2>2. CASE T # {}
    <3>1. PICK x \in T : TRUE
      BY <2>2
    <3>2. PICK R : R = T \ {x}
      OBVIOUS
    <3>3. PICK A, B : A = Image(p, T) /\ B = Image(p, R)
      OBVIOUS
    <3>4. /\ R \in SUBSET T /\ R # T /\ R \in SUBSET S /\ x \in S
          /\ A \in SUBSET D /\ B \in SUBSET D /\ p[x] \in A /\ A \ {p[x]} = B
          /\ A \in SUBSET Image(p, S) /\ g[x] = f[p[x]]
      BY <3>1, <3>2, <3>3 DEF Image, Renames
    <3>5. IsFiniteSet(T) /\ IsFiniteSet(A) /\ IsFiniteSet(R) /\ IsFiniteSet(B)
      BY <1>1, <3>4, FS_Subset
    <3>6. SumOf(g, T) = g[x] + SumOf(g, R)
      BY <3>1, <3>2, <3>5, SumRemove
    <3>7. SumOf(f, A) = f[p[x]] + SumOf(f, B)
      BY <3>4, <3>5, SumRemove
    <3>8. SumOf(f, B) = SumOf(g, R)
      BY <1>2, <3>3, <3>4
    <3> QED
      BY <3>3, <3>4, <3>6, <3>7, <3>8
  <2> QED
    BY <2>1, <2>2
<1>3. S \in G
  <2>1. \A T \in SUBSET S : (\A U \in SUBSET T : U # T => U \in G) => T \in G
    BY <1>2
  <2> HIDE DEF G
  <2> QED
    BY <1>1, <2>1, SubsetInduction
<1> QED
  BY <1>1, <1>3

\* Only the values over S matter, whatever the domains.
LEMMA SumRestricted ==
    ASSUME NEW D, NEW f \in [D -> Int], NEW S \in SUBSET D, IsFiniteSet(S),
           NEW g \in [S -> Int], \A x \in S : g[x] = f[x]
    PROVE  SumOf(g, S) = SumOf(f, S)
<1> DEFINE p == [x \in S |-> x]
<1>1. Renamed(g, f, p, S, D)
  BY SumRenamed
<1>2. p \in [S -> D] /\ Renames(g, f, p, S)
  BY DEF Renames
<1>3. Image(p, S) = S
  BY DEF Image
<1> HIDE DEF p
<1> QED
  BY <1>1, <1>2, <1>3 DEF Renamed

\* A table is added up row by row.
AddsRows(row, f, X, Y) == \A x \in X : row[x] = SumOf([y \in Y |-> f[<<x, y>>]], Y)

RowByRow(row, f, X, Y) ==
    /\ IsFiniteSet(X) /\ IsFiniteSet(Y) /\ f \in [X \X Y -> Int] /\ row \in [X -> Int]
    /\ AddsRows(row, f, X, Y)
    => IsFiniteSet(X \X Y) /\ SumOf(f, X \X Y) = SumOf(row, X)

LEMMA SumOfRows ==
    ASSUME NEW row, NEW f, NEW X, NEW Y
    PROVE  RowByRow(row, f, X, Y)
<1> SUFFICES ASSUME IsFiniteSet(X), IsFiniteSet(Y), f \in [X \X Y -> Int], row \in [X -> Int],
                    AddsRows(row, f, X, Y)
             PROVE  IsFiniteSet(X \X Y) /\ SumOf(f, X \X Y) = SumOf(row, X)
  BY DEF RowByRow
<1> DEFINE G == {T \in SUBSET X : SumOf(f, T \X Y) = SumOf(row, T)}
<1>1. IsFiniteSet(X \X Y)
  BY FS_Product
<1>2. ASSUME NEW T \in SUBSET X, \A U \in SUBSET T : U # T => U \in G
      PROVE  T \in G
  <2>1. CASE T = {}
    <3>1. T \X Y = {} /\ SumOf(f, {}) = 0 /\ SumOf(row, T) = 0
      BY <2>1, SumEmpty
    <3> QED
      BY <3>1
  <2>2. CASE T # {}
    <3>1. PICK x \in T : TRUE
      BY <2>2
    <3>2. PICK R : R = T \ {x}
      OBVIOUS
    <3>3. PICK A, B, C : A = T \X Y /\ B = R \X Y /\ C = {x} \X Y
      OBVIOUS
    <3>4. /\ R \in SUBSET T /\ R # T /\ R \in SUBSET X /\ x \in X
          /\ A \in SUBSET (X \X Y) /\ B \in SUBSET (X \X Y) /\ C \in SUBSET (X \X Y)
          /\ A = B \union C /\ B \cap C = {}
      BY <3>1, <3>2, <3>3
    <3>5. IsFiniteSet(T) /\ IsFiniteSet(R) /\ IsFiniteSet(B) /\ IsFiniteSet(C)
      BY <1>1, <3>4, FS_Subset
    <3>6. SumOf(f, A) = SumOf(f, B) + SumOf(f, C)
      <4>1. PICK D : D = X \X Y
        OBVIOUS
      <4>2. /\ f \in [D -> Int] /\ B \in SUBSET D /\ C \in SUBSET D /\ B \cap C = {}
            /\ IsFiniteSet(B) /\ IsFiniteSet(C)
        BY <3>4, <3>5, <4>1
      <4>3. SumOf(f, B \union C) = SumOf(f, B) + SumOf(f, C)
        <5>1. Unites(f, D, B, C)
          BY SumUnion
        <5> QED
          BY <4>2, <5>1 DEF Unites
      <4> QED
        BY <3>4, <4>3
    <3>7. SumOf(row, T) = row[x] + SumOf(row, R)
      BY <3>1, <3>2, <3>5, SumRemove
    <3>8. SumOf(f, C) = row[x]
      <4> DEFINE p == [y \in Y |-> <<x, y>>]
                 g == [y \in Y |-> f[<<x, y>>]]
      <4>1. p \in [Y -> X \X Y] /\ g \in [Y -> Int] /\ Renames(g, f, p, Y)
        BY <3>4 DEF Renames
      <4>2. Image(p, Y) = C
        BY <3>3 DEF Image
      <4>3. row[x] = SumOf(g, Y)
        BY <3>4 DEF AddsRows
      <4> HIDE DEF p, g
      <4>4. SumOf(f, Image(p, Y)) = SumOf(g, Y)
        <5>1. Renamed(g, f, p, Y, X \X Y)
          BY SumRenamed
        <5> QED
          BY <4>1, <5>1 DEF Renamed
      <4> QED
        BY <4>2, <4>3, <4>4
    <3>9. SumOf(f, B) = SumOf(row, R)
      BY <1>2, <3>3, <3>4
    <3>10. row[x] \in Int /\ SumOf(row, R) \in Int
      BY <3>4, <3>5, SumType
    <3> QED
      BY <3>3, <3>6, <3>7, <3>8, <3>9, <3>10
  <2> QED
    BY <2>1, <2>2
<1>3. X \in G
  <2>1. \A T \in SUBSET X : (\A U \in SUBSET T : U # T => U \in G) => T \in G
    BY <1>2
  <2> HIDE DEF G
  <2> QED
    BY <2>1, SubsetInduction
<1> QED
  BY <1>1, <1>3

-----------------------------------------------------------------------------
(* Ties.                                                                   *)

\* Somebody has most, and of those the lowest rank.
LEMMA FirstByRank ==
    ASSUME NEW K, IsFiniteSet(K), K # {}, NEW t \in [K -> Nat], NEW q \in [K -> Nat],
           \A k, l \in K : q[k] = q[l] => k = l
    PROVE  \E k \in K : \A l \in K \ {k} : t[k] > t[l] \/ (t[k] = t[l] /\ q[k] < q[l])
<1> DEFINE C == {t[k] : k \in K}
<1>1. C \in SUBSET Nat /\ C # {} /\ IsFiniteSet(C)
  <2>1. C \in SUBSET Nat /\ C # {}
    OBVIOUS
  <2>2. t \in Surjection(K, C)
    BY DEF Surjection
  <2> HIDE DEF C
  <2> QED
    BY <2>1, <2>2, FS_Surjection
<1>2. PICK m \in C : \A n \in C : n <= m
  <2> HIDE DEF C
  <2> QED
    BY <1>1, Greatest
<1> DEFINE B == {q[k] : k \in {k \in K : t[k] = m}}
<1>3. B \in SUBSET Nat /\ B # {}
  BY <1>2
<1>4. PICK n \in B : \A o \in B : n <= o
  <2> HIDE DEF B
  <2> QED
    BY <1>3, Least
<1>5. PICK k \in K : t[k] = m /\ q[k] = n
  BY <1>4
<1>6. ASSUME NEW l \in K \ {k}
      PROVE  t[k] > t[l] \/ (t[k] = t[l] /\ q[k] < q[l])
  <2>1. t[l] <= m /\ t[k] = m /\ t[l] \in Nat /\ m \in Nat
    BY <1>2, <1>5
  <2>2. t[l] = m => n <= q[l]
    BY <1>4
  <2>3. q[l] # n /\ q[l] \in Nat /\ n \in Nat
    BY <1>5
  <2> QED
    BY <1>5, <2>1, <2>2, <2>3
<1> QED
  BY <1>6

\* Somebody has fewest, and of those the highest rank.
LEMMA LastByRank ==
    ASSUME NEW K, IsFiniteSet(K), K # {}, NEW t \in [K -> Nat], NEW q \in [K -> Nat],
           \A k, l \in K : q[k] = q[l] => k = l
    PROVE  \E k \in K : \A l \in K \ {k} : t[l] > t[k] \/ (t[l] = t[k] /\ q[l] < q[k])
<1> DEFINE C == {t[k] : k \in K}
<1>1. C \in SUBSET Nat /\ C # {}
  OBVIOUS
<1>2. PICK m \in C : \A n \in C : m <= n
  <2> HIDE DEF C
  <2> QED
    BY <1>1, Least
<1> DEFINE A == {k \in K : t[k] = m}
           B == {q[k] : k \in A}
<1>3. B \in SUBSET Nat /\ B # {} /\ IsFiniteSet(B)
  <2>1. B \in SUBSET Nat /\ B # {}
    BY <1>2
  <2>2. [k \in A |-> q[k]] \in Surjection(A, B)
    BY DEF Surjection
  <2>3. IsFiniteSet(A)
    BY FS_Subset
  <2> HIDE DEF A, B
  <2> QED
    BY <2>1, <2>2, <2>3, FS_Surjection
<1>4. PICK n \in B : \A o \in B : o <= n
  <2> HIDE DEF B
  <2> QED
    BY <1>3, Greatest
<1>5. PICK k \in K : t[k] = m /\ q[k] = n
  BY <1>4
<1>6. ASSUME NEW l \in K \ {k}
      PROVE  t[l] > t[k] \/ (t[l] = t[k] /\ q[l] < q[k])
  <2>1. m <= t[l] /\ t[k] = m /\ t[l] \in Nat /\ m \in Nat
    BY <1>2, <1>5
  <2>2. t[l] = m => q[l] <= n
    BY <1>4
  <2>3. q[l] # n /\ q[l] \in Nat /\ n \in Nat
    BY <1>5
  <2> QED
    BY <1>5, <2>1, <2>2, <2>3
<1> QED
  BY <1>6

-----------------------------------------------------------------------------
(* Four keys.                                                              *)

\* Four keys, each listed once.
Lists(keys, k) ==
    /\ keys = {k[1], k[2], k[3], k[4]}
    /\ k[1] # k[2] /\ k[1] # k[3] /\ k[1] # k[4]
    /\ k[2] # k[3] /\ k[2] # k[4] /\ k[3] # k[4]

\* A distribution of 100 units over them.
Hundred(v, k) ==
    /\ \A i \in 1..4 : v[k[i]] \in Int
    /\ v[k[1]] + v[k[2]] + v[k[3]] + v[k[4]] = 100

LEMMA SumOfFour ==
    ASSUME NEW keys, NEW k, Lists(keys, k), NEW f \in [keys -> Int]
    PROVE  IsFiniteSet(keys) /\ SumOf(f, keys) = f[k[1]] + f[k[2]] + f[k[3]] + f[k[4]]
<1> DEFINE A == {k[2], k[3], k[4]}
           B == {k[3], k[4]}
           C == {k[4]}
<1>1. IsFiniteSet(C) /\ IsFiniteSet(B) /\ IsFiniteSet(A) /\ IsFiniteSet(keys)
  <2>1. IsFiniteSet({} \union {k[4]})
    BY FS_EmptySet, FS_AddElement
  <2>2. IsFiniteSet(C \union {k[3]})
    BY <2>1, FS_AddElement
  <2>3. IsFiniteSet((C \union {k[3]}) \union {k[2]})
    BY <2>2, FS_AddElement
  <2>4. IsFiniteSet(((C \union {k[3]}) \union {k[2]}) \union {k[1]})
    BY <2>3, FS_AddElement
  <2>5. /\ B = C \union {k[3]} /\ A = (C \union {k[3]}) \union {k[2]}
        /\ keys = ((C \union {k[3]}) \union {k[2]}) \union {k[1]}
    BY DEF Lists
  <2> QED
    BY <2>1, <2>2, <2>3, <2>4, <2>5
<1>2. /\ keys \ {k[1]} = A /\ A \ {k[2]} = B /\ B \ {k[3]} = C /\ C \ {k[4]} = {}
      /\ A \in SUBSET keys /\ B \in SUBSET keys /\ C \in SUBSET keys
      /\ k[1] \in keys
  BY DEF Lists
<1>3. SumOf(f, keys) = f[k[1]] + SumOf(f, A)
  BY <1>1, <1>2, SumRemove
<1>4. SumOf(f, A) = f[k[2]] + SumOf(f, B)
  BY <1>1, <1>2, SumRemove
<1>5. SumOf(f, B) = f[k[3]] + SumOf(f, C)
  BY <1>1, <1>2, SumRemove
<1>6. SumOf(f, C) = f[k[4]] + 0
  BY <1>1, <1>2, SumRemove, SumEmpty
<1>7. f[k[1]] \in Int /\ f[k[2]] \in Int /\ f[k[3]] \in Int /\ f[k[4]] \in Int
  BY <1>2 DEF Lists
<1> QED
  BY <1>1, <1>3, <1>4, <1>5, <1>6, <1>7

-----------------------------------------------------------------------------
(* Pairs of two sets.                                                      *)

Lefts(f, X, Y) == [z \in X \X Y |-> f[z[1]]]
Rights(f, X, Y) == [z \in X \X Y |-> f[z[2]]]

\* Over pairs, a function of one side is added as often as the other has elements.
Sides(f, D, X, Y) ==
    /\ f \in [D -> Int] /\ X \in SUBSET D /\ IsFiniteSet(X) /\ Y \in SUBSET D /\ IsFiniteSet(Y)
    => /\ IsFiniteSet(X \X Y)
       /\ Lefts(f, X, Y) \in [X \X Y -> Int] /\ Rights(f, X, Y) \in [X \X Y -> Int]
       /\ SumOf(Lefts(f, X, Y), X \X Y) = SumOf(f, X) * Cardinality(Y)
       /\ SumOf(Rights(f, X, Y), X \X Y) = SumOf(f, Y) * Cardinality(X)

LEMMA SumOfSides ==
    ASSUME NEW f, NEW D, NEW X, NEW Y
    PROVE  Sides(f, D, X, Y)
<1> SUFFICES ASSUME f \in [D -> Int], X \in SUBSET D, IsFiniteSet(X),
                    Y \in SUBSET D, IsFiniteSet(Y)
             PROVE  /\ IsFiniteSet(X \X Y)
                    /\ Lefts(f, X, Y) \in [X \X Y -> Int] /\ Rights(f, X, Y) \in [X \X Y -> Int]
                    /\ SumOf(Lefts(f, X, Y), X \X Y) = SumOf(f, X) * Cardinality(Y)
                    /\ SumOf(Rights(f, X, Y), X \X Y) = SumOf(f, Y) * Cardinality(X)
  BY DEF Sides
<1>1. /\ Lefts(f, X, Y) \in [X \X Y -> Int] /\ Rights(f, X, Y) \in [X \X Y -> Int]
      /\ IsFiniteSet(X \X Y)
  BY FS_Product DEF Lefts, Rights
<1>2. Cardinality(X) \in Int /\ Cardinality(Y) \in Int /\ SumOf(f, X) \in Int /\ SumOf(f, Y) \in Int
  BY FS_CardinalityType, SumType
<1>3. PICK n \in Int : n = Cardinality(Y)
  BY <1>2
<1>4. PICK t \in Int : t = SumOf(f, Y)
  BY <1>2
<1>5. SumOf(Lefts(f, X, Y), X \X Y) = SumOf(f, X) * Cardinality(Y)
  <2> DEFINE row == [x \in X |-> n * f[x]]
             h == [x \in D |-> n * f[x]]
  <2>1. row \in [X -> Int] /\ h \in [D -> Int] /\ Scales(h, n, f, X)
        /\ \A x \in X : row[x] = h[x]
    BY DEF Scales
  <2>2. ASSUME NEW x \in X
        PROVE  row[x] = SumOf([y \in Y |-> Lefts(f, X, Y)[<<x, y>>]], Y)
    <3>1. PICK c \in Int : c = f[x]
      OBVIOUS
    <3>2. PICK g : g = [y \in Y |-> Lefts(f, X, Y)[<<x, y>>]]
      OBVIOUS
    <3>3. g \in [Y -> Int] /\ \A y \in Y : g[y] = c
      BY <3>1, <3>2 DEF Lefts
    <3>4. SumOf(g, Y) = c * Cardinality(Y)
      BY <3>3, SumConstant
    <3> QED
      BY <1>3, <3>1, <3>2, <3>4
  <2> HIDE DEF row, h
  <2>3. AddsRows(row, Lefts(f, X, Y), X, Y)
    BY <2>2 DEF AddsRows
  <2>6. SumOf(Lefts(f, X, Y), X \X Y) = SumOf(row, X)
    <3>1. RowByRow(row, Lefts(f, X, Y), X, Y)
      BY SumOfRows
    <3> QED
      BY <1>1, <2>1, <2>3, <3>1 DEF RowByRow
  <2>4. SumOf(row, X) = SumOf(h, X)
    BY <2>1, SumRestricted
  <2>5. SumOf(h, X) = n * SumOf(f, X)
    <3>1. Scaled(h, n, f, D, X)
      BY SumScaled
    <3> QED
      BY <2>1, <3>1 DEF Scaled
  <2> QED
    BY <1>2, <1>3, <2>6, <2>4, <2>5
<1>6. SumOf(Rights(f, X, Y), X \X Y) = SumOf(f, Y) * Cardinality(X)
  <2> DEFINE row == [x \in X |-> t]
  <2>1. row \in [X -> Int] /\ \A x \in X : row[x] = t
    OBVIOUS
  <2>2. ASSUME NEW x \in X
        PROVE  row[x] = SumOf([y \in Y |-> Rights(f, X, Y)[<<x, y>>]], Y)
    <3>1. PICK g : g = [y \in Y |-> Rights(f, X, Y)[<<x, y>>]]
      OBVIOUS
    <3>2. g \in [Y -> Int] /\ \A y \in Y : g[y] = f[y]
      BY <3>1 DEF Rights
    <3>3. SumOf(g, Y) = SumOf(f, Y)
      BY <3>2, SumRestricted
    <3> QED
      BY <1>4, <3>1, <3>3
  <2> HIDE DEF row
  <2>3. AddsRows(row, Rights(f, X, Y), X, Y)
    BY <2>2 DEF AddsRows
  <2>6. SumOf(Rights(f, X, Y), X \X Y) = SumOf(row, X)
    <3>1. RowByRow(row, Rights(f, X, Y), X, Y)
      BY SumOfRows
    <3> QED
      BY <1>1, <2>1, <2>3, <3>1 DEF RowByRow
  <2>4. X \in SUBSET X
    OBVIOUS
  <2>5. SumOf(row, X) = t * Cardinality(X)
    BY <2>1, <2>4, SumConstant, ZenonT(40)
  <2> QED
    BY <1>4, <2>6, <2>5
<1> QED
  BY <1>1, <1>5, <1>6
=============================================================================
