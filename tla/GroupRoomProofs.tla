--------------------------- MODULE GroupRoomProofs ---------------------------
(***************************************************************************)
(* What a team's stored analytics say, for any number of members,          *)
(* decisions, versions, sessions, pages and ties, and any splits.          *)
(***************************************************************************)
EXTENDS GroupRoom, SumTheorems

-----------------------------------------------------------------------------
(* Distances.                                                              *)

LEMMA FourKeys ==
    ASSUME NEW k \in Schemes \union Posted \union {Canonical}
    PROVE  Lists(Range4(k), k)
<1>1. \A i, j \in 1..4 : k[i] = k[j] => i = j
  BY GroupRoomAssumption
<1>2. 1..4 = {1, 2, 3, 4}
  OBVIOUS
<1> QED
  BY <1>1, <1>2 DEF Lists, Range4

\* _tv over four keys.
LEMMA DistanceOfFour ==
    ASSUME NEW keys, NEW k, Lists(keys, k), NEW p, NEW q,
           \A i \in 1..4 : p[k[i]] \in Int /\ q[k[i]] \in Int
    PROVE  Distance(p, q, keys) =
              (Abs(p[k[1]] - q[k[1]]) + Abs(p[k[2]] - q[k[2]])
                 + Abs(p[k[3]] - q[k[3]]) + Abs(p[k[4]] - q[k[4]])) \div 2
<1> DEFINE f == [x \in keys |-> Abs(p[x] - q[x])]
<1>1. f \in [keys -> Int]
  BY DEF Lists, Abs
<1>2. /\ f[k[1]] = Abs(p[k[1]] - q[k[1]]) /\ f[k[2]] = Abs(p[k[2]] - q[k[2]])
      /\ f[k[3]] = Abs(p[k[3]] - q[k[3]]) /\ f[k[4]] = Abs(p[k[4]] - q[k[4]])
  BY DEF Lists
<1>3. Distance(p, q, keys) = SumFunction(f) \div 2
  BY DEF Distance
<1> HIDE DEF f
<1>4. IsFiniteSet(keys) /\ SumOf(f, keys) = f[k[1]] + f[k[2]] + f[k[3]] + f[k[4]]
  BY <1>1, SumOfFour
<1>5. SumFunction(f) = SumOf(f, keys)
  BY <1>1, <1>4, FunctionSum
<1> QED
  BY <1>2, <1>3, <1>4, <1>5

\* Distances are natural numbers, and keep the triangle inequality in spite of
\* the halves: the differences of two distributions of 100 add up to an even
\* number.
LEMMA DistanceNat ==
    ASSUME NEW keys, NEW k, Lists(keys, k), NEW p, NEW q, Hundred(p, k), Hundred(q, k)
    PROVE  Distance(p, q, keys) \in Nat
<1>1. \A i \in 1..4 : Abs(p[k[i]] - q[k[i]]) \in Nat
  BY DEF Hundred, Abs
<1> QED
  BY <1>1, DistanceOfFour DEF Hundred

LEMMA Halves ==
    ASSUME NEW a1 \in Int, NEW a2 \in Int, NEW a3 \in Int, NEW a4 \in Int,
           a1 + a2 + a3 + a4 = 0
    PROVE  2 * ((Abs(a1) + Abs(a2) + Abs(a3) + Abs(a4)) \div 2)
             = Abs(a1) + Abs(a2) + Abs(a3) + Abs(a4)
<1>1. \E n \in Int : Abs(a1) + Abs(a2) + Abs(a3) + Abs(a4) = 2 * n
  <2> DEFINE P(a) == IF a < 0 THEN 0 ELSE a
  <2>1. \A a \in Int : P(a) \in Int /\ Abs(a) = 2 * P(a) - a
    BY DEF Abs
  <2>2. Abs(a1) + Abs(a2) + Abs(a3) + Abs(a4) = 2 * (P(a1) + P(a2) + P(a3) + P(a4))
    BY <2>1
  <2> QED
    BY <2>1, <2>2
<1>2. PICK n \in Int : Abs(a1) + Abs(a2) + Abs(a3) + Abs(a4) = 2 * n
  BY <1>1
<1> QED
  BY <1>2

LEMMA Triangle ==
    ASSUME NEW keys, NEW k, Lists(keys, k), NEW p, NEW q, NEW t,
           Hundred(p, k), Hundred(q, k), Hundred(t, k)
    PROVE  Distance(p, q, keys) <= Distance(p, t, keys) + Distance(q, t, keys)
<1> DEFINE N(x, y) == Abs(x[k[1]] - y[k[1]]) + Abs(x[k[2]] - y[k[2]])
                        + Abs(x[k[3]] - y[k[3]]) + Abs(x[k[4]] - y[k[4]])
<1>1. ASSUME NEW x, NEW y, Hundred(x, k), Hundred(y, k)
      PROVE  2 * Distance(x, y, keys) = N(x, y)
  <2>1. /\ x[k[1]] - y[k[1]] \in Int /\ x[k[2]] - y[k[2]] \in Int
        /\ x[k[3]] - y[k[3]] \in Int /\ x[k[4]] - y[k[4]] \in Int
        /\ (x[k[1]] - y[k[1]]) + (x[k[2]] - y[k[2]])
             + (x[k[3]] - y[k[3]]) + (x[k[4]] - y[k[4]]) = 0
    BY <1>1 DEF Hundred
  <2>2. 2 * (N(x, y) \div 2) = N(x, y)
    BY <2>1, Halves
  <2>3. Distance(x, y, keys) = N(x, y) \div 2
    BY <1>1, DistanceOfFour DEF Hundred
  <2> QED
    BY <2>2, <2>3
<1>2. N(p, q) <= N(p, t) + N(q, t)
  <2>1. ASSUME NEW i \in 1..4
        PROVE  /\ Abs(p[k[i]] - q[k[i]]) <= Abs(p[k[i]] - t[k[i]]) + Abs(q[k[i]] - t[k[i]])
               /\ Abs(p[k[i]] - q[k[i]]) \in Int
               /\ Abs(p[k[i]] - t[k[i]]) \in Int /\ Abs(q[k[i]] - t[k[i]]) \in Int
    BY DEF Hundred, Abs
  <2>2. 1 \in 1..4 /\ 2 \in 1..4 /\ 3 \in 1..4 /\ 4 \in 1..4
    OBVIOUS
  <2>3. /\ Abs(p[k[1]] - q[k[1]]) <= Abs(p[k[1]] - t[k[1]]) + Abs(q[k[1]] - t[k[1]])
        /\ Abs(p[k[2]] - q[k[2]]) <= Abs(p[k[2]] - t[k[2]]) + Abs(q[k[2]] - t[k[2]])
        /\ Abs(p[k[3]] - q[k[3]]) <= Abs(p[k[3]] - t[k[3]]) + Abs(q[k[3]] - t[k[3]])
        /\ Abs(p[k[4]] - q[k[4]]) <= Abs(p[k[4]] - t[k[4]]) + Abs(q[k[4]] - t[k[4]])
    BY <2>1, <2>2
  <2> QED
    BY <2>1, <2>2, <2>3
<1>3. /\ Distance(p, q, keys) \in Nat /\ Distance(p, t, keys) \in Nat
      /\ Distance(q, t, keys) \in Nat
  BY DistanceNat
<1>4. /\ N(p, q) = 2 * Distance(p, q, keys) /\ N(p, t) = 2 * Distance(p, t, keys)
      /\ N(q, t) = 2 * Distance(q, t, keys)
  BY <1>1
<1> HIDE DEF N
<1> QED
  BY <1>2, <1>3, <1>4

-----------------------------------------------------------------------------
(* Two by two.                                                             *)

LEMMA PairsFinite ==
    ASSUME NEW S, IsFiniteSet(S)
    PROVE  IsFiniteSet(Pairs(S)) /\ \A T \in SUBSET S : Pairs(T) \in SUBSET Pairs(S)
<1>1. IsFiniteSet(S \X S)
  BY FS_Product
<1> QED
  BY <1>1, FS_Subset DEF Pairs

\* The pairs of one element z with the elements of U.
Beside(z, U) == {<<z, u>> : u \in U}

LEMMA SumBeside ==
    ASSUME NEW S \in SUBSET Nat, IsFiniteSet(S), NEW f \in [Pairs(S) -> Nat],
           NEW M \in [S -> Nat], \A p, q \in S : p < q => f[<<p, q>>] <= M[p] + M[q],
           NEW R \in SUBSET S, NEW z \in S \ R, \A q \in R : z < q
    PROVE  SumOf(f, Pairs(R) \union Beside(z, R))
             <= SumOf(f, Pairs(R)) + Cardinality(R) * M[z] + SumOf(M, R)
<1> DEFINE X(U) == Pairs(R) \union Beside(z, U)
           G == {U \in SUBSET R : SumOf(f, X(U))
                    <= SumOf(f, Pairs(R)) + Cardinality(U) * M[z] + SumOf(M, U)}
<1>1. /\ IsFiniteSet(Pairs(S)) /\ Pairs(R) \in SUBSET Pairs(S) /\ IsFiniteSet(R)
      /\ f \in [Pairs(S) -> Int] /\ M \in [S -> Int]
  <2>1. IsFiniteSet(Pairs(S)) /\ Pairs(R) \in SUBSET Pairs(S)
    BY PairsFinite
  <2>2. IsFiniteSet(R)
    BY FS_Subset
  <2>3. f \in [Pairs(S) -> Int] /\ M \in [S -> Int]
    BY IntValued
  <2> QED
    BY <2>1, <2>2, <2>3
<1>2. \A U \in SUBSET R : X(U) \in SUBSET Pairs(S)
  BY <1>1 DEF Beside, Pairs
<1>3. ASSUME NEW U \in SUBSET R, \A V \in SUBSET U : V # U => V \in G
      PROVE  U \in G
  <2>1. IsFiniteSet(U)
    BY <1>1, FS_Subset
  <2>2. CASE U = {}
    <3>1. X(U) = Pairs(R) /\ Cardinality(U) = 0 /\ SumOf(M, U) = 0
      BY <2>2, FS_EmptySet, SumEmpty DEF Beside
    <3>2. SumOf(f, Pairs(R)) \in Int /\ M[z] \in Int
      <4>1. IsFiniteSet(Pairs(R))
        BY <1>1, FS_Subset
      <4> QED
        BY <1>1, <4>1, SumType
    <3>3. Cardinality(U) * M[z] = 0
      BY <3>1, <3>2
    <3>4. SumOf(f, X(U)) = SumOf(f, Pairs(R))
      BY <3>1
    <3> HIDE DEF X
    <3> QED
      BY <2>2, <3>1, <3>2, <3>3, <3>4
  <2>3. CASE U # {}
    <3>1. PICK q \in U : TRUE
      BY <2>3
    <3> DEFINE V == U \ {q}
    <3>2. V \in SUBSET U /\ V # U /\ V \in SUBSET R
      BY <3>1
    <3>3. /\ <<z, q>> \in X(U) /\ <<z, q>> \notin Pairs(R)
          /\ X(U) \ {<<z, q>>} = X(V)
      BY <3>1 DEF Beside, Pairs
    <3>4. X(U) \in SUBSET Pairs(S) /\ X(V) \in SUBSET Pairs(S) /\ Pairs(R) \in SUBSET Pairs(S)
      BY <1>1, <1>2, <3>2
    <3>5. /\ IsFiniteSet(X(U)) /\ IsFiniteSet(X(V)) /\ IsFiniteSet(Pairs(R))
          /\ IsFiniteSet(V)
      BY <1>1, <2>1, <3>2, <3>4, FS_Subset
    <3>6. f[<<z, q>>] <= M[z] + M[q] /\ f[<<z, q>>] \in Nat /\ M[z] \in Nat /\ M[q] \in Nat
      BY <3>3, <3>4, <3>1
    <3>7. SumOf(f, X(V)) <= SumOf(f, Pairs(R)) + Cardinality(V) * M[z] + SumOf(M, V)
      BY <1>3, <3>2
    <3> HIDE DEF X
    <3>8. SumOf(f, X(U)) = f[<<z, q>>] + SumOf(f, X(V))
      <4>1. PICK Y, e : Y = X(U) /\ e = <<z, q>>
        OBVIOUS
      <4>2. Y \in SUBSET Pairs(S) /\ IsFiniteSet(Y) /\ e \in Y /\ Y \ {e} = X(V)
        BY <3>3, <3>4, <3>5, <4>1
      <4>3. SumOf(f, Y) = f[e] + SumOf(f, Y \ {e})
        BY <1>1, <4>2, SumRemove
      <4> QED
        BY <4>1, <4>2, <4>3
    <3>9. SumOf(M, U) = M[q] + SumOf(M, V)
      <4>1. Removes(M, S, U, q)
        BY SumWithout
      <4> QED
        BY <1>1, <2>1, <3>1, <4>1 DEF Removes
    <3>10. /\ SumOf(f, X(V)) \in Int /\ SumOf(f, Pairs(R)) \in Int /\ SumOf(M, V) \in Int
           /\ Cardinality(V) \in Nat
      BY <1>1, <3>2, <3>4, <3>5, SumType, FS_CardinalityType
    <3>11. Cardinality(U) = Cardinality(V) + 1
      <4>1. Cardinality(V) = Cardinality(U) - 1 /\ Cardinality(U) \in Nat
        BY <2>1, <3>1, FS_RemoveElement, FS_CardinalityType
      <4> QED
        BY <4>1
    <3>12. Cardinality(U) * M[z] = Cardinality(V) * M[z] + M[z] /\ Cardinality(V) * M[z] \in Nat
      BY <3>6, <3>10, <3>11
    <3> HIDE DEF V
    <3> QED
      BY <3>6, <3>7, <3>8, <3>9, <3>10, <3>12
  <2> QED
    BY <2>2, <2>3
<1>4. R \in G
  <2>1. \A U \in SUBSET R : (\A V \in SUBSET U : V # U => V \in G) => U \in G
    BY <1>3
  <2> HIDE DEF G
  <2> QED
    BY <1>1, <2>1, SubsetInduction
<1> QED
  BY <1>4

\* Every element is in one pair fewer than there are elements.
LEMMA SumOfPairs ==
    ASSUME NEW S \in SUBSET Nat, IsFiniteSet(S), NEW f \in [Pairs(S) -> Nat],
           NEW M \in [S -> Nat], \A p, q \in S : p < q => f[<<p, q>>] <= M[p] + M[q]
    PROVE  SumOf(f, Pairs(S)) + SumOf(M, S) <= Cardinality(S) * SumOf(M, S)
<1> DEFINE G == {T \in SUBSET S :
                    SumOf(f, Pairs(T)) + SumOf(M, T) <= Cardinality(T) * SumOf(M, T)}
<1>1. /\ IsFiniteSet(Pairs(S)) /\ \A T \in SUBSET S : Pairs(T) \in SUBSET Pairs(S)
      /\ f \in [Pairs(S) -> Int] /\ M \in [S -> Int]
  <2>1. IsFiniteSet(Pairs(S)) /\ \A T \in SUBSET S : Pairs(T) \in SUBSET Pairs(S)
    BY PairsFinite
  <2>2. f \in [Pairs(S) -> Int] /\ M \in [S -> Int]
    BY IntValued
  <2> QED
    BY <2>1, <2>2
<1>2. ASSUME NEW T \in SUBSET S, \A U \in SUBSET T : U # T => U \in G
      PROVE  T \in G
  <2>1. IsFiniteSet(T)
    BY FS_Subset
  <2>2. CASE T = {}
    <3>1. Pairs(T) = {} /\ Cardinality(T) = 0 /\ SumOf(M, T) = 0
      BY <2>2, FS_EmptySet, SumEmpty DEF Pairs
    <3>2. SumOf(f, Pairs(T)) = 0
      BY <3>1, SumEmpty
    <3> QED
      BY <2>2, <3>1, <3>2
  <2>3. CASE T # {}
    <3>1. PICK z \in T : \A n \in T : z <= n
      BY <2>3, Least
    <3> DEFINE R == T \ {z}
    <3>2. /\ R \in SUBSET T /\ R # T /\ R \in SUBSET S /\ z \in S \ R
          /\ R = T \ {z} /\ \A q \in R : z < q
      BY <3>1
    <3>3. Pairs(T) = Pairs(R) \union Beside(z, R)
      <4>1. ASSUME NEW x \in Pairs(T)
            PROVE  x \in Pairs(R) \union Beside(z, R)
        <5>1. x[1] \in T /\ x[2] \in T /\ x[1] < x[2] /\ x = <<x[1], x[2]>>
          BY <4>1 DEF Pairs
        <5>2. x[2] # z
          BY <3>1, <5>1
        <5> QED
          BY <5>1, <5>2 DEF Pairs, Beside
      <4>2. ASSUME NEW x \in Pairs(R) \union Beside(z, R)
            PROVE  x \in Pairs(T)
        BY <3>1, <3>2, <4>2 DEF Pairs, Beside
      <4> QED
        BY <4>1, <4>2
    <3> HIDE DEF R
    <3>4. SumOf(f, Pairs(T)) <= SumOf(f, Pairs(R)) + Cardinality(R) * M[z] + SumOf(M, R)
      BY <3>2, <3>3, SumBeside
    <3>5. SumOf(f, Pairs(R)) + SumOf(M, R) <= Cardinality(R) * SumOf(M, R)
      BY <1>2, <3>2
    <3>6. SumOf(M, T) = M[z] + SumOf(M, R)
      <4>1. Removes(M, S, T, z)
        BY SumWithout
      <4> QED
        BY <1>1, <2>1, <3>1, <3>2, <4>1 DEF Removes
    <3>7. IsFiniteSet(R) /\ IsFiniteSet(Pairs(R)) /\ IsFiniteSet(Pairs(T))
      BY <1>1, <2>1, <3>2, FS_Subset
    <3>8. /\ SumOf(f, Pairs(R)) \in Int /\ SumOf(f, Pairs(T)) \in Int
          /\ SumOf(M, R) \in Int /\ M[z] \in Int /\ Cardinality(R) \in Nat
      BY <1>1, <3>2, <3>7, SumType, FS_CardinalityType
    <3>9. Cardinality(T) = Cardinality(R) + 1
      <4>1. Cardinality(R) = Cardinality(T) - 1 /\ Cardinality(T) \in Nat
        BY <2>1, <3>1, FS_RemoveElement, FS_CardinalityType DEF R
      <4> QED
        BY <4>1
    <3> DEFINE n == Cardinality(R)
               s == SumOf(M, R)
               m == M[z]
    <3>10. (n + 1) * (m + s) = n * m + n * s + m + s
      <4> n \in Int /\ m \in Int /\ s \in Int
        BY <3>8
      <4> HIDE DEF n, m, s
      <4> QED
        OBVIOUS
    <3>11. n * m \in Int /\ n * s \in Int
      BY <3>8
    <3>12. Cardinality(T) * SumOf(M, T) = n * m + n * s + m + s
      BY <3>6, <3>9, <3>10
    <3> QED
      BY <3>4, <3>5, <3>6, <3>8, <3>11, <3>12
  <2> QED
    BY <2>2, <2>3
<1>3. S \in G
  <2>1. \A T \in SUBSET S : (\A U \in SUBSET T : U # T => U \in G) => T \in G
    BY <1>2
  <2> HIDE DEF G
  <2> QED
    BY <2>1, SubsetInduction
<1> QED
  BY <1>3

-----------------------------------------------------------------------------
(* Ties.                                                                   *)

\* Somebody is least, and of those the first.
LEMMA FirstLeast ==
    ASSUME NEW S \in SUBSET Nat, S # {}, NEW f \in [S -> Nat]
    PROVE  \E p \in S : \A o \in S \ {p} : f[p] < f[o] \/ (~(f[o] < f[p]) /\ p < o)
<1> DEFINE C == {f[p] : p \in S}
<1>1. C \in SUBSET Nat /\ C # {}
  OBVIOUS
<1>2. PICK m \in C : \A n \in C : m <= n
  <2> HIDE DEF C
  <2> QED
    BY <1>1, Least
<1> DEFINE B == {p \in S : f[p] = m}
<1>3. B \in SUBSET Nat /\ B # {}
  BY <1>2
<1>4. PICK p \in B : \A o \in B : p <= o
  <2> HIDE DEF B
  <2> QED
    BY <1>3, Least
<1>5. ASSUME NEW o \in S \ {p}
      PROVE  f[p] < f[o] \/ (~(f[o] < f[p]) /\ p < o)
  <2>1. m <= f[o] /\ f[p] = m /\ f[o] \in Nat /\ m \in Nat
    BY <1>2, <1>4
  <2>2. f[o] = m => p <= o /\ p # o
    BY <1>4
  <2>3. p \in Nat /\ o \in Nat
    BY <1>4
  <2> QED
    BY <2>1, <2>2, <2>3
<1> QED
  BY <1>4, <1>5

\* Somebody is greatest, and of those the last.
LEMMA LastGreatest ==
    ASSUME NEW S \in SUBSET Nat, IsFiniteSet(S), S # {}, NEW f \in [S -> Nat]
    PROVE  \E p \in S : \A o \in S \ {p} : f[o] < f[p] \/ (~(f[p] < f[o]) /\ o < p)
<1> DEFINE C == {f[p] : p \in S}
<1>1. C \in SUBSET Nat /\ C # {} /\ IsFiniteSet(C)
  <2>1. C \in SUBSET Nat /\ C # {}
    OBVIOUS
  <2>2. f \in Surjection(S, C)
    BY DEF Surjection
  <2> HIDE DEF C
  <2> QED
    BY <2>1, <2>2, FS_Surjection
<1>2. PICK m \in C : \A n \in C : n <= m
  <2> HIDE DEF C
  <2> QED
    BY <1>1, Greatest
<1> DEFINE B == {p \in S : f[p] = m}
<1>3. B \in SUBSET Nat /\ B # {} /\ IsFiniteSet(B)
  <2>1. B \in SUBSET S /\ B # {}
    BY <1>2
  <2> HIDE DEF B
  <2> QED
    BY <2>1, FS_Subset
<1>4. PICK p \in B : \A o \in B : o <= p
  <2> HIDE DEF B
  <2> QED
    BY <1>3, Greatest
<1>5. ASSUME NEW o \in S \ {p}
      PROVE  f[o] < f[p] \/ (~(f[p] < f[o]) /\ o < p)
  <2>1. f[o] <= m /\ f[p] = m /\ f[o] \in Nat /\ m \in Nat
    BY <1>2, <1>4
  <2>2. f[o] = m => o <= p /\ p # o
    BY <1>4
  <2>3. p \in Nat /\ o \in Nat
    BY <1>4
  <2> QED
    BY <2>1, <2>2, <2>3
<1> QED
  BY <1>4, <1>5

-----------------------------------------------------------------------------
(* Shares.                                                                 *)

LEMMA ListedKeys ==
    ASSUME NEW keys, NEW k, Lists(keys, k)
    PROVE  IsFiniteSet(keys) /\ Cardinality(keys) = 4
<1>1. IsFiniteSet({k[1]}) /\ Cardinality({k[1]}) = 1
  BY FS_Singleton
<1>2. /\ IsFiniteSet({k[1]} \union {k[2]})
      /\ Cardinality({k[1]} \union {k[2]}) = 2
  <2>1. k[2] \notin {k[1]}
    BY DEF Lists
  <2> QED
    BY <1>1, <2>1, FS_AddElement
<1>3. /\ IsFiniteSet(({k[1]} \union {k[2]}) \union {k[3]})
      /\ Cardinality(({k[1]} \union {k[2]}) \union {k[3]}) = 3
  <2>1. k[3] \notin {k[1]} \union {k[2]}
    BY DEF Lists
  <2> DEFINE s == {k[1]} \union {k[2]}
  <2>2. IsFiniteSet(s) /\ Cardinality(s) = 2 /\ k[3] \notin s
    BY <1>2, <2>1
  <2> HIDE DEF s
  <2>3. IsFiniteSet(s \union {k[3]}) /\ Cardinality(s \union {k[3]}) = 3
    BY <2>2, FS_AddElement
  <2> QED
    BY <2>3 DEF s
<1>4. /\ IsFiniteSet((({k[1]} \union {k[2]}) \union {k[3]}) \union {k[4]})
      /\ Cardinality((({k[1]} \union {k[2]}) \union {k[3]}) \union {k[4]}) = 4
  <2>1. k[4] \notin ({k[1]} \union {k[2]}) \union {k[3]}
    BY DEF Lists
  <2> QED
    BY <1>3, <2>1, FS_AddElement
<1>5. keys = (({k[1]} \union {k[2]}) \union {k[3]}) \union {k[4]}
  BY DEF Lists
<1> QED
  BY <1>4, <1>5

Declared == Schemes \union Posted \union {Canonical}

\* A share says the same under any order of its keys.
LEMMA ShareIsWhole ==
    ASSUME NEW k \in Declared, NEW x \in Splits,
           NEW keys, NEW l, Lists(keys, l), keys \subseteq DOMAIN Share(k, x)
    PROVE  Hundred(Share(k, x), l)
<1> DEFINE v == Share(k, x)
<1>1. DOMAIN v = Range4(k) /\ Lists(Range4(k), k)
  BY FourKeys DEF Share, Declared
<1>2. keys = Range4(k)
  <2>1. IsFiniteSet(keys) /\ Cardinality(keys) = 4
    BY ListedKeys
  <2>2. IsFiniteSet(Range4(k)) /\ Cardinality(Range4(k)) = 4
    BY <1>1, ListedKeys
  <2> QED
    BY <1>1, <2>1, <2>2, FS_Subset
<1>3. ASSUME NEW i \in 1..4
      PROVE  v[k[i]] = x[i] /\ x[i] \in Int
  <2>1. \A j \in 1..4 : k[j] = k[i] => j = i
    BY GroupRoomAssumption DEF Declared
  <2>2. (CHOOSE j \in 1..4 : k[j] = k[i]) = i
    BY <2>1
  <2>3. k[i] \in Range4(k)
    BY DEF Range4
  <2>4. x[i] \in 0..100
    BY GroupRoomAssumption
  <2> QED
    BY <2>2, <2>3, <2>4 DEF Share
<1>4. 1 \in 1..4 /\ 2 \in 1..4 /\ 3 \in 1..4 /\ 4 \in 1..4
  OBVIOUS
<1>5. v[k[1]] + v[k[2]] + v[k[3]] + v[k[4]] = 100
  <2>1. x[1] + x[2] + x[3] + x[4] = 100
    BY GroupRoomAssumption
  <2> HIDE DEF v
  <2> QED
    BY <1>3, <1>4, <2>1
<1>6. v \in [keys -> Int]
  <2>1. \A a \in Range4(k) : \E i \in 1..4 : a = k[i]
    BY DEF Range4
  <2>2. \A a \in Range4(k) : v[a] \in Int
    <3> HIDE DEF v
    <3> QED
      BY <1>3, <2>1
  <2>3. v = [a \in Range4(k) |-> v[a]]
    BY DEF Share
  <2> HIDE DEF v
  <2> QED
    BY <1>2, <2>2, <2>3
<1> HIDE DEF v
<1>7. SumOf(v, keys) = v[k[1]] + v[k[2]] + v[k[3]] + v[k[4]]
  BY <1>1, <1>2, <1>6, SumOfFour
<1>8. SumOf(v, keys) = v[l[1]] + v[l[2]] + v[l[3]] + v[l[4]]
  BY <1>6, SumOfFour
<1>9. \A i \in 1..4 : v[l[i]] \in Int
  BY <1>6 DEF Lists
<1> QED
  BY <1>5, <1>7, <1>8, <1>9 DEF Hundred, v

-----------------------------------------------------------------------------
(* What compute_group_analytics returns.                                   *)

\* Members base and what the team entered, in units on the keys listed by k.
Readings(base, team, keys, k) ==
    /\ Lists(keys, k)
    /\ DOMAIN base \in SUBSET Refs
    /\ DOMAIN team \in SUBSET Decisions
    /\ \A p \in DOMAIN base, d \in Decisions : Hundred(base[p][d], k)
    /\ \A d \in DOMAIN team : Hundred(team[d], k)

Apart(x) ==
    x.anchor # Nobody =>
       /\ {x.anchor, x.biggest} \subseteq x.members
       /\ Cardinality(x.members) > 1 => x.anchor # x.biggest

Spread(x) ==
    \A d \in DOMAIN x.movement : x.dispersion[d] <= 2 * x.movement[d] + 1

\* Mean movements of one team are compared by their sums.
LEMMA MovedIsSum ==
    ASSUME NEW base, NEW team, NEW keys, NEW k, Readings(base, team, keys, k),
           DOMAIN team # {}
    PROVE  \E f \in [DOMAIN base -> Nat] : \A p, o \in DOMAIN base :
              MeanLess(Moved(base, team, p, keys), Moved(base, team, o, keys)) <=> f[p] < f[o]
<1> DEFINE D == DOMAIN team
           f == [p \in DOMAIN base |-> Moved(base, team, p, keys).sum]
<1>1. IsFiniteSet(D) /\ Cardinality(D) \in Nat \ {0}
  <2>1. IsFiniteSet(D)
    BY GroupRoomAssumption, FS_Subset DEF Readings
  <2> QED
    BY <2>1, FS_CardinalityType, FS_EmptySet
<1>2. ASSUME NEW p \in DOMAIN base
      PROVE  Moved(base, team, p, keys).sum \in Nat
  <2> DEFINE h == [d \in D |-> Distance(base[p][d], team[d], keys)]
  <2>1. h \in [D -> Nat]
    <3>1. \A d \in D : Distance(base[p][d], team[d], keys) \in Nat
      BY DistanceNat DEF Readings
    <3> QED
      BY <3>1
  <2>2. Moved(base, team, p, keys).sum = SumFunction(h)
    BY DEF Moved
  <2> HIDE DEF h, D
  <2>3. h \in [D -> Int]
    BY <2>1, IntValued
  <2>4. SumFunction(h) = SumOf(h, D)
    BY <1>1, <2>3, FunctionSum
  <2>5. D \in SUBSET D
    OBVIOUS
  <2>6. SumOf(h, D) \in Nat
    BY <1>1, <2>1, <2>5, SumNat
  <2> QED
    BY <2>2, <2>4, <2>6
<1>3. f \in [DOMAIN base -> Nat]
  BY <1>2
<1>4. ASSUME NEW p \in DOMAIN base, NEW o \in DOMAIN base
      PROVE  MeanLess(Moved(base, team, p, keys), Moved(base, team, o, keys)) <=> f[p] < f[o]
  <2>1. /\ Moved(base, team, p, keys).sum = f[p] /\ Moved(base, team, o, keys).sum = f[o]
        /\ Moved(base, team, p, keys).n = Cardinality(D)
        /\ Moved(base, team, o, keys).n = Cardinality(D)
    BY DEF Moved
  <2>2. f[p] \in Nat /\ f[o] \in Nat
    BY <1>3
  <2> HIDE DEF f, D
  <2>3. \A a, b \in Nat, c \in Nat \ {0} : a * c < b * c <=> a < b
    <3> TAKE a, b \in Nat, c \in Nat \ {0}
    <3>1. a < b => b = a + (b - a) /\ b - a >= 1
      OBVIOUS
    <3>2. ASSUME a < b PROVE a * c < b * c
      <4>1. PICK e \in Nat : b = a + 1 + e
        <5>1. b - a - 1 \in Nat /\ b = a + 1 + (b - a - 1)
          BY <3>2
        <5> QED
          BY <5>1
      <4>2. b * c = a * c + c + e * c /\ e * c \in Nat /\ a * c \in Nat
        BY <4>1
      <4> QED
        BY <4>2
    <3>3. ASSUME b <= a PROVE ~(a * c < b * c)
      <4>1. PICK e \in Nat : a = b + e
        <5>1. a - b \in Nat /\ a = b + (a - b)
          BY <3>3
        <5> QED
          BY <5>1
      <4>2. a * c = b * c + e * c /\ e * c \in Nat /\ b * c \in Nat
        BY <4>1
      <4> QED
        BY <4>2
    <3> QED
      BY <3>2, <3>3
  <2> QED
    BY <1>1, <2>1, <2>2, <2>3 DEF MeanLess
<1> HIDE DEF f
<1> QED
  BY <1>3, <1>4

LEMMA RefsFinite ==
    ASSUME NEW S \in SUBSET Refs
    PROVE  S \in SUBSET Nat /\ IsFiniteSet(S)
<1>1. IsFiniteSet(Refs)
  BY GroupRoomAssumption
<1>2. IsFiniteSet(S)
  BY <1>1, FS_Subset
<1> QED
  BY <1>2, GroupRoomAssumption

LEMMA ExtremesAreApart ==
    ASSUME NEW base, NEW team, NEW keys, NEW k, Readings(base, team, keys, k),
           DOMAIN base # {}, DOMAIN team # {}
    PROVE  /\ Anchor(base, team, keys) \in DOMAIN base
           /\ Biggest(base, team, keys) \in DOMAIN base
           /\ Cardinality(DOMAIN base) > 1
                => Anchor(base, team, keys) # Biggest(base, team, keys)
<1> DEFINE S == DOMAIN base
           M(p) == Moved(base, team, p, keys)
<1>1. S \in SUBSET Nat /\ IsFiniteSet(S) /\ S # {}
  <2>1. S \in SUBSET Refs /\ S # {}
    BY DEF Readings
  <2> HIDE DEF S
  <2> QED
    BY <2>1, RefsFinite
<1>2. PICK f \in [S -> Nat] : \A p, o \in S : MeanLess(M(p), M(o)) <=> f[p] < f[o]
  BY MovedIsSum
<1>3. PICK a \in S : \A o \in S \ {a} : f[a] < f[o] \/ (~(f[o] < f[a]) /\ a < o)
  <2> HIDE DEF S
  <2> QED
    BY <1>1, FirstLeast
<1>4. PICK b \in S : \A o \in S \ {b} : f[o] < f[b] \/ (~(f[b] < f[o]) /\ o < b)
  <2> HIDE DEF S
  <2> QED
    BY <1>1, LastGreatest
<1> DEFINE IsAnchor(p) == \A o \in S \ {p} :
                             MeanLess(M(p), M(o)) \/ (~MeanLess(M(o), M(p)) /\ p < o)
           IsBiggest(p) == \A o \in S \ {p} :
                             MeanLess(M(o), M(p)) \/ (~MeanLess(M(p), M(o)) /\ o < p)
           anchor == CHOOSE p \in S : IsAnchor(p)
           biggest == CHOOSE p \in S : IsBiggest(p)
<1>5. Anchor(base, team, keys) = anchor /\ Biggest(base, team, keys) = biggest
  BY DEF Anchor, Biggest
<1> HIDE DEF S, M
<1>6. IsAnchor(a) /\ IsBiggest(b)
  BY <1>2, <1>3, <1>4
<1>7. anchor \in S /\ IsAnchor(anchor) /\ biggest \in S /\ IsBiggest(biggest)
  <2> HIDE DEF IsAnchor, IsBiggest
  <2> QED
    BY <1>6
<1>8. ASSUME Cardinality(S) > 1, anchor = biggest PROVE FALSE
  <2>1. PICK o \in S \ {anchor} : TRUE
    <3>1. S # {anchor}
      <4> HIDE DEF anchor, biggest
      <4>1. Cardinality({anchor}) = 1
        BY FS_Singleton
      <4> QED
        BY <1>8, <4>1
    <3> QED
      BY <1>7, <3>1
  <2>2. f[o] \in Nat /\ f[anchor] \in Nat /\ o \in Nat /\ anchor \in Nat
    BY <1>1, <1>7, <2>1
  <2>3. /\ f[anchor] < f[o] \/ (~(f[o] < f[anchor]) /\ anchor < o)
        /\ f[o] < f[anchor] \/ (~(f[anchor] < f[o]) /\ o < anchor)
    <3> HIDE DEF anchor, biggest
    <3> QED
      BY <1>2, <1>7, <1>8, <2>1
  <2> QED
    BY <2>2, <2>3
<1> QED
  BY <1>5, <1>7, <1>8 DEF S

\* Means a and m of natural numbers, a at most twice m.
Within(a, m) ==
    /\ a.sum \in Nat /\ a.n \in Nat \ {0} /\ m.sum \in Nat /\ m.n \in Nat \ {0}
    /\ a.sum * m.n <= 2 * m.sum * a.n

\* The mean distance of two members is at most twice the mean movement.
LEMMA SpreadIsBounded ==
    ASSUME NEW base, NEW team, NEW keys, NEW k, Readings(base, team, keys, k),
           NEW d \in DOMAIN team, DOMAIN base # {}
    PROVE  Within(MeanApart(base, d, keys), MeanMoved(base, team, d, keys))
<1> DEFINE S == DOMAIN base
           M == [p \in S |-> Distance(base[p][d], team[d], keys)]
           f == [x \in Pairs(S) |-> Distance(base[x[1]][d], base[x[2]][d], keys)]
           n == Cardinality(S)
<1>1. S \in SUBSET Nat /\ IsFiniteSet(S)
  <2>1. S \in SUBSET Refs
    BY DEF Readings
  <2> HIDE DEF S
  <2> QED
    BY <2>1, RefsFinite
<1>2. /\ Lists(keys, k) /\ Hundred(team[d], k) /\ \A p \in S : Hundred(base[p][d], k)
  BY DEF Readings
<1>3. M \in [S -> Nat]
  <2>1. \A p \in S : Distance(base[p][d], team[d], keys) \in Nat
    BY <1>2, DistanceNat
  <2> HIDE DEF S
  <2> QED
    BY <2>1
<1>4. f \in [Pairs(S) -> Nat]
  <2>1. \A x \in Pairs(S) : x[1] \in S /\ x[2] \in S
    BY DEF Pairs
  <2> HIDE DEF S
  <2>2. \A x \in Pairs(S) : Distance(base[x[1]][d], base[x[2]][d], keys) \in Nat
    BY <1>2, <2>1, DistanceNat
  <2> QED
    BY <2>2
<1>5. ASSUME NEW p \in S, NEW q \in S, p < q
      PROVE  f[<<p, q>>] <= M[p] + M[q]
  <2>1. <<p, q>> \in Pairs(S)
    BY <1>5 DEF Pairs
  <2>2. f[<<p, q>>] = Distance(base[p][d], base[q][d], keys)
    BY <2>1
  <2>3. /\ M[p] = Distance(base[p][d], team[d], keys)
        /\ M[q] = Distance(base[q][d], team[d], keys)
    OBVIOUS
  <2> HIDE DEF f, M, S
  <2> QED
    BY <1>2, <2>2, <2>3, Triangle
<1>6. /\ n < 2 => MeanApart(base, d, keys) = [sum |-> 0, n |-> 1]
      /\ ~(n < 2) => MeanApart(base, d, keys) = [sum |-> SumFunction(f), n |-> NumberOfPairs(S)]
      /\ MeanMoved(base, team, d, keys) = [sum |-> SumFunction(M), n |-> n]
      /\ S # {}
  BY DEF MeanApart, MeanMoved
<1> HIDE DEF S, M, f, n
<1>7. SumFunction(f) = SumOf(f, Pairs(S)) /\ SumOf(f, Pairs(S)) \in Nat
  <2>1. IsFiniteSet(Pairs(S)) /\ Pairs(S) \in SUBSET Pairs(S)
    BY <1>1, PairsFinite
  <2>2. f \in [Pairs(S) -> Int]
    BY <1>4, IntValued
  <2> QED
    BY <1>4, <2>1, <2>2, FunctionSum, SumNat
<1>8. SumFunction(M) = SumOf(M, S) /\ SumOf(M, S) \in Nat
  <2>1. PICK D : D = S
    OBVIOUS
  <2>2. M \in [D -> Int] /\ M \in [D -> Nat] /\ D \in SUBSET D /\ IsFiniteSet(D)
    BY <1>1, <1>3, <2>1
  <2>3. SumFunction(M) = SumOf(M, D)
    BY <2>2, FunctionSum
  <2>4. SumOf(M, D) \in Nat
    BY <2>2, SumNat
  <2> QED
    BY <2>1, <2>3, <2>4
<1>9. SumOf(f, Pairs(S)) + SumOf(M, S) <= n * SumOf(M, S)
  BY <1>1, <1>3, <1>4, <1>5, SumOfPairs DEF n
<1>10. n \in Nat \ {0}
  BY <1>1, <1>6, FS_CardinalityType, FS_EmptySet DEF n
<1>11. CASE n < 2
  <2>1. n = 1
    BY <1>10, <1>11
  <2>2. PICK a, m : a = MeanApart(base, d, keys) /\ m = MeanMoved(base, team, d, keys)
    OBVIOUS
  <2>3. a.sum = 0 /\ a.n = 1 /\ m.sum \in Nat /\ m.n = 1
    BY <1>6, <1>8, <1>11, <2>1, <2>2
  <2> QED
    BY <2>2, <2>3 DEF Within
<1>12. CASE ~(n < 2)
  <2>1. 2 * NumberOfPairs(S) = n * (n - 1) /\ NumberOfPairs(S) \in Nat
    <3>1. \E h \in Nat : n * (n - 1) = 2 * h
      <4>1. (\E e \in Nat : n = 2 * e) \/ (\E e \in Nat : n = 2 * e + 1)
        <5>1. n = 2 * (n \div 2) + (n % 2) /\ n % 2 \in {0, 1} /\ n \div 2 \in Nat
          BY <1>10
        <5> QED
          BY <5>1
      <4>2. ASSUME NEW e \in Nat, n = 2 * e PROVE n * (n - 1) = 2 * (e * (n - 1)) /\ e * (n - 1) \in Nat
        BY <1>10, <4>2
      <4>3. ASSUME NEW e \in Nat, n = 2 * e + 1 PROVE n * (n - 1) = 2 * (n * e) /\ n * e \in Nat
        BY <1>10, <4>3
      <4> QED
        BY <4>1, <4>2, <4>3
    <3>2. NumberOfPairs(S) = (n * (n - 1)) \div 2
      BY DEF NumberOfPairs, n
    <3> QED
      BY <3>1, <3>2
  <2>2. SumOf(f, Pairs(S)) * n <= 2 * SumOf(M, S) * NumberOfPairs(S)
    <3> DEFINE a == SumOf(f, Pairs(S))
               s == SumOf(M, S)
               h == NumberOfPairs(S)
    <3>1. a \in Nat /\ s \in Nat /\ h \in Nat /\ 2 * h = n * (n - 1) /\ a + s <= n * s
      BY <1>7, <1>8, <1>9, <2>1
    <3> HIDE DEF a, s, h
    <3>2. a <= s * (n - 1)
      BY <1>10, <3>1
    <3>3. PICK e \in Nat : s * (n - 1) = a + e
      <4>1. s * (n - 1) \in Int
        BY <1>10, <3>1
      <4>2. s * (n - 1) - a \in Nat
        BY <3>1, <3>2, <4>1
      <4>3. s * (n - 1) = a + (s * (n - 1) - a)
        BY <3>1, <4>1
      <4> QED
        BY <4>2, <4>3
    <3>4. (s * (n - 1)) * n = a * n + e * n /\ e * n \in Nat /\ a * n \in Nat
      BY <1>10, <3>1, <3>3
    <3>5. 2 * s * h = s * (2 * h)
      BY <3>1
    <3>6. s * (n * (n - 1)) = (s * (n - 1)) * n
      BY <1>10, <3>1
    <3>7. a * n <= 2 * s * h
      BY <3>1, <3>4, <3>5, <3>6
    <3> QED
      BY <3>7 DEF a, s, h
  <2>3. NumberOfPairs(S) # 0
    <3>1. n * (n - 1) # 0
      <4>1. n - 1 \in Nat /\ n - 1 >= 1
        BY <1>10, <1>12
      <4>2. n * (n - 1) = n * ((n - 1) - 1) + n /\ n * ((n - 1) - 1) \in Nat
        BY <1>10, <4>1
      <4> QED
        BY <1>10, <4>2
    <3> QED
      BY <2>1, <3>1
  <2>4. PICK a, m : a = MeanApart(base, d, keys) /\ m = MeanMoved(base, team, d, keys)
    OBVIOUS
  <2>5. /\ a.sum = SumOf(f, Pairs(S)) /\ a.n = NumberOfPairs(S)
        /\ m.sum = SumOf(M, S) /\ m.n = n
    BY <1>6, <1>7, <1>8, <1>12, <2>4
  <2>6. a.sum \in Nat /\ a.n \in Nat \ {0} /\ m.sum \in Nat /\ m.n \in Nat \ {0}
    BY <1>7, <1>8, <1>10, <2>1, <2>3, <2>5
  <2>7. a.sum * m.n <= 2 * m.sum * a.n
    BY <2>2, <2>5
  <2> QED
    BY <2>4, <2>6, <2>7 DEF Within
<1> QED
  BY <1>11, <1>12

\* What is rounded is off by half a ten-thousandth at most.
LEMMA RoundedNear ==
    ASSUME NEW mean, mean.sum \in Nat, mean.n \in Nat \ {0}, NEW v \in Rounded(mean)
    PROVE  /\ v \in Int
           /\ 2 * (v * mean.n) <= 200 * mean.sum + mean.n
           /\ 200 * mean.sum <= 2 * (v * mean.n) + mean.n
<1>1. PICK s, n : s = mean.sum /\ n = mean.n /\ s \in Nat /\ n \in Nat \ {0}
  OBVIOUS
<1>2. (100 * s) \div n \in Int
  BY <1>1
<1>3. v \in Int /\ 2 * Abs(v * n - 100 * s) <= n
  BY <1>1, <1>2 DEF Rounded
<1>4. PICK a : a = v * n /\ a \in Int
  BY <1>1, <1>3
<1>5. 2 * a <= 200 * s + n /\ 200 * s <= 2 * a + n
  BY <1>1, <1>3, <1>4 DEF Abs
<1> QED
  BY <1>1, <1>3, <1>4, <1>5

\* Rounding two means costs the bound one ten-thousandth.
LEMMA RoundedWithin ==
    ASSUME NEW a, NEW m, Within(a, m), NEW v \in Rounded(a), NEW w \in Rounded(m)
    PROVE  v <= 2 * w + 1
<1>1. PICK s, n, t, c : s = a.sum /\ n = a.n /\ t = m.sum /\ c = m.n
  OBVIOUS
<1>2. /\ s \in Nat /\ n \in Nat /\ n >= 1 /\ t \in Nat /\ c \in Nat /\ c >= 1
      /\ s * c <= 2 * t * n
  BY <1>1 DEF Within
<1>3. /\ v \in Int /\ 2 * (v * n) <= 200 * s + n
  BY <1>1, RoundedNear DEF Within
<1>4. /\ w \in Int /\ 200 * t <= 2 * (w * c) + c
  BY <1>1, RoundedNear DEF Within
<1>5. 2 * (v * n * c) <= 200 * (s * c) + n * c
  <2>1. PICK e \in Nat : 200 * s + n = 2 * (v * n) + e
    <3>1. PICK b : b = v * n /\ b \in Int
      BY <1>2, <1>3
    <3>2. 200 * s + n - 2 * b \in Nat
      BY <1>2, <1>3, <3>1
    <3> QED
      BY <1>2, <3>1, <3>2
  <2>2. (200 * s + n) * c = (2 * (v * n) + e) * c
    BY <2>1
  <2>3. (200 * s + n) * c = 200 * (s * c) + n * c
    BY <1>2
  <2>4. (2 * (v * n) + e) * c = 2 * (v * n * c) + e * c /\ e * c \in Nat
    BY <1>2, <1>3
  <2> QED
    BY <1>2, <1>3, <2>2, <2>3, <2>4
<1>6. 200 * (t * n) <= 2 * (w * c * n) + c * n
  <2>1. PICK e \in Nat : 2 * (w * c) + c = 200 * t + e
    <3>1. PICK b : b = w * c /\ b \in Int
      BY <1>2, <1>4
    <3>2. 2 * b + c - 200 * t \in Nat
      BY <1>2, <1>4, <3>1
    <3>3. 2 * b + c = 200 * t + (2 * b + c - 200 * t)
      BY <1>2, <3>1
    <3> QED
      BY <3>1, <3>2, <3>3
  <2>2. (2 * (w * c) + c) * n = (200 * t + e) * n
    BY <2>1
  <2>3. (2 * (w * c) + c) * n = 2 * (w * c * n) + c * n
    BY <1>2, <1>4
  <2>4. (200 * t + e) * n = 200 * (t * n) + e * n /\ e * n \in Nat
    BY <1>2
  <2> QED
    BY <1>2, <1>4, <2>2, <2>3, <2>4
<1>7. PICK k : k = n * c /\ k \in Nat /\ k >= 1
  <2>1. PICK e \in Nat : n = e + 1
    <3>1. n - 1 \in Nat /\ n = (n - 1) + 1
      BY <1>2
    <3> QED
      BY <3>1
  <2>2. n * c = e * c + c /\ e * c \in Nat
    BY <1>2, <2>1
  <2> QED
    BY <1>2, <2>2
<1>8. v * n * c = v * k /\ w * c * n = w * k /\ c * n = k
  BY <1>2, <1>3, <1>4, <1>7
<1>9. PICK x, y : x = s * c /\ y = t * n /\ x \in Int /\ y \in Int /\ x <= 2 * y
  <2>1. s * c \in Int /\ t * n \in Int /\ 2 * t * n = 2 * (t * n)
    BY <1>2
  <2> QED
    BY <1>2, <2>1
<1>10. PICK p, q : p = v * k /\ q = w * k /\ p \in Int /\ q \in Int
  BY <1>3, <1>4, <1>7
<1>11. 2 * p <= 4 * q + 3 * k
  BY <1>5, <1>6, <1>7, <1>8, <1>9, <1>10
<1>12. SUFFICES ASSUME v >= 2 * w + 2 PROVE FALSE
  BY <1>3, <1>4
<1>13. PICK e \in Nat : v = 2 * w + 2 + e
  <2>1. v - (2 * w + 2) \in Nat /\ v = 2 * w + 2 + (v - (2 * w + 2))
    BY <1>3, <1>4, <1>12
  <2> QED
    BY <2>1
<1>14. v * k = 2 * (w * k) + 2 * k + e * k /\ e * k \in Nat
  BY <1>4, <1>7, <1>13
<1> QED
  BY <1>7, <1>10, <1>11, <1>14

LEMMA AnalyticsAreSound ==
    ASSUME NEW base, NEW team, NEW keys, NEW k, Readings(base, team, keys, k),
           NEW x \in Analytics(base, team, keys)
    PROVE  Apart(x) /\ Spread(x)
<1> DEFINE spreads == [d \in IF DOMAIN base = {} THEN {} ELSE Decisions |-> Dispersion(base, d, keys)]
           moved == DOMAIN base # {} /\ DOMAIN team # {}
           moves == [d \in IF moved THEN DOMAIN team ELSE {} |-> Movement(base, team, d, keys)]
<1>1. PICK s \in Values(spreads), m \in Values(moves) :
         x = [members    |-> DOMAIN base,
              dispersion |-> s,
              movement   |-> m,
              anchor     |-> IF moved THEN Anchor(base, team, keys) ELSE Nobody,
              biggest    |-> IF moved THEN Biggest(base, team, keys) ELSE Nobody]
  <2>1. Analytics(base, team, keys) =
          {[members    |-> DOMAIN base,
            dispersion |-> s,
            movement   |-> m,
            anchor     |-> IF moved THEN Anchor(base, team, keys) ELSE Nobody,
            biggest    |-> IF moved THEN Biggest(base, team, keys) ELSE Nobody] :
              s \in Values(spreads), m \in Values(moves)}
    BY DEF Analytics
  <2> HIDE DEF spreads, moved, moves
  <2> QED
    BY <2>1
<1>2. /\ x.movement = m /\ x.dispersion = s /\ x.members = DOMAIN base
      /\ moved => x.anchor = Anchor(base, team, keys) /\ x.biggest = Biggest(base, team, keys)
      /\ ~moved => x.anchor = Nobody
  BY <1>1
<1>3. DOMAIN m = (IF moved THEN DOMAIN team ELSE {})
  BY DEF Values
<1>4. CASE ~moved
  <2>1. DOMAIN x.movement = {} /\ x.anchor = Nobody
    BY <1>2, <1>3, <1>4
  <2> QED
    BY <2>1 DEF Apart, Spread
<1>5. CASE moved
  <2>1. Apart(x)
    <3>1. /\ Anchor(base, team, keys) \in DOMAIN base /\ Biggest(base, team, keys) \in DOMAIN base
          /\ Cardinality(DOMAIN base) > 1
               => Anchor(base, team, keys) # Biggest(base, team, keys)
      BY <1>5, ExtremesAreApart
    <3> QED
      BY <1>2, <1>5, <3>1 DEF Apart
  <2>2. ASSUME NEW d \in DOMAIN team
        PROVE  s[d] <= 2 * m[d] + 1
    <3>1. d \in Decisions
      BY DEF Readings
    <3>2. s[d] \in Rounded(MeanApart(base, d, keys))
      <4>1. d \in DOMAIN spreads /\ spreads[d] = Dispersion(base, d, keys)
        BY <1>5, <3>1
      <4>2. s[d] \in spreads[d]
        <5> HIDE DEF spreads
        <5> QED
          BY <4>1 DEF Values
      <4> QED
        BY <4>1, <4>2 DEF Dispersion
    <3>3. m[d] \in Rounded(MeanMoved(base, team, d, keys))
      <4>1. d \in DOMAIN moves /\ moves[d] = Movement(base, team, d, keys)
        BY <1>5
      <4>2. m[d] \in moves[d]
        <5> HIDE DEF moves
        <5> QED
          BY <4>1 DEF Values
      <4> QED
        BY <4>1, <4>2 DEF Movement
    <3>4. Within(MeanApart(base, d, keys), MeanMoved(base, team, d, keys))
      BY <1>5, SpreadIsBounded
    <3> QED
      BY <3>2, <3>3, <3>4, RoundedWithin
  <2>3. Spread(x)
    BY <1>2, <1>3, <1>5, <2>2 DEF Spread
  <2> QED
    BY <2>1, <2>3
<1> QED
  BY <1>4, <1>5

-----------------------------------------------------------------------------
(* Sessions.                                                               *)

Shares == {Share(k, x) : k \in Declared, x \in Splits}

SessionRows == [person : Refs \X Nat, version : Nat,
                shares : {NoShares} \union [Decisions -> Shares]]

SessionsInv ==
    /\ runs \in 0..MaxRuns
    /\ versions \in Seq(Schemes)
    /\ sessions \in Seq(SessionRows)
    /\ \A s \in DOMAIN sessions :
          /\ sessions[s].version \in DOMAIN versions
          /\ \A d \in Decisions : sessions[s].shares # NoShares =>
                DOMAIN sessions[s].shares[d] = Range4(versions[sessions[s].version])
          /\ sessions[s].person[2] \in 1..MaxRuns

\* What is stored, or about to be, is sound.
ResultsInv ==
    /\ room = [r \in Rooms |-> room[r]]
    /\ \A r \in Rooms : room[r].at = "storing" =>
          Apart(room[r].result) /\ Spread(room[r].result)
    /\ \A x \in stored : Apart(x.result) /\ Spread(x.result)

GroupInv == SessionsInv /\ ResultsInv

LEMMA ShareOfShares ==
    ASSUME NEW v \in Shares, NEW keys, NEW l, Lists(keys, l), keys \subseteq DOMAIN v
    PROVE  Hundred(v, l)
<1>1. PICK k \in Declared, x \in Splits : v = Share(k, x)
  BY DEF Shares
<1> QED
  BY <1>1, ShareIsWhole

LEMMA MembersAreRefs == ASSUME NEW t \in TeamRows PROVE t.members \in SUBSET Refs
<1>1. PICK u \in Teams, n \in 1..runs : t = [members |-> u, run |-> n]
  BY DEF TeamRows
<1>2. t.members = u
  BY <1>1
<1>3. Teams \subseteq SUBSET Refs
  BY GroupRoomAssumption
<1> QED
  BY <1>2, <1>3

LEMMA LastJoined ==
    ASSUME NEW t \in TeamRows, Joined(t) # {}
    PROVE  Max(Joined(t)) \in Joined(t)
<1> DEFINE J == Joined(t)
<1>1. J \in SUBSET Refs
  BY MembersAreRefs DEF Joined
<1> HIDE DEF J
<1>2. J \in SUBSET Nat /\ IsFiniteSet(J)
  BY <1>1, RefsFinite
<1>3. PICK m \in J : \A n \in J : n <= m
  BY <1>2, Greatest DEF J
<1>4. \A n \in J : m >= n
  BY <1>2, <1>3
<1>5. Max(J) \in J
  BY <1>4 DEF Max
<1> QED
  BY <1>5 DEF J

\* The keys of a reconciliation are those of a scheme.
LEMMA KeysAreListed ==
    ASSUME SessionsInv, NEW t \in TeamRows, NEW last \in LastReads(t)
    PROVE  \E k \in Declared : Lists(KeysOf(t, last), k)
<1>1. CASE Joined(t) = {}
  BY <1>1, FourKeys DEF KeysOf, Declared
<1>2. CASE Joined(t) # {}
  <2> DEFINE J == Joined(t)
  <2>1. Max(J) \in J
    BY <1>2, LastJoined
  <2> HIDE DEF J
  <2>2. last[Max(J)] \in DOMAIN sessions
    BY <2>1 DEF LastReads, J
  <2>3. PICK k : k = versions[sessions[last[Max(J)]].version]
    OBVIOUS
  <2>4. k \in Schemes
    BY <2>2, <2>3 DEF SessionsInv
  <2>5. KeysOf(t, last) = Range4(k)
    BY <1>2, <2>3 DEF KeysOf, J
  <2> QED
    BY <2>4, <2>5, FourKeys DEF Declared
<1> QED
  BY <1>1, <1>2

LEMMA ReadingsAreWhole ==
    ASSUME SessionsInv, NEW t \in TeamRows, NEW team \in Entered, NEW last \in LastReads(t),
           NEW b \in Bases(t, last), Readable(t, KeysOf(t, last), team)
    PROVE  \E k : Readings([p \in Heard(t) |-> sessions[b[p]].shares], team, KeysOf(t, last), k)
<1> DEFINE base == [p \in Heard(t) |-> sessions[b[p]].shares]
           keys == KeysOf(t, last)
<1>1. PICK k \in Declared : Lists(keys, k)
  BY KeysAreListed
<1>2. DOMAIN base \in SUBSET Refs
  BY MembersAreRefs DEF Heard
<1>3. DOMAIN team \in SUBSET Decisions /\ \A d \in DOMAIN team : team[d] \in Shares
  <2>1. PICK D \in SUBSET Decisions, q \in Posted : team \in [D -> {Share(q, x) : x \in Splits}]
    BY DEF Entered
  <2>2. {Share(q, x) : x \in Splits} \subseteq Shares
    BY DEF Shares, Declared
  <2> QED
    BY <2>1, <2>2
<1>4. \A d \in DOMAIN team : Hundred(team[d], k)
  <2>1. \A d \in DOMAIN team : keys \subseteq DOMAIN team[d]
    BY DEF Readable
  <2> HIDE DEF keys
  <2> QED
    BY <1>1, <1>3, <2>1, ShareOfShares
<1>5. ASSUME NEW p \in DOMAIN base, NEW d \in Decisions
      PROVE  Hundred(base[p][d], k)
  <2>1. p \in t.members /\ b[p] \in Answered(SessionsOf(p, t.run))
    BY DEF Bases, Heard
  <2>2. PICK s : s = b[p]
    OBVIOUS
  <2>3. s \in DOMAIN sessions /\ sessions[s].shares # NoShares
    BY <2>1, <2>2 DEF Answered, SessionsOf
  <2>4. sessions[s].shares \in [Decisions -> Shares]
    <3>1. sessions[s] \in SessionRows
      BY <2>3 DEF SessionsInv
    <3> QED
      BY <2>3, <3>1 DEF SessionRows
  <2>5. keys \subseteq DOMAIN sessions[s].shares[d]
    BY <2>1, <2>2 DEF Readable
  <2>6. base[p][d] = sessions[s].shares[d] /\ sessions[s].shares[d] \in Shares
    BY <2>2, <2>4
  <2> HIDE DEF keys, base
  <2> QED
    BY <1>1, <2>5, <2>6, ShareOfShares
<1> HIDE DEF base, keys
<1>6. Readings(base, team, keys, k)
  BY <1>1, <1>2, <1>3, <1>4, <1>5 DEF Readings
<1> QED
  BY <1>6 DEF base, keys

-----------------------------------------------------------------------------
(* The steps.                                                              *)

LEMMA SessionsStay ==
    ASSUME SessionsInv, UNCHANGED <<runs, versions, sessions>>
    PROVE  SessionsInv'
  BY DEF SessionsInv

LEMMA SubmitKeeps ==
    ASSUME SessionsInv, NEW s, NEW split \in [Decisions -> Splits], Submit(s, split)
    PROVE  SessionsInv'
<1> DEFINE k == versions[sessions[s].version]
           sh == [d \in Decisions |-> Share(k, split[d])]
           new == [sessions[s] EXCEPT !.shares = sh]
<1>1. s \in DOMAIN sessions /\ sessions' = [sessions EXCEPT ![s].shares = sh]
      /\ UNCHANGED <<runs, versions>>
  BY DEF Submit
<1>2. k \in Schemes
  BY <1>1 DEF SessionsInv
<1> HIDE DEF k
<1>3. sh \in [Decisions -> Shares] /\ \A d \in Decisions : DOMAIN sh[d] = Range4(k)
  <2>1. \A d \in Decisions : Share(k, split[d]) \in Shares
    BY <1>2 DEF Shares, Declared
  <2>2. \A d \in Decisions : DOMAIN Share(k, split[d]) = Range4(k)
    BY DEF Share
  <2> QED
    BY <2>1, <2>2
<1> HIDE DEF sh
<1>4. sessions[s] \in SessionRows
  BY <1>1 DEF SessionsInv
<1>5. /\ new \in SessionRows /\ new.version = sessions[s].version
      /\ new.person = sessions[s].person /\ new.shares = sh
  BY <1>3, <1>4 DEF SessionRows
<1>6. sessions' = [sessions EXCEPT ![s] = new]
  BY <1>1
<1> HIDE DEF new
<1>7. sessions' \in Seq(SessionRows) /\ DOMAIN sessions' = DOMAIN sessions
  <2>1. PICK n \in Nat : sessions \in [1..n -> SessionRows]
    <3>1. sessions \in Seq(SessionRows)
      BY DEF SessionsInv
    <3>2. Len(sessions) \in Nat /\ sessions \in [1..Len(sessions) -> SessionRows]
      BY <3>1
    <3> QED
      BY <3>2
  <2>2. sessions' \in [1..n -> SessionRows]
    BY <1>1, <1>5, <1>6, <2>1
  <2>3. sessions' \in Seq(SessionRows)
    BY <2>2
  <2> QED
    BY <2>1, <2>2, <2>3
<1>8. sessions'[s] = new /\ \A u \in DOMAIN sessions : u # s => sessions'[u] = sessions[u]
  BY <1>1, <1>6
<1>9. /\ new.version \in DOMAIN versions /\ new.person[2] \in 1..MaxRuns
      /\ versions[new.version] = k
  BY <1>1, <1>5 DEF SessionsInv, k
<1> QED
  BY <1>1, <1>3, <1>5, <1>7, <1>8, <1>9 DEF SessionsInv

LEMMA SessionsKept == SessionsInv /\ [GroupNext]_groupVars => SessionsInv'
<1> SUFFICES ASSUME SessionsInv, [GroupNext]_groupVars PROVE SessionsInv'
  OBVIOUS
<1>1. CASE Enrol
  BY <1>1, GroupRoomAssumption DEF Enrol, SessionsInv
<1>2. ASSUME NEW k \in Schemes, Publish(k) PROVE SessionsInv'
  <2>1. versions' = Append(versions, k) /\ UNCHANGED <<runs, sessions>>
    BY <1>2 DEF Publish
  <2>2. /\ versions' \in Seq(Schemes) /\ DOMAIN versions \subseteq DOMAIN versions'
        /\ \A n \in DOMAIN versions : versions'[n] = versions[n]
    BY <2>1 DEF SessionsInv
  <2> QED
    BY <2>1, <2>2 DEF SessionsInv
<1>3. ASSUME NEW p \in Refs, NEW n \in 1..MaxRuns, OpenSession(p, n) PROVE SessionsInv'
  <2> DEFINE new == [person |-> <<p, n>>, version |-> Len(versions), shares |-> NoShares]
  <2>1. sessions' = Append(sessions, new) /\ UNCHANGED <<runs, versions>> /\ versions # <<>>
    BY <1>3 DEF OpenSession
  <2>2. Len(versions) \in Nat /\ Len(versions) \in DOMAIN versions
    BY <2>1 DEF SessionsInv
  <2>3. n \in Nat
    BY GroupRoomAssumption
  <2>4. /\ new \in SessionRows /\ new.version \in DOMAIN versions
        /\ new.shares = NoShares /\ new.person[2] \in 1..MaxRuns
    BY <2>2, <2>3 DEF SessionRows
  <2> HIDE DEF new
  <2>5. /\ sessions' \in Seq(SessionRows)
        /\ \A s \in DOMAIN sessions' :
             sessions'[s] = new \/ (s \in DOMAIN sessions /\ sessions'[s] = sessions[s])
    BY <2>1, <2>4 DEF SessionsInv
  <2> QED
    BY <2>1, <2>4, <2>5 DEF SessionsInv
<1>4. ASSUME NEW s \in 1..MaxSessions, NEW split \in [Decisions -> Splits], Submit(s, split)
      PROVE  SessionsInv'
  BY <1>4, SubmitKeeps
<1>5. ASSUME NEW r \in Rooms,
             \/ \E t \in TeamRows, team \in Entered :
                   Reconcile(r, t, team) \/ ReconcileFails(r, t, team)
             \/ Store(r)
             \/ \E x \in stored : LoadSaved(r, x)
      PROVE  SessionsInv'
  <2>1. UNCHANGED <<runs, versions, sessions>>
    BY <1>5 DEF Reconcile, ReconcileFails, Store, LoadSaved
  <2> QED
    BY <2>1, SessionsStay
<1>6. CASE UNCHANGED groupVars
  BY <1>6, SessionsStay DEF groupVars
<1> QED
  BY <1>1, <1>2, <1>3, <1>4, <1>5, <1>6 DEF GroupNext

LEMMA ReconcileKeeps ==
    ASSUME SessionsInv, ResultsInv, NEW r \in Rooms, NEW t \in TeamRows, NEW team \in Entered,
           Reconcile(r, t, team)
    PROVE  ResultsInv'
<1>1. stored' = stored
  BY DEF Reconcile
<1> DEFINE Answer(last, b) ==
         /\ Readable(t, KeysOf(t, last), team)
         /\ \E x \in Analytics([p \in Heard(t) |-> sessions[b[p]].shares], team, KeysOf(t, last)) :
               room' = [room EXCEPT ![r] = [at |-> "storing", team |-> t, result |-> x,
                                            scan |-> {y \in stored : y.team = t}]]
<1>7. PICK last \in LastReads(t) : \E b \in Bases(t, last) : Answer(last, b)
  BY DEF Reconcile
<1>2. PICK b \in Bases(t, last) : Answer(last, b)
  BY <1>7
<1>3. PICK base : base = [p \in Heard(t) |-> sessions[b[p]].shares]
  OBVIOUS
<1>4. PICK x \in Analytics(base, team, KeysOf(t, last)) :
         room' = [room EXCEPT ![r] = [at |-> "storing", team |-> t, result |-> x,
                                      scan |-> {y \in stored : y.team = t}]]
  BY <1>2, <1>3
<1>5. Apart(x) /\ Spread(x)
  <2>1. \E k : Readings(base, team, KeysOf(t, last), k)
    BY <1>2, <1>3, ReadingsAreWhole
  <2> QED
    BY <2>1, AnalyticsAreSound
<1>6. /\ room'[r].result = x /\ \A o \in Rooms : o # r => room'[o] = room[o]
      /\ room' = [o \in Rooms |-> room'[o]]
  BY <1>4 DEF ResultsInv
<1> QED
  BY <1>1, <1>5, <1>6 DEF ResultsInv

LEMMA ResultsKept == GroupInv /\ [GroupNext]_groupVars => ResultsInv'
<1> SUFFICES ASSUME SessionsInv, ResultsInv, [GroupNext]_groupVars PROVE ResultsInv'
  BY DEF GroupInv
<1>1. CASE Enrol \/ (\E k \in Schemes : Publish(k))
           \/ (\E p \in Refs, n \in 1..MaxRuns : OpenSession(p, n))
           \/ (\E s \in 1..MaxSessions, split \in [Decisions -> Splits] : Submit(s, split))
           \/ UNCHANGED groupVars
  <2>1. UNCHANGED <<room, stored>>
    BY <1>1 DEF Enrol, Publish, OpenSession, Submit, groupVars
  <2> QED
    BY <2>1 DEF ResultsInv
<1>2. ASSUME NEW r \in Rooms, NEW t \in TeamRows, NEW team \in Entered, Reconcile(r, t, team)
      PROVE  ResultsInv'
  BY <1>2, ReconcileKeeps
<1>5. ASSUME NEW r \in Rooms, NEW t \in TeamRows, NEW team \in Entered,
             ReconcileFails(r, t, team)
      PROVE  ResultsInv'
  <2>1. PICK new : new = [at |-> "failed"] /\ room' = [room EXCEPT ![r] = new] /\ stored' = stored
    BY <1>5 DEF ReconcileFails
  <2>2. /\ room'[r] = new /\ \A o \in Rooms : o # r => room'[o] = room[o]
        /\ room' = [o \in Rooms |-> room'[o]] /\ new.at # "storing"
    BY <2>1 DEF ResultsInv
  <2> QED
    BY <2>1, <2>2 DEF ResultsInv
<1>3. ASSUME NEW r \in Rooms, Store(r) PROVE ResultsInv'
  <2>1. PICK row : /\ row = [team |-> room[r].team, by |-> r, number |-> reconciles,
                             result |-> room[r].result]
                   /\ stored' = (stored \ Replaced(r)) \union {row}
    BY <1>3 DEF Store
  <2>2. PICK new : /\ new = [at |-> "answered", team |-> room[r].team, result |-> room[r].result]
                   /\ room' = [room EXCEPT ![r] = new]
    BY <1>3 DEF Store
  <2>3. Apart(row.result) /\ Spread(row.result)
    BY <1>3, <2>1 DEF Store, ResultsInv
  <2>4. /\ room'[r] = new /\ \A o \in Rooms : o # r => room'[o] = room[o]
        /\ room' = [o \in Rooms |-> room'[o]] /\ new.at # "storing"
    BY <2>2 DEF ResultsInv
  <2> QED
    BY <2>1, <2>3, <2>4 DEF ResultsInv
<1>4. ASSUME NEW r \in Rooms, NEW x \in stored, LoadSaved(r, x) PROVE ResultsInv'
  <2>1. PICK new : /\ new = [at |-> "loaded", team |-> x.team, result |-> x.result]
                   /\ room' = [room EXCEPT ![r] = new] /\ stored' = stored
    BY <1>4 DEF LoadSaved
  <2>2. /\ room'[r] = new /\ \A o \in Rooms : o # r => room'[o] = room[o]
        /\ room' = [o \in Rooms |-> room'[o]] /\ new.at # "storing"
    BY <2>1 DEF ResultsInv
  <2> QED
    BY <2>1, <2>2 DEF ResultsInv
<1> QED
  BY <1>1, <1>2, <1>3, <1>4, <1>5 DEF GroupNext

LEMMA GroupInvHolds == GroupSpec => []GroupInv
<1>1. GroupInit => GroupInv
  <2> SUFFICES ASSUME GroupInit PROVE SessionsInv /\ ResultsInv
    BY DEF GroupInv
  <2>1. runs \in 0..MaxRuns
    BY GroupRoomAssumption DEF GroupInit
  <2>2. versions \in Seq(Schemes) /\ sessions \in Seq(SessionRows) /\ DOMAIN sessions = {}
    BY DEF GroupInit
  <2>3. ResultsInv
    BY DEF GroupInit, ResultsInv, Idle
  <2> QED
    BY <2>1, <2>2, <2>3 DEF SessionsInv
<1>2. GroupInv /\ [GroupNext]_groupVars => GroupInv'
  BY SessionsKept, ResultsKept DEF GroupInv
<1> QED
  BY <1>1, <1>2, PTL DEF GroupSpec

\* AnchorIsNotMover for every team, decision, version and tie: two members
\* who have moved are never one anchor and biggest mover (group.py:79-80).
THEOREM ExtremesDiffer == GroupSpec => []AnchorIsNotMover
<1>1. GroupInv => AnchorIsNotMover
  BY DEF GroupInv, ResultsInv, Apart, AnchorIsNotMover
<1> QED
  BY <1>1, GroupInvHolds, PTL

\* SpreadNeedsMovement for every number of members and any splits of 100
\* units: the mean distance of two members is at most twice the mean movement,
\* and what is stored of the two, rounded each, is off by one ten-thousandth at
\* most (group.py:28-29, 56-74).
THEOREM SpreadIsMoved == GroupSpec => []SpreadNeedsMovement
<1>1. GroupInv => SpreadNeedsMovement
  BY DEF GroupInv, ResultsInv, Spread, SpreadNeedsMovement
<1> QED
  BY <1>1, GroupInvHolds, PTL

=============================================================================
