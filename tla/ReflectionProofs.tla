--------------------------- MODULE ReflectionProofs ---------------------------
(***************************************************************************)
(* What a participant's board and fingerprint say of one another, for any  *)
(* parameters and stances, any number of rounds and decisions and whatever *)
(* the model answers.                                                      *)
(***************************************************************************)
EXTENDS Reflection, SumTheorems

-----------------------------------------------------------------------------
(* The inductive invariant.                                                *)

\* A call is under way only before there are options, asks for archetypes only
\* of a spec, and what it has answered passed the validators.
CallInv ==
    call.at # "idle" =>
       /\ options = <<>> /\ call.want \in {"archetypes", "options"}
       /\ call.want = "archetypes" => common.spec # <<>>
       /\ call.at = "answered" =>
             /\ call.want = "options" => call.value \in Seq(Labels) /\ OnePerPosture(call.value)
             /\ call.want = "archetypes" => Covers(call.value, Elements(common.spec))

ArchetypesInv ==
    archetypes # <<>> => common.spec # <<>> /\ Covers(archetypes, Elements(common.spec))

OptionsInv == options # <<>> => options \in Seq(Labels) /\ OnePerPosture(options)

\* A number of units that a participant can give.
OfSplit(n) == \E split \in Splits, i \in 1..4 : n = split[i]

\* Every allocation has 100 units on the four stances.
RowsInv ==
    /\ IsFiniteSet(DOMAIN rows) /\ DOMAIN rows \subseteq Nat
    /\ \A d \in DOMAIN rows : /\ options # <<>>
                              /\ rows[d].units \in [Elements(options) -> 0..100]
                              /\ Hundred(rows[d].units, options)
                              /\ \A k \in Elements(options) : OfSplit(rows[d].units[k])

ReflectionInv == common \in Commons /\ CallInv /\ ArchetypesInv /\ OptionsInv /\ RowsInv

-----------------------------------------------------------------------------
(* Options.                                                                *)

\* Four options that are among them four postures are four different ones.
LEMMA OptionsDiffer ==
    ASSUME NEW v \in Seq(Labels), OnePerPosture(v)
    PROVE  Lists(Elements(v), v) /\ Elements(v) = Elements(Stances) /\ DOMAIN v = 1..4
<1>1. /\ DOMAIN v = 1..4 /\ Cardinality(Elements(v)) = 4
      /\ Elements(v) = {v[1], v[2], v[3], v[4]}
  BY DEF OnePerPosture, Elements
<1>2. ASSUME NEW i \in 1..4, NEW j \in 1..4, i # j, v[i] = v[j]
      PROVE  FALSE
  <2>0. PICK R : R = (1..4) \ {j}
    OBVIOUS
  <2> DEFINE s == [n \in R |-> v[n]]
  <2>1. PICK I : I = 1..4 /\ IsFiniteSet(I) /\ Cardinality(I) = 4
    <3>1. PICK a \in Int, b \in Int : a = 1 /\ b = 4
      OBVIOUS
    <3>2. IsFiniteSet(a..b) /\ Cardinality(a..b) = IF a > b THEN 0 ELSE b - a + 1
      BY FS_Interval
    <3> QED
      BY <3>1, <3>2
  <2>2. IsFiniteSet(R) /\ Cardinality(R) = 3
    <3>1. PICK e : e = j
      OBVIOUS
    <3>2. e \in I /\ R = I \ {e}
      BY <2>0, <2>1, <3>1
    <3>3. IsFiniteSet(I \ {e}) /\ Cardinality(I \ {e}) = Cardinality(I) - 1
      BY <2>1, <3>2, FS_RemoveElement
    <3> QED
      BY <2>1, <3>2, <3>3
  <2>3. s \in Surjection(R, Elements(v))
    <3>1. \A x \in Elements(v) : \E n \in R : v[n] = x
      BY <1>1, <1>2, <2>0 DEF Elements
    <3> QED
      BY <1>1, <2>0, <3>1 DEF Elements, Surjection
  <2> HIDE DEF s
  <2>4. Cardinality(Elements(v)) <= Cardinality(R)
    BY <2>2, <2>3, FS_Surjection
  <2> QED
    BY <1>1, <2>2, <2>4
<1>3. 1 \in 1..4 /\ 2 \in 1..4 /\ 3 \in 1..4 /\ 4 \in 1..4
  OBVIOUS
<1> QED
  BY <1>1, <1>2, <1>3 DEF Lists, OnePerPosture

LEMMA UnitsAreHundred ==
    ASSUME options \in Seq(Labels), OnePerPosture(options), NEW split \in Splits
    PROVE  /\ UnitsOn(split) \in [Elements(options) -> 0..100]
           /\ Hundred(UnitsOn(split), options)
           /\ \A k \in Elements(options) : OfSplit(UnitsOn(split)[k])
<1>1. /\ Lists(Elements(options), options) /\ DOMAIN options = 1..4
  BY OptionsDiffer
<1>2. split \in [1..4 -> 0..100] /\ split[1] + split[2] + split[3] + split[4] = 100
  BY ReflectionAssumption
<1>3. \A i, j \in 1..4 : options[i] = options[j] => i = j
  BY <1>1 DEF Lists
<1>4. \A k \in Elements(options) : (CHOOSE i \in 1..4 : options[i] = k) \in 1..4
  BY <1>1 DEF Elements
<1>5. \A i \in 1..4 : options[i] \in Elements(options)
  BY <1>1 DEF Elements
<1>6. \A i \in 1..4 : UnitsOn(split)[options[i]] = split[i]
  BY <1>3, <1>5 DEF UnitsOn
<1>7. UnitsOn(split) \in [Elements(options) -> 0..100]
  <2>1. ASSUME NEW k \in Elements(options)
        PROVE  split[CHOOSE i \in 1..4 : options[i] = k] \in 0..100
    <3>1. PICK n \in 1..4 : n = CHOOSE i \in 1..4 : options[i] = k
      BY <1>4
    <3>2. split \in [1..4 -> 0..100]
      BY <1>2
    <3>3. split[n] \in 0..100
      BY <3>2
    <3> QED
      BY <3>1, <3>3
  <2> QED
    BY <2>1 DEF UnitsOn
<1>8. 1 \in 1..4 /\ 2 \in 1..4 /\ 3 \in 1..4 /\ 4 \in 1..4
  OBVIOUS
<1>9. \A i \in 1..4 : UnitsOn(split)[options[i]] \in Int
  <2>1. PICK u : u = UnitsOn(split)
    OBVIOUS
  <2>2. ASSUME NEW i \in 1..4
        PROVE  UnitsOn(split)[options[i]] \in Int
    <3>1. u[options[i]] \in 0..100
      BY <1>5, <1>7, <2>1
    <3>2. PICK n : n = u[options[i]]
      OBVIOUS
    <3>3. n \in 0..100
      BY <3>1, <3>2, Zenon
    <3>4. n \in Int
      BY <3>3
    <3> QED
      BY <2>1, <3>2, <3>4, Zenon
  <2> QED
    BY <2>2
<1>10. UnitsOn(split)[options[1]] + UnitsOn(split)[options[2]]
         + UnitsOn(split)[options[3]] + UnitsOn(split)[options[4]] = 100
  BY <1>2, <1>6, <1>8
<1>11. \A k \in Elements(options) : OfSplit(UnitsOn(split)[k])
  BY <1>4 DEF UnitsOn, OfSplit
<1> QED
  BY <1>7, <1>9, <1>10, <1>11 DEF Hundred

-----------------------------------------------------------------------------
(* The invariant holds.                                                    *)

LEMMA ReceiveKeeps ==
    ASSUME ReflectionInv, NEW reply \in Replies[call.want],
           Receive(reply, Allowed, Fits(reply.value)),
           UNCHANGED <<common, archetypes, options, rows>>
    PROVE  CallInv'
<1> USE DEF ReflectionInv, CallInv
<1>1. /\ call.at = "parse" /\ options = <<>> /\ call.want \in {"archetypes", "options"}
      /\ call.want = "archetypes" => common.spec # <<>>
  BY DEF Receive
<1>2. CASE Raised(reply, Allowed, Fits(reply.value)) = {}
  <2>1. Fits(reply.value)
    BY <1>2 DEF Raised
  <2>2. call' = [call EXCEPT !.at = "answered", !.value = reply.value]
    BY <1>2 DEF Receive
  <2>3. call.want = "options" => reply.value \in Seq(Labels) /\ OnePerPosture(reply.value)
    BY <2>1, ReflectionAssumption DEF Fits
  <2>4. call.want = "archetypes" => Covers(reply.value, Elements(common.spec))
    BY <2>1 DEF Fits
  <2> QED
    BY <1>1, <2>2, <2>3, <2>4 DEF OnePerPosture, Stances, Covers
<1>3. CASE Raised(reply, Allowed, Fits(reply.value)) # {}
  <2>1. PICK a \in {"pause", "failed"} : call' = [call EXCEPT !.at = a]
    BY <1>3 DEF Receive
  <2> QED
    BY <1>1, <2>1
<1> QED
  BY <1>2, <1>3

LEMMA ReflectionInvHolds == ReflectionSpec => []ReflectionInv
<1>1. ReflectionInit => ReflectionInv
  <2> SUFFICES ASSUME ReflectionInit
               PROVE  ReflectionInv
    OBVIOUS
  <2>1. DOMAIN rows = {} /\ IsFiniteSet({})
    BY FS_EmptySet DEF ReflectionInit
  <2> QED
    BY <2>1 DEF ReflectionInit, ReflectionInv, CallInv, ArchetypesInv, OptionsInv, RowsInv, NoCall
<1>2. ReflectionInv /\ [ReflectionNext]_reflectionVars => ReflectionInv'
  <2> SUFFICES ASSUME ReflectionInv, [ReflectionNext]_reflectionVars
               PROVE  ReflectionInv'
    OBVIOUS
  <2> USE DEF ReflectionInv
  <2>1. CASE AskArchetypes
    BY <2>1 DEF AskArchetypes, Ask, NoCall, CallInv, ArchetypesInv, OptionsInv, RowsInv,
                OnePerPosture, Stances, Covers
  <2>2. CASE TakeArchetypes
    BY <2>2 DEF TakeArchetypes, Returns, NoCall, CallInv, ArchetypesInv, OptionsInv, RowsInv,
                OnePerPosture, Stances, Covers
  <2>3. CASE AskOptions
    BY <2>3 DEF AskOptions, Ask, NoCall, CallInv, ArchetypesInv, OptionsInv, RowsInv,
                OnePerPosture, Stances, Covers
  <2>4. CASE TakeOptions
    <3>1. options = <<>> /\ call.value \in Seq(Labels) /\ OnePerPosture(call.value)
      BY <2>4 DEF TakeOptions, Returns, CallInv
    <3>2. DOMAIN rows = {}
      BY <3>1 DEF RowsInv
    <3>3. /\ options' = call.value /\ call'.at = "idle"
          /\ common' = common /\ archetypes' = archetypes /\ rows' = rows
      BY <2>4 DEF TakeOptions, Returns, NoCall
    <3>4. CallInv' /\ ArchetypesInv' /\ OptionsInv'
      BY <3>1, <3>3 DEF CallInv, ArchetypesInv, OptionsInv, OnePerPosture, Stances, Covers
    <3>5. RowsInv'
      BY <3>2, <3>3 DEF RowsInv
    <3> QED
      BY <3>3, <3>4, <3>5
  <2>5. CASE Resume /\ UNCHANGED <<common, archetypes, options, rows>>
    BY <2>5 DEF Resume, CallInv, ArchetypesInv, OptionsInv, RowsInv,
                OnePerPosture, Stances, Covers
  <2>6. ASSUME NEW reply \in Replies[call.want], Receive(reply, Allowed, Fits(reply.value)),
               UNCHANGED <<common, archetypes, options, rows>>
        PROVE  ReflectionInv'
    <3>1. CallInv'
      BY <2>6, ReceiveKeeps
    <3>2. ArchetypesInv' /\ OptionsInv' /\ RowsInv'
      BY <2>6 DEF ArchetypesInv, OptionsInv, RowsInv, OnePerPosture, Stances, Covers
    <3> QED
      BY <2>6, <3>1, <3>2
  <2>7. ASSUME NEW d \in Numbers, NEW split \in Splits, Submit(d, split)
        PROVE  ReflectionInv'
    <3>1. options # <<>> /\ UNCHANGED <<common, archetypes, options, call>>
      BY <2>7 DEF Submit
    <3>2. CallInv' /\ ArchetypesInv' /\ OptionsInv'
      BY <3>1 DEF CallInv, ArchetypesInv, OptionsInv, OnePerPosture, Stances, Covers
    <3>3. d \in Nat
      BY ReflectionAssumption DEF Numbers
    <3>4. PICK r \in RoundsWith(d) :
             rows' = [n \in DOMAIN rows \union {d} |->
                        IF n = d THEN [round |-> r, units |-> UnitsOn(split)] ELSE rows[n]]
      BY <2>7 DEF Submit
    <3>5. /\ UnitsOn(split) \in [Elements(options) -> 0..100]
          /\ Hundred(UnitsOn(split), options)
          /\ \A k \in Elements(options) : OfSplit(UnitsOn(split)[k])
      BY <3>1, UnitsAreHundred DEF OptionsInv
    <3>6. IsFiniteSet(DOMAIN rows \union {d})
      BY FS_AddElement DEF RowsInv
    <3>7. RowsInv'
      <4>1. /\ DOMAIN rows' = DOMAIN rows \union {d} /\ rows'[d].units = UnitsOn(split)
            /\ \A n \in DOMAIN rows : n # d => rows'[n] = rows[n]
        BY <3>4
      <4>2. IsFiniteSet(DOMAIN rows') /\ DOMAIN rows' \subseteq Nat
        BY <3>3, <3>6, <4>1 DEF RowsInv
      <4>3. ASSUME NEW n \in DOMAIN rows'
            PROVE  /\ rows'[n].units \in [Elements(options) -> 0..100]
                   /\ Hundred(rows'[n].units, options)
                   /\ \A k \in Elements(options) : OfSplit(rows'[n].units[k])
        <5>1. CASE n = d
          BY <3>5, <4>1, <5>1
        <5>2. CASE n # d
          BY <4>1, <5>2 DEF RowsInv
        <5> QED
          BY <5>1, <5>2
      <4> QED
        BY <3>1, <4>2, <4>3 DEF RowsInv
    <3> QED
      BY <3>1, <3>2, <3>7
  <2>8. CASE UNCHANGED reflectionVars
    <3>1. /\ common' = common /\ archetypes' = archetypes /\ options' = options
          /\ rows' = rows /\ call' = call
      BY <2>8 DEF reflectionVars
    <3>2. CallInv'
      BY <3>1 DEF CallInv, OnePerPosture, Stances, Covers
    <3> QED
      BY <3>1, <3>2 DEF ArchetypesInv, OptionsInv, RowsInv, OnePerPosture, Stances, Covers
  <2> QED
    BY <2>1, <2>2, <2>3, <2>4, <2>5, <2>6, <2>7, <2>8 DEF ReflectionNext, Generate
<1> QED
  BY <1>1, <1>2, PTL DEF ReflectionSpec

-----------------------------------------------------------------------------
(* Totals.                                                                 *)

\* The units a decision has on k.
Column(k) == [d \in DOMAIN rows |-> IF k \in DOMAIN rows[d].units THEN rows[d].units[k] ELSE 0]

LEMMA ColumnType ==
    ASSUME ReflectionInv, NEW k
    PROVE  Column(k) \in [DOMAIN rows -> Nat]
<1>1. ASSUME NEW d \in DOMAIN rows
      PROVE  (IF k \in DOMAIN rows[d].units THEN rows[d].units[k] ELSE 0) \in Nat
  <2>1. rows[d].units \in [Elements(options) -> 0..100]
    BY DEF ReflectionInv, RowsInv
  <2>2. PICK u : u = rows[d].units
    OBVIOUS
  <2>3. u \in [Elements(options) -> 0..100]
    BY <2>1, <2>2
  <2>4. k \in DOMAIN u => u[k] \in Nat
    BY <2>3
  <2> QED
    BY <2>2, <2>4
<1> QED
  BY <1>1 DEF Column

LEMMA TotalIsSum ==
    ASSUME ReflectionInv, NEW S \in SUBSET DOMAIN rows, NEW k
    PROVE  IsFiniteSet(S) /\ Total(S, k) = SumOf(Column(k), S) /\ Total(S, k) \in Nat
<1> DEFINE g == [d \in S |-> IF k \in DOMAIN rows[d].units THEN rows[d].units[k] ELSE 0]
           D == DOMAIN rows
<1>1. IsFiniteSet(D) /\ IsFiniteSet(S)
  BY FS_Subset DEF ReflectionInv, RowsInv
<1>2. Column(k) \in [D -> Nat] /\ Column(k) \in [D -> Int]
  BY ColumnType, IntValued
<1>3. \A d \in S : g[d] = Column(k)[d]
  BY DEF Column
<1>4. DOMAIN g = S /\ g \in [S -> Int]
  <2>1. \A d \in S : Column(k)[d] \in Int
    BY <1>2
  <2> HIDE DEF D
  <2>2. \A d \in S : (IF k \in DOMAIN rows[d].units THEN rows[d].units[k] ELSE 0) \in Int
    BY <1>3, <2>1
  <2> QED
    BY <2>2
<1>5. Total(S, k) = SumFunction(g)
  BY DEF Total
<1> HIDE DEF g, D
<1>6. SumFunction(g) = SumOf(g, S)
  BY <1>1, <1>4, FunctionSum
<1>7. S \in SUBSET D
  BY DEF D
<1>8. SumOf(g, S) = SumOf(Column(k), S)
  BY <1>1, <1>2, <1>3, <1>4, <1>7, SumRestricted
<1>9. SumOf(Column(k), S) \in Nat
  BY <1>1, <1>2, <1>7, SumNat
<1> QED
  BY <1>1, <1>5, <1>6, <1>8, <1>9

-----------------------------------------------------------------------------
(* Ranks.                                                                  *)

\* The keys are finitely many, and each has its position.
LEMMA KeysHavePositions ==
    ASSUME ReflectionInv
    PROVE  /\ IsFiniteSet(Keys)
           /\ \A k \in Keys : Position(k) \in Nat
           /\ \A k, l \in Keys : Position(k) = Position(l) => k = l
<1>1. common.spec \in Seq(Labels) /\ common.types \in Seq(Labels)
  BY ReflectionAssumption DEF ReflectionInv
<1>2. Parameters \in Seq(Labels)
  BY <1>1, ReflectionAssumption DEF Parameters, Stances
<1>3. PICK n \in Nat : DOMAIN Parameters = 1..n
  BY <1>2
<1>4. PICK P : P = Parameters
  OBVIOUS
<1>5. P \in Surjection(1..n, Keys)
  BY <1>2, <1>3, <1>4 DEF Surjection, Keys, Elements
<1>6. IsFiniteSet(1..n)
  <2>1. PICK a \in Int, b \in Int : a = 1 /\ b = n
    OBVIOUS
  <2>2. IsFiniteSet(a..b)
    BY FS_Interval
  <2> QED
    BY <2>1, <2>2
<1>7. IsFiniteSet(Keys)
  BY <1>5, <1>6, FS_Surjection
<1>8. ASSUME NEW k \in Keys
      PROVE  Position(k) \in 1..n /\ P[Position(k)] = k
  <2>1. \E i \in DOMAIN P : P[i] = k
    BY <1>4, <1>8 DEF Keys, Elements
  <2>2. Position(k) = CHOOSE i \in DOMAIN P : P[i] = k
    BY <1>4 DEF Position
  <2> QED
    BY <1>3, <1>4, <2>1, <2>2
<1>9. \A i \in 1..n : i \in Nat
  OBVIOUS
<1> QED
  BY <1>7, <1>8, <1>9

\* Whatever set of keys is ranked over whatever decisions, one leads and one
\* is led by all the others.
LEMMA Ranking ==
    ASSUME ReflectionInv, NEW S \in SUBSET DOMAIN rows, NEW K \in SUBSET Keys, K # {}
    PROVE  /\ FirstOf(S, K) \in K /\ \A l \in K \ {FirstOf(S, K)} : Leads(S, FirstOf(S, K), l)
           /\ LastOf(S, K) \in K /\ \A l \in K \ {LastOf(S, K)} : Leads(S, l, LastOf(S, K))
<1> DEFINE t == [k \in K |-> Total(S, k)]
           q == [k \in K |-> Position(k)]
<1>1. IsFiniteSet(K)
  BY KeysHavePositions, FS_Subset
<1>2. /\ t \in [K -> Nat] /\ q \in [K -> Nat]
      /\ \A k \in K : t[k] = Total(S, k) /\ q[k] = Position(k)
      /\ \A k, l \in K : q[k] = q[l] => k = l
  <2>1. \A k \in K : Total(S, k) \in Nat /\ Position(k) \in Nat
    BY TotalIsSum, KeysHavePositions
  <2>2. \A k, l \in K : Position(k) = Position(l) => k = l
    BY KeysHavePositions
  <2> QED
    BY <2>1, <2>2
<1> HIDE DEF t, q
<1>3. \E k \in K : \A l \in K \ {k} : Leads(S, k, l)
  <2>1. PICK k \in K : \A l \in K \ {k} : t[k] > t[l] \/ (t[k] = t[l] /\ q[k] < q[l])
    BY <1>1, <1>2, FirstByRank
  <2> QED
    BY <1>2, <2>1 DEF Leads
<1>4. \E k \in K : \A l \in K \ {k} : Leads(S, l, k)
  <2>1. PICK k \in K : \A l \in K \ {k} : t[l] > t[k] \/ (t[l] = t[k] /\ q[l] < q[k])
    BY <1>1, <1>2, LastByRank
  <2> QED
    BY <1>2, <2>1 DEF Leads
<1> QED
  BY <1>3, <1>4 DEF FirstOf, LastOf

-----------------------------------------------------------------------------
(* The pattern.                                                            *)

Grand == [k \in Keys |-> GrandTotal(k)]

LEMMA GrandIsSum ==
    ASSUME ReflectionInv
    PROVE  /\ IsFiniteSet(Keys) /\ Grand \in [Keys -> Nat] /\ Grand \in [Keys -> Int]
           /\ \A k \in Keys : Grand[k] = GrandTotal(k)
           /\ GrandSum = SumOf(Grand, Keys)
<1>1. Grand \in [Keys -> Nat]
  BY TotalIsSum DEF GrandTotal, Grand
<1>2. GrandSum = SumFunction(Grand)
  BY DEF GrandSum, Grand
<1>3. Grand \in [Keys -> Int] /\ IsFiniteSet(Keys)
  BY <1>1, KeysHavePositions, IntValued
<1>4. SumFunction(Grand) = SumOf(Grand, Keys)
  BY <1>3, FunctionSum
<1> QED
  BY <1>1, <1>2, <1>3, <1>4 DEF Grand

\* A dominant pattern is one key or two of the parameters.
LEMMA DominantIsPattern ==
    ASSUME ReflectionInv, Dominant # {}
    PROVE  Dominant \in Patterns(Keys)
<1> DEFINE k == Ranked(Keys)
           R == Keys \ {k}
<1>1. /\ Grand \in [Keys -> Nat] /\ Grand \in [Keys -> Int]
      /\ GrandSum = SumOf(Grand, Keys)
  BY GrandIsSum
<1>2. GrandSum # 0
  BY DEF Dominant
<1>3. Keys # {}
  BY <1>1, <1>2, SumEmpty
<1>4. DOMAIN rows \in SUBSET DOMAIN rows
  OBVIOUS
<1>5. CASE Maxed # {}
  <2>1. Ranked(Maxed) \in Keys
    <3>1. Maxed \in SUBSET Keys
      BY DEF Maxed
    <3>2. FirstOf(DOMAIN rows, Maxed) \in Maxed
      BY <1>4, <1>5, <3>1, Ranking
    <3> QED
      BY <3>1, <3>2 DEF Ranked
  <2>2. Dominant = {Ranked(Maxed), Ranked(Maxed)}
    BY <1>2, <1>5 DEF Dominant
  <2> QED
    BY <2>1, <2>2 DEF Patterns
<1>6. CASE Maxed = {}
  <2>1. k \in Keys
    <3>1. FirstOf(DOMAIN rows, Keys) \in Keys
      BY <1>3, <1>4, Ranking
    <3> QED
      BY <3>1 DEF Ranked
  <2>2. R # {}
    <3> SUFFICES ASSUME R = {} PROVE FALSE
      OBVIOUS
    <3>1. SumOf(Grand, Keys) = Grand[k] + SumOf(Grand, R)
      <4>1. IsFiniteSet(Keys)
        BY KeysHavePositions
      <4> HIDE DEF k
      <4> QED
        BY <1>1, <2>1, <4>1, SumRemove
    <3>2. SumOf(Grand, R) = 0
      BY SumEmpty
    <3>3. Grand[k] = GrandTotal(k) /\ Grand[k] \in Nat
      BY <1>1, <2>1, GrandIsSum
    <3>4. GrandTotal(k) = GrandSum
      BY <1>1, <3>1, <3>2, <3>3
    <3> QED
      BY <1>6, <2>1, <3>4 DEF Maxed
  <2>3. Ranked(R) \in R
    <3>1. FirstOf(DOMAIN rows, R) \in R
      BY <1>4, <2>2, Ranking
    <3> QED
      BY <3>1 DEF Ranked
  <2>4. Dominant = {k, Ranked(R)}
    BY <1>2, <1>6 DEF Dominant
  <2> QED
    BY <2>1, <2>3, <2>4 DEF Patterns
<1> QED
  BY <1>5, <1>6

\* The theorem of the archetypes: a participant's dominant pattern has exactly
\* one entry among those of the version, for any spec, any allocations and
\* whatever the model answered that passed covers_all_patterns
\* (archetypes.py:184-202, reflection_service.py:156-193).
THEOREM PatternsHaveArchetypes == ReflectionSpec => []PatternHasArchetype
<1>1. ReflectionInv => PatternHasArchetype
  <2> SUFFICES ASSUME ReflectionInv, archetypes # <<>>, Dominant # {}
               PROVE  Cardinality(Found) = 1
    BY DEF PatternHasArchetype
  <2>1. common.spec # <<>> /\ Covers(archetypes, Elements(common.spec))
    BY DEF ReflectionInv, ArchetypesInv
  <2>2. Keys = Elements(common.spec)
    BY <2>1 DEF Keys, Parameters
  <2>3. Dominant \in Patterns(Keys)
    BY DominantIsPattern
  <2>4. PICK i \in DOMAIN archetypes : Elements(archetypes[i]) = Dominant
    BY <2>1, <2>2, <2>3 DEF Covers
  <2>5. \A j \in DOMAIN archetypes : Elements(archetypes[j]) = Dominant => j = i
    BY <2>1, <2>4 DEF Covers
  <2>6. Found = {i}
    BY <2>4, <2>5 DEF Found
  <2> QED
    BY <2>6, FS_Singleton
<1> QED
  BY <1>1, ReflectionInvHolds, PTL

-----------------------------------------------------------------------------
(* The board.                                                              *)

\* The four stances of a session that has answered something.
LEMMA FourStances ==
    ASSUME ReflectionInv, DOMAIN rows # {}
    PROVE  /\ Lists(Elements(Stances), options) /\ Elements(options) = Elements(Stances)
           /\ \A d \in DOMAIN rows : /\ rows[d].units \in [Elements(Stances) -> 0..100]
                                     /\ Hundred(rows[d].units, options)
<1>1. options # <<>>
  BY DEF ReflectionInv, RowsInv
<1>2. options \in Seq(Labels) /\ OnePerPosture(options)
  BY <1>1 DEF ReflectionInv, OptionsInv
<1>3. Lists(Elements(options), options) /\ Elements(options) = Elements(Stances)
  BY <1>2, OptionsDiffer
<1>4. \A d \in DOMAIN rows : /\ rows[d].units \in [Elements(options) -> 0..100]
                             /\ Hundred(rows[d].units, options)
  BY DEF ReflectionInv, RowsInv
<1> QED
  BY <1>3, <1>4

\* Every decision has spent its 100 units.
LEMMA FourTotals ==
    ASSUME ReflectionInv, DOMAIN rows # {}, NEW S \in SUBSET DOMAIN rows
    PROVE  Total(S, options[1]) + Total(S, options[2])
             + Total(S, options[3]) + Total(S, options[4]) = 100 * Cardinality(S)
<1> DEFINE D == DOMAIN rows
           f(i) == Column(options[i])
           g == [d \in D |-> f(1)[d] + f(2)[d]]
           h == [d \in D |-> f(3)[d] + f(4)[d]]
           a == [d \in D |-> g[d] + h[d]]
<1>1. /\ f(1) \in [D -> Nat] /\ f(2) \in [D -> Nat] /\ f(3) \in [D -> Nat] /\ f(4) \in [D -> Nat]
  BY ColumnType
<1>2. /\ f(1) \in [D -> Int] /\ f(2) \in [D -> Int] /\ f(3) \in [D -> Int] /\ f(4) \in [D -> Int]
  BY <1>1, IntValued
<1>3. IsFiniteSet(S)
  BY FS_Subset DEF ReflectionInv, RowsInv
<1>4. ASSUME NEW d \in D
      PROVE  f(1)[d] + f(2)[d] + f(3)[d] + f(4)[d] = 100
  <2>1. PICK u : u = rows[d].units
    OBVIOUS
  <2>2. u \in [Elements(Stances) -> 0..100] /\ Hundred(u, options)
    BY <2>1, FourStances
  <2>3. /\ options[1] \in Elements(Stances) /\ options[2] \in Elements(Stances)
        /\ options[3] \in Elements(Stances) /\ options[4] \in Elements(Stances)
    BY FourStances DEF Lists
  <2>4. /\ f(1)[d] = u[options[1]] /\ f(2)[d] = u[options[2]]
        /\ f(3)[d] = u[options[3]] /\ f(4)[d] = u[options[4]]
    BY <2>1, <2>2, <2>3 DEF Column
  <2> QED
    BY <2>2, <2>4 DEF Hundred
<1>5. \A d \in D : a[d] = 100
  <2>1. ASSUME NEW d \in D
        PROVE  a[d] = 100
    <3>1. /\ f(1)[d] \in Nat /\ f(2)[d] \in Nat /\ f(3)[d] \in Nat /\ f(4)[d] \in Nat
      BY <1>1
    <3>2. a[d] = (f(1)[d] + f(2)[d]) + (f(3)[d] + f(4)[d])
      OBVIOUS
    <3> HIDE DEF f, a
    <3> QED
      BY <1>4, <3>1, <3>2
  <2> QED
    BY <2>1
<1>6. /\ g \in [D -> Int] /\ h \in [D -> Int] /\ a \in [D -> Int]
      /\ Adds(g, f(1), f(2), S) /\ Adds(h, f(3), f(4), S) /\ Adds(a, g, h, S)
  BY <1>2 DEF Adds
<1>7. S \in SUBSET D
  OBVIOUS
<1>8. /\ SumOf(f(1), S) = Total(S, options[1]) /\ SumOf(f(2), S) = Total(S, options[2])
      /\ SumOf(f(3), S) = Total(S, options[3]) /\ SumOf(f(4), S) = Total(S, options[4])
  BY TotalIsSum
<1> HIDE DEF D, f, g, h, a
<1>9. SumOf(g, S) = SumOf(f(1), S) + SumOf(f(2), S)
  <2>1. Plus(g, f(1), f(2), D, S)
    BY SumPlus
  <2> QED
    BY <1>2, <1>3, <1>6, <1>7, <2>1 DEF Plus
<1>10. SumOf(h, S) = SumOf(f(3), S) + SumOf(f(4), S)
  <2>1. Plus(h, f(3), f(4), D, S)
    BY SumPlus
  <2> QED
    BY <1>2, <1>3, <1>6, <1>7, <2>1 DEF Plus
<1>11. SumOf(a, S) = SumOf(g, S) + SumOf(h, S)
  <2>1. Plus(a, g, h, D, S)
    BY SumPlus
  <2> QED
    BY <1>3, <1>6, <1>7, <2>1 DEF Plus
<1>12. SumOf(a, S) = 100 * Cardinality(S)
  <2>1. PICK c \in Int : c = 100
    OBVIOUS
  <2>2. \A d \in S : a[d] = c
    BY <1>5, <1>7, <2>1
  <2>3. SumOf(a, S) = c * Cardinality(S)
    BY <1>3, <1>6, <1>7, <2>2, SumConstant
  <2> QED
    BY <2>1, <2>3
<1>13. /\ Total(S, options[1]) \in Nat /\ Total(S, options[2]) \in Nat
       /\ Total(S, options[3]) \in Nat /\ Total(S, options[4]) \in Nat
  BY TotalIsSum
<1> QED
  BY <1>8, <1>9, <1>10, <1>11, <1>12, <1>13

\* s is at most half a ten-thousandth from the share of u in t, m being 2 * t.
Near(s, u, t, m) == s \in Int /\ m * s <= 20000 * u + t /\ 20000 * u + t < m * s + m

LEMMA ScoreBounds ==
    ASSUME NEW u, NEW t, NEW m
    PROVE  u \in Nat /\ t \in Nat /\ t > 0 /\ m = 2 * t => Near(Score(u, t), u, t, m)
<1> SUFFICES ASSUME u \in Nat, t \in Nat, t > 0, m = 2 * t
             PROVE  Near(Score(u, t), u, t, m)
  OBVIOUS
<1>1. PICK n \in Int : n = 20000 * u + t
  OBVIOUS
<1>2. m \in Int /\ m > 0
  OBVIOUS
<1>3. n \div m \in Int /\ m * (n \div m) <= n /\ n < m * (n \div m) + m
  BY <1>2
<1>4. Score(u, t) = n \div m
  BY <1>1 DEF Score
<1> QED
  BY <1>1, <1>3, <1>4 DEF Near

LEMMA Products ==
    ASSUME NEW m \in Int, m > 0, NEW n \in Int, NEW c \in Int
    PROVE  /\ m * n <= m * c => n <= c
           /\ m * n < m * c => n < c
<1>1. ASSUME n >= c
      PROVE  m * n >= m * c
  <2>1. PICK d \in Nat : n = c + d
    <3>1. n - c \in Nat /\ n = c + (n - c)
      BY <1>1
    <3> QED
      BY <3>1
  <2>2. m * n = m * c + m * d
    BY <2>1
  <2>3. m * d >= 0
    OBVIOUS
  <2> QED
    BY <2>2, <2>3
<1>2. ASSUME n > c
      PROVE  m * n > m * c
  <2>1. PICK d \in Nat : n = c + 1 + d
    <3>1. n - c - 1 \in Nat /\ n = c + 1 + (n - c - 1)
      BY <1>2
    <3> QED
      BY <3>1
  <2>2. m * n = m * c + m + m * d
    BY <2>1
  <2>3. m * d >= 0
    OBVIOUS
  <2> QED
    BY <2>2, <2>3
<1> QED
  BY <1>1, <1>2

\* Four rounded shares of all the units are together all of it, or nearly.
LEMMA ScoresAddUp ==
    ASSUME NEW t, NEW m, NEW u, NEW v, NEW w, NEW x, NEW a, NEW b, NEW c, NEW d
    PROVE  /\ t \in Nat /\ t > 0 /\ m = 2 * t
           /\ u \in Nat /\ v \in Nat /\ w \in Nat /\ x \in Nat /\ u + v + w + x = t
           /\ Near(a, u, t, m) /\ Near(b, v, t, m) /\ Near(c, w, t, m) /\ Near(d, x, t, m)
           => a + b + c + d \in 9998..10002
<1> SUFFICES ASSUME t \in Nat, t > 0, m = 2 * t, u \in Nat, v \in Nat, w \in Nat, x \in Nat,
                    u + v + w + x = t, Near(a, u, t, m), Near(b, v, t, m),
                    Near(c, w, t, m), Near(d, x, t, m)
             PROVE  a + b + c + d \in 9998..10002
  OBVIOUS
<1>1. m \in Int /\ m = 2 * t
  OBVIOUS
<1>2. /\ a \in Int /\ b \in Int /\ c \in Int /\ d \in Int
      /\ m * a <= 20000 * u + t /\ 20000 * u + t < m * a + m
      /\ m * b <= 20000 * v + t /\ 20000 * v + t < m * b + m
      /\ m * c <= 20000 * w + t /\ 20000 * w + t < m * c + m
      /\ m * d <= 20000 * x + t /\ 20000 * x + t < m * d + m
  BY DEF Near
<1>3. PICK n \in Int : n = a + b + c + d /\ m * n = m * a + m * b + m * c + m * d
  <2>1. m * (a + b + c + d) = m * a + m * b + m * c + m * d
    BY <1>2
  <2> QED
    BY <1>2, <2>1
<1>4. PICK ma \in Int, mb \in Int, mc \in Int, md \in Int, mn \in Int :
         ma = m * a /\ mb = m * b /\ mc = m * c /\ md = m * d /\ mn = m * n
  BY <1>2
<1>5. mn <= 10002 * m /\ 9998 * m < mn
  <2>1. /\ ma <= 20000 * u + t /\ 20000 * u + t < ma + m
        /\ mb <= 20000 * v + t /\ 20000 * v + t < mb + m
        /\ mc <= 20000 * w + t /\ 20000 * w + t < mc + m
        /\ md <= 20000 * x + t /\ 20000 * x + t < md + m
        /\ mn = ma + mb + mc + md
    BY <1>2, <1>3, <1>4
  <2> QED
    BY <1>1, <2>1
<1>6. n <= 10002 /\ 9998 < n
  <2>1. m > 0 /\ m * n <= m * 10002 /\ m * 9998 < m * n
    BY <1>1, <1>4, <1>5
  <2>2. PICK h \in Int, l \in Int : h = 10002 /\ l = 9998
    OBVIOUS
  <2>3. m * n <= m * h => n <= h
    BY <2>1, Products
  <2>4. m * l < m * n => l < n
    BY <2>1, Products
  <2> QED
    BY <2>1, <2>2, <2>3, <2>4
<1> QED
  BY <1>3, <1>6

LEMMA LeadsOneWay ==
    ASSUME ReflectionInv, NEW S \in SUBSET DOMAIN rows, NEW k \in Keys, NEW l \in Keys,
           Leads(S, k, l)
    PROVE  ~ Leads(S, l, k) /\ Total(S, l) <= Total(S, k)
<1>1. /\ Total(S, k) \in Nat /\ Total(S, l) \in Nat
  BY TotalIsSum
<1>2. Position(k) \in Nat /\ Position(l) \in Nat
  BY KeysHavePositions
<1> QED
  BY <1>1, <1>2 DEF Leads

\* The pattern of a session of one round is what the round leans to, and it
\* leans away from something else.
LEMMA LeanAndPattern ==
    ASSUME ReflectionInv, DOMAIN rows # {}, Keys = Elements(Stances)
    PROVE  /\ FirstOf(DOMAIN rows, Keys) \in Dominant
           /\ LastOf(DOMAIN rows, Keys) \notin Dominant
<1> DEFINE D == DOMAIN rows
           a == FirstOf(D, Keys)
           z == LastOf(D, Keys)
<1>1. Lists(Keys, options)
  BY FourStances
<1>2. \A x, y : \E k \in Keys : k # x /\ k # y
  BY <1>1 DEF Lists
<1>3. Keys # {} /\ D \in SUBSET D
  BY <1>2
<1>4. /\ a \in Keys /\ \A l \in Keys \ {a} : Leads(D, a, l)
      /\ z \in Keys /\ \A l \in Keys \ {z} : Leads(D, l, z)
  BY <1>3, Ranking
<1> HIDE DEF a, z
<1>5. /\ Grand \in [Keys -> Nat] /\ Grand \in [Keys -> Int] /\ IsFiniteSet(Keys)
      /\ GrandSum = SumOf(Grand, Keys)
      /\ \A k \in Keys : Grand[k] = GrandTotal(k)
  BY GrandIsSum
<1>6. GrandSum \in Nat /\ GrandSum > 0
  <2>1. SumOf(Grand, Keys) = Grand[options[1]] + Grand[options[2]]
                               + Grand[options[3]] + Grand[options[4]]
    BY <1>1, <1>5, SumOfFour
  <2>2. /\ Grand[options[1]] = Total(D, options[1]) /\ Grand[options[2]] = Total(D, options[2])
        /\ Grand[options[3]] = Total(D, options[3]) /\ Grand[options[4]] = Total(D, options[4])
    BY <1>1, <1>5 DEF Lists, GrandTotal
  <2>3. Total(D, options[1]) + Total(D, options[2])
          + Total(D, options[3]) + Total(D, options[4]) = 100 * Cardinality(D)
    BY <1>3, FourTotals
  <2>4. Cardinality(D) \in Nat /\ Cardinality(D) # 0
    <3>1. IsFiniteSet(D)
      BY DEF ReflectionInv, RowsInv
    <3> QED
      BY <3>1, FS_CardinalityType, FS_EmptySet
  <2> QED
    BY <1>5, <2>1, <2>2, <2>3, <2>4
<1>7. CASE Maxed # {}
  <2>1. PICK m : m = Ranked(Maxed)
    OBVIOUS
  <2>2. m \in Maxed /\ m \in Keys /\ Grand[m] = GrandSum
    <3>1. Maxed \in SUBSET Keys
      BY DEF Maxed
    <3>2. FirstOf(D, Maxed) \in Maxed
      BY <1>3, <1>7, <3>1, Ranking
    <3> QED
      BY <1>5, <2>1, <3>2 DEF Ranked, Maxed
  <2>3. Dominant = {m}
    BY <1>6, <1>7, <2>1 DEF Dominant
  <2>4. \A l \in Keys \ {m} : Grand[l] = 0
    <3>1. PICK R : R = Keys \ {m}
      OBVIOUS
    <3>2. IsFiniteSet(R) /\ R \in SUBSET Keys
      BY <1>5, <3>1, FS_Subset
    <3>3. SumOf(Grand, Keys) = Grand[m] + SumOf(Grand, R)
      BY <1>5, <2>2, <3>1, SumRemove
    <3>4. SumOf(Grand, R) \in Nat
      BY <1>5, <3>2, SumNat
    <3>5. SumOf(Grand, R) = 0
      BY <1>5, <1>6, <2>2, <3>3, <3>4
    <3> QED
      BY <1>5, <3>1, <3>2, <3>5, SumZero
  <2>5. \A l \in Keys \ {m} : ~ Leads(D, l, m)
    BY <1>5, <1>6, <2>2, <2>4 DEF Leads, GrandTotal
  <2>6. a = m
    BY <1>4, <2>2, <2>5
  <2>7. z # m
    BY <1>2, <1>4, <2>5
  <2> QED
    BY <2>3, <2>6, <2>7 DEF a, z
<1>8. CASE Maxed = {}
  <2>1. PICK R : R = Keys \ {a}
    OBVIOUS
  <2>2. PICK s : s = FirstOf(D, R)
    OBVIOUS
  <2>3. s \in R /\ \A l \in R \ {s} : Leads(D, s, l)
    <3>1. R \in SUBSET Keys /\ R # {}
      BY <1>2, <2>1
    <3> QED
      BY <1>3, <2>2, <3>1, Ranking
  <2>4. Dominant = {a, s}
    BY <1>6, <1>8, <2>1, <2>2 DEF Dominant, Ranked, a
  <2>5. z # a
    <3>1. PICK k \in Keys : k # a
      BY <1>2
    <3>2. Leads(D, a, k)
      BY <1>4, <3>1
    <3>3. ~ Leads(D, k, a)
      BY <1>3, <1>4, <3>2, LeadsOneWay
    <3> QED
      BY <1>4, <3>1, <3>3
  <2>6. z # s
    <3>1. PICK k \in Keys : k # a /\ k # s
      BY <1>2
    <3>2. Leads(D, s, k) /\ s \in Keys
      BY <2>1, <2>3, <3>1
    <3>3. ~ Leads(D, k, s)
      BY <1>3, <3>2, LeadsOneWay
    <3> QED
      BY <1>4, <3>1, <3>3
  <2> QED
    BY <2>4, <2>5, <2>6 DEF a, z
<1> QED
  BY <1>7, <1>8

\* The board's theorem, for any parameters and any rounds
\* (reflection_service.py:134-151 and 167-186).
THEOREM BoardsAreCoherent == ReflectionSpec => []BoardIsCoherent
<1>1. ReflectionInv => BoardIsCoherent
  <2> SUFFICES ASSUME ReflectionInv, NEW r \in Rounds, OfRound(r) # {},
                      Keys = Elements(Stances), NEW S, S = OfRound(r)
               PROVE  /\ Abs(SumFunction([k \in Keys |-> Score(Total(S, k), RoundTotal(r))])
                               - 10000) <= 2
                      /\ \A k \in Keys : /\ Total(S, Lean(r)[2]) <= Total(S, k)
                                         /\ Total(S, k) <= Total(S, Lean(r)[1])
                      /\ S = DOMAIN rows =>
                            Lean(r)[1] \in Dominant /\ Lean(r)[2] \notin Dominant
    BY DEF BoardIsCoherent
  <2>1. S \in SUBSET DOMAIN rows /\ S # {} /\ DOMAIN rows # {}
    BY DEF OfRound
  <2>2. Lists(Keys, options)
    BY <2>1, FourStances
  <2>3. PICK t : t = RoundTotal(r)
    OBVIOUS
  <2>4. t \in Nat /\ t > 0 /\ t = 100 * Cardinality(S)
    <3>1. IsFiniteSet(S)
      BY <2>1, TotalIsSum
    <3>2. Cardinality(S) \in Nat /\ Cardinality(S) # 0
      BY <2>1, <3>1, FS_CardinalityType, FS_EmptySet
    <3> QED
      BY <2>3, <3>2 DEF RoundTotal
  <2>5. /\ Total(S, options[1]) \in Nat /\ Total(S, options[2]) \in Nat
        /\ Total(S, options[3]) \in Nat /\ Total(S, options[4]) \in Nat
        /\ Total(S, options[1]) + Total(S, options[2])
             + Total(S, options[3]) + Total(S, options[4]) = t
    BY <2>1, <2>4, TotalIsSum, FourTotals
  <2>6. Abs(SumFunction([k \in Keys |-> Score(Total(S, k), t)]) - 10000) <= 2
    <3> DEFINE f == [k \in Keys |-> Score(Total(S, k), t)]
    <3>1. /\ f[options[1]] = Score(Total(S, options[1]), t)
          /\ f[options[2]] = Score(Total(S, options[2]), t)
          /\ f[options[3]] = Score(Total(S, options[3]), t)
          /\ f[options[4]] = Score(Total(S, options[4]), t)
      BY <2>2 DEF Lists
    <3>2. f \in [Keys -> Int]
      <4>1. ASSUME NEW k \in Keys
            PROVE  Score(Total(S, k), t) \in Int
        <5>1. Total(S, k) \in Nat
          BY <2>1, TotalIsSum
        <5>2. PICK m : m = 2 * t
          OBVIOUS
        <5>3. Near(Score(Total(S, k), t), Total(S, k), t, m)
          BY <2>4, <5>1, <5>2, ScoreBounds
        <5> QED
          BY <5>3 DEF Near
      <4> QED
        BY <4>1
    <3> HIDE DEF f
    <3>3. IsFiniteSet(Keys)
      BY KeysHavePositions
    <3>4. SumFunction(f) = SumOf(f, Keys)
      BY <3>2, <3>3, FunctionSum
    <3>5. SumOf(f, Keys) = f[options[1]] + f[options[2]] + f[options[3]] + f[options[4]]
      BY <2>2, <3>2, SumOfFour
    <3>6. PICK m : m = 2 * t
      OBVIOUS
    <3>7. PICK a, b, c, d :
             /\ a = f[options[1]] /\ b = f[options[2]] /\ c = f[options[3]] /\ d = f[options[4]]
      OBVIOUS
    <3>8. /\ Near(a, Total(S, options[1]), t, m) /\ Near(b, Total(S, options[2]), t, m)
           /\ Near(c, Total(S, options[3]), t, m) /\ Near(d, Total(S, options[4]), t, m)
      BY <2>4, <2>5, <3>1, <3>6, <3>7, ScoreBounds
    <3>9. a + b + c + d \in 9998..10002
      BY <2>4, <2>5, <3>6, <3>8, ScoresAddUp
    <3>10. PICK n \in Int : n = SumFunction(f) /\ 9998 <= n /\ n <= 10002
      BY <3>4, <3>5, <3>7, <3>9
    <3>11. Abs(n - 10000) <= 2
      BY <3>10 DEF Abs
    <3> QED
      BY <3>10, <3>11 DEF f
  <2>7. PICK a, z : a = Lean(r)[1] /\ z = Lean(r)[2]
    OBVIOUS
  <2>8. a = FirstOf(S, Keys) /\ z = LastOf(S, Keys)
    BY <2>7 DEF Lean
  <2>9. /\ a \in Keys /\ \A l \in Keys \ {a} : Leads(S, a, l)
        /\ z \in Keys /\ \A l \in Keys \ {z} : Leads(S, l, z)
    <3>1. Keys # {} /\ Keys \in SUBSET Keys
      BY <2>2 DEF Lists
    <3> QED
      BY <2>1, <2>8, <3>1, Ranking
  <2>10. ASSUME NEW k \in Keys
         PROVE  Total(S, z) <= Total(S, k) /\ Total(S, k) <= Total(S, a)
    <3>1. Total(S, k) \in Nat
      BY <2>1, TotalIsSum
    <3>2. Total(S, k) <= Total(S, a)
      BY <2>1, <2>9, <3>1, LeadsOneWay
    <3>3. Total(S, z) <= Total(S, k)
      BY <2>1, <2>9, <3>1, LeadsOneWay
    <3> QED
      BY <3>2, <3>3
  <2>11. S = DOMAIN rows => a \in Dominant /\ z \notin Dominant
    BY <2>1, <2>8, LeanAndPattern
  <2> QED
    BY <2>3, <2>6, <2>7, <2>10, <2>11
<1> QED
  BY <1>1, ReflectionInvHolds, PTL

-----------------------------------------------------------------------------
(* Distances.                                                              *)

Gap(d, e) == [k \in Elements(Stances) |-> Abs(rows[d].units[k] - rows[e].units[k])]

LEMMA Absolute ==
    ASSUME NEW m, NEW n
    PROVE  m \in Int /\ n \in Int =>
              /\ Abs(m - n) \in Nat /\ Abs(m - n) = Abs(n - m)
              /\ Abs(m - n) = 0 <=> m = n
              /\ n <= m + Abs(m - n) /\ m <= n + Abs(m - n)
              /\ m \in Nat /\ n \in Nat => Abs(m - n) <= m + n
  BY DEF Abs

LEMMA UnitsAt ==
    ASSUME ReflectionInv, NEW d \in DOMAIN rows, NEW k \in Elements(Stances)
    PROVE  /\ rows[d].units[k] \in 0..100 /\ rows[d].units[k] \in Nat
           /\ OfSplit(rows[d].units[k])
           /\ Column(k)[d] = rows[d].units[k]
<1>1. PICK u : u = rows[d].units
  OBVIOUS
<1>2. u \in [Elements(Stances) -> 0..100] /\ Elements(options) = Elements(Stances)
  BY <1>1, FourStances
<1>3. u[k] \in 0..100 /\ k \in DOMAIN u
  BY <1>2
<1>4. OfSplit(u[k])
  BY <1>1, <1>2 DEF ReflectionInv, RowsInv
<1>5. Column(k)[d] = u[k]
  BY <1>1, <1>3 DEF Column
<1>6. PICK n : n = u[k]
  OBVIOUS
<1>7. n \in 0..100
  BY <1>3, <1>6, Zenon
<1>8. n \in Nat
  BY <1>7
<1> QED
  BY <1>1, <1>4, <1>5, <1>6, <1>7, <1>8, Zenon

\* The distance of two decisions: as a sum, its range, its symmetry and its zero.
LEMMA ApartIsSum ==
    ASSUME ReflectionInv, NEW d \in DOMAIN rows, NEW e \in DOMAIN rows
    PROVE  /\ Lists(Elements(Stances), options)
           /\ Gap(d, e) \in [Elements(Stances) -> Nat]
           /\ Apart(d, e) = Gap(d, e)[options[1]] + Gap(d, e)[options[2]]
                              + Gap(d, e)[options[3]] + Gap(d, e)[options[4]]
<1> DEFINE K == Elements(Stances)
           g == Gap(d, e)
<1>1. Lists(K, options)
  BY FourStances
<1>2. g \in [K -> Nat]
  <2>1. ASSUME NEW k \in K
        PROVE  Abs(rows[d].units[k] - rows[e].units[k]) \in Nat
    <3>1. PICK m, n : m = rows[d].units[k] /\ n = rows[e].units[k]
      OBVIOUS
    <3>2. m \in Int /\ n \in Int
      BY <3>1, UnitsAt
    <3>3. Abs(m - n) \in Nat
      BY <3>2, Absolute
    <3> QED
      BY <3>1, <3>3
  <2> QED
    BY <2>1 DEF Gap
<1>3. Apart(d, e) = SumFunction(g)
  BY DEF Apart, Gap
<1> HIDE DEF g, K
<1>4. g \in [K -> Int]
  BY <1>2, IntValued
<1>5. IsFiniteSet(K) /\ SumOf(g, K) = g[options[1]] + g[options[2]] + g[options[3]] + g[options[4]]
  BY <1>1, <1>4, SumOfFour
<1>6. SumFunction(g) = SumOf(g, K)
  BY <1>4, <1>5, FunctionSum
<1>7. Apart(d, e) = g[options[1]] + g[options[2]] + g[options[3]] + g[options[4]]
  BY <1>3, <1>5, <1>6
<1> QED
  BY <1>1, <1>2, <1>7 DEF g, K

LEMMA ApartBounds ==
    ASSUME ReflectionInv, NEW d \in DOMAIN rows, NEW e \in DOMAIN rows
    PROVE  /\ Apart(d, e) \in Nat /\ Apart(d, e) <= 200 /\ Apart(d, e) = Apart(e, d)
           /\ Apart(d, e) = 0 <=> rows[d].units = rows[e].units
<1> DEFINE K == Elements(Stances)
<1>1. PICK u, v : u = rows[d].units /\ v = rows[e].units
  OBVIOUS
<1>2. /\ Lists(K, options) /\ u \in [K -> 0..100] /\ v \in [K -> 0..100]
      /\ Hundred(u, options) /\ Hundred(v, options)
  BY <1>1, FourStances
<1>3. ASSUME NEW k \in K
      PROVE  /\ u[k] \in Nat /\ v[k] \in Nat
             /\ Gap(d, e)[k] = Abs(u[k] - v[k]) /\ Gap(e, d)[k] = Abs(v[k] - u[k])
  BY <1>1, UnitsAt DEF Gap
<1>4. PICK p, q, r, s : p = options[1] /\ q = options[2] /\ r = options[3] /\ s = options[4]
  OBVIOUS
<1>5. p \in K /\ q \in K /\ r \in K /\ s \in K /\ K = {p, q, r, s}
  BY <1>2, <1>4 DEF Lists
<1>6. PICK up \in Nat, uq \in Nat, ur \in Nat, us \in Nat :
         up = u[p] /\ uq = u[q] /\ ur = u[r] /\ us = u[s]
  BY <1>3, <1>5
<1>7. PICK vp \in Nat, vq \in Nat, vr \in Nat, vs \in Nat :
         vp = v[p] /\ vq = v[q] /\ vr = v[r] /\ vs = v[s]
  BY <1>3, <1>5
<1>8. up + uq + ur + us = 100 /\ vp + vq + vr + vs = 100
  BY <1>2, <1>4, <1>6, <1>7 DEF Hundred
<1>9. /\ Apart(d, e) = Abs(up - vp) + Abs(uq - vq) + Abs(ur - vr) + Abs(us - vs)
      /\ Apart(e, d) = Abs(vp - up) + Abs(vq - uq) + Abs(vr - ur) + Abs(vs - us)
  <2>1. /\ Apart(d, e) = Gap(d, e)[p] + Gap(d, e)[q] + Gap(d, e)[r] + Gap(d, e)[s]
        /\ Apart(e, d) = Gap(e, d)[p] + Gap(e, d)[q] + Gap(e, d)[r] + Gap(e, d)[s]
    BY <1>4, ApartIsSum
  <2> QED
    BY <1>3, <1>5, <1>6, <1>7, <2>1
<1>10. Apart(d, e) \in Nat /\ Apart(d, e) <= 200 /\ Apart(d, e) = Apart(e, d)
  BY <1>8, <1>9 DEF Abs
<1>11. Apart(d, e) = 0 <=> up = vp /\ uq = vq /\ ur = vr /\ us = vs
  BY <1>9 DEF Abs
<1>12. u = v <=> u[p] = v[p] /\ u[q] = v[q] /\ u[r] = v[r] /\ u[s] = v[s]
  BY <1>2, <1>5
<1> QED
  BY <1>1, <1>6, <1>7, <1>10, <1>11, <1>12

LEMMA PairsFinite ==
    ASSUME ReflectionInv
    PROVE  /\ IsFiniteSet(Pairs(DOMAIN rows))
           /\ \A x \in Pairs(DOMAIN rows) : /\ x[1] \in DOMAIN rows /\ x[2] \in DOMAIN rows
                                            /\ x[1] < x[2] /\ x = <<x[1], x[2]>>
<1>1. PICK D : D = DOMAIN rows
  OBVIOUS
<1>2. IsFiniteSet(D)
  BY <1>1 DEF ReflectionInv, RowsInv
<1>3. IsFiniteSet(D \X D)
  BY <1>2, FS_Product
<1>4. Pairs(D) \in SUBSET (D \X D)
  BY DEF Pairs
<1>5. IsFiniteSet(Pairs(D))
  BY <1>3, <1>4, FS_Subset
<1>6. \A x \in Pairs(D) : x[1] \in D /\ x[2] \in D /\ x[1] < x[2] /\ x = <<x[1], x[2]>>
  BY DEF Pairs
<1> QED
  BY <1>1, <1>5, <1>6

PairsApart == [x \in Pairs(DOMAIN rows) |-> Apart(x[1], x[2])]

LEMMA VariationIsSum ==
    ASSUME ReflectionInv
    PROVE  /\ PairsApart \in [Pairs(DOMAIN rows) -> Nat]
           /\ PairsApart \in [Pairs(DOMAIN rows) -> Int]
           /\ Variation.sum = SumOf(PairsApart, Pairs(DOMAIN rows)) /\ Variation.sum \in Nat
           /\ Variation.terms = Cardinality(Pairs(DOMAIN rows)) /\ Variation.terms \in Nat
<1> DEFINE P == Pairs(DOMAIN rows)
<1>1. PairsApart \in [P -> Nat]
  BY PairsFinite, ApartBounds DEF PairsApart
<1>2. PairsApart \in [P -> Int] /\ IsFiniteSet(P)
  BY <1>1, PairsFinite, IntValued
<1>3. Variation.sum = SumFunction(PairsApart) /\ Variation.terms = Cardinality(P)
  BY DEF Variation, PairsApart
<1> HIDE DEF P
<1>4. SumFunction(PairsApart) = SumOf(PairsApart, P)
  BY <1>2, FunctionSum
<1>5. SumOf(PairsApart, P) \in Nat
  BY <1>1, <1>2, SumNat
<1>6. Cardinality(P) \in Nat
  BY <1>2, FS_CardinalityType
<1> QED
  BY <1>1, <1>2, <1>3, <1>4, <1>5, <1>6 DEF P

\* No two decisions are further apart than all their units.
LEMMA VariationBounded ==
    ASSUME ReflectionInv
    PROVE  Variation.sum <= 200 * Variation.terms
<1> DEFINE P == Pairs(DOMAIN rows)
<1>1. PICK c \in Int : c = 200
  OBVIOUS
<1> DEFINE h == [x \in P |-> c]
<1>2. h \in [P -> Int] /\ \A x \in P : h[x] = c
  OBVIOUS
<1>3. \A x \in P : PairsApart[x] <= h[x]
  BY <1>1, PairsFinite, ApartBounds DEF PairsApart
<1>4. IsFiniteSet(P) /\ P \in SUBSET P
  BY PairsFinite
<1>5. PairsApart \in [P -> Int]
  BY VariationIsSum
<1> HIDE DEF P, h
<1>6. SumOf(PairsApart, P) <= SumOf(h, P)
  BY <1>2, <1>3, <1>4, <1>5, SumMonotone
<1>7. SumOf(h, P) = c * Cardinality(P)
  BY <1>2, <1>4, SumConstant
<1> QED
  BY <1>1, <1>6, <1>7, VariationIsSum DEF P

\* Nothing varies only if all answers are the same.
LEMMA VariationZero ==
    ASSUME ReflectionInv
    PROVE  Variation.sum = 0 <=> \A d, e \in DOMAIN rows : rows[d].units = rows[e].units
<1> DEFINE P == Pairs(DOMAIN rows)
<1>1. IsFiniteSet(P) /\ P \in SUBSET P
  BY PairsFinite
<1>2. PairsApart \in [P -> Nat]
  BY VariationIsSum
<1>3. Variation.sum = 0 <=> \A x \in P : PairsApart[x] = 0
  <2> HIDE DEF P
  <2>1. SumOf(PairsApart, P) = 0 <=> \A x \in P : PairsApart[x] = 0
    BY <1>1, <1>2, SumZero
  <2> QED
    BY <2>1, VariationIsSum DEF P
<1>4. \A x \in P : PairsApart[x] = 0 <=> rows[x[1]].units = rows[x[2]].units
  BY PairsFinite, ApartBounds DEF PairsApart
<1>5. ASSUME \A x \in P : rows[x[1]].units = rows[x[2]].units,
             NEW d \in DOMAIN rows, NEW e \in DOMAIN rows
      PROVE  rows[d].units = rows[e].units
  <2>1. d \in Nat /\ e \in Nat
    BY DEF ReflectionInv, RowsInv
  <2>2. CASE d < e
    <3>1. PICK x : x = <<d, e>>
      OBVIOUS
    <3>2. x \in P /\ x[1] = d /\ x[2] = e
      BY <2>2, <3>1 DEF Pairs
    <3> QED
      BY <1>5, <3>2
  <2>3. CASE e < d
    <3>1. PICK x : x = <<e, d>>
      OBVIOUS
    <3>2. x \in P /\ x[1] = e /\ x[2] = d
      BY <2>3, <3>1 DEF Pairs
    <3> QED
      BY <1>5, <3>2
  <2> QED
    BY <2>1, <2>2, <2>3
<1>6. (\A x \in P : rows[x[1]].units = rows[x[2]].units)
         <=> \A d, e \in DOMAIN rows : rows[d].units = rows[e].units
  BY <1>5, PairsFinite
<1> QED
  BY <1>3, <1>4, <1>6

-----------------------------------------------------------------------------
(* Profiles.                                                               *)

Gaps(k, X, Y) == [z \in X \X Y |-> Gap(z[1], z[2])[k]]

LEMMA GapsType ==
    ASSUME ReflectionInv, NEW X \in SUBSET DOMAIN rows, NEW Y \in SUBSET DOMAIN rows,
           NEW k \in Elements(Stances)
    PROVE  /\ Gaps(k, X, Y) \in [X \X Y -> Nat] /\ Gaps(k, X, Y) \in [X \X Y -> Int]
           /\ \A z \in X \X Y :
                 Gaps(k, X, Y)[z] = Abs(Lefts(Column(k), X, Y)[z] - Rights(Column(k), X, Y)[z])
<1>1. ASSUME NEW z \in X \X Y
      PROVE  /\ Gap(z[1], z[2])[k] \in Nat
             /\ Gap(z[1], z[2])[k] = Abs(Column(k)[z[1]] - Column(k)[z[2]])
  <2>1. PICK d, e : d = z[1] /\ e = z[2]
    OBVIOUS
  <2>2. d \in DOMAIN rows /\ e \in DOMAIN rows
    BY <2>1
  <2>3. Gap(d, e) \in [Elements(Stances) -> Nat]
    BY <2>2, ApartIsSum
  <2>4. Gap(d, e)[k] = Abs(rows[d].units[k] - rows[e].units[k])
    BY DEF Gap
  <2>5. Column(k)[d] = rows[d].units[k] /\ Column(k)[e] = rows[e].units[k]
    BY <2>2, UnitsAt
  <2> QED
    BY <2>1, <2>3, <2>4, <2>5
<1> QED
  BY <1>1 DEF Gaps, Lefts, Rights

\* Of one stance, the means of two sets of decisions differ by no more than
\* the decisions do on average.
LEMMA MeansApart ==
    ASSUME ReflectionInv, NEW X \in SUBSET DOMAIN rows, NEW Y \in SUBSET DOMAIN rows,
           NEW k \in Elements(Stances)
    PROVE  /\ IsFiniteSet(X \X Y) /\ SumOf(Gaps(k, X, Y), X \X Y) \in Nat
           /\ Total(X, k) * Cardinality(Y) \in Nat /\ Total(Y, k) * Cardinality(X) \in Nat
           /\ Abs(Total(X, k) * Cardinality(Y) - Total(Y, k) * Cardinality(X))
                 <= SumOf(Gaps(k, X, Y), X \X Y)
<1> DEFINE D == DOMAIN rows
           Z == X \X Y
           f == Column(k)
           l == Lefts(f, X, Y)
           r == Rights(f, X, Y)
           h == Gaps(k, X, Y)
           lh == [z \in Z |-> l[z] + h[z]]
           rh == [z \in Z |-> r[z] + h[z]]
<1>1. /\ IsFiniteSet(X) /\ IsFiniteSet(Y) /\ X \in SUBSET D /\ Y \in SUBSET D
      /\ Total(X, k) = SumOf(f, X) /\ Total(Y, k) = SumOf(f, Y)
      /\ Total(X, k) \in Nat /\ Total(Y, k) \in Nat
  BY TotalIsSum
<1>2. f \in [D -> Int]
  BY ColumnType, IntValued
<1>3. /\ h \in [Z -> Nat] /\ h \in [Z -> Int] /\ \A z \in Z : h[z] = Abs(l[z] - r[z])
  BY GapsType
<1> HIDE DEF D, f
<1>4. /\ IsFiniteSet(Z) /\ l \in [Z -> Int] /\ r \in [Z -> Int]
      /\ SumOf(l, Z) = SumOf(f, X) * Cardinality(Y)
      /\ SumOf(r, Z) = SumOf(f, Y) * Cardinality(X)
  <2>1. Sides(f, D, X, Y)
    BY SumOfSides
  <2> QED
    BY <1>1, <1>2, <2>1 DEF Sides
<1>5. Z \in SUBSET Z
  OBVIOUS
<1> HIDE DEF Z, l, r, h
<1>6. /\ lh \in [Z -> Int] /\ rh \in [Z -> Int] /\ Adds(lh, l, h, Z) /\ Adds(rh, r, h, Z)
  BY <1>3, <1>4 DEF Adds
<1>7. \A z \in Z : l[z] <= rh[z] /\ r[z] <= lh[z]
  <2>1. ASSUME NEW z \in Z
        PROVE  l[z] <= rh[z] /\ r[z] <= lh[z]
    <3>1. PICK m \in Int, n \in Int : m = l[z] /\ n = r[z]
      BY <1>4
    <3>2. rh[z] = n + Abs(m - n) /\ lh[z] = m + Abs(m - n)
      BY <1>3, <3>1
    <3> QED
      BY <3>1, <3>2, Absolute
  <2> QED
    BY <2>1
<1> HIDE DEF lh, rh
<1>8. SumOf(l, Z) <= SumOf(rh, Z) /\ SumOf(r, Z) <= SumOf(lh, Z)
  BY <1>4, <1>5, <1>6, <1>7, SumMonotone
<1>9. /\ SumOf(lh, Z) = SumOf(l, Z) + SumOf(h, Z)
      /\ SumOf(rh, Z) = SumOf(r, Z) + SumOf(h, Z)
  <2>1. Plus(lh, l, h, Z, Z) /\ Plus(rh, r, h, Z, Z)
    BY SumPlus
  <2> QED
    BY <1>3, <1>4, <1>5, <1>6, <2>1 DEF Plus
<1>10. SumOf(h, Z) \in Nat
  BY <1>3, <1>4, <1>5, SumNat
<1>11. Cardinality(X) \in Nat /\ Cardinality(Y) \in Nat
  BY <1>1, FS_CardinalityType
<1>12. Total(X, k) * Cardinality(Y) \in Nat /\ Total(Y, k) * Cardinality(X) \in Nat
  BY <1>1, <1>11
<1>13. PICK m \in Nat, n \in Nat, s \in Nat :
          m = Total(X, k) * Cardinality(Y) /\ n = Total(Y, k) * Cardinality(X) /\ s = SumOf(h, Z)
  BY <1>10, <1>12
<1>14. m <= n + s /\ n <= m + s
  BY <1>1, <1>4, <1>8, <1>9, <1>13
<1>15. Abs(m - n) <= s
  BY <1>14 DEF Abs
<1> QED
  BY <1>4, <1>10, <1>12, <1>13, <1>15 DEF Z, h

\* The distances of all pairs of decisions, stance by stance.
LEMMA ApartByStance ==
    ASSUME ReflectionInv, NEW X \in SUBSET DOMAIN rows, NEW Y \in SUBSET DOMAIN rows,
           X # {}
    PROVE  SumFunction([z \in X \X Y |-> Apart(z[1], z[2])])
              = SumOf(Gaps(options[1], X, Y), X \X Y) + SumOf(Gaps(options[2], X, Y), X \X Y)
                + SumOf(Gaps(options[3], X, Y), X \X Y) + SumOf(Gaps(options[4], X, Y), X \X Y)
<1> DEFINE Z == X \X Y
           h1 == Gaps(options[1], X, Y)
           h2 == Gaps(options[2], X, Y)
           h3 == Gaps(options[3], X, Y)
           h4 == Gaps(options[4], X, Y)
           g == [z \in Z |-> h1[z] + h2[z]]
           h == [z \in Z |-> h3[z] + h4[z]]
           a == [z \in Z |-> Apart(z[1], z[2])]
<1>1. /\ options[1] \in Elements(Stances) /\ options[2] \in Elements(Stances)
      /\ options[3] \in Elements(Stances) /\ options[4] \in Elements(Stances)
  BY FourStances DEF Lists
<1>2. /\ h1 \in [Z -> Int] /\ h2 \in [Z -> Int] /\ h3 \in [Z -> Int] /\ h4 \in [Z -> Int]
      /\ h1 \in [Z -> Nat] /\ h2 \in [Z -> Nat] /\ h3 \in [Z -> Nat] /\ h4 \in [Z -> Nat]
  BY <1>1, GapsType
<1>3. IsFiniteSet(Z) /\ Z \in SUBSET Z
  BY <1>1, MeansApart
<1>4. ASSUME NEW z \in Z
      PROVE  a[z] = h1[z] + h2[z] + h3[z] + h4[z]
  <2>1. PICK d, e : d = z[1] /\ e = z[2]
    OBVIOUS
  <2>2. d \in DOMAIN rows /\ e \in DOMAIN rows
    BY <2>1
  <2>3. Apart(d, e) = Gap(d, e)[options[1]] + Gap(d, e)[options[2]]
                        + Gap(d, e)[options[3]] + Gap(d, e)[options[4]]
    BY <2>2, ApartIsSum
  <2>4. /\ h1[z] = Gap(d, e)[options[1]] /\ h2[z] = Gap(d, e)[options[2]]
        /\ h3[z] = Gap(d, e)[options[3]] /\ h4[z] = Gap(d, e)[options[4]]
    BY <2>1 DEF Gaps
  <2>5. a[z] = Apart(d, e)
    BY <2>1
  <2> QED
    BY <2>3, <2>4, <2>5
<1> HIDE DEF Z, h1, h2, h3, h4
<1>5. g \in [Z -> Int] /\ h \in [Z -> Int] /\ Adds(g, h1, h2, Z) /\ Adds(h, h3, h4, Z)
  BY <1>2 DEF Adds
<1>6. ASSUME NEW z \in Z
      PROVE  a[z] = g[z] + h[z] /\ g[z] + h[z] \in Int
  <2>1. /\ h1[z] \in Nat /\ h2[z] \in Nat /\ h3[z] \in Nat /\ h4[z] \in Nat
    BY <1>2
  <2>2. a[z] = h1[z] + h2[z] + h3[z] + h4[z]
    BY <1>4
  <2>3. g[z] = h1[z] + h2[z] /\ h[z] = h3[z] + h4[z]
    OBVIOUS
  <2> HIDE DEF a, g, h
  <2> QED
    BY <2>1, <2>2, <2>3
<1>7. a \in [Z -> Int] /\ Adds(a, g, h, Z)
  <2>1. \A z \in Z : a[z] \in Int
    BY <1>6
  <2>2. a = [z \in Z |-> a[z]]
    OBVIOUS
  <2>3. Adds(a, g, h, Z)
    BY <1>6 DEF Adds
  <2> HIDE DEF a
  <2> QED
    BY <2>1, <2>2, <2>3
<1> HIDE DEF g, h, a
<1>8. /\ SumOf(a, Z) = SumOf(g, Z) + SumOf(h, Z)
      /\ SumOf(g, Z) = SumOf(h1, Z) + SumOf(h2, Z)
      /\ SumOf(h, Z) = SumOf(h3, Z) + SumOf(h4, Z)
  <2>1. Plus(a, g, h, Z, Z) /\ Plus(g, h1, h2, Z, Z) /\ Plus(h, h3, h4, Z, Z)
    BY SumPlus
  <2> QED
    BY <1>2, <1>3, <1>5, <1>7, <2>1 DEF Plus
<1>9. /\ SumOf(h1, Z) \in Nat /\ SumOf(h2, Z) \in Nat
      /\ SumOf(h3, Z) \in Nat /\ SumOf(h4, Z) \in Nat
  BY <1>2, <1>3, SumNat
<1>10. SumFunction(a) = SumOf(a, Z)
  BY <1>3, <1>7, FunctionSum
<1>11. SumFunction(a) = SumOf(h1, Z) + SumOf(h2, Z) + SumOf(h3, Z) + SumOf(h4, Z)
  BY <1>8, <1>9, <1>10
<1> QED
  BY <1>11 DEF a, Z, h1, h2, h3, h4

\* Dimensions differ by no more than the decisions in them do on average.
LEMMA ProfilesBounded ==
    ASSUME ReflectionInv, NEW x \in Dimensions, NEW y \in Dimensions
    PROVE  ProfilesApart(x, y)
              <= SumFunction([z \in OfDimension(x) \X OfDimension(y) |-> Apart(z[1], z[2])])
<1>1. PICK X, Y : X = OfDimension(x) /\ Y = OfDimension(y)
  OBVIOUS
<1>2. X \in SUBSET DOMAIN rows /\ Y \in SUBSET DOMAIN rows /\ X # {}
  BY <1>1 DEF OfDimension, Dimensions
<1> DEFINE K == Elements(Stances)
           p == [k \in K |-> Abs(Total(X, k) * Cardinality(Y) - Total(Y, k) * Cardinality(X))]
<1>3. Lists(K, options)
  BY <1>2, FourStances
<1>4. ASSUME NEW k \in K
      PROVE  /\ p[k] \in Nat /\ SumOf(Gaps(k, X, Y), X \X Y) \in Nat
             /\ p[k] <= SumOf(Gaps(k, X, Y), X \X Y)
  <2>1. PICK m, n : m = Total(X, k) * Cardinality(Y) /\ n = Total(Y, k) * Cardinality(X)
    OBVIOUS
  <2>2. /\ m \in Nat /\ n \in Nat /\ SumOf(Gaps(k, X, Y), X \X Y) \in Nat
        /\ Abs(m - n) <= SumOf(Gaps(k, X, Y), X \X Y)
    BY <1>2, <2>1, MeansApart
  <2>3. Abs(m - n) \in Nat
    BY <2>2 DEF Abs
  <2>4. p[k] = Abs(m - n)
    BY <2>1
  <2> QED
    BY <2>2, <2>3, <2>4
<1>5. p \in [K -> Int]
  <2>1. p = [k \in K |-> p[k]] /\ \A k \in K : p[k] \in Int
    BY <1>4
  <2> HIDE DEF p
  <2> QED
    BY <2>1
<1>6. ProfilesApart(x, y) = SumFunction(p)
  BY <1>1 DEF ProfilesApart
<1> HIDE DEF p, K
<1>7. SumFunction(p) = p[options[1]] + p[options[2]] + p[options[3]] + p[options[4]]
  <2>1. IsFiniteSet(K) /\ SumOf(p, K) = p[options[1]] + p[options[2]] + p[options[3]] + p[options[4]]
    BY <1>3, <1>5, SumOfFour
  <2>2. SumFunction(p) = SumOf(p, K)
    BY <1>5, <2>1, FunctionSum
  <2> QED
    BY <2>1, <2>2
<1>8. /\ options[1] \in K /\ options[2] \in K /\ options[3] \in K /\ options[4] \in K
  BY <1>3 DEF Lists
<1>9. PICK a \in Nat, b \in Nat, c \in Nat, d \in Nat :
         /\ a = SumOf(Gaps(options[1], X, Y), X \X Y) /\ p[options[1]] <= a
         /\ b = SumOf(Gaps(options[2], X, Y), X \X Y) /\ p[options[2]] <= b
         /\ c = SumOf(Gaps(options[3], X, Y), X \X Y) /\ p[options[3]] <= c
         /\ d = SumOf(Gaps(options[4], X, Y), X \X Y) /\ p[options[4]] <= d
  BY <1>4, <1>8
<1>10. /\ p[options[1]] \in Nat /\ p[options[2]] \in Nat
       /\ p[options[3]] \in Nat /\ p[options[4]] \in Nat
  BY <1>4, <1>8
<1>11. SumFunction([z \in X \X Y |-> Apart(z[1], z[2])]) = a + b + c + d
  BY <1>2, <1>9, ApartByStance
<1>12. SumFunction(p) <= a + b + c + d
  BY <1>7, <1>9, <1>10
<1> QED
  BY <1>1, <1>6, <1>11, <1>12

-----------------------------------------------------------------------------
(* A dimension for each decision.                                          *)

OneEach == \A d, e \in DOMAIN rows : DimensionOf(d) = DimensionOf(e) => d = e

LEMMA TotalOfOne ==
    ASSUME ReflectionInv, NEW d \in DOMAIN rows, NEW k \in Elements(Stances)
    PROVE  Total({d}, k) = rows[d].units[k] /\ Total({d}, k) \in Nat
<1>1. PICK S : S = {d}
  OBVIOUS
<1>2. PICK D : D = DOMAIN rows
  OBVIOUS
<1>3. S \in SUBSET DOMAIN rows /\ d \in S /\ S \ {d} = {}
  BY <1>1
<1>4. IsFiniteSet(S) /\ Total(S, k) = SumOf(Column(k), S) /\ Total(S, k) \in Nat
  BY <1>3, TotalIsSum
<1>5. Column(k) \in [D -> Int]
  BY <1>2, ColumnType, IntValued
<1>6. SumOf(Column(k), S) = Column(k)[d] + SumOf(Column(k), S \ {d})
  BY <1>2, <1>3, <1>4, <1>5, SumWithout DEF Removes
<1>7. SumOf(Column(k), S \ {d}) = 0
  BY <1>3, SumEmpty
<1>8. Column(k)[d] = rows[d].units[k] /\ rows[d].units[k] \in Nat
  BY UnitsAt
<1> QED
  BY <1>1, <1>4, <1>6, <1>7, <1>8

\* The profile of a dimension with one decision is that decision's.
LEMMA ProfilesOfOne ==
    ASSUME ReflectionInv, OneEach, NEW d \in DOMAIN rows, NEW e \in DOMAIN rows
    PROVE  /\ Cardinality(OfDimension(DimensionOf(d))) = 1
           /\ ProfilesApart(DimensionOf(d), DimensionOf(e)) = Apart(d, e)
<1>1. OfDimension(DimensionOf(d)) = {d} /\ OfDimension(DimensionOf(e)) = {e}
  BY DEF OneEach, OfDimension
<1>2. /\ Cardinality(OfDimension(DimensionOf(d))) = 1
      /\ Cardinality(OfDimension(DimensionOf(e))) = 1
  BY <1>1, FS_Singleton
<1> DEFINE K == Elements(Stances)
           p == [k \in K |-> Abs(Total(OfDimension(DimensionOf(d)), k)
                                    * Cardinality(OfDimension(DimensionOf(e)))
                                  - Total(OfDimension(DimensionOf(e)), k)
                                    * Cardinality(OfDimension(DimensionOf(d))))]
<1>3. ASSUME NEW k \in K
      PROVE  p[k] = Gap(d, e)[k]
  <2>1. PICK m \in Nat, n \in Nat :
           /\ m = Total({d}, k) /\ m = rows[d].units[k]
           /\ n = Total({e}, k) /\ n = rows[e].units[k]
    BY TotalOfOne
  <2>2. p[k] = Abs(m * 1 - n * 1)
    BY <1>1, <1>2, <2>1
  <2>3. m * 1 = m /\ n * 1 = n
    OBVIOUS
  <2>4. Gap(d, e)[k] = Abs(m - n)
    BY <2>1 DEF Gap
  <2> QED
    BY <2>2, <2>3, <2>4
<1>4. p = Gap(d, e)
  <2>1. Gap(d, e) = [k \in K |-> Gap(d, e)[k]]
    BY DEF Gap
  <2>2. p = [k \in K |-> p[k]]
    OBVIOUS
  <2> HIDE DEF p
  <2> QED
    BY <1>3, <2>1, <2>2
<1>5. ProfilesApart(DimensionOf(d), DimensionOf(e)) = SumFunction(p)
  BY DEF ProfilesApart
<1>6. Apart(d, e) = SumFunction(Gap(d, e))
  BY DEF Apart, Gap
<1> QED
  BY <1>2, <1>4, <1>5, <1>6

LEMMA CoupleOfTwo ==
    ASSUME ReflectionInv, OneEach, NEW d \in DOMAIN rows, NEW e \in DOMAIN rows, d # e
    PROVE  CoupleApart({DimensionOf(d), DimensionOf(e)}) = Grain * Apart(d, e)
<1>1. PICK a, b : a = DimensionOf(d) /\ b = DimensionOf(e)
  OBVIOUS
<1>2. a # b
  BY <1>1 DEF OneEach
<1>3. PICK x : x = CHOOSE z \in {a, b} : TRUE
  OBVIOUS
<1>4. PICK y : y = CHOOSE z \in {a, b} : z # x
  OBVIOUS
<1>5. (x = a /\ y = b) \/ (x = b /\ y = a)
  <2>1. x \in {a, b}
    BY <1>3
  <2>2. \E z \in {a, b} : z # x
    BY <1>2, <2>1
  <2>3. y \in {a, b} /\ y # x
    BY <1>4, <2>2
  <2> QED
    BY <2>1, <2>3
<1>6. CoupleApart({a, b}) = (Grain * ProfilesApart(x, y))
                               \div (Cardinality(OfDimension(x)) * Cardinality(OfDimension(y)))
  BY <1>3, <1>4 DEF CoupleApart
<1>7. /\ Cardinality(OfDimension(a)) = 1 /\ Cardinality(OfDimension(b)) = 1
      /\ ProfilesApart(a, b) = Apart(d, e) /\ ProfilesApart(b, a) = Apart(e, d)
  BY <1>1, ProfilesOfOne
<1>8. PICK n \in Nat : n = Apart(d, e) /\ n = Apart(e, d)
  BY ApartBounds
<1>9. /\ ProfilesApart(x, y) = n
      /\ Cardinality(OfDimension(x)) = 1 /\ Cardinality(OfDimension(y)) = 1
  BY <1>5, <1>7, <1>8
<1>10. CoupleApart({a, b}) = (Grain * n) \div (1 * 1)
  BY <1>6, <1>9
<1>11. (Grain * n) \div (1 * 1) = Grain * n
  <2>1. PICK g \in Nat : g = Grain
    BY ReflectionAssumption
  <2>2. PICK m \in Nat : m = g * n
    OBVIOUS
  <2>3. m \div 1 = m
    OBVIOUS
  <2> QED
    BY <2>1, <2>2, <2>3
<1> QED
  BY <1>1, <1>8, <1>10, <1>11

\* A set of two elements.
LEMMA Two ==
    ASSUME NEW c, IsFiniteSet(c), Cardinality(c) = 2
    PROVE  \E a, b \in c : a # b /\ c = {a, b}
<1>1. c # {}
  BY FS_EmptySet
<1>2. PICK a \in c : TRUE
  BY <1>1
<1>3. PICK R : R = c \ {a}
  OBVIOUS
<1>4. IsFiniteSet(R) /\ Cardinality(R) = 1
  <2>1. IsFiniteSet(c \ {a}) /\ Cardinality(c \ {a}) = Cardinality(c) - 1
    BY <1>2, FS_RemoveElement
  <2> QED
    BY <1>3, <2>1
<1>5. R # {}
  BY <1>4, FS_EmptySet
<1>6. PICK b \in R : TRUE
  BY <1>5
<1>7. R = {b}
  <2> SUFFICES ASSUME NEW x \in R, x # b
               PROVE  FALSE
    BY <1>6
  <2>1. PICK Q : Q = R \ {b}
    OBVIOUS
  <2>2. IsFiniteSet(Q) /\ Cardinality(Q) = 0
    <3>1. IsFiniteSet(R \ {b}) /\ Cardinality(R \ {b}) = Cardinality(R) - 1
      BY <1>4, <1>6, FS_RemoveElement
    <3> QED
      BY <1>4, <2>1, <3>1
  <2>3. Q = {}
    BY <2>2, FS_EmptySet
  <2> QED
    BY <2>1, <2>3
<1> QED
  BY <1>2, <1>3, <1>6, <1>7

\* The couples of dimensions are the pairs of decisions.
Couples == [x \in Pairs(DOMAIN rows) |-> {DimensionOf(x[1]), DimensionOf(x[2])}]

LEMMA CouplesArePairs ==
    ASSUME ReflectionInv, OneEach
    PROVE  /\ \A x, y \in Pairs(DOMAIN rows) : Couples[x] = Couples[y] => x = y
           /\ Image(Couples, Pairs(DOMAIN rows)) = kSubset(2, Dimensions)
<1> DEFINE P == Pairs(DOMAIN rows)
<1>1. ASSUME NEW x \in P, NEW y \in P, Couples[x] = Couples[y]
      PROVE  x = y
  <2>1. PICK a, b, c, d : a = x[1] /\ b = x[2] /\ c = y[1] /\ d = y[2]
    OBVIOUS
  <2>2. /\ a \in DOMAIN rows /\ b \in DOMAIN rows /\ c \in DOMAIN rows /\ d \in DOMAIN rows
        /\ a < b /\ c < d /\ x = <<a, b>> /\ y = <<c, d>>
    BY <2>1, PairsFinite
  <2>3. a \in Nat /\ b \in Nat /\ c \in Nat /\ d \in Nat
    BY <2>2 DEF ReflectionInv, RowsInv
  <2>4. {DimensionOf(a), DimensionOf(b)} = {DimensionOf(c), DimensionOf(d)}
    BY <1>1, <2>1 DEF Couples
  <2>5. \/ DimensionOf(a) = DimensionOf(c) /\ DimensionOf(b) = DimensionOf(d)
        \/ DimensionOf(a) = DimensionOf(d) /\ DimensionOf(b) = DimensionOf(c)
    BY <2>4
  <2>6. (a = c /\ b = d) \/ (a = d /\ b = c)
    BY <2>2, <2>5 DEF OneEach
  <2> QED
    BY <2>2, <2>3, <2>6
<1>2. ASSUME NEW x \in P
      PROVE  Couples[x] \in kSubset(2, Dimensions)
  <2>1. PICK a, b : a = x[1] /\ b = x[2]
    OBVIOUS
  <2>2. a \in DOMAIN rows /\ b \in DOMAIN rows /\ a < b
    BY <2>1, PairsFinite
  <2>3. a # b
    <3>1. a \in Nat /\ b \in Nat
      BY <2>2 DEF ReflectionInv, RowsInv
    <3> QED
      BY <2>2, <3>1
  <2>4. PICK u, v : u = DimensionOf(a) /\ v = DimensionOf(b)
    OBVIOUS
  <2>5. u # v /\ u \in Dimensions /\ v \in Dimensions
    BY <2>2, <2>3, <2>4 DEF OneEach, Dimensions
  <2>6. Cardinality({u, v}) = 2
    <3>1. IsFiniteSet({u}) /\ Cardinality({u}) = 1
      BY FS_Singleton
    <3>2. Cardinality({u} \union {v}) = Cardinality({u}) + 1
      BY <2>5, <3>1, FS_AddElement
    <3>3. {u} \union {v} = {u, v}
      OBVIOUS
    <3> QED
      BY <3>1, <3>2, <3>3
  <2>7. Couples[x] = {u, v}
    BY <2>1, <2>4 DEF Couples
  <2> QED
    BY <2>5, <2>6, <2>7 DEF kSubset
<1>3. ASSUME NEW c \in kSubset(2, Dimensions)
      PROVE  \E x \in P : Couples[x] = c
  <2>1. IsFiniteSet(Dimensions)
    <3>1. PICK D : D = DOMAIN rows /\ IsFiniteSet(D)
      BY DEF ReflectionInv, RowsInv
    <3> DEFINE f == [d \in D |-> DimensionOf(d)]
    <3>2. f \in Surjection(D, Dimensions)
      BY <3>1 DEF Surjection, Dimensions
    <3> HIDE DEF f
    <3> QED
      BY <3>1, <3>2, FS_Surjection
  <2>2. c \in SUBSET Dimensions /\ Cardinality(c) = 2
    BY DEF kSubset
  <2>3. IsFiniteSet(c)
    BY <2>1, <2>2, FS_Subset
  <2>4. PICK u, v \in c : u # v /\ c = {u, v}
    BY <2>2, <2>3, Two
  <2>5. PICK d \in DOMAIN rows, e \in DOMAIN rows : u = DimensionOf(d) /\ v = DimensionOf(e)
    BY <2>2, <2>4 DEF Dimensions
  <2>6. d # e /\ d \in Nat /\ e \in Nat
    BY <2>4, <2>5 DEF ReflectionInv, RowsInv
  <2>7. CASE d < e
    <3>1. PICK x : x = <<d, e>>
      OBVIOUS
    <3>2. x \in P /\ x[1] = d /\ x[2] = e
      BY <2>7, <3>1 DEF Pairs
    <3> QED
      BY <2>4, <2>5, <3>2 DEF Couples
  <2>8. CASE e < d
    <3>1. PICK x : x = <<e, d>>
      OBVIOUS
    <3>2. x \in P /\ x[1] = e /\ x[2] = d
      BY <2>8, <3>1 DEF Pairs
    <3>3. Couples[x] = {v, u}
      BY <2>5, <3>2 DEF Couples
    <3> QED
      BY <2>4, <3>2, <3>3
  <2> QED
    BY <2>6, <2>7, <2>8
<1> QED
  BY <1>1, <1>2, <1>3 DEF Image

\* With a dimension for each decision, sensitivity is what consistency lacks.
LEMMA SensitivityIsVariation ==
    ASSUME ReflectionInv, OneEach
    PROVE  /\ Sensitivity.sum = Grain * Variation.sum
           /\ Sensitivity.terms = Variation.terms
<1> DEFINE P == Pairs(DOMAIN rows)
           C == kSubset(2, Dimensions)
           f == [c \in C |-> CoupleApart(c)]
           g == [x \in P |-> f[Couples[x]]]
<1>1. Image(Couples, P) = C /\ \A x, y \in P : Couples[x] = Couples[y] => x = y
  BY CouplesArePairs
<1>2. Couples \in [P -> C]
  BY <1>1 DEF Image, Couples
<1>3. PICK n \in Nat : n = Grain
  BY ReflectionAssumption
<1>4. PairsApart \in [P -> Int] /\ IsFiniteSet(P) /\ P \in SUBSET P
  BY VariationIsSum, PairsFinite
<1>5. ASSUME NEW x \in P
      PROVE  f[Couples[x]] = n * PairsApart[x] /\ f[Couples[x]] \in Int
  <2>1. PICK a, b : a = x[1] /\ b = x[2]
    OBVIOUS
  <2>2. a \in DOMAIN rows /\ b \in DOMAIN rows /\ a < b
    BY <2>1, PairsFinite
  <2>3. a # b
    <3>1. a \in Nat /\ b \in Nat
      BY <2>2 DEF ReflectionInv, RowsInv
    <3> QED
      BY <2>2, <3>1
  <2>4. CoupleApart({DimensionOf(a), DimensionOf(b)}) = Grain * Apart(a, b)
    BY <2>2, <2>3, CoupleOfTwo
  <2>5. Couples[x] = {DimensionOf(a), DimensionOf(b)}
    BY <2>1 DEF Couples
  <2>6. PairsApart[x] = Apart(a, b)
    BY <2>1 DEF PairsApart
  <2>7. f[Couples[x]] = CoupleApart(Couples[x])
    BY <1>2
  <2>8. PairsApart[x] \in Int
    BY <1>4
  <2> HIDE DEF f
  <2> QED
    BY <1>3, <2>4, <2>5, <2>6, <2>7, <2>8
<1>6. f \in [C -> Int]
  <2>1. \A c \in C : f[c] \in Int
    BY <1>1, <1>5 DEF Image
  <2>2. f = [c \in C |-> f[c]]
    OBVIOUS
  <2> HIDE DEF f
  <2> QED
    BY <2>1, <2>2
<1>7. g \in [P -> Int] /\ Scales(g, n, PairsApart, P) /\ Renames(g, f, Couples, P)
  <2> HIDE DEF f, C
  <2> QED
    BY <1>1, <1>5 DEF Scales, Renames
<1>8. /\ Sensitivity.sum = SumFunction(f) /\ Sensitivity.terms = Cardinality(C)
  BY DEF Sensitivity
<1> HIDE DEF P, C, f, g
<1>9. /\ IsFiniteSet(Image(Couples, P)) /\ Cardinality(Image(Couples, P)) = Cardinality(P)
      /\ SumOf(f, Image(Couples, P)) = SumOf(g, P)
  <2>1. Renamed(g, f, Couples, P, C)
    BY SumRenamed
  <2> QED
    BY <1>2, <1>4, <1>6, <1>7, <2>1 DEF Renamed
<1>10. IsFiniteSet(C) /\ Cardinality(C) = Cardinality(P) /\ SumOf(f, C) = SumOf(g, P)
  BY <1>1, <1>9
<1>11. SumOf(g, P) = n * SumOf(PairsApart, P)
  <2>1. Scaled(g, n, PairsApart, P, P)
    BY SumScaled
  <2> QED
    BY <1>4, <1>7, <2>1 DEF Scaled
<1>12. SumFunction(f) = SumOf(f, C)
  BY <1>6, <1>10, FunctionSum
<1>13. Variation.sum = SumOf(PairsApart, P) /\ Variation.terms = Cardinality(P)
  BY VariationIsSum DEF P
<1> QED
  BY <1>3, <1>8, <1>10, <1>11, <1>12, <1>13

LEMMA DistancesHold == ReflectionInv => DistancesAgree
<1> SUFFICES ASSUME ReflectionInv
             PROVE  DistancesAgree
  OBVIOUS
<1>1. \A x, y \in Dimensions :
         ProfilesApart(x, y)
            <= SumFunction([z \in OfDimension(x) \X OfDimension(y) |-> Apart(z[1], z[2])])
  BY ProfilesBounded
<1>2. OneEach => Sensitivity.sum * Variation.terms = Grain * Variation.sum * Sensitivity.terms
  <2> SUFFICES ASSUME OneEach
               PROVE  Sensitivity.sum * Variation.terms
                         = Grain * Variation.sum * Sensitivity.terms
    OBVIOUS
  <2>1. PICK n \in Nat, s \in Nat, t \in Nat :
           n = Grain /\ s = Variation.sum /\ t = Variation.terms
    <3>1. Grain \in Nat
      BY ReflectionAssumption
    <3>2. Variation.sum \in Nat /\ Variation.terms \in Nat
      BY VariationIsSum
    <3> QED
      BY <3>1, <3>2, Zenon
  <2>2. Sensitivity.sum = n * s /\ Sensitivity.terms = t
    BY <2>1, SensitivityIsVariation
  <2> QED
    BY <2>1, <2>2, Zenon
<1> QED
  BY <1>1, <1>2, VariationBounded, VariationZero DEF DistancesAgree, OneEach

\* The distances of a fingerprint agree whatever the splits
\* (engine.py:95-106).
THEOREM DistancesAlwaysAgree == ReflectionSpec => []DistancesAgree
  BY DistancesHold, ReflectionInvHolds, PTL

-----------------------------------------------------------------------------
(* Decisiveness.                                                           *)

\* The entropy of the model is that of shares of nothing, a quarter, a half
\* and all.
OfQuarters == \A split \in Splits : \A i \in 1..4 : split[i] \in {0, 25, 50, 100}

LEMMA DecisivenessHolds ==
    ASSUME ReflectionInv, OfQuarters, NEW d \in DOMAIN rows
    PROVE  /\ Decided(d) \in 0..100
           /\ Decided(d) = 100 <=> 100 \in Elements(rows[d].units)
<1> DEFINE K == Elements(Stances)
           f == [k \in K |-> Surprise(rows[d].units[k])]
<1>1. PICK u : u = rows[d].units
  OBVIOUS
<1>2. Lists(K, options) /\ u \in [K -> 0..100] /\ Hundred(u, options)
  BY <1>1, FourStances
<1>3. \A k \in K : u[k] \in {0, 25, 50, 100}
  BY <1>1, UnitsAt DEF OfQuarters, OfSplit
<1>4. PICK a, b, c, e :
         /\ a = u[options[1]] /\ b = u[options[2]] /\ c = u[options[3]] /\ e = u[options[4]]
  OBVIOUS
<1>5. /\ options[1] \in K /\ options[2] \in K /\ options[3] \in K /\ options[4] \in K
      /\ K = {options[1], options[2], options[3], options[4]}
  BY <1>2 DEF Lists
<1>6. /\ a \in {0, 25, 50, 100} /\ b \in {0, 25, 50, 100}
      /\ c \in {0, 25, 50, 100} /\ e \in {0, 25, 50, 100}
  BY <1>3, <1>4, <1>5
<1>7. a + b + c + e = 100
  BY <1>2, <1>4 DEF Hundred
<1>8. /\ f[options[1]] = Surprise(a) /\ f[options[2]] = Surprise(b)
      /\ f[options[3]] = Surprise(c) /\ f[options[4]] = Surprise(e)
  BY <1>1, <1>4, <1>5
<1>9. f \in [K -> Int]
  BY DEF Surprise
<1>10. Decided(d) = 100 - SumFunction(f)
  BY DEF Decided
<1>11. 100 \in Elements(u) <=> a = 100 \/ b = 100 \/ c = 100 \/ e = 100
  BY <1>2, <1>4, <1>5 DEF Elements
<1> HIDE DEF f, K
<1>12. SumFunction(f) = f[options[1]] + f[options[2]] + f[options[3]] + f[options[4]]
  <2>1. /\ IsFiniteSet(K)
        /\ SumOf(f, K) = f[options[1]] + f[options[2]] + f[options[3]] + f[options[4]]
    BY <1>2, <1>9, SumOfFour
  <2>2. SumFunction(f) = SumOf(f, K)
    BY <1>9, <2>1, FunctionSum
  <2> QED
    BY <2>1, <2>2
<1>13. PICK p, q, r, s : /\ p = Surprise(a) /\ q = Surprise(b)
                         /\ r = Surprise(c) /\ s = Surprise(e)
  OBVIOUS
<1>14. /\ p \in {0, 25} /\ q \in {0, 25} /\ r \in {0, 25} /\ s \in {0, 25}
       /\ p = 25 <=> a \in {25, 50}
       /\ q = 25 <=> b \in {25, 50}
       /\ r = 25 <=> c \in {25, 50}
       /\ s = 25 <=> e \in {25, 50}
  BY <1>13 DEF Surprise
<1>15. Decided(d) = 100 - (p + q + r + s)
  BY <1>8, <1>10, <1>12, <1>13
<1>16. p + q + r + s \in 0..100
  BY <1>14
<1>17. p + q + r + s = 0 <=> a = 100 \/ b = 100 \/ c = 100 \/ e = 100
  BY <1>6, <1>7, <1>14
<1>18. Decided(d) \in 0..100 /\ (Decided(d) = 100 <=> p + q + r + s = 0)
  BY <1>14, <1>15, <1>16
<1> QED
  BY <1>1, <1>11, <1>17, <1>18

\* The fingerprint's theorem, for the splits the model's entropy is right of,
\* and any number of rounds, decisions and dimensions
\* (engine.py:44-49 and 93-106).
THEOREM FingerprintsAreCoherent ==
    ASSUME OfQuarters
    PROVE  ReflectionSpec => []FingerprintIsCoherent
<1>1. ReflectionInv => FingerprintIsCoherent
  BY DistancesHold, DecisivenessHolds DEF FingerprintIsCoherent
<1> QED
  BY <1>1, ReflectionInvHolds, PTL
=============================================================================
