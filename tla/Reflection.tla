----------------------------- MODULE Reflection -----------------------------
(***************************************************************************)
(* The Reflection Board and the posture fingerprint of a session, over the *)
(* options and the archetypes that calls to the model have answered        *)
(* (app/services/reflection_service.py, app/scoring/engine.py,             *)
(* app/services/scoring_service.py, app/pipeline/archetypes.py,            *)
(* app/pipeline/decisions.py).                                             *)
(*                                                                         *)
(* Keys of parameters and of stances are listed in the order of the spec.  *)
(* Shares are units out of 100; a mean of m of them is kept as its sum.    *)
(***************************************************************************)
EXTENDS ModelCall, FiniteSetsExt

CONSTANTS Labels,      \* names of parameters and of stances
          Commons,     \* common data of a version: [spec, types], each a sequence of keys
          Canonical,   \* POSTURES
          Rounds,      \* the individual rounds
          BoardOf,     \* how many decisions each has
          Dimension,   \* the dimension of each of them
          Splits,      \* distributions of 100 units over four options
          Grain        \* of means: a multiple of the product of two dimensions' sizes

ASSUME ReflectionAssumption ==
    /\ Commons \subseteq [spec : Seq(Labels), types : Seq(Labels)] /\ Canonical \in Seq(Labels)
    /\ \A reply \in Replies.options : reply.value \in Seq(Labels)
    /\ \A reply \in Replies.archetypes : reply.value \in Seq(Seq(Labels))
    /\ BoardOf \in [Rounds -> 1..6] /\ Grain \in Nat \ {0}
    /\ \A x \in Splits : x \in [1..4 -> 0..100] /\ x[1] + x[2] + x[3] + x[4] = 100

VARIABLES common,       \* common_data of the version
          archetypes,   \* its business_archetypes; <<>> on older versions
          options,      \* the postures of a decision's options; <<>> before
          rows          \* allocations: the round and the units of each number

reflectionVars == <<common, archetypes, options, rows, call>>

Numbers == UNION {1..BoardOf[r] : r \in Rounds}

RoundsWith(d) == {r \in Rounds : d <= BoardOf[r]}

\* What the four options of every decision stand for.
Stances == IF common.types = <<>> THEN Canonical ELSE common.types

\* _parameters.
Parameters == IF common.spec # <<>> THEN common.spec ELSE Stances

Keys == Elements(Parameters)

Position(k) == CHOOSE i \in DOMAIN Parameters : Parameters[i] = k

-----------------------------------------------------------------------------
(* Archetypes.                                                             *)

\* enumerate_patterns: the pairs and the singles.
Patterns(keys) == {{k, l} : k, l \in keys}

WellFormed(answer, keys) ==
    /\ Len(answer) = 10
    /\ \A i \in DOMAIN answer : Len(answer[i]) \in 1..2 /\ Elements(answer[i]) \subseteq keys

\* A mutant of Covers: the lists are compared, not the sets.
CoversLists(answer, keys) ==
    /\ \A i, j \in DOMAIN answer : answer[i] = answer[j] => i = j
    /\ {Elements(answer[i]) : i \in DOMAIN answer} \subseteq Patterns(keys)

\* covers_all_patterns.
Covers(answer, keys) ==
    /\ \A i, j \in DOMAIN answer : Elements(answer[i]) = Elements(answer[j]) => i = j
    /\ {Elements(answer[i]) : i \in DOMAIN answer} = Patterns(keys)

AskArchetypes ==
    /\ common.spec # <<>> /\ archetypes = <<>> /\ options = <<>>
    /\ Ask("archetypes")
    /\ UNCHANGED <<common, archetypes, options, rows>>

\* The entries replace those of the common data.
TakeArchetypes ==
    /\ Returns("archetypes")
    /\ archetypes' = call.value
    /\ UNCHANGED <<common, options, rows>>

-----------------------------------------------------------------------------
(* Decisions.                                                              *)

\* one_per_posture, against the declared or the canonical postures.
OnePerPosture(value) ==
    /\ Len(value) = 4 /\ Cardinality(Elements(value)) = 4
    /\ Elements(value) = Elements(Stances)

\* _forge_call; the options of all decisions are taken to be alike.
AskOptions ==
    /\ options = <<>>
    /\ Ask("options")
    /\ UNCHANGED <<common, archetypes, options, rows>>

TakeOptions ==
    /\ Returns("options")
    /\ options' = call.value
    /\ UNCHANGED <<common, archetypes, rows>>

\* The postures that are declared to the provider.
Allowed == IF call.want = "options" THEN Elements(common.types) ELSE {}

Fits(value) == IF call.want = "options" THEN OnePerPosture(value)
               ELSE LET keys == Elements(common.spec)
                    IN WellFormed(value, keys) /\ Covers(value, keys)

Generate ==
    \/ AskArchetypes \/ TakeArchetypes \/ AskOptions \/ TakeOptions
    \/ /\ Resume \/ \E reply \in Replies[call.want] : Receive(reply, Allowed, Fits(reply.value))
       /\ UNCHANGED <<common, archetypes, options, rows>>

-----------------------------------------------------------------------------
(* Allocations.                                                            *)

ReflectionInit ==
    common \in Commons /\ archetypes = <<>> /\ options = <<>> /\ rows = <<>> /\ call = NoCall

UnitsOn(split) == [k \in Elements(options) |->
                      split[CHOOSE i \in 1..4 : options[i] = k]]

\* submit_allocation finds the decision, and replaces the allocation, by the
\* number alone; which round it finds is not determined.
Submit(d, split) ==
    /\ options # <<>>
    /\ \E r \in RoundsWith(d) :
          rows' = [n \in DOMAIN rows \union {d} |->
                     IF n = d THEN [round |-> r, units |-> UnitsOn(split)] ELSE rows[n]]
    /\ UNCHANGED <<common, archetypes, options, call>>

ReflectionNext == Generate \/ \E d \in Numbers, split \in Splits : Submit(d, split)

ReflectionSpec == ReflectionInit /\ [][ReflectionNext]_reflectionVars

-----------------------------------------------------------------------------
(* The board.                                                              *)

Total(S, k) == SumFunction([d \in S |-> IF k \in DOMAIN rows[d].units THEN rows[d].units[k]
                                        ELSE 0])

OfRound(r) == {d \in DOMAIN rows : rows[d].round = r}

RoundTotal(r) == 100 * Cardinality(OfRound(r))

\* present_score, in ten-thousandths: rounded, halves up.
Score(units, total) == IF total <= 0 THEN 0 ELSE (20000 * units + total) \div (2 * total)

\* sorted by the units, falling; ties stay in the order of the parameters.
Leads(S, k, l) == \/ Total(S, k) > Total(S, l)
                  \/ Total(S, k) = Total(S, l) /\ Position(k) < Position(l)

FirstOf(S, keys) == CHOOSE k \in keys : \A l \in keys \ {k} : Leads(S, k, l)
LastOf(S, keys) == CHOOSE k \in keys : \A l \in keys \ {k} : Leads(S, l, k)

\* The two names of the lean line of a round.
Lean(r) == <<FirstOf(OfRound(r), Keys), LastOf(OfRound(r), Keys)>>

GrandTotal(k) == Total(DOMAIN rows, k)
GrandSum == SumFunction([k \in Keys |-> GrandTotal(k)])

Maxed == {k \in Keys : GrandTotal(k) = GrandSum}

\* A mutant of Ranked: ties go to the later parameter.
RankedLast(keys) ==
    CHOOSE k \in keys : \A l \in keys \ {k} :
        GrandTotal(k) > GrandTotal(l) \/ (GrandTotal(k) = GrandTotal(l) /\ Position(k) > Position(l))

Ranked(keys) == FirstOf(DOMAIN rows, keys)

\* dominant_keys.
Dominant == IF GrandSum = 0 THEN {}
            ELSE IF Maxed # {} THEN {Ranked(Maxed)}
            ELSE {Ranked(Keys), Ranked(Keys \ {Ranked(Keys)})}

\* The entries whose keys are the pattern.
Found == {i \in DOMAIN archetypes : Elements(archetypes[i]) = Dominant}

-----------------------------------------------------------------------------
(* The fingerprint, over the four stances.                                 *)

\* dim_by_number: a later round overwrites an earlier one.
DimensionOf(d) == Dimension[<<Max(RoundsWith(d)), d>>]

Dimensions == {DimensionOf(d) : d \in DOMAIN rows}

OfDimension(x) == {d \in DOMAIN rows : DimensionOf(d) = x}

Abs(n) == IF n < 0 THEN -n ELSE n

\* A mutant of Pairs: decisions are paired with themselves, too.
PairsWithSelf(S) == {x \in S \X S : x[1] <= x[2]}

Pairs(S) == {x \in S \X S : x[1] < x[2]}

\* Twice the distance of two decisions, in units.
Apart(d, e) ==
    SumFunction([k \in Elements(Stances) |-> Abs(rows[d].units[k] - rows[e].units[k])])

\* 1 - consistency, over the decisions: a sum, of as many terms.
Variation == [sum |-> SumFunction([x \in Pairs(DOMAIN rows) |-> Apart(x[1], x[2])]),
              terms |-> Cardinality(Pairs(DOMAIN rows))]

\* The distance of two profiles, times the sizes of both dimensions.
ProfilesApart(x, y) ==
    SumFunction([k \in Elements(Stances) |->
                    Abs(Total(OfDimension(x), k) * Cardinality(OfDimension(y))
                        - Total(OfDimension(y), k) * Cardinality(OfDimension(x)))])

\* dimension_sensitivity, over unordered pairs of profiles, in grains of a unit.
CoupleApart(c) ==
    LET x == CHOOSE x \in c : TRUE
        y == CHOOSE y \in c : y # x
    IN (Grain * ProfilesApart(x, y))
          \div (Cardinality(OfDimension(x)) * Cardinality(OfDimension(y)))

Sensitivity ==
    LET couples == kSubset(2, Dimensions)
    IN [sum |-> SumFunction([c \in couples |-> CoupleApart(c)]), terms |-> Cardinality(couples)]

\* decisiveness: entropy to base 4, of halves and quarters, in units.
Surprise(share) == IF share \in {25, 50} THEN 25 ELSE 0

Decided(d) == 100 - SumFunction([k \in Elements(Stances) |-> Surprise(rows[d].units[k])])

-----------------------------------------------------------------------------
\* Whatever a participant allocates, the version has one archetype for the
\* dominant pattern, so the board never shows a pattern without one
\* (archetypes.py:137-149 and reflection_service.py:175-194).
PatternHasArchetype == archetypes # <<>> /\ Dominant # {} => Cardinality(Found) = 1

\* Where options stand for the parameters, the scores of a round add up to
\* all of it, the lean line names a parameter with most and one with fewest
\* units, and its ties and those of the pattern break alike: a session with
\* one round leans to its pattern and away from something else
\* (reflection_service.py:134-151 and 167-186).
BoardIsCoherent ==
    \A r \in Rounds : OfRound(r) # {} /\ Keys = Elements(Stances) =>
       LET S == OfRound(r) IN
       /\ Abs(SumFunction([k \in Keys |-> Score(Total(S, k), RoundTotal(r))]) - 10000) <= 2
       /\ \A k \in Keys : Total(S, Lean(r)[2]) <= Total(S, k) /\ Total(S, k) <= Total(S, Lean(r)[1])
       /\ S = DOMAIN rows => Lean(r)[1] \in Dominant /\ Lean(r)[2] \notin Dominant

\* Dimensions differ by no more than the decisions in them differ on average,
\* and if each decision has its own, dimension_sensitivity is exactly what
\* consistency lacks; that is full exactly when all answers are the same
\* (engine.py:95-106).
DistancesAgree ==
    /\ \A x, y \in Dimensions : x # y =>
          ProfilesApart(x, y) <=
             SumFunction([z \in OfDimension(x) \X OfDimension(y) |-> Apart(z[1], z[2])])
    /\ (\A d, e \in DOMAIN rows : DimensionOf(d) = DimensionOf(e) => d = e) =>
          Sensitivity.sum * Variation.terms = Grain * Variation.sum * Sensitivity.terms
    /\ Variation.sum <= 200 * Variation.terms
    /\ Variation.sum = 0 <=> \A d, e \in DOMAIN rows : rows[d].units = rows[e].units

\* The distances agree, and decisiveness is full exactly when each answer is
\* one option (engine.py:44-49 and 93).
FingerprintIsCoherent ==
    rows # <<>> =>
    /\ DistancesAgree
    /\ \A d \in DOMAIN rows : /\ Decided(d) \in 0..100
                              /\ Decided(d) = 100 <=> 100 \in Elements(rows[d].units)
=============================================================================
