------------------------------ MODULE MCRuntime ------------------------------
(***************************************************************************)
(* Finite instances of Runtime, and of the Content it extends, for TLC.    *)
(***************************************************************************)
EXTENDS Runtime

CONSTANTS p1, p2, t1, t2, protect, enable, hybrid, defer

MCPostures == {protect, enable, hybrid, defer}
Straight == <<protect, enable, hybrid, defer>>
Rotated == <<enable, hybrid, defer, protect>>

Own(p, r, n) == [type |-> "participant", owner |-> p, round |-> r, number |-> n]
Shared(p, n) == [type |-> "team_member", owner |-> p, round |-> 2, number |-> n]

\* One individual round of two decisions, and a group round whose decision has
\* the number 1 again.
OneRound == {Own(p1, 1, 1), Own(p1, 1, 2), Shared(p1, 1)}

\* The boards of the group round are stored in another order.
Draft(S) == [k \in S |-> [order |-> IF k.type = "participant" THEN Straight ELSE Rotated,
                          text |-> t1]]

OneRoundDrafts == {Draft(OneRound)}

\* A run may order the same options in another way than the one before it.
MovedDrafts == OneRoundDrafts \union
                  {[k \in OneRound |-> [order |-> Rotated, text |-> t1]]}

\* Two individual rounds, each with a decision of the number 1.
TwoRounds == {Own(p1, 1, 1), Own(p1, 1, 2), Own(p1, 3, 1)}
TwoRoundsDrafts == {Draft(TwoRounds)}

MCSeeds == {1, 2}

MCShuffle == [x \in MCSeeds \X (1..2) |->
                 IF x[1] = x[2] THEN <<2, 4, 1, 3>> ELSE <<1, 2, 3, 4>>]

\* A distribution that sums to 100 and one that does not; submissions differ
\* in "by" even where they are equal.
MCFills == {<<40, 30, 20, 10>>, <<50, 30, 20, 10>>}
=============================================================================
