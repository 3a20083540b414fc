---------------------------- MODULE MCReflection ----------------------------
(***************************************************************************)
(* A finite instance of Reflection for TLC.                                *)
(***************************************************************************)
EXTENDS Reflection

CONSTANTS k1, k2, k3, k4, p1, p2

Four == <<k1, k2, k3, k4>>

\* The unified engine; the same with stances only; canonical postures; and a
\* spec older than the unification.
MCCommons == {[spec |-> Four, types |-> Four], [spec |-> <<>>, types |-> Four],
              [spec |-> <<>>, types |-> <<>>], [spec |-> <<p1, p2>>, types |-> Four]}

Ten(ab, single) == <<ab, <<k1, k3>>, <<k1, k4>>, <<k2, k3>>, <<k2, k4>>, <<k3, k4>>,
                     <<k1>>, <<k2>>, <<k3>>, single>>

\* As asked; two that say the same in other words; an ordered pair twice and a
\* single dropped; one pattern too few.
Archetypes == {Ten(<<k1, k2>>, <<k4>>), Ten(<<k2, k1>>, <<k4>>), Ten(<<k1, k2>>, <<k4, k4>>),
              Ten(<<k1, k2>>, <<k2, k1>>), SubSeq(Ten(<<k1, k2>>, <<k4>>), 1, 9)}

MCCanonical == <<"Protect", "Enable", "Hybrid", "Defer">>

\* As declared, of either kind; one posture twice; an invented one.
Boards == {Four, <<k2, k1, k3, k4>>, MCCanonical, <<k1, k1, k3, k4>>, <<k1, k2, k3, p1>>}

\* A request that fails, and one for which nothing can be done.
Failures == {[kind |-> "timeout", status |-> 0, value |-> <<>>],
             [kind |-> "status", status |-> 429, value |-> <<>>],
             [kind |-> "status", status |-> 400, value |-> <<>>],
             [kind |-> "max_tokens", status |-> 200, value |-> <<>>]}

Values(S) == {[kind |-> "value", status |-> 200, value |-> v] : v \in S}

MCReplies == [none |-> {}, archetypes |-> Failures \union Values(Archetypes),
              options |-> Failures \union Values(Boards)]

MCBoardOf == [r \in {1, 3} |-> IF r = 1 THEN 2 ELSE 3]

\* The number 1 has another dimension in the later round, where it shares it.
MCDimension == [z \in {1, 3} \X (1..3) |-> IF z[2] = 2 THEN "FRAME"
                                         ELSE IF z[1] = 1 THEN "MOVE" ELSE "HOLD"]

MCLabels == {k1, k2, k3, k4, p1, p2} \union Elements(MCCanonical)

MCSplits == {<<100, 0, 0, 0>>, <<25, 25, 25, 25>>, <<0, 50, 50, 0>>, <<0, 25, 25, 50>>,
             <<0, 0, 0, 100>>}
=============================================================================
