----------------------------- MODULE MCGroupRoom -----------------------------
(***************************************************************************)
(* Finite instances of GroupRoom for TLC, and the distance it uses checked *)
(* against the definition of total variation.                              *)
(***************************************************************************)
EXTENDS GroupRoom

MCCanonical == <<"Protect", "Enable", "Hybrid", "Defer">>

\* The keys a version of the second engine declares.
Declared == <<"cost", "speed", "care", "trust">>

TwoSplits == {<<100, 0, 0, 0>>, <<0, 60, 40, 0>>}
EitherScheme == {MCCanonical, Declared}

\* Every version declares its own keys, and the page enters the canonical ones
\* (GroupRoom.tsx:16-17).
OnlyDeclared == {Declared}
OnlyCanonical == {MCCanonical}

\* The largest difference between two distributions on any set of options.
TotalVariation(p, q) ==
    Max({MapThenSumSet(LAMBDA k : p[k] - q[k], K) : K \in SUBSET DOMAIN p})

Tens == {[k \in Range4(MCCanonical) |->
             CASE k = "Protect" -> 10 * a [] k = "Enable" -> 10 * b
               [] k = "Hybrid" -> 10 * c [] OTHER -> 100 - 10 * (a + b + c)] :
            a \in 0..4, b \in 0..3, c \in 0..3}

\* _tv is the total variation distance its docstring names (group.py:14).
ASSUME DistanceIsTotalVariation ==
    \A p, q \in Tens : Distance(p, q, Range4(MCCanonical)) = TotalVariation(p, q)
=============================================================================
