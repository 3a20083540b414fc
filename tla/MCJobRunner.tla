----------------------------- MODULE MCJobRunner -----------------------------
(***************************************************************************)
(* Finite instances of JobRunner for TLC.                                  *)
(***************************************************************************)
EXTENDS JobRunner, TLC

CONSTANTS f1, f2, r1, r2

MCFrames == {f1, f2}
MCRoles == {r1, r2}

\* Two participants in one full team; one role replaced (a partial revision:
\* p2 and its team); another frame (a full revision); one participant more,
\* alone in a second team.
Authored == [frame |-> f1, roles |-> <<r1>>, count |-> 2, size |-> 2, names |-> 2]
RoleEdited == [Authored EXCEPT !.roles = <<r1, r2>>]
Reframed == [Authored EXCEPT !.frame = f2]
Grown == [Authored EXCEPT !.count = 3]

\* A single participant and no group round.
Solo == [Authored EXCEPT !.count = 1, !.names = 0]
SoloEdited == [Solo EXCEPT !.roles = <<r2>>]

EditInputs == {Authored, RoleEdited, Reframed, Grown}
SoloInputs == {Solo, SoloEdited}

\* Without fairness nothing tells one claimer from another (Loop is named in
\* Fairness only), one simulation from another, or, in SoloInputs, one role
\* from the other.
ClaimSymmetry == Permutations(Workers) \union Permutations(Sims) \union Permutations(MCRoles)

-----------------------------------------------------------------------------
\* All small inputs with one frame, over which RevisionScopeIsExact is
\* evaluated: rosters up to 5, role pools up to 3, teams of up to 3.
SmallInputs ==
    [frame : {f1}, roles : UNION {[1..n -> MCRoles] : n \in 1..3}, count : 1..5,
     size : 1..3, names : 0..2]

ASSUME ReuseIsExactOnSmallInputs ==
    \A i, j \in SmallInputs :
       ~FullScope(i, j) /\ Aligned(i, j) => ReuseIsExact(i, j)
=============================================================================
