----------------------------- MODULE MCAssembly -----------------------------
(***************************************************************************)
(* A finite instance of Assembly for TLC.  No team of an input loses a     *)
(* member in another one without ceasing to exist.                         *)
(***************************************************************************)
EXTENDS Assembly

CONSTANTS f1, f2, r1, r2, r3

Of(frame, roles, count) ==
    [frame |-> frame, roles |-> roles, count |-> count, size |-> 2, names |-> 2]

MCInputs == {Of(f1, <<r1, r2>>, 2), Of(f1, <<r1, r3>>, 3), Of(f2, <<r1, r2>>, 2)}

ASSUME MCAligned == \A i, j \in Inputs : Aligned(i, j)
=============================================================================
