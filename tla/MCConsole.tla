------------------------------ MODULE MCConsole ------------------------------
(***************************************************************************)
(* A finite instance of Console for TLC: a page, two questions under way,  *)
(* and a simulation with one participant.                                  *)
(***************************************************************************)
EXTENDS Console

CONSTANTS f1, r1

Solo == [frame |-> f1, roles |-> <<r1>>, count |-> 1, size |-> 2, names |-> 0]

MCInputs == {Solo}
=============================================================================
