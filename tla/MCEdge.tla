------------------------------- MODULE MCEdge -------------------------------
(***************************************************************************)
(* A finite instance of Edge for TLC.  The simulation 0 and its tenant 0   *)
(* are there from the start; identifiers from 1 on are those of calls.     *)
(***************************************************************************)
EXTENDS Edge

CONSTANTS ann, bob

MCEmails == {ann, bob}
MCCalls == 1..3
MCFounder == [email |-> ann, tenant |-> 0]
MCLegacy == {[id |-> 0, tenant |-> 0, key |-> {}]}
MCSlots == (MCCalls \union {0}) \X Names
=============================================================================
