------------------------- MODULE SimulationLifecycle -------------------------
(***************************************************************************)
(* What a facilitator is promised about one simulation, with no jobs,      *)
(* sessions, checkpoints or claimers: the status moves round one cycle,    *)
(* every pass that succeeds delivers exactly the next version, and a       *)
(* version that needs review is live only once it has been approved.  A    *)
(* delivery whose answer was lost may still be called failed; the version  *)
(* it delivered stays, and so does whether it is live.                     *)
(***************************************************************************)
EXTENDS Naturals

CONSTANTS Sims

VARIABLES phase,    \* the status shown for each simulation
          latest,   \* the number of its latest version, 0 if it has none
          live,     \* TRUE iff that version is published
          unheard   \* TRUE while whoever delivered it has not heard so

lvars == <<phase, latest, live, unheard>>

LInit ==
    /\ phase = [s \in Sims |-> "none"]
    /\ latest = [s \in Sims |-> 0]
    /\ live = [s \in Sims |-> FALSE]
    /\ unheard = [s \in Sims |-> FALSE]

\* A first submission, or an edited input for a simulation that is at rest.
Submit(s) ==
    /\ phase[s] \in {"none", "ready", "needs_review", "failed"}
    /\ ~unheard[s]
    /\ phase' = [phase EXCEPT ![s] = "queued"]
    /\ UNCHANGED <<latest, live, unheard>>

Begin(s) ==
    /\ phase[s] = "queued"
    /\ phase' = [phase EXCEPT ![s] = "generating"]
    /\ UNCHANGED <<latest, live, unheard>>

Deliver(s, reviewed, heard) ==
    /\ phase[s] = "generating"
    /\ phase' = [phase EXCEPT ![s] = IF reviewed THEN "ready" ELSE "needs_review"]
    /\ latest' = [latest EXCEPT ![s] = @ + 1]
    /\ live' = [live EXCEPT ![s] = reviewed]
    /\ unheard' = [unheard EXCEPT ![s] = ~heard]

Break(s) ==
    /\ phase[s] \in {"queued", "generating"}
    /\ phase' = [phase EXCEPT ![s] = "failed"]
    /\ UNCHANGED <<latest, live, unheard>>

\* Whoever delivered the version calls the pass a failure, or is cut off.
TakeBack(s) ==
    /\ unheard[s]
    /\ phase[s] \in {"ready", "needs_review"}
    /\ phase' = [phase EXCEPT ![s] = "failed"]
    /\ unheard' = [unheard EXCEPT ![s] = FALSE]
    /\ UNCHANGED <<latest, live>>

LetStand(s) ==
    /\ unheard[s]
    /\ unheard' = [unheard EXCEPT ![s] = FALSE]
    /\ UNCHANGED <<phase, latest, live>>

SignOff(s) ==
    /\ phase[s] = "needs_review"
    /\ phase' = [phase EXCEPT ![s] = "ready"]
    /\ live' = [live EXCEPT ![s] = TRUE]
    /\ UNCHANGED <<latest, unheard>>

LNext ==
    \E s \in Sims : \/ Submit(s) \/ Begin(s) \/ Break(s) \/ SignOff(s)
                    \/ TakeBack(s) \/ LetStand(s)
                    \/ \E reviewed, heard \in BOOLEAN : Deliver(s, reviewed, heard)

LSpec == LInit /\ [][LNext]_lvars
=============================================================================
