------------------------------ MODULE WaveStream ------------------------------
(***************************************************************************)
(* What the runner takes for granted of the generation of one input, with  *)
(* no coroutines, calls or caches: the waves and teams reach the database  *)
(* whole, one after the other; a run that fails leaves what it found and   *)
(* what it has streamed; one that completes has streamed all.  Begin,      *)
(* Commit and Fail are the StartRun, GenerateUnit and RunFails of          *)
(* JobRunner, where no progress transaction is lost.                       *)
(***************************************************************************)
EXTENDS Naturals

CONSTANTS Last,   \* how many waves and teams there are
          Wave    \* the builds of each

VARIABLES phase,    \* of the latest run
          passed,   \* the waves and teams it has behind it
          stored    \* builds in the database

streamVars == <<phase, passed, stored>>

StreamInit == phase = "idle" /\ passed = 0 /\ stored = {}

\* The first run, or the next one after a failure.
Begin ==
    /\ phase \in {"idle", "failed"}
    /\ phase' = "running" /\ passed' = 0
    /\ UNCHANGED stored

Commit ==
    /\ phase = "running" /\ passed < Last
    /\ passed' = passed + 1
    /\ stored' = stored \union Wave[passed + 1]
    /\ UNCHANGED phase

Fail ==
    /\ phase = "running"
    /\ phase' = "failed"
    /\ UNCHANGED <<passed, stored>>

Finish ==
    /\ phase = "running" /\ passed = Last
    /\ phase' = "completed"
    /\ UNCHANGED <<passed, stored>>

StreamSpec == StreamInit /\ [][Begin \/ Commit \/ Fail \/ Finish]_streamVars
=============================================================================
