------------------------------ MODULE Generation ------------------------------
(***************************************************************************)
(* One simulation's generation inside a process: the main coroutine of a   *)
(* run, its fan-out into builds, and the model calls they make under the   *)
(* process-wide semaphore (app/pipeline/orchestrator.py,                   *)
(* app/pipeline/decisions.py, app/llm/call.py).  JobRunner takes a wave as *)
(* one step; here are the steps inside it, of engine version 2 with rounds *)
(* whose focuses are derived.                                              *)
(*                                                                         *)
(* gather raises at the first failure and leaves the other builds of the   *)
(* wave running, so a run shares the process with orphans of the run       *)
(* before.  A task is <<run, i>>: the main coroutine (i = 0) or a build,   *)
(* participants first and teams after them.  Calls that one coroutine      *)
(* makes in sequence with nothing shared between them are one call: the    *)
(* Tier-1 calls, and the critic with the naive picker.                     *)
(***************************************************************************)
EXTENDS Integers, Sequences, FiniteSetsExt

CONSTANTS Participants, Teams,   \* how many
          BatchSize,             \* participant_batch_size
          MaxConcurrency,        \* max_concurrency, of both semaphores
          MaxAttempts,           \* _MAX_ATTEMPTS
          MaxRevisions,          \* max_revisions
          BoardSize,             \* decisions of a round
          MaxRuns, MaxFailures   \* bounds: runs, and failed calls

ASSUME GenerationAssumption ==
    /\ Participants \in Nat /\ Teams \in Nat /\ Participants + Teams > 0
    /\ {BatchSize, MaxConcurrency, MaxAttempts, BoardSize} \subseteq Nat \ {0}
    /\ {MaxRevisions, MaxRuns, MaxFailures} \subseteq Nat

Runs == 1..MaxRuns
Builds == 1..(Participants + Teams)
Main == 0
Tasks == Runs \X (Builds \union {Main})

IsTeam(i) == i > Participants

\* Rounds whose focuses are derived; a build belongs to one of them.
Kinds == (IF Participants > 0 THEN {"ind"} ELSE {}) \union (IF Teams > 0 THEN {"team"} ELSE {})
KindOf(i) == IF IsTeam(i) THEN "team" ELSE "ind"

\* Waves of participants, then the teams one at a time.
Waves == (Participants + BatchSize - 1) \div BatchSize
Units == Waves + Teams
Unit(u) == IF u <= Waves
           THEN {i \in 1..Participants : (i - 1) \div BatchSize = u - 1}
           ELSE {Participants + u - Waves}

VARIABLES runs,       \* runs started
          unit,       \* the wave or team each run is at
          task,       \* the main coroutine, the builds and the call of each
          cache,      \* the checkpointer of each run
          rows,       \* checkpoints in the database
          review,     \* whether each completed run asks for a review
          failures

vars == <<runs, unit, task, cache, rows, review, failures>>

NoNode == [saved |-> FALSE]
NoNodes == [foundation |-> NoNode, focus |-> [k \in Kinds |-> NoNode],
            built |-> [i \in Builds |-> NoNode]]

\* A task at a stage, about to make the call of that stage if there is one.
At(stage) == [at |-> stage, call |-> "none", attempt |-> 0, focus |-> <<>>,
              flagged |-> <<>>, revision |-> 0]

Boss(r) == <<r, Main>>

Init ==
    /\ runs = 0
    /\ unit = [r \in Runs |-> 1]
    /\ task = [t \in Tasks |-> At("absent")]
    /\ cache = [r \in Runs |-> NoNodes]
    /\ rows = NoNodes
    /\ review = [r \in Runs |-> FALSE]
    /\ failures = 0

-----------------------------------------------------------------------------
(***************************************************************************)
(* parse_call.                                                             *)
(***************************************************************************)

CallStages == {"foundation", "focus", "open", "forge", "judge", "revise", "close",
               "audit", "reaudit"}

Calling(t) == task[t].call # "none"

\* A mutant of FreeSlots: builds are let in by the semaphore of the calls.
FreeSlotsOfOneSemaphore ==
    MaxConcurrency - Cardinality({t \in Tasks : Calling(t)})
        - Cardinality({t \in Runs \X Builds : task[t].at \in CallStages})

\* The semaphore is the process's, and a slot is held while a call backs off.
FreeSlots == MaxConcurrency - Cardinality({t \in Tasks : Calling(t)})

Set(t, x) == task' = [task EXCEPT ![t] = x]

Acquire(t) ==
    /\ task[t].at \in CallStages /\ ~Calling(t)
    /\ FreeSlots > 0
    /\ Set(t, [task[t] EXCEPT !.call = "parse", !.attempt = 1])
    /\ UNCHANGED <<runs, unit, cache, rows, review, failures>>

\* A transient error is retried after a pause ...
BackOff(t) ==
    /\ task[t].call = "parse" /\ task[t].attempt < MaxAttempts
    /\ Set(t, [task[t] EXCEPT !.call = "backoff"])
    /\ UNCHANGED <<runs, unit, cache, rows, review, failures>>

Retry(t) ==
    /\ task[t].call = "backoff"
    /\ Set(t, [task[t] EXCEPT !.call = "parse", !.attempt = @ + 1])
    /\ UNCHANGED <<runs, unit, cache, rows, review, failures>>

\* ... and any other error, or one in the last attempt, ends the coroutine.
Raise(t) ==
    /\ task[t].call = "parse"
    /\ failures < MaxFailures
    /\ failures' = failures + 1
    /\ Set(t, At("raised"))
    /\ UNCHANGED <<runs, unit, cache, rows, review>>

\* A call made at a stage has its answer, and the coroutine is at the next one.
Answered(t, stage) == task[t].at = stage /\ task[t].call = "parse"
Next(t, stage) == [task[t] EXCEPT !.at = stage, !.call = "none", !.attempt = 0]

-----------------------------------------------------------------------------
(***************************************************************************)
(* Tier 1 and the focuses of every round, before the fan-out.              *)
(***************************************************************************)

\* A mutant of MissingFocus: focuses are left to the builds.
MissingNone(c) == {}

\* The rounds whose focuses have no checkpoint.
MissingFocus(c) == {k \in Kinds : ~c.focus[k].saved}

\* The next call of the main coroutine with checkpoints c.
Tier1(c) == IF ~c.foundation.saved THEN At("foundation")
            ELSE IF MissingFocus(c) # {} THEN At("focus") ELSE At("fanout")

\* A mutant of Hydrated: only the Tier-1 nodes are read.
HydratedTier1 == [rows EXCEPT !.built = NoNodes.built]

\* The checkpoints a run begins with.
Hydrated == rows

\* The job is queued again after a failure; the run resumes from the rows.
StartRun(r) ==
    /\ r = runs + 1
    /\ runs > 0 => task[Boss(runs)].at = "raised"
    /\ runs' = r
    /\ cache' = [cache EXCEPT ![r] = Hydrated]
    /\ Set(Boss(r), Tier1(Hydrated))
    /\ UNCHANGED <<unit, rows, review, failures>>

Foundation(r) ==
    /\ Answered(Boss(r), "foundation")
    /\ cache' = [cache EXCEPT ![r].foundation = [saved |-> TRUE, by |-> Boss(r)]]
    /\ Set(Boss(r), Tier1(cache'[r]))
    /\ UNCHANGED <<runs, unit, rows, review, failures>>

\* The end of resolve_focuses where there was no checkpoint: for the main
\* coroutine the next round, individual ones first, for a build its own.  A
\* build gets here only if the main coroutine has left its round out.
ResolveFocus(r, i) ==
    /\ Answered(<<r, i>>, "focus")
    /\ LET k == IF i # Main THEN KindOf(i)
                ELSE IF "ind" \in MissingFocus(cache[r]) THEN "ind" ELSE "team"
       IN cache' = [cache EXCEPT ![r].focus[k] = [saved |-> TRUE, by |-> <<r, i>>]]
    /\ Set(<<r, i>>, IF i = Main THEN Tier1(cache'[r])
                     ELSE [Next(<<r, i>>, "forge") EXCEPT !.focus = <<r, i>>])
    /\ UNCHANGED <<runs, unit, rows, review, failures>>

-----------------------------------------------------------------------------
(***************************************************************************)
(* The fan-out.                                                            *)
(***************************************************************************)

\* gather makes a task of every build of the wave.
Gather(r) ==
    /\ task[Boss(r)].at = "fanout"
    /\ task' = [t \in Tasks |->
                  IF t = Boss(r) THEN At("gather")
                  ELSE IF t[1] = r /\ t[2] \in Unit(unit[r]) THEN At("waiting") ELSE task[t]]
    /\ UNCHANGED <<runs, unit, cache, rows, review, failures>>

\* guarded: the run has a semaphore of its own for its builds.
Inside(r) == {i \in Builds : task[<<r, i>>].at \in CallStages}

Enter(r, i) ==
    /\ task[<<r, i>>].at = "waiting"
    /\ Cardinality(Inside(r)) < MaxConcurrency
    /\ Set(<<r, i>>, At(IF cache[r].built[i].saved THEN "done" ELSE "open"))
    /\ UNCHANGED <<runs, unit, cache, rows, review, failures>>

\* role_smith or team_scenario, then resolve_focuses without a call where
\* there is a checkpoint.
Opened(r, i) ==
    /\ Answered(<<r, i>>, "open")
    /\ Set(<<r, i>>, IF cache[r].focus[KindOf(i)].saved
                     THEN [Next(<<r, i>>, "forge") EXCEPT !.focus = cache[r].focus[KindOf(i)].by]
                     ELSE Next(<<r, i>>, "focus"))
    /\ UNCHANGED <<runs, unit, cache, rows, review, failures>>

Forged(r, i) ==
    /\ Answered(<<r, i>>, "forge")
    /\ Set(<<r, i>>, Next(<<r, i>>, "judge"))
    /\ UNCHANGED <<runs, unit, cache, rows, review, failures>>

MayRevise(t) == task[t].revision < MaxRevisions

\* The build is done and saved with its flags.
Built(r, i, flagged) ==
    /\ cache' = [cache EXCEPT ![r].built[i] =
                    [saved |-> TRUE, by |-> <<r, i>>, focus |-> task[<<r, i>>].focus,
                     flagged |-> flagged]]
    /\ Set(<<r, i>>, At("done"))

\* The decisions of a board are judged one after the other; one that does not
\* pass is revised, and flagged when it may not be revised again.
Judged(r, i, passed) ==
    LET t == <<r, i>>
        flagged == Append(task[t].flagged, ~passed)
    IN /\ Answered(t, "judge")
       /\ \/ /\ ~passed /\ MayRevise(t)
             /\ Set(t, Next(t, "revise"))
             /\ UNCHANGED cache
          \/ /\ passed \/ ~MayRevise(t)
             /\ IF Len(flagged) < BoardSize
                THEN /\ Set(t, [Next(t, "judge") EXCEPT !.flagged = flagged, !.revision = 0])
                     /\ UNCHANGED cache
                ELSE IF IsTeam(i)
                THEN /\ Set(t, [Next(t, "close") EXCEPT !.flagged = flagged])
                     /\ UNCHANGED cache
                ELSE Built(r, i, flagged)
       /\ UNCHANGED <<runs, unit, rows, review, failures>>

Revised(r, i) ==
    /\ Answered(<<r, i>>, "revise")
    /\ Set(<<r, i>>, [Next(<<r, i>>, "judge") EXCEPT !.revision = @ + 1])
    /\ UNCHANGED <<runs, unit, cache, rows, review, failures>>

\* team_situation.
Closed(r, i) ==
    /\ Answered(<<r, i>>, "close")
    /\ Built(r, i, task[<<r, i>>].flagged)
    /\ UNCHANGED <<runs, unit, rows, review, failures>>

\* gather returns when the whole wave is done, and the checkpoints are
\* streamed to the database.
UnitDone(r) ==
    /\ task[Boss(r)].at = "gather"
    /\ \A i \in Unit(unit[r]) : task[<<r, i>>].at = "done"
    /\ rows' = cache[r]
    /\ unit' = [unit EXCEPT ![r] = @ + 1]
    /\ Set(Boss(r), At(IF unit[r] = Units THEN "audit" ELSE "fanout"))
    /\ UNCHANGED <<runs, cache, review, failures>>

\* A mutant of LeftBehind: the checkpoints are flushed on the way out.
LeftBehindAll(r) == cache[r]

\* What the rows are when a run fails.
LeftBehind(r) == rows

\* gather raises with the first build that does; the others run on.
UnitRaises(r) ==
    /\ task[Boss(r)].at = "gather"
    /\ \E i \in Unit(unit[r]) : task[<<r, i>>].at = "raised"
    /\ Set(Boss(r), At("raised"))
    /\ rows' = LeftBehind(r)
    /\ UNCHANGED <<runs, unit, cache, review, failures>>

-----------------------------------------------------------------------------
(***************************************************************************)
(* The gates.                                                              *)
(***************************************************************************)

\* A mutant of Flags: only builds of this run are looked at.
FlagsOfThisRun(r) ==
    {i \in Builds : /\ cache[r].built[i].by = <<r, i>>
                    /\ \E d \in 1..BoardSize : cache[r].built[i].flagged[d]}

\* Builds with a decision that never passed.
Flags(r) == {i \in Builds : \E d \in 1..BoardSize : cache[r].built[i].flagged[d]}

\* The editorial gate asks for a review, the safety gate raises.
Reduce(r, contradictions) ==
    \/ /\ Set(Boss(r), At("completed"))
       /\ \E editorial \in BOOLEAN :
             review' = [review EXCEPT ![r] = Flags(r) # {} \/ contradictions \/ editorial]
       /\ UNCHANGED failures
    \/ /\ failures < MaxFailures
       /\ failures' = failures + 1
       /\ Set(Boss(r), At("raised"))
       /\ UNCHANGED review

\* Contradictions are audited a second time.
Audited(r, contradictions) ==
    /\ \/ /\ Answered(Boss(r), "audit") /\ contradictions
          /\ Set(Boss(r), At("reaudit"))
          /\ UNCHANGED <<review, failures>>
       \/ /\ Answered(Boss(r), "audit") /\ ~contradictions
          /\ Reduce(r, FALSE)
       \/ /\ Answered(Boss(r), "reaudit")
          /\ Reduce(r, contradictions)
    /\ UNCHANGED <<runs, unit, cache, rows>>

-----------------------------------------------------------------------------
CallNext(t) == Acquire(t) \/ BackOff(t) \/ Retry(t) \/ Raise(t)

BuildNext(r, i) ==
    \/ Enter(r, i) \/ Opened(r, i) \/ ResolveFocus(r, i) \/ Forged(r, i)
    \/ \E passed \in BOOLEAN : Judged(r, i, passed)
    \/ Revised(r, i) \/ Closed(r, i)

MainNext(r) ==
    \/ Foundation(r) \/ ResolveFocus(r, Main) \/ Gather(r) \/ UnitDone(r) \/ UnitRaises(r)
    \/ \E contradictions \in BOOLEAN : Audited(r, contradictions)

Work ==
    \/ \E t \in Tasks : CallNext(t)
    \/ \E r \in Runs : MainNext(r) \/ \E i \in Builds : BuildNext(r, i)

GenNext == Work \/ \E r \in Runs : StartRun(r)

\* The event loop goes on as long as a coroutine can, and calls are answered.
GenSpec == Init /\ [][GenNext]_vars /\ WF_vars(Work)

-----------------------------------------------------------------------------
(***************************************************************************)
(* Properties.                                                             *)
(***************************************************************************)

\* All boards of one round were made for the same focuses, in a run and in
\* what the next one resumes from: "shared by every participant for
\* comparability" (orchestrator.py:277-279).
BoardsAreComparable ==
    \A c \in {rows} \union {cache[r] : r \in Runs}, i \in Builds :
       c.built[i].saved =>
          c.focus[KindOf(i)].saved /\ c.built[i].focus = c.focus[KindOf(i)].by

\* The database holds whole waves and teams, in order, and what they were
\* made from, whatever the builds left behind by a failed run do.
WavesAreWhole ==
    \E u \in 0..Units :
       /\ {i \in Builds : rows.built[i].saved} = UNION {Unit(v) : v \in 1..u}
       /\ u > 0 => rows.foundation.saved /\ \A k \in Kinds : rows.focus[k].saved

\* A run that asks for no review has only decisions that passed, those it has
\* resumed from included (orchestrator.py:56-58).
ReviewIsAsked ==
    \A r \in Runs : task[Boss(r)].at = "completed" /\ ~review[r] =>
       \A i \in Builds : \A d \in 1..BoardSize : ~cache[r].built[i].flagged[d]

\* A resumed run makes no call for a build that is in the database: "Completed
\* nodes from a prior run are skipped on restart" (README.md:284).
NothingTwice ==
    \A i \in Builds : runs > 0 /\ task[<<runs, i>>].at \in CallStages => ~rows.built[i].saved

\* The latest run, as the runner sees it.
Phase == IF runs = 0 THEN "idle"
         ELSE IF task[Boss(runs)].at = "raised" THEN "failed"
         ELSE IF task[Boss(runs)].at = "completed" THEN "completed" ELSE "running"

Stream == INSTANCE WaveStream WITH
             Last <- Units, Wave <- [u \in 1..Units |-> Unit(u)],
             phase <- Phase, passed <- IF runs = 0 THEN 0 ELSE unit[runs] - 1,
             stored <- {i \in Builds : rows.built[i].saved}

\* Whatever its builds do, and those a failed run has left, a generation is
\* the stream of waves and teams the runner takes it for: "completed
\* checkpoints" of a wave that is done, "a resume at N" after a failure
\* (orchestrator.py:328-342, runner.py:203-206).
KeepsStream == Stream!StreamSpec

\* Every run ends, whatever its builds wait for each other.
RunsEnd ==
    \A r \in Runs : task[Boss(r)].at # "absent" ~> task[Boss(r)].at \in {"completed", "raised"}
=============================================================================
