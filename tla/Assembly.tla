------------------------------ MODULE Assembly ------------------------------
(***************************************************************************)
(* The document of a version: builds that this run has made or an earlier  *)
(* one has checkpointed are put together, gated, rotated by the seed and   *)
(* stored with the row of every decision (app/pipeline/assemble.py,        *)
(* reduce.py, decisions.py, app/jobs/checkpoint_codec.py, runner.py).      *)
(*                                                                         *)
(* What can go wrong is aliasing.  The members of a team that was built in *)
(* this run hold one board of decision objects; decoded from a checkpoint  *)
(* they hold one each.  Decisions that pad a short board share the list of *)
(* their options.  Waves are of one participant; the failures inside one   *)
(* are Generation's subject, and failing transactions JobRunner's.         *)
(***************************************************************************)
EXTENDS Intake, FiniteSetsExt

CONSTANTS IndRounds,    \* the individual rounds
          GroupRound,   \* the group round
          BoardSize,    \* decisions of a board
          Seeds,        \* authored, or derived from the hash of the input
          MaxRuns, MaxOdd   \* bounds: runs, and builds with something to report

ASSUME AssemblyAssumption ==
    /\ GroupRound \notin IndRounds
    /\ BoardSize \in Nat \ {0} /\ Seeds \subseteq Nat
    /\ {MaxRuns, MaxOdd} \subseteq Nat

VARIABLES input, seed,   \* simulations.input_jsonb, and the seed it leads to
          runs, odd,
          stage,         \* of the run: "queued", "building" or "ended"
          cache, rows,   \* the run's builds, and the checkpoints stored
          document       \* the latest version, a set of at most one

assemblyVars == <<input, seed, runs, odd, stage, cache, rows, document>>

Numbers == 1..BoardSize

Builds(i) == Nodes(i) \ {FrameNode}

RoundsOf(n) == IF n = TeamNode(n[2]) THEN {GroupRound} ELSE IndRounds

AssemblyInit ==
    /\ input \in Inputs /\ seed \in Seeds
    /\ runs = 0 /\ odd = 0 /\ stage = "queued"
    /\ cache = <<>> /\ rows = <<>> /\ document = {}

-----------------------------------------------------------------------------
(* Builds and their checkpoints.                                           *)

\* Where a build may have PII: in a text that the safety gate reads (roles,
\* situations, scenarios, the titles, questions and options of decisions), or
\* in one that it does not (your_data, the labels of options).
LeakKinds == {"none", "read", "unread"}

\* What a build makes: who holds its boards, how many decisions the forge
\* answered, which decisions are marked [REVIEW], where it has PII.
BuildOf(n, answered, review, leak) ==
    [owners |-> Subjects(input, n), answered |-> answered, review |-> review,
     leak |-> leak, decoded |-> FALSE]

Plain(n) == BuildOf(n, BoardSize, {}, "none")

Possible(n) ==
    {BuildOf(n, answered, review, leak) :
        answered \in Numbers, review \in SUBSET (RoundsOf(n) \X Numbers), leak \in LeakKinds}

Before(m, n) == \/ m[1] = n[1] /\ m[2] < n[2]
                \/ m[1] = "participant" /\ n[1] = "team"

\* The next node without a build; it is checkpointed with the progress.
BuildNode(n) ==
    /\ stage = "building"
    /\ n \in Builds(input) \ DOMAIN cache
    /\ \A m \in Builds(input) : Before(m, n) => m \in DOMAIN cache
    /\ \E b \in {Plain(n)} \union (IF odd < MaxOdd THEN Possible(n) ELSE {}) :
          /\ cache' = [m \in DOMAIN cache \union {n} |-> IF m = n THEN b ELSE cache[m]]
          /\ rows' = [m \in DOMAIN rows \union {n} |-> IF m = n THEN b ELSE rows[m]]
          /\ odd' = IF b = Plain(n) THEN odd ELSE odd + 1
    /\ UNCHANGED <<input, seed, runs, stage, document>>

\* decode: every board gets decision objects of its own.
Decoded(b) == [b EXCEPT !.decoded = TRUE]

StartRun ==
    /\ stage = "queued" /\ runs < MaxRuns
    /\ runs' = runs + 1
    /\ stage' = "building"
    /\ cache' = [n \in DOMAIN rows |-> Decoded(rows[n])]
    /\ UNCHANGED <<input, seed, odd, rows, document>>

-----------------------------------------------------------------------------
(* Reduce.  A place is a decision on somebody's board in the document.     *)

\* A mutant of Results: whatever is in the cache is assembled.
ResultsOfCache == DOMAIN cache

\* The build results, one for each participant and team of the input.
Results == Builds(input)

\* A mutant of Forged: the board ends where the forge's answer ends.
ForgedOnly(b) == 1..b.answered

\* The forge numbers one decision for each dimension ...
Forged(b) == Numbers

\* ... and repeats the last one it was given.
Source(b, number) == IF number <= b.answered THEN number ELSE b.answered

PlacesOf(n) ==
    {[node |-> n, owner |-> o, round |-> r, number |-> d] :
        o \in cache[n].owners, r \in RoundsOf(n), d \in Forged(cache[n])}

Places == UNION {PlacesOf(n) : n \in Results}

\* The object at a place, which a deep copy keeps apart or together.  No
\* participant has the number 0.
Object(pl) == IF cache[pl.node].decoded THEN pl ELSE [pl EXCEPT !.owner = 0]

\* The list of options of an object before the rotation; copies share it.
Options(pl) == IF cache[pl.node].decoded THEN pl
               ELSE [Object(pl) EXCEPT !.number = Source(cache[pl.node], pl.number)]

\* A mutant of Visited: the board of a team is taken from its first member.
VisitedOnce == {pl \in Places : \A o \in cache[pl.node].owners : pl.owner <= o}

\* Where shuffle_positions rotates.
Visited == Places

\* A mutant of Affects: the list is rotated in place.
AffectsList(q, pl) == Options(q) = Options(pl)

\* A rotation gives its object a new list.
Affects(q, pl) == Object(q) = Object(pl)

\* _rotate_decision, by as many positions.
Step(number) == (seed + number) % 4

\* The first option of a place after shuffle_positions, counted from 0.
Turn(pl) == MapThenSumSet(LAMBDA q : Step(q.number),
                          {q \in Visited : Affects(q, pl)}) % 4

Marked(pl) == <<pl.round, pl.number>> \in cache[pl.node].review

\* A mutant of Reported: the round is not part of the key.
ReportedInAnyRound(pl) ==
    \E n \in DOMAIN cache : /\ pl.owner \in cache[n].owners
                            /\ \E r \in RoundsOf(n) : <<r, pl.number>> \in cache[n].review

\* _reports_index, over all builds in the cache, those of an earlier input
\* included; no two have a decision of one owner, round and number.
Reported(pl) ==
    \E n \in DOMAIN cache : /\ pl.owner \in cache[n].owners /\ pl.round \in RoundsOf(n)
                            /\ <<pl.round, pl.number>> \in cache[n].review

\* The decision at a place, with the flag of its row.
Entry(pl) == [place |-> pl, text |-> Source(cache[pl.node], pl.number), turn |-> Turn(pl),
              marked |-> Marked(pl), flagged |-> Reported(pl)]

\* What the safety gate finds.
Leaks == \E n \in Results : cache[n].leak = "read"

Reduce ==
    /\ stage = "building" /\ Builds(input) \subseteq DOMAIN cache
    /\ ~Leaks
    /\ document' = {[input |-> input, seed |-> seed, entries |-> {Entry(pl) : pl \in Places},
                     leaks |-> {cache[n].leak : n \in Results}]}
    /\ stage' = "ended"
    /\ UNCHANGED <<input, seed, runs, odd, cache, rows>>

\* The gate or anything before it raises; the checkpoints stay.
RunFails ==
    /\ stage = "building"
    /\ stage' = "ended"
    /\ UNCHANGED <<input, seed, runs, odd, cache, rows, document>>

\* revise_simulation with an input, the same one included; a seed that is not
\* authored changes with the input.
Revise(j) ==
    /\ stage = "ended" /\ runs < MaxRuns
    /\ input' = j
    /\ seed' \in IF j = input THEN {seed} ELSE Seeds
    /\ rows' = [n \in DOMAIN rows \ (IF FullScope(input, j) THEN DOMAIN rows
                                     ELSE StaleNodes(input, j)) |-> rows[n]]
    /\ cache' = <<>>
    /\ stage' = "queued"
    /\ UNCHANGED <<runs, odd, document>>

AssemblyNext ==
    \/ StartRun \/ Reduce \/ RunFails
    \/ \E n \in Builds(input) : BuildNode(n)
    \/ \E j \in Inputs : Revise(j)

AssemblySpec == AssemblyInit /\ [][AssemblyNext]_assemblyVars

-----------------------------------------------------------------------------
\* A version has, for exactly the participants and teams of the input it was
\* made from, a whole board in each of their rounds, whatever checkpoints were
\* left by other inputs; and no text that the gate of an earlier run had
\* failed for (assemble.py:86-127, decisions.py:121-125, orchestrator.py:355).
DocumentIsWhole ==
    \A v \in document :
       /\ {e.place : e \in v.entries} =
            UNION {{[node |-> n, owner |-> o, round |-> r, number |-> d] :
                      o \in Subjects(v.input, n), r \in RoundsOf(n), d \in Numbers} :
                   n \in Builds(v.input)}
       /\ "read" \notin v.leaks

\* "Raises if any generated text contains PII" (reduce.py:8, 165): no version
\* has any.
NothingLeaks == \A v \in document : v.leaks \subseteq {"none"}

\* The decisions of an individual board stand in the forged order turned once
\* by the seed, padded ones too, and whichever run made the board
\* (assemble.py:147-150).
OrderFollowsSeed ==
    \A v \in document : \A e \in v.entries :
       e.place.round \in IndRounds => e.turn = (v.seed + e.place.number) % 4

\* All members of a team see one board, order included, whether they share its
\* objects or each have their own (orchestrator.py:233-234, assemble.py:169-172).
TeamsShareOneBoard ==
    \A v \in document : \A e, f \in v.entries :
       /\ e.place.node = f.place.node /\ e.place.round = f.place.round
       /\ e.place.number = f.place.number
       => <<e.text, e.turn, e.marked>> = <<f.text, f.turn, f.marked>>

\* list_flagged_decisions: what a version has to be reviewed for.
FlaggedDecisions(v) == {e \in v.entries : e.flagged}

\* The decisions listed for review are exactly those whose titles say so, also
\* when checkpoints of an earlier input are in the cache (runner.py:116-131).
FlagsReachRows == \A v \in document : FlaggedDecisions(v) = {e \in v.entries : e.marked}
=============================================================================
