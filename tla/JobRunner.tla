------------------------------ MODULE JobRunner ------------------------------
(***************************************************************************)
(* The job runner and the simulation lifecycle: claiming a queued job,     *)
(* generating wave by wave with streamed checkpoints, writing a version,   *)
(* failing, being cut off, and the facilitator's create / revise / approve *)
(* requests that interleave with it (app/jobs/runner.py,                   *)
(* app/jobs/checkpointer.py, app/services/generation_service.py,           *)
(* app/pipeline/orchestrator.py).                                          *)
(*                                                                         *)
(* The first ten variables are committed database state.  What a claimer   *)
(* has read or generated and not committed is in "run", so a step of one   *)
(* session is visible to another exactly when the code commits it.         *)
(***************************************************************************)
EXTENDS Intake, FiniteSets

CONSTANTS Sims,         \* simulations
          MaxJobs,      \* bound on the jobs ever queued
          Workers,      \* claimers: the background loop and POST /run requests
          Loop,         \* the background worker_loop among them
          Clients,      \* facilitators' revise requests that may be in flight
          BatchSize,    \* settings.participant_batch_size
          SkipLocked,   \* TRUE on PostgreSQL, FALSE on SQLite
          ReviewWhen,   \* the statuses in which reviewers send "approve"
          Patient,      \* TRUE iff nobody revises a simulation whose claimer
                        \* has yet to hear of its final commit
          MaxAborts,    \* bound on claimers cut off (crash, shutdown)
          MaxBlips      \* bound on connections lost at a commit

Jobs == 1..MaxJobs
Statuses == {"queued", "generating", "needs_review", "ready", "failed"}
Runs == Jobs \X Workers     \* one execution of process_job

ASSUME JobRunnerAssumption ==
    /\ Sims # {} /\ MaxJobs \in Nat
    /\ Loop \in Workers
    /\ BatchSize \in Nat \ {0}
    /\ SkipLocked \in BOOLEAN /\ Patient \in BOOLEAN
    /\ ReviewWhen \subseteq Statuses
    /\ MaxAborts \in Nat /\ MaxBlips \in Nat

VARIABLES simStatus, simInput,                          \* simulations
          jobStatus, jobSim, jobError, jobProgress,     \* jobs
          ckpt,          \* generation_runs rows with a ckpt: stage
          roster,        \* participants rows: [sim, p, run]
          versions,      \* simulation_versions rows
          published,     \* the versions whose published_at is set
          pc, held, run, \* of each claimer: step, job, uncommitted work
          edit,          \* of each client: the revision it is applying
          blips, aborts

simVars  == <<simStatus, simInput>>
jobVars  == <<jobStatus, jobSim, jobError, jobProgress>>
dbRest   == <<ckpt, roster, versions, published>>
workVars == <<pc, held, run>>
vars == <<simVars, jobVars, dbRest, workVars, edit, blips, aborts>>

NoInput == <<>>
NoRun == <<>>
NoEdit == <<>>

-----------------------------------------------------------------------------
(* Versions and checkpoints of a simulation.                               *)

Numbers(s) == {v.number : v \in {u \in versions : u.sim = s}}

LatestNumber(s) ==
    CHOOSE n \in Numbers(s) \union {0} : \A m \in Numbers(s) : m <= n

Latest(s) == {v \in versions : v.sim = s /\ v.number = LatestNumber(s)}

Rows(s) == {r \in ckpt : r.sim = s}

\* DbCheckpointer.hydrate keeps the first row of each node, in no set order.
Hydrations(s) ==
    LET stored == {r.node : r \in Rows(s)}
    IN {c \in [stored -> {r.content : r \in Rows(s)}] :
           \A n \in stored : [sim |-> s, node |-> n, content |-> c[n]] \in ckpt}

\* A mutant of RowsOf: the shared frame is not streamed with the first wave.
RowsOfWithoutFrame(s, dirty, cache) ==
    {[sim |-> s, node |-> n, content |-> cache[n]] : n \in dirty \ {FrameNode}}

\* The rows DbCheckpointer.flush adds for the dirty nodes of a cache.
RowsOf(s, dirty, cache) ==
    {[sim |-> s, node |-> n, content |-> cache[n]] : n \in dirty}

-----------------------------------------------------------------------------
(* Units of generation: the waves of participants, then the teams.  The    *)
(* frame nodes are built before the first wave.                            *)

Waves(i) == (i.count + BatchSize - 1) \div BatchSize

Units(i) == Waves(i) + Cardinality(Teams(i))

UnitNodes(i, u) ==
    IF u > Waves(i)
    THEN {TeamNode(u - Waves(i))}
    ELSE {ParticipantNode(p) : p \in {q \in Roster(i) :
                 (u - 1) * BatchSize < q /\ q <= u * BatchSize}}
         \union (IF u = 1 THEN {FrameNode} ELSE {})

SimOf(w) == jobSim[held[w]]

\* What this run makes of node n.  Every build is against the frame in the
\* cache: "base" is the run that drew that frame, "by" the run that built n.
Build(w, n) ==
    LET r == run[w]
        known == FrameNode \in DOMAIN r.cache
        id == <<held[w], w>>
    IN [by    |-> id,
        uses  |-> Uses(r.input, n),
        frame |-> IF known THEN r.cache[FrameNode].frame ELSE r.input.frame,
        base  |-> IF known THEN r.cache[FrameNode].base ELSE id]

Missing(w) == UnitNodes(run[w].input, run[w].unit + 1) \ DOMAIN run[w].cache

Filled(w) ==
    [n \in DOMAIN run[w].cache \union Missing(w) |->
        IF n \in Missing(w) THEN Build(w, n) ELSE run[w].cache[n]]

Pending(w) == run[w].dirty \union Missing(w)

-----------------------------------------------------------------------------
Init ==
    /\ simStatus = [s \in Sims |-> "none"]
    /\ simInput = [s \in Sims |-> NoInput]
    /\ jobStatus = [j \in Jobs |-> "none"]
    /\ jobSim = [j \in Jobs |-> CHOOSE s \in Sims : TRUE]
    /\ jobError = [j \in Jobs |-> "none"]
    /\ jobProgress = [j \in Jobs |-> 0]
    /\ ckpt = {} /\ roster = {} /\ versions = {} /\ published = {}
    /\ pc = [w \in Workers |-> "idle"]
    /\ held = [w \in Workers |-> 0]
    /\ run = [w \in Workers |-> NoRun]
    /\ edit = [c \in Clients |-> NoEdit]
    /\ blips = 0 /\ aborts = 0

(***************************************************************************)
(* Claiming.                                                               *)
(***************************************************************************)

\* A mutant of Claimable: the row lock is not taken.
ClaimableNoLock(w) == {j \in Jobs : jobStatus[j] = "queued"}

\* The queued jobs claim_job can see.  On PostgreSQL a row another session
\* has selected for its claim is locked and skipped; on SQLite nothing is.
Claimable(w) ==
    {j \in Jobs : /\ jobStatus[j] = "queued"
                  /\ SkipLocked =>
                       \A u \in Workers \ {w} : ~(pc[u] = "selected" /\ held[u] = j)}

\* claim_job reads the oldest claimable job.
SelectJob(w) ==
    /\ pc[w] = "idle"
    /\ \E j \in Claimable(w) :
          /\ \A k \in Claimable(w) : j <= k
          /\ held' = [held EXCEPT ![w] = j]
    /\ pc' = [pc EXCEPT ![w] = "selected"]
    /\ UNCHANGED <<simVars, jobVars, dbRest, run, edit, blips, aborts>>

\* job.status = "running", whatever it is by now; run_pending commits.
CommitClaim(w) ==
    /\ pc[w] = "selected"
    /\ jobStatus' = [jobStatus EXCEPT ![held[w]] = "running"]
    /\ pc' = [pc EXCEPT ![w] = "claimed"]
    /\ UNCHANGED <<simVars, jobSim, jobError, jobProgress, dbRest, held, run,
                   edit, blips, aborts>>

(***************************************************************************)
(* process_job.                                                            *)
(***************************************************************************)

\* The simulation is read once; this snapshot of its input is what the run
\* generates from, whatever happens to the row afterwards.
LoadSim(w) ==
    /\ pc[w] = "claimed"
    /\ run' = [run EXCEPT ![w] =
                 [input |-> simInput[SimOf(w)], cache |-> <<>>, dirty |-> {},
                  expired |-> FALSE, unit |-> 0, last |-> 0]]
    /\ pc' = [pc EXCEPT ![w] = "loaded"]
    /\ UNCHANGED <<simVars, jobVars, dbRest, held, edit, blips, aborts>>

\* The participant rows _persist_normalized inserts: fresh ones on every run,
\* whatever rows earlier runs have left.
Enrolled(w) ==
    {[sim |-> SimOf(w), p |-> p, run |-> <<held[w], w>>] : p \in Roster(run[w].input)}

\* Participants and contexts are inserted, the checkpoints hydrated, the
\* status "generating" committed with them.
StartRun(w) ==
    /\ pc[w] = "loaded"
    /\ simStatus' = [simStatus EXCEPT ![SimOf(w)] = "generating"]
    /\ roster' = roster \union Enrolled(w)
    /\ \E c \in Hydrations(SimOf(w)) : run' = [run EXCEPT ![w].cache = c]
    /\ pc' = [pc EXCEPT ![w] = "running"]
    /\ UNCHANGED <<simInput, jobVars, ckpt, versions, published, held, edit,
                   blips, aborts>>

Generating(w) == pc[w] = "running" /\ run[w].unit < Units(run[w].input)

\* One wave or team, then _progress: the job's progress and the dirty nodes
\* are committed in one transaction.
GenerateUnit(w) ==
    /\ Generating(w)
    /\ run' = [run EXCEPT ![w].cache = Filled(w), ![w].dirty = {}, ![w].unit = @ + 1]
    /\ ckpt' = ckpt \union RowsOf(SimOf(w), Pending(w), Filled(w))
    /\ jobProgress' = [jobProgress EXCEPT ![held[w]] = run[w].unit + 1]
    /\ UNCHANGED <<simVars, jobStatus, jobSim, jobError, roster, versions,
                   published, pc, held, edit, blips, aborts>>

\* A mutant of Restored: the dirty set stays cleared.
RestoredNothing(w) == {}

\* The nodes _progress marks dirty again after a failed transaction.
Restored(w) == Pending(w)

\* The progress transaction fails: rollback, the dirty set is restored, and
\* every object of the session expires.  The commit may have reached the
\* server before the connection was lost.
GenerateUnitBlip(w) ==
    /\ Generating(w)
    /\ blips < MaxBlips
    /\ blips' = blips + 1
    /\ run' = [run EXCEPT ![w].cache = Filled(w), ![w].dirty = Restored(w),
                          ![w].unit = @ + 1, ![w].expired = TRUE]
    /\ \/ UNCHANGED <<ckpt, jobProgress>>
       \/ /\ ckpt' = ckpt \union RowsOf(SimOf(w), Pending(w), Filled(w))
          /\ jobProgress' = [jobProgress EXCEPT ![held[w]] = run[w].unit + 1]
    /\ UNCHANGED <<simVars, jobStatus, jobSim, jobError, roster, versions,
                   published, pc, held, edit, aborts>>

\* A mutant of MarkFailed: the simulation's status is left as it was.
MarkJobFailedOnly(w, error) ==
    /\ jobStatus' = [jobStatus EXCEPT ![held[w]] = "failed"]
    /\ jobError' = [jobError EXCEPT ![held[w]] = error]
    /\ pc' = [pc EXCEPT ![w] = "idle"]
    /\ held' = [held EXCEPT ![w] = 0]
    /\ run' = [run EXCEPT ![w] = NoRun]
    /\ UNCHANGED <<simVars, jobSim, jobProgress, dbRest, edit, blips, aborts>>

\* A mutant of MarkFailed: the job is left running.
MarkSimFailedOnly(w, error) ==
    /\ simStatus' = [simStatus EXCEPT ![SimOf(w)] = "failed"]
    /\ pc' = [pc EXCEPT ![w] = "idle"]
    /\ held' = [held EXCEPT ![w] = 0]
    /\ run' = [run EXCEPT ![w] = NoRun]
    /\ UNCHANGED <<simInput, jobVars, dbRest, edit, blips, aborts>>

\* Rollback and _mark_failed; the claimer goes back to its queue.
MarkFailed(w, error) ==
    /\ jobStatus' = [jobStatus EXCEPT ![held[w]] = "failed"]
    /\ jobError' = [jobError EXCEPT ![held[w]] = error]
    /\ simStatus' = [simStatus EXCEPT ![SimOf(w)] = "failed"]
    /\ pc' = [pc EXCEPT ![w] = "idle"]
    /\ held' = [held EXCEPT ![w] = 0]
    /\ run' = [run EXCEPT ![w] = NoRun]
    /\ UNCHANGED <<simInput, jobSim, jobProgress, dbRest, edit, blips, aborts>>

\* An exception of the engine or of the database inside the try block.
RunFails(w) ==
    /\ pc[w] \in {"loaded", "running", "writing"}
    /\ MarkFailed(w, "engine")

Generated(w) == pc[w] = "running" /\ run[w].unit = Units(run[w].input)

\* sim.id of an expired object: the attribute cannot be loaded from async
\* code, and the exception fails the job.
ExpiredFails(w) ==
    /\ Generated(w)
    /\ run[w].expired
    /\ MarkFailed(w, "expired")

\* The rest of the nodes is flushed, uncommitted, and max(version) is read.
ReadLatest(w) ==
    /\ Generated(w)
    /\ ~run[w].expired
    /\ run' = [run EXCEPT ![w].last = LatestNumber(SimOf(w))]
    /\ pc' = [pc EXCEPT ![w] = "writing"]
    /\ UNCHANGED <<simVars, jobVars, dbRest, held, edit, blips, aborts>>

\* A mutant of NewVersion: the number is the one last read.
NewVersionSameNumber(w, flagged) ==
    LET r == run[w]
    IN [sim |-> SimOf(w), number |-> r.last, input |-> r.input,
        content |-> [n \in Nodes(r.input) |-> r.cache[n]], flagged |-> flagged]

\* The row a run writes; assemble takes the nodes of the run's own input.
NewVersion(w, flagged) ==
    LET r == run[w]
    IN [sim |-> SimOf(w), number |-> r.last + 1, input |-> r.input,
        content |-> [n \in Nodes(r.input) |-> r.cache[n]], flagged |-> flagged]

\* The version, its decision records and both statuses, in one transaction.
Deliver(w) ==
    /\ pc[w] = "writing"
    /\ \E flagged \in BOOLEAN :
          /\ versions' = versions \union {NewVersion(w, flagged)}
          /\ published' = published \union (IF flagged THEN {} ELSE {NewVersion(w, FALSE)})
          /\ simStatus' = [simStatus EXCEPT ![SimOf(w)] =
                              IF flagged THEN "needs_review" ELSE "ready"]
    /\ ckpt' = ckpt \union RowsOf(SimOf(w), run[w].dirty, run[w].cache)
    /\ jobStatus' = [jobStatus EXCEPT ![held[w]] = "completed"]
    /\ run' = [run EXCEPT ![w] = NoRun]
    /\ UNCHANGED <<simInput, jobSim, jobError, jobProgress, roster, edit, aborts>>

CommitVersion(w) ==
    /\ Deliver(w)
    /\ pc' = [pc EXCEPT ![w] = "idle"]
    /\ held' = [held EXCEPT ![w] = 0]
    /\ UNCHANGED blips

\* The commit reaches the server and the connection is lost before its answer:
\* the run is delivered, and the claimer is in the except branch.
CommitVersionBlip(w) ==
    /\ blips < MaxBlips
    /\ Deliver(w)
    /\ blips' = blips + 1
    /\ pc' = [pc EXCEPT ![w] = "failing"]
    /\ UNCHANGED held

\* _mark_failed after such a commit: job and simulation are read again and set
\* to "failed", whatever they say.
UnheardFails(w) ==
    /\ pc[w] = "failing"
    /\ MarkFailed(w, "engine")

\* A claimer has delivered to simulation s without having heard of it.
Unheard(s) == \E w \in Workers : pc[w] = "failing" /\ SimOf(w) = s

\* The process dies, the loop's task is cancelled, or an exception escapes
\* outside the try block: the open transaction is lost, nothing else happens.
Abort(w) ==
    /\ pc[w] # "idle"
    /\ aborts < MaxAborts
    /\ aborts' = aborts + 1
    /\ pc' = [pc EXCEPT ![w] = "idle"]
    /\ held' = [held EXCEPT ![w] = 0]
    /\ run' = [run EXCEPT ![w] = NoRun]
    /\ UNCHANGED <<simVars, jobVars, dbRest, edit, blips>>

(***************************************************************************)
(* The facilitator's requests.                                             *)
(***************************************************************************)

\* Jobs are numbered in the order of created_at.
NextJob == {j \in Jobs : jobStatus[j] = "none" /\ \A k \in Jobs : k < j => jobStatus[k] # "none"}

QueueJob(s) ==
    \E j \in NextJob : /\ jobStatus' = [jobStatus EXCEPT ![j] = "queued"]
                       /\ jobSim' = [jobSim EXCEPT ![j] = s]

\* create_simulation without an idempotency key.
Create(s, i) ==
    /\ simStatus[s] = "none"
    /\ simStatus' = [simStatus EXCEPT ![s] = "queued"]
    /\ simInput' = [simInput EXCEPT ![s] = i]
    /\ QueueJob(s)
    /\ UNCHANGED <<jobError, jobProgress, dbRest, workVars, edit, blips, aborts>>

\* A mutant of Revisable: the guard forgets the queued status.
RevisableWhenQueued(s) == simStatus[s] \notin {"none", "generating"}

\* The guard of revise_simulation.
Revisable(s) == simStatus[s] \notin {"none", "queued", "generating"}

\* revise_simulation reads the simulation, passes its guard and computes the
\* scope of the revision ...
ReviseRead(c, s, i) ==
    /\ edit[c] = NoEdit
    /\ Revisable(s)
    /\ Patient => ~Unheard(s)
    /\ edit' = [edit EXCEPT ![c] =
                  [sim |-> s, input |-> i, full |-> FullScope(simInput[s], i),
                   stale |-> StaleNodes(simInput[s], i)]]
    /\ UNCHANGED <<simVars, jobVars, dbRest, workVars, blips, aborts>>

\* A mutant of Deleted: the teams of a changed participant are left alone.
DeletedWithoutTeams(e) ==
    {r \in Rows(e.sim) :
        e.full \/ r.node \in e.stale \ {TeamNode(k) : k \in Teams(e.input)}}

\* The checkpoint rows a revision deletes.
Deleted(e) == {r \in Rows(e.sim) : e.full \/ r.node \in e.stale}

\* ... and commits the deletions, the new input and the new job.
ReviseCommit(c) ==
    /\ edit[c] # NoEdit
    /\ LET e == edit[c]
       IN /\ ckpt' = ckpt \ Deleted(e)
          /\ simInput' = [simInput EXCEPT ![e.sim] = e.input]
          /\ simStatus' = [simStatus EXCEPT ![e.sim] = "queued"]
          /\ QueueJob(e.sim)
    /\ edit' = [edit EXCEPT ![c] = NoEdit]
    /\ UNCHANGED <<jobError, jobProgress, roster, versions, published, workVars,
                   blips, aborts>>

\* record_review with "approve": no status is refused; ReviewWhen says in
\* which ones the reviewers' page offers the button.
Approve(s) ==
    /\ simStatus[s] \in ReviewWhen
    /\ simStatus' = [simStatus EXCEPT ![s] = "ready"]
    /\ \/ Latest(s) = {} /\ UNCHANGED published
       \/ \E v \in Latest(s) : published' = published \union {v}
    /\ UNCHANGED <<simInput, jobVars, ckpt, roster, versions, workVars, edit,
                   blips, aborts>>

-----------------------------------------------------------------------------
Advance(w) ==
    \/ CommitClaim(w) \/ LoadSim(w) \/ StartRun(w) \/ GenerateUnit(w)
    \/ ExpiredFails(w) \/ ReadLatest(w) \/ CommitVersion(w) \/ UnheardFails(w)

WorkerNext ==
    \E w \in Workers : SelectJob(w) \/ Advance(w) \/ GenerateUnitBlip(w)
                       \/ CommitVersionBlip(w) \/ RunFails(w) \/ Abort(w)

Next ==
    \/ WorkerNext
    \/ \E s \in Sims, i \in Inputs : Create(s, i)
    \/ \E c \in Clients, s \in Sims, i \in Inputs : ReviseRead(c, s, i)
    \/ \E c \in Clients : ReviseCommit(c)
    \/ \E s \in Sims : Approve(s)

Spec == Init /\ [][Next]_vars

\* worker_loop polls forever and a claimer that is not cut off goes on; no
\* facilitator has to act, and no POST /run request has to arrive.
Fairness == WF_vars(SelectJob(Loop)) /\ \A w \in Workers : WF_vars(Advance(w))

FairSpec == Spec /\ Fairness

-----------------------------------------------------------------------------
(***************************************************************************)
(* Properties.                                                             *)
(***************************************************************************)

ContentLike(c) == c.by \in Runs /\ c.base \in Runs /\ c.frame \in Frames

CacheLike(c) == c = [n \in DOMAIN c |-> c[n]] /\ \A n \in DOMAIN c : ContentLike(c[n])

RunLike(r) ==
    /\ r \in [input : Inputs, cache : {r.cache}, dirty : SUBSET DOMAIN r.cache,
              expired : BOOLEAN, unit : Nat, last : Nat]
    /\ CacheLike(r.cache)

EditLike(e) ==
    e \in [sim : Sims, input : Inputs, full : BOOLEAN, stale : {e.stale}]

SimTypes ==
    /\ simStatus \in [Sims -> Statuses \union {"none"}]
    /\ simInput \in [Sims -> Inputs \union {NoInput}]
    /\ \A s \in Sims : simStatus[s] # "none" => simInput[s] \in Inputs

JobTypes ==
    /\ jobStatus \in [Jobs -> {"none", "queued", "running", "completed", "failed"}]
    /\ jobSim \in [Jobs -> Sims]
    /\ jobError \in [Jobs -> {"none", "engine", "expired"}]
    /\ jobProgress \in [Jobs -> Nat]
    /\ \A j \in Jobs : jobStatus[j] # "none" => simStatus[jobSim[j]] # "none"

RowTypes ==
    /\ \A r \in ckpt : r.sim \in Sims /\ ContentLike(r.content)
    /\ \A r \in roster : r.sim \in Sims /\ r.p \in Nat /\ r.run \in Runs
    /\ \A v \in versions : v.sim \in Sims /\ v.number \in Nat \ {0} /\ v.input \in Inputs
    /\ published \subseteq versions

WorkerTypes ==
    /\ pc \in [Workers -> {"idle", "selected", "claimed", "loaded", "running", "writing",
                          "failing"}]
    /\ held \in [Workers -> Jobs \union {0}]
    /\ run = [w \in Workers |-> run[w]]
    /\ \A w \in Workers :
          /\ pc[w] # "idle" => held[w] \in Jobs /\ jobStatus[held[w]] # "none"
          /\ pc[w] \in {"loaded", "running", "writing"} => RunLike(run[w])

EditTypes ==
    /\ edit = [c \in Clients |-> edit[c]]
    /\ \A c \in Clients : edit[c] # NoEdit =>
          EditLike(edit[c]) /\ simStatus[edit[c].sim] # "none"

\* Every variable has its type; a job belongs to a simulation that has an
\* input, and a claimer that is not idle holds a job that exists.
TypeOK ==
    /\ SimTypes /\ JobTypes /\ RowTypes /\ WorkerTypes /\ EditTypes
    /\ blips \in Nat /\ aborts \in Nat

\* Two claimers never work on the same job at the same time: "multiple
\* workers never grab the same job" (runner.py:3-5).
ClaimExclusive ==
    \A u, w \in Workers : u # w /\ pc[u] # "idle" /\ pc[w] # "idle" => held[u] # held[w]

\* A failed job stays failed, and a completed one completed: no claimer that
\* read it earlier brings it back to "running" or reports a second outcome.
\* The exception is the claimer that completed it and has not heard so: it
\* writes "failed" over its own "completed" (runner.py:276-279).
OutcomesAreFinal ==
    [][\A j \in Jobs :
          /\ jobStatus[j] = "failed" => jobStatus'[j] = "failed"
          /\ jobStatus[j] = "completed" =>
                \/ jobStatus'[j] = "completed"
                \/ /\ jobStatus'[j] = "failed"
                   /\ \E w \in Workers : pc[w] = "failing" /\ held[w] = j]_vars

OpenJobs(s) == {j \in Jobs : jobSim[j] = s /\ jobStatus[j] \in {"queued", "running"}}

\* A simulation has at most one job that is queued or running, which is what
\* revise_simulation's guard on the simulation's status is there for.
OneOpenJob == \A s \in Sims : \A j, k \in OpenJobs(s) : j = k

\* The status of a simulation tells the truth about its job and its latest
\* version: while it says queued or generating a job is open, "ready" means
\* the latest version is published, "needs_review" that it is not.
StatusTellsTruth ==
    \A s \in Sims :
       /\ simStatus[s] \in {"queued", "generating"} => OpenJobs(s) # {}
       /\ simStatus[s] = "ready" => Latest(s) # {} /\ Latest(s) \subseteq published
       /\ simStatus[s] = "needs_review" => Latest(s) # {} /\ Latest(s) \intersect published = {}

\* A version is written from the input the simulation has at that moment: the
\* snapshot the run took at its start has not been revised underneath it.
VersionsAreCurrent ==
    [][\A v \in versions' \ versions : v.input = simInput[v.sim]]_vars

\* Every node of a version was made from what the version's own input gives
\* it: a checkpoint reused by a revision is reused only where the contexts of
\* all its participants, and the frame, are unchanged.
VersionsAreFresh ==
    \A v \in versions : \A n \in Nodes(v.input) :
       v.content[n].uses = Uses(v.input, n) /\ v.content[n].frame = v.input.frame

\* All nodes of a version were built against one and the same frame (bible,
\* priorities, teaching frame), over any number of failures, cut-off runs and
\* partial revisions: "so all builds stay consistent with the same facts"
\* (orchestrator.py:272-273).
OneFrame ==
    \A v \in versions : \A n \in Nodes(v.input) : v.content[n].base = v.content[FrameNode].by

\* Progress shown for a running job is durable: the nodes of every unit it
\* counts have their checkpoint rows, so a later run resumes after them.
ProgressIsDurable ==
    \A j \in Jobs : jobStatus[j] = "running" =>
       \A u \in 1..jobProgress[j] : \A n \in UnitNodes(simInput[jobSim[j]], u) :
          \E r \in ckpt : r.sim = jobSim[j] /\ r.node = n

\* No run is failed by a blip of the progress transaction: "a keepalive blip
\* on hosted Postgres must never kill a long generation" (runner.py:208-211).
BlipsAreHarmless == \A j \in Jobs : jobError[j] # "expired"

\* Every queued or running job ends, completed or failed.
JobsEnd ==
    \A j \in Jobs : jobStatus[j] \in {"queued", "running"}
                      ~> jobStatus[j] \in {"completed", "failed"}

\* The lifecycle a facilitator is promised is implemented: the status of each
\* simulation, the number of its latest version and whether that is published
\* move as SimulationLifecycle says, a delivery taken back only by a claimer
\* that has not heard of it.
Promise == INSTANCE SimulationLifecycle WITH
              phase <- simStatus,
              latest <- [s \in Sims |-> LatestNumber(s)],
              live <- [s \in Sims |-> Latest(s) # {} /\ Latest(s) \subseteq published],
              unheard <- [s \in Sims |-> Unheard(s)]

KeepsPromise == Promise!LSpec
=============================================================================
