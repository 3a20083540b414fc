# Simulation Generator: TLA+ models, model checking and proofs

This directory is a verification project for the Simulation Generator: a FastAPI
service that takes an authored input (an industry, a scenario, roles, settings),
generates a multi-participant decision simulation from it with a language model,
has it reviewed, and then serves it to participants who allocate points to the
options of each decision and are scored. The models follow the Python source under `src/app`;
where a line of the frontend decides which requests arrive, that line is cited.

1. [The system](#1-the-system)
2. [The modules](#2-the-modules)
3. [What the runs check](#3-what-the-runs-check)
4. [What is proved](#4-what-is-proved)
5. [Findings](#5-findings)
6. [What is left out, and why](#6-what-is-left-out-and-why)
7. [Plan](#7-plan)

## 1. The system

### Components

| Component | Where | State it keeps | Operations |
|---|---|---|---|
| Job runner | `jobs/runner.py`, `jobs/checkpointer.py` | `jobs`, `generation_runs`, `participants`, `teams`, `simulation_versions`, `decision_records` rows; one open session per run | `claim_job`, `process_job`, `_mark_failed`, `run_pending`, `worker_loop` |
| Lifecycle service | `services/generation_service.py` | `simulations` (status, input), `jobs`, `audit_log` | `create_simulation`, `revise_simulation`, `record_review`, `update_content`, image operations, the read-only queries |
| Intake | `pipeline/normalize.py`, `schemas/input.py` | none | `normalize`: the roster, the role dealt to each participant, the teams |
| Generation graph | `pipeline/orchestrator.py`, `pipeline/assemble.py` | the checkpoint cache of a run | `generate`: Tier 1, waves of participants, teams, assembly and rotation |
| Decision forge | `pipeline/decisions.py`, `critic.py`, `reduce.py` | none | forge, critique, revise at most a fixed number of times, flag |
| LLM calls | `llm/call.py` and the providers | a process-wide semaphore | `parse_call` with retries and backoff, `AnthropicProvider.parse` |
| Sessions | `services/session_service.py`, `api/runtime.py` | `sessions`, `allocations` | start, render a round, submit, reflect |
| Reflection and scoring | `services/reflection_service.py`, `scoring_service.py`, `scoring/` | `group_analytics` rows | the Reflection Board, the posture fingerprint, group reconciliation |
| Images | `services/generation_service.py`, `cloudinary_service.py` | `simulation_images` rows and assets at Cloudinary | upload, replace, delete |
| HTTP edge | `main.py`, `auth.py`, `api/` | the rate limiter's table; `tenants` and `users` | the limiter, registration, login, tokens, routes, `POST /simulations/{id}/run` |
| Frontend | `frontend/src` | page state | polls, offers the review buttons, submits allocations |

### How they interact

All components share one relational database and nothing else: the API and the
background `worker_loop` hold separate sessions and see each other's work when
it is committed. A facilitator's `POST /simulations` writes a simulation and a
queued job. The `worker_loop` polls for queued jobs; `POST
/simulations/{id}/run` calls the same `run_pending` inside a request, so two
claimers exist even in a deployment with one process. `process_job` reads the
simulation's input once, inserts participants, commits `generating`, then
generates for minutes while facilitators may send more requests; after every
wave of participants and after every team it commits the progress and the new
checkpoints in one transaction; at the end it writes the version, the decision
records and both statuses in another. A revision deletes the checkpoints its
difference makes stale and queues the next job; the next run hydrates whatever
checkpoints are left and generates the rest.

### What is hard

- Claiming is a read followed by an unconditional write of the row
  (`runner.py:46-56`); only the row lock of PostgreSQL keeps claimers apart.
- `process_job` works from values read minutes earlier; version numbers,
  guards on statuses and scopes of revisions are all read-then-write.
- A run may be cut off between any two commits; a progress transaction may fail
  before or after it reached the server; both leave checkpoints that a later
  run mixes with its own nodes. The final commit too may take effect and still raise,
  and `_mark_failed` then writes over what it wrote.
- Checkpoint reuse after a revision is decided by comparing inputs, but what a
  node was built from also includes the other members of a team and the shared frame.
- Sessions and teams refer to participant rows by identity, and every run
  inserts a new set of them.
- Decision objects are shared: by the members of a team, and their lists of
  options by the decisions that pad a board. Decoding a checkpoint ends the sharing.
- An image is two things in two systems that share no transaction; addresses,
  idempotency keys and image names are all looked up before they are inserted.
- Pages poll without waiting for the last answer, so answers overtake one another.

### What would make each component correct

- Job runner: a job is worked on by one claimer; its outcome is final; every
  job ends; a version is written from the input the simulation then has;
  versions are numbered without gaps or doubles; progress shown is durable.
- Lifecycle: at most one open job per simulation; the status tells the truth
  about that job and about the publication of the latest version.
- Intake and reuse: a node a revision keeps was made from exactly what the new
  input would give it, and all nodes of a version were built against one frame.
- Sessions: one allocation set per decision, against the decision that was shown.
- Group analytics: every member's session is found, each decision counted once.
- Pipeline: a failure of one build never leaves half a node; the rotation of
  options is applied exactly once per participant.
- LLM calls: retries are bounded and the semaphore never deadlocks; what a call
  returns satisfies what later code takes for granted of it.
- Images: an image that is listed can be shown; nothing is left at Cloudinary without a cause.
- HTTP edge: the limiter lets exactly the first requests of a minute through;
  one account per address; a repeated creation finds what the first one made.
- Reflection: the lines of a board agree with one another, and there is one
  archetype for every pattern it can show.
- Pages: what a page shows of a generation belongs together and comes to its end.

The hazards, each at the line where it bites, are listed in `PROJECT.json`.

## 2. The modules

| Module | Models | Notes |
|---|---|---|
| `Intake` | `normalize` (roster, deal, teams), `_diff_scope`, the scope of `revise_simulation` | operators only |
| `SimulationLifecycle` | nothing in the code: what a facilitator is promised | abstract specification |
| `JobRunner` | `runner.py`, `checkpointer.py`, create / revise / review, the wave loop of the orchestrator | extends `Intake`, refines `SimulationLifecycle` |
| `WaveStream` | nothing in the code: what the runner takes a generation for | abstract specification |
| `Generation` | one simulation's runs inside a process: `generate_with_audit`, `guarded`, `build_participant`, `build_team`, `build_decisions`, `parse_call` | the steps inside what `JobRunner` takes as one wave; refines `WaveStream` |
| `Content` | the document of a version and its decision rows: runs, the editing page, `update_content` | |
| `Runtime` | sessions, rendering, submissions, the board's totals | extends `Content` |
| `GroupRoom` | `compute_and_store_group_analytics`, `compute_group_analytics`, the participant rows of several runs | |
| `Assembly` | `reduce`, `assemble`, `shuffle_positions`, `decode`, the padding of the forge, the safety gate, `_reports_index` | extends `Intake` |
| `ModelCall` | one structured call: `parse_call` over `AnthropicProvider.parse` and the validators | |
| `Reflection` | archetypes and options as they come from the model, `build_reflection_board`, `dominant_keys`, `score` | extends `ModelCall` |
| `Console` | the polling settings page and `get_status` | extends, and runs beside, `JobRunner` |
| `RateLimiter`, `Requests`, `Accounts`, `Creation`, `Images` | the limiter; tokens; registration and login; `create_simulation` with a key; images | one part of the edge each |
| `Edge` | what happens to a request: the limiter, its tenant, the steps of its handler; restarts | composes the five above |
| `MCJobRunner`, `MCRuntime`, `MCGroupRoom`, `MCAssembly`, `MCReflection`, `MCConsole`, `MCEdge` | finite instances | `MCJobRunner` also evaluates the reuse lemma on small inputs, `MCGroupRoom` that `_tv` is the total variation distance |
| `JobRunnerProofs`, `GenerationProofs`, `AssemblyProofs`, `RuntimeProofs`, `GroupRoomProofs`, `ReflectionProofs`, `EdgeProofs` | the theorems | TLAPS; `JobRunnerProofs` has those of `Intake` and `Console` too, `RuntimeProofs` those of `Content` |
| `SumTheorems` | no code: sums over finite sets, ranks, integer arithmetic | lemmas for `GroupRoomProofs` and `ReflectionProofs` |

### JobRunner and the code

The database variables are `simStatus`, `simInput` (simulations), `jobStatus`,
`jobSim`, `jobError`, `jobProgress` (jobs), `ckpt` (the rows of
`generation_runs` whose stage begins with `ckpt:`), `roster` (participants),
`versions` and `published`. A claimer's Python state is `pc` (which commit it
is before), `held` (its job) and `run` (the input it read, its checkpoint
cache, the nodes not yet flushed, whether its ORM objects have expired, the
wave it is at, and the version number it read). Work that a session has flushed
but not committed is in `run`, so it becomes visible to others in one step, at
the commit.

| Action | Code |
|---|---|
| `SelectJob`, `CommitClaim` | `claim_job`'s select and its update, committed by `run_pending` |
| `LoadSim` | `process_job` reads the simulation, normalises its input |
| `StartRun` | participants inserted, checkpoints hydrated, `generating` committed |
| `GenerateUnit`, `GenerateUnitBlip` | one wave or one team and `_progress`; the progress transaction failing |
| `ReadLatest`, `CommitVersion` | `max(version)` read; version, decision records, both statuses committed |
| `CommitVersionBlip`, `UnheardFails` | the final commit arrives and its answer does not (`runner.py:276`); `_mark_failed` then writes over "completed" and the simulation's status |
| `ExpiredFails`, `RunFails` | an exception, rollback, `_mark_failed` |
| `Abort` | process killed, loop cancelled, an exception outside the `try` |
| `Create`, `ReviseRead`, `ReviseCommit`, `Approve` | the facilitator's requests, at their read and their commit |

Abstractions that matter when a property is read:

- An input is `frame` (everything in `_FULL_REGEN_FIELDS`), the pool of roles,
  the number of participants, the team size and the number of team names of
  one group round. Content is never text: a checkpointed node records which run
  built it, from which contexts, under which frame and against which run's frame node.
- The Tier-1 nodes (`bible`, `common`, `reflection_spec`, `type_set`,
  `archetypes`, `focus:…`) are one node, `FrameNode`. They depend on the frame
  only and reach the database in the transaction of the first wave.
- Jobs are numbered in the order of `created_at`.
- A wave is all or nothing in the database: `_progress` is called after the
  whole wave. If `gather` raises, the run fails and what the wave built is lost.
- A review that is not an approval changes no status and is not an action.
- `ReviewWhen` says in which statuses an approval can arrive. The API accepts
  it in all; the page shows the buttons for `needs_review` only
  (`frontend/src/pages/detail/DetailsSettings.tsx:268`). The passing runs use
  that; the API alone (a stale page, another client) is described under [Findings](#5-findings).
- `Patient` says that nobody revises a simulation in the moment between a final commit that
  was not heard of and the `_mark_failed` that follows it. The passing runs have such commits,
  and are patient; *Unheard commits* in [Findings](#5-findings) says what else may happen.
- The audit rows, the progress texts and the images are left out.

### Generation and the code

A task is `<<run, i>>`: the main coroutine (`i = 0`) or a build. `task` holds
the stage a coroutine is at, its call and attempt, and the decisions it has
settled; `cache` is the checkpointer of a run, `rows` what it has flushed.

| Action | Code |
|---|---|
| `Acquire`, `BackOff`, `Retry`, `Raise` | `parse_call`: the process-wide semaphore, held over attempts and pauses |
| `StartRun`, `Foundation`, `ResolveFocus` | `process_job` hydrates; Tier 1; the focuses of every round before the fan-out |
| `Gather`, `Enter` | `asyncio.gather` over a wave; `guarded` with the run's own semaphore |
| `Opened`, `ResolveFocus`, `Forged`, `Judged`, `Revised`, `Closed` | a build from call to call |
| `UnitDone`, `UnitRaises` | the wave returns and is streamed; the first failure leaves `gather`, its siblings run on |
| `Audited` | the auditor, at most twice, the safety gate and the review flag |

Engine version 2 with derived focuses, one individual and one group round.
`ResolveFocus` is a build's step only where its focus has no checkpoint; the
derivation before the fan-out makes sure that none lacks one, so in `fanout`
only the main coroutine takes it, and `BoardsAreComparable` fails when that
derivation is taken away. `KeepsStream` maps all of this to `WaveStream`: its `phase` is the
stage of the latest run's main coroutine, `passed` the waves and teams that run has behind it, `stored`
the builds in `rows`; `StartRun` is `Begin`, `UnitDone` is `Commit`, a main coroutine that
raises is `Fail`, one that completes `Finish`, and everything else stutters. A failing progress transaction is `JobRunner`'s
subject and left out here; there is one simulation, and
the runs of others would only take slots.

### Content and Runtime and the code

A board is the order of a decision's options, each named by its posture, and a
value for its texts. `content` is `sim_data_jsonb`, `records` the `decisions` rows.

| Action | Code |
|---|---|
| `Generate` | a run's version and `_persist_decisions` |
| `LoadPage`, `Reword` | the editing page: it loads the latest document and changes texts |
| `SaveRead`, `SaveCommit` | `update_content`: latest version and rows read; document and rows committed |
| `CreateSession`, `RenderSession` | `create_session`, `render_session` with `shuffle_options` |
| `Send`, `LoseAnswer`, `ReadBoard` | the participant's page |
| `Resolve`, `Replace` | `submit_allocation` up to its `DELETE`, and the `INSERT` behind it, decision by decision |
| `Commit`, `Fail` | the request's commit, or its rollback |

- `SaveRead` reads version and rows in one step; SQLAlchemy writes only the
  attributes whose value differs from the one read, and so does `SyncedRows`.
- Statements see what was committed when they began (READ COMMITTED). On
  SQLite (`Serial`) the first `DELETE` holds the only write lock to the end.
- The page sends all decisions it shows, and keeps units by decision number;
  other clients may send sums other than 100, which the schema refuses.
- `Overlap` says whether a page can submit again while the server is still at
  work on the last submission (the answer was lost on the way).

### GroupRoom and the code

`Enrol` is `_persist_normalized`: every run inserts its own participants and
teams, so a participant row is `<<ref, run>>`. `OpenSession` takes any row with
the ref, since `create_session` takes the first one without an order. `Submit`,
`Reconcile` (up to its `DELETE`), `Store` (the commit), `ReconcileFails` and `LoadSaved` are the
requests; the page may make the last four whatever it shows, except while it is busy. Shares are units
out of 100; a mean is stored in ten-thousandths, rounded (`Rounded`, `group.py:63, 72`), and at a
tie to either neighbour, since which one depends on the binary fraction. The anchor and the
biggest mover are chosen before rounding, as in the code. A reconcile reads the
sessions in one step. `posture_diversity`, a mean of the stored dispersions, is left out.

### Assembly and the code

`cache` is what the checkpointer of a run holds, `rows` what is stored, and
`document` the latest version with a flag for each decision row. A build is
described by who holds its boards, how many decisions the forge answered, which
are marked `[REVIEW]`, whether it was decoded, and whether it has PII: in no text, in one that
`_iter_round_texts` reads, or in one that it does not (`your_data`, the labels of options). What a
team is told of its situation is read with each member's copy of it; the texts of
the frame (common data, archetypes, the specification of the board) are no builds and left out.

| Definition | Code |
|---|---|
| `BuildNode`, `StartRun` / `Decoded` | a build with its checkpoint; hydrating, `checkpoint_codec.decode` |
| `Forged`, `Source` | one decision per dimension, short answers padded with copies (`decisions.py:121-125`) |
| `Results`, `Places`, `Reduce` | `_results_from_cache`, `assemble`, `reduce`: who has which decisions in the document |
| `Object`, `Options`, `Visited`, `Affects`, `Turn` | `shuffle_positions`: which objects and lists a place shares, and how often it is turned |
| `Leaks`, `Reported`, `Entry` | the safety gate, `_reports_index`, the rows of `_persist_decisions` |
| `Revise`, `RunFails` | `revise_simulation` with its scope; a run that ends with its checkpoints only |

The order of options is the position of the first one, which is all a rotation
changes. Inputs are `Aligned` (no team loses a member): the scope of other
revisions is a [finding of its own](#5-findings). Waves are of one participant.

### ModelCall, Reflection and the code

`call` is the call under way. A reply is what a request may come to: a timeout,
a status, a refusal, an answer that was cut off, or a value, which may break a validator.

| Definition | Code |
|---|---|
| `StatusOf`, `Raised`, `Transient` | what `AnthropicProvider.parse` raises and `_is_transient` |
| `Ask`, `Receive`, `Resume`, `Returns` | the loop of `parse_call` |
| `AskArchetypes`, `TakeArchetypes`, `WellFormed`, `Covers` | `build_archetypes` and `covers_all_patterns` |
| `AskOptions`, `TakeOptions`, `OnePerPosture` | `_forge_call` and `one_per_posture` |
| `Submit` | an allocation; it names a decision by its number alone |
| `Score`, `Lean`, `Dominant`, `Found` | `build_reflection_board`, `dominant_keys`, the archetype that is looked up |
| `DimensionOf`, `Apart`, `Variation`, `ProfilesApart`, `CoupleApart`, `Sensitivity`, `Decided` | `scoring.engine.score` |

### Console and the code

`Statement(1, ...)` and `Statement(2, ...)` are the statements of `get_status`
that read the simulation and its latest version; `Refresh`, `Interval`,
`Receive` and `Lose` are the page's `refresh`, its timer, `setStatus` and a
question that fails. `Asks` is the condition under which the interval is set
(`DetailsSettings.tsx:97-106`). All of `JobRunner` runs beside the page.

### Edge and the code

Calls are numbered in the order of arrival. `Arrive` is one dispatch of the
limiter with the first statement of the handler behind it; `Work` is any later
statement, so handlers interleave at every statement. Rows are named after the
call that inserted them. `Cut...` ends a call between two statements (an
exception, a cancelled request), with a commit that may have arrived; `Restart` ends all of them.
Creations may overlap; `raced` is history: the keys that two calls were about to insert at once.

| Definition | Code |
|---|---|
| `Count`, `Dispatch`, `Admit`, `Refuse` | `RateLimitMiddleware.dispatch`, which awaits nothing between reading and writing its table |
| `Token`, `Accepted`, `Own` | `create_access_token`, `decode_access_token`, `tenant_id`, `get_simulation` |
| `CheckEmail`, `Taken`, `CommitUser`, `Login` | `register` and `login`; `users.email` is unique |
| `CheckKey`, `CommitSim` | `create_simulation`: the key looked up; simulation and job committed |
| `StartAdd`, `Upload`, `ReadRow`, `CommitAdd`, `Destroy` | `add_simulation_image` from the upload to the clean-up |
| `StartDelete`, `ReadRow`, `CommitDelete`, `Destroy` | `delete_simulation_image` |

The limiter's minutes, the token's lifetime and the handlers share one clock.
`X-Tenant-Id` is honoured in development only and left out.

## 3. What the runs check

`CHECK_DEADLOCK FALSE` in every configuration: the system rests when no job is
open and nobody sends a request, and a bounded model does too. What must not
stop is stated as liveness (`JobsEnd`, `RunsEnd`).

| Run | Shows | Bounds |
|---|---|---|
| `claims` | two claimers and a facilitator on two simulations: `TypeOK`, `ClaimExclusive`, `OneOpenJob`, `StatusTellsTruth`, `OutcomesAreFinal`, `VersionsAreCurrent`, and that `JobRunner` implements `SimulationLifecycle` (`KeepsPromise`) | 2 simulations, 3 jobs, 2 claimers, 1 cut-off, 1 final commit unheard; claimers, simulations and roles are symmetric (`ClaimSymmetry`) |
| `revisions` | reuse of checkpoints over three runs: `VersionsAreFresh`, `OneFrame`, `ProgressIsDurable` | 4 inputs (a role replaced, another frame, one participant more), 3 jobs, 1 cut-off, 1 failed transaction |
| `liveness` | `JobsEnd` under fairness, no cut-off | 2 jobs, 2 claimers, 4 inputs, 1 failed transaction |
| `console` | a page beside the runner: `PageIsCoherent`, `PageSettles` | 1 simulation, 2 jobs, 1 claimer, 2 questions under way, 1 lost |
| `fanout` | a run that fails and the one that resumes it: `BoardsAreComparable`, `WavesAreWhole`, `ReviewIsAsked`, `NothingTwice`, that `Generation` implements `WaveStream` (`KeepsStream`), `RunsEnd` | 2 participants in one wave, 1 team, 2 slots, 2 attempts, 1 revision, boards of 2 decisions, 2 runs, 1 failed call or gate |
| `document` | `DocumentIsWhole`, `OrderFollowsSeed`, `TeamsShareOneBoard`, `FlagsReachRows` | 3 inputs (a role replaced and one participant more; another frame), 2 individual rounds and a group round, boards of 2, 2 seeds, 3 runs, 1 build with a short answer, a mark or PII in a text of either kind |
| `board` | `PatternHasArchetype`, `BoardIsCoherent`, `FingerprintIsCoherent` | 4 kinds of common data, 5 sets of archetypes and 5 of options a model may answer, 4 failures, 5 attempts, rounds of 2 and 3 decisions, of which one shares its dimension with another and one changes its dimension from round to round, 5 splits |
| `sessions` | content and sessions on PostgreSQL: `RecordsMatchContent`, `SubmissionsAreWhole`, `StoredAsShown`, `BoardTellsSubmission` | 2 versions, 1 editor with 1 save, 1 session, 2 submissions, 2 decisions and one of a group round |
| `reconcile` | `AnchorIsNotMover`, `SpreadNeedsMovement`, of the numbers that are stored | 3 members, 3 sessions, 1 run, 2 splits, 2 schemes of postures, 2 reconciles |
| `edge` | `FirstOnesPass`, `RowsHaveAssets`, `OrphansHaveCause`, `AccountsAreWhole`, `RepeatsAgree` | 3 calls, overlapping in any way, 2 clients, a limit of 2, 2 minutes, 1 restart, 2 addresses, 1 key, 1 image name in each simulation |
| `blip`, `crash` | one finding each, see [Findings](#5-findings) | the smallest instance that shows it |

Why the bounds are enough. Two claimers are all a claim conflict needs, and
two simulations are needed so that the older job being locked makes the second
claimer take the younger one. Three jobs let one simulation be created,
revised, and revised again while another is at work; the second revision is the
first that can reuse nodes of two different runs. The four inputs cover both
branches of `_diff_scope` and all its sources of stale nodes: changed
participant, new participant, changed team, new team. One cut-off and one blip
may fall before, between and after every commit, in every run.

In `fanout` two builds are the least that can race for a focus, two slots let
them, and with two runs the build that outlives the first one holds a slot the
second one wants. A second decision on a board makes the judging loop turn. In
`sessions` the second submission replaces the first, with or without an answer to it, while an
edit and a new version arrive; three members are the least for which mean
distances of pairs and of members can disagree.

In `document` the third run is the first that can hold boards it built itself
beside boards of two earlier ones; two individual rounds give a number twice, and
the third participant opens a team that a later input does not have. In `board` the
shares 0, 25, 50 and 100 make every tie, an all-on-one session and an even one.
In `console` two questions are the least that can overtake one another, and the
second job makes a terminal status one of the past. In `edge` three calls let a third one
begin between two statements of another while a second one interleaves; they are also
one more than the limit.

Some of these properties hold on a condition that the bounds express, and each
of these conditions is the code's weak spot rather than the model's: a final commit
that nobody revises behind (`Patient`), one client that revises and approvals where the page offers them
(`OneOpenJob`); one editor, and versions that have the same decisions in the same order of options
(`RecordsMatchContent`, `StoredAsShown`); one individual round
(`SubmissionsAreWhole`, `BoardTellsSubmission`); a page that waits for its answer (`Overlap = FALSE`,
the same two); revisions that take no member from a team (`VersionsAreFresh`). For each of them
[Findings](#5-findings) says what happens outside, and names a configuration that shows it.

Rounding shows in `SpreadNeedsMovement`: of the stored numbers, a dispersion is at most twice the
mean movement *and one ten-thousandth*. Without the ten-thousandth it is false of one member at 100/0/0/0,
two at 0/60/40/0 and a team at 0/60/40/0, which are among the run's splits (.6667 and .3333).

Fairness. `WF(SelectJob(Loop))`: `worker_loop` polls for ever
(`runner.py:322-336`) and its exceptions are logged, not fatal. `WF(Advance(w))`
for each claimer: coroutines that are not cut off are scheduled. Nothing is assumed of
facilitators or of `POST /run`, and `RunFails`, `GenerateUnitBlip`, `CommitVersionBlip` and `Abort` are never forced.
In `Generation`, `WF(Work)`: the event loop goes on as long as any coroutine
can, and a call gets an answer or an error. Nothing is assumed of a particular
coroutine or of the order in which waiting ones get a slot.
In `Console`, besides the runner's: a timer that is set fires (`Interval`), and a
question that is under way is answered or lost (`Read`, `Receive`). Nobody has to open
the page or to revise, and answers may come in any order.

## 4. What is proved

| Theorem | Statement |
|---|---|
| `RevisionScopeIsExact` (`JobRunnerProofs`) | for any two inputs, a partial revision that takes no member away from a team keeps only nodes the new input would make from the same contexts |
| `TypeCorrect` | `Spec => []TypeOK` |
| `ClaimsAreExclusive` | `SkipLocked => (Spec => []ClaimExclusive)` |
| `JobsSettleOnce` | `SkipLocked => (Spec => OutcomesAreFinal)` |
| `JobsAreSingle` | `OneFacilitator => (Spec => []OneOpenJob)` |
| `StatusIsTrue` | `OneFacilitator => (Spec => []StatusTellsTruth)` |
| `SnapshotsStayCurrent` | `OneFacilitator => (Spec => VersionsAreCurrent)` |
| `PromiseIsKept` | `OneFacilitator => (Spec => KeepsPromise)`, the refinement of `SimulationLifecycle` |
| `FramesAreShared` | `OneFacilitator => (Spec => []OneFrame)` |
| `ProgressStays` | `OneFacilitator => (Spec => []ProgressIsDurable)` |
| `ReuseIsFresh` | `OneFacilitator => (Spec /\ [][TeamsKeepMembers]_vars => []VersionsAreFresh)` |
| `PagesAreCoherent` | `ConsoleSpec => []PageIsCoherent` |
| `BoardsStayComparable` (`GenerationProofs`) | `GenSpec => []BoardsAreComparable` |
| `WavesStayWhole` | `GenSpec => []WavesAreWhole` |
| `ReviewsAreAsked` | `GenSpec => []ReviewIsAsked` |
| `NothingIsTwice` | `GenSpec => []NothingTwice` |
| `WavesAreStreamed` | `GenSpec => KeepsStream`, the refinement of `WaveStream` |
| `DocumentsAreWhole` (`AssemblyProofs`) | `AssemblySpec /\ [][InputKeepsMembers]_assemblyVars => []DocumentIsWhole` |
| `OrdersFollowSeed` | `AssemblySpec => []OrderFollowsSeed` |
| `TeamsSeeOneBoard` | `AssemblySpec => []TeamsShareOneBoard` |
| `FlagsAreListed` | `AssemblySpec => []FlagsReachRows` |
| `ContentTypeCorrect` (`RuntimeProofs`) | `ContentSpec => []ContentTypeOK` |
| `EditsReachSessions` | with at most one editor and drafts of one shape, `ContentSpec => []RecordsMatchContent` |
| `RuntimeTypeCorrect` | `Spec => []TypeOK` |
| `ResubmissionsReplace` | `Serial \/ ~Overlap` gives `Spec => []OneRowPerDecision` |
| `SubmissionsStayWhole` | `(Serial \/ ~Overlap) /\ OneIndividualRound => (Spec => []SubmissionsAreWhole)` |
| `AllocationsAreAsShown` | `Spec /\ [][KeepsOrders]_vars => []StoredAsShown` |
| `ExtremesDiffer` (`GroupRoomProofs`) | `GroupSpec => []AnchorIsNotMover` |
| `SpreadIsMoved` | `GroupSpec => []SpreadNeedsMovement` |
| `PatternsHaveArchetypes` (`ReflectionProofs`) | `ReflectionSpec => []PatternHasArchetype` |
| `BoardsAreCoherent` | `ReflectionSpec => []BoardIsCoherent` |
| `DistancesAlwaysAgree` | `ReflectionSpec => []DistancesAgree`, all of `FingerprintIsCoherent` but decisiveness |
| `FingerprintsAreCoherent` | `OfQuarters` gives `ReflectionSpec => []FingerprintIsCoherent` |
| `ImagesAreStored` (`EdgeProofs`) | `EdgeSpec => []RowsHaveAssets` |
| `OrphansAreExplained` | `EdgeSpec => []OrphansHaveCause` |
| `LimiterIsExact` | `EdgeSpec => []FirstOnesPass` |
| `AccountsStayWhole` | `EdgeSpec => []AccountsAreWhole` |
| `RepeatsFindOne` | `EdgeSpec => []RepeatsAgree` |

They hold for every value of the constants: any number of simulations, jobs,
claimers, clients and inputs (`JobRunnerAssumption`, `InputsAssumption`), of
participants, teams, waves, attempts, revisions, runs and failures
(`GenerationAssumption`), of decisions, individual rounds and seeds of a document
(`AssemblyAssumption`), of versions, editors and texts (`ContentAssumption`), of
sessions, submissions and decisions (`RuntimeAssumption`), of members, teams, versions, sessions
and pages of a group round (`GroupRoomAssumption`: a split is 100 units over four keys, which differ), of
rounds, decisions, dimensions and answers of the model (`ReflectionAssumption`: an answer is a list of
labels or of lists of them, a split is 100 units), of questions a page has
under way (`ConsoleAssumption`), of calls, clients, addresses, keys, images and
restarts (`LimiterAssumption`, `RequestsAssumption`, `EdgeAssumption`: what is there
from the start is named after no call, and has no key twice).
`RuntimeAssumption` says what the sessions are served: a decision has each of four
postures once (`one_per_posture`, `schemas/content.py:305-310`), and what
`shuffle_options` does to the letters is a bijection (`session_service.py:39-49`).

Conditions that a name stands for:

- `OneFacilitator`: a database that skips locked rows, at most one revision under
  way at a time, approvals in the statuses in which the page offers them, and `Patient`. *Approvals at
  any time*, *two clients*, *Unheard commits* and *SQLite claims* of [Findings](#5-findings)
  each break `OneOpenJob` and with it all that follows.
- `TeamsKeepMembers`, `InputKeepsMembers`: a partial revision takes no member away from a
  team that goes on. It is a condition on the history and not on the set of inputs, since
  a facilitator may do otherwise; see *A smaller team* for what then happens.
- `KeepsOrders`: no save and no run changes the order in which a stored decision has its
  options. It is a condition on the history; *Stale page* breaks it.
- `OfQuarters`: participants give nothing, a quarter, a half or all of the units to an option. The
  entropy of a share is a logarithm, which `Surprise` has for these only; nothing but decisiveness needs it.
- `OneIndividualRound`: a number names one decision of a participant; see *Two individual rounds*.

### The arguments

`TypeOK` is not inductive: that `LatestNumber` is a natural number needs the set
of versions of a simulation to have a largest element in every reachable state (`HasLatest`), and that
`RowsOf` reads inside the domain of the cache needs a fresh run to have nothing
dirty (`NothingDirty`). `TypeInv` is their conjunction.

`ClaimExclusive` and `OutcomesAreFinal` rest on `ClaimInv`: a selected job is
still queued, a job that is being processed is `running`, and two active
claimers hold different jobs. Its only delicate step is `CommitClaim`: it
overwrites the status whatever it is, so the argument is that nobody else can
have selected, hence changed, a row that is locked. `SkipLocked` is used in
`SelectJob` and nowhere else, and it cannot be dropped. An outcome is final but for one case, which
`OutcomesAreFinal` names: the claimer that completed the job and has not heard so may fail it.

The lifecycle rests on `LifeInv`. A simulation is under way exactly as long as one of its
jobs is open (`JobsFollow`); what a claimer has read of it minutes ago, its input
and its latest version, still holds (`RunsFollow`), because nothing but that claimer
changes a simulation that is under way; while a revision is being decided nothing
happens to it at all (`EditsFollow`); numbers of versions differ; and a simulation at rest
tells the truth about its latest version. Revising one that has an open job is what
would break it; the guard of `revise_simulation` is read at `ReviseRead` and used at
`ReviseCommit`, and `EditsFollow` is what makes it still true then. The
refinement maps `Create` and `ReviseCommit` to `Submit`, `StartRun` to `Begin`, `CommitVersion` to
a `Deliver` that is heard of and `CommitVersionBlip` to one that is not, a failure before that to `Break`,
`UnheardFails` to `TakeBack` and the approval of a flagged version to `SignOff`. A claimer that dies with a
commit unheard is `LetStand`, one that dies earlier leaves its simulation as it is, and everything else
stutters. What a delivery leaves behind when it is taken back is a version that may be live in a
simulation that says "failed": the abstract specification says so, as the code does.

The reuse theorems rest on `StoreInv`: what is stored of a simulation is one content for each node,
all of it made against the frame that is stored too (`RowsAgree`); the cache of a run
is built against one frame, has every unit it counts, and holds what is stored
(`CacheInv`), also after a progress transaction that has failed with or without effect; the
scope a revision has computed is still the scope of its input (`EditsDecided`). `FreshInv` adds that every
stored node was made for the current input or is no node of it. `RevisionScopeIsExact` is the step
from one input to the next, and the only place where `TeamsKeepMembers` is used.

In `Generation` a build that a failed run has left behind goes on beside the next run.
`GenInv` says why it does no harm: runs follow each other, and a build writes to the
checkpointer of its own run only, which nothing reads after `raised`; a run fans out
only when every focus is there, so that no build ever resolves one (`NoBuildResolves`), and what a
build is making is for the focus its run has (`BuildInv`); the checkpoints of the
current run are those in the database and those of the wave under way (`CurrentInv`); and the rows,
written in `UnitDone` only, are the first so many units and what they were made from (`StoredInv`).
Four of the theorems read off it. The fifth, `WavesAreStreamed`, needs each step: only the main
coroutine of the current run moves the phase (`CurrentRun`, `PhaseFollows`), builds of whichever run are
silent (`BuildsAreSilent`), a wave that is done adds its builds and no others to the rows
(`UnitDoneCommits`, from `CurrentInv` and `BuildInv`), the next run finds its counter where it
began (`StartRunBegins`), and the gates are reached with every unit behind the run (`ReduceFinishes`).

In `Assembly` two facts carry everything. A participant has one seat in a round: its own node or
the slice of one team (`SliceIsUnique`, `OneSeat`), and every build in a cache, whichever
input it was made under, is of participants that sit at its node (`BuildsSit`). So no two
builds compete for the flag of a decision. And the places an assembled object is shared by are known
(`AffectsWhom`): a decoded board has an object for each place, a fresh one an object for all
members; so an individual place is turned once, and the members of a team alike. What `shuffle_positions`
adds up over one place follows by unfolding the fold (`TurnedOnce`). That a board has the members the
input says is `FitInv`, which a partial revision keeps by `RevisionScopeIsExact`.

`RecordsMatchContent` says nothing of a save that is under way. `EditInv` does:
the document and rows it has read are those its version still has (nobody else
edits, and runs only append), and what it sends has the keys its version has.
Both assumptions are needed, see *Two editors* and *Roster* below.

`OneRowPerDecision` rests on `RowsInv`: of the submissions of one session that
are in the server at most one has begun, each inserts one row for each
decision it has come to, and every row stored for such a decision is among
those it has deleted or has found. On SQLite the second begins only when the
first has ended; elsewhere the page has to wait; see *Submitting again* below.

The other theorems about sessions stand on it. `PagesInv`: a page lists what its session is
served, and a submission asks what its page shows. `MeaningInv`: through the display shuffle and back, a
letter is the posture it was when the page was rendered, given that the order of the stored
options is (`KeepsOrders`). `WholeInv`: the rows of a session are those of one whole
submission or of none, also while another is deleting and inserting in its
transaction; candidates are found by number alone, hence `OneIndividualRound`. `OrdersInv`, that every
order of options in the database is one that some draft has, is part of the types.

`PageIsCoherent` rests on `PageInv`: an answer's version is read after its status, and the number
of the latest version never falls, which is `VersionsStay` and `HasLatest` of the runner.

`RowsHaveAssets` says nothing of the calls that are about to destroy an asset.
`ImagesInv` does: only calls that write no row any more have assets in rows
(`Settled`), one asset is never in two rows, a call that still has to write its
row owns an asset nobody else can name, and the assets that a call is to destroy
are in no row any more from its commit on. The delicate step is that commit, when another
call has replaced or deleted the row it has read: a changed row has left its old
asset behind, so destroying that one hurts nobody. `OrphansHaveCause` is the converse and needs
`OrphansInv`: rows and calls keep their slots (`SlotsKept`), and on a slot that has had no trouble
at most one call is under way, which finds at its commit what it has read
(`Undisturbed`); so what it replaces is exactly what it then destroys.

`FirstOnesPass` follows from `LimiterInv`: the count of a window of this
minute is what the client has sent, and a window of an earlier minute says it has sent
nothing yet. `AccountsAreWhole` rests on `AccountsInv`: a tenant is
named after a registration that has ended, so one that still has to insert is
the owner of none; the unique constraint gives the rest. `RepeatsAgree` rests on
`CreationInv`: as long as a key has not been raced for, at most one of the calls with it is about
to insert, no simulation has it then, and whoever was answered was told the one that has; and raced
for or not, whoever was answered was told a simulation of the own tenant with the own key. Calls
may overlap as they like: one that looks its key up beside another that is about to insert is what `raced` records.

`Reflection` has a small inductive invariant and much arithmetic. `ReflectionInv`: what the model has
answered passed the validators, whose effect is that four postures, each in one option of four,
make the options four different ones (`OptionsDiffer`), and that every allocation is 100 units on them. Sums over any
set of decisions are exchanged with sums over the four stances (`SumOfRows`): a round's
totals add up to 100 units a decision (`FourTotals`), and so do the scores but for half a unit of
rounding each (`ScoresAddUp`). `Ranked` and `Lean` break ties by position, so there is a first, a last and a
second (`FirstByRank`, `LastByRank`), the pattern is a pair or a single (`DominantIsPattern`), and it has its archetype
among ten different ones. The distances: profiles are means, so their distance is bounded decision by decision
(`MeansApart`, the triangle inequality summed over pairs, then over stances); and where each decision has its
own dimension, the unordered pairs of profiles are the ordered pairs of decisions
(`CouplesArePairs`), so both sums have the same terms (`SensitivityIsVariation`).

The theorems of `GroupRoom` are about arithmetic too; the state part (`GroupInv`) says
that a session holds shares of 100 units in the keys of its version, and that what is stored, or about to be, is sound.
The sums of `compute_group_analytics` run over sets of any size, so
induction over the subsets of a finite set comes first (`SubsetInduction`, with a set of sets in
place of a predicate, from the least of a set of natural numbers), then what the fold computes whichever
element it picks (`SumRemove`, `FunctionSum`, all in `SumTheorems`). A distance over four keys keeps the triangle
inequality although it is halved in whole units: the differences of two distributions of 100 add up to an
even number (`Halves`, `Triangle`). Each member is in one pair fewer than there are
members, so the distances over all pairs are at most that many times the movements
(`SumOfPairs`). The anchor and the biggest mover exist because means over the same decisions are compared
by their sums, and a finite set has a least and a greatest (`FirstLeast`, `LastGreatest`); they differ
because the tie rules point opposite ways. All of this is of exact means; two integers
that are within half a unit of them, each rounded either way at a tie, keep the inequality but for one
unit (`RoundedNear`, `RoundedWithin`).

Model-checked only: `JobsEnd`, `RunsEnd` and `PageSettles` (liveness is out of the
prover's reach), `BoardTellsSubmission`, and the findings. Every other invariant and action property of a
passing run, and both refinements, have a theorem. Proved only: the type invariants of `Content` and `Runtime`,
`OneRowPerDecision`, and `DistancesAgree` as an invariant of its own. For `BoardTellsSubmission` a proof would need a page
that waits, one individual round and `KeepsOrders` together, and would be about what is left.

## 5. Findings

Each is a `violation` run whose counterexample is a behaviour of the code, and
a line of the repository that says otherwise (quoted in `PROJECT.json`).

- `blip`: a failed progress transaction, meant to be harmless, fails the run at
  the end: the rollback expires the `Simulation` object and `sim.id` is read afterwards.
- `crash`: a job that is running when its process dies is never claimed again,
  and its simulation refuses revisions.

Other behaviours of the code contradict a line of the repository as well. They are not among the
runs; each has a configuration of its own here, under which TLC finds the property violated in seconds
(`tlc -config <file> <module>`):

| Configuration | Module | Property | What happens, and what the repository says |
|---|---|---|---|
| `JobRunner_unheard.cfg` | `MCJobRunner` | `OneOpenJob` | *Unheard commits*: the final commit takes effect and raises (`runner.py:276`). A revision is accepted, which queues a job; then `_mark_failed` calls job and simulation failed (lines 277-279, 287-292), so another revision is accepted beside the queued job, which `generation_service.py:676-677` means to refuse |
| `JobRunner_approval.cfg` | `MCJobRunner` | `OneOpenJob` | *Approvals at any time*: `record_review` sets the status to ready whatever it is (line 214), which opens the same guard |
| `JobRunner_revisers.cfg` | `MCJobRunner` | `OneOpenJob` | *Two clients* revise at once: both read a status at rest before either commits |
| `Runtime_resubmit.cfg` | `MCRuntime` | `OneRowPerDecision` | *Submitting again* while the first submission is still in the server leaves, on PostgreSQL, two rows for one decision, against the "idempotent re-submit" of `session_service.py:183` |
| `Runtime_editors.cfg` | `MCRuntime` | `RecordsMatchContent` | *Two editors*: overlapping saves leave one's document and the other's rows (`generation_service.py:411-413`) |
| `Runtime_moved.cfg` | `MCRuntime` | `StoredAsShown` | *Stale page*: a page older than a run saves the old order of options onto the new version, and a session opened in between has its units stored under other postures (`session_service.py:44-45`) |
| `Runtime_rounds.cfg` | `MCRuntime` | `BoardTellsSubmission` | *Two individual rounds*: a submission names a decision by its number, which starts again in every round (`session_service.py:165`), so one of the rounds loses its allocations |
| `GroupRoom_regenerated.cfg` | `MCGroupRoom` | `BaselineIsComplete` | *A second run*: teams list the participant rows of their own run, sessions hang on any row with the ref (`scoring_service.py:138`), so an answer that was given is missing from the baseline (`api/groups.py:3-4`) |
| `GroupRoom_ownkeys.cfg` | `MCGroupRoom` | `SubmitsAreStored` | *Own keys*: the page posts the canonical keys whatever the simulation declares (`GroupRoom.tsx:16-17`), the lookup of `group.py:33` fails, and nothing is stored (`api/groups.py:5`) |
| `Edge_repeat.cfg` | `MCEdge` | `KeysAreUnique` | *Creating again*: two creations that overlap make two simulations with one key, which `models/__init__.py:268` calls unique |
| `Assembly_leak.cfg` | `MCAssembly` | `NothingLeaks` | *The gate's fields*: `_iter_round_texts` (`reduce.py:105-129`) skips generated fields, so that PII in them is published, against `reduce.py:8` and `165` |

`Runtime_sqlite.cfg` is the counterpart of `Runtime_resubmit.cfg`: three overlapping
submissions on SQLite, where the first `DELETE` holds the write lock, keep `OneRowPerDecision`.

And behaviours that contradict no line, or were seen in a variation of an instance (the change is named):

- *A smaller team* (an input with one participant less, `[Authored EXCEPT !.count = 1]`,
  in `JobRunner_revisions`): `_diff_scope` invalidates a team only if a member of the
  new team changed (`generation_service.py:648`), so a revision that removes a participant keeps the
  checkpoint of the team the participant was in; lines 626-628 say the scope is
  precise under removals too. `VersionsAreFresh` fails.
- *SQLite claims* (`SkipLocked = FALSE` in `JobRunner_claims`): two claimers take one job;
  the "guarded update" of `runner.py:3-5` has no guard. `ClaimExclusive` fails.
- *Orphans*: an upload, a deletion or a clean-up that fails, and two uploads of one name
  at once, leave an asset at Cloudinary that no row names and nothing deletes
  later; `OrphansHaveCause` says that nothing else does.
- *Team boards*: in a fresh run the board of a team is one set of objects and is rotated once for
  each of its members, in a resumed run once (`assemble.py:169-172`). All members see the
  same order (`TeamsShareOneBoard`), but a resumed run stores another one than a fresh
  one would. A seed that is not authored is derived from the input, so it changes with a revision.
- *PII in a checkpoint*: a build with PII is checkpointed before the safety gate sees it, and
  every run that resumes it fails until a revision makes it stale.
- *Numbers again*: the fingerprint takes a decision's dimension by its number, so a later round overwrites
  an earlier one's (`engine.py:71`); `board` has such a number, and what `score` returns is
  coherent all the same. No route computes it. The "evenly" lean line of the
  board and the reliability "high" cannot be reached by sessions of whole boards.
- *Repeated keys*: that the four keys of a spec differ is asked in the prompt only; a spec that repeats one
  makes the archetype call unsatisfiable, which fails the run after five attempts.
- *Late answers*: an answer that is terminal and arrives after a revision makes the page stop
  asking until it is refreshed; a page learns of other facilitators' revisions
  only then, too.
- *Roster*: a page older than a revision of the roster saves
  decisions that have no rows. `RecordsMatchContent` fails.
- A save that read the latest version before a run committed the next one
  changes the old version, which `runner.py:234-236` calls immutable; and
  rewording a group decision changes one member's copy of it only.
- A reconciliation takes the keys of whichever session it read last, and the canonical ones while nobody of
  the team has a session; with members who have played versions of different keys, or with neither, it fails
  as it does in *Own keys*.

## 6. What is left out, and why

- The text of prompts and content, the safety filters (regular expressions over
  text), the sanitising of inputs, and the tagged JSON of the checkpoint codec.
- The OpenAI adapter and the mock provider; with OpenAI a refused answer ends in an
  `AttributeError` behind `parse_call`, which is `RunFails` in the other modules.
- That every query carries the tenant: `Own` and `WithKey` have it where a
  property depends on it. Passwords, the development header and error pages.
- Stored reflections and commitments, hints and audit rows: rows that are added
  and that nothing reads.
- The read-only views, the allocation meter and all other presentation.
- The reliability of a fingerprint, which counts decisions, and `posture_diversity`.
- Migrations and administration scripts, which are run by hand.

## 7. Plan

1. `JobRunner`, `Intake`, `SimulationLifecycle` and their first theorems (done).
2. `Generation`, `Content`, `Runtime`, `GroupRoom` and their first theorems (done).
3. `Images`, `Creation`, `RateLimiter`, `Accounts`, composed in `Edge`, with a theorem for
   each (done); the polling page, `Console` (done).
4. `Assembly`, `ModelCall`, `Reflection` (done).
5. Refinement: `Generation` implements `WaveStream`, the stream of waves that `JobRunner` takes it for (done).
6. Proofs: the lifecycle and its refinement, reuse, `Generation` and its refinement, `Assembly`, `Runtime`,
   `Console`, `GroupRoom`, `Reflection`, `Edge` (done).
7. Left: the entropy of shares that are no quarters; the reliability and the route of the fingerprint;
   several simulations in one process for `Generation`, which would share its slots.
