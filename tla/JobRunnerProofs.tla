--------------------------- MODULE JobRunnerProofs ---------------------------
(***************************************************************************)
(* Theorems about JobRunner, for every set of simulations, claimers and    *)
(* clients, every bound and every set of inputs: type correctness; the     *)
(* exclusiveness of a claim on a database that skips locked rows; the      *)
(* lifecycle it gives a simulation there: one open job, a status that      *)
(* tells the truth, versions written from the current input, and the       *)
(* refinement of SimulationLifecycle; what the settings page of Console,   *)
(* which asks for its state, can be sure of; and what a run reuses.        *)
(***************************************************************************)
EXTENDS Console, FiniteSetTheorems, TLAPS

Steps == {"idle", "selected", "claimed", "loaded", "running", "writing", "failing"}
Started == {"loaded", "running", "writing"}

\* TypeOK is not inductive alone: LatestNumber is a number only if a largest
\* one exists, and a run that has generated nothing must have nothing dirty.
HasLatest ==
    \A s \in Sims : \E m \in Numbers(s) \union {0} : \A n \in Numbers(s) : n <= m

NothingDirty == \A w \in Workers : pc[w] = "loaded" => run[w].dirty = {}

TypeInv == TypeOK /\ HasLatest /\ NothingDirty

-----------------------------------------------------------------------------
(* Lemmas.                                                                 *)

\* The number of the latest version is a natural number, and no version of
\* the simulation has a larger one.
LEMMA LatestIsMax ==
    ASSUME TypeInv, NEW s \in Sims
    PROVE  /\ LatestNumber(s) \in Nat
           /\ LatestNumber(s) \in Numbers(s) \union {0}
           /\ \A n \in Numbers(s) : n <= LatestNumber(s)
<1>1. PICK m \in Numbers(s) \union {0} : \A n \in Numbers(s) : n <= m
  BY DEF TypeInv, HasLatest
<1>2. Numbers(s) \subseteq Nat
  BY DEF TypeInv, TypeOK, RowTypes, Numbers
<1>3. /\ LatestNumber(s) \in Numbers(s) \union {0}
      /\ \A n \in Numbers(s) : n <= LatestNumber(s)
  BY <1>1 DEF LatestNumber
<1> QED
  BY <1>2, <1>3

\* Everything a claimer's step must establish about the claimers.
LEMMA WorkerStep ==
    ASSUME WorkerTypes, NEW w \in Workers,
           NEW x \in Steps, NEW h \in Jobs \union {0}, NEW r,
           pc' = [pc EXCEPT ![w] = x], held' = [held EXCEPT ![w] = h],
           run' = [run EXCEPT ![w] = r],
           \A j \in Jobs : jobStatus[j] # "none" => jobStatus'[j] # "none",
           x # "idle" => h \in Jobs /\ jobStatus'[h] # "none",
           x \in Started => RunLike(r)
    PROVE  WorkerTypes'
<1>1. pc' \in [Workers -> Steps] /\ held' \in [Workers -> Jobs \union {0}]
  BY DEF WorkerTypes, Steps
<1>2. run' = [u \in Workers |-> run'[u]] /\ run'[w] = r
  BY DEF WorkerTypes
<1>3. ASSUME NEW u \in Workers
      PROVE  /\ pc'[u] # "idle" => held'[u] \in Jobs /\ jobStatus'[held'[u]] # "none"
             /\ pc'[u] \in Started => RunLike(run'[u])
  <2>1. CASE u = w
    BY <1>2, <2>1 DEF WorkerTypes
  <2>2. CASE u # w
    BY <2>2 DEF WorkerTypes, Started
  <2> QED
    BY <2>1, <2>2
<1> QED
  BY <1>1, <1>2, <1>3 DEF WorkerTypes, Steps, Started

\* A claimer past its claim holds a job of a simulation that has an input.
LEMMA HeldType ==
    ASSUME TypeInv, NEW w \in Workers, pc[w] # "idle"
    PROVE  /\ held[w] \in Jobs /\ SimOf(w) \in Sims /\ <<held[w], w>> \in Runs
           /\ jobStatus[held[w]] # "none"
           /\ simStatus[SimOf(w)] # "none" /\ simInput[SimOf(w)] \in Inputs
<1>1. held[w] \in Jobs /\ jobStatus[held[w]] # "none"
  BY DEF TypeInv, TypeOK, WorkerTypes
<1>2. SimOf(w) \in Sims /\ simStatus[SimOf(w)] # "none"
  BY <1>1 DEF TypeInv, TypeOK, JobTypes, SimOf
<1> QED
  BY <1>1, <1>2 DEF TypeInv, TypeOK, SimTypes, Runs

\* What a run holds.
LEMMA RunType ==
    ASSUME NEW r, RunLike(r)
    PROVE  /\ r = [input |-> r.input, cache |-> r.cache, dirty |-> r.dirty,
                   expired |-> r.expired, unit |-> r.unit, last |-> r.last]
           /\ r.input \in Inputs /\ r.dirty \subseteq DOMAIN r.cache
           /\ r.expired \in BOOLEAN /\ r.unit \in Nat /\ r.last \in Nat
           /\ CacheLike(r.cache)
  BY DEF RunLike

\* A run with a cache of the right type, and everything dirty in it, has its type.
LEMMA MakeRun ==
    ASSUME NEW i \in Inputs, NEW c, NEW d \in SUBSET DOMAIN c, NEW e \in BOOLEAN,
           NEW u \in Nat, NEW n \in Nat, CacheLike(c)
    PROVE  RunLike([input |-> i, cache |-> c, dirty |-> d, expired |-> e,
                    unit |-> u, last |-> n])
  BY DEF RunLike

\* A run that has generated another unit has its type.
LEMMA AdvanceRun ==
    ASSUME NEW r, RunLike(r), NEW c, CacheLike(c), NEW d \in SUBSET DOMAIN c
    PROVE  /\ RunLike([r EXCEPT !.cache = c, !.dirty = d, !.unit = @ + 1])
           /\ RunLike([r EXCEPT !.cache = c, !.dirty = d, !.unit = @ + 1, !.expired = TRUE])
<1> DEFINE q == [r EXCEPT !.cache = c, !.dirty = d, !.unit = @ + 1]
           x == [r EXCEPT !.cache = c, !.dirty = d, !.unit = @ + 1, !.expired = TRUE]
           f == [r EXCEPT !.cache = c]
           g == [f EXCEPT !.dirty = d]
           h == [g EXCEPT !.unit = @ + 1]
<1>1. f = [input |-> r.input, cache |-> c, dirty |-> r.dirty, expired |-> r.expired,
           unit |-> r.unit, last |-> r.last]
  BY RunType
<1>2. g = [input |-> r.input, cache |-> c, dirty |-> d, expired |-> r.expired,
           unit |-> r.unit, last |-> r.last]
  <2> HIDE DEF f
  <2> QED
    BY <1>1
<1>3. h = [input |-> r.input, cache |-> c, dirty |-> d, expired |-> r.expired,
           unit |-> r.unit + 1, last |-> r.last]
  <2> HIDE DEF g
  <2> QED
    BY <1>2
<1>4. r.unit + 1 \in Nat /\ r.input \in Inputs /\ r.expired \in BOOLEAN /\ r.last \in Nat
  BY RunType
<1>5. RunLike(h)
  <2> HIDE DEF h
  <2> QED
    BY <1>3, <1>4, MakeRun
<1>6. RunLike([h EXCEPT !.expired = TRUE])
  <2> HIDE DEF h
  <2> QED
    BY <1>5 DEF RunLike
<1>7. q = h /\ x = [h EXCEPT !.expired = TRUE]
  OBVIOUS
<1> QED
  BY <1>5, <1>6, <1>7

\* What a claimer generates has its type, and so have the rows it flushes.
LEMMA FilledType ==
    ASSUME TypeInv, NEW w \in Workers, pc[w] \in Started
    PROVE  /\ CacheLike(Filled(w)) /\ Pending(w) \subseteq DOMAIN Filled(w)
           /\ \A r \in RowsOf(SimOf(w), Pending(w), Filled(w)) :
                 r.sim \in Sims /\ ContentLike(r.content)
<1>1. RunLike(run[w]) /\ pc[w] # "idle"
  BY DEF TypeInv, TypeOK, WorkerTypes, Started
<1>2. run[w].input \in Inputs /\ CacheLike(run[w].cache)
      /\ run[w].dirty \subseteq DOMAIN run[w].cache
  BY <1>1, RunType
<1>3. SimOf(w) \in Sims /\ <<held[w], w>> \in Runs
  BY <1>1, HeldType
<1>4. run[w].input.frame \in Frames
  BY <1>2, InputsAssumption DEF InputRecords
<1>5. \A n \in DOMAIN run[w].cache : ContentLike(run[w].cache[n])
  BY <1>2 DEF CacheLike
<1>6. \A n : ContentLike(Build(w, n))
  BY <1>3, <1>4, <1>5 DEF Build, ContentLike
<1>7. DOMAIN Filled(w) = DOMAIN run[w].cache \union Missing(w)
  BY DEF Filled
<1>8. \A n \in DOMAIN Filled(w) : ContentLike(Filled(w)[n])
  BY <1>5, <1>6 DEF Filled
<1>9. CacheLike(Filled(w))
  BY <1>8 DEF CacheLike, Filled
<1>10. Pending(w) \subseteq DOMAIN Filled(w)
  BY <1>2, <1>7 DEF Pending
<1> QED
  BY <1>3, <1>8, <1>9, <1>10 DEF RowsOf

\* What hydrate reads back has its type.
LEMMA HydrationType ==
    ASSUME TypeInv, NEW s \in Sims, NEW c \in Hydrations(s)
    PROVE  CacheLike(c)
<1>1. \A r \in Rows(s) : ContentLike(r.content)
  BY DEF TypeInv, TypeOK, RowTypes, Rows
<1>2. c = [n \in DOMAIN c |-> c[n]] /\ \A n \in DOMAIN c : c[n] \in {r.content : r \in Rows(s)}
  BY DEF Hydrations
<1> QED
  BY <1>1, <1>2 DEF CacheLike

\* Adding versions no larger than the successor of the latest one, or none,
\* leaves a latest version.
LEMMA KeepsLatest ==
    ASSUME TypeInv, NEW s \in Sims, NEW v, v.sim = s, v.number \in Nat,
           versions' = versions \union {v}
    PROVE  HasLatest'
<1>1. SUFFICES ASSUME NEW t \in Sims
               PROVE  \E m \in Numbers(t)' \union {0} : \A n \in Numbers(t)' : n <= m
  BY DEF HasLatest
<1>2. PICK m \in Numbers(t) \union {0} : \A n \in Numbers(t) : n <= m
  BY DEF TypeInv, HasLatest
<1>3. Numbers(t) \subseteq Nat
  BY DEF TypeInv, TypeOK, RowTypes, Numbers
<1>4. CASE t # s
  <2>1. Numbers(t)' = Numbers(t)
    BY <1>4 DEF Numbers
  <2> QED
    BY <1>2, <2>1
<1>5. CASE t = s
  <2>1. Numbers(t)' = Numbers(t) \union {v.number}
    BY <1>5 DEF Numbers
  <2>2. CASE v.number <= m
    BY <1>2, <2>1, <2>2
  <2>3. CASE ~(v.number <= m)
    BY <1>2, <1>3, <2>1, <2>3
  <2> QED
    BY <2>2, <2>3
<1> QED
  BY <1>4, <1>5

\* Everything a step that changes no version keeps of HasLatest.
LEMMA SameLatest ==
    ASSUME TypeInv, UNCHANGED versions
    PROVE  HasLatest'
  BY DEF TypeInv, HasLatest, Numbers

\* Queueing a job for a simulation that has an input keeps the jobs typed.
LEMMA QueueKeepsTypes ==
    ASSUME TypeInv, NEW s \in Sims, QueueJob(s), UNCHANGED <<jobError, jobProgress>>,
           simStatus'[s] # "none",
           \A t \in Sims : simStatus[t] # "none" => simStatus'[t] # "none"
    PROVE  JobTypes' /\ \A j \in Jobs : jobStatus[j] # "none" => jobStatus'[j] # "none"
<1>1. PICK j \in NextJob : /\ jobStatus' = [jobStatus EXCEPT ![j] = "queued"]
                           /\ jobSim' = [jobSim EXCEPT ![j] = s]
  BY DEF QueueJob
<1>2. j \in Jobs /\ JobTypes
  BY DEF NextJob, TypeInv, TypeOK
<1>3. /\ jobStatus' \in [Jobs -> {"none", "queued", "running", "completed", "failed"}]
      /\ jobSim' \in [Jobs -> Sims]
      /\ \A k \in Jobs : jobStatus[k] # "none" => jobStatus'[k] # "none"
  BY <1>1, <1>2 DEF JobTypes
<1>4. ASSUME NEW k \in Jobs, jobStatus'[k] # "none"
      PROVE  simStatus'[jobSim'[k]] # "none"
  <2>1. CASE k = j
    BY <1>1, <1>2, <2>1 DEF JobTypes
  <2>2. CASE k # j
    BY <1>1, <1>2, <1>4, <2>2 DEF JobTypes
  <2> QED
    BY <2>1, <2>2
<1> QED
  BY <1>2, <1>3, <1>4 DEF JobTypes

\* The claimers keep their types in a step none of them takes.
LEMMA IdleWorkers ==
    ASSUME TypeInv, UNCHANGED workVars,
           \A j \in Jobs : jobStatus[j] # "none" => jobStatus'[j] # "none"
    PROVE  WorkerTypes' /\ NothingDirty'
  BY DEF TypeInv, TypeOK, WorkerTypes, NothingDirty, workVars

\* A failed run.
LEMMA MarkFailedKeepsTypes ==
    ASSUME TypeInv, NEW w \in Workers, pc[w] # "idle",
           NEW error \in {"engine", "expired"}, MarkFailed(w, error)
    PROVE  TypeInv'
<1> USE DEF MarkFailed, dbRest
<1>1. /\ held[w] \in Jobs /\ SimOf(w) \in Sims /\ jobStatus[held[w]] # "none"
      /\ simStatus[SimOf(w)] # "none"
  BY HeldType
<1>2. SimTypes' /\ JobTypes'
  <2>1. SimTypes'
    BY <1>1 DEF TypeInv, TypeOK, SimTypes, Statuses
  <2>2. JobTypes'
    BY <1>1 DEF TypeInv, TypeOK, SimTypes, JobTypes
  <2> QED
    BY <2>1, <2>2
<1>3. RowTypes'
  BY DEF TypeInv, TypeOK, RowTypes
<1>4. WorkerTypes'
  <2>1. \A j \in Jobs : jobStatus[j] # "none" => jobStatus'[j] # "none"
    BY DEF TypeInv, TypeOK, JobTypes
  <2> QED
    BY <2>1, WorkerStep DEF TypeInv, TypeOK, Steps, Started
<1>5. EditTypes'
  BY DEF TypeInv, TypeOK, EditTypes, SimTypes
<1>6. NothingDirty'
  BY DEF TypeInv, TypeOK, WorkerTypes, NothingDirty
<1> QED
  BY <1>2, <1>3, <1>4, <1>5, <1>6, SameLatest DEF TypeInv, TypeOK

\* A claimer's step that only takes it to another place of its program.
LEMMA WorkerStepKeepsTypes ==
    ASSUME TypeInv, NEW w \in Workers, NEW x \in Steps \ {"idle", "loaded"},
           NEW h \in Jobs, NEW r,
           pc' = [pc EXCEPT ![w] = x], held' = [held EXCEPT ![w] = h],
           run' = [run EXCEPT ![w] = r],
           \A j \in Jobs : jobStatus[j] # "none" => jobStatus'[j] # "none",
           jobStatus'[h] # "none", x \in Started => RunLike(r)
    PROVE  WorkerTypes' /\ NothingDirty'
<1>1. WorkerTypes'
  BY WorkerStep DEF TypeInv, TypeOK
<1>2. NothingDirty'
  BY DEF TypeInv, TypeOK, WorkerTypes, NothingDirty, Steps
<1> QED
  BY <1>1, <1>2

-----------------------------------------------------------------------------
(* Type correctness.                                                       *)

LEMMA TypeInit == Init => TypeInv
<1> SUFFICES ASSUME Init
             PROVE  TypeInv
  OBVIOUS
<1>1. SimTypes /\ EditTypes
  BY DEF Init, SimTypes, EditTypes
<1>2. JobTypes
  <2>1. (CHOOSE s \in Sims : TRUE) \in Sims
    BY JobRunnerAssumption
  <2> QED
    BY <2>1 DEF Init, JobTypes
<1>3. RowTypes
  BY DEF Init, RowTypes
<1>4. WorkerTypes /\ NothingDirty
  BY DEF Init, WorkerTypes, NothingDirty
<1>5. HasLatest
  BY DEF Init, HasLatest, Numbers
<1>6. blips \in Nat /\ aborts \in Nat
  BY DEF Init
<1> QED
  BY <1>1, <1>2, <1>3, <1>4, <1>5, <1>6 DEF TypeInv, TypeOK

\* Steps of a claimer that change neither a simulation nor a version.
LEMMA ClaimKeepsTypes ==
    ASSUME TypeInv, NEW w \in Workers, SelectJob(w) \/ CommitClaim(w)
    PROVE  TypeInv'
<1>1. SimTypes' /\ RowTypes' /\ EditTypes' /\ HasLatest'
      /\ blips' \in Nat /\ aborts' \in Nat
  BY SameLatest
  DEF SelectJob, CommitClaim, TypeInv, TypeOK, SimTypes, RowTypes, EditTypes,
      simVars, dbRest
<1>2. CASE SelectJob(w)
  <2>1. PICK j \in Claimable(w) : held' = [held EXCEPT ![w] = j]
    BY <1>2 DEF SelectJob
  <2>2. j \in Jobs /\ jobStatus[j] = "queued"
    BY DEF Claimable
  <2>3. JobTypes'
    BY <1>2 DEF SelectJob, TypeInv, TypeOK, JobTypes, jobVars, simVars
  <2>4. WorkerTypes' /\ NothingDirty'
    <3>1. run' = [run EXCEPT ![w] = run[w]]
      BY <1>2 DEF SelectJob, TypeInv, TypeOK, WorkerTypes
    <3> QED
      BY <1>2, <2>1, <2>2, <3>1, WorkerStepKeepsTypes
      DEF SelectJob, Steps, Started, jobVars
  <2> QED
    BY <1>1, <2>3, <2>4 DEF TypeInv, TypeOK
<1>3. CASE CommitClaim(w)
  <2>1. held[w] \in Jobs /\ jobStatus[held[w]] # "none"
    BY <1>3, HeldType DEF CommitClaim
  <2>2. /\ JobTypes'
        /\ \A j \in Jobs : jobStatus[j] # "none" => jobStatus'[j] # "none"
    BY <1>3, <2>1 DEF CommitClaim, TypeInv, TypeOK, JobTypes, simVars
  <2>3. WorkerTypes' /\ NothingDirty'
    <3>1. /\ pc' = [pc EXCEPT ![w] = "claimed"] /\ held' = [held EXCEPT ![w] = held[w]]
          /\ run' = [run EXCEPT ![w] = run[w]]
      BY <1>3 DEF CommitClaim, TypeInv, TypeOK, WorkerTypes
    <3>2. /\ jobStatus'[held[w]] # "none"
          /\ \A j \in Jobs : jobStatus[j] # "none" => jobStatus'[j] # "none"
      BY <2>1, <2>2
    <3> QED
      BY <2>1, <3>1, <3>2, WorkerStepKeepsTypes DEF Steps, Started
  <2> QED
    BY <1>1, <2>2, <2>3 DEF TypeInv, TypeOK
<1> QED
  BY <1>2, <1>3

LEMMA LoadKeepsTypes ==
    ASSUME TypeInv, NEW w \in Workers, LoadSim(w)
    PROVE  TypeInv'
<1> DEFINE fresh == [input |-> simInput[SimOf(w)], cache |-> <<>>, dirty |-> {},
                     expired |-> FALSE, unit |-> 0, last |-> 0]
<1>1. SimTypes' /\ JobTypes' /\ RowTypes' /\ EditTypes' /\ HasLatest'
      /\ blips' \in Nat /\ aborts' \in Nat
  BY SameLatest
  DEF LoadSim, TypeInv, TypeOK, SimTypes, JobTypes, RowTypes, EditTypes,
      simVars, jobVars, dbRest
<1>2. held[w] \in Jobs /\ jobStatus[held[w]] # "none" /\ simInput[SimOf(w)] \in Inputs
  BY HeldType DEF LoadSim
<1>3. RunLike(fresh)
  <2>1. CacheLike(<<>>)
    BY DEF CacheLike
  <2> QED
    BY <1>2, <2>1, MakeRun
<1>4. WorkerTypes'
  <2>1. held' = [held EXCEPT ![w] = held[w]]
    BY DEF LoadSim, TypeInv, TypeOK, WorkerTypes
  <2> QED
    BY <1>2, <1>3, <2>1, WorkerStep
    DEF LoadSim, TypeInv, TypeOK, Steps, Started, jobVars
<1>5. NothingDirty'
  BY DEF LoadSim, TypeInv, TypeOK, WorkerTypes, NothingDirty
<1> QED
  BY <1>1, <1>4, <1>5 DEF TypeInv, TypeOK

LEMMA StartKeepsTypes ==
    ASSUME TypeInv, NEW w \in Workers, StartRun(w)
    PROVE  TypeInv'
<1>1. /\ held[w] \in Jobs /\ SimOf(w) \in Sims /\ <<held[w], w>> \in Runs
      /\ jobStatus[held[w]] # "none" /\ simInput[SimOf(w)] \in Inputs
  BY HeldType DEF StartRun
<1>2. RunLike(run[w]) /\ run[w].dirty = {}
  BY DEF StartRun, TypeInv, TypeOK, WorkerTypes, NothingDirty
<1>3. SimTypes' /\ JobTypes' /\ EditTypes'
  BY <1>1 DEF StartRun, TypeInv, TypeOK, SimTypes, JobTypes, EditTypes, Statuses, jobVars
<1>4. RowTypes'
  <2>1. \A r \in Enrolled(w) : r.sim \in Sims /\ r.p \in Nat /\ r.run \in Runs
    <3>1. run[w].input.count \in Nat
      BY <1>2, RunType, InputsAssumption DEF InputRecords
    <3> QED
      BY <1>1, <3>1 DEF Enrolled, Roster
  <2> QED
    BY <2>1 DEF StartRun, TypeInv, TypeOK, RowTypes
<1>5. WorkerTypes' /\ NothingDirty'
  <2>1. PICK c \in Hydrations(SimOf(w)) : run' = [run EXCEPT ![w].cache = c]
    BY DEF StartRun
  <2> DEFINE r == [run[w] EXCEPT !.cache = c]
  <2>2. RunLike(r)
    <3>1. CacheLike(c)
      BY <1>1, HydrationType
    <3>2. r = [input |-> run[w].input, cache |-> c, dirty |-> {},
               expired |-> run[w].expired, unit |-> run[w].unit, last |-> run[w].last]
      BY <1>2, RunType
    <3> HIDE DEF r
    <3> QED
      BY <1>2, <3>1, <3>2, RunType, MakeRun
  <2>3. run' = [run EXCEPT ![w] = r] /\ held' = [held EXCEPT ![w] = held[w]]
    BY <2>1 DEF StartRun, TypeInv, TypeOK, WorkerTypes
  <2> HIDE DEF r
  <2> QED
    BY <1>1, <2>2, <2>3, WorkerStepKeepsTypes DEF StartRun, Steps, Started, jobVars
<1> QED
  BY <1>3, <1>4, <1>5, SameLatest DEF StartRun, TypeInv, TypeOK

LEMMA GenerateKeepsTypes ==
    ASSUME TypeInv, NEW w \in Workers, GenerateUnit(w) \/ GenerateUnitBlip(w)
    PROVE  TypeInv'
<1>1. pc[w] \in Started /\ pc[w] = "running"
  BY DEF GenerateUnit, GenerateUnitBlip, Generating, Started
<1>2. /\ held[w] \in Jobs /\ jobStatus[held[w]] # "none"
      /\ RunLike(run[w])
  BY <1>1, HeldType DEF TypeInv, TypeOK, WorkerTypes
<1>3. SimTypes' /\ EditTypes' /\ HasLatest' /\ blips' \in Nat /\ aborts' \in Nat
  BY SameLatest
  DEF GenerateUnit, GenerateUnitBlip, TypeInv, TypeOK, SimTypes, EditTypes, simVars
<1>4. jobStatus' = jobStatus /\ JobTypes'
  <2>1. run[w].unit + 1 \in Nat
    BY <1>2, RunType
  <2> QED
    BY <1>2, <2>1 DEF GenerateUnit, GenerateUnitBlip, TypeInv, TypeOK, JobTypes, simVars
<1>5. RowTypes'
  <2>1. \A r \in RowsOf(SimOf(w), Pending(w), Filled(w)) :
           r.sim \in Sims /\ ContentLike(r.content)
    BY <1>1, FilledType
  <2> QED
    BY <2>1 DEF GenerateUnit, GenerateUnitBlip, TypeInv, TypeOK, RowTypes
<1>6. PICK r : RunLike(r) /\ run' = [run EXCEPT ![w] = r]
  <2>1. CacheLike(Filled(w)) /\ Pending(w) \in SUBSET DOMAIN Filled(w)
        /\ {} \in SUBSET DOMAIN Filled(w)
    BY <1>1, FilledType
  <2>2. CASE GenerateUnit(w)
    <3>1. run' = [run EXCEPT ![w] = [run[w] EXCEPT !.cache = Filled(w), !.dirty = {},
                                                   !.unit = @ + 1]]
      BY <2>2 DEF GenerateUnit
    <3> QED
      BY <1>2, <2>1, <3>1, AdvanceRun
  <2>3. CASE GenerateUnitBlip(w)
    <3>1. run' = [run EXCEPT ![w] = [run[w] EXCEPT !.cache = Filled(w),
                     !.dirty = Pending(w), !.unit = @ + 1, !.expired = TRUE]]
      BY <2>3 DEF GenerateUnitBlip, Restored
    <3> QED
      BY <1>2, <2>1, <3>1, AdvanceRun
  <2> QED
    BY <2>2, <2>3
<1>7. WorkerTypes' /\ NothingDirty'
  <2>1. /\ pc' = [pc EXCEPT ![w] = "running"] /\ held' = [held EXCEPT ![w] = held[w]]
        /\ jobStatus' = jobStatus
    BY <1>1, <1>4 DEF GenerateUnit, GenerateUnitBlip, TypeInv, TypeOK, WorkerTypes
  <2> QED
    BY <1>2, <1>6, <2>1, WorkerStepKeepsTypes DEF Steps, Started
<1> QED
  BY <1>3, <1>4, <1>5, <1>7 DEF TypeInv, TypeOK

LEMMA ReadLatestKeepsTypes ==
    ASSUME TypeInv, NEW w \in Workers, ReadLatest(w)
    PROVE  TypeInv'
<1>1. /\ held[w] \in Jobs /\ SimOf(w) \in Sims /\ jobStatus[held[w]] # "none"
      /\ RunLike(run[w])
  BY HeldType DEF ReadLatest, Generated, TypeInv, TypeOK, WorkerTypes
<1>2. SimTypes' /\ JobTypes' /\ RowTypes' /\ EditTypes' /\ HasLatest'
      /\ blips' \in Nat /\ aborts' \in Nat
  BY SameLatest
  DEF ReadLatest, TypeInv, TypeOK, SimTypes, JobTypes, RowTypes, EditTypes,
      simVars, jobVars, dbRest
<1>3. WorkerTypes' /\ NothingDirty'
  <2> DEFINE r == [run[w] EXCEPT !.last = LatestNumber(SimOf(w))]
  <2>1. RunLike(r)
    <3>1. LatestNumber(SimOf(w)) \in Nat
      BY <1>1, LatestIsMax
    <3>2. r = [input |-> run[w].input, cache |-> run[w].cache, dirty |-> run[w].dirty,
               expired |-> run[w].expired, unit |-> run[w].unit,
               last |-> LatestNumber(SimOf(w))]
      BY <1>1, RunType
    <3> HIDE DEF r
    <3> QED
      BY <1>1, <3>1, <3>2, RunType, MakeRun
  <2>2. run' = [run EXCEPT ![w] = r] /\ held' = [held EXCEPT ![w] = held[w]]
    BY DEF ReadLatest, TypeInv, TypeOK, WorkerTypes
  <2> HIDE DEF r
  <2> QED
    BY <1>1, <2>1, <2>2, WorkerStepKeepsTypes DEF ReadLatest, Steps, Started, jobVars
<1> QED
  BY <1>2, <1>3 DEF TypeInv, TypeOK

LEMMA CommitKeepsTypes ==
    ASSUME TypeInv, NEW w \in Workers, CommitVersion(w) \/ CommitVersionBlip(w)
    PROVE  TypeInv'
<1>0. Deliver(w)
  BY DEF CommitVersion, CommitVersionBlip
<1>1. /\ held[w] \in Jobs /\ SimOf(w) \in Sims /\ simInput[SimOf(w)] \in Inputs
      /\ simStatus[SimOf(w)] # "none" /\ jobStatus[held[w]] # "none"
      /\ RunLike(run[w])
  BY <1>0, HeldType DEF Deliver, TypeInv, TypeOK, WorkerTypes
<1>2. PICK flagged \in BOOLEAN :
         /\ versions' = versions \union {NewVersion(w, flagged)}
         /\ published' = published \union (IF flagged THEN {} ELSE {NewVersion(w, FALSE)})
         /\ simStatus' = [simStatus EXCEPT ![SimOf(w)] =
                             IF flagged THEN "needs_review" ELSE "ready"]
  BY <1>0 DEF Deliver
<1>3. /\ NewVersion(w, flagged).sim = SimOf(w)
      /\ NewVersion(w, flagged).number \in Nat \ {0}
      /\ NewVersion(w, flagged).input \in Inputs
  BY <1>1, RunType DEF NewVersion
<1>4. SimTypes'
  BY <1>0, <1>1, <1>2 DEF Deliver, TypeInv, TypeOK, SimTypes, Statuses
<1>5. JobTypes'
  BY <1>0, <1>1, <1>2 DEF Deliver, TypeInv, TypeOK, SimTypes, JobTypes
<1>6. RowTypes'
  <2>1. \A r \in RowsOf(SimOf(w), run[w].dirty, run[w].cache) :
           r.sim \in Sims /\ ContentLike(r.content)
    <3>1. \A n \in run[w].dirty : ContentLike(run[w].cache[n])
      <4>1. run[w].dirty \subseteq DOMAIN run[w].cache /\ CacheLike(run[w].cache)
        BY <1>1, RunType
      <4> QED
        BY <4>1 DEF CacheLike
    <3> QED
      BY <1>1, <3>1 DEF RowsOf
  <2>2. published' \subseteq versions'
    <3>1. CASE flagged
      BY <1>2, <3>1 DEF TypeInv, TypeOK, RowTypes
    <3>2. CASE flagged = FALSE
      BY <1>2, <3>2 DEF TypeInv, TypeOK, RowTypes
    <3> QED
      BY <3>1, <3>2
  <2>3. \A r \in ckpt' : r.sim \in Sims /\ ContentLike(r.content)
    BY <1>0, <2>1 DEF Deliver, TypeInv, TypeOK, RowTypes
  <2>4. \A v \in versions' : v.sim \in Sims /\ v.number \in Nat \ {0} /\ v.input \in Inputs
    BY <1>1, <1>2, <1>3 DEF TypeInv, TypeOK, RowTypes
  <2> QED
    BY <1>0, <2>2, <2>3, <2>4 DEF Deliver, TypeInv, TypeOK, RowTypes
<1>7. WorkerTypes' /\ NothingDirty'
  <2>1. /\ \A j \in Jobs : jobStatus[j] # "none" => jobStatus'[j] # "none"
        /\ jobStatus'[held[w]] # "none"
    BY <1>0, <1>1 DEF Deliver, TypeInv, TypeOK, JobTypes
  <2>2. /\ run' = [run EXCEPT ![w] = NoRun] /\ run = [u \in Workers |-> run[u]]
        /\ pc \in [Workers -> Steps]
    BY <1>0 DEF Deliver, TypeInv, TypeOK, WorkerTypes, Steps
  <2>3. CASE CommitVersion(w)
    <3>1. WorkerTypes'
      BY <2>1, <2>2, <2>3, WorkerStep DEF CommitVersion, TypeInv, TypeOK, Steps, Started
    <3>2. NothingDirty'
      BY <2>2, <2>3 DEF CommitVersion, TypeInv, NothingDirty
    <3> QED
      BY <3>1, <3>2
  <2>4. CASE CommitVersionBlip(w)
    <3>1. pc' = [pc EXCEPT ![w] = "failing"] /\ held' = [held EXCEPT ![w] = held[w]]
      BY <2>4 DEF CommitVersionBlip, TypeInv, TypeOK, WorkerTypes
    <3> QED
      BY <1>1, <2>1, <2>2, <3>1, WorkerStepKeepsTypes DEF Steps, Started
  <2> QED
    BY <2>3, <2>4
<1>8. EditTypes'
  BY <1>0, <1>1, <1>2 DEF Deliver, TypeInv, TypeOK, SimTypes, EditTypes
<1>9. HasLatest'
  BY <1>1, <1>2, <1>3, KeepsLatest
<1>10. blips' \in Nat /\ aborts' \in Nat
  <2>1. blips \in Nat /\ aborts \in Nat /\ aborts' = aborts
    BY <1>0 DEF Deliver, TypeInv, TypeOK
  <2>2. blips' = blips \/ blips' = blips + 1
    BY DEF CommitVersion, CommitVersionBlip
  <2> QED
    BY <2>1, <2>2
<1> QED
  BY <1>4, <1>5, <1>6, <1>7, <1>8, <1>9, <1>10 DEF TypeInv, TypeOK

LEMMA AbortKeepsTypes ==
    ASSUME TypeInv, NEW w \in Workers, Abort(w)
    PROVE  TypeInv'
<1>1. SimTypes' /\ JobTypes' /\ RowTypes' /\ EditTypes' /\ HasLatest'
      /\ blips' \in Nat /\ aborts' \in Nat
  BY SameLatest
  DEF Abort, TypeInv, TypeOK, SimTypes, JobTypes, RowTypes, EditTypes,
      simVars, jobVars, dbRest
<1>2. WorkerTypes'
  BY WorkerStep DEF Abort, TypeInv, TypeOK, Steps, Started, jobVars
<1>3. NothingDirty'
  BY DEF Abort, TypeInv, TypeOK, WorkerTypes, NothingDirty
<1> QED
  BY <1>1, <1>2, <1>3 DEF TypeInv, TypeOK

LEMMA CreateKeepsTypes ==
    ASSUME TypeInv, NEW s \in Sims, NEW i \in Inputs, Create(s, i)
    PROVE  TypeInv'
<1>1. SimTypes' /\ simStatus'[s] # "none"
      /\ \A t \in Sims : simStatus[t] # "none" => simStatus'[t] # "none"
  BY DEF Create, TypeInv, TypeOK, SimTypes, Statuses
<1>2. JobTypes' /\ \A j \in Jobs : jobStatus[j] # "none" => jobStatus'[j] # "none"
  BY <1>1, QueueKeepsTypes DEF Create
<1>3. WorkerTypes' /\ NothingDirty'
  BY <1>2, IdleWorkers DEF Create
<1>4. RowTypes' /\ HasLatest' /\ blips' \in Nat /\ aborts' \in Nat
  BY SameLatest DEF Create, TypeInv, TypeOK, RowTypes, dbRest
<1>5. EditTypes'
  BY <1>1 DEF Create, TypeInv, TypeOK, EditTypes, EditLike
<1> QED
  BY <1>1, <1>2, <1>3, <1>4, <1>5 DEF TypeInv, TypeOK

LEMMA ReviseKeepsTypes ==
    ASSUME TypeInv, NEW c \in Clients,
           ReviseCommit(c) \/ \E s \in Sims, i \in Inputs : ReviseRead(c, s, i)
    PROVE  TypeInv'
<1>1. CASE \E s \in Sims, i \in Inputs : ReviseRead(c, s, i)
  <2>1. PICK s \in Sims, i \in Inputs : ReviseRead(c, s, i)
    BY <1>1
  <2>2. SimTypes' /\ JobTypes' /\ RowTypes' /\ HasLatest'
        /\ blips' \in Nat /\ aborts' \in Nat
    BY <2>1, SameLatest
    DEF ReviseRead, TypeInv, TypeOK, SimTypes, JobTypes, RowTypes, simVars,
        jobVars, dbRest
  <2>3. WorkerTypes' /\ NothingDirty'
    BY <2>1, IdleWorkers DEF ReviseRead, jobVars
  <2>4. EditTypes'
    <3> DEFINE e == [sim |-> s, input |-> i, full |-> FullScope(simInput[s], i),
                     stale |-> StaleNodes(simInput[s], i)]
    <3>1. EditLike(e)
      BY DEF EditLike, FullScope
    <3>2. edit' = [edit EXCEPT ![c] = e] /\ simStatus[e.sim] # "none"
          /\ simStatus' = simStatus
      BY <2>1 DEF ReviseRead, Revisable, simVars
    <3> HIDE DEF e
    <3> QED
      BY <3>1, <3>2 DEF TypeInv, TypeOK, EditTypes
  <2> QED
    BY <2>2, <2>3, <2>4 DEF TypeInv, TypeOK
<1>2. CASE ReviseCommit(c)
  <2> DEFINE e == edit[c]
  <2>1. e.sim \in Sims /\ e.input \in Inputs /\ simStatus[e.sim] # "none"
    BY <1>2 DEF ReviseCommit, TypeInv, TypeOK, EditTypes, EditLike
  <2>2. /\ simInput' = [simInput EXCEPT ![e.sim] = e.input]
        /\ simStatus' = [simStatus EXCEPT ![e.sim] = "queued"]
        /\ ckpt' = ckpt \ Deleted(e) /\ QueueJob(e.sim)
        /\ edit' = [edit EXCEPT ![c] = NoEdit]
    BY <1>2 DEF ReviseCommit
  <2> HIDE DEF e
  <2>3. SimTypes' /\ simStatus'[e.sim] # "none"
        /\ \A t \in Sims : simStatus[t] # "none" => simStatus'[t] # "none"
    BY <2>1, <2>2 DEF TypeInv, TypeOK, SimTypes, Statuses
  <2>4. JobTypes' /\ \A j \in Jobs : jobStatus[j] # "none" => jobStatus'[j] # "none"
    BY <1>2, <2>1, <2>2, <2>3, QueueKeepsTypes DEF ReviseCommit
  <2>5. WorkerTypes' /\ NothingDirty'
    BY <1>2, <2>4, IdleWorkers DEF ReviseCommit
  <2>6. RowTypes' /\ HasLatest' /\ blips' \in Nat /\ aborts' \in Nat
    BY <1>2, <2>2, SameLatest DEF ReviseCommit, TypeInv, TypeOK, RowTypes
  <2>7. EditTypes'
    BY <2>2, <2>3 DEF TypeInv, TypeOK, EditTypes, EditLike
  <2> QED
    BY <2>3, <2>4, <2>5, <2>6, <2>7 DEF TypeInv, TypeOK
<1> QED
  BY <1>1, <1>2

LEMMA ApproveKeepsTypes ==
    ASSUME TypeInv, NEW s \in Sims, Approve(s)
    PROVE  TypeInv'
<1>1. simStatus[s] # "none"
  BY JobRunnerAssumption DEF Approve, Statuses
<1>2. SimTypes' /\ JobTypes' /\ EditTypes'
  <2>1. SimTypes'
    BY <1>1 DEF Approve, TypeInv, TypeOK, SimTypes, Statuses
  <2>2. JobTypes' /\ EditTypes'
    BY <1>1 DEF Approve, TypeInv, TypeOK, SimTypes, JobTypes, EditTypes, EditLike, jobVars
  <2> QED
    BY <2>1, <2>2
<1>3. WorkerTypes' /\ NothingDirty'
  BY IdleWorkers DEF Approve, jobVars
<1>4. RowTypes' /\ HasLatest' /\ blips' \in Nat /\ aborts' \in Nat
  BY SameLatest DEF Approve, TypeInv, TypeOK, RowTypes, Latest
<1> QED
  BY <1>2, <1>3, <1>4 DEF TypeInv, TypeOK

LEMMA StutterKeepsTypes ==
    ASSUME TypeInv, UNCHANGED vars
    PROVE  TypeInv'
<1>1. SimTypes' /\ JobTypes' /\ EditTypes' /\ blips' \in Nat /\ aborts' \in Nat
  BY DEF vars, simVars, jobVars, TypeInv, TypeOK, SimTypes, JobTypes, EditTypes
<1>2. RowTypes' /\ HasLatest'
  BY SameLatest DEF vars, dbRest, TypeInv, TypeOK, RowTypes
<1>3. WorkerTypes' /\ NothingDirty'
  BY IdleWorkers DEF vars, jobVars
<1> QED
  BY <1>1, <1>2, <1>3 DEF TypeInv, TypeOK

LEMMA TypeStep == TypeInv /\ [Next]_vars => TypeInv'
<1> SUFFICES ASSUME TypeInv, [Next]_vars
             PROVE  TypeInv'
  OBVIOUS
<1>1. ASSUME NEW w \in Workers, SelectJob(w)
      PROVE  TypeInv'
  BY <1>1, ClaimKeepsTypes
<1>2. ASSUME NEW w \in Workers, Advance(w)
      PROVE  TypeInv'
  <2>1. CASE ExpiredFails(w)
    <3>1. pc[w] # "idle" /\ MarkFailed(w, "expired")
      BY <2>1 DEF ExpiredFails, Generated
    <3> QED
      BY <3>1, MarkFailedKeepsTypes
  <2>2. CASE CommitClaim(w) \/ LoadSim(w) \/ StartRun(w) \/ GenerateUnit(w)
             \/ ReadLatest(w) \/ CommitVersion(w)
    BY <2>2, ClaimKeepsTypes, LoadKeepsTypes, StartKeepsTypes, GenerateKeepsTypes,
       ReadLatestKeepsTypes, CommitKeepsTypes
  <2>3. CASE UnheardFails(w)
    <3>1. pc[w] # "idle" /\ MarkFailed(w, "engine")
      BY <2>3 DEF UnheardFails
    <3> QED
      BY <3>1, MarkFailedKeepsTypes
  <2> QED
    BY <1>2, <2>1, <2>2, <2>3 DEF Advance
<1>3. ASSUME NEW w \in Workers, RunFails(w)
      PROVE  TypeInv'
  <2>1. pc[w] # "idle" /\ MarkFailed(w, "engine")
    BY <1>3 DEF RunFails
  <2> QED
    BY <2>1, MarkFailedKeepsTypes
<1>4. ASSUME NEW w \in Workers, GenerateUnitBlip(w) \/ CommitVersionBlip(w) \/ Abort(w)
      PROVE  TypeInv'
  BY <1>4, GenerateKeepsTypes, CommitKeepsTypes, AbortKeepsTypes
<1>5. ASSUME NEW s \in Sims, NEW i \in Inputs, Create(s, i)
      PROVE  TypeInv'
  BY <1>5, CreateKeepsTypes
<1>6. ASSUME NEW c \in Clients,
             ReviseCommit(c) \/ \E s \in Sims, i \in Inputs : ReviseRead(c, s, i)
      PROVE  TypeInv'
  BY <1>6, ReviseKeepsTypes
<1>7. ASSUME NEW s \in Sims, Approve(s)
      PROVE  TypeInv'
  BY <1>7, ApproveKeepsTypes
<1>8. CASE UNCHANGED vars
  BY <1>8, StutterKeepsTypes
<1> QED
  BY <1>1, <1>2, <1>3, <1>4, <1>5, <1>6, <1>7, <1>8 DEF Next, WorkerNext

LEMMA TypeInvariant == Spec => []TypeInv
  BY TypeInit, TypeStep, PTL DEF Spec

\* Every state of the runner and of the database is well typed, whatever the
\* number of claimers and clients and whichever of them are cut off when; in
\* particular a claimer never holds a job that does not exist and never
\* generates from an input that was not authored.
THEOREM TypeCorrect == Spec => []TypeOK
<1>1. TypeInv => TypeOK
  BY DEF TypeInv
<1> QED
  BY <1>1, TypeInvariant, PTL

-----------------------------------------------------------------------------
(* The claim.                                                              *)

Working == {"claimed", "loaded", "running", "writing"}

\* What a claimer knows of the job it holds: selected, it is still queued;
\* claimed, it is running; delivered unheard, it is completed; and no other
\* claimer holds it.
ClaimInv ==
    /\ \A w \in Workers : /\ pc[w] = "selected" => jobStatus[held[w]] = "queued"
                          /\ pc[w] \in Working => jobStatus[held[w]] = "running"
                          /\ pc[w] = "failing" => jobStatus[held[w]] = "completed"
    /\ ClaimExclusive

\* Leaving a job, whatever status the claimer gives it.
LEMMA LeaveKeepsClaim ==
    ASSUME TypeInv, ClaimInv, NEW w \in Workers, pc[w] # "idle",
           NEW x, jobStatus' = [jobStatus EXCEPT ![held[w]] = x],
           pc' = [pc EXCEPT ![w] = "idle"], held' = [held EXCEPT ![w] = 0]
    PROVE  ClaimInv'
<1>1. \A u \in Workers \ {w} : /\ pc'[u] = pc[u] /\ held'[u] = held[u]
                               /\ pc[u] # "idle" => jobStatus'[held[u]] = jobStatus[held[u]]
  <2>1. \A u \in Workers \ {w} : pc[u] # "idle" => held[u] \in Jobs /\ held[u] # held[w]
    BY DEF TypeInv, TypeOK, WorkerTypes, ClaimInv, ClaimExclusive
  <2> QED
    BY <2>1 DEF TypeInv, TypeOK, WorkerTypes, JobTypes
<1>2. pc'[w] = "idle"
  BY DEF TypeInv, TypeOK, WorkerTypes
<1> QED
  BY <1>1, <1>2 DEF ClaimInv, ClaimExclusive, Working

\* Moving on with a job that stays running.
LEMMA MoveKeepsClaim ==
    ASSUME TypeInv, ClaimInv, NEW w \in Workers, pc[w] \in Working, NEW x \in Working,
           pc' = [pc EXCEPT ![w] = x], UNCHANGED <<jobStatus, held>>
    PROVE  ClaimInv'
  BY DEF TypeInv, TypeOK, WorkerTypes, ClaimInv, ClaimExclusive, Working

\* A new job is held by nobody.
LEMMA QueueKeepsClaim ==
    ASSUME TypeInv, ClaimInv, NEW s \in Sims, QueueJob(s), UNCHANGED workVars
    PROVE  ClaimInv' /\ \A j \in Jobs : jobStatus[j] # "none" => jobStatus'[j] = jobStatus[j]
<1>1. PICK j \in Jobs : jobStatus[j] = "none" /\ jobStatus' = [jobStatus EXCEPT ![j] = "queued"]
  BY DEF QueueJob, NextJob
<1>2. \A k \in Jobs : jobStatus[k] # "none" => jobStatus'[k] = jobStatus[k]
  BY <1>1 DEF TypeInv, TypeOK, JobTypes
<1>3. \A w \in Workers : pc[w] # "idle" => jobStatus'[held[w]] = jobStatus[held[w]]
  BY <1>2 DEF TypeInv, TypeOK, WorkerTypes
<1> QED
  BY <1>2, <1>3 DEF ClaimInv, ClaimExclusive, Working, workVars

LEMMA ClaimInit == Init => ClaimInv
  BY DEF Init, ClaimInv, ClaimExclusive, Working

\* What OutcomesAreFinal asks of a step.
OutcomeStays ==
    \A j \in Jobs :
       /\ jobStatus[j] = "failed" => jobStatus'[j] = "failed"
       /\ jobStatus[j] = "completed" =>
             \/ jobStatus'[j] = "completed"
             \/ /\ jobStatus'[j] = "failed"
                /\ \E w \in Workers : pc[w] = "failing" /\ held[w] = j

\* With locked rows skipped, a step keeps the claim, and keeps the status of
\* every job that has completed or failed, but for one whose claimer has not
\* heard of it.
LEMMA ClaimStep ==
    ASSUME SkipLocked, TypeInv, ClaimInv, [Next]_vars
    PROVE  ClaimInv' /\ OutcomeStays
<1>1. ASSUME NEW w \in Workers, SelectJob(w)
      PROVE  ClaimInv' /\ OutcomeStays
  <2>1. PICK j \in Claimable(w) : held' = [held EXCEPT ![w] = j]
    BY <1>1 DEF SelectJob
  <2>2. jobStatus[j] = "queued" /\ jobStatus' = jobStatus
    BY <1>1 DEF SelectJob, Claimable, jobVars
  <2>3. \A u \in Workers \ {w} : pc[u] # "idle" => held[u] # j
    <3>1. \A u \in Workers \ {w} : ~(pc[u] = "selected" /\ held[u] = j)
      BY <2>1 DEF Claimable
    <3>2. \A u \in Workers : pc[u] \in Working \union {"failing"} => held[u] # j
      BY <2>2 DEF ClaimInv
    <3> QED
      BY <3>1, <3>2 DEF TypeInv, TypeOK, WorkerTypes, Working
  <2>4. pc' = [pc EXCEPT ![w] = "selected"]
    BY <1>1 DEF SelectJob
  <2>5. held'[w] = j /\ \A u \in Workers \ {w} : held'[u] = held[u] /\ pc'[u] = pc[u]
    BY <2>1, <2>4 DEF TypeInv, TypeOK, WorkerTypes
  <2>6. pc'[w] = "selected"
    BY <2>4 DEF TypeInv, TypeOK, WorkerTypes
  <2> QED
    BY <2>2, <2>3, <2>5, <2>6 DEF ClaimInv, ClaimExclusive, Working, OutcomeStays
<1>2. ASSUME NEW w \in Workers, CommitClaim(w)
      PROVE  ClaimInv' /\ OutcomeStays
  <2>1. jobStatus[held[w]] = "queued" /\ held[w] \in Jobs
    BY <1>2, HeldType DEF CommitClaim, ClaimInv
  <2>2. /\ jobStatus' = [jobStatus EXCEPT ![held[w]] = "running"]
        /\ pc' = [pc EXCEPT ![w] = "claimed"] /\ held' = held
    BY <1>2 DEF CommitClaim
  <2>3. \A u \in Workers \ {w} : pc[u] # "idle" => held[u] # held[w]
    BY <1>2 DEF CommitClaim, ClaimInv, ClaimExclusive
  <2>4. \A u \in Workers \ {w} : pc'[u] = pc[u]
            /\ (pc[u] # "idle" => jobStatus'[held[u]] = jobStatus[held[u]])
    BY <2>2, <2>3 DEF TypeInv, TypeOK, WorkerTypes, JobTypes
  <2>5. pc'[w] = "claimed" /\ jobStatus'[held[w]] = "running"
    BY <2>1, <2>2 DEF TypeInv, TypeOK, WorkerTypes, JobTypes
  <2>6. ClaimExclusive'
    BY <1>2, <2>2, <2>4 DEF CommitClaim, ClaimInv, ClaimExclusive
  <2>7. OutcomeStays
    BY <2>1, <2>2 DEF TypeInv, TypeOK, JobTypes, OutcomeStays
  <2> QED
    BY <2>2, <2>4, <2>5, <2>6, <2>7 DEF ClaimInv, Working
<1>3. ASSUME NEW w \in Workers, RunFails(w) \/ ExpiredFails(w) \/ CommitVersion(w)
                                \/ UnheardFails(w) \/ Abort(w)
      PROVE  ClaimInv' /\ OutcomeStays
  <2>1. pc[w] # "idle" /\ held[w] \in Jobs
    BY <1>3, HeldType
    DEF RunFails, ExpiredFails, Generated, CommitVersion, Deliver, UnheardFails, Abort
  <2>2. pc' = [pc EXCEPT ![w] = "idle"] /\ held' = [held EXCEPT ![w] = 0]
    BY <1>3 DEF RunFails, ExpiredFails, UnheardFails, MarkFailed, CommitVersion, Abort
  <2>3. CASE Abort(w)
    <3>1. jobStatus' = [jobStatus EXCEPT ![held[w]] = jobStatus[held[w]]]
      BY <2>3 DEF Abort, jobVars, TypeInv, TypeOK, JobTypes
    <3> QED
      BY <2>1, <2>2, <2>3, <3>1, LeaveKeepsClaim DEF Abort, jobVars, OutcomeStays
  <2>4. CASE RunFails(w) \/ ExpiredFails(w) \/ CommitVersion(w)
    <3>1. jobStatus[held[w]] = "running"
      BY <2>4 DEF RunFails, ExpiredFails, Generated, CommitVersion, Deliver, ClaimInv, Working
    <3>2. PICK x : jobStatus' = [jobStatus EXCEPT ![held[w]] = x]
      BY <2>4 DEF RunFails, ExpiredFails, MarkFailed, CommitVersion, Deliver
    <3>3. ClaimInv'
      BY <2>1, <2>2, <3>2, LeaveKeepsClaim
    <3>4. OutcomeStays
      BY <3>1, <3>2 DEF TypeInv, TypeOK, JobTypes, OutcomeStays
    <3> QED
      BY <3>3, <3>4
  <2>5. CASE UnheardFails(w)
    <3>1. jobStatus' = [jobStatus EXCEPT ![held[w]] = "failed"] /\ pc[w] = "failing"
      BY <2>5 DEF UnheardFails, MarkFailed
    <3>2. ClaimInv'
      BY <2>1, <2>2, <3>1, LeaveKeepsClaim
    <3>3. OutcomeStays
      BY <2>1, <3>1 DEF TypeInv, TypeOK, JobTypes, OutcomeStays
    <3> QED
      BY <3>2, <3>3
  <2> QED
    BY <1>3, <2>3, <2>4, <2>5
<1>9. ASSUME NEW w \in Workers, CommitVersionBlip(w)
      PROVE  ClaimInv' /\ OutcomeStays
  <2>1. /\ jobStatus' = [jobStatus EXCEPT ![held[w]] = "completed"]
        /\ pc' = [pc EXCEPT ![w] = "failing"] /\ held' = held /\ pc[w] = "writing"
    BY <1>9 DEF CommitVersionBlip, Deliver
  <2>2. held[w] \in Jobs /\ jobStatus[held[w]] = "running"
    BY <2>1, HeldType DEF ClaimInv, Working
  <2>3. \A u \in Workers \ {w} : pc[u] # "idle" => held[u] # held[w]
    BY <2>1 DEF ClaimInv, ClaimExclusive
  <2>4. \A u \in Workers \ {w} : pc'[u] = pc[u]
            /\ (pc[u] # "idle" => jobStatus'[held[u]] = jobStatus[held[u]])
    BY <2>1, <2>3 DEF TypeInv, TypeOK, WorkerTypes, JobTypes
  <2>5. pc'[w] = "failing" /\ jobStatus'[held[w]] = "completed"
    BY <2>1, <2>2 DEF TypeInv, TypeOK, WorkerTypes, JobTypes
  <2>6. ClaimExclusive'
    BY <2>1, <2>4 DEF ClaimInv, ClaimExclusive
  <2>7. OutcomeStays
    BY <2>1, <2>2 DEF TypeInv, TypeOK, JobTypes, OutcomeStays
  <2> QED
    BY <2>1, <2>4, <2>5, <2>6, <2>7 DEF ClaimInv, Working
<1>4. ASSUME NEW w \in Workers, LoadSim(w) \/ StartRun(w) \/ GenerateUnit(w)
                                \/ GenerateUnitBlip(w) \/ ReadLatest(w)
      PROVE  ClaimInv' /\ OutcomeStays
  <2>1. UNCHANGED <<jobStatus, held>>
    BY <1>4 DEF LoadSim, StartRun, GenerateUnit, GenerateUnitBlip, ReadLatest, jobVars
  <2>2. pc[w] \in Working /\ \E x \in Working : pc' = [pc EXCEPT ![w] = x]
    <3>1. CASE GenerateUnit(w) \/ GenerateUnitBlip(w)
      <4>1. pc' = [pc EXCEPT ![w] = "running"]
        BY <3>1 DEF GenerateUnit, GenerateUnitBlip, Generating, TypeInv, TypeOK, WorkerTypes
      <4> QED
        BY <3>1, <4>1 DEF GenerateUnit, GenerateUnitBlip, Generating, Working
    <3>2. CASE LoadSim(w) \/ StartRun(w) \/ ReadLatest(w)
      BY <3>2 DEF LoadSim, StartRun, ReadLatest, Generated, Working
    <3> QED
      BY <1>4, <3>1, <3>2
  <2> QED
    BY <2>1, <2>2, MoveKeepsClaim DEF OutcomeStays
<1>5. ASSUME NEW s \in Sims, NEW i \in Inputs, Create(s, i)
      PROVE  ClaimInv' /\ OutcomeStays
  BY <1>5, QueueKeepsClaim DEF Create, OutcomeStays
<1>6. ASSUME NEW c \in Clients, ReviseCommit(c)
      PROVE  ClaimInv' /\ OutcomeStays
  <2>1. edit[c].sim \in Sims /\ QueueJob(edit[c].sim) /\ UNCHANGED workVars
    BY <1>6 DEF ReviseCommit, TypeInv, TypeOK, EditTypes, EditLike
  <2> QED
    BY <2>1, QueueKeepsClaim DEF OutcomeStays
<1>7. ASSUME UNCHANGED <<jobStatus, pc, held>>
      PROVE  ClaimInv' /\ OutcomeStays
  BY <1>7 DEF ClaimInv, ClaimExclusive, OutcomeStays
<1>8. CASE \/ UNCHANGED vars
           \/ \E c \in Clients, s \in Sims, i \in Inputs : ReviseRead(c, s, i)
           \/ \E s \in Sims : Approve(s)
  BY <1>7, <1>8 DEF vars, ReviseRead, Approve, workVars, jobVars
<1> QED
  BY <1>1, <1>2, <1>3, <1>4, <1>5, <1>6, <1>8, <1>9 DEF Next, WorkerNext, Advance

\* On a database that skips locked rows, two claimers never hold the same job,
\* for any number of claimers, jobs and cut-offs: the promise of
\* runner.py:3-5, from FOR UPDATE SKIP LOCKED alone.
THEOREM ClaimsAreExclusive == SkipLocked => (Spec => []ClaimExclusive)
<1> SUFFICES ASSUME SkipLocked
             PROVE  Spec => []ClaimExclusive
  OBVIOUS
<1>1. TypeInv /\ ClaimInv /\ [Next]_vars => ClaimInv'
  BY ClaimStep
<1>2. ClaimInv => ClaimExclusive
  BY DEF ClaimInv
<1> QED
  BY <1>1, <1>2, TypeInvariant, ClaimInit, PTL DEF Spec

\* On such a database a job is settled once: no claimer turns a completed or
\* failed job back into a running one, or completes one that has failed; and
\* "failed" replaces "completed" only where the claimer that completed the job
\* lost the answer to its final commit (runner.py:276-292).
THEOREM JobsSettleOnce == SkipLocked => (Spec => OutcomesAreFinal)
<1> SUFFICES ASSUME SkipLocked
             PROVE  Spec => OutcomesAreFinal
  OBVIOUS
<1>1. TypeInv /\ ClaimInv /\ [Next]_vars => ClaimInv'
  BY ClaimStep
<1>2. TypeInv /\ ClaimInv /\ [Next]_vars => [OutcomeStays]_vars
  BY ClaimStep
<1>3. [][OutcomeStays]_vars => OutcomesAreFinal
  BY PTL DEF OutcomesAreFinal, OutcomeStays
<1> QED
  BY <1>1, <1>2, <1>3, TypeInvariant, ClaimInit, PTL DEF Spec

-----------------------------------------------------------------------------
(***************************************************************************)
(* The lifecycle.                                                          *)
(***************************************************************************)

\* What the theorems assume: a database that skips locked rows, one revision
\* under way at a time and none while a claimer has yet to hear of its final
\* commit, and reviewers who are offered "approve" only for a version there is.
OneFacilitator ==
    /\ SkipLocked /\ Patient
    /\ \A c, d \in Clients : c = d
    /\ ReviewWhen \subseteq {"needs_review", "ready"}

AtRest == {"ready", "needs_review", "failed"}
Ongoing == {"queued", "generating"}
Open == {"queued", "running"}

\* A simulation is under way exactly as long as one of its jobs is open, and
\* before its job has been claimed nothing has been generated.
JobsFollow ==
    /\ \A j \in Jobs : jobStatus[j] \in Open => simStatus[jobSim[j]] \in Ongoing
    /\ \A j \in Jobs : jobStatus[j] = "queued" => simStatus[jobSim[j]] = "queued"
    /\ \A s \in Sims : simStatus[s] \in Ongoing => OpenJobs(s) # {}
    /\ OneOpenJob

\* What a claimer has read of its simulation still holds.
RunFollows(w) ==
    /\ pc[w] \in {"selected", "claimed", "loaded"} => simStatus[SimOf(w)] = "queued"
    /\ pc[w] \in {"running", "writing"} => simStatus[SimOf(w)] = "generating"
    /\ pc[w] \in Started => run[w].input = simInput[SimOf(w)]
    /\ pc[w] = "writing" => run[w].last = LatestNumber(SimOf(w))

RunsFollow == \A w \in Workers : RunFollows(w)

\* Nothing happens to a simulation while a revision of it is being decided.
EditsFollow == \A c \in Clients : edit[c] # NoEdit => simStatus[edit[c].sim] \in AtRest

NumbersDiffer ==
    \A u, v \in versions : u.sim = v.sim /\ u.number = v.number => u = v

\* What a simulation at rest promises about its latest version.
RestTellsTruth ==
    \A s \in Sims :
       /\ simStatus[s] = "ready" => Latest(s) # {} /\ Latest(s) \subseteq published
       /\ simStatus[s] = "needs_review" => Latest(s) # {} /\ Latest(s) \intersect published = {}

\* Until a claimer has heard of its final commit its simulation rests, nobody
\* revises it, and no other claimer is in doubt about it.
DoubtsFollow ==
    \A w \in Workers : pc[w] = "failing" =>
       /\ simStatus[SimOf(w)] \in {"ready", "needs_review"}
       /\ \A c \in Clients : edit[c] # NoEdit => edit[c].sim # SimOf(w)
       /\ \A u \in Workers \ {w} : pc[u] = "failing" => SimOf(u) # SimOf(w)

LifeInv ==
    JobsFollow /\ RunsFollow /\ EditsFollow /\ NumbersDiffer /\ RestTellsTruth /\ DoubtsFollow

-----------------------------------------------------------------------------
(* Lemmas.                                                                 *)

\* A claimer at work on a job holds an open one, and no other claimer holds
\* one of the same simulation.
LEMMA HoldsOpen ==
    ASSUME TypeInv, ClaimInv, NEW w \in Workers, pc[w] \notin {"idle", "failing"}
    PROVE  /\ held[w] \in Jobs /\ SimOf(w) \in Sims
           /\ jobStatus[held[w]] \in Open /\ held[w] \in OpenJobs(SimOf(w))
<1>1. held[w] \in Jobs /\ SimOf(w) \in Sims
  BY HeldType
<1>2. jobStatus[held[w]] \in Open
  BY DEF TypeInv, TypeOK, WorkerTypes, ClaimInv, Working, Open
<1> QED
  BY <1>1, <1>2 DEF OpenJobs, Open, SimOf

LEMMA WorkedOn ==
    ASSUME TypeInv, ClaimInv, LifeInv, NEW w \in Workers, pc[w] \notin {"idle", "failing"}
    PROVE  simStatus[SimOf(w)] \in Ongoing
<1>1. held[w] \in Jobs /\ jobStatus[held[w]] \in Open
  BY HoldsOpen
<1> QED
  BY <1>1 DEF LifeInv, JobsFollow, SimOf

LEMMA Alone ==
    ASSUME TypeInv, ClaimInv, LifeInv, NEW u \in Workers, NEW w \in Workers,
           u # w, pc[u] # "idle", pc[w] # "idle"
    PROVE  SimOf(u) # SimOf(w)
<1>1. \A x \in Workers : pc[x] = "failing" => simStatus[SimOf(x)] \notin Ongoing
  BY DEF LifeInv, DoubtsFollow, Ongoing
<1>2. CASE pc[u] # "failing" /\ pc[w] # "failing"
  <2>1. held[u] # held[w]
    BY DEF ClaimInv, ClaimExclusive
  <2>2. /\ held[u] \in OpenJobs(SimOf(u)) /\ held[w] \in OpenJobs(SimOf(w))
        /\ SimOf(u) \in Sims
    BY <1>2, HoldsOpen
  <2> QED
    BY <2>1, <2>2 DEF LifeInv, JobsFollow, OneOpenJob
<1>3. CASE pc[u] = "failing" /\ pc[w] = "failing"
  BY <1>3 DEF LifeInv, DoubtsFollow
<1>4. CASE pc[u] # "failing" /\ pc[w] = "failing"
  <2>1. simStatus[SimOf(u)] \in Ongoing /\ simStatus[SimOf(w)] \notin Ongoing
    BY <1>1, <1>4, WorkedOn
  <2> QED
    BY <2>1
<1>5. CASE pc[u] = "failing" /\ pc[w] # "failing"
  <2>1. simStatus[SimOf(w)] \in Ongoing /\ simStatus[SimOf(u)] \notin Ongoing
    BY <1>1, <1>5, WorkedOn
  <2> QED
    BY <2>1
<1> QED
  BY <1>2, <1>3, <1>4, <1>5

\* Claimers in doubt that are left alone, with their simulations at rest.
LEMMA DoubtsStay ==
    ASSUME LifeInv, UNCHANGED edit,
           \A u \in Workers : pc'[u] = "failing" =>
              /\ pc[u] = "failing" /\ SimOf(u)' = SimOf(u)
              /\ simStatus'[SimOf(u)] \in {"ready", "needs_review"}
    PROVE  DoubtsFollow'
  BY DEF LifeInv, DoubtsFollow

\* The same, in a step that leaves all simulations alone.
LEMMA SameDoubts ==
    ASSUME LifeInv, UNCHANGED <<simStatus, jobSim, edit>>,
           \A u \in Workers : pc'[u] = "failing" => pc[u] = "failing" /\ held'[u] = held[u]
    PROVE  DoubtsFollow'
<1>1. \A u \in Workers : pc'[u] = "failing" => SimOf(u)' = SimOf(u)
  BY DEF SimOf
<1>2. \A u \in Workers : pc'[u] = "failing" =>
         simStatus'[SimOf(u)] \in {"ready", "needs_review"}
  BY DEF LifeInv, DoubtsFollow
<1> QED
  BY <1>1, <1>2, DoubtsStay

LEMMA SameVersions ==
    ASSUME UNCHANGED versions
    PROVE  /\ \A s : LatestNumber(s)' = LatestNumber(s) /\ Latest(s)' = Latest(s)
           /\ NumbersDiffer => NumbersDiffer'
<1>1. \A s : Numbers(s)' = Numbers(s)
  BY DEF Numbers
<1> QED
  BY <1>1 DEF LatestNumber, Latest, NumbersDiffer

\* A claimer that is left alone, with its simulation left alone.
LEMMA StillFollows ==
    ASSUME NEW u \in Workers, RunFollows(u), NEW s, s = SimOf(u),
           pc'[u] = pc[u], held'[u] = held[u], run'[u] = run[u],
           jobSim'[held[u]] = jobSim[held[u]],
           simStatus'[s] = simStatus[s], simInput'[s] = simInput[s],
           LatestNumber(s)' = LatestNumber(s)
    PROVE  RunFollows(u)'
<1>1. SimOf(u)' = s
  BY DEF SimOf
<1> QED
  BY <1>1 DEF RunFollows

\* The same, in a step that leaves all simulations and versions alone.
LEMMA AllFollow ==
    ASSUME LifeInv, NEW u \in Workers, UNCHANGED <<simStatus, simInput, jobSim, versions>>,
           pc'[u] = pc[u], held'[u] = held[u], run'[u] = run[u]
    PROVE  RunFollows(u)'
<1>1. PICK s : s = SimOf(u)
  OBVIOUS
<1>2. LatestNumber(s)' = LatestNumber(s)
  BY SameVersions
<1>3. RunFollows(u)
  BY DEF LifeInv, RunsFollow
<1> QED
  BY <1>1, <1>2, <1>3, StillFollows

\* A job that ends leaves its simulation at rest, and no other simulation is touched.
LEMMA SettleKeepsJobs ==
    ASSUME TypeInv, ClaimInv, LifeInv, NEW w \in Workers, pc[w] # "idle",
           NEW x \in {"completed", "failed"}, NEW y \in AtRest,
           jobStatus' = [jobStatus EXCEPT ![held[w]] = x], UNCHANGED <<jobSim, edit>>,
           simStatus' = [simStatus EXCEPT ![SimOf(w)] = y]
    PROVE  /\ JobsFollow' /\ EditsFollow'
           /\ \A u \in Workers \ {w} : pc[u] # "idle" => simStatus'[SimOf(u)] = simStatus[SimOf(u)]
<1>0. PICK s \in Sims : s = SimOf(w)
  BY HeldType
<1>1. held[w] \in Jobs /\ jobSim[held[w]] = s
  BY <1>0, HeldType DEF SimOf
<1>2. /\ \A j \in Jobs \ {held[w]} : jobStatus'[j] = jobStatus[j]
      /\ jobStatus'[held[w]] = x
      /\ \A t \in Sims \ {s} : simStatus'[t] = simStatus[t]
      /\ simStatus'[s] = y
  BY <1>0, <1>1 DEF TypeInv, TypeOK, JobTypes, SimTypes
<1>3. x \notin Open /\ y \notin Ongoing
  BY DEF Open, Ongoing, AtRest
<1>4. OpenJobs(s)' = {}
  <2>1. \A j \in OpenJobs(s) : j = held[w]
    <3>1. CASE pc[w] = "failing"
      <4>1. simStatus[s] \notin Ongoing
        BY <1>0, <3>1 DEF LifeInv, DoubtsFollow, Ongoing
      <4> QED
        BY <4>1 DEF LifeInv, JobsFollow, OpenJobs, Open
    <3>2. CASE pc[w] # "failing"
      <4>1. held[w] \in OpenJobs(s)
        BY <1>0, <3>2, HoldsOpen
      <4> QED
        BY <4>1 DEF LifeInv, JobsFollow, OneOpenJob
    <3> QED
      BY <3>1, <3>2
  <2> QED
    BY <1>2, <1>3, <2>1 DEF OpenJobs, Open
<1>5. \A t \in Sims \ {s} : OpenJobs(t)' = OpenJobs(t)
  BY <1>1, <1>2 DEF OpenJobs
<1>6. JobsFollow'
  <2>1. \A j \in Jobs : jobStatus'[j] \in Open =>
           jobSim[j] \in Sims \ {s} /\ jobStatus'[j] = jobStatus[j]
    BY <1>1, <1>2, <1>3, <1>4 DEF OpenJobs, Open, TypeInv, TypeOK, JobTypes
  <2>2. \A j \in Jobs : jobStatus'[j] \in Open => simStatus'[jobSim'[j]] \in Ongoing
    BY <1>2, <2>1 DEF LifeInv, JobsFollow
  <2>3. \A j \in Jobs : jobStatus'[j] = "queued" => simStatus'[jobSim'[j]] = "queued"
    BY <1>2, <2>1 DEF LifeInv, JobsFollow, Open
  <2>4. \A t \in Sims : simStatus'[t] \in Ongoing => OpenJobs(t)' # {}
    BY <1>2, <1>3, <1>5 DEF LifeInv, JobsFollow
  <2>5. OneOpenJob'
    BY <1>4, <1>5 DEF LifeInv, JobsFollow, OneOpenJob
  <2> QED
    BY <2>2, <2>3, <2>4, <2>5 DEF JobsFollow
<1>7. EditsFollow'
  BY <1>2 DEF LifeInv, EditsFollow, TypeInv, TypeOK, EditTypes, EditLike
<1>8. ASSUME NEW u \in Workers \ {w}, pc[u] # "idle"
      PROVE  simStatus'[SimOf(u)] = simStatus[SimOf(u)]
  BY <1>0, <1>2, <1>8, Alone, HeldType
<1> QED
  BY <1>6, <1>7, <1>8

\* A simulation at rest, or new, gets its only open job; no claimer works on it.
LEMMA QueueKeepsJobs ==
    ASSUME TypeInv, ClaimInv, LifeInv, NEW s \in Sims, simStatus[s] \notin Ongoing, ~Unheard(s),
           QueueJob(s), simStatus' = [simStatus EXCEPT ![s] = "queued"]
    PROVE  /\ JobsFollow'
           /\ \A w \in Workers : pc[w] # "idle" =>
                 /\ SimOf(w) # s /\ jobSim'[held[w]] = jobSim[held[w]]
                 /\ simStatus'[SimOf(w)] = simStatus[SimOf(w)]
<1>1. PICK j \in NextJob : /\ jobStatus' = [jobStatus EXCEPT ![j] = "queued"]
                           /\ jobSim' = [jobSim EXCEPT ![j] = s]
  BY DEF QueueJob
<1>2. /\ j \in Jobs /\ jobStatus[j] = "none"
      /\ jobStatus'[j] = "queued" /\ jobSim'[j] = s
      /\ \A k \in Jobs \ {j} : jobStatus'[k] = jobStatus[k] /\ jobSim'[k] = jobSim[k]
      /\ simStatus'[s] = "queued" /\ \A t \in Sims \ {s} : simStatus'[t] = simStatus[t]
  BY <1>1 DEF NextJob, TypeInv, TypeOK, JobTypes, SimTypes
<1>3. \A k \in Jobs : jobStatus[k] \in Open => jobSim[k] \in Sims \ {s} /\ k # j
  BY <1>2 DEF LifeInv, JobsFollow, Open, TypeInv, TypeOK, JobTypes
<1>4. OpenJobs(s)' = {j}
  BY <1>2, <1>3 DEF OpenJobs, Open
<1>5. \A t \in Sims \ {s} : OpenJobs(t)' = OpenJobs(t)
  <2> SUFFICES ASSUME NEW t \in Sims \ {s} PROVE OpenJobs(t)' = OpenJobs(t)
    OBVIOUS
  <2>1. \A k \in Jobs : k \in OpenJobs(t)' <=> k \in OpenJobs(t)
    BY <1>2, <1>3 DEF OpenJobs, Open
  <2> QED
    BY <2>1 DEF OpenJobs
<1>6. JobsFollow'
  <2>1. \A k \in Jobs \ {j} : jobStatus'[k] \in Open => simStatus'[jobSim'[k]] = simStatus[jobSim[k]]
    BY <1>2, <1>3
  <2>2. \A k \in Jobs : jobStatus'[k] \in Open => simStatus'[jobSim'[k]] \in Ongoing
    BY <1>2, <2>1 DEF LifeInv, JobsFollow, Ongoing
  <2>3. \A k \in Jobs : jobStatus'[k] = "queued" => simStatus'[jobSim'[k]] = "queued"
    BY <1>2, <2>1 DEF LifeInv, JobsFollow, Open
  <2>4. \A t \in Sims : simStatus'[t] \in Ongoing => OpenJobs(t)' # {}
    BY <1>2, <1>4, <1>5 DEF LifeInv, JobsFollow
  <2>5. OneOpenJob'
    BY <1>4, <1>5 DEF LifeInv, JobsFollow, OneOpenJob
  <2> QED
    BY <2>2, <2>3, <2>4, <2>5 DEF JobsFollow
<1>7. ASSUME NEW w \in Workers, pc[w] # "idle"
      PROVE  /\ SimOf(w) # s /\ jobSim'[held[w]] = jobSim[held[w]]
             /\ simStatus'[SimOf(w)] = simStatus[SimOf(w)]
  <2>1. held[w] \in Jobs /\ jobStatus[held[w]] # "none" /\ SimOf(w) \in Sims
    BY <1>7, HeldType
  <2>2. SimOf(w) # s
    <3>1. CASE pc[w] = "failing"
      BY <3>1 DEF Unheard
    <3>2. CASE pc[w] # "failing"
      BY <1>3, <1>7, <3>2, HoldsOpen DEF SimOf
    <3> QED
      BY <3>1, <3>2
  <2>3. jobSim'[held[w]] = jobSim[held[w]]
    BY <1>2, <2>1
  <2>4. simStatus'[SimOf(w)] = simStatus[SimOf(w)]
    BY <1>2, <2>1, <2>2
  <2> QED
    BY <2>2, <2>3, <2>4
<1> QED
  BY <1>6, <1>7

\* Steps that leave the statuses of the simulations and which jobs are open.
LEMMA SameOpen ==
    ASSUME LifeInv, UNCHANGED <<simStatus, jobStatus, jobSim, edit>>
    PROVE  JobsFollow' /\ EditsFollow'
<1>1. \A s : OpenJobs(s)' = OpenJobs(s)
  BY DEF OpenJobs
<1> QED
  BY <1>1 DEF LifeInv, JobsFollow, EditsFollow, OneOpenJob

LEMMA SameRest ==
    ASSUME LifeInv, UNCHANGED <<versions, published>>,
           \A s \in Sims : simStatus'[s] \in {"ready", "needs_review"} => simStatus'[s] = simStatus[s]
    PROVE  NumbersDiffer' /\ RestTellsTruth'
<1>1. \A s : Latest(s)' = Latest(s)
  BY SameVersions
<1> QED
  BY <1>1, SameVersions DEF LifeInv, RestTellsTruth

-----------------------------------------------------------------------------
(* One lemma per action.                                                   *)

LEMMA SelectKeepsLife ==
    ASSUME TypeInv, ClaimInv, LifeInv, NEW w \in Workers, SelectJob(w)
    PROVE  LifeInv'
<1>1. PICK j \in Claimable(w) : held' = [held EXCEPT ![w] = j]
  BY DEF SelectJob
<1>2. /\ UNCHANGED <<simStatus, simInput, jobStatus, jobSim, versions, published, run, edit>>
      /\ pc' = [pc EXCEPT ![w] = "selected"]
      /\ j \in Jobs /\ jobStatus[j] = "queued"
  BY DEF SelectJob, Claimable, simVars, jobVars, dbRest
<1>3. /\ held'[w] = j /\ pc'[w] = "selected"
      /\ \A u \in Workers \ {w} : held'[u] = held[u] /\ pc'[u] = pc[u]
  BY <1>1, <1>2 DEF TypeInv, TypeOK, WorkerTypes
<1>4. RunsFollow'
  <2>1. ASSUME NEW u \in Workers \ {w} PROVE RunFollows(u)'
    BY <1>2, <1>3, AllFollow
  <2>2. RunFollows(w)'
    BY <1>2, <1>3 DEF LifeInv, JobsFollow, RunFollows, SimOf, Started
  <2> QED
    BY <2>1, <2>2 DEF RunsFollow
<1>5. DoubtsFollow'
  BY <1>2, <1>3, SameDoubts
<1> QED
  BY <1>2, <1>4, <1>5, SameOpen, SameRest DEF LifeInv

LEMMA ClaimKeepsLife ==
    ASSUME TypeInv, ClaimInv, LifeInv, NEW w \in Workers, CommitClaim(w)
    PROVE  LifeInv'
<1>1. /\ UNCHANGED <<simStatus, simInput, jobSim, versions, published, held, run, edit>>
      /\ jobStatus' = [jobStatus EXCEPT ![held[w]] = "running"]
      /\ pc' = [pc EXCEPT ![w] = "claimed"] /\ pc[w] = "selected"
  BY DEF CommitClaim, simVars, dbRest
<1>2. held[w] \in Jobs /\ jobStatus[held[w]] = "queued"
  BY <1>1, HoldsOpen DEF ClaimInv
<1>3. /\ jobStatus'[held[w]] = "running"
      /\ \A j \in Jobs \ {held[w]} : jobStatus'[j] = jobStatus[j]
  BY <1>1, <1>2 DEF TypeInv, TypeOK, JobTypes
<1>4. \A s : OpenJobs(s)' = OpenJobs(s)
  BY <1>1, <1>2, <1>3 DEF OpenJobs
<1>5. JobsFollow' /\ EditsFollow'
  BY <1>1, <1>2, <1>3, <1>4 DEF LifeInv, JobsFollow, EditsFollow, OneOpenJob, Open
<1>6. RunsFollow'
  <2>1. pc'[w] = "claimed" /\ \A u \in Workers \ {w} : pc'[u] = pc[u]
    BY <1>1 DEF TypeInv, TypeOK, WorkerTypes
  <2>2. ASSUME NEW u \in Workers \ {w} PROVE RunFollows(u)'
    BY <1>1, <2>1, AllFollow
  <2>3. RunFollows(w)'
    BY <1>1, <2>1 DEF LifeInv, RunsFollow, RunFollows, SimOf, Started
  <2> QED
    BY <2>2, <2>3 DEF RunsFollow
<1>7. DoubtsFollow'
  <2>1. \A u \in Workers : pc'[u] = "failing" => pc[u] = "failing" /\ held'[u] = held[u]
    BY <1>1 DEF TypeInv, TypeOK, WorkerTypes
  <2> QED
    BY <1>1, <2>1, SameDoubts
<1> QED
  BY <1>1, <1>5, <1>6, <1>7, SameRest DEF LifeInv

LEMMA LoadKeepsLife ==
    ASSUME TypeInv, ClaimInv, LifeInv, NEW w \in Workers, LoadSim(w)
    PROVE  LifeInv'
<1> DEFINE fresh == [input |-> simInput[SimOf(w)], cache |-> <<>>, dirty |-> {},
                     expired |-> FALSE, unit |-> 0, last |-> 0]
<1>1. /\ UNCHANGED <<simStatus, simInput, jobStatus, jobSim, versions, published, held, edit>>
      /\ pc' = [pc EXCEPT ![w] = "loaded"] /\ pc[w] = "claimed"
      /\ run' = [run EXCEPT ![w] = fresh] /\ fresh.input = simInput[SimOf(w)]
  BY DEF LoadSim, simVars, jobVars, dbRest
<1> HIDE DEF fresh
<1>2. /\ pc'[w] = "loaded" /\ run'[w] = fresh
      /\ \A u \in Workers \ {w} : pc'[u] = pc[u] /\ run'[u] = run[u]
  BY <1>1 DEF TypeInv, TypeOK, WorkerTypes
<1>3. RunsFollow'
  <2>1. ASSUME NEW u \in Workers \ {w} PROVE RunFollows(u)'
    BY <1>1, <1>2, AllFollow
  <2>2. RunFollows(w)'
    BY <1>1, <1>2 DEF LifeInv, RunsFollow, RunFollows, SimOf, Started
  <2> QED
    BY <2>1, <2>2 DEF RunsFollow
<1>4. DoubtsFollow'
  BY <1>1, <1>2, SameDoubts
<1> QED
  BY <1>1, <1>3, <1>4, SameOpen, SameRest DEF LifeInv

LEMMA StartKeepsLife ==
    ASSUME TypeInv, ClaimInv, LifeInv, NEW w \in Workers, StartRun(w)
    PROVE  LifeInv'
<1>1. PICK c : run' = [run EXCEPT ![w].cache = c]
  BY DEF StartRun
<1>2. /\ UNCHANGED <<simInput, jobStatus, jobSim, versions, published, held, edit>>
      /\ pc' = [pc EXCEPT ![w] = "running"] /\ pc[w] = "loaded"
      /\ simStatus' = [simStatus EXCEPT ![SimOf(w)] = "generating"]
  BY DEF StartRun, jobVars
<1>3. PICK s \in Sims : s = SimOf(w)
  BY <1>2, HoldsOpen
<1>4. /\ pc'[w] = "running" /\ run'[w] = [run[w] EXCEPT !.cache = c]
      /\ \A u \in Workers \ {w} : pc'[u] = pc[u] /\ run'[u] = run[u]
      /\ simStatus[s] = "queued" /\ simStatus'[s] = "generating"
      /\ \A t \in Sims \ {s} : simStatus'[t] = simStatus[t]
  BY <1>1, <1>2, <1>3
  DEF TypeInv, TypeOK, WorkerTypes, SimTypes, LifeInv, RunsFollow, RunFollows
<1>5. run'[w].input = run[w].input
  BY <1>2, <1>4, RunType DEF TypeInv, TypeOK, WorkerTypes
<1>6. JobsFollow'
  <2>1. \A t : OpenJobs(t)' = OpenJobs(t)
    BY <1>2 DEF OpenJobs
  <2>2. \A j \in Jobs : jobStatus[j] = "queued" => jobSim[j] # s
    <3>1. held[w] \in OpenJobs(s) /\ jobStatus[held[w]] = "running"
      BY <1>2, <1>3, HoldsOpen DEF ClaimInv, Working
    <3> QED
      BY <3>1 DEF LifeInv, JobsFollow, OneOpenJob, OpenJobs
  <2> QED
    BY <1>2, <1>4, <2>1, <2>2
    DEF LifeInv, JobsFollow, OneOpenJob, Ongoing, TypeInv, TypeOK, JobTypes
<1>7. EditsFollow'
  BY <1>2, <1>4 DEF LifeInv, EditsFollow, AtRest, TypeInv, TypeOK, EditTypes, EditLike
<1>8. RunsFollow'
  <2>1. ASSUME NEW u \in Workers \ {w}, pc[u] # "idle" PROVE RunFollows(u)'
    <3>1. PICK t \in Sims \ {s} : t = SimOf(u)
      BY <1>2, <1>3, <2>1, Alone, HeldType
    <3>2. LatestNumber(t)' = LatestNumber(t) /\ RunFollows(u)
      BY <1>2, SameVersions DEF LifeInv, RunsFollow
    <3> QED
      BY <1>2, <1>4, <3>1, <3>2, StillFollows
  <2>2. ASSUME NEW u \in Workers \ {w}, pc[u] = "idle" PROVE RunFollows(u)'
    BY <1>4, <2>2 DEF RunFollows, Started
  <2>3. RunFollows(w)'
    BY <1>2, <1>3, <1>4, <1>5 DEF LifeInv, RunsFollow, RunFollows, SimOf, Started
  <2> QED
    BY <2>1, <2>2, <2>3 DEF RunsFollow
<1>9. NumbersDiffer' /\ RestTellsTruth'
  BY <1>2, <1>4, SameRest
<1>10. DoubtsFollow'
  <2>1. ASSUME NEW u \in Workers, pc'[u] = "failing"
        PROVE  /\ pc[u] = "failing" /\ SimOf(u)' = SimOf(u)
               /\ simStatus'[SimOf(u)] \in {"ready", "needs_review"}
    <3>1. u # w /\ pc[u] = "failing"
      BY <1>4, <2>1
    <3>2. SimOf(u) \in Sims \ {s} /\ SimOf(u)' = SimOf(u)
      BY <1>2, <1>3, <3>1, Alone, HeldType DEF SimOf
    <3> QED
      BY <1>4, <3>1, <3>2 DEF LifeInv, DoubtsFollow
  <2> QED
    BY <1>2, <2>1, DoubtsStay
<1> QED
  BY <1>6, <1>7, <1>8, <1>9, <1>10 DEF LifeInv

LEMMA GenerateKeepsLife ==
    ASSUME TypeInv, ClaimInv, LifeInv, NEW w \in Workers, GenerateUnit(w) \/ GenerateUnitBlip(w)
    PROVE  LifeInv'
<1>1. /\ UNCHANGED <<simStatus, simInput, jobStatus, jobSim, versions, published, pc, held, edit>>
      /\ pc[w] = "running"
  BY DEF GenerateUnit, GenerateUnitBlip, Generating, simVars
<1>2. /\ run'[w].input = run[w].input
      /\ \A u \in Workers \ {w} : run'[u] = run[u]
  <2>1. RunLike(run[w]) /\ run = [u \in Workers |-> run[u]]
    BY <1>1 DEF TypeInv, TypeOK, WorkerTypes
  <2>2. CASE GenerateUnit(w)
    BY <2>1, <2>2, RunType DEF GenerateUnit
  <2>3. CASE GenerateUnitBlip(w)
    BY <2>1, <2>3, RunType DEF GenerateUnitBlip
  <2> QED
    BY <2>2, <2>3
<1>3. RunsFollow'
  <2>1. ASSUME NEW u \in Workers \ {w} PROVE RunFollows(u)'
    BY <1>1, <1>2, AllFollow
  <2>2. RunFollows(w)'
    BY <1>1, <1>2 DEF LifeInv, RunsFollow, RunFollows, SimOf, Started
  <2> QED
    BY <2>1, <2>2 DEF RunsFollow
<1>4. DoubtsFollow'
  BY <1>1, SameDoubts
<1> QED
  BY <1>1, <1>3, <1>4, SameOpen, SameRest DEF LifeInv

LEMMA ReadLatestKeepsLife ==
    ASSUME TypeInv, ClaimInv, LifeInv, NEW w \in Workers, ReadLatest(w)
    PROVE  LifeInv'
<1>1. /\ UNCHANGED <<simStatus, simInput, jobStatus, jobSim, versions, published, held, edit>>
      /\ pc[w] = "running" /\ pc' = [pc EXCEPT ![w] = "writing"]
      /\ run' = [run EXCEPT ![w].last = LatestNumber(SimOf(w))]
  BY DEF ReadLatest, Generated, simVars, jobVars, dbRest
<1>2. /\ run'[w].input = run[w].input /\ run'[w].last = LatestNumber(SimOf(w))
      /\ pc'[w] = "writing"
      /\ \A u \in Workers \ {w} : run'[u] = run[u] /\ pc'[u] = pc[u]
  <2>1. RunLike(run[w]) /\ run = [u \in Workers |-> run[u]]
    BY <1>1 DEF TypeInv, TypeOK, WorkerTypes
  <2> QED
    BY <1>1, <2>1, RunType DEF TypeInv, TypeOK, WorkerTypes
<1>3. RunsFollow'
  <2>1. ASSUME NEW u \in Workers \ {w} PROVE RunFollows(u)'
    BY <1>1, <1>2, AllFollow
  <2>2. RunFollows(w)'
    <3>1. PICK s : s = SimOf(w)
      OBVIOUS
    <3>2. SimOf(w)' = s /\ LatestNumber(s)' = LatestNumber(s)
      BY <1>1, <3>1, SameVersions DEF SimOf
    <3> QED
      BY <1>1, <1>2, <3>1, <3>2 DEF LifeInv, RunsFollow, RunFollows, Started
  <2> QED
    BY <2>1, <2>2 DEF RunsFollow
<1>4. DoubtsFollow'
  BY <1>1, <1>2, SameDoubts
<1> QED
  BY <1>1, <1>3, <1>4, SameOpen, SameRest DEF LifeInv

LEMMA FailKeepsLife ==
    ASSUME TypeInv, ClaimInv, LifeInv, NEW w \in Workers, pc[w] # "idle",
           NEW error, MarkFailed(w, error)
    PROVE  LifeInv'
<1>1. /\ UNCHANGED <<simInput, jobSim, versions, published, edit>>
      /\ jobStatus' = [jobStatus EXCEPT ![held[w]] = "failed"]
      /\ simStatus' = [simStatus EXCEPT ![SimOf(w)] = "failed"]
      /\ pc' = [pc EXCEPT ![w] = "idle"] /\ held' = [held EXCEPT ![w] = 0]
      /\ run' = [run EXCEPT ![w] = NoRun]
  BY DEF MarkFailed, dbRest
<1>2. /\ JobsFollow' /\ EditsFollow'
      /\ \A u \in Workers \ {w} : pc[u] # "idle" => simStatus'[SimOf(u)] = simStatus[SimOf(u)]
  <2>1. "failed" \in {"completed", "failed"} /\ "failed" \in AtRest
    BY DEF AtRest
  <2> QED
    BY <1>1, <2>1, SettleKeepsJobs
<1>3. /\ pc'[w] = "idle"
      /\ \A u \in Workers \ {w} : pc'[u] = pc[u] /\ held'[u] = held[u] /\ run'[u] = run[u]
  BY <1>1 DEF TypeInv, TypeOK, WorkerTypes
<1>4. RunsFollow'
  <2>1. ASSUME NEW u \in Workers \ {w}, pc[u] # "idle" PROVE RunFollows(u)'
    <3>1. PICK t : t = SimOf(u)
      OBVIOUS
    <3>2. LatestNumber(t)' = LatestNumber(t) /\ RunFollows(u)
      BY <1>1, SameVersions DEF LifeInv, RunsFollow
    <3> QED
      BY <1>1, <1>2, <1>3, <2>1, <3>1, <3>2, StillFollows
  <2>2. ASSUME NEW u \in Workers, pc'[u] = "idle" PROVE RunFollows(u)'
    BY <2>2 DEF RunFollows, Started
  <2> QED
    BY <1>3, <2>1, <2>2 DEF RunsFollow
<1>5. NumbersDiffer' /\ RestTellsTruth'
  <2>1. \A s \in Sims : simStatus'[s] = simStatus[s] \/ simStatus'[s] = "failed"
    BY <1>1 DEF TypeInv, TypeOK, SimTypes
  <2> QED
    BY <1>1, <2>1, SameRest
<1>6. DoubtsFollow'
  <2>1. ASSUME NEW u \in Workers, pc'[u] = "failing"
        PROVE  /\ pc[u] = "failing" /\ SimOf(u)' = SimOf(u)
               /\ simStatus'[SimOf(u)] \in {"ready", "needs_review"}
    <3>1. u # w /\ pc[u] = "failing"
      BY <1>3, <2>1
    <3>2. SimOf(u)' = SimOf(u) /\ simStatus'[SimOf(u)] = simStatus[SimOf(u)]
      BY <1>1, <1>2, <1>3, <3>1 DEF SimOf
    <3> QED
      BY <3>1, <3>2 DEF LifeInv, DoubtsFollow
  <2> QED
    BY <1>1, <2>1, DoubtsStay
<1> QED
  BY <1>2, <1>4, <1>5, <1>6 DEF LifeInv

\* A run writes the next version of its simulation: the only one of its
\* number, published exactly when nothing was flagged.
LEMMA NextVersion ==
    ASSUME TypeInv, ClaimInv, LifeInv, NEW w \in Workers, pc[w] = "writing",
           NEW s \in Sims, s = SimOf(w), NEW flagged \in BOOLEAN,
           versions' = versions \union {NewVersion(w, flagged)},
           published' = published \union (IF flagged THEN {} ELSE {NewVersion(w, FALSE)})
    PROVE  /\ LatestNumber(s)' = LatestNumber(s) + 1 /\ LatestNumber(s) \in Nat
           /\ Latest(s)' = {NewVersion(w, flagged)}
           /\ flagged => Latest(s)' \intersect published' = {}
           /\ ~flagged => Latest(s)' \subseteq published'
           /\ \A t \in Sims \ {s} : LatestNumber(t)' = LatestNumber(t) /\ Latest(t)' = Latest(t)
           /\ \A t \in Sims \ {s} : published' \intersect Latest(t) = published \intersect Latest(t)
           /\ NumbersDiffer'
<1> DEFINE v == NewVersion(w, flagged)
           top == LatestNumber(s)
<1>1. /\ top \in Nat /\ (\A n \in Numbers(s) : n <= top)
      /\ \A u \in versions : u.number \in Nat /\ u.sim \in Sims
      /\ published \subseteq versions
  BY LatestIsMax DEF TypeInv, TypeOK, RowTypes
<1>2. v.sim = s /\ v.number = top + 1
  BY DEF LifeInv, RunsFollow, RunFollows, NewVersion
<1>3. (~flagged) => v = NewVersion(w, FALSE)
  OBVIOUS
<1> HIDE DEF v
<1>4. \A u \in versions : u.sim = s => u.number <= top
  BY <1>1 DEF Numbers
<1>5. versions' = versions \union {v} /\ published' = published \union (IF flagged THEN {} ELSE {v})
  BY <1>3 DEF v
<1>6. Numbers(s)' = Numbers(s) \union {top + 1}
  BY <1>2, <1>5 DEF Numbers
<1>7. LatestNumber(s)' = top + 1
  <2>1. \A m \in Numbers(s)' : m <= top + 1
    <3>1. Numbers(s) \subseteq Nat
      BY <1>1 DEF Numbers
    <3> HIDE DEF top
    <3> QED
      BY <1>1, <1>6, <3>1
  <2>2. \A n \in Numbers(s)' \union {0} : (\A m \in Numbers(s)' : m <= n) => n = top + 1
    <3>1. Numbers(s) \subseteq Nat
      BY <1>1 DEF Numbers
    <3> HIDE DEF top
    <3> QED
      BY <1>1, <1>6, <3>1
  <2> HIDE DEF top
  <2> QED
    BY <1>6, <2>1, <2>2 DEF LatestNumber
<1>8. Latest(s)' = {v}
  <2> HIDE DEF top
  <2> QED
    BY <1>1, <1>2, <1>4, <1>5, <1>7 DEF Latest
<1>9. v \notin versions
  <2> HIDE DEF top
  <2> QED
    BY <1>1, <1>2, <1>4
<1>10. ASSUME NEW t \in Sims \ {s}
       PROVE  /\ LatestNumber(t)' = LatestNumber(t) /\ Latest(t)' = Latest(t)
              /\ published' \intersect Latest(t) = published \intersect Latest(t)
  <2>1. Numbers(t)' = Numbers(t)
    BY <1>2, <1>5 DEF Numbers
  <2>2. LatestNumber(t)' = LatestNumber(t)
    BY <2>1 DEF LatestNumber
  <2> QED
    BY <1>2, <1>5, <2>2 DEF Latest
<1>11. NumbersDiffer'
  <2> HIDE DEF top
  <2> QED
    BY <1>1, <1>2, <1>4, <1>5 DEF LifeInv, NumbersDiffer
<1> QED
  <2>1. flagged => Latest(s)' \intersect published' = {}
    BY <1>1, <1>5, <1>8, <1>9
  <2>2. ~flagged => Latest(s)' \subseteq published'
    BY <1>5, <1>8
  <2> QED
    BY <1>1, <1>7, <1>8, <1>10, <1>11, <2>1, <2>2 DEF v

LEMMA CommitKeepsLife ==
    ASSUME TypeInv, ClaimInv, LifeInv, NEW w \in Workers,
           CommitVersion(w) \/ CommitVersionBlip(w)
    PROVE  LifeInv'
<1>1. PICK flagged \in BOOLEAN :
         /\ versions' = versions \union {NewVersion(w, flagged)}
         /\ published' = published \union (IF flagged THEN {} ELSE {NewVersion(w, FALSE)})
         /\ simStatus' = [simStatus EXCEPT ![SimOf(w)] =
                             IF flagged THEN "needs_review" ELSE "ready"]
  BY DEF CommitVersion, CommitVersionBlip, Deliver
<1>2. /\ UNCHANGED <<simInput, jobSim, edit>> /\ pc[w] = "writing"
      /\ jobStatus' = [jobStatus EXCEPT ![held[w]] = "completed"]
      /\ run' = [run EXCEPT ![w] = NoRun]
  BY DEF CommitVersion, CommitVersionBlip, Deliver
<1>3. PICK s \in Sims : s = SimOf(w)
  BY <1>2, HeldType
<1>4. /\ flagged => Latest(s)' \intersect published' = {}
      /\ ~flagged => Latest(s)' \subseteq published'
      /\ Latest(s)' # {}
      /\ \A t \in Sims \ {s} : LatestNumber(t)' = LatestNumber(t) /\ Latest(t)' = Latest(t)
      /\ \A t \in Sims \ {s} : published' \intersect Latest(t) = published \intersect Latest(t)
      /\ NumbersDiffer'
  BY <1>1, <1>2, <1>3, NextVersion, ZenonT(40)
<1>5. /\ JobsFollow' /\ EditsFollow'
      /\ \A u \in Workers \ {w} : pc[u] # "idle" => simStatus'[SimOf(u)] = simStatus[SimOf(u)]
  <2>1. PICK y \in AtRest : y = IF flagged THEN "needs_review" ELSE "ready"
    BY DEF AtRest
  <2>2. simStatus' = [simStatus EXCEPT ![SimOf(w)] = y]
    BY <1>1, <2>1
  <2> QED
    BY <1>2, <2>2, SettleKeepsJobs
<1>6. /\ pc'[w] \in {"idle", "failing"} /\ (pc'[w] = "failing" => held'[w] = held[w])
      /\ \A u \in Workers \ {w} : pc'[u] = pc[u] /\ held'[u] = held[u] /\ run'[u] = run[u]
  BY <1>2 DEF CommitVersion, CommitVersionBlip, TypeInv, TypeOK, WorkerTypes
<1>7. RunsFollow'
  <2>1. ASSUME NEW u \in Workers \ {w}, pc[u] # "idle" PROVE RunFollows(u)'
    <3>1. PICK t \in Sims \ {s} : t = SimOf(u)
      BY <1>2, <1>3, <2>1, Alone, HeldType
    <3>2. RunFollows(u)
      BY DEF LifeInv, RunsFollow
    <3> QED
      BY <1>2, <1>4, <1>5, <1>6, <2>1, <3>1, <3>2, StillFollows
  <2>2. ASSUME NEW u \in Workers, pc'[u] \in {"idle", "failing"} PROVE RunFollows(u)'
    BY <2>2 DEF RunFollows, Started
  <2> QED
    BY <1>6, <2>1, <2>2 DEF RunsFollow
<1>8. RestTellsTruth'
  <2>1. /\ simStatus'[s] = IF flagged THEN "needs_review" ELSE "ready"
        /\ \A t \in Sims \ {s} : simStatus'[t] = simStatus[t]
    BY <1>1, <1>3 DEF TypeInv, TypeOK, SimTypes
  <2>2. ASSUME NEW t \in Sims \ {s}
        PROVE  /\ simStatus'[t] = "ready" => Latest(t)' # {} /\ Latest(t)' \subseteq published'
               /\ simStatus'[t] = "needs_review" =>
                     Latest(t)' # {} /\ Latest(t)' \intersect published' = {}
    BY <1>4, <2>1 DEF LifeInv, RestTellsTruth
  <2> QED
    BY <1>4, <2>1, <2>2 DEF RestTellsTruth
<1>9. DoubtsFollow'
  <2>1. ASSUME NEW u \in Workers \ {w}, pc[u] = "failing"
        PROVE  /\ SimOf(u)' = SimOf(u) /\ SimOf(u) # s
               /\ simStatus'[SimOf(u)] \in {"ready", "needs_review"}
    <3>1. SimOf(u)' = SimOf(u) /\ SimOf(u) # s
      BY <1>2, <1>3, <1>6, <2>1, Alone DEF SimOf
    <3>2. simStatus'[SimOf(u)] = simStatus[SimOf(u)]
      BY <1>5, <2>1
    <3> QED
      BY <2>1, <3>1, <3>2 DEF LifeInv, DoubtsFollow
  <2>2. ASSUME pc'[w] = "failing"
        PROVE  /\ SimOf(w)' = s /\ simStatus'[s] \in {"ready", "needs_review"}
               /\ \A c \in Clients : edit[c] # NoEdit => edit[c].sim # s
    <3>1. SimOf(w)' = s
      BY <1>2, <1>3, <1>6, <2>2 DEF SimOf
    <3>2. simStatus'[s] \in {"ready", "needs_review"}
      BY <1>1, <1>3 DEF TypeInv, TypeOK, SimTypes
    <3>3. simStatus[s] \notin AtRest
      BY <1>2, <1>3 DEF LifeInv, RunsFollow, RunFollows, AtRest
    <3> QED
      BY <3>1, <3>2, <3>3 DEF LifeInv, EditsFollow
  <2> QED
    BY <1>2, <1>6, <2>1, <2>2 DEF LifeInv, DoubtsFollow
<1> QED
  BY <1>4, <1>5, <1>7, <1>8, <1>9 DEF LifeInv

LEMMA AbortKeepsLife ==
    ASSUME TypeInv, ClaimInv, LifeInv, NEW w \in Workers, Abort(w)
    PROVE  LifeInv'
<1>1. /\ UNCHANGED <<simStatus, simInput, jobStatus, jobSim, versions, published, edit>>
      /\ pc' = [pc EXCEPT ![w] = "idle"] /\ held' = [held EXCEPT ![w] = 0]
      /\ run' = [run EXCEPT ![w] = NoRun]
  BY DEF Abort, simVars, jobVars, dbRest
<1>2. /\ pc'[w] = "idle"
      /\ \A u \in Workers \ {w} : pc'[u] = pc[u] /\ held'[u] = held[u] /\ run'[u] = run[u]
  BY <1>1 DEF TypeInv, TypeOK, WorkerTypes
<1>3. RunsFollow'
  <2>1. ASSUME NEW u \in Workers \ {w} PROVE RunFollows(u)'
    BY <1>1, <1>2, AllFollow
  <2>2. RunFollows(w)'
    BY <1>2 DEF RunFollows, Started
  <2> QED
    BY <2>1, <2>2 DEF RunsFollow
<1>4. DoubtsFollow'
  BY <1>1, <1>2, SameDoubts
<1> QED
  BY <1>1, <1>3, <1>4, SameOpen, SameRest DEF LifeInv

\* A simulation that is queued, and a new input if it has one: no claimer notices.
LEMMA QueueKeepsRuns ==
    ASSUME TypeInv, ClaimInv, LifeInv, NEW s \in Sims, simStatus[s] \notin Ongoing, ~Unheard(s),
           QueueJob(s), simStatus' = [simStatus EXCEPT ![s] = "queued"],
           NEW i, simInput' = [simInput EXCEPT ![s] = i],
           UNCHANGED <<workVars, versions, published>>,
           \A c \in Clients : edit'[c] # NoEdit => edit'[c] = edit[c]
    PROVE  JobsFollow' /\ RunsFollow' /\ NumbersDiffer' /\ RestTellsTruth' /\ DoubtsFollow'
<1>1. /\ JobsFollow'
      /\ \A w \in Workers : pc[w] # "idle" =>
            /\ SimOf(w) # s /\ jobSim'[held[w]] = jobSim[held[w]]
            /\ simStatus'[SimOf(w)] = simStatus[SimOf(w)]
  BY QueueKeepsJobs
<1>2. ASSUME NEW w \in Workers PROVE RunFollows(w)'
  <2>1. CASE pc[w] = "idle"
    BY <2>1 DEF RunFollows, Started, workVars
  <2>2. CASE pc[w] # "idle"
    <3>1. PICK t \in Sims : t = SimOf(w)
      BY <2>2, HeldType
    <3>2. simInput'[t] = simInput[t]
      BY <1>1, <2>2, <3>1 DEF TypeInv, TypeOK, SimTypes
    <3>3. LatestNumber(t)' = LatestNumber(t) /\ RunFollows(w)
      BY SameVersions DEF LifeInv, RunsFollow
    <3>4. pc'[w] = pc[w] /\ held'[w] = held[w] /\ run'[w] = run[w]
      BY DEF workVars
    <3> QED
      BY <1>1, <2>2, <3>1, <3>2, <3>3, <3>4, StillFollows
  <2> QED
    BY <2>1, <2>2
<1>3. \A t \in Sims : simStatus'[t] = simStatus[t] \/ simStatus'[t] = "queued"
  BY DEF TypeInv, TypeOK, SimTypes
<1>4. DoubtsFollow'
  <2>1. ASSUME NEW w \in Workers, pc[w] = "failing"
        PROVE  SimOf(w)' = SimOf(w) /\ simStatus'[SimOf(w)] = simStatus[SimOf(w)]
    BY <1>1, <2>1 DEF SimOf, workVars
  <2>2. pc' = pc
    BY DEF workVars
  <2> QED
    BY <2>1, <2>2 DEF LifeInv, DoubtsFollow
<1> QED
  BY <1>1, <1>2, <1>3, <1>4, SameRest DEF RunsFollow

LEMMA CreateKeepsLife ==
    ASSUME TypeInv, ClaimInv, LifeInv, NEW s \in Sims, NEW i \in Inputs, Create(s, i)
    PROVE  LifeInv'
<1>1. /\ simStatus[s] = "none" /\ simStatus[s] \notin Ongoing
      /\ simStatus' = [simStatus EXCEPT ![s] = "queued"]
      /\ simInput' = [simInput EXCEPT ![s] = i]
      /\ QueueJob(s) /\ UNCHANGED <<workVars, versions, published, edit>>
  BY DEF Create, Ongoing, dbRest
<1>2. ~Unheard(s)
  BY <1>1 DEF LifeInv, DoubtsFollow, Unheard
<1>4. JobsFollow' /\ RunsFollow' /\ NumbersDiffer' /\ RestTellsTruth' /\ DoubtsFollow'
  BY <1>1, <1>2, QueueKeepsRuns
<1>3. EditsFollow'
  BY <1>1 DEF LifeInv, EditsFollow, AtRest, TypeInv, TypeOK, SimTypes, EditTypes, EditLike
<1> QED
  BY <1>3, <1>4 DEF LifeInv

LEMMA ReviseReadKeepsLife ==
    ASSUME OneFacilitator, TypeInv, ClaimInv, LifeInv,
           NEW c \in Clients, NEW s \in Sims, NEW i \in Inputs, ReviseRead(c, s, i)
    PROVE  LifeInv'
<1> DEFINE e == [sim |-> s, input |-> i, full |-> FullScope(simInput[s], i),
                 stale |-> StaleNodes(simInput[s], i)]
<1>1. /\ UNCHANGED <<simStatus, simInput, jobStatus, jobSim, versions, published, workVars>>
      /\ edit' = [edit EXCEPT ![c] = e] /\ e.sim = s
      /\ simStatus[s] \notin {"none", "queued", "generating"} /\ ~Unheard(s)
  BY DEF OneFacilitator, ReviseRead, Revisable, simVars, jobVars, dbRest
<1> HIDE DEF e
<1>2. simStatus[s] \in AtRest
  BY <1>1 DEF TypeInv, TypeOK, SimTypes, Statuses, AtRest
<1>3. EditsFollow'
  BY <1>1, <1>2 DEF LifeInv, EditsFollow, TypeInv, TypeOK, EditTypes
<1>4. JobsFollow'
  BY <1>1 DEF LifeInv, JobsFollow, OneOpenJob, OpenJobs
<1>5. RunsFollow'
  <2>1. ASSUME NEW u \in Workers PROVE RunFollows(u)'
    BY <1>1, AllFollow DEF workVars
  <2> QED
    BY <2>1 DEF RunsFollow
<1>6. DoubtsFollow'
  <2>1. \A d \in Clients : edit'[d] # NoEdit => edit'[d] = edit[d] \/ edit'[d].sim = s
    BY <1>1 DEF TypeInv, TypeOK, EditTypes
  <2>2. \A w \in Workers : pc[w] = "failing" => SimOf(w) # s
    BY <1>1 DEF Unheard
  <2>3. pc' = pc /\ \A w : SimOf(w)' = SimOf(w)
    BY <1>1 DEF SimOf, workVars
  <2> QED
    BY <1>1, <2>1, <2>2, <2>3 DEF LifeInv, DoubtsFollow
<1> QED
  BY <1>1, <1>3, <1>4, <1>5, <1>6, SameRest DEF LifeInv

LEMMA ReviseCommitKeepsLife ==
    ASSUME OneFacilitator, TypeInv, ClaimInv, LifeInv, NEW c \in Clients, ReviseCommit(c)
    PROVE  LifeInv'
<1>1. PICK e : e = edit[c]
  OBVIOUS
<1>2. /\ simInput' = [simInput EXCEPT ![e.sim] = e.input]
      /\ simStatus' = [simStatus EXCEPT ![e.sim] = "queued"]
      /\ QueueJob(e.sim) /\ edit' = [edit EXCEPT ![c] = NoEdit]
      /\ UNCHANGED <<workVars, versions, published>>
      /\ e.sim \in Sims /\ simStatus[e.sim] \notin Ongoing
  BY <1>1
  DEF ReviseCommit, LifeInv, EditsFollow, AtRest, Ongoing, TypeInv, TypeOK, EditTypes, EditLike
<1>3. JobsFollow' /\ RunsFollow' /\ NumbersDiffer' /\ RestTellsTruth' /\ DoubtsFollow'
  <2>1. ~Unheard(e.sim)
    BY <1>1 DEF ReviseCommit, LifeInv, DoubtsFollow, Unheard
  <2>2. \A d \in Clients : edit'[d] # NoEdit => edit'[d] = edit[d]
    BY <1>2 DEF TypeInv, TypeOK, EditTypes
  <2> QED
    BY <1>2, <2>1, <2>2, QueueKeepsRuns
<1>4. EditsFollow'
  BY <1>2 DEF OneFacilitator, EditsFollow, TypeInv, TypeOK, EditTypes
<1> QED
  BY <1>3, <1>4 DEF LifeInv

LEMMA ApproveKeepsLife ==
    ASSUME OneFacilitator, TypeInv, ClaimInv, LifeInv, NEW s \in Sims, Approve(s)
    PROVE  LifeInv'
<1>1. /\ simStatus[s] \in {"needs_review", "ready"}
      /\ simStatus' = [simStatus EXCEPT ![s] = "ready"]
      /\ UNCHANGED <<simInput, jobStatus, jobSim, versions, workVars, edit>>
  BY DEF Approve, OneFacilitator, jobVars
<1>2. /\ simStatus'[s] = "ready" /\ \A t \in Sims \ {s} : simStatus'[t] = simStatus[t]
  BY <1>1 DEF TypeInv, TypeOK, SimTypes
<1>3. JobsFollow'
  <2>1. \A t : OpenJobs(t)' = OpenJobs(t)
    BY <1>1 DEF OpenJobs
  <2>2. \A j \in Jobs : jobStatus[j] \in Open => jobSim[j] \in Sims \ {s}
    BY <1>1 DEF LifeInv, JobsFollow, Ongoing, TypeInv, TypeOK, JobTypes
  <2> QED
    BY <1>1, <1>2, <2>1, <2>2 DEF LifeInv, JobsFollow, OneOpenJob, Ongoing, Open
<1>4. EditsFollow'
  BY <1>1, <1>2 DEF LifeInv, EditsFollow, AtRest, TypeInv, TypeOK, EditTypes, EditLike
<1>5. ASSUME NEW u \in Workers PROVE RunFollows(u)'
  <2>1. CASE pc[u] \in {"idle", "failing"}
    BY <1>1, <2>1 DEF RunFollows, Started, workVars
  <2>2. CASE pc[u] \notin {"idle", "failing"}
    <3>1. PICK t \in Sims : t = SimOf(u)
      BY <2>2, HeldType
    <3>2. t # s
      BY <1>1, <2>2, <3>1, WorkedOn DEF Ongoing
    <3>3. LatestNumber(t)' = LatestNumber(t) /\ RunFollows(u)
      BY <1>1, SameVersions DEF LifeInv, RunsFollow
    <3>4. pc'[u] = pc[u] /\ held'[u] = held[u] /\ run'[u] = run[u]
      BY <1>1 DEF workVars
    <3> QED
      BY <1>1, <1>2, <3>1, <3>2, <3>3, <3>4, StillFollows
  <2> QED
    BY <2>1, <2>2
<1>6. RestTellsTruth'
  <2>1. PICK v \in Latest(s) : published' = published \union {v}
    BY <1>1 DEF Approve, LifeInv, RestTellsTruth
  <2>2. Latest(s) = {v} /\ v.sim = s
    BY DEF LifeInv, NumbersDiffer, Latest
  <2>3. \A t : Latest(t)' = Latest(t)
    BY <1>1, SameVersions
  <2>4. \A t \in Sims \ {s} : v \notin Latest(t)
    BY <2>2 DEF Latest
  <2> QED
    BY <1>2, <2>1, <2>2, <2>3, <2>4 DEF LifeInv, RestTellsTruth
<1>7. NumbersDiffer'
  BY <1>1 DEF LifeInv, NumbersDiffer
<1>8. DoubtsFollow'
  <2>1. ASSUME NEW w \in Workers, pc'[w] = "failing"
        PROVE  /\ pc[w] = "failing" /\ SimOf(w)' = SimOf(w)
               /\ simStatus'[SimOf(w)] \in {"ready", "needs_review"}
    <3>1. pc[w] = "failing" /\ SimOf(w)' = SimOf(w)
      BY <1>1, <2>1 DEF workVars, SimOf
    <3>2. SimOf(w) \in Sims
      BY <3>1, HeldType
    <3> QED
      BY <1>2, <3>1, <3>2 DEF LifeInv, DoubtsFollow
  <2> QED
    BY <1>1, <2>1, DoubtsStay
<1> QED
  BY <1>3, <1>4, <1>5, <1>6, <1>7, <1>8 DEF LifeInv, RunsFollow

LEMMA StutterKeepsLife ==
    ASSUME TypeInv, ClaimInv, LifeInv, UNCHANGED vars
    PROVE  LifeInv'
<1>1. UNCHANGED <<simStatus, simInput, jobStatus, jobSim, versions, published, pc, held, run, edit>>
  BY DEF vars, simVars, jobVars, dbRest, workVars
<1>2. ASSUME NEW u \in Workers PROVE RunFollows(u)'
  BY <1>1, AllFollow
<1>3. DoubtsFollow'
  BY <1>1, SameDoubts
<1> QED
  BY <1>1, <1>2, <1>3, SameOpen, SameRest DEF LifeInv, RunsFollow

-----------------------------------------------------------------------------
LEMMA NoVersions ==
    ASSUME versions = {}, NEW s
    PROVE  LatestNumber(s) = 0 /\ Latest(s) = {}
<1>1. Numbers(s) = {}
  BY DEF Numbers
<1> QED
  BY <1>1 DEF LatestNumber, Latest

LEMMA LifeInit == Init => LifeInv
<1> SUFFICES ASSUME Init
             PROVE  LifeInv
  OBVIOUS
<1>1. JobsFollow /\ EditsFollow
  BY DEF Init, JobsFollow, EditsFollow, OneOpenJob, OpenJobs, Open, Ongoing
<1>2. RunsFollow
  BY DEF Init, RunsFollow, RunFollows, Started
<1>3. NumbersDiffer /\ RestTellsTruth
  BY DEF Init, NumbersDiffer, RestTellsTruth
<1>4. DoubtsFollow
  BY DEF Init, DoubtsFollow
<1> QED
  BY <1>1, <1>2, <1>3, <1>4 DEF LifeInv

LEMMA LifeStep ==
    ASSUME OneFacilitator, TypeInv, ClaimInv, LifeInv, [Next]_vars
    PROVE  LifeInv'
<1>1. ASSUME NEW w \in Workers, SelectJob(w) \/ GenerateUnitBlip(w)
                                 \/ CommitVersionBlip(w) \/ Abort(w)
      PROVE  LifeInv'
  BY <1>1, SelectKeepsLife, GenerateKeepsLife, CommitKeepsLife, AbortKeepsLife
<1>2. ASSUME NEW w \in Workers, Advance(w)
      PROVE  LifeInv'
  <2>1. CASE ExpiredFails(w)
    <3>1. pc[w] # "idle" /\ MarkFailed(w, "expired")
      BY <2>1 DEF ExpiredFails, Generated
    <3> QED
      BY <3>1, FailKeepsLife
  <2>2. CASE CommitClaim(w) \/ LoadSim(w) \/ StartRun(w) \/ GenerateUnit(w)
             \/ ReadLatest(w) \/ CommitVersion(w)
    BY <2>2, ClaimKeepsLife, LoadKeepsLife, StartKeepsLife, GenerateKeepsLife,
       ReadLatestKeepsLife, CommitKeepsLife
  <2>3. CASE UnheardFails(w)
    <3>1. pc[w] # "idle" /\ MarkFailed(w, "engine")
      BY <2>3 DEF UnheardFails
    <3> QED
      BY <3>1, FailKeepsLife
  <2> QED
    BY <1>2, <2>1, <2>2, <2>3 DEF Advance
<1>3. ASSUME NEW w \in Workers, RunFails(w)
      PROVE  LifeInv'
  <2>1. pc[w] # "idle" /\ MarkFailed(w, "engine")
    BY <1>3 DEF RunFails
  <2> QED
    BY <2>1, FailKeepsLife
<1>4. ASSUME NEW s \in Sims, NEW i \in Inputs, Create(s, i)
      PROVE  LifeInv'
  BY <1>4, CreateKeepsLife
<1>5. ASSUME NEW c \in Clients,
             ReviseCommit(c) \/ \E s \in Sims, i \in Inputs : ReviseRead(c, s, i)
      PROVE  LifeInv'
  BY <1>5, ReviseReadKeepsLife, ReviseCommitKeepsLife
<1>6. ASSUME NEW s \in Sims, Approve(s)
      PROVE  LifeInv'
  BY <1>6, ApproveKeepsLife
<1>7. CASE UNCHANGED vars
  BY <1>7, StutterKeepsLife
<1> QED
  BY <1>1, <1>2, <1>3, <1>4, <1>5, <1>6, <1>7 DEF Next, WorkerNext

LEMMA LifeInvariant ==
    ASSUME OneFacilitator PROVE Spec => [](TypeInv /\ ClaimInv /\ LifeInv)
<1>1. Init => TypeInv /\ ClaimInv /\ LifeInv
  BY TypeInit, ClaimInit, LifeInit
<1>2. TypeInv /\ ClaimInv /\ LifeInv /\ [Next]_vars => (TypeInv /\ ClaimInv /\ LifeInv)'
  BY TypeStep, ClaimStep, LifeStep DEF OneFacilitator
<1> QED
  BY <1>1, <1>2, PTL DEF Spec

\* A simulation never has two open jobs, for any number of simulations, jobs
\* and claimers, of runs that fail and claimers that are cut off: the guard of
\* revise_simulation on the simulation's status is enough, as long as one
\* revision is under way at a time.
THEOREM JobsAreSingle == OneFacilitator => (Spec => []OneOpenJob)
<1> SUFFICES ASSUME OneFacilitator
             PROVE  Spec => []OneOpenJob
  OBVIOUS
<1>1. LifeInv => OneOpenJob
  BY DEF LifeInv, JobsFollow
<1> QED
  BY <1>1, LifeInvariant, PTL

\* The status of a simulation never lies about its job or its latest version:
\* what is queued or generating has an open job, what is ready is published,
\* and what needs a review is not.
THEOREM StatusIsTrue == OneFacilitator => (Spec => []StatusTellsTruth)
<1> SUFFICES ASSUME OneFacilitator
             PROVE  Spec => []StatusTellsTruth
  OBVIOUS
<1>1. LifeInv => StatusTellsTruth
  BY DEF LifeInv, JobsFollow, RestTellsTruth, StatusTellsTruth, Ongoing
<1> QED
  BY <1>1, LifeInvariant, PTL

LEMMA NewVersionsAreCurrent ==
    ASSUME TypeInv, ClaimInv, LifeInv, [Next]_vars, NEW v \in versions' \ versions
    PROVE  v.input = simInput[v.sim]
<1>1. ASSUME UNCHANGED versions PROVE FALSE
  BY <1>1
<1>2. ASSUME NEW w \in Workers, Deliver(w)
      PROVE  v.input = simInput[v.sim]
  <2>1. PICK flagged \in BOOLEAN : versions' = versions \union {NewVersion(w, flagged)}
    BY <1>2 DEF Deliver
  <2>2. v = NewVersion(w, flagged)
    BY <2>1
  <2>3. v.input = run[w].input /\ v.sim = SimOf(w)
    BY <2>2 DEF NewVersion
  <2> QED
    BY <1>2, <2>3 DEF Deliver, LifeInv, RunsFollow, RunFollows, Started
<1>3. ASSUME NEW w \in Workers, ~Deliver(w), Advance(w)
      PROVE  UNCHANGED versions
  BY <1>3
  DEF Advance, CommitClaim, LoadSim, StartRun, GenerateUnit, ExpiredFails, MarkFailed,
      ReadLatest, CommitVersion, UnheardFails, dbRest
<1>4. ASSUME NEW w \in Workers, ~Deliver(w), CommitVersionBlip(w)
      PROVE  UNCHANGED versions
  BY <1>4 DEF CommitVersionBlip
<1>6. ASSUME NEW w \in Workers, SelectJob(w) \/ GenerateUnitBlip(w) \/ RunFails(w) \/ Abort(w)
      PROVE  UNCHANGED versions
  BY <1>6 DEF SelectJob, GenerateUnitBlip, RunFails, MarkFailed, Abort, dbRest
<1>5. CASE \/ \E s \in Sims, i \in Inputs : Create(s, i)
           \/ \E c \in Clients, s \in Sims, i \in Inputs : ReviseRead(c, s, i)
           \/ \E c \in Clients : ReviseCommit(c)
           \/ \E s \in Sims : Approve(s)
           \/ UNCHANGED vars
  BY <1>1, <1>5 DEF Create, ReviseRead, ReviseCommit, Approve, vars, dbRest
<1> QED
  BY <1>1, <1>2, <1>3, <1>4, <1>5, <1>6 DEF Next, WorkerNext

\* A version is always written from the input its simulation has when it is
\* written: no revision slips in between the snapshot a run takes and its commit.
THEOREM SnapshotsStayCurrent == OneFacilitator => (Spec => VersionsAreCurrent)
<1> SUFFICES ASSUME OneFacilitator
             PROVE  Spec => VersionsAreCurrent
  OBVIOUS
<1>1. TypeInv /\ ClaimInv /\ LifeInv /\ [Next]_vars
        => [\A v \in versions' \ versions : v.input = simInput[v.sim]]_vars
  BY NewVersionsAreCurrent
<1> QED
  BY <1>1, LifeInvariant, PTL DEF Spec, VersionsAreCurrent

-----------------------------------------------------------------------------
(* The refinement of SimulationLifecycle.                                  *)

Live(s) == Latest(s) # {} /\ Latest(s) \subseteq published

\* What is latest, live and unheard of for a simulation does not change with
\* its versions, what is published of them, and the claimers in doubt.
LEMMA SameLive ==
    ASSUME NEW S, \A s \in S : LatestNumber(s)' = LatestNumber(s) /\ Live(s)' = Live(s)
    PROVE  /\ [s \in S |-> LatestNumber(s)]' = [s \in S |-> LatestNumber(s)]
           /\ [s \in S |-> Live(s)]' = [s \in S |-> Live(s)]
  OBVIOUS

InDoubt == [s \in Sims |-> Unheard(s)]

LEMMA SameUnheard ==
    ASSUME pc' = pc, \A w \in Workers : pc[w] = "failing" => SimOf(w)' = SimOf(w)
    PROVE  UNCHANGED InDoubt
<1>1. ASSUME NEW s \in Sims
      PROVE  Unheard(s)' <=> Unheard(s)
  BY DEF Unheard
<1>2. \A s \in Sims : Unheard(s)' = Unheard(s)
  BY <1>1 DEF Unheard
<1> HIDE DEF Unheard
<1> QED
  BY <1>2, Zenon DEF InDoubt

\* A claimer moves: whether its simulation is in doubt is whether it is.
LEMMA UnheardOf ==
    ASSUME TypeInv, ClaimInv, LifeInv, NEW w \in Workers, pc[w] # "idle",
           NEW s \in Sims, s = SimOf(w), UNCHANGED jobSim,
           pc'[w] = "failing" => held'[w] = held[w],
           \A u \in Workers \ {w} : pc'[u] = pc[u] /\ held'[u] = held[u]
    PROVE  /\ Unheard(s) <=> pc[w] = "failing"
           /\ InDoubt' = [InDoubt EXCEPT ![s] = (pc'[w] = "failing")]
<1>1. \A u \in Workers \ {w} : pc[u] = "failing" => SimOf(u) # s
  BY Alone
<1>2. \A u \in Workers \ {w} : SimOf(u)' = SimOf(u)
  BY DEF SimOf
<1>3. pc'[w] = "failing" => SimOf(w)' = s
  BY DEF SimOf
<1>4. Unheard(s)' <=> pc'[w] = "failing"
  BY <1>1, <1>2, <1>3 DEF Unheard
<1>5. ASSUME NEW t \in Sims \ {s}
      PROVE  Unheard(t)' <=> Unheard(t)
  BY <1>2, <1>3 DEF Unheard
<1>6. \A t \in Sims : Unheard(t)' = IF t = s THEN (pc'[w] = "failing") ELSE Unheard(t)
  BY <1>4, <1>5 DEF Unheard
<1>7. Unheard(s) <=> pc[w] = "failing"
  BY <1>1 DEF Unheard
<1> HIDE DEF Unheard
<1> QED
  BY <1>6, <1>7, Zenon DEF InDoubt

LEMMA PromiseStutters ==
    ASSUME UNCHANGED <<simStatus, versions, published, InDoubt>>
    PROVE  UNCHANGED Promise!lvars
<1>1. \A s \in Sims : LatestNumber(s)' = LatestNumber(s) /\ Live(s)' = Live(s)
  BY SameVersions DEF Live
<1> QED
  BY <1>1, SameLive DEF Promise!lvars, Live, InDoubt

\* A change of status that leaves the versions and the doubts alone.
LEMMA PromiseMoves ==
    ASSUME TypeInv, UNCHANGED <<versions, published, InDoubt>>, NEW s \in Sims, NEW x,
           simStatus' = [simStatus EXCEPT ![s] = x]
    PROVE  /\ simStatus[s] \in AtRest \union {"none"} /\ ~Unheard(s) /\ x = "queued"
                => Promise!Submit(s)
           /\ simStatus[s] = "queued" /\ x = "generating" => Promise!Begin(s)
           /\ simStatus[s] \in Ongoing /\ x = "failed" => Promise!Break(s)
<1>1. \A t \in Sims : LatestNumber(t)' = LatestNumber(t) /\ Live(t)' = Live(t)
  BY SameVersions DEF Live
<1>2. /\ [t \in Sims |-> LatestNumber(t)]' = [t \in Sims |-> LatestNumber(t)]
      /\ [t \in Sims |-> Live(t)]' = [t \in Sims |-> Live(t)]
  BY <1>1, SameLive
<1>3. ~Unheard(s) => ~[t \in Sims |-> Unheard(t)][s]
  OBVIOUS
<1> QED
  BY <1>2, <1>3 DEF Promise!Submit, Promise!Begin, Promise!Break, AtRest, Ongoing, Live, InDoubt

\* A claimer that has not heard of its delivery takes it back, or lets it stand.
LEMMA PromiseDoubts ==
    ASSUME TypeInv, ClaimInv, LifeInv, NEW w \in Workers, pc[w] = "failing",
           UNCHANGED <<versions, published, jobSim>>,
           pc' = [pc EXCEPT ![w] = "idle"], held' = [held EXCEPT ![w] = 0]
    PROVE  /\ simStatus' = [simStatus EXCEPT ![SimOf(w)] = "failed"]
                => Promise!TakeBack(SimOf(w))
           /\ simStatus' = simStatus => Promise!LetStand(SimOf(w))
<1>1. PICK s \in Sims : s = SimOf(w)
  BY HeldType
<1>2. /\ pc'[w] = "idle"
      /\ \A u \in Workers \ {w} : pc'[u] = pc[u] /\ held'[u] = held[u]
  BY DEF TypeInv, TypeOK, WorkerTypes
<1>3. Unheard(s) /\ InDoubt' = [InDoubt EXCEPT ![s] = (pc'[w] = "failing")]
  BY <1>1, <1>2, UnheardOf
<1>4. (pc'[w] = "failing") = FALSE
  BY <1>2
<1>5. InDoubt' = [InDoubt EXCEPT ![s] = FALSE]
  BY <1>3, <1>4
<1>6. InDoubt[s]
  BY <1>3 DEF InDoubt
<1>7. \A t \in Sims : LatestNumber(t)' = LatestNumber(t) /\ Live(t)' = Live(t)
  BY SameVersions DEF Live
<1>8. /\ [t \in Sims |-> LatestNumber(t)]' = [t \in Sims |-> LatestNumber(t)]
      /\ [t \in Sims |-> Live(t)]' = [t \in Sims |-> Live(t)]
  BY <1>7, SameLive
<1>9. simStatus[s] \in {"ready", "needs_review"}
  BY <1>1 DEF LifeInv, DoubtsFollow
<1>10. simStatus' = [simStatus EXCEPT ![s] = "failed"] => Promise!TakeBack(s)
  BY <1>5, <1>6, <1>8, <1>9 DEF Promise!TakeBack, InDoubt, Live
<1>11. simStatus' = simStatus => Promise!LetStand(s)
  BY <1>5, <1>6, <1>8 DEF Promise!LetStand, InDoubt, Live
<1> QED
  BY <1>1, <1>10, <1>11

LEMMA CommitDelivers ==
    ASSUME TypeInv, ClaimInv, LifeInv, NEW w \in Workers,
           CommitVersion(w) \/ CommitVersionBlip(w)
    PROVE  \E s \in Sims : \E reviewed, heard \in BOOLEAN : Promise!Deliver(s, reviewed, heard)
<1>1. PICK flagged \in BOOLEAN :
         /\ versions' = versions \union {NewVersion(w, flagged)}
         /\ published' = published \union (IF flagged THEN {} ELSE {NewVersion(w, FALSE)})
         /\ simStatus' = [simStatus EXCEPT ![SimOf(w)] =
                             IF flagged THEN "needs_review" ELSE "ready"]
  BY DEF CommitVersion, CommitVersionBlip, Deliver
<1>2. pc[w] = "writing" /\ UNCHANGED jobSim
  BY DEF CommitVersion, CommitVersionBlip, Deliver
<1>3. PICK s \in Sims : s = SimOf(w)
  BY <1>2, HeldType
<1>4. simStatus[s] = "generating"
  BY <1>2, <1>3 DEF LifeInv, RunsFollow, RunFollows
<1>5. /\ LatestNumber(s)' = LatestNumber(s) + 1
      /\ Latest(s)' = {NewVersion(w, flagged)}
      /\ flagged => Latest(s)' \intersect published' = {}
      /\ ~flagged => Latest(s)' \subseteq published'
      /\ \A t \in Sims \ {s} : LatestNumber(t)' = LatestNumber(t) /\ Latest(t)' = Latest(t)
      /\ \A t \in Sims \ {s} : published' \intersect Latest(t) = published \intersect Latest(t)
  BY <1>1, <1>2, <1>3, NextVersion
<1>6. Live(s)' = ~flagged /\ \A t \in Sims \ {s} : Live(t)' = Live(t)
  BY <1>5 DEF Live
<1>7. [t \in Sims |-> LatestNumber(t)]' = [[t \in Sims |-> LatestNumber(t)] EXCEPT ![s] = @ + 1]
  BY <1>5
<1>8. [t \in Sims |-> Live(t)]' = [[t \in Sims |-> Live(t)] EXCEPT ![s] = ~flagged]
  BY <1>6
<1>9. PICK heard \in BOOLEAN : (pc'[w] = "failing") = ~heard
  OBVIOUS
<1>10. InDoubt' = [InDoubt EXCEPT ![s] = ~heard]
  <2>1. /\ pc'[w] = "failing" => held'[w] = held[w]
        /\ \A u \in Workers \ {w} : pc'[u] = pc[u] /\ held'[u] = held[u]
    BY DEF CommitVersion, CommitVersionBlip, TypeInv, TypeOK, WorkerTypes
  <2>2. InDoubt' = [InDoubt EXCEPT ![s] = (pc'[w] = "failing")]
    BY <1>2, <1>3, <2>1, UnheardOf
  <2> QED
    BY <1>9, <2>2
<1>11. Promise!Deliver(s, ~flagged, heard)
  BY <1>1, <1>3, <1>4, <1>7, <1>8, <1>10 DEF Promise!Deliver, Live, InDoubt
<1> QED
  BY <1>11

LEMMA ApproveSignsOff ==
    ASSUME OneFacilitator, TypeInv, ClaimInv, LifeInv, NEW s \in Sims, Approve(s)
    PROVE  Promise!SignOff(s) \/ UNCHANGED Promise!lvars
<1>1. /\ simStatus[s] \in {"needs_review", "ready"}
      /\ simStatus' = [simStatus EXCEPT ![s] = "ready"] /\ UNCHANGED versions
  BY DEF Approve, OneFacilitator
<1>2. PICK v \in Latest(s) : published' = published \union {v}
  BY <1>1 DEF Approve, LifeInv, RestTellsTruth
<1>3. Latest(s) = {v} /\ v.sim = s
  BY DEF LifeInv, NumbersDiffer, Latest
<1>4. \A t : LatestNumber(t)' = LatestNumber(t) /\ Latest(t)' = Latest(t)
  BY <1>1, SameVersions
<1>5. /\ Live(s)' = TRUE
      /\ \A t \in Sims \ {s} : Live(t)' = Live(t)
  <2>1. \A t \in Sims \ {s} : v \notin Latest(t)
    BY <1>3 DEF Latest
  <2> QED
    BY <1>2, <1>3, <1>4, <2>1 DEF Live
<1>9. UNCHANGED InDoubt
  BY SameUnheard DEF Approve, jobVars, workVars, SimOf
<1>6. [t \in Sims |-> LatestNumber(t)]' = [t \in Sims |-> LatestNumber(t)]
  BY <1>4
<1>7. CASE simStatus[s] = "needs_review"
  <2>1. [t \in Sims |-> Live(t)]' = [[t \in Sims |-> Live(t)] EXCEPT ![s] = TRUE]
    BY <1>5
  <2> QED
    BY <1>1, <1>6, <1>7, <1>9, <2>1 DEF Promise!SignOff, Live, InDoubt
<1>8. CASE simStatus[s] = "ready"
  <2>1. Live(s) = TRUE
    BY <1>8 DEF LifeInv, RestTellsTruth, Live
  <2>2. [t \in Sims |-> Live(t)]' = [t \in Sims |-> Live(t)]
    BY <1>5, <2>1
  <2>3. simStatus' = simStatus
    BY <1>1, <1>8 DEF TypeInv, TypeOK, SimTypes
  <2> QED
    BY <1>6, <1>9, <2>2, <2>3 DEF Promise!lvars, Live, InDoubt
<1> QED
  BY <1>1, <1>7, <1>8

LEMMA PromiseInit == Init => Promise!LInit
<1> SUFFICES ASSUME Init
             PROVE  Promise!LInit
  OBVIOUS
<1>1. \A s \in Sims : LatestNumber(s) = 0 /\ Live(s) = FALSE
  BY NoVersions DEF Init, Live
<1>2. simStatus = [s \in Sims |-> "none"]
  BY DEF Init
<1>3. \A s \in Sims : Unheard(s) = FALSE
  BY DEF Init, Unheard
<1> QED
  BY <1>1, <1>2, <1>3 DEF Promise!LInit, Live

\* A job is queued: nothing is delivered, and no doubt comes or goes.
LEMMA QueueSubmits ==
    ASSUME TypeInv, ClaimInv, LifeInv, NEW s \in Sims, simStatus[s] \in AtRest \union {"none"},
           ~Unheard(s), QueueJob(s), simStatus' = [simStatus EXCEPT ![s] = "queued"],
           UNCHANGED <<workVars, versions, published>>
    PROVE  Promise!Submit(s)
<1>1. simStatus[s] \notin Ongoing
  BY DEF AtRest, Ongoing
<1>2. \A w \in Workers : pc[w] # "idle" => jobSim'[held[w]] = jobSim[held[w]]
  BY <1>1, QueueKeepsJobs
<1>3. UNCHANGED InDoubt
  BY <1>2, SameUnheard DEF workVars, SimOf
<1> QED
  BY <1>3, PromiseMoves

LEMMA PromiseStep ==
    ASSUME OneFacilitator, TypeInv, ClaimInv, LifeInv, [Next]_vars
    PROVE  [Promise!LNext]_(Promise!lvars)
<1>1. ASSUME NEW w \in Workers, pc[w] \notin {"idle", "failing"}, UNCHANGED jobSim,
             pc'[w] # "failing",
             \A u \in Workers \ {w} : pc'[u] = pc[u] /\ held'[u] = held[u]
      PROVE  UNCHANGED InDoubt
  <2>1. PICK s \in Sims : s = SimOf(w)
    BY <1>1, HeldType
  <2>2. /\ Unheard(s) <=> pc[w] = "failing"
        /\ InDoubt' = [InDoubt EXCEPT ![s] = (pc'[w] = "failing")]
    BY <1>1, <2>1, UnheardOf
  <2>3. (pc'[w] = "failing") = FALSE /\ Unheard(s) = FALSE
    BY <1>1, <2>2 DEF Unheard
  <2>4. InDoubt[s] = FALSE
    BY <2>3, Zenon DEF InDoubt
  <2>5. InDoubt' = [InDoubt EXCEPT ![s] = FALSE]
    BY <2>2, <2>3, Zenon
  <2> QED
    BY <2>4, <2>5 DEF InDoubt
<1>2. ASSUME NEW w \in Workers, pc[w] # "idle", NEW error, MarkFailed(w, error)
      PROVE  Promise!LNext
  <2>1. /\ simStatus' = [simStatus EXCEPT ![SimOf(w)] = "failed"] /\ SimOf(w) \in Sims
        /\ pc' = [pc EXCEPT ![w] = "idle"] /\ held' = [held EXCEPT ![w] = 0]
        /\ UNCHANGED <<versions, published, jobSim>>
    BY <1>2, HeldType DEF MarkFailed, dbRest
  <2>2. CASE pc[w] = "failing"
    <3>1. Promise!TakeBack(SimOf(w))
      BY <2>1, <2>2, PromiseDoubts
    <3> QED
      BY <2>1, <3>1 DEF Promise!LNext
  <2>3. CASE pc[w] # "failing"
    <3>1. simStatus[SimOf(w)] \in Ongoing
      BY <1>2, <2>3, WorkedOn
    <3>2. UNCHANGED InDoubt
      BY <1>1, <1>2, <2>1, <2>3 DEF TypeInv, TypeOK, WorkerTypes
    <3>3. Promise!Break(SimOf(w))
      BY <2>1, <3>1, <3>2, PromiseMoves
    <3> QED
      BY <2>1, <3>3 DEF Promise!LNext
  <2> QED
    BY <2>2, <2>3
<1>3. ASSUME NEW w \in Workers, RunFails(w) \/ ExpiredFails(w) \/ UnheardFails(w)
      PROVE  Promise!LNext
  BY <1>2, <1>3 DEF RunFails, ExpiredFails, UnheardFails, Generated
<1>4. ASSUME NEW w \in Workers, StartRun(w)
      PROVE  Promise!LNext
  <2>1. SimOf(w) \in Sims /\ simStatus[SimOf(w)] = "queued"
    BY <1>4, HeldType DEF StartRun, LifeInv, RunsFollow, RunFollows
  <2>2. /\ simStatus' = [simStatus EXCEPT ![SimOf(w)] = "generating"]
        /\ UNCHANGED <<versions, published>>
    BY <1>4 DEF StartRun
  <2>3. UNCHANGED InDoubt
    BY <1>1, <1>4 DEF StartRun, jobVars, TypeInv, TypeOK, WorkerTypes
  <2>4. Promise!Begin(SimOf(w))
    BY <2>1, <2>2, <2>3, PromiseMoves
  <2> QED
    BY <2>1, <2>4 DEF Promise!LNext
<1>5. ASSUME NEW w \in Workers, CommitVersion(w) \/ CommitVersionBlip(w)
      PROVE  Promise!LNext
  BY <1>5, CommitDelivers DEF Promise!LNext
<1>6. ASSUME NEW w \in Workers,
             \/ CommitClaim(w) \/ LoadSim(w) \/ GenerateUnit(w)
             \/ GenerateUnitBlip(w) \/ ReadLatest(w)
      PROVE  UNCHANGED Promise!lvars
  <2>1. UNCHANGED <<simStatus, versions, published>>
    BY <1>6 DEF CommitClaim, LoadSim, GenerateUnit, GenerateUnitBlip, ReadLatest,
                simVars, dbRest
  <2>2. UNCHANGED InDoubt
    <3>1. /\ pc[w] \notin {"idle", "failing"} /\ UNCHANGED jobSim /\ UNCHANGED held
          /\ \E x : x # "failing" /\ pc' = [pc EXCEPT ![w] = x]
      <4>1. CASE CommitClaim(w) \/ LoadSim(w) \/ ReadLatest(w)
        BY <4>1 DEF CommitClaim, LoadSim, ReadLatest, Generated, jobVars
      <4>2. CASE GenerateUnit(w) \/ GenerateUnitBlip(w)
        <5>1. pc[w] = "running" /\ pc' = pc /\ UNCHANGED jobSim /\ UNCHANGED held
          BY <4>2 DEF GenerateUnit, GenerateUnitBlip, Generating
        <5>2. pc' = [pc EXCEPT ![w] = "running"]
          BY <5>1 DEF TypeInv, TypeOK, WorkerTypes
        <5> QED
          BY <5>1, <5>2
      <4> QED
        BY <1>6, <4>1, <4>2
    <3> QED
      BY <1>1, <3>1 DEF TypeInv, TypeOK, WorkerTypes
  <2> QED
    BY <2>1, <2>2, PromiseStutters
<1>7. ASSUME NEW w \in Workers, SelectJob(w)
      PROVE  UNCHANGED Promise!lvars
  <2>1. UNCHANGED <<simStatus, versions, published, jobSim>>
    BY <1>7 DEF SelectJob, simVars, jobVars, dbRest
  <2>2. \A u \in Workers : /\ pc'[u] = "failing" <=> pc[u] = "failing"
                           /\ pc[u] = "failing" => SimOf(u)' = SimOf(u)
    BY <1>7, <2>1 DEF SelectJob, SimOf, TypeInv, TypeOK, WorkerTypes
  <2>3. UNCHANGED InDoubt
    <3>1. ASSUME NEW s \in Sims
          PROVE  Unheard(s)' = Unheard(s)
      BY <2>2 DEF Unheard
    <3> HIDE DEF Unheard
    <3> QED
      BY <3>1, Zenon DEF InDoubt
  <2> QED
    BY <2>1, <2>3, PromiseStutters
<1>8. ASSUME NEW w \in Workers, Abort(w)
      PROVE  Promise!LNext \/ UNCHANGED Promise!lvars
  <2>1. /\ UNCHANGED <<simStatus, versions, published, jobSim>>
        /\ pc' = [pc EXCEPT ![w] = "idle"] /\ held' = [held EXCEPT ![w] = 0]
        /\ pc[w] # "idle"
    BY <1>8 DEF Abort, simVars, jobVars, dbRest
  <2>2. CASE pc[w] = "failing"
    <3>1. Promise!LetStand(SimOf(w)) /\ SimOf(w) \in Sims
      BY <2>1, <2>2, PromiseDoubts, HeldType
    <3> QED
      BY <3>1 DEF Promise!LNext
  <2>3. CASE pc[w] # "failing"
    <3>1. UNCHANGED InDoubt
      BY <1>1, <2>1, <2>3 DEF TypeInv, TypeOK, WorkerTypes
    <3> QED
      BY <2>1, <3>1, PromiseStutters
  <2> QED
    BY <2>2, <2>3
<1>9. ASSUME NEW s \in Sims, NEW i \in Inputs, Create(s, i)
      PROVE  Promise!LNext
  <2>1. /\ simStatus[s] = "none" /\ simStatus' = [simStatus EXCEPT ![s] = "queued"]
        /\ QueueJob(s) /\ UNCHANGED <<workVars, versions, published>>
    BY <1>9 DEF Create, dbRest
  <2>2. ~Unheard(s)
    BY <2>1 DEF LifeInv, DoubtsFollow, Unheard
  <2>3. Promise!Submit(s)
    BY <2>1, <2>2, QueueSubmits
  <2> QED
    BY <2>3 DEF Promise!LNext
<1>10. ASSUME NEW c \in Clients, ReviseCommit(c)
       PROVE  Promise!LNext
  <2>1. PICK s \in Sims : /\ simStatus[s] \in AtRest /\ edit[c] # NoEdit /\ edit[c].sim = s
                          /\ QueueJob(s)
                          /\ simStatus' = [simStatus EXCEPT ![s] = "queued"]
    BY <1>10 DEF ReviseCommit, LifeInv, EditsFollow, TypeInv, TypeOK, EditTypes, EditLike
  <2>2. UNCHANGED <<workVars, versions, published>>
    BY <1>10 DEF ReviseCommit
  <2>3. ~Unheard(s)
    BY <2>1 DEF LifeInv, DoubtsFollow, Unheard
  <2>4. Promise!Submit(s)
    BY <2>1, <2>2, <2>3, QueueSubmits
  <2> QED
    BY <2>4 DEF Promise!LNext
<1>11. ASSUME NEW s \in Sims, Approve(s)
       PROVE  Promise!LNext \/ UNCHANGED Promise!lvars
  BY <1>11, ApproveSignsOff DEF Promise!LNext
<1>12. CASE UNCHANGED vars \/ \E c \in Clients, s \in Sims, i \in Inputs : ReviseRead(c, s, i)
  <2>1. UNCHANGED <<simStatus, versions, published, jobSim, pc, held>>
    BY <1>12 DEF vars, ReviseRead, simVars, jobVars, dbRest, workVars
  <2>2. UNCHANGED InDoubt
    BY <2>1, SameUnheard DEF SimOf
  <2> QED
    BY <2>1, <2>2, PromiseStutters
<1> QED
  BY <1>3, <1>4, <1>5, <1>6, <1>7, <1>8, <1>9, <1>10, <1>11, <1>12
  DEF Next, WorkerNext, Advance

\* The runner, its claimers, checkpoints, cut-offs and revisions implement what
\* a facilitator is promised (SimulationLifecycle): every step is one step of
\* that lifecycle of one simulation, or none at all.
THEOREM PromiseIsKept == OneFacilitator => (Spec => KeepsPromise)
<1> SUFFICES ASSUME OneFacilitator
             PROVE  Spec => KeepsPromise
  OBVIOUS
<1>1. TypeInv /\ ClaimInv /\ LifeInv /\ [Next]_vars => [Promise!LNext]_(Promise!lvars)
  BY PromiseStep
<1> QED
  BY <1>1, PromiseInit, LifeInvariant, PTL DEF Spec, KeepsPromise, Promise!LSpec

-----------------------------------------------------------------------------
(***************************************************************************)
(* What the settings page can be sure of, for any number of questions      *)
(* under way and lost, beside any number of claimers and facilitators.     *)
(***************************************************************************)

\* The latest version of the page's simulation has the largest number.
ShownLatest ==
    /\ LatestNumber(Shown) \in Nat
    /\ LatestNumber(Shown) \in Numbers(Shown) \union {0}
    /\ \A n \in Numbers(Shown) : n <= LatestNumber(Shown)

\* What an answer says of the latest version: not yet asked for, it is no
\* older than the status; asked for, the answer has it.
Asked(p) ==
    /\ p.answer.least \in Nat /\ p.answer.version \in Nat
    /\ p.at = "idle" => p.answer = Blank
    /\ p.at = "reading" => p.answer.least <= LatestNumber(Shown)
    /\ p.at = "answered" => p.answer.version >= p.answer.least

PageInv ==
    /\ poll = [q \in Polls |-> poll[q]]
    /\ \A q \in Polls : poll[q] = [at |-> poll[q].at, answer |-> poll[q].answer]
    /\ \A q \in Polls : poll[q].answer =
          [status |-> poll[q].answer.status, version |-> poll[q].answer.version,
           least |-> poll[q].answer.least]
    /\ \A q \in Polls : poll[q].at \in {"idle", "reading", "answered"} /\ Asked(poll[q])
    /\ page.version >= page.least

-----------------------------------------------------------------------------
(* Lemmas.                                                                 *)

\* No step takes a version away.
LEMMA VersionsStay ==
    ASSUME [Next]_vars
    PROVE  versions \subseteq versions'
<1>1. ASSUME NEW w \in Workers, Advance(w) \/ SelectJob(w) \/ RunFails(w) \/ Abort(w)
                                  \/ GenerateUnitBlip(w) \/ CommitVersionBlip(w)
      PROVE  versions \subseteq versions'
  <2>1. CASE CommitVersion(w) \/ CommitVersionBlip(w)
    BY <2>1 DEF CommitVersion, CommitVersionBlip, Deliver
  <2>2. CASE SelectJob(w) \/ CommitClaim(w) \/ LoadSim(w) \/ StartRun(w) \/ ReadLatest(w)
             \/ Abort(w)
    BY <2>2 DEF SelectJob, CommitClaim, LoadSim, StartRun, ReadLatest, Abort, dbRest
  <2>3. CASE GenerateUnit(w) \/ GenerateUnitBlip(w)
    BY <2>3 DEF GenerateUnit, GenerateUnitBlip
  <2>4. CASE ExpiredFails(w) \/ RunFails(w) \/ UnheardFails(w)
    BY <2>4 DEF ExpiredFails, RunFails, UnheardFails, MarkFailed, dbRest
  <2> QED
    BY <1>1, <2>1, <2>2, <2>3, <2>4 DEF Advance
<1>2. ASSUME NEW s \in Sims, NEW i \in Inputs, Create(s, i)
      PROVE  versions \subseteq versions'
  BY <1>2 DEF Create, dbRest
<1>3. ASSUME NEW c \in Clients, ReviseCommit(c)
      PROVE  versions \subseteq versions'
  BY <1>3 DEF ReviseCommit
<1>4. ASSUME NEW c \in Clients, NEW s \in Sims, NEW i \in Inputs, ReviseRead(c, s, i)
      PROVE  versions \subseteq versions'
  BY <1>4 DEF ReviseRead, dbRest
<1>5. ASSUME NEW s \in Sims, Approve(s)
      PROVE  versions \subseteq versions'
  BY <1>5 DEF Approve
<1>6. CASE UNCHANGED vars
  BY <1>6 DEF vars, dbRest
<1> QED
  BY <1>1, <1>2, <1>3, <1>4, <1>5, <1>6 DEF Next, WorkerNext

\* The number of the latest version never falls.
LEMMA LatestGrows ==
    ASSUME ShownLatest, ShownLatest', versions \subseteq versions'
    PROVE  LatestNumber(Shown) <= LatestNumber(Shown)'
<1>1. LatestNumber(Shown) \in Nat /\ LatestNumber(Shown)' \in Nat
  BY DEF ShownLatest
<1>2. Numbers(Shown) \subseteq Numbers(Shown)'
  BY DEF Numbers
<1>3. CASE LatestNumber(Shown) = 0
  BY <1>1, <1>3
<1>4. CASE LatestNumber(Shown) \in Numbers(Shown)
  BY <1>2, <1>4 DEF ShownLatest
<1> QED
  BY <1>3, <1>4 DEF ShownLatest

LEMMA PageInit == ConsoleInit => PageInv
  BY DEF ConsoleInit, PageInv, Asked, Blank

\* A question is asked: the status is read beside the latest version.
LEMMA RefreshKeepsPage ==
    ASSUME PageInv, ShownLatest, NEW q \in Polls, Refresh(q)
    PROVE  PageInv'
<1>1. Statement(1, Blank) =
        [status |-> simStatus[Shown], version |-> 0, least |-> LatestNumber(Shown)]
  BY DEF Statement, ReadStatus, Blank
<1>2. LatestNumber(Shown)' = LatestNumber(Shown)
  BY DEF Refresh, vars, dbRest, LatestNumber, Numbers
<1>3. \A p \in Polls : Asked(poll[p])' = Asked(poll'[p])
  BY <1>2 DEF Asked
<1>4. \A p \in Polls : poll'[p] = IF p = q THEN [at |-> "reading", answer |-> Statement(1, Blank)]
                                  ELSE poll[p]
  BY DEF Refresh, PageInv
<1> QED
  BY <1>1, <1>2, <1>4 DEF Refresh, PageInv, Asked, ShownLatest

\* The latest version is read after the status it is shown with.
LEMMA ReadKeepsPage ==
    ASSUME PageInv, ShownLatest, NEW q \in Polls, Read(q)
    PROVE  PageInv'
<1>1. PICK a : a = poll[q].answer
  OBVIOUS
<1>2. Statement(2, a) = [status |-> a.status, version |-> LatestNumber(Shown),
                         least |-> a.least]
  <2>1. a = [status |-> a.status, version |-> a.version, least |-> a.least]
    BY <1>1 DEF PageInv
  <2>2. Statement(2, a) = [a EXCEPT !.version = LatestNumber(Shown)]
    BY DEF Statement, ReadVersion
  <2> QED
    BY <2>1, <2>2
<1>3. LatestNumber(Shown)' = LatestNumber(Shown)
  BY DEF Read, vars, dbRest, LatestNumber, Numbers
<1>4. \A p \in Polls : poll'[p] = IF p = q THEN [at |-> "answered", answer |-> Statement(2, a)]
                                  ELSE poll[p]
  BY <1>1 DEF Read, PageInv
<1>5. a.least \in Nat /\ a.least <= LatestNumber(Shown)
  BY <1>1 DEF Read, PageInv, Asked
<1> QED
  BY <1>2, <1>3, <1>4, <1>5 DEF Read, PageInv, Asked, ShownLatest

\* An answer is shown, or lost.
LEMMA ReceiveKeepsPage ==
    ASSUME PageInv, NEW q \in Polls, Receive(q) \/ Lose(q)
    PROVE  PageInv'
<1>1. LatestNumber(Shown)' = LatestNumber(Shown)
  BY DEF Receive, Lose, vars, dbRest, LatestNumber, Numbers
<1>2. \A p \in Polls : poll'[p] = IF p = q THEN [at |-> "idle", answer |-> Blank] ELSE poll[p]
  BY DEF Receive, Lose, PageInv
<1>3. poll' = [p \in Polls |-> poll'[p]]
  BY DEF Receive, Lose, PageInv
<1>4. page'.version >= page'.least
  BY DEF Receive, Lose, PageInv, Asked
<1> QED
  BY <1>1, <1>2, <1>3, <1>4 DEF PageInv, Asked, Blank

\* The runner and the facilitators go on meanwhile.
LEMMA RunnerKeepsPage ==
    ASSUME PageInv, ShownLatest, ShownLatest', [Next]_vars, UNCHANGED <<page, poll>>
    PROVE  PageInv'
<1>1. LatestNumber(Shown) <= LatestNumber(Shown)'
  BY VersionsStay, LatestGrows
<1>2. LatestNumber(Shown) \in Nat /\ LatestNumber(Shown)' \in Nat
  BY DEF ShownLatest
<1>3. ASSUME NEW q \in Polls
      PROVE  Asked(poll[q])'
  BY <1>1, <1>2 DEF PageInv, Asked
<1> QED
  BY <1>3 DEF PageInv

LEMMA PageStep ==
    ASSUME PageInv, ShownLatest, ShownLatest', [ConsoleNext]_consoleVars
    PROVE  PageInv'
<1>1. CASE (Next \/ UNCHANGED vars) /\ UNCHANGED <<page, poll, lost>>
  BY <1>1, RunnerKeepsPage
<1>2. ASSUME NEW q \in Polls, Refresh(q) \/ Read(q) \/ Receive(q) \/ Lose(q)
      PROVE  PageInv'
  BY <1>2, RefreshKeepsPage, ReadKeepsPage, ReceiveKeepsPage
<1> QED
  BY <1>1, <1>2 DEF ConsoleNext, consoleVars

\* A page that says how a generation ended shows at least the version of that
\* generation, however many questions are under way, whichever answers are
\* lost or late, and whatever the claimers and the facilitators do between the
\* statements of get_status (generation_service.py:133-167): the status is
\* read before the version, and the number of the latest version never falls.
THEOREM PagesAreCoherent == ConsoleSpec => []PageIsCoherent
<1>1. ConsoleInit => Init
  BY DEF ConsoleInit
<1>2. [ConsoleNext]_consoleVars => [Next]_vars
  BY DEF ConsoleNext, consoleVars, Refresh, Read, Receive, Lose
<1>3. TypeInv => ShownLatest
  BY LatestIsMax, ConsoleAssumption DEF ShownLatest
<1>4. PageInv /\ ShownLatest /\ ShownLatest' /\ [ConsoleNext]_consoleVars => PageInv'
  BY PageStep
<1>5. PageInv => PageIsCoherent
  BY DEF PageInv, PageIsCoherent
<1> QED
  BY <1>1, <1>2, <1>3, <1>4, <1>5, PageInit, TypeInit, TypeStep, PTL DEF ConsoleSpec

-----------------------------------------------------------------------------
(***************************************************************************)
(* What a later run reuses of an earlier one: the checkpoint rows that     *)
(* survive failures, cut-off runs, lost progress transactions and          *)
(* revisions (app/jobs/checkpointer.py, app/jobs/runner.py,                *)
(* app/services/generation_service.py).                                    *)
(***************************************************************************)

\* The fields of an input have their types, and its pool of roles is not empty.
LEMMA InputTypes ==
    ASSUME NEW i \in Inputs
    PROVE  /\ i \in InputRecords
           /\ i.frame \in Frames /\ i.roles \in Seq(Roles) /\ Len(i.roles) \in Nat \ {0}
           /\ i.count \in Nat \ {0} /\ i.size \in Nat \ {0} /\ i.names \in Nat
<1>1. i \in InputRecords /\ Len(i.roles) > 0
  BY InputsAssumption
<1>2. i.roles \in Seq(Roles)
  BY <1>1 DEF InputRecords
<1> QED
  BY <1>1, <1>2 DEF InputRecords

\* The round-robin deal never reads past the pool: every participant of a
\* roster gets one of the roles.
LEMMA ContextType ==
    ASSUME NEW i \in Inputs, NEW p \in Roster(i)
    PROVE  Context(i, p) \in Roles
<1>1. i.roles \in Seq(Roles) /\ Len(i.roles) \in Nat \ {0} /\ i.count \in Nat
  BY InputTypes
<1>2. p - 1 \in Nat
  BY <1>1 DEF Roster
<1>3. (p - 1) % Len(i.roles) \in 0..(Len(i.roles) - 1)
  BY <1>1, <1>2
<1>4. ((p - 1) % Len(i.roles)) + 1 \in 1..Len(i.roles)
  BY <1>1, <1>3
<1> QED
  BY <1>1, <1>4 DEF Context

\* A team of the new input with no changed member was a team of the old one
\* with exactly the same members.
LEMMA SameTeam ==
    ASSUME NEW i \in Inputs, NEW j \in Inputs, ~FullScope(i, j), Aligned(i, j),
           NEW k \in Teams(j), k \notin ChangedTeams(i, j)
    PROVE  k \in Teams(i) /\ TeamMembers(i, k) = TeamMembers(j, k)
<1>1. i.size = j.size /\ i.names = j.names
  BY DEF FullScope
<1>2. ASSUME NEW p \in TeamMembers(j, k)
      PROVE  p \in Roster(i)
  <2>1. p \in Roster(j) /\ p \notin Changed(i, j)
    BY <1>2 DEF ChangedTeams, TeamMembers
  <2> QED
    BY <2>1 DEF Changed
<1>3. TeamMembers(j, k) \subseteq TeamMembers(i, k)
  BY <1>1, <1>2 DEF TeamMembers
<1>4. TeamMembers(i, k) \subseteq TeamMembers(j, k)
  BY DEF Aligned
<1> QED
  BY <1>1, <1>3, <1>4 DEF Teams

\* The scope of a revision is exact whenever no team loses a member it keeps a
\* team for: every node of the new input that _diff_scope leaves alone existed
\* before and was made from the very same contexts, however the roster grew
\* and however the round-robin deal shifted (generation_service.py:640-653).
THEOREM RevisionScopeIsExact ==
    ASSUME NEW i \in Inputs, NEW j \in Inputs, ~FullScope(i, j), Aligned(i, j)
    PROVE  ReuseIsExact(i, j)
<1> SUFFICES ASSUME NEW n \in Nodes(j) \ StaleNodes(i, j)
             PROVE  n \in Nodes(i) /\ Uses(i, n) = Uses(j, n)
  BY DEF ReuseIsExact
<1>1. CASE n = FrameNode
  <2>1. Subjects(i, n) = {} /\ Subjects(j, n) = {}
    BY <1>1 DEF Subjects, FrameNode, ParticipantNode, TeamNode
  <2> QED
    BY <1>1, <2>1 DEF Nodes, Uses
<1>2. ASSUME NEW p \in Roster(j), n = ParticipantNode(p)
      PROVE  n \in Nodes(i) /\ Uses(i, n) = Uses(j, n)
  <2>1. p \notin Changed(i, j)
    BY <1>2 DEF StaleNodes
  <2>2. p \in Roster(i) /\ Context(i, p) = Context(j, p)
    BY <2>1 DEF Changed
  <2>3. Subjects(i, n) = {p} /\ Subjects(j, n) = {p}
    BY <1>2, <2>2 DEF Subjects, ParticipantNode, TeamNode
  <2> QED
    BY <1>2, <2>2, <2>3 DEF Nodes, Uses
<1>3. ASSUME NEW k \in Teams(j), n = TeamNode(k)
      PROVE  n \in Nodes(i) /\ Uses(i, n) = Uses(j, n)
  <2>1. k \notin ChangedTeams(i, j)
    BY <1>3 DEF StaleNodes
  <2>2. k \in Teams(i) /\ TeamMembers(i, k) = TeamMembers(j, k)
    BY <2>1, SameTeam
  <2>3. TeamMembers(j, k) \subseteq Roster(i) /\ TeamMembers(j, k) \subseteq Roster(j)
    BY <2>2 DEF TeamMembers
  <2>4. Subjects(i, n) = TeamMembers(j, k) /\ Subjects(j, n) = TeamMembers(j, k)
    BY <1>3, <2>2, <2>3 DEF Subjects, ParticipantNode, TeamNode
  <2>5. ASSUME NEW p \in TeamMembers(j, k)
        PROVE  Context(i, p) = Context(j, p)
    <3>1. p \in Roster(j) /\ p \notin Changed(i, j)
      BY <2>1, <2>3 DEF ChangedTeams
    <3> QED
      BY <3>1 DEF Changed
  <2> QED
    BY <1>3, <2>2, <2>4, <2>5 DEF Nodes, Uses
<1> QED
  BY <1>1, <1>2, <1>3 DEF Nodes

-----------------------------------------------------------------------------
\* Two rows of one node are the same content, and all that is stored for a
\* simulation was built against the frame that is stored with it.
RowsAgree(s) ==
    /\ \A q, r \in Rows(s) : q.node = r.node => q.content = r.content
    /\ Rows(s) # {} =>
          \E f \in Rows(s) : f.node = FrameNode /\ \A r \in Rows(s) : r.content.base = f.content.by

\* Cache c is built against one frame, its own.
BasedOnOne(c) ==
    DOMAIN c # {} => /\ FrameNode \in DOMAIN c
                     /\ \A n \in DOMAIN c : c[n].base = c[FrameNode].by

\* Cache c has the nodes of the first m units of input i.
Covers(c, i, m) == \A u \in 1..m : UnitNodes(i, u) \subseteq DOMAIN c

\* Cache c holds what is stored of s, and stored is what is not dirty in it.
Mirrors(c, dirty, s) ==
    /\ \A q \in Rows(s) : q.node \in DOMAIN c /\ c[q.node] = q.content
    /\ \A n \in DOMAIN c \ dirty : [sim |-> s, node |-> n, content |-> c[n]] \in ckpt

CacheInv(w) ==
    /\ pc[w] = "loaded" => run[w].unit = 0
    /\ pc[w] \in {"running", "writing"} =>
          /\ BasedOnOne(run[w].cache)
          /\ Covers(run[w].cache, run[w].input, run[w].unit)
          /\ Mirrors(run[w].cache, run[w].dirty, SimOf(w))
    /\ pc[w] = "writing" => run[w].unit = Units(run[w].input)

\* The scope of a revision that is being decided is still that of its input.
EditsDecided ==
    \A c \in Clients : edit[c] # NoEdit =>
       /\ edit[c].full = FullScope(simInput[edit[c].sim], edit[c].input)
       /\ edit[c].stale = StaleNodes(simInput[edit[c].sim], edit[c].input)

NoProgressYet == \A j \in Jobs : jobStatus[j] \in {"none", "queued"} => jobProgress[j] = 0

StoreInv ==
    /\ \A s \in Sims : RowsAgree(s)
    /\ \A w \in Workers : CacheInv(w)
    /\ EditsDecided /\ NoProgressYet /\ ProgressIsDurable /\ OneFrame

-----------------------------------------------------------------------------
(* Units of generation.                                                    *)

\* Integer division.
LEMMA Division ==
    ASSUME NEW a \in Nat, NEW b \in Nat \ {0}
    PROVE  /\ a \div b \in Nat
           /\ \E r \in 0..(b - 1) : a = (a \div b) * b + r
<1>1. a \div b \in Int /\ a = b * (a \div b) + (a % b) /\ a % b \in 0..(b - 1)
  OBVIOUS
<1>2. PICK q \in Int, r \in 0..(b - 1) : q = a \div b /\ a = b * q + r
  BY <1>1
<1>3. q >= 0
  <2> SUFFICES ASSUME q <= -1 PROVE FALSE
    BY <1>2
  <2>1. b * (q + 1) <= 0
    OBVIOUS
  <2>2. b * (q + 1) = b * q + b
    OBVIOUS
  <2> QED
    BY <1>2, <2>1, <2>2
<1>4. b * q = q * b
  OBVIOUS
<1> QED
  BY <1>2, <1>3, <1>4

\* The waves are enough for the roster, and there is a first one.
LEMMA WavesType ==
    ASSUME NEW i \in Inputs
    PROVE  /\ Waves(i) \in Nat \ {0} /\ i.count <= Waves(i) * BatchSize
<1>1. i.count \in Nat \ {0} /\ BatchSize \in Nat \ {0}
  BY InputTypes, JobRunnerAssumption
<1>2. PICK a \in Nat : a = i.count + BatchSize - 1
  BY <1>1
<1>3. PICK r \in 0..(BatchSize - 1) : a = (a \div BatchSize) * BatchSize + r
  BY <1>1, Division
<1>4. PICK q \in Nat : q = a \div BatchSize
  BY <1>1, Division
<1>5. Waves(i) = q
  BY <1>2, <1>4 DEF Waves
<1>6. q * BatchSize \in Nat /\ a = q * BatchSize + r
  BY <1>1, <1>3, <1>4
<1>7. q * BatchSize >= i.count
  BY <1>1, <1>2, <1>6
<1>8. q # 0
  BY <1>1, <1>7
<1> QED
  BY <1>5, <1>7, <1>8

\* The teams are the first ones that have a member.
LEMMA TeamsType ==
    ASSUME NEW i \in Inputs
    PROVE  /\ IsFiniteSet(Teams(i)) /\ Cardinality(Teams(i)) \in Nat
           /\ \A k \in Teams(i) : k \in 1..Cardinality(Teams(i))
<1>1. i.count \in Nat /\ i.size \in Nat \ {0} /\ i.names \in Nat
  BY InputTypes
<1>2. IsFiniteSet(Teams(i))
  <2>1. IsFiniteSet(1..i.names) /\ Teams(i) \in SUBSET (1..i.names)
    BY <1>1, FS_Interval DEF Teams
  <2> QED
    BY <2>1, FS_Subset
<1>3. Cardinality(Teams(i)) \in Nat
  BY <1>2, FS_CardinalityType
<1>4. ASSUME NEW k \in Teams(i)
      PROVE  k \in 1..Cardinality(Teams(i))
  <2>1. k \in 1..i.names /\ TeamMembers(i, k) # {}
    BY DEF Teams
  <2>2. (k - 1) * i.size < i.count
    BY <1>1, <2>1 DEF TeamMembers, Roster
  <2>3. ASSUME NEW m \in 1..k
        PROVE  m \in Teams(i)
    <3>1. m \in 1..i.names
      BY <1>1, <2>1
    <3>2. (m - 1) * i.size <= (k - 1) * i.size
      BY <1>1, <2>1
    <3>3. m * i.size = (m - 1) * i.size + i.size /\ (m - 1) * i.size \in Nat
      BY <1>1, <3>1
    <3>4. (m - 1) * i.size + 1 \in TeamMembers(i, m)
      BY <1>1, <2>1, <2>2, <3>1, <3>2, <3>3 DEF TeamMembers, Roster
    <3> QED
      BY <3>1, <3>4 DEF Teams
  <2>4. 1..k \subseteq Teams(i) /\ k \in Nat \ {0}
    BY <1>1, <2>1, <2>3
  <2>5. Cardinality(1..k) = k
    BY <2>4, FS_Interval
  <2>6. Cardinality(1..k) <= Cardinality(Teams(i))
    BY <1>2, <2>4, FS_Subset
  <2> QED
    BY <1>3, <2>4, <2>5, <2>6
<1> QED
  BY <1>2, <1>3, <1>4

\* The first unit builds the frame.
LEMMA FrameIsFirst ==
    ASSUME NEW i \in Inputs
    PROVE  FrameNode \in UnitNodes(i, 1) /\ Units(i) \in Nat /\ 1 \in 1..Units(i)
  BY WavesType, TeamsType DEF UnitNodes, Units

\* Every node of an input belongs to one of its units.
LEMMA UnitsCover ==
    ASSUME NEW i \in Inputs, NEW n \in Nodes(i)
    PROVE  \E u \in 1..Units(i) : n \in UnitNodes(i, u)
<1>1. Waves(i) \in Nat \ {0} /\ i.count <= Waves(i) * BatchSize
      /\ BatchSize \in Nat \ {0} /\ i.count \in Nat
  BY WavesType, InputTypes, JobRunnerAssumption
<1>2. CASE n = FrameNode
  BY <1>2, FrameIsFirst
<1>3. ASSUME NEW p \in Roster(i), n = ParticipantNode(p)
      PROVE  \E u \in 1..Units(i) : n \in UnitNodes(i, u)
  <2>1. p \in 1..i.count /\ p - 1 \in Nat
    BY <1>1 DEF Roster
  <2>2. PICK q \in Nat, r \in 0..(BatchSize - 1) : p - 1 = q * BatchSize + r
    BY <1>1, <2>1, Division
  <2>3. q * BatchSize < p /\ p <= (q + 1) * BatchSize
    BY <1>1, <2>1, <2>2
  <2>4. q < Waves(i)
    <3>1. q * BatchSize < Waves(i) * BatchSize
      BY <1>1, <2>1, <2>3
    <3> QED
      BY <1>1, <3>1
  <2>5. n \in UnitNodes(i, q + 1)
    BY <1>1, <1>3, <2>3, <2>4 DEF UnitNodes
  <2>6. q + 1 \in 1..Units(i)
    BY <1>1, <2>4, TeamsType DEF Units
  <2> QED
    BY <2>5, <2>6
<1>4. ASSUME NEW k \in Teams(i), n = TeamNode(k)
      PROVE  \E u \in 1..Units(i) : n \in UnitNodes(i, u)
  <2>1. k \in 1..Cardinality(Teams(i)) /\ Cardinality(Teams(i)) \in Nat
    BY TeamsType
  <2>2. Waves(i) + k \in 1..Units(i) /\ Waves(i) + k > Waves(i) /\ (Waves(i) + k) - Waves(i) = k
    BY <1>1, <2>1 DEF Units
  <2>3. n \in UnitNodes(i, Waves(i) + k)
    BY <1>4, <2>2 DEF UnitNodes
  <2> QED
    BY <2>2, <2>3
<1> QED
  BY <1>2, <1>3, <1>4 DEF Nodes

-----------------------------------------------------------------------------
(* Rows and caches.                                                        *)

\* What a run reads of the rows of its simulation is what they say.
LEMMA HydrationMirrors ==
    ASSUME NEW s, RowsAgree(s), NEW c \in Hydrations(s)
    PROVE  BasedOnOne(c) /\ Mirrors(c, {}, s)
<1>1. /\ DOMAIN c = {r.node : r \in Rows(s)}
      /\ \A n \in DOMAIN c : [sim |-> s, node |-> n, content |-> c[n]] \in ckpt
  BY DEF Hydrations
<1>2. ASSUME NEW q \in Rows(s)
      PROVE  q.node \in DOMAIN c /\ c[q.node] = q.content
  <2>1. q.node \in DOMAIN c
    BY <1>1
  <2>2. [sim |-> s, node |-> q.node, content |-> c[q.node]] \in Rows(s)
    BY <1>1, <2>1 DEF Rows
  <2> QED
    BY <2>1, <2>2 DEF RowsAgree
<1>3. BasedOnOne(c)
  <2>1. SUFFICES ASSUME DOMAIN c # {}
                 PROVE  /\ FrameNode \in DOMAIN c
                        /\ \A n \in DOMAIN c : c[n].base = c[FrameNode].by
    BY DEF BasedOnOne
  <2>2. PICK f \in Rows(s) : f.node = FrameNode /\ \A r \in Rows(s) : r.content.base = f.content.by
    BY <1>1, <2>1 DEF RowsAgree
  <2>3. FrameNode \in DOMAIN c /\ c[FrameNode] = f.content
    BY <1>2, <2>2
  <2>4. ASSUME NEW n \in DOMAIN c
        PROVE  c[n].base = c[FrameNode].by
    <3>1. PICK r \in Rows(s) : r.node = n
      BY <1>1
    <3> QED
      BY <1>2, <2>2, <2>3, <3>1
  <2> QED
    BY <2>3, <2>4
<1> QED
  BY <1>1, <1>2, <1>3 DEF Mirrors

\* Once the dirty nodes of a cache are stored, the whole cache is, and the
\* rows are the cache.
LEMMA FlushStores ==
    ASSUME NEW s, NEW c, NEW d \in SUBSET DOMAIN c, Mirrors(c, d, s), BasedOnOne(c),
           ckpt' = ckpt \union RowsOf(s, d, c)
    PROVE  /\ \A n \in DOMAIN c : [sim |-> s, node |-> n, content |-> c[n]] \in ckpt'
           /\ \A q \in Rows(s)' : q.node \in DOMAIN c /\ c[q.node] = q.content
           /\ RowsAgree(s)'
           /\ \A t : t # s => Rows(t)' = Rows(t)
<1>1. ASSUME NEW n \in DOMAIN c
      PROVE  [sim |-> s, node |-> n, content |-> c[n]] \in ckpt'
  BY DEF Mirrors, RowsOf
<1>2. ASSUME NEW q \in Rows(s)'
      PROVE  q.node \in DOMAIN c /\ c[q.node] = q.content
  BY <1>2 DEF Rows, RowsOf, Mirrors
<1>3. RowsAgree(s)'
  <2>1. \A q, r \in Rows(s)' : q.node = r.node => q.content = r.content
    BY <1>2
  <2>2. ASSUME Rows(s)' # {}
        PROVE  \E f \in Rows(s)' : /\ f.node = FrameNode
                                   /\ \A r \in Rows(s)' : r.content.base = f.content.by
    <3>1. FrameNode \in DOMAIN c /\ \A n \in DOMAIN c : c[n].base = c[FrameNode].by
      BY <1>2, <2>2 DEF BasedOnOne
    <3>2. [sim |-> s, node |-> FrameNode, content |-> c[FrameNode]] \in Rows(s)'
      BY <1>1, <3>1 DEF Rows
    <3> QED
      BY <1>2, <3>1, <3>2
  <2> QED
    BY <2>1, <2>2 DEF RowsAgree
<1>4. ASSUME NEW t, t # s
      PROVE  Rows(t)' = Rows(t)
  BY <1>4 DEF Rows, RowsOf
<1> QED
  BY <1>1, <1>2, <1>3, <1>4

\* What a unit adds to a cache: its nodes, built against the frame the cache
\* has, or with it.
LEMMA FilledGrows ==
    ASSUME NEW w, NEW i, NEW m \in Nat, i = run[w].input, m = run[w].unit, i \in Inputs,
           BasedOnOne(run[w].cache), Covers(run[w].cache, i, m)
    PROVE  /\ BasedOnOne(Filled(w)) /\ Covers(Filled(w), i, m + 1)
           /\ DOMAIN run[w].cache \subseteq DOMAIN Filled(w)
           /\ \A n \in DOMAIN run[w].cache : Filled(w)[n] = run[w].cache[n]
<1> DEFINE c == run[w].cache
           f == Filled(w)
<1>1. /\ DOMAIN f = DOMAIN c \union Missing(w) /\ UnitNodes(i, m + 1) \subseteq DOMAIN f
      /\ \A n \in DOMAIN c : f[n] = c[n]
      /\ \A n \in DOMAIN f \ DOMAIN c : f[n] = Build(w, n)
  BY DEF Filled, Missing
<1>2. Covers(f, i, m + 1)
  <2>1. SUFFICES ASSUME NEW u \in 1..(m + 1)
                 PROVE  UnitNodes(i, u) \subseteq DOMAIN f
    BY DEF Covers
  <2>2. CASE u = m + 1
    BY <1>1, <2>2
  <2>3. CASE u \in 1..m
    BY <1>1, <2>3 DEF Covers
  <2> QED
    BY <2>1, <2>2, <2>3
<1>3. CASE FrameNode \in DOMAIN c
  <2>0. \A n \in DOMAIN c : c[n].base = c[FrameNode].by
    BY <1>3 DEF BasedOnOne
  <2>1. ASSUME NEW n \in DOMAIN f
        PROVE  f[n].base = c[FrameNode].by
    <3>1. CASE n \in DOMAIN c
      BY <1>1, <2>0, <3>1
    <3>2. CASE n \notin DOMAIN c
      <4>1. f[n] = Build(w, n)
        BY <1>1, <3>2
      <4>2. Build(w, n).base = c[FrameNode].base
        BY <1>3 DEF Build
      <4> QED
        BY <1>3, <2>0, <4>1, <4>2
    <3> QED
      BY <3>1, <3>2
  <2>2. f[FrameNode] = c[FrameNode] /\ FrameNode \in DOMAIN f
    BY <1>1, <1>3
  <2>3. BasedOnOne(f)
    BY <2>1, <2>2 DEF BasedOnOne
  <2> QED
    BY <1>1, <1>2, <2>3
<1>4. CASE FrameNode \notin DOMAIN c
  <2>1. DOMAIN c = {}
    BY <1>4 DEF BasedOnOne
  <2>2. m = 0
    <3>1. SUFFICES ASSUME m # 0 PROVE FALSE
      OBVIOUS
    <3>2. 1 \in 1..m
      BY <3>1
    <3> QED
      BY <1>4, <3>2, FrameIsFirst DEF Covers
  <2>3. FrameNode \in DOMAIN f
    BY <1>1, <2>2, FrameIsFirst
  <2>4. \A n \in DOMAIN f : f[n].base = <<held[w], w>> /\ f[n].by = <<held[w], w>>
    BY <1>1, <1>4, <2>1 DEF Build
  <2>5. BasedOnOne(f)
    BY <2>3, <2>4 DEF BasedOnOne
  <2> QED
    BY <1>1, <1>2, <2>5
<1> QED
  BY <1>3, <1>4

\* A claimer that is left alone, with the rows of its simulation.
LEMMA SameCache ==
    ASSUME NEW u, CacheInv(u), NEW s, s = SimOf(u), jobSim'[held[u]] = jobSim[held[u]],
           pc'[u] = pc[u], held'[u] = held[u], run'[u] = run[u], Rows(s)' = Rows(s)
    PROVE  CacheInv(u)'
<1>1. SimOf(u)' = s
  BY DEF SimOf
<1>2. \A n, c : [sim |-> s, node |-> n, content |-> c] \in ckpt
                  <=> [sim |-> s, node |-> n, content |-> c] \in ckpt'
  BY DEF Rows
<1>3. \A c, d : Mirrors(c, d, s) => Mirrors(c, d, s)'
  BY <1>2 DEF Mirrors
<1> QED
  BY <1>1, <1>3 DEF CacheInv, Covers, BasedOnOne

-----------------------------------------------------------------------------
(* Steps that leave the stored rows and the versions alone.                *)

LEMMA QuietStep ==
    ASSUME StoreInv, UNCHANGED <<ckpt, simInput, jobSim, jobProgress, versions, edit>>,
           \A j \in Jobs : jobStatus'[j] \in {"none", "queued"} => jobStatus'[j] = jobStatus[j],
           \A j \in Jobs : jobStatus'[j] = "running" => jobStatus[j] \in Open,
           \A w \in Workers : CacheInv(w)'
    PROVE  StoreInv'
<1>1. \A s : Rows(s)' = Rows(s)
  BY DEF Rows
<1>2. EditsDecided' /\ NoProgressYet' /\ OneFrame'
  BY DEF StoreInv, EditsDecided, NoProgressYet, OneFrame
<1>3. ProgressIsDurable'
  <2>1. SUFFICES ASSUME NEW j \in Jobs, jobStatus'[j] = "running", NEW u \in 1..jobProgress[j],
                        NEW n \in UnitNodes(simInput[jobSim[j]], u)
                 PROVE  \E r \in ckpt : r.sim = jobSim[j] /\ r.node = n
    BY DEF ProgressIsDurable
  <2>2. CASE jobStatus[j] = "running"
    BY <2>1, <2>2 DEF StoreInv, ProgressIsDurable
  <2>3. CASE jobStatus[j] = "queued"
    <3>1. jobProgress[j] = 0
      BY <2>3 DEF StoreInv, NoProgressYet
    <3> QED
      BY <3>1
  <2> QED
    BY <2>1, <2>2, <2>3 DEF Open
<1> QED
  BY <1>1, <1>2, <1>3 DEF StoreInv, RowsAgree

LEMMA QuietCache ==
    ASSUME StoreInv, UNCHANGED <<ckpt, jobSim>>, NEW u \in Workers,
           pc'[u] = pc[u], held'[u] = held[u], run'[u] = run[u]
    PROVE  CacheInv(u)'
<1>1. PICK s : s = SimOf(u)
  OBVIOUS
<1>2. Rows(s)' = Rows(s) /\ CacheInv(u)
  BY DEF Rows, StoreInv
<1> QED
  BY <1>1, <1>2, SameCache

LEMMA RestingCache ==
    ASSUME NEW u, pc'[u] \in {"idle", "selected", "claimed", "loaded", "failing"},
           pc'[u] = "loaded" => run'[u].unit = 0
    PROVE  CacheInv(u)'
  BY DEF CacheInv

LEMMA ClaimKeepsStore ==
    ASSUME TypeInv, StoreInv, NEW w \in Workers,
           SelectJob(w) \/ CommitClaim(w) \/ LoadSim(w) \/ Abort(w), ClaimInv
    PROVE  StoreInv'
<1>1. /\ UNCHANGED <<ckpt, simInput, jobSim, jobProgress, versions, edit>>
      /\ \A u \in Workers \ {w} : pc'[u] = pc[u] /\ held'[u] = held[u] /\ run'[u] = run[u]
      /\ pc'[w] \in {"idle", "selected", "claimed", "loaded"}
      /\ pc'[w] = "loaded" => run'[w].unit = 0
  BY DEF SelectJob, CommitClaim, LoadSim, Abort, simVars, jobVars, dbRest, TypeInv,
     TypeOK, WorkerTypes
<1>2. \A j \in Jobs : /\ jobStatus'[j] \in {"none", "queued"} => jobStatus'[j] = jobStatus[j]
                      /\ jobStatus'[j] = "running" => jobStatus[j] \in Open
  <2>1. CASE CommitClaim(w)
    <3>1. held[w] \in Jobs /\ jobStatus[held[w]] \in Open
      BY <2>1, HoldsOpen DEF CommitClaim
    <3>2. jobStatus' = [jobStatus EXCEPT ![held[w]] = "running"]
      BY <2>1 DEF CommitClaim
    <3> QED
      BY <3>1, <3>2 DEF TypeInv, TypeOK, JobTypes, Open
  <2>2. CASE UNCHANGED jobStatus
    BY <2>2 DEF Open
  <2> QED
    BY <2>1, <2>2 DEF SelectJob, LoadSim, Abort, jobVars
<1>3. ASSUME NEW u \in Workers PROVE CacheInv(u)'
  BY <1>1, QuietCache, RestingCache
<1> QED
  BY <1>1, <1>2, <1>3, QuietStep

LEMMA FailKeepsStore ==
    ASSUME TypeInv, StoreInv, NEW w \in Workers, pc[w] # "idle",
           NEW error, MarkFailed(w, error)
    PROVE  StoreInv'
<1>1. /\ UNCHANGED <<ckpt, simInput, jobSim, jobProgress, versions, edit>>
      /\ \A u \in Workers \ {w} : pc'[u] = pc[u] /\ held'[u] = held[u] /\ run'[u] = run[u]
      /\ pc'[w] = "idle"
  BY DEF MarkFailed, dbRest, TypeInv, TypeOK, WorkerTypes
<1>2. \A j \in Jobs : /\ jobStatus'[j] \in {"none", "queued"} => jobStatus'[j] = jobStatus[j]
                      /\ jobStatus'[j] = "running" => jobStatus[j] \in Open
  BY HeldType DEF MarkFailed, TypeInv, TypeOK, JobTypes, Open
<1>3. ASSUME NEW u \in Workers PROVE CacheInv(u)'
  BY <1>1, QuietCache, RestingCache
<1> QED
  BY <1>1, <1>2, <1>3, QuietStep

LEMMA StartKeepsStore ==
    ASSUME TypeInv, StoreInv, NEW w \in Workers, StartRun(w)
    PROVE  StoreInv'
<1>1. /\ UNCHANGED <<ckpt, simInput, jobStatus, jobSim, jobProgress, versions, edit, held>>
      /\ \A u \in Workers \ {w} : pc'[u] = pc[u] /\ run'[u] = run[u]
      /\ pc'[w] = "running"
  BY DEF StartRun, jobVars, TypeInv, TypeOK, WorkerTypes
<1>2. PICK s \in Sims : s = SimOf(w)
  BY HeldType DEF StartRun
<1>3. RunLike(run[w]) /\ run[w].dirty = {} /\ run[w].unit = 0
  BY DEF StartRun, TypeInv, TypeOK, WorkerTypes, NothingDirty, StoreInv, CacheInv
<1>4. PICK c \in Hydrations(s) : run' = [run EXCEPT ![w].cache = c]
  BY <1>2 DEF StartRun
<1>5. run'[w].cache = c /\ run'[w].dirty = {} /\ run'[w].unit = 0
  BY <1>3, <1>4, RunType DEF TypeInv, TypeOK, WorkerTypes
<1>6. BasedOnOne(c) /\ Mirrors(c, {}, s)
  BY <1>2, HydrationMirrors DEF StoreInv
<1>7. CacheInv(w)'
  <2>1. SimOf(w)' = s
    BY <1>1, <1>2 DEF SimOf
  <2>2. Covers(c, run'[w].input, 0)
    BY DEF Covers
  <2>3. Mirrors(c, {}, s)'
    BY <1>1, <1>6 DEF Mirrors, Rows
  <2>4. BasedOnOne(run[w].cache)' /\ Covers(run[w].cache, run[w].input, run[w].unit)'
    BY <1>5, <1>6, <2>2 DEF BasedOnOne, Covers
  <2> QED
    BY <1>1, <1>5, <2>1, <2>3, <2>4 DEF CacheInv
<1>8. ASSUME NEW u \in Workers PROVE CacheInv(u)'
  BY <1>1, <1>7, QuietCache
<1> QED
  BY <1>1, <1>8, QuietStep DEF Open

LEMMA ReadLatestKeepsStore ==
    ASSUME TypeInv, StoreInv, NEW w \in Workers, ReadLatest(w)
    PROVE  StoreInv'
<1>1. /\ UNCHANGED <<ckpt, simInput, jobStatus, jobSim, jobProgress, versions, edit, held>>
      /\ \A u \in Workers \ {w} : pc'[u] = pc[u] /\ run'[u] = run[u]
      /\ pc[w] = "running" /\ run[w].unit = Units(run[w].input)
  BY DEF ReadLatest, Generated, simVars, jobVars, dbRest, TypeInv, TypeOK, WorkerTypes
<1>2. RunLike(run[w])
  BY <1>1 DEF TypeInv, TypeOK, WorkerTypes
<1>3. /\ run'[w].cache = run[w].cache /\ run'[w].dirty = run[w].dirty
      /\ run'[w].unit = run[w].unit /\ run'[w].input = run[w].input
  BY <1>2, RunType DEF ReadLatest, TypeInv, TypeOK, WorkerTypes
<1>4. PICK s : s = SimOf(w)
  OBVIOUS
<1>5. CacheInv(w)'
  <2>1. SimOf(w)' = s
    BY <1>1, <1>4 DEF SimOf
  <2>2. Mirrors(run[w].cache, run[w].dirty, s)'
    BY <1>1, <1>3, <1>4 DEF StoreInv, CacheInv, Mirrors, Rows
  <2>3. BasedOnOne(run[w].cache)' /\ Covers(run[w].cache, run[w].input, run[w].unit)'
    BY <1>1, <1>3 DEF StoreInv, CacheInv, BasedOnOne, Covers
  <2>4. pc'[w] = "writing"
    BY DEF ReadLatest, TypeInv, TypeOK, WorkerTypes
  <2> QED
    BY <1>1, <1>3, <2>1, <2>2, <2>3, <2>4 DEF CacheInv
<1>6. ASSUME NEW u \in Workers PROVE CacheInv(u)'
  BY <1>1, <1>5, QuietCache
<1> QED
  BY <1>1, <1>6, QuietStep DEF Open

LEMMA ApproveKeepsStore ==
    ASSUME TypeInv, StoreInv, (\E s \in Sims : Approve(s)) \/ UNCHANGED vars
    PROVE  StoreInv'
<1>1. UNCHANGED <<ckpt, simInput, jobStatus, jobSim, jobProgress, versions, edit, pc, held, run>>
  BY DEF Approve, vars, simVars, jobVars, dbRest, workVars
<1>2. ASSUME NEW u \in Workers PROVE CacheInv(u)'
  BY <1>1, QuietCache
<1> QED
  BY <1>1, <1>2, QuietStep DEF Open

-----------------------------------------------------------------------------
(* A unit of generation.                                                   *)

\* Rows of one simulation are added: its claimer's cache is all there is to
\* look at, since nobody else works on that simulation.
LEMMA OthersKeepCaches ==
    ASSUME TypeInv, ClaimInv, LifeInv, StoreInv, NEW w \in Workers, pc[w] # "idle",
           NEW s, s = SimOf(w), UNCHANGED jobSim, \A t : t # s => Rows(t)' = Rows(t),
           NEW u \in Workers \ {w}, pc'[u] = pc[u], held'[u] = held[u], run'[u] = run[u]
    PROVE  CacheInv(u)'
<1>1. CASE pc[u] = "idle"
  BY <1>1, RestingCache
<1>2. CASE pc[u] # "idle"
  <2>1. PICK t : t = SimOf(u)
    OBVIOUS
  <2>2. Rows(t)' = Rows(t) /\ CacheInv(u)
    BY <1>2, <2>1, Alone DEF StoreInv
  <2> QED
    BY <2>1, <2>2, SameCache
<1> QED
  BY <1>1, <1>2

\* The rows of the other simulations, and the progress of the other jobs.
LEMMA FlushKeepsProgress ==
    ASSUME TypeInv, StoreInv, UNCHANGED <<simInput, jobSim>>, ckpt \subseteq ckpt',
           NEW h \in Jobs, \A j \in Jobs \ {h} : jobStatus'[j] = jobStatus[j] /\ jobProgress'[j] = jobProgress[j],
           jobStatus'[h] = "running" =>
               \A u \in 1..jobProgress'[h] : \A n \in UnitNodes(simInput[jobSim[h]], u) :
                  \E r \in ckpt' : r.sim = jobSim[h] /\ r.node = n
    PROVE  ProgressIsDurable'
  BY DEF StoreInv, ProgressIsDurable

LEMMA GenerateKeepsStore ==
    ASSUME TypeInv, ClaimInv, LifeInv, StoreInv, NEW w \in Workers,
           GenerateUnit(w) \/ GenerateUnitBlip(w)
    PROVE  StoreInv'
<1>1. /\ UNCHANGED <<simStatus, simInput, jobStatus, jobSim, versions, pc, held, edit>>
      /\ pc[w] = "running"
  BY DEF GenerateUnit, GenerateUnitBlip, Generating, simVars
<1>2. PICK s \in Sims : s = SimOf(w)
  BY <1>1, HeldType
<1>3. /\ held[w] \in Jobs /\ jobSim[held[w]] = s /\ jobStatus[held[w]] \in Open
      /\ jobStatus[held[w]] \notin {"none", "queued"}
  BY <1>1, <1>2, HoldsOpen DEF SimOf, ClaimInv, Working
<1>4. RunLike(run[w]) /\ run = [u \in Workers |-> run[u]]
  BY <1>1 DEF TypeInv, TypeOK, WorkerTypes
<1>5. PICK i \in Inputs, m \in Nat, c \in {run[w].cache}, d \in {run[w].dirty} : i = run[w].input /\ m = run[w].unit
                                           /\ c = run[w].cache /\ d = run[w].dirty
  BY <1>4, RunType
<1>6. BasedOnOne(c) /\ Covers(c, i, m) /\ Mirrors(c, d, s) /\ i = simInput[s]
  BY <1>1, <1>2, <1>5 DEF StoreInv, CacheInv, LifeInv, RunsFollow, RunFollows, Started
<1>7. PICK f, p : f = Filled(w) /\ p = Pending(w)
  OBVIOUS
<1>8. /\ BasedOnOne(f) /\ Covers(f, i, m + 1) /\ p \in SUBSET DOMAIN f
      /\ DOMAIN c \subseteq DOMAIN f /\ \A n \in DOMAIN c : f[n] = c[n]
      /\ DOMAIN f \ p \subseteq DOMAIN c \ d
  <2>1. BasedOnOne(f) /\ Covers(f, i, m + 1) /\ DOMAIN c \subseteq DOMAIN f
        /\ \A n \in DOMAIN c : f[n] = c[n]
    BY <1>5, <1>6, <1>7, FilledGrows
  <2>2. DOMAIN f = DOMAIN c \union Missing(w) /\ p = d \union Missing(w)
    BY <1>5, <1>7 DEF Filled, Pending
  <2>3. d \subseteq DOMAIN c
    BY <1>4, <1>5, RunType
  <2> QED
    BY <2>1, <2>2, <2>3
<1>9. Mirrors(f, p, s)
  BY <1>6, <1>8 DEF Mirrors
<1>10. /\ run'[w].input = i /\ run'[w].cache = f /\ run'[w].unit = m + 1
       /\ \/ run'[w].dirty = p
          \/ run'[w].dirty = {} /\ GenerateUnit(w)
       /\ \A u \in Workers \ {w} : run'[u] = run[u]
  <2>1. CASE GenerateUnit(w)
    BY <1>4, <1>5, <1>7, <2>1, RunType DEF GenerateUnit
  <2>2. CASE GenerateUnitBlip(w)
    BY <1>4, <1>5, <1>7, <2>2, RunType DEF GenerateUnitBlip, Restored
  <2> QED
    BY <2>1, <2>2
<1>11. SimOf(w)' = s
  BY <1>1, <1>2 DEF SimOf
<1>12. CASE /\ ckpt' = ckpt \union RowsOf(s, p, f)
            /\ jobProgress' = [jobProgress EXCEPT ![held[w]] = m + 1]
  <2>1. /\ \A n \in DOMAIN f : [sim |-> s, node |-> n, content |-> f[n]] \in ckpt'
        /\ \A q \in Rows(s)' : q.node \in DOMAIN f /\ f[q.node] = q.content
        /\ RowsAgree(s)'
        /\ \A t : t # s => Rows(t)' = Rows(t)
    BY <1>8, <1>9, <1>12, FlushStores
  <2>2. CacheInv(w)'
    <3>1. BasedOnOne(run[w].cache)' /\ Covers(run[w].cache, run[w].input, run[w].unit)'
      BY <1>8, <1>10 DEF BasedOnOne, Covers
    <3>2. Mirrors(run[w].cache, run[w].dirty, s)'
      BY <1>10, <2>1 DEF Mirrors
    <3> QED
      BY <1>1, <1>11, <3>1, <3>2 DEF CacheInv
  <2>3. ASSUME NEW u \in Workers PROVE CacheInv(u)'
    BY <1>1, <1>2, <1>10, <2>1, <2>2, OthersKeepCaches
  <2>4. ASSUME NEW t \in Sims PROVE RowsAgree(t)'
    BY <2>1 DEF StoreInv, RowsAgree
  <2>5. \A j \in Jobs \ {held[w]} : jobProgress'[j] = jobProgress[j]
    BY <1>12 DEF TypeInv, TypeOK, JobTypes
  <2>6. ASSUME NEW u \in 1..(m + 1), NEW n \in UnitNodes(i, u)
        PROVE  \E r \in ckpt' : r.sim = s /\ r.node = n
    BY <1>8, <2>1 DEF Covers
  <2>7. jobProgress'[held[w]] = m + 1
    BY <1>3, <1>12 DEF TypeInv, TypeOK, JobTypes
  <2>8. ProgressIsDurable'
    BY <1>1, <1>3, <1>6, <1>12, <2>5, <2>6, <2>7, FlushKeepsProgress
  <2>9. NoProgressYet'
    BY <1>1, <1>3, <2>5 DEF StoreInv, NoProgressYet
  <2> QED
    BY <1>1, <2>3, <2>4, <2>8, <2>9 DEF StoreInv, EditsDecided, OneFrame
<1>13. CASE UNCHANGED <<ckpt, jobProgress>> /\ run'[w].dirty = p
  <2>1. \A t : Rows(t)' = Rows(t)
    BY <1>13 DEF Rows
  <2>2. CacheInv(w)'
    <3>1. BasedOnOne(run[w].cache)' /\ Covers(run[w].cache, run[w].input, run[w].unit)'
      BY <1>8, <1>10 DEF BasedOnOne, Covers
    <3>2. Mirrors(run[w].cache, run[w].dirty, s)'
      BY <1>9, <1>10, <1>13, <2>1 DEF Mirrors
    <3> QED
      BY <1>1, <1>11, <3>1, <3>2 DEF CacheInv
  <2>3. ASSUME NEW u \in Workers PROVE CacheInv(u)'
    BY <1>1, <1>2, <1>10, <2>1, <2>2, OthersKeepCaches
  <2> QED
    BY <1>1, <1>13, <2>3, QuietStep DEF Open
<1> QED
  <2>1. CASE GenerateUnit(w)
    BY <1>2, <1>5, <1>7, <1>12, <2>1 DEF GenerateUnit
  <2>2. CASE GenerateUnitBlip(w)
    <3>1. run'[w].dirty = p
      BY <1>4, <1>5, <1>7, <2>2, RunType DEF GenerateUnitBlip, Restored
    <3> QED
      BY <1>2, <1>5, <1>7, <1>12, <1>13, <2>2, <3>1 DEF GenerateUnitBlip
  <2> QED
    BY <2>1, <2>2

-----------------------------------------------------------------------------
(* A run that ends with a version.                                         *)

\* A run that has done all its units has every node its version takes.
LEMMA CacheIsComplete ==
    ASSUME TypeInv, StoreInv, NEW w \in Workers, pc[w] = "writing"
    PROVE  Nodes(run[w].input) \subseteq DOMAIN run[w].cache
<1>1. run[w].input \in Inputs
  BY RunType DEF TypeInv, TypeOK, WorkerTypes
<1>2. Covers(run[w].cache, run[w].input, Units(run[w].input))
  BY DEF StoreInv, CacheInv
<1> QED
  BY <1>1, <1>2, UnitsCover DEF Covers

LEMMA CommitKeepsStore ==
    ASSUME TypeInv, ClaimInv, LifeInv, StoreInv, NEW w \in Workers,
           CommitVersion(w) \/ CommitVersionBlip(w)
    PROVE  StoreInv'
<1>1. /\ UNCHANGED <<simInput, jobSim, jobProgress, edit>> /\ pc[w] = "writing"
      /\ jobStatus' = [jobStatus EXCEPT ![held[w]] = "completed"]
      /\ ckpt' = ckpt \union RowsOf(SimOf(w), run[w].dirty, run[w].cache)
      /\ pc'[w] \in {"idle", "failing"}
      /\ \A u \in Workers \ {w} : pc'[u] = pc[u] /\ held'[u] = held[u] /\ run'[u] = run[u]
  BY DEF CommitVersion, CommitVersionBlip, Deliver, TypeInv, TypeOK, WorkerTypes
<1>2. PICK s \in Sims : s = SimOf(w)
  BY <1>1, HeldType
<1>3. held[w] \in Jobs
  BY <1>1, HeldType
<1>4. PICK c, d : c = run[w].cache /\ d = run[w].dirty
  OBVIOUS
<1>5. BasedOnOne(c) /\ Mirrors(c, d, s) /\ d \in SUBSET DOMAIN c
  BY <1>1, <1>2, <1>4, RunType DEF StoreInv, CacheInv, TypeInv, TypeOK, WorkerTypes
<1>6. RowsAgree(s)' /\ \A t : t # s => Rows(t)' = Rows(t)
  BY <1>1, <1>2, <1>4, <1>5, FlushStores
<1>7. ASSUME NEW u \in Workers PROVE CacheInv(u)'
  BY <1>1, <1>2, <1>6, OthersKeepCaches, RestingCache
<1>8. ASSUME NEW t \in Sims PROVE RowsAgree(t)'
  BY <1>6 DEF StoreInv, RowsAgree
<1>9. \A j \in Jobs \ {held[w]} : jobStatus'[j] = jobStatus[j]
  BY <1>1 DEF TypeInv, TypeOK, JobTypes
<1>10. jobStatus'[held[w]] = "completed"
  BY <1>1, <1>3 DEF TypeInv, TypeOK, JobTypes
<1>11. ProgressIsDurable' /\ NoProgressYet'
  <2>1. ProgressIsDurable'
    BY <1>1, <1>3, <1>9, <1>10, FlushKeepsProgress
  <2> QED
    BY <1>1, <1>3, <1>9, <1>10, <2>1 DEF StoreInv, NoProgressYet
<1>12. OneFrame'
  <2>1. PICK v : v \in {NewVersion(w, TRUE), NewVersion(w, FALSE)} /\ versions' = versions \union {v}
    BY DEF CommitVersion, CommitVersionBlip, Deliver
  <2>2. v.input = run[w].input /\ v.content = [n \in Nodes(run[w].input) |-> c[n]]
    BY <1>4, <2>1 DEF NewVersion
  <2>3. Nodes(run[w].input) \subseteq DOMAIN c /\ FrameNode \in Nodes(run[w].input)
    BY <1>1, <1>4, CacheIsComplete DEF Nodes
  <2>4. \A n \in Nodes(v.input) : v.content[n].base = v.content[FrameNode].by
    BY <1>5, <2>2, <2>3 DEF BasedOnOne
  <2> QED
    BY <2>1, <2>4 DEF StoreInv, OneFrame
<1> QED
  BY <1>1, <1>7, <1>8, <1>11, <1>12 DEF StoreInv, EditsDecided

-----------------------------------------------------------------------------
(* The facilitator's requests.                                             *)

\* A job is queued for a simulation that is not under way: the running jobs,
\* and the claimers, are those of other simulations.
LEMMA QueueKeepsStore ==
    ASSUME TypeInv, ClaimInv, LifeInv, StoreInv, NEW s \in Sims,
           simStatus[s] \notin Ongoing, ~Unheard(s), QueueJob(s),
           simStatus' = [simStatus EXCEPT ![s] = "queued"],
           UNCHANGED <<jobProgress, versions, pc, held, run>>,
           \A t \in Sims \ {s} : simInput'[t] = simInput[t],
           \A t : t # s => Rows(t)' = Rows(t), RowsAgree(s)', EditsDecided'
    PROVE  StoreInv'
<1>1. PICK h \in Jobs : /\ jobStatus[h] = "none"
                        /\ jobStatus' = [jobStatus EXCEPT ![h] = "queued"]
                        /\ jobSim' = [jobSim EXCEPT ![h] = s]
  BY DEF QueueJob, NextJob
<1>2. /\ jobStatus'[h] = "queued"
      /\ \A j \in Jobs \ {h} : jobStatus'[j] = jobStatus[j] /\ jobSim'[j] = jobSim[j]
  BY <1>1 DEF TypeInv, TypeOK, JobTypes
<1>3. ASSUME NEW u \in Workers PROVE CacheInv(u)'
  <2>1. CASE pc[u] = "idle"
    BY <2>1, RestingCache
  <2>2. CASE pc[u] # "idle"
    <3>1. PICK t : t = SimOf(u)
      OBVIOUS
    <3>2. t # s /\ jobSim'[held[u]] = jobSim[held[u]]
      BY <2>2, <3>1, QueueKeepsJobs
    <3> QED
      BY <3>1, <3>2, SameCache DEF StoreInv
  <2> QED
    BY <2>1, <2>2
<1>4. NoProgressYet'
  BY <1>1, <1>2 DEF StoreInv, NoProgressYet
<1>5. ProgressIsDurable'
  <2>1. SUFFICES ASSUME NEW j \in Jobs, jobStatus'[j] = "running", NEW u \in 1..jobProgress[j],
                        NEW n \in UnitNodes(simInput'[jobSim'[j]], u)
                 PROVE  \E r \in ckpt' : r.sim = jobSim'[j] /\ r.node = n
    BY DEF ProgressIsDurable
  <2>2. PICK t : t = jobSim[j]
    OBVIOUS
  <2>3. j # h /\ jobStatus[j] = "running" /\ jobSim'[j] = t
    BY <1>2, <2>1, <2>2
  <2>4. t \in Sims \ {s}
    BY <2>2, <2>3 DEF LifeInv, JobsFollow, Open, TypeInv, TypeOK, JobTypes
  <2>5. PICK r \in ckpt : r.sim = t /\ r.node = n
    BY <2>1, <2>2, <2>3, <2>4 DEF StoreInv, ProgressIsDurable
  <2>6. r \in Rows(t)'
    BY <2>4, <2>5 DEF Rows
  <2> QED
    BY <2>3, <2>5, <2>6 DEF Rows
<1> QED
  BY <1>3, <1>4, <1>5 DEF StoreInv, RowsAgree, OneFrame

LEMMA CreateKeepsStore ==
    ASSUME TypeInv, ClaimInv, LifeInv, StoreInv, NEW s \in Sims, NEW i \in Inputs, Create(s, i)
    PROVE  StoreInv'
<1>1. /\ simStatus[s] = "none" /\ QueueJob(s) /\ simStatus' = [simStatus EXCEPT ![s] = "queued"]
      /\ simInput' = [simInput EXCEPT ![s] = i]
      /\ UNCHANGED <<ckpt, jobProgress, versions, pc, held, run, edit>>
  BY DEF Create, dbRest, workVars
<1>2. /\ \A t : Rows(t)' = Rows(t)
      /\ \A t \in Sims \ {s} : simInput'[t] = simInput[t]
  BY <1>1 DEF Rows, TypeInv, TypeOK, SimTypes
<1>3. RowsAgree(s)'
  BY <1>2 DEF StoreInv, RowsAgree
<1>4. EditsDecided'
  <2>1. \A c \in Clients : edit[c] # NoEdit => edit[c].sim \in Sims \ {s}
    BY <1>1 DEF TypeInv, TypeOK, EditTypes, EditLike
  <2> QED
    BY <1>1, <1>2, <2>1 DEF StoreInv, EditsDecided
<1>5. ~Unheard(s)
  BY <1>1 DEF LifeInv, DoubtsFollow, Unheard
<1> QED
  BY <1>1, <1>2, <1>3, <1>4, <1>5, QueueKeepsStore DEF Ongoing

LEMMA ReviseReadKeepsStore ==
    ASSUME TypeInv, StoreInv, NEW c \in Clients, NEW s \in Sims, NEW i \in Inputs, ReviseRead(c, s, i)
    PROVE  StoreInv'
<1>1. UNCHANGED <<ckpt, simInput, jobStatus, jobSim, jobProgress, versions, pc, held, run>>
  BY DEF ReviseRead, simVars, jobVars, dbRest, workVars
<1>2. ASSUME NEW u \in Workers PROVE CacheInv(u)'
  BY <1>1, QuietCache
<1>3. EditsDecided'
  <2>1. edit' = [edit EXCEPT ![c] = [sim |-> s, input |-> i, full |-> FullScope(simInput[s], i),
                                     stale |-> StaleNodes(simInput[s], i)]]
    BY DEF ReviseRead
  <2>2. /\ edit'[c].sim = s /\ edit'[c].input = i
        /\ edit'[c].full = FullScope(simInput[s], i) /\ edit'[c].stale = StaleNodes(simInput[s], i)
        /\ \A d \in Clients \ {c} : edit'[d] = edit[d]
    BY <2>1 DEF TypeInv, TypeOK, EditTypes
  <2> QED
    BY <1>1, <2>2 DEF StoreInv, EditsDecided
<1>4. \A t : Rows(t)' = Rows(t)
  BY <1>1 DEF Rows
<1>5. NoProgressYet' /\ ProgressIsDurable' /\ OneFrame'
  BY <1>1 DEF StoreInv, NoProgressYet, ProgressIsDurable, OneFrame
<1> QED
  BY <1>2, <1>3, <1>4, <1>5 DEF StoreInv, RowsAgree

\* What a revision deletes: all rows of its simulation, or some that are not
\* the frame.
LEMMA DeletedRows ==
    ASSUME NEW e, NEW i, NEW s, s = e.sim, e.stale = StaleNodes(i, e.input),
           ckpt' = ckpt \ Deleted(e)
    PROVE  /\ \A t : t # s => Rows(t)' = Rows(t)
           /\ e.full => Rows(s)' = {}
           /\ ~e.full => Rows(s)' = {q \in Rows(s) : q.node \notin StaleNodes(i, e.input)}
           /\ FrameNode \notin StaleNodes(i, e.input)
<1>1. \A t : t # s => Rows(t)' = Rows(t)
  BY DEF Rows, Deleted
<1>2. e.full => Rows(s)' = {}
  BY DEF Rows, Deleted
<1>3. ~e.full => Rows(s)' = {q \in Rows(s) : q.node \notin StaleNodes(i, e.input)}
  BY DEF Rows, Deleted
<1>4. FrameNode \notin StaleNodes(i, e.input)
  BY DEF StaleNodes, FrameNode, ParticipantNode, TeamNode
<1> QED
  BY <1>1, <1>2, <1>3, <1>4

LEMMA ReviseCommitKeepsStore ==
    ASSUME OneFacilitator, TypeInv, ClaimInv, LifeInv, StoreInv, NEW c \in Clients, ReviseCommit(c)
    PROVE  StoreInv'
<1>1. edit[c] # NoEdit
  BY DEF ReviseCommit
<1>2. PICK e : e = edit[c]
  OBVIOUS
<1>3. PICK s \in Sims : s = e.sim
  BY <1>1, <1>2 DEF TypeInv, TypeOK, EditTypes, EditLike
<1>4. /\ ckpt' = ckpt \ Deleted(e) /\ QueueJob(s)
      /\ simInput' = [simInput EXCEPT ![s] = e.input]
      /\ simStatus' = [simStatus EXCEPT ![s] = "queued"]
      /\ edit' = [edit EXCEPT ![c] = NoEdit]
      /\ UNCHANGED <<jobProgress, versions, pc, held, run>>
  BY <1>2, <1>3 DEF ReviseCommit, workVars
<1>5. simStatus[s] \notin Ongoing
  BY <1>1, <1>2, <1>3 DEF LifeInv, EditsFollow, AtRest, Ongoing
<1>6. PICK i : i = simInput[s]
  OBVIOUS
<1>7. e.stale = StaleNodes(i, e.input)
  BY <1>1, <1>2, <1>3, <1>6 DEF StoreInv, EditsDecided
<1>8. /\ \A t : t # s => Rows(t)' = Rows(t)
      /\ e.full => Rows(s)' = {}
      /\ ~e.full => Rows(s)' = {q \in Rows(s) : q.node \notin StaleNodes(i, e.input)}
      /\ FrameNode \notin StaleNodes(i, e.input)
  BY <1>3, <1>4, <1>7, DeletedRows
<1>9. RowsAgree(s)'
  <2>1. CASE e.full
    BY <1>8, <2>1 DEF RowsAgree
  <2>2. CASE ~e.full
    BY <1>8, <2>2 DEF StoreInv, RowsAgree
  <2> QED
    BY <2>1, <2>2
<1>10. EditsDecided'
  <2>1. \A d \in Clients : edit'[d] = NoEdit
    BY <1>4 DEF OneFacilitator, TypeInv, TypeOK, EditTypes
  <2> QED
    BY <2>1 DEF EditsDecided
<1>11. \A t \in Sims \ {s} : simInput'[t] = simInput[t]
  BY <1>4 DEF TypeInv, TypeOK, SimTypes
<1>12. ~Unheard(s)
  BY <1>1, <1>2, <1>3 DEF LifeInv, DoubtsFollow, Unheard
<1> QED
  BY <1>4, <1>5, <1>8, <1>9, <1>10, <1>11, <1>12, QueueKeepsStore

LEMMA StoreInit == Init => StoreInv
<1> SUFFICES ASSUME Init
             PROVE  StoreInv
  OBVIOUS
<1>1. \A s : Rows(s) = {}
  BY DEF Init, Rows
<1>2. \A w \in Workers : CacheInv(w)
  BY DEF Init, CacheInv
<1>3. EditsDecided /\ NoProgressYet /\ ProgressIsDurable /\ OneFrame
  BY DEF Init, EditsDecided, NoProgressYet, ProgressIsDurable, OneFrame
<1> QED
  BY <1>1, <1>2, <1>3 DEF StoreInv, RowsAgree

LEMMA StoreStep ==
    ASSUME OneFacilitator, TypeInv, ClaimInv, LifeInv, StoreInv, [Next]_vars
    PROVE  StoreInv'
<1>1. ASSUME NEW w \in Workers, SelectJob(w) \/ CommitClaim(w) \/ LoadSim(w) \/ Abort(w)
      PROVE  StoreInv'
  BY <1>1, ClaimKeepsStore
<1>2. ASSUME NEW w \in Workers, StartRun(w) \/ ReadLatest(w)
      PROVE  StoreInv'
  BY <1>2, StartKeepsStore, ReadLatestKeepsStore
<1>3. ASSUME NEW w \in Workers, GenerateUnit(w) \/ GenerateUnitBlip(w)
                                 \/ CommitVersion(w) \/ CommitVersionBlip(w)
      PROVE  StoreInv'
  BY <1>3, GenerateKeepsStore, CommitKeepsStore
<1>4. ASSUME NEW w \in Workers, RunFails(w) \/ ExpiredFails(w) \/ UnheardFails(w)
      PROVE  StoreInv'
  <2>1. pc[w] # "idle" /\ (MarkFailed(w, "engine") \/ MarkFailed(w, "expired"))
    BY <1>4 DEF RunFails, ExpiredFails, UnheardFails, Generated
  <2> QED
    BY <2>1, FailKeepsStore
<1>5. ASSUME NEW s \in Sims, NEW i \in Inputs,
             Create(s, i) \/ \E c \in Clients : ReviseRead(c, s, i)
      PROVE  StoreInv'
  BY <1>5, CreateKeepsStore, ReviseReadKeepsStore
<1>6. ASSUME NEW c \in Clients, ReviseCommit(c)
      PROVE  StoreInv'
  BY <1>6, ReviseCommitKeepsStore
<1>7. CASE (\E s \in Sims : Approve(s)) \/ UNCHANGED vars
  BY <1>7, ApproveKeepsStore
<1> QED
  BY <1>1, <1>2, <1>3, <1>4, <1>5, <1>6, <1>7 DEF Next, WorkerNext, Advance

LEMMA StoreInvariant ==
    ASSUME OneFacilitator PROVE Spec => [](TypeInv /\ ClaimInv /\ LifeInv /\ StoreInv)
<1>1. Init => StoreInv
  BY StoreInit
<1>2. TypeInv /\ ClaimInv /\ LifeInv /\ StoreInv /\ [Next]_vars => StoreInv'
  BY StoreStep
<1> QED
  BY <1>1, <1>2, LifeInvariant, PTL DEF Spec

\* All nodes of a version were built against one and the same frame, over any
\* number of failed and cut-off runs, lost progress transactions and partial
\* revisions: what is stored for a simulation at any time has its frame with
\* it, a run reads that frame first, and no partial revision deletes it
\* (orchestrator.py:272-273, generation_service.py:640-653).
THEOREM FramesAreShared == OneFacilitator => (Spec => []OneFrame)
<1> SUFFICES ASSUME OneFacilitator
             PROVE  Spec => []OneFrame
  OBVIOUS
<1>1. StoreInv => OneFrame
  BY DEF StoreInv
<1> QED
  BY <1>1, StoreInvariant, PTL

\* Progress shown for a running job is durable: the rows of every unit it
\* counts are there, also after progress transactions that have failed with or
\* without effect, so whatever ends the run, the next one starts after them.
THEOREM ProgressStays == OneFacilitator => (Spec => []ProgressIsDurable)
<1> SUFFICES ASSUME OneFacilitator
             PROVE  Spec => []ProgressIsDurable
  OBVIOUS
<1>1. StoreInv => ProgressIsDurable
  BY DEF StoreInv
<1> QED
  BY <1>1, StoreInvariant, PTL

-----------------------------------------------------------------------------
(* Freshness.                                                              *)

\* A step in which no revision within the partial scope takes a member away
\* from a team that goes on.
TeamsKeepMembers ==
    \A s \in Sims : simStatus[s] # "none" /\ ~FullScope(simInput[s], simInput'[s])
                      => Aligned(simInput[s], simInput'[s])

\* Content c of node n was made from what input i gives the node.
MadeFor(i, n, c) == c.frame = i.frame /\ (n \in Nodes(i) => c.uses = Uses(i, n))

RowsMadeFor(s) == \A q \in Rows(s) : MadeFor(simInput[s], q.node, q.content)

CacheMadeFor(w) ==
    pc[w] \in {"running", "writing"} =>
       \A n \in DOMAIN run[w].cache : MadeFor(run[w].input, n, run[w].cache[n])

FreshInv ==
    /\ \A s \in Sims : simStatus[s] = "none" => Rows(s) = {}
    /\ \A s \in Sims : RowsMadeFor(s)
    /\ \A w \in Workers : CacheMadeFor(w)
    /\ VersionsAreFresh

LEMMA QuietFresh ==
    ASSUME FreshInv, UNCHANGED <<ckpt, simInput, versions>>,
           \A s \in Sims : simStatus'[s] = "none" => simStatus[s] = "none",
           \A w \in Workers : CacheMadeFor(w)'
    PROVE  FreshInv'
<1>1. \A s : Rows(s)' = Rows(s)
  BY DEF Rows
<1> QED
  BY <1>1 DEF FreshInv, RowsMadeFor, VersionsAreFresh

LEMMA SameCacheFresh ==
    ASSUME FreshInv, NEW u \in Workers,
           pc'[u] \in {"running", "writing"} => pc[u] \in {"running", "writing"} /\
               run'[u].cache = run[u].cache /\ run'[u].input = run[u].input
    PROVE  CacheMadeFor(u)'
  BY DEF FreshInv, CacheMadeFor

\* A full revision leaves nothing stored; a partial one leaves what the new
\* input would make in the same way.
LEMMA RevisionKeepsFresh ==
    ASSUME NEW i \in Inputs, NEW j \in Inputs, ~FullScope(i, j), Aligned(i, j),
           NEW n, n \notin StaleNodes(i, j), NEW x, MadeFor(i, n, x)
    PROVE  MadeFor(j, n, x)
<1>1. i.frame = j.frame
  BY DEF FullScope
<1>2. ReuseIsExact(i, j)
  BY RevisionScopeIsExact
<1>3. ASSUME n \in Nodes(j)
      PROVE  n \in Nodes(i) /\ Uses(i, n) = Uses(j, n)
  BY <1>2, <1>3 DEF ReuseIsExact
<1> QED
  BY <1>1, <1>3 DEF MadeFor

LEMMA FreshReviseCommit ==
    ASSUME TypeInv, LifeInv, StoreInv, FreshInv, TeamsKeepMembers,
           NEW c \in Clients, ReviseCommit(c)
    PROVE  FreshInv'
<1>1. edit[c] # NoEdit
  BY DEF ReviseCommit
<1>2. PICK e : e = edit[c]
  OBVIOUS
<1>3. PICK s \in Sims, j \in Inputs : s = e.sim /\ j = e.input
  BY <1>1, <1>2 DEF TypeInv, TypeOK, EditTypes, EditLike
<1>4. /\ ckpt' = ckpt \ Deleted(e)
      /\ simInput' = [simInput EXCEPT ![s] = j]
      /\ simStatus' = [simStatus EXCEPT ![s] = "queued"]
      /\ UNCHANGED <<versions, pc, held, run>>
  BY <1>2, <1>3 DEF ReviseCommit, workVars
<1>5. simStatus[s] # "none" /\ simInput[s] \in Inputs
  BY <1>1, <1>2, <1>3 DEF TypeInv, TypeOK, SimTypes, EditTypes
<1>6. PICK i \in Inputs : i = simInput[s]
  BY <1>5
<1>7. e.full = FullScope(i, j) /\ e.stale = StaleNodes(i, j)
  BY <1>1, <1>2, <1>3, <1>6 DEF StoreInv, EditsDecided
<1>8. /\ \A t : t # s => Rows(t)' = Rows(t)
      /\ e.full => Rows(s)' = {}
      /\ ~e.full => Rows(s)' = {q \in Rows(s) : q.node \notin StaleNodes(i, j)}
  BY <1>3, <1>4, <1>7, DeletedRows
<1>9. simInput'[s] = j /\ \A t \in Sims \ {s} : simInput'[t] = simInput[t]
  BY <1>4 DEF TypeInv, TypeOK, SimTypes
<1>10. RowsMadeFor(s)'
  <2>1. CASE FullScope(i, j)
    BY <1>7, <1>8, <2>1 DEF RowsMadeFor
  <2>2. CASE ~FullScope(i, j)
    <3>1. Aligned(i, j)
      BY <1>5, <1>6, <1>9, <2>2 DEF TeamsKeepMembers
    <3>2. ASSUME NEW q \in Rows(s), q.node \notin StaleNodes(i, j)
          PROVE  MadeFor(j, q.node, q.content)
      <4>1. MadeFor(i, q.node, q.content)
        BY <1>6 DEF FreshInv, RowsMadeFor
      <4> QED
        BY <2>2, <3>1, <3>2, <4>1, RevisionKeepsFresh
    <3> QED
      BY <1>7, <1>8, <1>9, <2>2, <3>2 DEF RowsMadeFor
  <2> QED
    BY <2>1, <2>2
<1>11. \A t \in Sims : RowsMadeFor(t)'
  BY <1>8, <1>9, <1>10 DEF FreshInv, RowsMadeFor
<1>12. \A t \in Sims : simStatus'[t] = "none" => Rows(t)' = {}
  BY <1>4, <1>8 DEF FreshInv, TypeInv, TypeOK, SimTypes
<1>13. \A u \in Workers : CacheMadeFor(u)'
  BY <1>4 DEF FreshInv, CacheMadeFor
<1> QED
  BY <1>4, <1>11, <1>12, <1>13 DEF FreshInv, VersionsAreFresh

LEMMA FreshCreate ==
    ASSUME TypeInv, FreshInv, NEW s \in Sims, NEW i \in Inputs, Create(s, i)
    PROVE  FreshInv'
<1>1. /\ simStatus[s] = "none" /\ simStatus' = [simStatus EXCEPT ![s] = "queued"]
      /\ simInput' = [simInput EXCEPT ![s] = i]
      /\ UNCHANGED <<ckpt, versions, pc, held, run>>
  BY DEF Create, dbRest, workVars
<1>2. /\ \A t : Rows(t)' = Rows(t)
      /\ \A t \in Sims \ {s} : simInput'[t] = simInput[t] /\ simStatus'[t] = simStatus[t]
      /\ Rows(s) = {} /\ simStatus'[s] = "queued"
  BY <1>1 DEF Rows, TypeInv, TypeOK, SimTypes, FreshInv
<1>3. \A t \in Sims : RowsMadeFor(t)' /\ (simStatus'[t] = "none" => Rows(t)' = {})
  BY <1>2 DEF FreshInv, RowsMadeFor
<1>4. \A u \in Workers : CacheMadeFor(u)'
  BY <1>1 DEF FreshInv, CacheMadeFor
<1> QED
  BY <1>1, <1>3, <1>4 DEF FreshInv, VersionsAreFresh

LEMMA FreshStart ==
    ASSUME TypeInv, LifeInv, FreshInv, NEW w \in Workers, StartRun(w)
    PROVE  FreshInv'
<1>1. /\ UNCHANGED <<ckpt, simInput, versions, held>>
      /\ \A u \in Workers \ {w} : pc'[u] = pc[u] /\ run'[u] = run[u]
      /\ pc[w] = "loaded"
  BY DEF StartRun, TypeInv, TypeOK, WorkerTypes
<1>2. PICK s \in Sims : s = SimOf(w)
  BY <1>1, HeldType
<1>3. RunLike(run[w])
  BY <1>1 DEF TypeInv, TypeOK, WorkerTypes
<1>4. PICK c \in Hydrations(s) : run' = [run EXCEPT ![w].cache = c]
  BY <1>2 DEF StartRun
<1>5. run'[w].cache = c /\ run'[w].input = run[w].input
  BY <1>3, <1>4, RunType DEF TypeInv, TypeOK, WorkerTypes
<1>6. run[w].input = simInput[s]
  BY <1>1, <1>2 DEF LifeInv, RunsFollow, RunFollows, Started
<1>7. ASSUME NEW n \in DOMAIN c
      PROVE  MadeFor(simInput[s], n, c[n])
  <2>1. [sim |-> s, node |-> n, content |-> c[n]] \in Rows(s)
    BY DEF Hydrations, Rows
  <2> QED
    BY <2>1 DEF FreshInv, RowsMadeFor
<1>8. CacheMadeFor(w)'
  BY <1>5, <1>6, <1>7 DEF CacheMadeFor
<1>9. ASSUME NEW u \in Workers PROVE CacheMadeFor(u)'
  BY <1>1, <1>8, SameCacheFresh
<1>10. \A t \in Sims : simStatus'[t] = "none" => simStatus[t] = "none"
  BY DEF StartRun, TypeInv, TypeOK, SimTypes
<1> QED
  BY <1>1, <1>9, <1>10, QuietFresh

\* The rows a cache adds are made for the input as the cache is.
LEMMA FlushKeepsFresh ==
    ASSUME FreshInv, NEW s \in Sims, NEW c, NEW d \in SUBSET DOMAIN c,
           ckpt' = ckpt \union RowsOf(s, d, c), UNCHANGED simInput,
           \A n \in DOMAIN c : MadeFor(simInput[s], n, c[n])
    PROVE  \A t \in Sims : RowsMadeFor(t)' /\ (t # s => Rows(t)' = Rows(t))
  BY DEF FreshInv, RowsMadeFor, Rows, RowsOf

LEMMA FreshGenerate ==
    ASSUME TypeInv, ClaimInv, LifeInv, StoreInv, FreshInv, NEW w \in Workers,
           GenerateUnit(w) \/ GenerateUnitBlip(w)
    PROVE  FreshInv'
<1>1. UNCHANGED <<simStatus, simInput, versions, pc, held>> /\ pc[w] = "running"
  BY DEF GenerateUnit, GenerateUnitBlip, Generating, simVars
<1>2. PICK s \in Sims : s = SimOf(w)
  BY <1>1, HeldType
<1>3. RunLike(run[w]) /\ run = [u \in Workers |-> run[u]]
  BY <1>1 DEF TypeInv, TypeOK, WorkerTypes
<1>4. PICK c, i : c = run[w].cache /\ i = run[w].input
  OBVIOUS
<1>5. /\ i = simInput[s] /\ simStatus[s] # "none"
      /\ \A n \in DOMAIN c : MadeFor(i, n, c[n])
  BY <1>1, <1>2, <1>4 DEF LifeInv, RunsFollow, RunFollows, Started, FreshInv, CacheMadeFor
<1>6. PICK f, p : f = Filled(w) /\ p = Pending(w)
  OBVIOUS
<1>7. /\ DOMAIN f = DOMAIN c \union Missing(w) /\ p \in SUBSET DOMAIN f
      /\ \A n \in DOMAIN c : f[n] = c[n]
      /\ \A n \in DOMAIN f \ DOMAIN c : f[n] = Build(w, n)
  BY <1>3, <1>4, <1>6, RunType DEF Filled, Pending, Missing
<1>8. ASSUME NEW n \in DOMAIN f
      PROVE  MadeFor(i, n, f[n])
  <2>1. CASE n \in DOMAIN c
    BY <1>5, <1>7, <2>1
  <2>2. CASE n \notin DOMAIN c
    <3>1. Build(w, n).uses = Uses(i, n)
      BY <1>4 DEF Build
    <3>2. Build(w, n).frame = i.frame
      <4>1. CASE FrameNode \in DOMAIN c
        <5>1. c[FrameNode].frame = i.frame
          BY <1>5, <4>1 DEF MadeFor
        <5> QED
          BY <1>4, <4>1, <5>1 DEF Build
      <4>2. CASE FrameNode \notin DOMAIN c
        BY <1>4, <4>2 DEF Build
      <4> QED
        BY <4>1, <4>2
    <3> QED
      BY <1>7, <2>2, <3>1, <3>2 DEF MadeFor
  <2> QED
    BY <2>1, <2>2
<1>9. run'[w].input = i /\ run'[w].cache = f /\ \A u \in Workers \ {w} : run'[u] = run[u]
  <2>1. CASE GenerateUnit(w)
    BY <1>3, <1>4, <1>6, <2>1, RunType DEF GenerateUnit
  <2>2. CASE GenerateUnitBlip(w)
    BY <1>3, <1>4, <1>6, <2>2, RunType DEF GenerateUnitBlip
  <2> QED
    BY <2>1, <2>2
<1>10. CacheMadeFor(w)'
  BY <1>8, <1>9 DEF CacheMadeFor
<1>11. ASSUME NEW u \in Workers PROVE CacheMadeFor(u)'
  BY <1>1, <1>9, <1>10, SameCacheFresh
<1>12. CASE ckpt' = ckpt \union RowsOf(s, p, f)
  <2>1. \A t \in Sims : RowsMadeFor(t)' /\ (t # s => Rows(t)' = Rows(t))
    BY <1>1, <1>5, <1>7, <1>8, <1>12, FlushKeepsFresh
  <2>2. \A t \in Sims : simStatus'[t] = "none" => Rows(t)' = {}
    BY <1>1, <1>5, <2>1 DEF FreshInv
  <2> QED
    BY <1>1, <1>11, <2>1, <2>2 DEF FreshInv, VersionsAreFresh
<1>13. CASE UNCHANGED ckpt
  BY <1>1, <1>11, <1>13, QuietFresh
<1> QED
  BY <1>2, <1>6, <1>12, <1>13 DEF GenerateUnit, GenerateUnitBlip

LEMMA FreshCommit ==
    ASSUME TypeInv, ClaimInv, LifeInv, StoreInv, FreshInv, NEW w \in Workers,
           CommitVersion(w) \/ CommitVersionBlip(w)
    PROVE  FreshInv'
<1>1. /\ UNCHANGED simInput /\ pc[w] = "writing"
      /\ ckpt' = ckpt \union RowsOf(SimOf(w), run[w].dirty, run[w].cache)
      /\ pc'[w] \in {"idle", "failing"}
      /\ \A u \in Workers \ {w} : pc'[u] = pc[u] /\ run'[u] = run[u]
  BY DEF CommitVersion, CommitVersionBlip, Deliver, TypeInv, TypeOK, WorkerTypes
<1>2. PICK s \in Sims : s = SimOf(w)
  BY <1>1, HeldType
<1>3. PICK c, d, i : c = run[w].cache /\ d = run[w].dirty /\ i = run[w].input
  OBVIOUS
<1>4. /\ i = simInput[s] /\ simStatus[s] # "none" /\ d \in SUBSET DOMAIN c
      /\ \A n \in DOMAIN c : MadeFor(i, n, c[n])
  BY <1>1, <1>2, <1>3, RunType
  DEF LifeInv, RunsFollow, RunFollows, Started, FreshInv, CacheMadeFor, TypeInv, TypeOK, WorkerTypes
<1>5. \A t \in Sims : RowsMadeFor(t)' /\ (t # s => Rows(t)' = Rows(t))
  BY <1>1, <1>2, <1>3, <1>4, FlushKeepsFresh
<1>6. \A t \in Sims : simStatus'[t] = "none" => t # s /\ simStatus[t] = "none"
  BY <1>2, <1>4 DEF CommitVersion, CommitVersionBlip, Deliver, TypeInv, TypeOK, SimTypes
<1>7. ASSUME NEW u \in Workers PROVE CacheMadeFor(u)'
  BY <1>1, SameCacheFresh
<1>8. VersionsAreFresh'
  <2>1. PICK v : v \in {NewVersion(w, TRUE), NewVersion(w, FALSE)} /\ versions' = versions \union {v}
    BY DEF CommitVersion, CommitVersionBlip, Deliver
  <2>2. v.input = i /\ v.content = [n \in Nodes(i) |-> c[n]]
    BY <1>3, <2>1 DEF NewVersion
  <2>3. Nodes(i) \subseteq DOMAIN c
    BY <1>1, <1>3, CacheIsComplete
  <2>4. \A n \in Nodes(i) : v.content[n].uses = Uses(i, n) /\ v.content[n].frame = i.frame
    BY <1>4, <2>2, <2>3 DEF MadeFor
  <2> QED
    BY <2>1, <2>2, <2>4 DEF FreshInv, VersionsAreFresh
<1> QED
  BY <1>5, <1>6, <1>7, <1>8 DEF FreshInv

LEMMA FreshQuiet ==
    ASSUME TypeInv, ClaimInv, FreshInv, NEW w \in Workers,
           SelectJob(w) \/ CommitClaim(w) \/ LoadSim(w) \/ Abort(w) \/ ReadLatest(w)
              \/ RunFails(w) \/ ExpiredFails(w) \/ UnheardFails(w)
    PROVE  FreshInv'
<1>1. /\ UNCHANGED <<ckpt, simInput, versions>>
      /\ \A u \in Workers \ {w} : pc'[u] = pc[u] /\ run'[u] = run[u]
  BY DEF SelectJob, CommitClaim, LoadSim, Abort, ReadLatest, RunFails, ExpiredFails, UnheardFails, MarkFailed,
     simVars, dbRest, TypeInv, TypeOK, WorkerTypes
<1>2. CacheMadeFor(w)'
  <2>1. CASE ReadLatest(w)
    <3>1. pc[w] = "running"
      BY <2>1 DEF ReadLatest, Generated
    <3>2. RunLike(run[w])
      BY <3>1 DEF TypeInv, TypeOK, WorkerTypes
    <3>3. run'[w].cache = run[w].cache /\ run'[w].input = run[w].input
      BY <2>1, <3>2, RunType DEF ReadLatest, TypeInv, TypeOK, WorkerTypes
    <3> QED
      BY <3>1, <3>3, SameCacheFresh
  <2>2. CASE ~ReadLatest(w)
    <3>1. pc'[w] \in {"idle", "selected", "claimed", "loaded"}
      BY <2>2 DEF SelectJob, CommitClaim, LoadSim, Abort, RunFails, ExpiredFails, UnheardFails, MarkFailed,
         TypeInv, TypeOK, WorkerTypes
    <3> QED
      BY <3>1 DEF CacheMadeFor
  <2> QED
    BY <2>1, <2>2
<1>3. ASSUME NEW u \in Workers PROVE CacheMadeFor(u)'
  BY <1>1, <1>2, SameCacheFresh
<1>4. \A s \in Sims : simStatus'[s] = "none" => simStatus[s] = "none"
  BY DEF SelectJob, CommitClaim, LoadSim, Abort, ReadLatest, RunFails, ExpiredFails, UnheardFails, MarkFailed,
     simVars, TypeInv, TypeOK, SimTypes
<1> QED
  BY <1>1, <1>3, <1>4, QuietFresh

LEMMA FreshRest ==
    ASSUME TypeInv, FreshInv,
           \/ \E s \in Sims : Approve(s)
           \/ \E c \in Clients, s \in Sims, i \in Inputs : ReviseRead(c, s, i)
           \/ UNCHANGED vars
    PROVE  FreshInv'
<1>1. /\ UNCHANGED <<ckpt, simInput, versions, pc, run>>
      /\ \A s \in Sims : simStatus'[s] = "none" => simStatus[s] = "none"
  BY DEF Approve, ReviseRead, vars, simVars, dbRest, workVars, TypeInv, TypeOK, SimTypes
<1>2. ASSUME NEW u \in Workers PROVE CacheMadeFor(u)'
  BY <1>1, SameCacheFresh
<1> QED
  BY <1>1, <1>2, QuietFresh

LEMMA FreshInit == Init => FreshInv
<1> SUFFICES ASSUME Init
             PROVE  FreshInv
  OBVIOUS
<1>1. \A s : Rows(s) = {}
  BY DEF Init, Rows
<1> QED
  BY <1>1 DEF Init, FreshInv, RowsMadeFor, CacheMadeFor, VersionsAreFresh

LEMMA FreshStep ==
    ASSUME TypeInv, ClaimInv, LifeInv, StoreInv, FreshInv, TeamsKeepMembers, [Next]_vars
    PROVE  FreshInv'
<1>1. ASSUME NEW w \in Workers, WorkerNext,
             SelectJob(w) \/ CommitClaim(w) \/ LoadSim(w) \/ Abort(w) \/ ReadLatest(w)
                \/ RunFails(w) \/ ExpiredFails(w) \/ UnheardFails(w)
      PROVE  FreshInv'
  BY <1>1, FreshQuiet
<1>2. ASSUME NEW w \in Workers,
             StartRun(w) \/ GenerateUnit(w) \/ GenerateUnitBlip(w) \/ CommitVersion(w)
                \/ CommitVersionBlip(w)
      PROVE  FreshInv'
  BY <1>2, FreshStart, FreshGenerate, FreshCommit
<1>3. CASE (\E s \in Sims, i \in Inputs : Create(s, i)) \/ \E c \in Clients : ReviseCommit(c)
  BY <1>3, FreshCreate, FreshReviseCommit
<1>4. CASE \/ \E s \in Sims : Approve(s)
           \/ \E c \in Clients, s \in Sims, i \in Inputs : ReviseRead(c, s, i)
           \/ UNCHANGED vars
  BY <1>4, FreshRest
<1> QED
  BY <1>1, <1>2, <1>3, <1>4 DEF Next, WorkerNext, Advance

\* Every node of a version was made from what the version's own input gives
\* it, whatever was reused, in every history whose partial revisions take no
\* member away from a team: the rows of a simulation are at all times made for
\* its current input, or for nodes that input does not have
\* (generation_service.py:640-670).  The condition is on the history, since a
\* facilitator may do otherwise.
THEOREM ReuseIsFresh ==
    OneFacilitator => (Spec /\ [][TeamsKeepMembers]_vars => []VersionsAreFresh)
<1> SUFFICES ASSUME OneFacilitator
             PROVE  Spec /\ [][TeamsKeepMembers]_vars => []VersionsAreFresh
  OBVIOUS
<1>1. FreshInv => VersionsAreFresh
  BY DEF FreshInv
<1>2. Init => FreshInv
  BY FreshInit
<1>3. TypeInv /\ ClaimInv /\ LifeInv /\ StoreInv /\ FreshInv /\ [Next]_vars /\ [TeamsKeepMembers]_vars
         => FreshInv'
  <2>1. CASE TeamsKeepMembers
    BY <2>1, FreshStep
  <2>2. CASE UNCHANGED vars
    BY <2>2, FreshRest
  <2> QED
    BY <2>1, <2>2
<1> QED
  BY <1>1, <1>2, <1>3, StoreInvariant, PTL DEF Spec
=============================================================================
