SPECIFICATION Spec
CONSTANTS
    f1 = f1
    f2 = f2
    r1 = r1
    r2 = r2
    Frames <- MCFrames
    Roles <- MCRoles
    Inputs <- SoloInputs
    Sims = {s1, s2}
    MaxJobs = 3
    Workers = {w1, w2}
    Loop = w1
    Clients = {c1}
    BatchSize = 1
    SkipLocked = TRUE
    ReviewWhen = {"needs_review"}
    Patient = TRUE
    MaxAborts = 1
    MaxBlips = 1
SYMMETRY ClaimSymmetry
INVARIANTS
    TypeOK
    ClaimExclusive
    OneOpenJob
    StatusTellsTruth
PROPERTIES
    OutcomesAreFinal
    VersionsAreCurrent
    KeepsPromise
CHECK_DEADLOCK FALSE
