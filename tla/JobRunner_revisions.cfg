SPECIFICATION Spec
CONSTANTS
    f1 = f1
    f2 = f2
    r1 = r1
    r2 = r2
    Frames <- MCFrames
    Roles <- MCRoles
    Inputs <- EditInputs
    Sims = {s1}
    MaxJobs = 3
    Workers = {w1}
    Loop = w1
    Clients = {c1}
    BatchSize = 2
    SkipLocked = TRUE
    ReviewWhen = {"needs_review"}
    Patient = TRUE
    MaxAborts = 1
    MaxBlips = 1
INVARIANTS
    VersionsAreFresh
    OneFrame
    ProgressIsDurable
CHECK_DEADLOCK FALSE
