SPECIFICATION FairSpec
CONSTANTS
    f1 = f1
    f2 = f2
    r1 = r1
    r2 = r2
    Frames <- MCFrames
    Roles <- MCRoles
    Inputs <- EditInputs
    Sims = {s1}
    MaxJobs = 2
    Workers = {w1, w2}
    Loop = w1
    Clients = {c1}
    BatchSize = 2
    SkipLocked = TRUE
    ReviewWhen = {"needs_review"}
    Patient = TRUE
    MaxAborts = 0
    MaxBlips = 1
PROPERTIES
    JobsEnd
CHECK_DEADLOCK FALSE
