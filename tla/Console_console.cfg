SPECIFICATION ConsoleSpec
CONSTANTS
    f1 = f1
    r1 = r1
    Frames = {f1}
    Roles = {r1}
    Inputs <- MCInputs
    Sims = {s1}
    Shown = s1
    Polls = {q1, q2}
    MaxLost = 1
    MaxJobs = 2
    Workers = {w1}
    Loop = w1
    Clients = {c1}
    BatchSize = 2
    SkipLocked = TRUE
    ReviewWhen = {"needs_review"}
    Patient = TRUE
    MaxAborts = 0
    MaxBlips = 0
INVARIANTS
    PageIsCoherent
PROPERTIES
    PageSettles
CHECK_DEADLOCK FALSE
