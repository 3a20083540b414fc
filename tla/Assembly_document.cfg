SPECIFICATION AssemblySpec
CONSTANTS
    f1 = f1
    f2 = f2
    r1 = r1
    r2 = r2
    r3 = r3
    Frames = {f1, f2}
    Roles = {r1, r2, r3}
    Inputs <- MCInputs
    IndRounds = {1, 3}
    GroupRound = 2
    BoardSize = 2
    Seeds = {0, 1}
    MaxRuns = 3
    MaxOdd = 1
INVARIANTS
    DocumentIsWhole
    OrderFollowsSeed
    TeamsShareOneBoard
    FlagsReachRows
CHECK_DEADLOCK FALSE
