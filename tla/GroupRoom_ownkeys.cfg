SPECIFICATION GroupSpec
CONSTANTS
    Refs = {1, 2}
    Teams = {{1, 2}}
    Decisions = {1}
    Canonical <- MCCanonical
    Schemes <- OnlyDeclared
    Posted <- OnlyCanonical
    Splits <- TwoSplits
    Rooms = {r1}
    MaxRuns = 1
    MaxSessions = 2
    MaxReconciles = 1
INVARIANTS
    SubmitsAreStored
CHECK_DEADLOCK FALSE
