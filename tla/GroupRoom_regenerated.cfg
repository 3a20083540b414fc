SPECIFICATION GroupSpec
CONSTANTS
    Refs = {1, 2}
    Teams = {{1, 2}}
    Decisions = {1}
    Canonical <- MCCanonical
    Schemes <- OnlyCanonical
    Posted <- OnlyCanonical
    Splits <- TwoSplits
    Rooms = {r1}
    MaxRuns = 2
    MaxSessions = 2
    MaxReconciles = 1
PROPERTIES
    BaselineIsComplete
CHECK_DEADLOCK FALSE
