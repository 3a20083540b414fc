SPECIFICATION GroupSpec
CONSTANTS
    Refs = {1, 2, 3}
    Teams = {{1, 2, 3}}
    Decisions = {1}
    Canonical <- MCCanonical
    Schemes <- EitherScheme
    Posted <- EitherScheme
    Splits <- TwoSplits
    Rooms = {r1}
    MaxRuns = 1
    MaxSessions = 3
    MaxReconciles = 2
INVARIANTS
    AnchorIsNotMover
    SpreadNeedsMovement
CHECK_DEADLOCK FALSE
