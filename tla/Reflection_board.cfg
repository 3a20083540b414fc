SPECIFICATION ReflectionSpec
CONSTANTS
    k1 = k1
    k2 = k2
    k3 = k3
    k4 = k4
    p1 = p1
    p2 = p2
    Labels <- MCLabels
    Commons <- MCCommons
    Canonical <- MCCanonical
    Replies <- MCReplies
    MaxAttempts = 5
    Rounds = {1, 3}
    BoardOf <- MCBoardOf
    Dimension <- MCDimension
    Splits <- MCSplits
    Grain = 36
INVARIANTS
    PatternHasArchetype
    BoardIsCoherent
    FingerprintIsCoherent
CHECK_DEADLOCK FALSE
