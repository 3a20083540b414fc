SPECIFICATION GenSpec
CONSTANTS
    Participants = 2
    Teams = 1
    BatchSize = 2
    MaxConcurrency = 2
    MaxAttempts = 2
    MaxRevisions = 1
    BoardSize = 2
    MaxRuns = 2
    MaxFailures = 1
INVARIANTS
    BoardsAreComparable
    WavesAreWhole
    ReviewIsAsked
    NothingTwice
PROPERTIES
    KeepsStream
    RunsEnd
CHECK_DEADLOCK FALSE
