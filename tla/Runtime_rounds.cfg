SPECIFICATION Spec
CONSTANTS
    p1 = p1
    p2 = p2
    t1 = t1
    t2 = t2
    protect = protect
    enable = enable
    hybrid = hybrid
    defer = defer
    Keys <- TwoRounds
    Drafts <- TwoRoundsDrafts
    Texts = {t1, t2}
    Postures <- MCPostures
    Editors = {e1}
    MaxVersions = 1
    MaxSaves = 0
    Clients = {c1}
    Owners = {p1, p2}
    Seeds = {1}
    Shuffle <- MCShuffle
    Fills <- MCFills
    MaxRequests = 2
    Serial = FALSE
    Overlap = FALSE
INVARIANTS
    BoardTellsSubmission
CHECK_DEADLOCK FALSE
