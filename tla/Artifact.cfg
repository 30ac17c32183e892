CONSTANTS
    Keys = {c, k1, k2}
    CreateKey = c
    Requests = {r1, r2}
    None = None
    MaxVersion = 2
    ScanLimit = 5
    MaxStages = 3
    MaxFaults = 2
SPECIFICATION FairSpec
INVARIANTS CommittedIsReadable StrayIsStaged AnswerIsDurable
PROPERTIES StrayIsResolved
CHECK_DEADLOCK FALSE
