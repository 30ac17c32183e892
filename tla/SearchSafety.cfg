SPECIFICATION Spec
CONSTANTS
    Docs = {d1}
    Workers = {w1, w2}
    Tokens = {t1, t2, t3, t4}
    NoToken = NoToken
    Eraser = Eraser
    NoClient = NoClient
    MaxVersion = 2
    MaxAttempts = 2
    MaxTries = 2
    MaxFaults = 2
SYMMETRY Symmetry
INVARIANTS
    ConsumedTaskMeansMirrored
    ErasedMeansAbsent
    DeadLetterIsCurrent
PROPERTIES
    IndexNeverGoesBack
CHECK_DEADLOCK FALSE
