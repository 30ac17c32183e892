SPECIFICATION FairSpec
CONSTANTS
    Docs = {d1}
    Workers = {w1}
    Tokens = {t1, t2, t3}
    NoToken = NoToken
    Eraser = Eraser
    NoClient = NoClient
    MaxVersion = 2
    MaxAttempts = 2
    MaxTries = 2
    MaxFaults = 2
PROPERTIES
    Converges
    
CHECK_DEADLOCK FALSE
