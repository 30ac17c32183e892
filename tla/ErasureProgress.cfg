CONSTANTS
    d1 = d1  v1 = v1  q1 = q1  w1 = w1  w2 = w2  g1 = g1  g2 = g2
    None = None
    Docs = {d1}
    Vers = {v1}
    DocOf <- MCDocOf
    Asks = {}
    Gens = {g1, g2}
    Workers = {w1}
    MaxAttempts = 2
    MaxFaults = 1
SPECIFICATION FairSpec
INVARIANTS ActiveGenerationsAreOwed
PROPERTIES Settles ReleaseIsNoticed
CHECK_DEADLOCK FALSE
