SPECIFICATION AdmissionSpec
CONSTANTS
    Ids = {d1, d2}
    Requests = {r1, r2, r3}
    NoId = NoId
    MaxFaults = 3
    None = None
    Owners = {a, b}
    ContactKeys = {k1, k2, k3, k4}
    ContactSlots = {s1, s2}
    SenderLimit = 2
    PeerLimit = 1
    Limits = {2}
    Absent = Absent
    ContactEvents = 2
    MaxPolicy = 1
    Keys = {k}
    Intents = {i, j}
    Slots = {t1, t2, t3}
    MaxEffects = 3
SYMMETRY Symmetry
INVARIANTS ConcealedIsCommitted HalfWrittenIsClosed QuotaCountsRequests
PROPERTIES NoResurrection NoRequestPastBlock ContactDecisionIsFinal KeyIsExactlyOnce
CHECK_DEADLOCK FALSE
