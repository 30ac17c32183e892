SPECIFICATION DelegationSpec
CONSTANTS
    Creds = {c1, c2}
    Handles = {h1}
    Slots = {s1, s2}
    None = None
    IdentityLimit = 1
    MaxVersion = 2
    MaxProposals = 2
    MaxOutreach = 1
    MaxEvents = 2
    Founder = founder
    People = {p, q}
    Jobs = {j}
    RecruitingSlots = {s1, s2}
    NoRecord = NoRecord
    ApplicationLimit = 1
    MaxMaterial = 2
    MaxJobVersion = 3
    RecruitingEvents = 1
SYMMETRY Symmetry
INVARIANTS NoLostUpdate
PROPERTIES RevokedMandateCannotAct DecidedUnderControl EmployerRespectsOutcome
CHECK_DEADLOCK FALSE
