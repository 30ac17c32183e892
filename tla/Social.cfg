SPECIFICATION SocialSpec
CONSTANTS
    Owners = {a, b, c}
    Slots = {s1}
    Profiles = {a, b}
    None = None
    Reviewers = {b, m}
    DailyLimits <- MCLimits
    Fans = {a}
    Social = {a, b}
    MaxPosts = 1
    MaxCases = 2
    MaxEvents = 1
    Peers = {x, y}
    PeerSlots = {t1, t2}
    RequestLimit = 2
    MessageLimit = 1
    MaxCommits = 6
    PeerEvents = 1
    NoTx = NoTx
SYMMETRY Symmetry
INVARIANTS
    NoFollowPastBlock PublishedIsCleared IndependentAppeal DecisionEvidenceStands
    ConversationNeedsConnection
PROPERTIES NoMessagePastBlock
CHECK_DEADLOCK FALSE
