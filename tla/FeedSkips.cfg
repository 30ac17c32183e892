SPECIFICATION Spec
CONSTANTS
    Docs <- MCDocs
    Labels = {l, m}
    Slots = {s, t}
    None = None
    MaxWrites = 2
    MaxBackfills = 0
    MaxReads = 1
SYMMETRY LabelsAreAlike
INVARIANTS FeedIsAuthoritative

CHECK_DEADLOCK FALSE
