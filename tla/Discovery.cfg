SPECIFICATION MCSpec
CONSTANTS
    Docs <- MCDocs
    Labels = {l, m}
    Slots = {s, t}
    None = None
    MaxWrites = 2
    MaxBackfills = 1
    MaxReads = 2
SYMMETRY LabelsAreAlike
INVARIANTS ReadyMeansCurrent
PROPERTIES PagesAreThePrefix RevisionNamesResults
CHECK_DEADLOCK FALSE
