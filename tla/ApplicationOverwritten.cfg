SPECIFICATION RecruitingSpec
CONSTANTS
  Founder = founder
  People = {p}
  Jobs = {j}
  RecruitingSlots = {s1, s2}
  NoRecord = NoRecord
  ApplicationLimit = 1
  MaxMaterial = 2
  MaxJobVersion = 3
  RecruitingEvents = 1
SYMMETRY Symmetry

PROPERTIES DecisionIsFinal
CHECK_DEADLOCK FALSE
