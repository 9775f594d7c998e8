CONSTANTS
  Task = {1, 2, 3}
  LowRisk = {1, 2, 3}
  Overlap <- OneOverlap
  Prepared = {3}
  None = None
  NoBatch = NoBatch
  NoEvidence = NoEvidence
  RaceLimit = 1
  UpdateMayFail = TRUE
  MaxStarts = 2
  MaxForeign = 0
  MaxRepairs = 0
SPECIFICATION Spec

CHECK_DEADLOCK FALSE
PROPERTY LandsAsReviewed
PROPERTY TogetherIndependent
PROPERTY NothingLandsOnBrokenMain
