CONSTANTS
  Task = {1, 2}
  LowRisk = {1, 2}
  Overlap = {}
  Prepared = {}
  None = None
  NoBatch = NoBatch
  NoEvidence = NoEvidence
  RaceLimit = 1
  UpdateMayFail = TRUE
  MaxStarts = 1
  MaxForeign = 0
  MaxRepairs = 0
SPECIFICATION Spec

CHECK_DEADLOCK FALSE
PROPERTY IntegratedEdges
