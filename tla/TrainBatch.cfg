CONSTANTS
  Task = {1, 2}
  LowRisk = {1, 2}
  Overlap = {}
  Prepared = {}
  None = None
  NoBatch = NoBatch
  NoEvidence = NoEvidence
  RaceLimit = 1
  UpdateMayFail = FALSE
  MaxStarts = 2
  MaxForeign = 1
  MaxRepairs = 1
SPECIFICATION FairSpec

CHECK_DEADLOCK FALSE
INVARIANT TypeOK
INVARIANT HoldCanEnd
INVARIANT NeverRefused
PROPERTY LandsAsReviewed
PROPERTY DeliveriesSpec
PROPERTY NothingLandsOnBrokenMain
PROPERTY ReservationEnds
