CONSTANTS
  PreRoles = {"architect"}
  None = None
  GuidanceLimit = 2
  ReuseLimit = 1
  PolicyChanges = {1}
  Reviewers = {"reviewer"}
  Assignable = {"qa"}
  FixLimit = 0
  RotationLimit = 2
  Scenarios <- Few
SPECIFICATION FairSpec

CHECK_DEADLOCK FALSE
INVARIANT TypeOK
INVARIANT AcceptedReviewed
PROPERTY ReaderBudgetHolds
PROPERTY HumanWaits
INVARIANT DeliveredOnce
PROPERTY WorkRests
PROPERTY GuidanceReconciled
PROPERTY AdviceIsFresh
