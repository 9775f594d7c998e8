CONSTANTS
  PreRoles = {"architect"}
  None = None
  GuidanceLimit = 2
  ReuseLimit = 1
  PolicyChanges = {1}
  Reviewers = {"reviewer"}
  Assignable = {"qa"}
  FixLimit = 0
  RotationLimit = 2
  Scenarios <- Few
SPECIFICATION Spec

CHECK_DEADLOCK FALSE
INVARIANT BlockedAnswerable
