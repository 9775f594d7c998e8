CONSTANTS
  Projects = {"p", "q"}
  Checks = {"unit", "e2e", "lint"}
  Heavy = {"unit", "e2e"}
  Jobs <- FewJobs
  Gates = {g, h}
  None = None
  Slots = 1
  LocalSlots = 2
  WaiterSlots = 1
  YieldRetries = 2
  MaxAsks <- FewAsks
  MaxFailures = 1
  MaxEnds = 1
SPECIFICATION Spec

CHECK_DEADLOCK FALSE
INVARIANT TypeOK
INVARIANT PermitsMatch
INVARIANT OnlyFailuresLeave
PROPERTY InTurn
PROPERTY Served
