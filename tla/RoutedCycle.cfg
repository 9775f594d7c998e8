CONSTANTS
  Order <- Tasks
  Plan <- Plans
  Guided <- Readers
  MaxWriters = 2
  TargetWriters = 2
  MaxReaders = 1
  PlanRetries = 1
  Replans <- Requests
  Recoveries <- Manifests
  Paths <- Findings
  Files <- AllFiles
  Domains <- AllDomains
  Scenarios <- Rerouted
  WorkLimit = 1
  AfterReplan = TRUE
SPECIFICATION Spec

CHECK_DEADLOCK FALSE
INVARIANT NoCircularWait
