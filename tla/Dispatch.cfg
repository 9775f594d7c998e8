CONSTANTS
  Order <- Tasks
  Plan <- Plans
  Guided <- Readers
  MaxWriters = 2
  TargetWriters = 2
  MaxReaders = 1
  PlanRetries = 1
  Replans <- Requests
  Recoveries <- Manifests
  Paths <- Findings
  Files <- AllFiles
  Domains <- AllDomains
  Scenarios <- Situations
  WorkLimit = 1
  AfterReplan = FALSE
SPECIFICATION FairSpec

CHECK_DEADLOCK FALSE
INVARIANT TypeOK
INVARIANT WritersApart
INVARIANT NoCircularWait
INVARIANT OverlapApart
PROPERTY DependenciesFirst
PROPERTY NobodyWaitsForever
PROPERTY ObjectivesPlanned
