CONSTANTS
  m1 = m1
  m2 = m2
  c1 = c1
  t1 = t1
  Machine = {m1, m2}
  Command = {c1}
  Task = {}
  Home <- OneHome
  NoOwner = NoOwner
  NoOp = NoOp
  NoMain = NoMain
  NoCommand = NoCommand
  NoTask = NoTask
  LeaseLen = 2
  Grace = 1
  Skew <- FastM2
  MaxAttempts = 1
  SaveMayFail = TRUE
  MaxClock = 3
  Starts <- TwoOne
  MaxExternal = 0
SPECIFICATION Spec
INVARIANT TypeOK
CHECK_DEADLOCK FALSE
INVARIANT OneController
INVARIANT AcknowledgedDurable
PROPERTY NoStealing
PROPERTY AuthoritySpec
