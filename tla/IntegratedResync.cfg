CONSTANTS
  m1 = m1
  m2 = m2
  c1 = c1
  t1 = t1
  Machine = {m1}
  Command = {}
  Task = {t1}
  Home <- OneHome
  NoOwner = NoOwner
  NoOp = NoOp
  NoMain = NoMain
  NoCommand = NoCommand
  NoTask = NoTask
  LeaseLen = 2
  Grace = 1
  Skew <- FastM2
  MaxAttempts = 2
  SaveMayFail = TRUE
  MaxClock = 3
  Starts <- TwoOne
  MaxExternal = 0
SPECIFICATION Spec

CHECK_DEADLOCK FALSE
INVARIANT IntegratedStays
