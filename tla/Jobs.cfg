SPECIFICATION FairJobsSpec
CONSTANTS
  w1 = w1  w2 = w2  b1 = b1  b2 = b2  f1 = f1  f2 = f2  f3 = f3
  Worker = {w1}
  Bus = {b1, b2}
  Frequency = {f1, f2, f3}
  Unit <- OneUnreadable
  Seconds <- ThreeFrequencies
  MaxRows = 2
  MaxRestarts = 1
  MayExpire = TRUE
INVARIANTS
  JobsTypeOK
  OverlapsWereActivated
  OneJobPerBus
PROPERTIES
  Discovered
CHECK_DEADLOCK FALSE
