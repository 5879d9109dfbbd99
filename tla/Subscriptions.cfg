SPECIFICATION FairSubsSpec
CONSTANTS
  n1 = n1  t1 = t1  t2 = t2  q1 = q1  q2 = q2
  Thread = {w1, w2}
  Process = {p1, p2}
  Client = {c1, c2}
  Name = {n1, n2}
  Config <- Configs
  Stored <- OneRow
  NoRow = NoRow
  MaxRows = 3
  MaxRequests = 2
INVARIANTS
  SubsTypeOK
  NamesApart
  PulledAsAsked
PROPERTIES
  AnsweredUnlessAllWait
CHECK_DEADLOCK FALSE
