SPECIFICATION Spec
CONSTANTS
  w1 = w1  w2 = w2  s1 = s1  s2 = s2  t1 = t1  a1 = a1  a2 = a2
  NoWorker = none
  Worker = {w1, w2}
  Subscription = {s1, s2}
  Topic = {t1}
  AckId = {a1, a2}
  Log <- OneTopicLog
  TopicOf <- BothOnT1
  AckDeadline <- Zero
  MinBackoff <- Zero
  MaxBackoff <- Zero
  TicksPerSecond = 1
  MayFail = TRUE
  MaxMessages = 1
  PollLimit = 1
  MaxTime = 2
  MaxRequests = 3
SYMMETRY Symmetry
INVARIANTS
  TypeOK
  CommitsFollowDelivery
  CommittedWereClaimed
  RetryRowsBounded
CHECK_DEADLOCK FALSE
