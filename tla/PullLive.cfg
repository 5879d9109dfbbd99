SPECIFICATION FairSpec
CONSTANTS
  w1 = w1  w2 = w2  s1 = s1  s2 = s2  t1 = t1  a1 = a1  a2 = a2
  NoWorker = none
  Worker = {w1, w2}
  Subscription = {s1}
  Topic = {t1}
  AckId = {a1, a2}
  Log <- OneTopicLog
  TopicOf <- OnlyS1
  AckDeadline <- Zero
  MinBackoff <- Zero
  MaxBackoff <- Zero
  TicksPerSecond = 1
  MayFail = FALSE
  MaxMessages = 1
  PollLimit = 2
  MaxTime = 1
  MaxRequests = 3
INVARIANTS
  DeliveredOrInHand
PROPERTIES
  RequestsEnd
CHECK_DEADLOCK FALSE
