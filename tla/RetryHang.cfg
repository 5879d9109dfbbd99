SPECIFICATION Spec
CONSTANTS
  Backoffs <- Accepted
  Deadlines = {0, 2}
  MaxTime = 20
INVARIANTS
  EveryPolicyAnswers
CHECK_DEADLOCK FALSE
