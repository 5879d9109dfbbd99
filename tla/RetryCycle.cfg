SPECIFICATION Spec
CONSTANTS
  Backoffs <- Accepted
  Deadlines = {0, 2}
  MaxTime = 20
INVARIANTS
  TypeOK
  AgreesWithLoops
  SoundPolicyAnswers
PROPERTIES
  OncePerSlot
CHECK_DEADLOCK FALSE
