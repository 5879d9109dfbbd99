SPECIFICATION Spec
CONSTANTS
  w1 = w1  j1 = j1  j2 = j2  b1 = b1  b2 = b2  n1 = n1  n2 = n2  a1 = a1  a2 = a2
  Worker = {w1}
  Name = {n1, n2}
  Shape = {a1, a2}
  MaxRows = 2
  Job = {j1, j2}
  Bus = {b1, b2}
  Registry = {b2}
  Items <- Found
  BusesOfJob <- Overlapping
INVARIANTS
  TypeOK
  LinksAgree
  FoundIsAssociated
  OneSchemaPerName
