SPECIFICATION PublishSpec
CONSTANTS
  h1 = h1  h2 = h2  p1 = p1  p2 = p2  g1 = g1  g2 = g2  c1 = c1  c2 = c2
  OAuth = OAuth  Plain = Plain  Kerberos = Kerberos
  None = None  NoTopic = NoTopic
  Worker = {w1, w2}
  Publisher = {r1}
  BusPayload <- Payloads
  AuthPayload <- AuthPayloads
  Broken = {Kerberos}
  Topic <- Topics
  Json <- Values
  Depth <- Depths
  Batch <- Batches
  MaxMessages = 3
  MaxRows = 2
  MaxRequests = 3
INVARIANTS
  RegistryTypeOK
  BusAsAsked
  OneOwner
  CredentialsStay
  PublishTypeOK
  BatchConforms
  InferenceConforms
  PublishesWithOwnCredentials
CHECK_DEADLOCK FALSE
