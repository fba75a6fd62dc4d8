SPECIFICATION Spec
CONSTANTS
  s1 = s1
  s2 = s2
  ann = ann
  bob = bob
  e1 = e1
  e2 = e2
  h1 = h1
  h2 = h2
  None = None
  Submit <- TwoRequests
  Email <- TwoAddresses
  Event <- TwoEvents
  Handler <- TwoHandlers
  Subscribed <- SomeTypes
  KeyBound = TRUE
  LateThrow = FALSE
  Budget = 1
INVARIANTS AcknowledgedIsRecorded
CHECK_DEADLOCK FALSE
