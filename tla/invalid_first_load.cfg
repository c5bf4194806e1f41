SPECIFICATION Spec
CONSTANTS
  None = None
  Invalid = Invalid
  BadEnvelope = BadEnvelope
  BadPayload = BadPayload
  k1 = k1
  k2 = k2
  r1 = r1
  r2 = r2
  r3 = r3
  w1 = w1
  w2 = w2
  p1 = p1
  p2 = p2
  empty = empty
  Keys = {k1}
  Requests = {r1}
  Workers = {w1}
  Payloads = {p1}
  EmptyPayloads = {}
  Policy <- MCPolicy
  RefreshQueueSize = 1
  LegacyRows = {}
  Faults = {"payload"}
  Silent = {}
  MaxTime = 2
  MaxAccess = 2
PROPERTIES
  FailedFirstLoadIs503
