SPECIFICATION Spec
CONSTANTS
  s1 = s1 s2 = s2 e1 = e1 e2 = e2 x1 = x1 x2 = x2
  Sessions = {s1, s2}
  Endpoints = {e1, e2}
  Streams = {x1, x2}
  SessionOf <- McSessionOf
  EndpointOf <- McEndpointOf
CHECK_DEADLOCK FALSE
INVARIANTS
  GaugesFollow
  StartTimesExact
  StreamNumbers
