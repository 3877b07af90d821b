SPECIFICATION FairSpec
CONSTANTS
  p1 = p1 p2 = p2 p3 = p3
  s1 = s1 s2 = s2
  x = x
  None = None
  Proxies = {p1, p2, p3}
  Paths = {x}
  Sessions = {s1, s2}
  PathOf <- OnePathOf
  SessionOf <- OneSessionOf
INVARIANTS
  OnlyRelayFails
PROPERTIES
  IsRendezvous
  SessionEndReturns
  HalfCloseEndsRelay
