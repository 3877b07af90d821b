SPECIFICATION Spec
CONSTANTS
  NoFile = NoFile
  Foreign = Foreign
  Proxies = {p1, p2, p3}
INVARIANTS
  StaleHasCause
  AloneIsServed
