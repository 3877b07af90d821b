SPECIFICATION Spec
CONSTANTS
  MaxConns = 2
  Getters = {g1}
  KeepAlive = FALSE
INVARIANT BlocksWhileConnecting
