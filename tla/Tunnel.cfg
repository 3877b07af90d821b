SPECIFICATION FairSpec
CONSTANTS
  MaxConns = 2
  Getters = {g1}
  KeepAlive = TRUE
INVARIANTS
  CountersAgree
  NoDoubleBind
  NoLostWakeup
  FreshConn
PROPERTIES
  GetSSHReturns
  DisconnectEndsSession
