SPECIFICATION FairSpec
CONSTANTS
  user = user
  auth = auth
  Broken = Broken
  Contents <- McContents
  AuthUser = auth
  Closers = {c1, c2}
  MaxEdits = 2
INVARIANTS
  SilentCloseHasCause
  ReturnsClosed
  TableFollowsFile
PROPERTY InterruptEndsWait
