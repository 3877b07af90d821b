SPECIFICATION Spec
CONSTANTS
  Srcs = {a, b}
  MaxSSH = 2
  MaxConns = 1
  MaxSent = 2
  MaxSocks = 2
  MaxReplies = 1
INVARIANTS
  ReplyToSender
  RemovesOwnEntry
  WritesToOpenSocket
  ReadersBounded
  UnsetsOwnChannel
  NotStuck
SYMMETRY SrcSymmetry
CHECK_DEADLOCK FALSE
