SPECIFICATION FairSpec
CONSTANTS
  MaxRetryCount = 2
  Remotes = {r1, io}
  Stdio = {io}
  Streams = {s1}
INVARIANTS
  RetriesLimited
  NothingLeft
PROPERTIES
  GroupEnds
  LossRetried
  StreamsClose
