SPECIFICATION TransactionSpec
CONSTANTS
  Threads = {t1, t2}
  Processors = {p1, p2, p3}
  NoThread = NoThread
  NoProcessor = NoProcessor
  Watched = p1
  MessageLen = 2
  ResponseLen = 3
  Capacity = 2
  MaxRequests = 2
  MaxBack = 1
  MaxWire = 4
CHECK_DEADLOCK FALSE
INVARIANTS
  ExclusiveUse
  PoolBounded
  NothingLeaks
  SentIsMessage
  ReceivedForAReason
  DescriptorsAccounted

  
