SPECIFICATION FairSpec
CONSTANTS
  MaxMessages = 2
  MaxThreads = 1
PROPERTIES CloseReturns
CHECK_DEADLOCK FALSE
