SPECIFICATION FairSpec
CONSTANTS
  MaxMessages = 4
  MaxThreads = 2
INVARIANTS RestsDelivered SendBufferFree WaitsForRealWrite WireInOrder
PROPERTIES ChannelSpec WakeupDelivers PushedIsDelivered BusyCloseReturns
CHECK_DEADLOCK FALSE
