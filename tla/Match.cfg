SPECIFICATION FairSpec
CONSTANTS
  Players = {1, 2}
  MaxCommands = 3
  MaxJoins = 3
  MaxDepartures = 1
  ByteValues = 2
INVARIANTS
  SameStream
  InstanceIdsDistinct
  StartOnceFirst
  EarlyPlayersStarted
  OverflowNeedsLateJoin
  EventsConserved
PROPERTIES JumpIsBroadcast StartIsTold
CHECK_DEADLOCK FALSE
