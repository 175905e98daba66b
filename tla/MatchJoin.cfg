SPECIFICATION Spec
CONSTANTS
  Players = {1, 2}
  MaxCommands = 1
  MaxJoins = 2
  MaxDepartures = 1
  ByteValues = 256
PROPERTIES JoinOnlyWhileWaiting
CHECK_DEADLOCK FALSE
