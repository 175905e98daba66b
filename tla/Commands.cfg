SPECIFICATION FairSpec
CONSTANTS
  s1 = s1
  s2 = s2
  Sessions = {s1}
  MainCodes = {"identify"}
  AsyncCodes = {"match"}
  OtherCodes = {"other"}
  MaxSent = 3
INVARIANTS InOrder ThreadConfined KnownCommandKept
PROPERTIES KnownCommandExecuted
CHECK_DEADLOCK FALSE
