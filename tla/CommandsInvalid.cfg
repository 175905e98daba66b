SPECIFICATION Spec
CONSTANTS
  s1 = s1
  s2 = s2
  Sessions = {s1}
  MainCodes = {"identify"}
  AsyncCodes = {"match"}
  OtherCodes = {"other"}
  MaxSent = 1
INVARIANTS InvalidCommandRejected
CHECK_DEADLOCK FALSE
