SPECIFICATION FairSpec
CONSTANTS
  s1 = s1
  s2 = s2
  s3 = s3
  Sessions = {s1, s2}
  UdpIds = {0, 1}
  Timeout = 1
  EpochModulus = 100
  MaxLag = 1
  MaxRemovals = 1
INVARIANTS TypeOK Routes AddedIsOwned RemovalAfterHandshake
PROPERTIES LifeSpec TimeoutJustified SilentIsRemoved
CHECK_DEADLOCK FALSE
