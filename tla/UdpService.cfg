SPECIFICATION FairSpec
CONSTANTS
  c1 = c1
  c2 = c2
  Connections = {c1, c2}
  MaxSends = 2
  MaxArrivals = 2
INVARIANTS StoppedIsMute
PROPERTIES UpIsServed
CHECK_DEADLOCK FALSE
