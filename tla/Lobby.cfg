SPECIFICATION Spec
CONSTANTS
  s1 = s1
  s2 = s2
  s3 = s3
  Sessions = {s1, s2}
  Ids = {1, 2}
  MaxIdentities = 2
  MaxRemovals = 2
  MaxCommands = 1
SYMMETRY Symmetry
INVARIANTS
  TypeOK
  LoginIsHeld
  GhostOnlyAfterRename
  PlayerOutlivesSession
  CommandForSender
PROPERTIES LogoutOnlyByOwner
CHECK_DEADLOCK FALSE
