SPECIFICATION Spec
CONSTANTS
  Base = 3
  Commands = {0, 1}
  Jump = 1
  Payloads <- SmallPayloads
  MaxPlayers = 2
  MaxMessages = 3
  MaxReceived = 2
INVARIANTS TcpInOrder UdpPrefix EventsRoundTrip
CHECK_DEADLOCK FALSE
