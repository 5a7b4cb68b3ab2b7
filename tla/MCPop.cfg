SPECIFICATION MCPopSpec
CONSTANTS
  NumPages = 5
  MaxSockets = 1
  QueueSize = 2
  MinAge = 1
  MaxPort = 2
  Clients = {c1, c2}
  Interfaces = {n1}
  Protocols = {"pop"}
  MaxFrames = 2
  MaxTime = 1
INVARIANTS PopInv DeliveredToPort
PROPERTIES ReturnsWithPacket PacketsReachReceivers
CHECK_DEADLOCK FALSE
