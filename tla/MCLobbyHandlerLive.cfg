CONSTANTS
  NumPlayerInfos <- LiveNumPlayerInfos
  HasObSlot <- LiveHasObSlot
  MaxPackets <- LiveMaxPackets
  MaxPings <- LiveMaxPings
  MaxStatusSends <- LiveMaxStatusSends
  NodeGameStatus <- MCNodeGameStatus
  ClientPacket <- MCClientPacket

SPECIFICATION Spec

PROPERTY CountdownTerminates

CHECK_DEADLOCK FALSE
