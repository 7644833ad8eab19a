CONSTANTS
  NumPlayerInfos <- MCNumPlayerInfos
  HasObSlot <- MCHasObSlot
  MaxPackets <- MCMaxPackets
  MaxPings <- MCMaxPings
  MaxStatusSends <- MCMaxStatusSends
  NodeGameStatus <- MCNodeGameStatus
  ClientPacket <- MCClientPacket

SPECIFICATION Spec

INVARIANT JoinCountsBounded


CHECK_DEADLOCK FALSE
