CONSTANTS
  NumPlayerInfos <- MCNumPlayerInfos
  HasObSlot <- MCHasObSlot
  MaxPackets <- MCMaxPackets
  MaxPings <- MCMaxPings
  MaxStatusSends <- MCMaxStatusSends
  NodeGameStatus <- MCNodeGameStatus
  ClientPacket <- MCClientPacket

SPECIFICATION Spec

INVARIANT TypeOK
INVARIANT StartedOnlyWhenReady
INVARIANT JoinedReportedOnce
INVARIANT CountdownFraming
PROPERTY CountdownWindow
PROPERTY ImplementsLobby

CHECK_DEADLOCK FALSE
