CONSTANTS
  n1 = n1
  n2 = n2
  g1 = g1
  NodeId <- MCNodeId
  GameId <- MCGameId
  QueueCapacity <- MCQueueCapacity
  MaxOutbound <- MCMaxOutbound
  MaxInbound <- MCMaxInbound

SPECIFICATION Spec

INVARIANT DisconnectOnErrorExit


\* The worker task ends, and connect() may fail: both are final states.
CHECK_DEADLOCK FALSE
