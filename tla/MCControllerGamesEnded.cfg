CONSTANTS
  p1 = p1
  p2 = p2
  p3 = p3
  g1 = g1
  g2 = g2
  n1 = n1
  n2 = n2
  Player <- MCPlayer
  GameId <- MCGameId
  Node <- MCNode
  Request <- MCEnd
  Abandonable = TRUE

SPECIFICATION Spec

PROPERTY EndedGameRemoved

\* Every call returns: the controller then waits for calls that never come.
CHECK_DEADLOCK FALSE
