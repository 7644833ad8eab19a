CONSTANTS
  Status <- MCStatus
  MaxUpdates <- MCMaxUpdates
SPECIFICATION Spec
INVARIANT StopRequestedBeforeDispatch
PROPERTY AdvertWithdrawn
\* create may fail and the publisher task exits: the game really stops.
CHECK_DEADLOCK FALSE
