CONSTANTS
  Frames = 2
  Lines = 2
  PoolSizes = {1, 2}
  MaxPending = 1
  Length <- MCLength
  MaxTroubles <- MCTroubles
SPECIFICATION FairSpec
\* A capture whose connections are used up and whose handlers have ended stops.
CHECK_DEADLOCK FALSE
INVARIANTS
  TypeOK
  
  SpokenOnce
  AcknowledgedIsStaged
  ResendsAreInOrder
  PermitsReturn
PROPERTIES
  
  CaptureEnds
