\* A client that may drop its receiver at any time.
SPECIFICATION Spec
CONSTANTS
  MaxSize = 2
  QueueMax = 1
  MaxTrades = 6
  MayDrop = TRUE
INVARIANTS
  Delivery
  Inv
  InFlightBounded
PROPERTIES
  LateReadsKept
  BatchEmittedOnTime
  OrphanEnds
  SentinelReachesClient
  ImplementsBatchStream
