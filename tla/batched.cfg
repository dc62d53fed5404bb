\* A client that may close or cancel its iteration at any time, or never.
SPECIFICATION Spec
CONSTANTS
  MaxSize = 2
  QueueMax = 2
  MaxTrades = 7
  MayLeave = TRUE
INVARIANTS
  Delivery
  WaitsAreMet
  Inv
  InFlightBounded
PROPERTIES
  NoReadAfterLeave
  SourceEndReachesClient
  LeavingEnds
  ImplementsBatchStream
