SPECIFICATION Spec
CONSTANTS
  MaxSize = 2
  QueueMax = 1
  MaxTrades = 5
  MayLeave = TRUE
PROPERTIES
  SentinelAlwaysSent
