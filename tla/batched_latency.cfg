SPECIFICATION Spec
CONSTANTS
  MaxSize = 2
  QueueMax = 1
  MaxTrades = 3
  MayLeave = FALSE
PROPERTIES
  BatchEmittedOnTime
