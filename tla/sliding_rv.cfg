SPECIFICATION Spec
CONSTANTS
  LateThreshold = 1
  Window1m = 2
  Window5m = 3
  Window15m = 4
  MaxEvents = 3
  MaxTs = 6
INVARIANT
  SingleTradeNoReturn
