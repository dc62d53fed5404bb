SPECIFICATION Spec
CONSTANTS
  BTC = BTC
  ETH = ETH
  LateThreshold = 1
  Window1m = 2
  Window5m = 3
  Window15m = 4
  Symbols = {BTC, ETH}
  MaxEvents = 4
  MaxTs = 6
SYMMETRY SymbolSymmetry
INVARIANT
  WindowsEndAtEvent
