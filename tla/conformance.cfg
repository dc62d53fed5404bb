\* Two symbols, times that span more than the 15m window and the threshold.
SPECIFICATION BothSpec
CONSTANTS
  BTC = BTC
  ETH = ETH
  LateThreshold = 1
  Window1m = 2
  Window5m = 3
  Window15m = 4
  Symbols = {BTC, ETH}
  MaxEvents = 5
  MaxTs = 6
SYMMETRY SymbolSymmetry
INVARIANTS
  WindowsComplete
  LateDropsExact
  NothingStale
  Inv
  AgreeOnOneSymbol
  DifferencesExplained
  PyWindowsComplete
