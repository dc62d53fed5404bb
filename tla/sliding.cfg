\* Inputs in any order; times span more than the 15m window and the threshold.
SPECIFICATION Spec
CONSTANTS
  LateThreshold = 1
  Window1m = 2
  Window5m = 3
  Window15m = 4
  MaxEvents = 5
  MaxTs = 6
INVARIANTS
  Inv
  ArrowIsNumba
  DisorderBounded
  InOrderMatchesStream
  RollingMatchesStream
