\* Two writes of either language while every kind of reader reads over and over.
SPECIFICATION ReadersSpec
CONSTANTS
  NsPerMin = 2
  NsPerHour = 4
  NsPerDay = 8
  Calls <- MCCalls
  MaxWrites = 2
  MaxOpen = 2
  Reads <- MCReads
  TopN = 1
  Cutoffs = {0, 5}
INVARIANTS
  ReadersInv
  ReadIsComplete
  EnginesDifferInBuckets
PROPERTIES
  ReadersImplementRegisters
  ReadersCatchUp
