\* Two writes of either language while the server is asked for a row.
SPECIFICATION Spec
CONSTANTS
  NsPerHour = 2
  NsPerDay = 48
  Calls <- MCCalls
  MaxWrites = 2
  MaxOpen = 2
  Requests <- MCRequests
INVARIANTS
  Inv
  ReturnedIsReadable
PROPERTIES
  SettledIsFound
  AnswerIsCurrent
  LoadIsComplete
  TableImplementsRegisters
  CacheCatchesUp
