SPECIFICATION Spec
CONSTANTS
  NsPerHour = 2
  NsPerDay = 48
  Calls <- OneCall
  MaxWrites = 1
  MaxOpen = 2
  Requests <- MCRequests
PROPERTY
  CachedRowIsServed
