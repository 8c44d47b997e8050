SPECIFICATION ServerSpec
CONSTANTS
  ip1 = ip1
  ip2 = ip2
  a = a
  b = b
  IPs <- MCIPs
  Limit = 1
  MaxIPs = 1
  Second = 3
  Window = 3
  MaxTime = 3
  MaxAdmitted = 2
  Closers <- MCClosers
  ListenFails = TRUE
CHECK_DEADLOCK FALSE
INVARIANTS
  WindowLimit
  CapHolds
  WaitNearlySuffices
PROPERTIES
  Forgets
  CloseStops
  CleanerStops
