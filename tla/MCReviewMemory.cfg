SPECIFICATION Spec
CONSTANTS
  c1 = c1
  c2 = c2
  Cards <- MCCards
  Imported <- NoneImported
  Procs = {p}
  Day = 2
  crt = 1
  HasMemory = TRUE
  MaxTime = 5
  MaxInterval = 2
  MaxReviews = 3
CHECK_DEADLOCK FALSE
INVARIANTS
  MemoryKept
