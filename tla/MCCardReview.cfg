SPECIFICATION Spec
CONSTANTS
  c1 = c1
  c2 = c2
  Cards <- MCCards
  Imported <- SomeImported
  Procs = {p, q}
  Day = 2
  crt = 1
  HasMemory = TRUE
  MaxTime = 5
  MaxInterval = 1
  MaxReviews = 2
SYMMETRY Symmetry
CHECK_DEADLOCK FALSE
INVARIANTS
  TypeOK
  LogAccounts
  OfferedFrom
  NeverEarly
  NeverLate
  StepsOffered
