SPECIFICATION Spec
CONSTANTS
  a = a
  x = x
  y = y
  Requests = {r1, r2}
  Names = {a}
  Bodies = {x, y}
  Chunks = 2
  Files = {f1, f2, f3, f4}
  MaxTick = 2
  MaxHidden = 1
  MaxLeaked = 1
  FineClock = TRUE
  MaxFileCount = 2
  Absent = Absent
  Hole = Hole
SYMMETRY Permuted
CHECK_DEADLOCK FALSE
INVARIANTS
  TypeOK
  PublishedWhole
  NoLeftovers
  WalkComplete
PROPERTY
  AtomicDirectory
