SPECIFICATION Spec
CONSTANTS
  a = a
  b = b
  Closers <- Two
  ListenFails = FALSE
  Limiter = TRUE
CHECK_DEADLOCK FALSE
INVARIANT
  NoPanic
