SPECIFICATION Spec
CONSTANTS
  Procs = {p1, p2}
  DeckNames = {d1, d2, d3}
  Default = d1
  Templates = 1
  V18 = FALSE
  Span = 2
  Second = 2
  MaxTime = 3
  MaxCommits = 3
SYMMETRY Symmetry
CHECK_DEADLOCK FALSE
PROPERTY DeckIdsKept
