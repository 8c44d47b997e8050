SPECIFICATION Spec
CONSTANTS
  Procs = {p1, p2}
  DeckNames = {d1, d2}
  Default = d1
  Templates = 2
  V18 = TRUE
  Span = 2
  Second = 2
  MaxTime = 4
  MaxCommits = 3
SYMMETRY Symmetry
CHECK_DEADLOCK FALSE
INVARIANT TypeOK
INVARIANT NoteWhole
INVARIANT DecksAccounted
INVARIANT BlobsRead
PROPERTY DecksKept
