SPECIFICATION FairSpec
CONSTANTS
  c1 = c1
  c2 = c2
  n1 = n1
  n2 = n2
  d1 = d1
  d2 = d2
  Cards <- MCCards
  Notes <- MCNotes
  Decks <- MCDecks
  NoteOf <- MCNoteOf
  SeedNotes <- MCSeed
  DefaultDeck = d1
  V18 = TRUE
  OutsideWriter = FALSE
  MaxEdits = 3
  MaxFailures = 1
INVARIANTS
  TypeOK
  PendingUntilKnown
  GravesUploaded
  CursorCovers
  ReferencesWhole
PROPERTIES
  NewerEditWins
  Converges
