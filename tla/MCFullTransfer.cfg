SPECIFICATION Spec
CONSTANTS
  d0 = d0
  d1 = d1
  Databases = {d0, d1}
  Old = d0
  Pieces = 2
  MaxFile = 2
  MaxTotal = 3
  MaxCount = 4
  NoDatabase = NoDatabase
  Invalid = Invalid
  Archives <- SmallArchives
INVARIANTS
  TypeOK
  AnswerMeaning
  ImportLimits
  UploadWhole
PROPERTIES
  ReplacedWhole
  StreamEnds
