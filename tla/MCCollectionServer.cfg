SPECIFICATION FairSpec
CONSTANTS
  a = a
  b = b
  f = f
  g = g
  Nobody = Nobody
  Requests = {r1, r2}
  Names = {a, b}
  Paths = {f}
  PathOf <- OneFile
  Multi = TRUE
  Kinds = {"write", "delta", "upload", "download"}
  MaxWrites = 2
  MaxDownloads = 1
INVARIANTS
  TypeOK
  UploadComplete
  LogBelongs
PROPERTIES
  FileExclusive
  Answered
