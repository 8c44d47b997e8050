SPECIFICATION Spec
CONSTANTS
  a = a
  b = b
  f = f
  g = g
  Nobody = Nobody
  Requests = {r1, r2}
  Names = {a}
  Paths = {f}
  PathOf <- Single
  Multi = FALSE
  Kinds = {"read", "write", "delta", "upload", "download"}
  MaxWrites = 1
  MaxDownloads = 1
INVARIANTS
  LogBelongs
