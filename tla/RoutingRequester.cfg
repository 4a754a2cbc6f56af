\* The line a - b - c - d: is b's answer passed on to a?
SPECIFICATION FairSpec
CONSTANTS
  a = a
  b = b
  c = c
  d = d
  Node = {a, b, c, d}
  Reference <- Line4Reference
  Flow <- Line4Flow
  SemicolonHip = {}
  TtlMaxAccepted = 5
  DataTtl = 5
  SearchTtl = 5
  Duplicates = FALSE
  MaxDeletes = 0
  NoRoute = NoRoute
  NoSearch = NoSearch
  Myself = Myself
PROPERTIES RequesterInformed
