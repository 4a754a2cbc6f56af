\* Three nodes, all of which become peers of each other at some time; one peer
\* is deleted or times out at any moment; the address of a contains a ';'.
SPECIFICATION Spec
CONSTANTS
  a = a
  b = b
  c = c
  d = d
  Node = {a, b, c}
  Reference <- TriangleReference
  Flow <- TriangleFlow
  SemicolonHip = {a}
  TtlMaxAccepted = 3
  DataTtl = 3
  SearchTtl = 3
  Duplicates = TRUE
  MaxDeletes = 1
  NoRoute = NoRoute
  NoSearch = NoSearch
  Myself = Myself
INVARIANTS
  TypeOK LoopFree RouteHasTunnel NoSelfQuery FullTtl SemicolonOnlyDirect ForwardLosesTtl
PROPERTY BuildsForest
