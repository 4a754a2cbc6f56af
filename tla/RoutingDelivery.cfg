\* The line a - b - c with a network that delivers: does data get through?
SPECIFICATION FairSpec
CONSTANTS
  a = a
  b = b
  c = c
  d = d
  Node = {a, b, c}
  Reference <- LineReference
  Flow <- LineFlow
  SemicolonHip = {}
  TtlMaxAccepted = 5
  DataTtl = 5
  SearchTtl = 5
  Duplicates = FALSE
  MaxDeletes = 0
  NoRoute = NoRoute
  NoSearch = NoSearch
  Myself = Myself
PROPERTIES TwoHopDelivery FloodOnce
