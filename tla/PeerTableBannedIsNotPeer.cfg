\* Both threads of one node: is a banned node still a peer?
SPECIFICATION Spec
CONSTANTS
  h1 = h1
  h2 = h2
  p1 = p1
  Hip <- MCHip
  Pip <- MCPip
  NoHip = NoHip
  NoPeer = NoPeer
  NoRef = NoRef
  Unagreeable = {}
  PeerTimeout = 0
  HelloInterval = 1
SYMMETRY Symmetry
\* The program may crash.
CHECK_DEADLOCK FALSE
INVARIANT BannedIsNotPeer
