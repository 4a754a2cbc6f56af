\* Both threads of one node: safety of the peer table and the black list.
\* No key agreement with h2 is possible, so the two nodes are not symmetric.
SPECIFICATION Spec
CONSTANTS
  h1 = h1
  h2 = h2
  p1 = p1
  Hip <- MCHip
  Pip <- MCPip
  NoHip = NoHip
  NoPeer = NoPeer
  NoRef = NoRef
  Unagreeable = {h2}
  PeerTimeout = 0
  HelloInterval = 1
INVARIANTS TypeOK KeyedPeerHasTunnel
PROPERTIES MainAdmitsNoBanned PubkeyNeverLost MainKeepsWhatItHolds
\* The program may crash.
CHECK_DEADLOCK FALSE
