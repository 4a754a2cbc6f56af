\* One remote node: what must happen eventually (no symmetry).
SPECIFICATION Spec
CONSTANTS
  h1 = h1
  h2 = h2
  p1 = p1
  Hip = {h1}
  Pip <- MCPip
  NoHip = NoHip
  NoPeer = NoPeer
  NoRef = NoRef
  Unagreeable = {}
  PeerTimeout = 1
  HelloInterval = 2
PROPERTIES SilentPeerRemoved ExitEndsLoop
\* The program may crash.
CHECK_DEADLOCK FALSE
