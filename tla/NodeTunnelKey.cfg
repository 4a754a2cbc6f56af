SPECIFICATION NodeTunnelSpec
CONSTANTS
  Parts = {"tunnel"}
  Homes = {"env", "user"}
  MaxStart = 2
  MaxGen = 2
  Dh = {"X25519"}
  Asym = {"NTRU"}
  Sign = {"Ed25519"}
  MaxKeys = 2
  MaxStarts = 2
  MaxText = 1
  Pair = {"IDI", "IDC"}
  KexSystems = {"X25519"}
  SignSystems = {"Ed25519"}
  MaxKeyNr = 2
  HkeyValue = {1, 2, 3}
  MaxSubkeys = 2
  number_of_tested_cards = 2
  Flavours = {"select", "reactor", "overlapped"}
  MaxUdp = 2
  MaxTun = 3
  WindowSize = 2
  MaxUnit = 3
  MaxSize = 1
  MaxPackets = 2
  MaxSession = 1
  OctetBase = 4
  Numbers = {0, 1, 3, 14, 15, 16, 255, 65535}
  Texts <- MCTexts
  MaxPushed = 2
  SANE_MAX_SIZE_FOR_STRING = 3
  Maxima = {1, 3, 7}
  WordSet = {0, 39330, 65535}
  MaxPayload = 2
  MaxAnswers = 2
  MaxSegments = 5
INVARIANT KeyIsExchanged
CHECK_DEADLOCK FALSE
