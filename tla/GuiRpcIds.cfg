SPECIFICATION Spec
CONSTANTS
  MaxSession = 1
  MaxSent = 0
  Senders = {1}
  Vips = {p1}
  MaxExecutor = 1
  MaxConn = 3
  MaxRequest = 6
  Parts = {"gui"}
INVARIANT RpcIdsUnique
CHECK_DEADLOCK FALSE
