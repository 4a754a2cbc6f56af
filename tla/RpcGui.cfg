SPECIFICATION Spec
CONSTANTS
  MaxSession = 2
  MaxSent = 2
  Senders = {1}
  Vips = {p1}
  MaxExecutor = 2
  MaxConn = 3
  MaxRequest = 4
  Parts = {"rpc", "gui"}
INVARIANT TypeOK
INVARIANT OneOperationPerSession
INVARIANT AnswersInOrder
INVARIANT OneRowPerPeer
INVARIANT AppliedOnce
INVARIANT SelectionHolds
PROPERTY DestructionEnds
PROPERTY NoReplySkipped
\* The node ends, the client crashes, and the clients may stop: states with no
\* successor are ends of the system.
CHECK_DEADLOCK FALSE
