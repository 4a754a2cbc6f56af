SPECIFICATION MCSpec
CONSTANTS
  Parts = {"netmodel", "bench", "send", "recv", "turbo", "siom", "vector"}
  Weld = {1, 2}
  Worker = {1, 2}
  Thread = {1, 2}
  Sock = {1}
  Inbuf = {1}
  TunBuf = 3
  TunRead = 2
  FragMax = 2
  MaxPacket = 2
  MaxThreads = 3
  Cores = 2
  BenchSizes = {1, 16}
  BenchSamples = 1
  Burst = 2
  MaxCount = 3
  Receiver = {1, 2}
  UpdateAfter = 1
  StepsTillReset = 5
  MaxReceived = 4
  MaxSpeed = 2
  FullTests = 4
  Direction = {"c2s", "s2c"}
  MaxMessage = 3
  MaxWake = 1
  Capacity = 3
  Selector = {1, 2}
  Caller = {1, 2}
  Element = 3
  MaxUse = 2
INVARIANT TypeOK
INVARIANT WeldsAreExclusive
INVARIANT StrandGuardsSocket
INVARIANT ToolsAreExact
INVARIANT TurboInOrder
INVARIANT SharedObjectsHold
PROPERTY ThreadsEnd
CHECK_DEADLOCK FALSE
