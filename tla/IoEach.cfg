CONSTANTS
  Fds = {3, 4}
  InitialSize = 3
  MaxContexts = 2
  Coros <- OneEach
  FdOf <- FdOfPair
  EventOf <- EventOfPair
  Workers = {w1, w2}
  Nobody = nobody
  MaxArrivals = 2
  MaxCalls = 2
  Cancels <- ReadOf3
  Fragile = {3}
SPECIFICATION FairSpec
CHECK_DEADLOCK FALSE
INVARIANTS NoCrash PendingExact OneWakeSource
PROPERTIES WakesUp
