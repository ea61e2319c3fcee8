CONSTANTS
  Fds = {3}
  InitialSize = 4
  MaxContexts = 0
  Coros <- BothOf3
  FdOf <- FdOfPair
  EventOf <- EventOfPair
  Workers = {w1}
  Nobody = nobody
  MaxArrivals = 6
  MaxCalls = 0
  Cancels = {}
  Fragile = {3}
SPECIFICATION FairSpec
CHECK_DEADLOCK FALSE
INVARIANTS TypeOK NoCrash CopiesAgree
PROPERTIES WakesUp
