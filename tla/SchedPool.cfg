CONSTANTS
  Workers = {w1, w2}
  Jobs = {j1, j2}
  CoJobs = {j2}
  NoJob = none
  AnyThread = any
  MaxWaits = 1
  NullLink = "thread"
SPECIFICATION FairSpec
CHECK_DEADLOCK FALSE
INVARIANTS TypeOK ActiveCount PendingCount OnePlace LastWorkerLeavesQuiet DrainedAtDone
PROPERTIES PoolSpec Served Finishes ShutsDown
