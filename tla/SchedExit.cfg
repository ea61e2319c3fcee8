CONSTANTS
  Workers = {w1, w2}
  Jobs = {j1}
  CoJobs = {}
  NoJob = none
  AnyThread = any
  MaxWaits = 1
  NullLink = "process"
SPECIFICATION Spec
SYMMETRY Symmetry
CHECK_DEADLOCK FALSE
INVARIANT ExitQuiet
