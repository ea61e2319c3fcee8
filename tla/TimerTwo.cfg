CONSTANTS
  Threads = {w1, w2}
  Pollers = {w1, w2}
  Timers = {a, b}
  Recurring = {a}
  Delays <- ZeroOne
  MaxTime = 2
  NoThread = none
SPECIFICATION FairSpec
CHECK_DEADLOCK FALSE
INVARIANTS TypeOK OneShotOnce Kept
PROPERTIES CancelIsFinal Expires
