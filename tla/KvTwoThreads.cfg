CONSTANTS
  Threads = {t1, t2}
  Conns = {c1, c2}
  Words <- AllWords
  Requests <- SetAndGet
  Bare = {}
  KvSize = 3
  Null = null
SPECIFICATION Spec
CHECK_DEADLOCK FALSE
INVARIANT OwnRequest
