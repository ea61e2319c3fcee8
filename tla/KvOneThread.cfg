CONSTANTS
  Threads = {t1}
  Conns = {c1, c2}
  Words <- AllWords
  Requests <- ZeroToThree
  Bare = {}
  KvSize = 3
  Null = null
SPECIFICATION FairSpec
CHECK_DEADLOCK FALSE
INVARIANTS TypeOK OwnRequest 
PROPERTIES Answered
