CONSTANTS
  Conns = {c1, c2, c3}
  Listener = listener
  Descs <- Numbers3
  Workers = 1
  Senders = {c1}
  MaxSends = 2
  Nobody = nobody
SPECIFICATION FairSpec
CHECK_DEADLOCK FALSE
INVARIANTS TypeOK OwnDescriptor PendingExact
PROPERTIES ServiceSpec Accepted Released
