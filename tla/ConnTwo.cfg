CONSTANTS
  Conns = {c1, c2, c3}
  Listener = listener
  Descs <- Numbers4
  Workers = 2
  Senders = {}
  MaxSends = 0
  Nobody = nobody
SPECIFICATION Spec
CHECK_DEADLOCK FALSE
SYMMETRY ConnSymmetry
INVARIANTS AssertHolds
