CONSTANTS
  Threads = {t1, t2, t3, t4}
  Guards = {"read", "write"}
  Garbage = {TRUE, FALSE}
SPECIFICATION Spec
INVARIANTS TypeOK Exclusion FlagExact
