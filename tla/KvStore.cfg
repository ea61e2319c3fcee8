CONSTANTS
  Keys = {1, 2, 3}
  Values = {v1, v2}
  Addrs = {a1, a2, a3}
  Header = header
  Null = null
  NoValue = none
  MaxLevel = 3
SPECIFICATION Spec
SYMMETRY AddrSymmetry
INVARIANTS TypeOK ListLinked ListTrimmed
PROPERTIES MapSpec
