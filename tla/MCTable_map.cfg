SPECIFICATION Spec
CONSTANTS
  nil = nil
  u = u
  Keys <- Mixed
  Values = {nil, u}
  Nil = nil
  Coarse <- Huge
  Precision = 2
  Capacities <- Sizes
  InitGrow = 1
  MaxCap = 4
INVARIANTS
  TableTypeOK
  KeysAreApart
PROPERTIES
  KeepsMap
