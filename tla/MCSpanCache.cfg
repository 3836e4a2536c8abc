CONSTANTS
  Key = {k1, k2}
  Data = {d1, d2}
  Size = 2
SPECIFICATION Spec
PROPERTIES
  KeepsExactlySizeTicks
