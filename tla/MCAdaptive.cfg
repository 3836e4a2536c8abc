CONSTANTS
  u1 = u1
  Key = {t1}
  Data = {g1, g2}
  Url = {u1}
  NoUrl = NoUrl
  Size = 1
  TraceOf <- OneTrace
  Groups <- SomeGroups
  Bits <- OddBits
  Values = {0, 3, 20}
  HoldTime = 2
  Window = 2
  WindowCount = 1
  UrlLimit = 2
  Counter = {k1, k2, k3, k4}
  NoCounter = NoCounter
SPECIFICATION FairSpec
INVARIANTS
  LowUrlBounded
  SlowTracesKept
PROPERTIES
  SampledGroupsSent
