CONSTANTS
  RetryNums = {0, 1, 3}
  MaxIds = 5
  Item = {i1, i2}
  Component = {c1, c2}
  Request = {r1, r2}
  Endpoint = endpoint
  Kinds = {"signals", "profiles", "traces"}
SPECIFICATION MCSpec
INVARIANTS
  NoIdForgotten
  RetriesExact
  PostedOnceUnlessRaced
PROPERTIES
  QueueDrains
  NeverCutUnsent
  ItemsLeave
CHECK_DEADLOCK FALSE
