CONSTANTS
  Trace = {t1}
  NoTrace = NoTrace
  Consumer = {c1, c2}
  IdleTTL = 1
  BlockThreshold = 3
  BlockedIdleTTL = 3
  MaxStall = 1
  MaxBatch = 1
  MaxSpans = 1
SPECIFICATION FairSpec
INVARIANTS
  BlockedOnlyLong
PROPERTIES
  ForgottenOnlyIdle
  LongTracesDropped
  QuietTracesLeave
  ShutdownTerminates
