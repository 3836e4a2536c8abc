CONSTANTS
  Service = {"a", "b", "c"}
  Name = {"op"}
  CallKey <- CallKeys
  Span <- Spans
  CacheSize = 1
  MaxServices = 0
  MaxOperations = 0
  Overflow = "overflow"
  MaxCount = 2
CHECK_DEADLOCK FALSE
SPECIFICATION FairSpec
INVARIANTS
  DimensionsKnown
PROPERTIES
  ReportedBeforeDeleted
  CountsCumulative
  SpansExported
  ShutdownTerminates
