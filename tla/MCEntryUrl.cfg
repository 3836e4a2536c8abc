CONSTANTS
  Trace <- MCTrace
  TraceSpan <- MCSpan
  TraceOf <- MCTraceOf
  KindOf <- MCKindOf
  ParentOf <- MCParentOf
  Attributed <- MCAttributed
  NoSpan = NoSpan
  Unknown = Unknown
  CacheUrlTime = 1
  ExpireTime = 1
CHECK_DEADLOCK FALSE
SPECIFICATION EntryUrlSpec
INVARIANTS
  NoneWaitsInVain
  CountedOnceUnlessRaced
PROPERTIES
  MappingsKept
  ExitSpansSettle
