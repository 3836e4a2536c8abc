CONSTANTS
  NoOne = NoOne
  Pipeline = {"traces", "metrics"}
  Request = {q1}
  MaxMade = 2
  Call = {c1, c2}
  Segment <- MCSegment
  Word <- MCWord
  WordXor <- MCXor
  Write <- MCWrite
  Content <- MCContent
  BufferSize = 1
  MaxStarts = 2
SPECIFICATION ReceiversSpec
INVARIANTS
  ReleasedWhenDown
  SegmentInOnePlace
  PairedUnlessMissed
  ParentsResolve
  SamplesAccounted
PROPERTIES
  AcceptedConsumed
  RequestsAnswered
CHECK_DEADLOCK FALSE
