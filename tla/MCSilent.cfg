CONSTANTS
  Url = {u1}
  Caller = {c1, c2}
  Object = {o1, o2, o3}
  Count = 3
  Period = 1
  Modes = {"window", "wait"}
  NoObject = NoObject
  Samplers = {"top", "any", "single"}
  Duration = {0, 1, 2}
  Threshold = {0, 1}
  Ignore = 1
  Default = 2
  Wait = 2
SPECIFICATION MCSpec
INVARIANTS
  AdmissionBounded
PROPERTIES
  SilenceEnds
  NormalSpaced
