CONSTANTS
  Url = {u1}
  Caller = {c1}
  Object = {o1, o2}
  Count = 1
  Period = 2
  Modes = {"wait"}
  NoObject = NoObject
  Samplers = {"top", "any", "single"}
  Duration = {0, 1, 2}
  Threshold = {0, 1}
  Ignore = 1
  Default = 2
  Wait = 2
SPECIFICATION MCSpec
PROPERTY SilenceEnds
