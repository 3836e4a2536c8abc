CONSTANTS
  Key = {t1}
  Data = {s1, s2}
  Size = 2
  TraceOf <- OneTrace
SPECIFICATION Spec
SYMMETRY Symmetry
INVARIANTS
  StoredAtMostOnce
  OwedSpansSurvive
  NoSpanLost
