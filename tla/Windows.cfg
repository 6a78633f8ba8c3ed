SPECIFICATION Spec
CONSTANTS
  Null = Null
  t1 = t1
  t2 = t2
  t3 = t3
  h1 = h1
  h2 = h2
  Template = {t1, t2, t3}
  Host = {h1, h2}
  ShortBuckets = 2
  ShortWidth = 1
  LongBuckets = 2
  LongWidth = 2
  SweepInterval = 3
  MaxWindows = 2
  CountThreshold = 3
  RateMultiple = 2
  Gaps <- MCSteady
  MaxNow = 6
  MaxLines = 3
SYMMETRY MCSymmetry
INVARIANTS
  WindowsSlide
  TriggersAreBursts
PROPERTIES
  OnlyIdleOrStalestGo
