SPECIFICATION WindowedSpec
CONSTANTS
  Null = Null
  t1 = t1
  h1 = h1
  h2 = h2
  Template = {t1}
  Host = {h1, h2}
  Verdicts <- MCMixed
  GateFloor = 1
  BypassSeverity = 2
  Silence = 1
  Cooldown = 1
  JudgedCapacity = 1
  Mergeable <- MCNoMerges
  StoreFaults = FALSE
  BundleEdits = FALSE
  MaxAlarms = 2
  MaxCount = 2
  ShortBuckets = 2
  ShortWidth = 1
  LongBuckets = 4
  LongWidth = 1
  SweepInterval = 1
  MaxWindows = 1
  CountThreshold = 2
  RateMultiple = 2
  Gaps <- MCSteady
  MaxNow = 4
  MaxLines = 3
PROPERTIES
  BurstIsCovered
  RaisesTookAWindow
