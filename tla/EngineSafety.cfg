SPECIFICATION Spec
CONSTANTS
  Null = Null
  t1 = t1
  t2 = t2
  h1 = h1
  h2 = h2
  Template = {t1}
  Host = {h1, h2}
  Verdicts <- MCVerdicts
  GateFloor = 1
  BypassSeverity = 2
  Silence = 1
  Cooldown = 1
  JudgedCapacity = 1
  Mergeable <- MCNoMerges
  StoreFaults = TRUE
  BundleEdits = TRUE
  MaxAlarms = 2
  MaxCount = 2
SYMMETRY MCSymmetry
INVARIANTS
  TablesAgree
  OneCheckInFlight
PROPERTIES
  SurfacedStays
  IdsAreNotRecycled
  ReloadKeepsNewest
