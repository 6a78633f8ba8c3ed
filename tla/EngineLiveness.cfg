SPECIFICATION FairSpec
CONSTANTS
  Null = Null
  t1 = t1
  t2 = t2
  h1 = h1
  h2 = h2
  Template = {t1, t2}
  Host = {h1}
  Verdicts <- MCGateAndCritical
  GateFloor = 1
  BypassSeverity = 2
  Silence = 1
  Cooldown = 1
  JudgedCapacity = 1
  Mergeable <- MCMerges
  StoreFaults = FALSE
  BundleEdits = FALSE
  MaxAlarms = 2
  MaxCount = 2
INVARIANTS
  StoreMirrorsOpen
PROPERTIES
  ImplementsLifecycle
  ChecksResolve
  FirstSightingRaises
  RestartReopens
  RaisesAreGated
  OnlyAFullChannelForgets
  OrphanedAlarmClears
