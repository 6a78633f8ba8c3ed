SPECIFICATION Spec
CONSTANTS
  Null = Null
  t1 = t1
  t2 = t2
  b1 = b1
  b2 = b2
  m1 = m1
  m2 = m2
  Template = {t1, t2}
  Bundle = {b1, b2}
  Model = {m1}
  QueueCapacity = 2
  Concurrency = 2
  NoticeCapacity = 4
  CallFaults = TRUE
  ReadFaults = FALSE
  WriteFaults = TRUE
  ContextualChecks = FALSE
  MaxRecords = 2
  MaxRestarts = 1
SYMMETRY MCSymmetry
INVARIANTS
  MokaIsNewest
  WaitingIsOwed
  EveryVerdictHasARecord
  InFlightIsWorked
PROPERTIES
  NeverJudgedTwice
