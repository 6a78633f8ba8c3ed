SPECIFICATION FairSpec
CONSTANTS
  Null = Null
  t1 = t1
  t2 = t2
  b1 = b1
  b2 = b2
  m1 = m1
  m2 = m2
  Template = {t1, t2}
  Bundle = {b1}
  Model = {m1}
  QueueCapacity = 1
  Concurrency = 1
  NoticeCapacity = 2
  CallFaults = FALSE
  ReadFaults = TRUE
  WriteFaults = FALSE
  ContextualChecks = TRUE
  MaxRecords = 3
  MaxRestarts = 0
PROPERTIES
  QueuedIsJudged
