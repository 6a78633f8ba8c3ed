SPECIFICATION Spec
CONSTANTS
  Null = Null
  b1 = b1
  b2 = b2
  m1 = m1
  Template = {1, 2}
  Close <- Pair
  Bundle = {b1, b2}
  Model = {m1}
  MaxHops = 2
  ReadFaults = FALSE
  WriteFaults = FALSE
  Corrections = FALSE
  MaxDecisions = 1
  MaxRestarts = 1
INVARIANTS
  OnlyThisBundleIsServed
