SPECIFICATION Spec
CONSTANTS
  Null = Null
  b1 = b1
  b2 = b2
  m1 = m1
  Template = {1, 2, 3}
  Close <- MCChain
  Bundle = {b1, b2}
  Model = {m1}
  MaxHops = 2
  ReadFaults = TRUE
  WriteFaults = TRUE
  Corrections = TRUE
  MaxDecisions = 2
  MaxRestarts = 1
SYMMETRY MCSymmetry
INVARIANTS
  MokaIsNewest
  AliasesMirrorDecisions
PROPERTIES
  DecidedIsNotReasked
  AnswersMoveByMerges
