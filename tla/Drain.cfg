SPECIFICATION Spec
CONSTANTS
  Null = Null
  n1 = n1
  n2 = n2
  w = w
  x = x
  y = y
  z = z
  star = star
  Lines <- MCLines
  Numeric <- MCNumeric
  Param = star
  Depth = 4
  MaxChildren = 2
  MaxClusters = 3
  MaxLeafClusters = 2
  Similarity <- MCTwoThirds
  ReferralFloor <- MCFloor
  MaxTicks = 6
INVARIANTS
  EveryIndexIsTheTable
  TemplatesFitMembers
  RefoundAtOnce
PROPERTIES
  OnlyLeastRecentGoes
