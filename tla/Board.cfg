SPECIFICATION Spec
CONSTANTS
  a1 = a1
  a2 = a2
  v1 = v1
  v2 = v2
  Absent = Absent
  Resync = Resync
  Id = {a1, a2}
  Version = {v1}
  Capacity = 1
  Wire = 1
  MaxFetches = 1
INVARIANTS
  ListIsMadeGood
PROPERTIES
  BoardCatchesUp
