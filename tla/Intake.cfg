SPECIFICATION Spec
CONSTANTS
  c1 = c1
  Conn = {c1}
  Channel = 1
  EngineChannel = 1
  Batch = 2
  Journal = TRUE
  EngineFaults = TRUE
  MaxBoards = 1
  MaxShed = 0
INVARIANTS
  NothingLeftBehind
  ExportsAtLeastOnce
PROPERTIES
  ImplementsRelay
  WaitsEnd
