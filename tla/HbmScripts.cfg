SPECIFICATION ScriptSpec
CONSTANTS
  ReqNum = 3
  BlockNum = 2
  IndexSize = 20
  SlotCount = 16
  FreeCount = 8
  QueryCount = 8
  LostParts <- MCLostParts
  MissBase = 9
  MissStride = 2
  EvictSlots = {0, 3}
  HashStarts = {7, 15}
  Warmup = 1
  Iters = 2
  Commands <- MCCommands
  None = None
INVARIANTS ResultsMatchReference MeasuresItsIterations
PROPERTIES ScriptEnds
CHECK_DEADLOCK FALSE
