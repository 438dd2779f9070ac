SPECIFICATION Spec
CONSTANTS
  ReqNum = 2
  IndexSize = 16
  QueryTile = 4
  MaxBlocks = 4
  Word = 65536
  None = None
  Stride = 5
  Offset = 3
  Hashes <- MCHashes
  Draws <- MCDraws
  KvBlock = 4
  Hotsets <- MCHotsets
  Warmup = 1
  Iters = 2
  Commands <- MCCommands
INVARIANTS AgreesWithReference TimesWhatItCounts
CHECK_DEADLOCK FALSE
