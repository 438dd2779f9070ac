CONSTANTS
  ReqNum = 2
  Steps = 3
  TokensPerReq = 3
  SlotsPerReq = 2
  TargetPerReq = 1
  TopK = 2
SPECIFICATION SpecH
INVARIANTS TypeOK ReserveServes Accounting
PROPERTIES EvictsOldest
CHECK_DEADLOCK FALSE
