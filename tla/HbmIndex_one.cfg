CONSTANTS
  ReqNum = 1
  BlockNum = 1
  IndexSize = 5
  SlotCount = 4
  FreeCount = 2
  QueryCount = 2
  LostParts <- MCLostParts
SPECIFICATION FairSpec
INVARIANTS TypeOK MappingBijective FreePoolExact FreeRowInBounds AnswerStands
PROPERTIES OnlyMaintainEvicts KernelReturns ImplementsPinnedCache
