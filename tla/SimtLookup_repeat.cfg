CONSTANTS
  Threads = 2
  IndexSize = 5
  SlotCount = 3
  QueryCount = 3
  Workload <- MixedBatches
SPECIFICATION FairSpecH
INVARIANTS TypeOK EntryStateRestored MissIoExact VictimInRange
PROPERTIES BatchNeverEvicted KernelReturns ImplementsBatchLru
