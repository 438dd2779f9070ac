SPECIFICATION Spec
CONSTANTS
  Reqs = {a, b}
  NumLayers = 1
  NumBlocks = 3
  BlockSize = 2
  MaxSeqLen = 4
  TopK = 1
  PromptLens = {1}
  Preemptible = {a}
  Pad = Pad
  Idle = Idle
  Empty = Empty
  AsuLayers = {1}
  ManagedSlots = 4
  Invalid = Invalid
  AsuOnly = AsuOnly
  HbmResident = HbmResident
  TailHbm = TailHbm
  Outside = Outside
CHECK_DEADLOCK FALSE
INVARIANT RecordIsSource
