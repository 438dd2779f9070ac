SPECIFICATION Spec
CONSTANTS
  Reqs = {a, b}
  NumLayers = 2
  NumBlocks = 2
  BlockSize = 2
  MaxSeqLen = 4
  TopK = 1
  PromptLens = {1}
  Preemptible = {a, b}
  Pad = Pad
  Idle = Idle
  Empty = Empty
  AsuLayers = {1, 2}
  ManagedSlots = 4
  Invalid = Invalid
  AsuOnly = AsuOnly
  HbmResident = HbmResident
  TailHbm = TailHbm
  Outside = Outside
INVARIANTS SlotsExact ContextOwnsRequest
CHECK_DEADLOCK FALSE
SYMMETRY AnyRequest
