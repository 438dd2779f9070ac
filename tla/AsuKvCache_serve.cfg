SPECIFICATION Spec
CONSTANTS
  Reqs = {a, b}
  NumLayers = 2
  NumBlocks = 3
  BlockSize = 2
  MaxSeqLen = 4
  TopK = 2
  PromptLens = {2}
  Preemptible = {}
  Pad = Pad
  Idle = Idle
  Empty = Empty
  AsuLayers = {2}
  ManagedSlots = 4
  Invalid = Invalid
  AsuOnly = AsuOnly
  HbmResident = HbmResident
  TailHbm = TailHbm
  Outside = Outside
INVARIANTS TypeOK RecordIsSource ResidentCopyCurrent
PROPERTIES ResidentStays ImplementsPagedDecode
SYMMETRY AnyRequest
CHECK_DEADLOCK FALSE
