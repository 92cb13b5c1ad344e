\* Three clients over two slots, scheduled one step ahead.
CONSTANTS
  r1 = r1
  r2 = r2
  r3 = r3
  NoReq = NoReq
  Req <- MCThree
  Capacity = 2
  MaxNumSeqs = 2
  QueueDepth = 2
  MaxGen = 1
  MaxLen = 3
  PromptLens <- MCShortPrompt
  Buckets <- MCBuckets
SPECIFICATION ServingSpec
SYMMETRY MCSymmetry
INVARIANT ServingTypeOK
INVARIANT SlotsDistinct
INVARIANT RowHoldsOwnTokens
INVARIANT SlotsSuffice
PROPERTY ParkedRowsKept
PROPERTY PrivateSpec
CHECK_DEADLOCK FALSE
