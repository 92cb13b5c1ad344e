\* Two clients whose ids come back after an abort, over one row too few.
CONSTANTS
  r1 = r1
  r2 = r2
  r3 = r3
  NoReq = NoReq
  Req <- MCTwo
  Capacity = 1
  MaxNumSeqs = 2
  QueueDepth = 2
  MaxGen = 2
  MaxLen = 2
  PromptLens <- MCShortPrompt
  Buckets <- MCBuckets
SPECIFICATION FairServingSpec
INVARIANT RowHoldsOwnTokens
PROPERTY SlotsReturned
CHECK_DEADLOCK FALSE
