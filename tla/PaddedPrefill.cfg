\* A prompt shorter than its prefill bucket.
CONSTANTS
  r1 = r1
  r2 = r2
  r3 = r3
  NoReq = NoReq
  Req <- MCTwo
  Capacity = 2
  MaxNumSeqs = 2
  QueueDepth = 2
  MaxGen = 2
  MaxLen = 2
  PromptLens <- MCShortPrompt
  Buckets <- MCBuckets
SPECIFICATION ServingSpec
INVARIANT NoPaddingFoldedIn

CHECK_DEADLOCK FALSE
