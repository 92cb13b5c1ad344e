\* Two requests over three blocks, two steps ahead, decodes filled up to three rows.
CONSTANTS
  r1 = r1
  r2 = r2
  NoReq = NoReq
  Req <- MCTwo
  PromptLen <- MCPrompts
  NumBlocks = 3
  BlockSize = 2
  MaxModelLen = 3
  MaxTokens = 4
  SeqBuckets <- MCSeqBuckets
  CtxBuckets <- MCCtxBuckets
  QueueDepth = 2
  Buckets <- MCBuckets
SPECIFICATION ServingSpec
INVARIANT ServingTypeOK
INVARIANT AttendsOwnHistory
INVARIANT KVInPlace
INVARIANT SampledFromLast
CHECK_DEADLOCK FALSE
