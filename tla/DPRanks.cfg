\* Two ranks that speculate, with and without async scheduling; no rank waits
\* forever.
CONSTANTS
  d1 = d1
  d2 = d2
  Ranks <- MCTwoRanks
  MaxReqs = 3
  SeqBuckets <- MCSeqBuckets
  CtxLens <- MCCtxLens
  CtxBuckets <- MCCtxBuckets
  MaxModelLen = 8
  NumSpec = 1
  Ahead = 2
SPECIFICATION FairSpec
INVARIANT TypeOK
INVARIANT SameGraphs
INVARIANT Lockstep
PROPERTY StepsEnd
