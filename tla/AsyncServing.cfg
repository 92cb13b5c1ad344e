\* Two clients served to their end, on either kind of rank.
CONSTANTS
  r1 = r1
  r2 = r2
  NoReq = NoReq
  Req <- MCTwo
  PromptLen = 2
  MaxOut = 3
  MaxGen = 1
  RankKinds = {TRUE, FALSE}
  QueueDepth = 2
  Chunked = TRUE
  Preempting = TRUE
SPECIFICATION FairServingSpec
INVARIANT ServingTypeOK
INVARIANT StreamGenuine
INVARIANT HostRowsGenuine
INVARIANT TokensNotDropped
PROPERTY RequestsFinish
CHECK_DEADLOCK FALSE
