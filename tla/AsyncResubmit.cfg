\* One client that aborts and submits the same id again.
CONSTANTS
  r1 = r1
  r2 = r2
  NoReq = NoReq
  Req <- MCOne
  PromptLen = 2
  MaxOut = 3
  MaxGen = 2
  RankKinds = {TRUE}
  QueueDepth = 2
  Chunked = FALSE
  Preempting = FALSE
SPECIFICATION ServingSpec
INVARIANT HostRowsGenuine
CHECK_DEADLOCK FALSE
