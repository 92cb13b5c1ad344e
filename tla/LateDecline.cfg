\* One request, whose decode bucket is that of its prefill: only a late answer
\* leaves placeholders in place.
CONSTANTS
  r1 = r1
  r2 = r2
  r3 = r3
  none = none
  Req <- MCOne
  NoReq = none
  K = 2
  PromptLen = 1
  MaxOut = 4
  MaxLen = 11
  Buckets = {1}
SPECIFICATION ServingSpec
INVARIANT PlaceholdersOverwritten
CHECK_DEADLOCK FALSE
