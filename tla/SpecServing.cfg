\* Three requests of one prompt token and up to four output tokens, two drafts.
CONSTANTS
  r1 = r1
  r2 = r2
  r3 = r3
  none = none
  Req <- MCReq
  NoReq = none
  K = 2
  PromptLen = 1
  MaxOut = 4
  MaxLen = 11
  Buckets = {3}
SPECIFICATION ServingSpec
SYMMETRY MCSymmetry
INVARIANT TypeOK
INVARIANT InputsGenuine
INVARIANT DraftsOwn
INVARIANT DraftsFit
CHECK_DEADLOCK FALSE
