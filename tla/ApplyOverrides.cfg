\* The script run three times, failing or killed anywhere.
CONSTANTS
  c1 = c1
  c2 = c2
  NumTargets = 2
  CacheEntries <- MCEntries
  MaxRuns = 3
SPECIFICATION Spec
INVARIANT TypeOK
INVARIANT FailureAllOrNothing
INVARIANT OriginalsNeverLost
PROPERTY SuccessIsComplete
CHECK_DEADLOCK FALSE
