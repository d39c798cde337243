SPECIFICATION BreakerLiveSpec
CONSTANTS
  c1 = c1
  c2 = c2
  c3 = c3
  Calls <- MCCalls
  FailureThreshold = 3
  SuccessThreshold = 2
  HalfOpenMaxCalls = 3
  OpenTimeout = 2
INVARIANTS BreakerIsExact
PROPERTIES RecoversWithProvider
