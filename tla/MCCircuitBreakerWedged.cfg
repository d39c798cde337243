SPECIFICATION BreakerSpec
CONSTANTS
  c1 = c1
  c2 = c2
  c3 = c3
  Calls <- MCPair
  FailureThreshold = 2
  SuccessThreshold = 1
  HalfOpenMaxCalls = 1
  OpenTimeout = 2
INVARIANT HalfOpenCanProbe
