\* Production's half_open_max.
SPECIFICATION BreakerFairSpec
CONSTANTS
  c1 = c1 c2 = c2 c3 = c3
  Calls = {c1, c2, c3} FailureThreshold = 2 HalfOpenMax = 1
CHECK_DEADLOCK FALSE
PROPERTIES ProbeDecides
