CONSTANTS
  Burst = 3
  Rate = 2
  Second = 5
  Horizon = 14
SPECIFICATION LimiterSpec
INVARIANTS
  LimiterTypeOK
  WindowBound
PROPERTIES
  RefusedOnlyWhenSpent
