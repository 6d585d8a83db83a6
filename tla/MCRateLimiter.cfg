SPECIFICATION LimiterSpec
CONSTANTS
  Threads = {t1, t2}
  Keys = {k1, k2}
  Buckets = {b1, b2, b3}
  NoBucket = NoBucket
  Rate = 60
  Burst = 2
  TTL = 2
  TicksPerSecond = 1
  MaxTime = 5
SYMMETRY Symmetry
INVARIANTS
  RateBound
  StrayBound
