SPECIFICATION FairSpec
CONSTANTS
  Requests = {r1, r2}
  Valid = {r1}
  TimeoutOn = TRUE
INVARIANTS
  TypeOK
  CountersExact
  AckedIsStored
  TimeoutIsFinal
  DrainedLosesNothing
PROPERTIES
  ImplementsContract
  EveryRequestAnswered
  ShutdownEnds
