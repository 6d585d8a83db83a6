SPECIFICATION Spec
CHECK_DEADLOCK FALSE
CONSTANTS
  AdminCommands = {"setup", "staging", "renew", "install"}
  DirsAtStart = {"none"}
  Lifetime = 5
  Threshold = 4
  MaxOutage = 2
  MaxDays = 9
  MaxKeys = 2
INVARIANTS
  CommandLeavesPair
  TimerKeepsValid
  WebPairFits
