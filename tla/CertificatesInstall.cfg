SPECIFICATION Spec
CHECK_DEADLOCK FALSE
CONSTANTS
  AdminCommands = {"setup", "install"}
  DirsAtStart = {"none", "open"}
  Lifetime = 5
  Threshold = 4
  MaxOutage = 2
  MaxDays = 0
  MaxKeys = 2
INVARIANTS
  WebAdminCanStart
