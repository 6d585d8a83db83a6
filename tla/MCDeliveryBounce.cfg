SPECIFICATION PipeSpec
CONSTANTS
  Messages = {m1}
  Argvs <- MatchingOnly
  EnvFiles = {"readable"}
  Retries = 3
  MaxRequests = 4
INVARIANTS
  FailureIsTemporary
