SPECIFICATION FairSpec
CONSTANTS
  Messages = {m1}
  Argvs <- Both
  EnvFiles = {"absent", "readable", "unreadable"}
  Retries = 1
  MaxRequests = 4
INVARIANTS
  NoLoss
  StoredUnderItsEnvelope
PROPERTIES
  ScriptEnds
