SPECIFICATION FairSpec
CHECK_DEADLOCK FALSE
CONSTANTS
  TwoPartTLDs <- MCTwoPartTLDs
  Zones <- MCZones
  Policies <- MCPolicies
  Signatures <- MCSignatures
  Configs <- MCConfigs
  MailFroms <- MCMailFroms
  Froms <- MCFroms
  Nil = Nil
  MaxDepth = 3
INVARIANTS
  SPFMatchesRecords
  DispositionFollowsPolicy
PROPERTIES
  VerificationEnds
