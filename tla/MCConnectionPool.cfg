SPECIFICATION FairSpec
CONSTANTS
  Callers = {t1, t2, t3}
  Conns = {c1, c2, c3, c4}
  NoConn = NoConn
  SizeArg = 2
  IdleArg = 3
INVARIANTS
  TypeOK
  Accounting
  ExclusiveUse
  SendNeverBlocks
  CreatedBounded
PROPERTIES
  ImplementsLease
  GetReturns
