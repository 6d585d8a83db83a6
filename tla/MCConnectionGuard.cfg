SPECIFICATION Spec
CONSTANTS
  a1 = a1
  a2 = a2
  b1 = b1
  hostA = hostA
  hostB = hostB
  Conns = {a1, a2, b1}
  Hosts = {hostA, hostB}
  HostOf <- ConnHosts
  Tcp <- TcpConns
  Limits <- Crossed
  BanThreshold = 2
  BanDuration = 1
  MaxTracked = 1
  MaxClosers = 2
  MaxRaces = 1
  MaxBans = 1
  MaxLimiters = 2
  MaxTime = 2
CONSTRAINT RacesFirst
SYMMETRY Symmetry
INVARIANTS
  TypeOK
  LimitsHold
  ActiveGaugeExact
  BannedGaugeCoversBans
