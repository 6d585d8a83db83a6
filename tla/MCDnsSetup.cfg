SPECIFICATION Spec
CHECK_DEADLOCK FALSE
CONSTANTS
  Runners = {p1, p2}
  Domains = {"base", "sub", "shop"}
  BaseDomain = "base"
  HostLabel <- MCLabel
  KeptNames = {"@", "mail", "mail.eu"}
  ZonesAtStart <- MCZones
  HostsAtStart <- MCHosts
  FirstFree = 10
  PageSize = 6
  MaxCommands = 2
  MaxFaults = 1
SYMMETRY Symmetry
INVARIANTS
  PublishedStaysPublished
  HostsConverge
PROPERTIES
  ForeignRecordsKept
  AddsNoDuplicate
