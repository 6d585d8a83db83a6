SPECIFICATION Spec
CONSTANTS
  Admins = {a1, a2}
  Primary = primary
  Default = default
  Domains = {primary, other}
  Transport = transport
  Settings = {transport, maps}
SYMMETRY Symmetry
INVARIANTS
  TypeOK
  InstalledIsConnected
  Reconciles
