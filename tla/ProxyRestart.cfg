SPECIFICATION Spec
CONSTANTS
  Users = {alice}
  Conns = {c1, c2}
  Memberships = {{"ebpf"}, {"wheel"}}
  PolicyConfigs <- OpenOnly
  Orders <- MCOrders
  Requests <- TwoRequests
  BufSize = 4096
  DebugOverhead = 90
  ShortLen = 42
  MaxFds = 3
  Faults = TRUE
  MaxCalls = 2
  MaxCrashes = 1
SYMMETRY Symmetry
INVARIANTS RoleJustified OutcomeTruthful
PROPERTIES ImplementsMonitor
