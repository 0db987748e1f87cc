SPECIFICATION Spec
CONSTANTS
  Users = {alice, bob}
  Conns = {c1, c2}
  Memberships = {{"ebpf"}, {"wheel"}}
  PolicyConfigs <- OpenOnly
  Orders <- MCOrders
  Requests <- ArrayRequests
  BufSize = 4096
  DebugOverhead = 90
  ShortLen = 42
  MaxFds = 3
  Faults = TRUE
  MaxCalls = 2
  MaxCrashes = 0
SYMMETRY Symmetry
INVARIANTS TypeOK RoleJustified GrantJustified NoUnrequestedMaps
