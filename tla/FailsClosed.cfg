SPECIFICATION Spec
CONSTANTS
  Users = {alice}
  Conns = {c1}
  Memberships = {{"ebpf"}}
  PolicyConfigs <- OpenOnly
  Orders <- MCOrders
  Requests <- HashRequests
  BufSize = 4096
  DebugOverhead = 90
  ShortLen = 42
  MaxFds = 3
  Faults = FALSE
  MaxCalls = 1
  MaxCrashes = 0
INVARIANT FailsClosed
