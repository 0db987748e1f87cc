SPECIFICATION Spec
CONSTANTS
  Users = {alice}
  Conns = {c1}
  Memberships = {{"ebpf"}}
  PolicyConfigs <- CappedOnly
  Orders <- MCOrders
  Requests <- LongRequests
  BufSize = 4096
  DebugOverhead = 90
  ShortLen = 42
  MaxFds = 3
  Faults = FALSE
  MaxCalls = 2
  MaxCrashes = 0
PROPERTY DenialReachesClient
