SPECIFICATION FairSpec
CONSTANTS
  Users = {alice}
  Conns = {c1, c2}
  Memberships = {{"ebpf"}}
  PolicyConfigs <- NoPolicy
  Orders <- MCOrders
  Requests <- LiveRequests
  BufSize = 4096
  DebugOverhead = 90
  ShortLen = 42
  MaxFds = 2
  Faults = TRUE
  MaxCalls = 2
  MaxCrashes = 1
INVARIANTS OutcomeTruthful NoMutualWait
PROPERTIES Answered Recovers TaskReleased BacklogDrains
