SPECIFICATION Spec
CONSTANTS
  p1 = p1
  Procs = {p1}
  Ids = {0, 1}
  Own <- MCOwn
  Resolver <- MCSkeleton
  Grants <- MCGrants
  Calls <- MCCalls
  MaxEntries = 1
INVARIANTS
  TypeOK
  RanWithinGrants
  DeniedForCause
