SPECIFICATION Spec
CONSTANTS
  Instances = {service, a, b}
  Supervised = {service}
  Stoppable = {service}
  MaxStarts = 3
  MaxStops = 2
INVARIANTS OwnFileGone OwnerReachable RestIsServed
PROPERTIES EventuallyServed
CHECK_DEADLOCK FALSE
