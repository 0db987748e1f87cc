SPECIFICATION Spec
CONSTANTS
  Instances = {service, a}
  Supervised = {service}
  Stoppable = {a}
  MaxStarts = 1
  MaxStops = 1
PROPERTIES StatusTruthful
CHECK_DEADLOCK FALSE
