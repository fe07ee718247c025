\* Two pods, no restart and no update of a terminating pod.
SPECIFICATION Spec
CONSTANTS
  Pods = {p1, p2}
  Nobody = Nobody
  Cluster = FALSE
  MaxFaults = 0
PROPERTY DeletedUnused
CHECK_DEADLOCK FALSE
