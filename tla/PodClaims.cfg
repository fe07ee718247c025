\* Two pods that use a ClusterSharedVolume in one namespace, and one fault.
SPECIFICATION LiveSpec
CONSTANTS
  Pods = {p1, p2}
  Nobody = Nobody
  Cluster = TRUE
  MaxFaults = 1
INVARIANTS ClaimsInv ClaimsAttended
PROPERTIES Reclaimed PodsGo KeepsContract
CHECK_DEADLOCK FALSE
