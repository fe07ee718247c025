\* A SharedVolume whose source is edited once, long after the start.
SPECIFICATION LiveSpec
CONSTANTS
  Volumes = {v1}
  Namesakes = {}
  Sources = {s1, s2}
  NoSource = NoSource
  SharedStored = {"set"}
  ClusterStored = {}
  Chains = {c1, c2, c3}
  NoChain = NoChain
  Recovery = Recovery
  Recovers = FALSE
  MaxEdits = 1
  MaxFlaps = 0
PROPERTIES OldConfigurationEnds
CHECK_DEADLOCK FALSE
