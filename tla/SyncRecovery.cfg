\* A SharedVolume whose interval is left to the default, nothing else happening.
SPECIFICATION LiveSpec
CONSTANTS
  Volumes = {v1}
  Namesakes = {}
  Sources = {s1}
  NoSource = NoSource
  SharedStored = {"unset"}
  ClusterStored = {}
  Chains = {c1, c2}
  NoChain = NoChain
  Recovery = Recovery
  Recovers = TRUE
  MaxEdits = 0
  MaxFlaps = 0
PROPERTIES KeepsSyncing
CHECK_DEADLOCK FALSE
