\* A volume of either kind, its source or interval edited twice and its phase changing once;
\* the interval of a ClusterSharedVolume may be malformed.
SPECIFICATION LiveSpec
CONSTANTS
  Volumes = {v1}
  Namesakes = {}
  Sources = {s1}
  NoSource = NoSource
  SharedStored = {"set"}
  ClusterStored = {"set", "malformed"}
  Chains = {c1, c2, c3}
  NoChain = NoChain
  Recovery = Recovery
  Recovers = TRUE
  MaxEdits = 2
  MaxFlaps = 1
INVARIANTS SyncInv RegisteredAlive SyncAttended
PROPERTIES GoneStaysStopped GoneStops KeepsSyncing
CHECK_DEADLOCK FALSE
