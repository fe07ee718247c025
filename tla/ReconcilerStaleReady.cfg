\* An NFS server that is down for good after its volume became Ready.
SPECIFICATION ControllerSpec
CONSTANTS
  Volumes = {v1}
  ClusterVolumes = {}
  Sourced = {v1}
  Refs = {r1}
  UserRefs = {}
  NoRef = NoRef
  NoVolume = NoVolume
  UserNfs = {"none"}
  LaggingKinds = {}
  FaultOps = {}
  RetryLimit = 1
  MaxUids = 1
  MaxEdits = 0
  MaxFaults = 0
  MaxCrashes = 0
  MaxFlaps = 1
PROPERTIES ReadyRevokedForNfs
CHECK_DEADLOCK FALSE
