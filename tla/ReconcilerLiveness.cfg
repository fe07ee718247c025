\* Nothing outside the controller is forced to progress; one of each disturbance.
SPECIFICATION ControllerSpec
CONSTANTS
  Volumes = {v1}
  ClusterVolumes = {}
  Sourced = {v1}
  Refs = {r1}
  UserRefs = {}
  NoRef = NoRef
  NoVolume = NoVolume
  UserNfs = {"none", "external"}
  LaggingKinds = {"pv"}
  FaultOps = {"update", "status", "create", "delete"}
  RetryLimit = 1
  MaxUids = 1
  MaxEdits = 1
  MaxFaults = 1
  MaxCrashes = 1
  MaxFlaps = 1
INVARIANTS VolumesAttended
PROPERTIES DeletionCompletes ReadyRevokedForReplicaSet ReadyUnlessAbandoned ReadyIsSynced NothingLeft
CHECK_DEADLOCK FALSE
