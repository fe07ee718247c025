\* One crash of the controller.
SPECIFICATION LiveSpec
CONSTANTS
  Volumes = {v1}
  ClusterVolumes = {}
  Sourced = {v1}
  Refs = {r1}
  UserRefs = {}
  NoRef = NoRef
  NoVolume = NoVolume
  UserNfs = {"none"}
  LaggingKinds = {}
  FaultOps = {}
  RetryLimit = 1
  MaxUids = 1
  MaxEdits = 0
  MaxFaults = 0
  MaxCrashes = 1
  MaxFlaps = 0
PROPERTIES BecomesReady
CHECK_DEADLOCK FALSE
