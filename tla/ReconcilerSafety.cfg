\* One volume name, created twice (possibly with the same user-chosen
\* reference value), with a lagging PV informer and one crash.
SPECIFICATION Spec
CONSTANTS
  Volumes = {v1}
  ClusterVolumes = {v1}
  Sourced = {v1}
  Refs = {r1, r2, r3}
  UserRefs = {r1}
  NoRef = NoRef
  NoVolume = NoVolume
  UserNfs = {"none"}
  LaggingKinds = {"pv"}
  FaultOps = {}
  RetryLimit = 1
  MaxUids = 2
  MaxEdits = 0
  MaxFaults = 0
  MaxCrashes = 1
  MaxFlaps = 0
SYMMETRY RandomRefs
INVARIANTS TypeOK ReconcileInv KidsFindable
PROPERTIES NoOrphanCreation RefStable FinalizerKept LiveKidsKept Implements
CHECK_DEADLOCK FALSE
