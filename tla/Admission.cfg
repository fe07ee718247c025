\* Two objects, one after the other, of any of SomeSpecs, and one edit.
CONSTANTS
  None = None
  Unset = Unset
  Malformed = Malformed
  Paths = {"/data"}
  Capacities = {"1Gi", "much"}
  Quantities = {"1Gi"}
  Namespaces = {"home", "far"}
  Home = "home"
  SecretNames = {"secret"}
  UserSpecs <- SomeSpecs
  UserServers = {"plain", "nfs-own"}
  MaxObjects = 2
  MaxEdits = 1
SPECIFICATION Spec
CHECK_DEADLOCK FALSE
INVARIANT AdmissionInv RequestsBuild SecretsWhereDeclared CopyInv ReadyIsSound WritesAccepted
PROPERTY SoundBecomesReady DeletingEnds EditReachesTimer
