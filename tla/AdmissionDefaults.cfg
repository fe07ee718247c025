\* One object of any of SomeSpecs, not edited.
CONSTANTS
  None = None
  Unset = Unset
  Malformed = Malformed
  Paths = {"/data"}
  Capacities = {"1Gi", "much"}
  Quantities = {"1Gi"}
  Namespaces = {"home", "far"}
  Home = "home"
  SecretNames = {"secret"}
  UserSpecs <- SomeSpecs
  UserServers = {"plain", "nfs-own"}
  MaxObjects = 1
  MaxEdits = 0
SPECIFICATION Spec
CHECK_DEADLOCK FALSE
PROPERTY DefaultsSuffice
