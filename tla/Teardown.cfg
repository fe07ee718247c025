\* A pod that runs in one namespace and one that may come in another, a PV the cache is
\* late to show, and one restart.
SPECIFICATION LiveSpec
CONSTANTS
  n1 = n1
  n2 = n2
  p1 = p1
  p2 = p2
  Namespaces = {n1, n2}
  Pods <- TwoPods
  Running <- SecondPod
  Nobody = Nobody
  Lagging <- Lags
  MaxCrashes = 1
INVARIANTS TeardownInv NoneForgotten
PROPERTIES TeardownEnds Torn KeptForPvs KeepsContract
CHECK_DEADLOCK FALSE
