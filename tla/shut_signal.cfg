\* A signal while the pool that stops the nodes is waited for.
CONSTANTS
  Node = {n1, n2}
  Helper = helper
  Runs = 1
  Entries <- NoFiles
  Subnet = {s1, s2}
  ShutClouds = {"aws"}
  ShutRuns = 1
SPECIFICATION Spec
INVARIANT RestoresPoweredOff
CHECK_DEADLOCK FALSE
