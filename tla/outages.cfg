\* The node scenarios of every backend, shut downs and zone outages.
CONSTANTS
  Node = {n1, n2}
  Helper = helper
  Runs = 1
  Entries <- Files
  Subnet = {s1, s2}
  ShutClouds = {"aws", "gcp", "az", "openstack", "ibm"}
  ShutRuns = 2
SPECIFICATION Spec
INVARIANTS OutagesInv HonestReturn  RecordedWasAsked ActsOnAll TelemetryComplete AllDownTogether RollbackStarts AclsRestored
CHECK_DEADLOCK FALSE
PROPERTIES OutagesReturn
